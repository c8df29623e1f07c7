------------------------- MODULE TelegramWholeProofs -------------------------
(***************************************************************************)
(* What module Telegram promises of an upload, for any part size, any      *)
(* sizes of its writes and any number of attempts: once it is acknowledged *)
(* all of it is in the chat, cut at MaxPartSize and at nothing else; and   *)
(* acknowledged or not, its parts come in order, each tried RetryAttempts  *)
(* times at most, and none is larger than MaxPartSize.                     *)
(***************************************************************************)
EXTENDS TelegramProofs, FiniteSetTheorems

-----------------------------------------------------------------------------
(* Arithmetic.                                                             *)

(* Products with a part size.                                              *)
LEMMA Times ==
  ASSUME NEW m \in Nat, NEW i \in Nat, NEW j \in Nat
  PROVE  /\ i * m \in Nat /\ (i + j) * m = i * m + j * m /\ (i + 1) * m = i * m + m
         /\ i <= j => i * m <= j * m
OBVIOUS

(* The quotient is the only number with its product in reach.              *)
LEMMA Quotient ==
  ASSUME NEW m \in Nat \ {0}, NEW x \in Nat, NEW q \in Nat, q * m <= x, x < q * m + m
  PROVE  x \div m = q
<1> DEFINE d == x \div m
<1>1. d \in Nat /\ d * m <= x /\ x < d * m + m
  OBVIOUS
<1> HIDE DEF d
<1>2. ASSUME d < q
      PROVE  FALSE
  <2>1. (d + 1) * m <= q * m /\ (d + 1) * m = d * m + m
    BY <1>1, <1>2, Times
  <2>2. d * m \in Nat /\ q * m \in Nat
    BY <1>1, Times
  <2> QED BY <1>1, <2>1, <2>2
<1>3. ASSUME q < d
      PROVE  FALSE
  <2>1. (q + 1) * m <= d * m /\ (q + 1) * m = q * m + m
    BY <1>1, <1>3, Times
  <2>2. d * m \in Nat /\ q * m \in Nat
    BY <1>1, Times
  <2> QED BY <1>1, <2>1, <2>2
<1>4. d = q
  BY <1>1, <1>2, <1>3
<1> QED BY <1>4 DEF d

(* What Write keeps of a buffer of n bytes is a part at most.              *)
LEMMA RestFits ==
  ASSUME NEW n \in Nat \ {0}
  PROVE  /\ FullParts(n) \in Nat /\ FullParts(n) * MaxPartSize \in Nat
         /\ FullParts(n) * MaxPartSize < n /\ n <= FullParts(n) * MaxPartSize + MaxPartSize
<1> DEFINE d == (n - 1) \div MaxPartSize
<1>1. MaxPartSize \in Nat \ {0} /\ n - 1 \in Nat
  BY SizesAssumption
<1>2. d \in Nat /\ d * MaxPartSize <= n - 1 /\ n - 1 < d * MaxPartSize + MaxPartSize
  BY <1>1
<1>3. d * MaxPartSize \in Nat
  BY <1>1, <1>2, Times
<1> HIDE DEF d
<1>4. d * MaxPartSize < n /\ n <= d * MaxPartSize + MaxPartSize
  BY <1>1, <1>2, <1>3
<1> QED BY <1>2, <1>3, <1>4 DEF d, FullParts

-----------------------------------------------------------------------------
(* Sequences.                                                              *)

(* The bytes from a to b of a sequence.                                    *)
LEMMA Slice ==
  ASSUME NEW S, NEW s \in Seq(S), NEW a \in Nat, NEW b \in Nat, a <= b, b <= Len(s)
  PROVE  /\ SubSeq(s, a + 1, b) \in Seq(S) /\ Len(SubSeq(s, a + 1, b)) = b - a
         /\ \A i \in 1 .. b - a : SubSeq(s, a + 1, b)[i] = s[a + i]
<1>1. Len(s) \in Nat /\ a + 1 \in Int /\ b \in Int
  BY LenProperties
<1>2. \A i \in a + 1 .. b : s[i] \in S
  BY <1>1
<1>3. /\ SubSeq(s, a + 1, b) \in Seq(S)
      /\ Len(SubSeq(s, a + 1, b)) = IF a + 1 <= b THEN b - (a + 1) + 1 ELSE 0
      /\ \A i \in 1 .. b - (a + 1) + 1 : SubSeq(s, a + 1, b)[i] = s[a + 1 + i - 1]
  BY <1>1, <1>2, SubSeqProperties
<1>4. b - (a + 1) + 1 = b - a /\ \A i \in Nat : a + 1 + i - 1 = a + i
  BY <1>1
<1>5. Len(SubSeq(s, a + 1, b)) = b - a
  BY <1>1, <1>3, <1>4
<1> QED BY <1>3, <1>4, <1>5

(* A slice of a prefix.                                                    *)
LEMMA SliceOfPrefix ==
  ASSUME NEW S, NEW s \in Seq(S), NEW u \in Seq(S), NEW a \in Nat, NEW b \in Nat,
         a <= b, b <= Len(s)
  PROVE  SubSeq(s \o u, a + 1, b) = SubSeq(s, a + 1, b)
<1> DEFINE w == s \o u
<1>1. /\ w \in Seq(S) /\ Len(w) = Len(s) + Len(u) /\ Len(s) \in Nat /\ Len(u) \in Nat
      /\ \A i \in 1 .. Len(s) : w[i] = s[i]
  BY ConcatProperties, LenProperties
<1> HIDE DEF w
<1>2. b <= Len(w)
  BY <1>1
<1>3. /\ SubSeq(s, a + 1, b) \in Seq(S) /\ Len(SubSeq(s, a + 1, b)) = b - a
      /\ \A i \in 1 .. b - a : SubSeq(s, a + 1, b)[i] = s[a + i]
  BY Slice
<1>4. /\ SubSeq(w, a + 1, b) \in Seq(S) /\ Len(SubSeq(w, a + 1, b)) = b - a
      /\ \A i \in 1 .. b - a : SubSeq(w, a + 1, b)[i] = w[a + i]
  BY <1>1, <1>2, Slice
<1>5. \A i \in 1 .. b - a : a + i \in 1 .. Len(s)
  BY <1>1
<1>6. \A i \in 1 .. b - a : SubSeq(w, a + 1, b)[i] = SubSeq(s, a + 1, b)[i]
  BY <1>1, <1>3, <1>4, <1>5
<1>7. SubSeq(w, a + 1, b) = SubSeq(s, a + 1, b)
  BY <1>3, <1>4, <1>6, SeqEqual
<1> QED BY <1>7 DEF w

(* The slices of what is left of a sequence from a on, and more.           *)
LEMMA SlicesOfRest ==
  ASSUME NEW s \in Seq(Byte), NEW u \in Seq(Byte), NEW a \in Nat, a <= Len(s)
  PROVE  LET r == SubSeq(s, a + 1, Len(s))
         IN  /\ Len(s \o u) = a + Len(r \o u)
             /\ \A i \in Nat : \A j \in Nat :
                  i <= j /\ j <= Len(r \o u)
                    => SubSeq(r \o u, i + 1, j) = SubSeq(s \o u, a + i + 1, a + j)
<1> DEFINE S == Byte
           r == SubSeq(s, a + 1, Len(s))
<1>1. Len(s) <= Len(s) /\ Len(s) \in Nat
  BY LenProperties
<1>2. /\ r \in Seq(S) /\ s \in Seq(S) /\ u \in Seq(S)
      /\ Len(r) = Len(s) - a /\ \A k \in 1 .. Len(s) - a : r[k] = s[a + k]
  BY <1>1, Slice
<1> HIDE DEF S, r
<1> DEFINE w == s \o u
           v == r \o u
<1>3. /\ w \in Seq(S) /\ Len(w) = Len(s) + Len(u) /\ Len(s) \in Nat /\ Len(u) \in Nat
      /\ \A k \in 1 .. Len(s) + Len(u) : w[k] = IF k <= Len(s) THEN s[k] ELSE u[k - Len(s)]
  BY <1>2, ConcatProperties, LenProperties
<1>4. /\ v \in Seq(S) /\ Len(v) = Len(r) + Len(u) /\ Len(r) \in Nat
      /\ \A k \in 1 .. Len(r) + Len(u) : v[k] = IF k <= Len(r) THEN r[k] ELSE u[k - Len(r)]
  BY <1>2, ConcatProperties, LenProperties
<1>5. Len(r) = Len(s) - a /\ \A k \in 1 .. Len(s) - a : r[k] = s[a + k]
  BY <1>2
<1> DEFINE ls == Len(s)
           lr == Len(r)
           lu == Len(u)
<1>6. ls \in Nat /\ lu \in Nat /\ lr \in Nat /\ lr = ls - a /\ a <= ls
      /\ Len(w) = ls + lu /\ Len(v) = lr + lu
  BY <1>3, <1>4, <1>5
<1> HIDE DEF w, v, ls, lr, lu
<1>7. /\ Len(w) = a + Len(v) /\ Len(v) \in Nat /\ Len(w) \in Nat
      /\ v \in Seq(S) /\ w \in Seq(S)
  BY <1>3, <1>4, <1>6 DEF v, w
<1>8. ASSUME NEW k \in 1 .. Len(v)
      PROVE  v[k] = w[a + k]
  <2>1. k \in 1 .. lr + lu /\ a + k \in 1 .. ls + lu /\ (k <= lr <=> a + k <= ls)
        /\ k - lr = a + k - ls
    BY <1>6
  <2>2. CASE k <= lr
    <3>1. k \in 1 .. ls - a
      BY <1>6, <2>1, <2>2
    <3>2. v[k] = r[k] /\ r[k] = s[a + k]
      BY <1>4, <1>5, <2>1, <2>2, <3>1 DEF v, lr, lu, ls
    <3>3. w[a + k] = s[a + k]
      BY <1>3, <2>1, <2>2 DEF w, ls, lu
    <3> QED BY <3>2, <3>3
  <2>3. CASE ~(k <= lr)
    <3>1. v[k] = u[k - lr]
      BY <1>4, <2>1, <2>3 DEF v, lr, lu
    <3>2. w[a + k] = u[a + k - ls]
      BY <1>3, <2>1, <2>3 DEF w, ls, lu
    <3> QED BY <2>1, <3>1, <3>2
  <2> QED BY <2>2, <2>3
<1>9. ASSUME NEW i \in Nat, NEW j \in Nat, i <= j, j <= Len(v)
      PROVE  SubSeq(v, i + 1, j) = SubSeq(w, a + i + 1, a + j)
  <2> DEFINE x == a + i
             y == a + j
  <2>1. x \in Nat /\ y \in Nat /\ x <= y /\ y <= Len(w) /\ y - x = j - i /\ a + i + 1 = x + 1
    BY <1>9, <1>7
  <2>2. /\ SubSeq(v, i + 1, j) \in Seq(S) /\ Len(SubSeq(v, i + 1, j)) = j - i
        /\ \A k \in 1 .. j - i : SubSeq(v, i + 1, j)[k] = v[i + k]
    BY <1>9, <1>7, Slice
  <2>3. ASSUME NEW k \in 1 .. j - i
        PROVE  v[i + k] = w[x + k]
    <3>1. i + k \in 1 .. Len(v) /\ a + (i + k) = x + k
      BY <1>9, <1>7
    <3> QED BY <1>8, <3>1
  <2> HIDE DEF x, y
  <2>4. /\ SubSeq(w, x + 1, y) \in Seq(S) /\ Len(SubSeq(w, x + 1, y)) = j - i
        /\ \A k \in 1 .. j - i : SubSeq(w, x + 1, y)[k] = w[x + k]
    BY <1>7, <2>1, Slice
  <2> DEFINE c == SubSeq(v, i + 1, j)
             e == SubSeq(w, x + 1, y)
             n == j - i
  <2>5. /\ c \in Seq(S) /\ e \in Seq(S) /\ Len(c) = n /\ Len(e) = n
        /\ \A k \in 1 .. n : c[k] = e[k]
    BY <2>2, <2>3, <2>4
  <2>6. c = e
    <3> HIDE DEF c, e, n
    <3> QED BY <2>5, SeqEqual
  <2> QED BY <2>1, <2>6 DEF y
<1> QED BY <1>9, <1>7 DEF r, v, w

-----------------------------------------------------------------------------
(* Cutting.                                                                *)

(* A buffer that has nothing spooled is the whole.                         *)
LEMMA CutBegins ==
  ASSUME NEW w \in Seq(Byte), Len(w) <= MaxPartSize
  PROVE  Cut(w, <<>>, w)
<1>1. Len(w) \in Nat /\ MaxPartSize \in Nat /\ 0 * MaxPartSize = 0
  BY LenProperties, SizesAssumption
<1>2. SubSeq(w, 1, Len(w)) = w
  <2>1. /\ SubSeq(w, 0 + 1, Len(w)) \in Seq(Byte) /\ Len(SubSeq(w, 0 + 1, Len(w))) = Len(w) - 0
        /\ \A i \in 1 .. Len(w) - 0 : SubSeq(w, 0 + 1, Len(w))[i] = w[0 + i]
    BY <1>1, Slice
  <2>2. /\ SubSeq(w, 1, Len(w)) \in Seq(Byte) /\ Len(SubSeq(w, 1, Len(w))) = Len(w)
        /\ \A i \in 1 .. Len(w) : SubSeq(w, 1, Len(w))[i] = w[i]
    BY <1>1, <2>1
  <2> QED BY <2>2, SeqEqual
<1>3. Len(<<>>) = 0 /\ DOMAIN <<>> = {}
  OBVIOUS
<1> QED BY <1>1, <1>2, <1>3 DEF Cut

(* Write: the buffer grows, and its full parts are spooled.                *)
LEMMA CutGrows ==
  ASSUME NEW w \in Seq(Byte), NEW ps \in Seq(Seq(Byte)), NEW r \in Seq(Byte), Cut(w, ps, r),
         NEW more \in Seq(Byte), more # <<>>
  PROVE  LET b == r \o more
             k == FullParts(Len(b))
             all == ps \o [i \in 1 .. k |->
                              SubSeq(b, (i - 1) * MaxPartSize + 1, i * MaxPartSize)]
         IN  Cut(w \o more, all, SubSeq(b, k * MaxPartSize + 1, Len(b))) /\ Len(all) = Len(ps) + k
<1> DEFINE b == r \o more
           k == FullParts(Len(b))
           v == w \o more
           m == MaxPartSize
           p == Len(ps)
           lb == Len(b)
           lw == Len(w)
           pm == p * m
           km == k * m
           qs == [i \in 1 .. k |-> SubSeq(b, (i - 1) * m + 1, i * m)]
           rest == SubSeq(b, k * m + 1, Len(b))
<1>1. m \in Nat \ {0} /\ p \in Nat /\ DOMAIN ps = 1 .. p /\ lw \in Nat
  BY SizesAssumption, LenProperties
<1>2. /\ pm \in Nat /\ pm <= lw /\ r = SubSeq(w, pm + 1, Len(w))
      /\ \A i \in 1 .. p : ps[i] = SubSeq(w, (i - 1) * m + 1, i * m)
  <2>1. pm \in Nat
    <3> HIDE DEF p, m
    <3> QED BY <1>1, Times
  <2> QED BY <1>1, <2>1 DEF Cut
<1>3. b \in Seq(Byte) /\ lb \in Nat \ {0} /\ v \in Seq(Byte)
  <2>1. Len(more) \in Nat \ {0} /\ Len(r) \in Nat
    BY EmptySeq, LenProperties
  <2>2. b \in Seq(Byte) /\ Len(b) = Len(r) + Len(more) /\ v \in Seq(Byte)
    BY ConcatProperties
  <2> QED BY <2>1, <2>2
<1>4. /\ k \in Nat /\ km \in Nat /\ km < lb /\ lb <= km + m
  <2> HIDE DEF b
  <2> QED BY <1>3, RestFits
<1> HIDE DEF pm
<1>5. /\ Len(v) = pm + lb
      /\ \A i \in Nat : \A j \in Nat :
           i <= j /\ j <= lb => SubSeq(b, i + 1, j) = SubSeq(v, pm + i + 1, pm + j)
  <2>1. ASSUME NEW x \in Nat, x <= Len(w)
        PROVE  LET rw == SubSeq(w, x + 1, Len(w))
               IN  /\ Len(w \o more) = x + Len(rw \o more)
                   /\ \A i \in Nat : \A j \in Nat :
                        i <= j /\ j <= Len(rw \o more)
                          => SubSeq(rw \o more, i + 1, j) = SubSeq(w \o more, x + i + 1, x + j)
    <3> HIDE DEF b, k, v, m, p, lb, lw
    <3> QED BY <2>1, SlicesOfRest, ZenonT(60)
  <2>2. pm \in Nat /\ pm <= Len(w)
    BY <1>2
  <2> DEFINE q == SubSeq(w, pm + 1, Len(w))
  <2>3. r = q
    BY <1>2
  <2>4. /\ Len(w \o more) = pm + Len(q \o more)
        /\ \A i \in Nat : \A j \in Nat :
             i <= j /\ j <= Len(q \o more)
               => SubSeq(q \o more, i + 1, j) = SubSeq(w \o more, pm + i + 1, pm + j)
    BY <2>1, <2>2, Zenon
  <2> HIDE DEF q
  <2> QED BY <2>3, <2>4
<1>6. lb = Len(b) /\ lw = Len(w) /\ p = Len(ps)
  OBVIOUS
<1> HIDE DEF b, k, v, m, p, lb, lw
<1>7. pm = p * m /\ km = k * m
  BY DEF pm
<1> HIDE DEF km
<1>8. ASSUME NEW i \in Nat, NEW n \in Nat, i \in 1 .. n
      PROVE  /\ i - 1 \in Nat /\ (i - 1) * m \in Nat /\ i * m \in Nat /\ (i - 1) * m <= i * m
             /\ i * m <= n * m
  <2>1. i - 1 \in Nat /\ i - 1 <= i /\ i <= n /\ m \in Nat
    BY <1>1, <1>8
  <2> QED BY <2>1, Times
<1>9. ASSUME NEW i \in 1 .. k
      PROVE  /\ i \in Nat /\ (i - 1) * m \in Nat /\ i * m \in Nat /\ (i - 1) * m <= i * m
             /\ i * m <= lb
  <2>1. i \in Nat
    BY <1>4
  <2>2. i * m <= km /\ (i - 1) * m \in Nat /\ i * m \in Nat /\ (i - 1) * m <= i * m
    BY <1>4, <1>7, <1>8, <2>1
  <2> DEFINE im == i * m
  <2>3. im \in Nat /\ im <= km
    BY <2>2
  <2> HIDE DEF im
  <2>4. im <= lb
    BY <1>3, <1>4, <2>3
  <2> QED BY <2>1, <2>2, <2>4 DEF im
<1>10. qs \in Seq(Seq(Byte)) /\ Len(qs) = k /\ DOMAIN qs = 1 .. k
  <2>1. ASSUME NEW i \in 1 .. k
        PROVE  SubSeq(b, (i - 1) * m + 1, i * m) \in Seq(Byte)
    <3> DEFINE x == (i - 1) * m
               y == i * m
    <3>1. x \in Nat /\ y \in Nat /\ x <= y /\ y <= Len(b)
      BY <1>6, <1>9
    <3> HIDE DEF x, y
    <3>2. SubSeq(b, x + 1, y) \in Seq(Byte)
      BY <1>3, <3>1, Slice
    <3> QED BY <3>2 DEF x, y
  <2>2. qs \in Seq(Seq(Byte))
    BY <1>4, <2>1, IsASeq
  <2> QED BY <1>4, <2>2
<1> DEFINE all == ps \o qs
<1>11. /\ all \in Seq(Seq(Byte)) /\ Len(all) = p + k /\ DOMAIN all = 1 .. p + k
       /\ \A i \in 1 .. p + k : all[i] = IF i <= p THEN ps[i] ELSE qs[i - p]
  <2> HIDE DEF qs
  <2>1. /\ all \in Seq(Seq(Byte)) /\ Len(all) = Len(ps) + Len(qs)
        /\ \A i \in 1 .. Len(ps) + Len(qs) : all[i] = IF i <= Len(ps) THEN ps[i] ELSE qs[i - Len(ps)]
    BY <1>10, ConcatProperties
  <2>2. DOMAIN all = 1 .. Len(all)
    BY <2>1, LenProperties
  <2> QED BY <1>6, <1>10, <2>1, <2>2
<1>12. (p + k) * m = pm + km
  BY <1>1, <1>4, <1>7, Times
<1>13. ASSUME NEW i \in 1 .. p + k
       PROVE  all[i] = SubSeq(v, (i - 1) * m + 1, i * m)
  <2>1. CASE i <= p
    <3> DEFINE x == (i - 1) * m
               y == i * m
    <3>1. i \in 1 .. p /\ i \in Nat
      BY <1>1, <1>4, <2>1
    <3>2. x \in Nat /\ y \in Nat /\ x <= y /\ y <= pm
      BY <1>1, <1>7, <1>8, <3>1
    <3>3. all[i] = ps[i] /\ ps[i] = SubSeq(w, x + 1, y)
      BY <1>2, <1>11, <2>1, <3>1
    <3> HIDE DEF x, y
    <3>4. y <= Len(w)
      BY <1>1, <1>2, <1>6, <3>2
    <3>5. SubSeq(v, x + 1, y) = SubSeq(w, x + 1, y)
      BY <3>2, <3>4, SliceOfPrefix DEF v
    <3>6. all[i] = SubSeq(v, x + 1, y)
      BY <3>3, <3>5
    <3> QED BY <3>6 DEF x, y
  <2>2. CASE ~(i <= p)
    <3> DEFINE j == i - p
               x == (j - 1) * m
               y == j * m
    <3>1. j \in 1 .. k /\ j \in Nat /\ j - 1 \in Nat /\ i = p + j /\ i - 1 = p + (j - 1)
      BY <1>1, <1>4, <2>2
    <3>2. all[i] = qs[j]
      BY <1>11, <2>2
    <3> HIDE DEF j
    <3>3. x \in Nat /\ y \in Nat /\ x <= y /\ y <= lb
      BY <1>9, <3>1
    <3>4. i * m = pm + y /\ (i - 1) * m = pm + x
      BY <1>1, <1>7, <3>1, Times
    <3>5. qs[j] = SubSeq(b, x + 1, y)
      BY <3>1
    <3> HIDE DEF x, y, qs
    <3>6. SubSeq(b, x + 1, y) = SubSeq(v, pm + x + 1, pm + y)
      BY <1>5, <3>3
    <3> QED BY <3>2, <3>4, <3>5, <3>6
  <2> QED BY <2>1, <2>2
<1>14. /\ rest = SubSeq(v, (p + k) * m + 1, Len(v))
       /\ Len(rest) = lb - km
  <2>1. km <= lb /\ lb <= lb /\ lb \in Nat
    BY <1>3, <1>4
  <2>2. rest = SubSeq(b, km + 1, lb)
    BY <1>6, <1>7
  <2>3. rest = SubSeq(v, pm + km + 1, pm + lb)
    BY <1>4, <1>5, <2>1, <2>2
  <2>4. Len(SubSeq(b, km + 1, lb)) = lb - km
    BY <1>3, <1>4, <1>6, <2>1, Slice
  <2> HIDE DEF rest
  <2> QED BY <1>5, <1>12, <2>2, <2>3, <2>4
<1>15. Len(rest) <= m /\ rest # <<>>
  <2>1. lb - km \in Nat \ {0} /\ lb - km <= m
    BY <1>1, <1>3, <1>4
  <2> HIDE DEF rest
  <2>2. Len(<<>>) = 0
    OBVIOUS
  <2> QED BY <1>14, <2>1, <2>2
<1>16. (p + k) * m <= Len(v)
  <2>1. pm + km <= pm + lb
    BY <1>2, <1>3, <1>4
  <2> QED BY <1>5, <1>12, <2>1
<1> HIDE DEF all, rest
<1>17. Cut(v, all, rest)
  BY <1>11, <1>13, <1>14, <1>15, <1>16 DEF Cut, m
<1> QED BY <1>11, <1>17 DEF v, all, qs, rest, b, k, m, p

(* What is left to send beside the parts is one part more.                 *)
LEMMA CutCounts ==
  ASSUME NEW w \in Seq(Byte), NEW ps \in Seq(Seq(Byte)), NEW r \in Seq(Byte), Cut(w, ps, r),
         r # <<>>
  PROVE  /\ (Len(w) + MaxPartSize - 1) \div MaxPartSize = Len(ps) + 1
         /\ Len(ps) * MaxPartSize \in Nat
<1> DEFINE m == MaxPartSize
           p == Len(ps)
           n == Len(w)
           pm == p * m
           lr == Len(r)
<1>1. m \in Nat \ {0} /\ p \in Nat /\ n \in Nat /\ lr \in Nat \ {0}
  BY SizesAssumption, LenProperties, EmptySeq
<1>2. pm <= n /\ r = SubSeq(w, pm + 1, n) /\ lr <= m
  BY DEF Cut
<1>3. n = Len(w) /\ lr = Len(r)
  OBVIOUS
<1> HIDE DEF m, p, n, lr
<1>4. pm \in Nat /\ (p + 1) * m = pm + m /\ pm = p * m
  BY <1>1, Times
<1> HIDE DEF pm
<1>5. lr = n - pm
  <2>1. n <= n
    BY <1>1
  <2> QED BY <1>1, <1>2, <1>3, <1>4, <2>1, Slice
<1>6. n + m - 1 \in Nat /\ pm + m <= n + m - 1 /\ n + m - 1 < pm + m + m
  BY <1>1, <1>2, <1>4, <1>5
<1>7. p + 1 \in Nat /\ (p + 1) * m <= n + m - 1 /\ n + m - 1 < (p + 1) * m + m
  BY <1>1, <1>4, <1>6
<1>8. (n + m - 1) \div m = p + 1
  BY <1>1, <1>6, <1>7, Quotient
<1> QED BY <1>4, <1>8 DEF m, p, n, pm

-----------------------------------------------------------------------------
(* What a step changes.                                                    *)

(* A transfer that no step touches stays cut as it is.                     *)
LEMMA CutKept ==
  ASSUME NEW t \in Transfers, CutOf(t),
         file'[t] = file[t], chat'[t] = chat[t], sent'[t] = sent[t], found'[t] = found[t]
  PROVE  CutOf(t)'
<1>1. /\ Whole(t)' = Whole(t) /\ Sound(t)' = Sound(t) /\ Sending(t)' = Sending(t)
      /\ Messages(t)' = Messages(t) /\ PartCount(Whole(t))' = PartCount(Whole(t))
      /\ \A n : PartsTo(t, n)' = PartsTo(t, n)
      /\ \A k : Part(Whole(t), k)' = Part(Whole(t), k)
  BY DEF Whole, Upload, Sound, Sending, Multipart, Messages, PartCount, PartsTo, Part
<1> QED BY <1>1 DEF CutOf

(* A step of transfer t keeps CutInv if it keeps what it says of t.        *)
LEMMA CutOfOne ==
  ASSUME CutInv, NEW t \in Transfers, CutOf(t)',
         \A u \in Transfers \ {t} : /\ file'[u] = file[u] /\ chat'[u] = chat[u]
                                    /\ sent'[u] = sent[u] /\ found'[u] = found[u]
  PROVE  CutInv'
<1>1. ASSUME NEW u \in Transfers \ {t}
      PROVE  CutOf(u)'
  BY <1>1, CutKept DEF CutInv
<1> QED BY <1>1 DEF CutInv

(* Bytes that follow each other.                                           *)
LEMMA BytesTyped ==
  ASSUME NEW t \in Transfers, NEW i \in Nat, NEW j \in Nat
  PROVE  /\ Bytes(t, i, i + j) \in Seq(Byte) /\ Len(Bytes(t, i, i + j)) = j
         /\ \A k \in 1 .. j : Bytes(t, i, i + j)[k] = <<t, i + k>>
<1> DEFINE m == (i + j) - i
           s == Bytes(t, i, i + j)
<1>1. m = j
  OBVIOUS
<1>2. s = [k \in 1 .. m |-> <<t, i + k>>]
  BY DEF Bytes
<1> HIDE DEF m, s
<1>3. m \in Nat /\ \A k \in 1 .. m : <<t, i + k>> \in Byte
  BY <1>1 DEF Byte
<1>4. s \in Seq(Byte) /\ Len(s) = m
  <2> DEFINE e(k) == <<t, i + k>>
  <2>1. s = [k \in 1 .. m |-> e(k)] /\ \A k \in 1 .. m : e(k) \in Byte
    BY <1>2, <1>3
  <2> HIDE DEF e
  <2> QED BY <1>3, <2>1, IsASeq
<1>5. \A k \in 1 .. m : s[k] = <<t, i + k>>
  BY <1>2
<1> QED BY <1>1, <1>4, <1>5 DEF s

(* The bytes that a transfer writes next are added to the others.          *)
LEMMA WholeGrows ==
  ASSUME NEW t \in Transfers, NEW s \in Seq(Byte), NEW i \in Nat, NEW j \in Nat
  PROVE  (s \o Bytes(t, 0, i)) \o Bytes(t, i, i + j) = s \o Bytes(t, 0, i + j)
<1> DEFINE x == Bytes(t, 0, i)
           y == Bytes(t, i, i + j)
           z == Bytes(t, 0, i + j)
<1>1. /\ x \in Seq(Byte) /\ Len(x) = i /\ \A k \in 1 .. i : x[k] = <<t, k>>
      /\ z \in Seq(Byte) /\ Len(z) = i + j /\ \A k \in 1 .. i + j : z[k] = <<t, k>>
  <2>1. 0 + i = i /\ 0 + (i + j) = i + j /\ 0 \in Nat /\ i + j \in Nat
        /\ \A k \in Nat : 0 + k = k
    OBVIOUS
  <2>2. /\ Bytes(t, 0, 0 + i) \in Seq(Byte) /\ Len(Bytes(t, 0, 0 + i)) = i
        /\ \A k \in 1 .. i : Bytes(t, 0, 0 + i)[k] = <<t, 0 + k>>
    BY <2>1, BytesTyped
  <2>3. /\ Bytes(t, 0, 0 + (i + j)) \in Seq(Byte) /\ Len(Bytes(t, 0, 0 + (i + j))) = i + j
        /\ \A k \in 1 .. i + j : Bytes(t, 0, 0 + (i + j))[k] = <<t, 0 + k>>
    BY <2>1, BytesTyped
  <2> QED BY <2>1, <2>2, <2>3
<1>2. y \in Seq(Byte) /\ Len(y) = j /\ \A k \in 1 .. j : y[k] = <<t, i + k>>
  BY BytesTyped
<1> HIDE DEF x, y, z
<1>3. x \o y = z
  <2> DEFINE xy == x \o y
  <2>1. /\ xy \in Seq(Byte) /\ Len(xy) = i + j
        /\ \A k \in 1 .. i + j : xy[k] = IF k <= i THEN x[k] ELSE y[k - i]
    BY <1>1, <1>2, ConcatProperties
  <2> HIDE DEF xy
  <2>2. ASSUME NEW k \in 1 .. i + j
        PROVE  xy[k] = z[k]
    <3>1. CASE k <= i
      <4>1. k \in 1 .. i
        BY <3>1
      <4> QED BY <1>1, <2>1, <3>1, <4>1
    <3>2. CASE ~(k <= i)
      <4>1. k - i \in 1 .. j /\ i + (k - i) = k
        BY <3>2
      <4>2. y[k - i] = <<t, k>>
        BY <1>2, <4>1
      <4> QED BY <1>1, <2>1, <3>2, <4>2
    <3> QED BY <3>1, <3>2
  <2>3. xy = z
    BY <1>1, <2>1, <2>2, SeqEqual
  <2> QED BY <2>3 DEF xy
<1>4. (s \o x) \o y = s \o (x \o y)
  <2>1. x \in Seq(Byte) /\ y \in Seq(Byte)
    BY <1>1, <1>2
  <2> QED BY <2>1, ConcatAssociative
<1> QED BY <1>3, <1>4 DEF x, y, z

(* What a transfer had is a sequence of bytes.                             *)
LEMMA WholeTyped ==
  ASSUME TypeOK, NEW t \in Transfers
  PROVE  Whole(t) \in Seq(Byte) /\ Len(Whole(t)) \in Nat
<1>1. sent[t] \in Nat /\ found[t] \in Seq(Byte) /\ 0 \in Nat /\ 0 + sent[t] = sent[t]
  BY DEF TypeOK
<1>2. Bytes(t, 0, 0 + sent[t]) \in Seq(Byte)
  BY <1>1, BytesTyped
<1>3. found[t] \o Bytes(t, 0, sent[t]) \in Seq(Byte)
  BY <1>1, <1>2, ConcatProperties
<1> QED BY <1>3, LenProperties DEF Whole, Upload

(* The parts are those of what came, so they stay while nothing comes.     *)
LEMMA PartsKept ==
  ASSUME NEW t \in Transfers, sent'[t] = sent[t], found'[t] = found[t]
  PROVE  /\ Whole(t)' = Whole(t) /\ PartCount(Whole(t))' = PartCount(Whole(t))
         /\ \A k : Part(Whole(t), k)' = Part(Whole(t), k)
         /\ \A n : PartsTo(t, n)' = PartsTo(t, n)
BY DEF Whole, Upload, PartCount, PartsTo, Part

-----------------------------------------------------------------------------
(* The steps.                                                              *)

(* OpenFile and Create: what the table has is in the buffer.               *)
LEMMA OpenCuts ==
  ASSUME IInv, CutInv, NEW p \in Names, NEW t \in Transfers, OpenFile(t, p) \/ Create(t, p)
  PROVE  CutInv'
<1>1. TypeOK /\ SendInv
  BY DEF IInv
<1>2. file[t].at = "none"
  BY DEF OpenFile, Create
<1>3. /\ file[t].parts = <<>> /\ file[t].totalWritten = 0 /\ file[t].content = <<>>
      /\ sent[t] = 0 /\ found[t] = <<>>
  BY <1>2 DEF CutInv, CutOf
<1>4. file[t].partNumber = 0
  BY <1>1, <1>2 DEF SendInv, Multipart, TypeOK, FileType
<1>5. entries[p].content \in Seq(Byte) /\ <<>> \in Seq(Byte)
  BY <1>1 DEF TypeOK
<1>6. /\ file'[t].at = "open" /\ file'[t].parts = <<>> /\ file'[t].totalWritten = 0
      /\ file'[t].partNumber = 0 /\ file'[t].content = found'[t] /\ found'[t] \in Seq(Byte)
      /\ sent'[t] = 0
      /\ \A u \in Transfers \ {t} : /\ file'[u] = file[u] /\ chat'[u] = chat[u]
                                    /\ sent'[u] = sent[u] /\ found'[u] = found[u]
  <2>1. CASE OpenFile(t, p)
    <3>1. PICK upload \in BOOLEAN :
            file' = [file EXCEPT ![t].at = "open", ![t].path = p, ![t].upload = upload,
                                 ![t].content = entries[p].content]
      BY <2>1 DEF OpenFile
    <3>2. found' = [found EXCEPT ![t] = entries[p].content] /\ UNCHANGED <<chat, sent>>
      BY <2>1 DEF OpenFile
    <3>3. /\ file \in [Transfers -> FileType] /\ found \in [Transfers -> Seq(Byte)]
          /\ file[t] \in FileType
      BY <1>1 DEF TypeOK
    <3> DEFINE f == [file[t] EXCEPT !.at = "open", !.path = p, !.upload = upload,
                                    !.content = entries[p].content]
    <3>4. /\ f.at = "open" /\ f.parts = file[t].parts /\ f.totalWritten = file[t].totalWritten
          /\ f.partNumber = file[t].partNumber /\ f.content = entries[p].content
      BY <3>3 DEF FileType
    <3>5. file' = [file EXCEPT ![t] = f]
      BY <3>1
    <3> HIDE DEF f
    <3> QED BY <1>3, <1>4, <1>5, <3>2, <3>3, <3>4, <3>5
  <2>2. CASE Create(t, p)
    BY <1>1, <1>3, <1>4, <1>5, <2>2 DEF Create, TypeOK, FileType
  <2> QED BY <2>1, <2>2
<1>7. Whole(t)' = found'[t]
  <2>1. Bytes(t, 0, 0 + 0) \in Seq(Byte) /\ Len(Bytes(t, 0, 0 + 0)) = 0 /\ 0 + 0 = 0
    BY BytesTyped
  <2>2. Bytes(t, 0, 0) = <<>>
    BY <2>1, EmptySeq
  <2>3. found'[t] \o <<>> = found'[t]
    BY <1>6, ConcatEmptySeq
  <2> QED BY <1>6, <2>2, <2>3 DEF Whole, Upload
<1>8. Sound(t)' => Cut(found'[t], <<>>, found'[t])
  BY <1>6, CutBegins DEF Sound
<1>9. Len(<<>>) = 0
  OBVIOUS
<1>10. CutOf(t)'
  <2>1. Sound(t)' => Cut(Whole(t)', file'[t].parts, file'[t].content)
    BY <1>6, <1>7, <1>8
  <2> QED BY <1>6, <1>9, <2>1 DEF CutOf
<1> QED BY <1>6, <1>10, CutOfOne

(* Write.                                                                  *)
LEMMA WriteCuts ==
  ASSUME IInv, CutInv, NEW t \in Transfers, NEW n \in Chunks, Write(t, n)
  PROVE  CutInv'
<1>1. TypeOK /\ Writing(t, n)
  BY DEF IInv, Write
<1>2. file[t].at = "open" /\ ~file[t].broken /\ sent' = [sent EXCEPT ![t] = @ + n]
  BY <1>1 DEF Writing
<1>3. n \in Nat \ {0}
  BY SizesAssumption
<1>4. /\ file[t] \in FileType /\ file[t].totalWritten \in Nat /\ file[t].content \in Seq(Byte)
      /\ file[t].parts \in Seq(Seq(Byte)) /\ file[t].partNumber \in Nat
      /\ found[t] \in Seq(Byte)
  BY <1>1 DEF TypeOK, FileType
<1> DEFINE w == file[t].totalWritten
           more == Bytes(t, w, w + n)
           b == file[t].content \o more
           k == FullParts(Len(b))
           f == Spilled(Counted(t, n), b, k)
           qs == [i \in 1 .. k |-> SubSeq(b, (i - 1) * MaxPartSize + 1, i * MaxPartSize)]
           rest == SubSeq(b, k * MaxPartSize + 1, Len(b))
<1>5. file' = [file EXCEPT ![t] = f] /\ UNCHANGED <<chat, found>>
  BY DEF Write, Appended
<1>6. /\ f.at = "open" /\ f.totalWritten = w + n /\ f.broken = file[t].broken
      /\ f.parts = file[t].parts \o qs /\ f.content = rest
      /\ f.partNumber = file[t].partNumber + k
  <2> HIDE DEF b, k
  <2> QED BY <1>2, <1>4 DEF Spilled, Counted, FileType
<1>7. more \in Seq(Byte) /\ Len(more) = n
  BY <1>3, <1>4, BytesTyped
<1>8. more # <<>>
  BY <1>3, <1>7
<1> HIDE DEF more
<1>9. b \in Seq(Byte) /\ Len(b) \in Nat \ {0}
  <2>1. b \in Seq(Byte) /\ Len(b) = Len(file[t].content) + Len(more)
    BY <1>4, <1>7, ConcatProperties
  <2>2. Len(file[t].content) \in Nat
    BY <1>4
  <2> QED BY <1>3, <1>7, <2>1, <2>2
<1> HIDE DEF b
<1> HIDE DEF f, k, qs, rest
<1>12. ASSUME Sound(t)'
       PROVE  /\ sent'[t] = f.totalWritten
              /\ f.partNumber = Len(f.parts)
              /\ Cut(Whole(t)', f.parts, f.content)
  <2>1. Sound(t)
    BY <1>2, <1>5, <1>12 DEF Sound
  <2>2. /\ sent[t] = w /\ file[t].partNumber = Len(file[t].parts)
        /\ Cut(Whole(t), file[t].parts, file[t].content)
    BY <1>2, <2>1 DEF CutInv, CutOf
  <2>3. sent'[t] = w + n /\ found'[t] = found[t]
    BY <1>1, <1>2, <1>5, <2>2 DEF TypeOK
  <2>4. Whole(t)' = Whole(t) \o more
    <3>1. (found[t] \o Bytes(t, 0, w)) \o Bytes(t, w, w + n) = found[t] \o Bytes(t, 0, w + n)
      BY <1>3, <1>4, WholeGrows
    <3> QED BY <2>2, <2>3, <3>1 DEF Whole, Upload, more
  <2>5. /\ Cut(Whole(t) \o more, file[t].parts \o qs, rest)
        /\ Len(file[t].parts \o qs) = Len(file[t].parts) + k
    <3>1. Whole(t) \in Seq(Byte)
      BY <1>1, WholeTyped
    <3> DEFINE whole == Whole(t)
               ps == file[t].parts
               r == file[t].content
    <3>2. /\ whole \in Seq(Byte) /\ ps \in Seq(Seq(Byte)) /\ r \in Seq(Byte)
          /\ Cut(whole, ps, r) /\ more \in Seq(Byte) /\ more # <<>>
      BY <1>4, <1>7, <1>8, <2>2, <3>1
    <3>3. b = r \o more
      BY DEF b
    <3> HIDE DEF whole, ps, r
    <3>4. LET c == r \o more
              d == FullParts(Len(c))
              all == ps \o [i \in 1 .. d |->
                              SubSeq(c, (i - 1) * MaxPartSize + 1, i * MaxPartSize)]
          IN  /\ Cut(whole \o more, all, SubSeq(c, d * MaxPartSize + 1, Len(c)))
              /\ Len(all) = Len(ps) + d
      BY <3>2, CutGrows, ZenonT(60)
    <3>5. Cut(whole \o more, ps \o qs, rest) /\ Len(ps \o qs) = Len(ps) + k
      BY <3>3, <3>4 DEF qs, rest, k
    <3> QED BY <3>5 DEF whole, ps
  <2> QED BY <1>6, <2>2, <2>3, <2>4, <2>5
<1>13. /\ file'[t] = f
       /\ \A u \in Transfers \ {t} : /\ file'[u] = file[u] /\ chat'[u] = chat[u]
                                     /\ sent'[u] = sent[u] /\ found'[u] = found[u]
  BY <1>1, <1>2, <1>5 DEF TypeOK
<1>14. CutOf(t)'
  BY <1>6, <1>12, <1>13 DEF CutOf
<1> QED BY <1>13, <1>14, CutOfOne

(* Nothing is promised of a file whose Close skipped it or failed, nor of  *)
(* one with a failed write.                                                *)
LEMMA UnsoundCuts ==
  ASSUME NEW t \in Transfers,
         \/ file'[t].at \in {"skipped", "failed"}
         \/ file'[t].at = "open" /\ file'[t].broken
  PROVE  CutOf(t)'
BY DEF CutOf, Sound

(* A Write that fails, Read, and the ends of a Close that sends nothing    *)
(* more.                                                                   *)
LEMMA EndCuts ==
  ASSUME IInv, CutInv, NEW t \in Transfers,
         \/ \E n \in Chunks : WriteFails(t, n)
         \/ Read(t) \/ CloseDirectory(t) \/ CloseSpoolFails(t) \/ SendFails(t) \/ ReadPartFails(t)
  PROVE  CutInv'
<1>1. TypeOK
  BY DEF IInv
<1>2. file[t] \in FileType /\ file \in [Transfers -> FileType] /\ sent \in [Transfers -> Nat]
      /\ chat \in [Transfers -> Seq(MessageType)]
  BY <1>1 DEF TypeOK
<1>3. ASSUME NEW n \in Chunks, WriteFails(t, n)
      PROVE  CutInv'
  <2>1. file[t].at = "open" /\ sent' = [sent EXCEPT ![t] = @ + n] /\ UNCHANGED <<chat, found>>
    BY <1>3 DEF WriteFails, Writing
  <2> DEFINE b == Appended(t, n)
             Done(d) == [Spilled(Counted(t, n), b, d) EXCEPT !.broken = TRUE]
  <2>2. PICK d \in 0 .. FullParts(Len(b)) - 1 :
          \/ file' = [file EXCEPT ![t] = Done(d)]
          \/ file' = [file EXCEPT ![t] = [Done(d) EXCEPT !.partNumber = @ + 1, !.tempDir = TRUE]]
    BY <1>3 DEF WriteFails
  <2> HIDE DEF b
  <2>3. Done(d).at = "open" /\ Done(d).broken
    BY <1>2, <2>1 DEF Spilled, Counted, FileType
  <2> DEFINE f == Done(d)
             g == [f EXCEPT !.partNumber = @ + 1, !.tempDir = TRUE]
  <2>4. f.at = "open" /\ f.broken /\ (file' = [file EXCEPT ![t] = f] \/ file' = [file EXCEPT ![t] = g])
    BY <2>2, <2>3
  <2>5. g.at = "open" /\ g.broken
    <3> HIDE DEF f
    <3> QED BY <2>4
  <2> HIDE DEF Done, f, g
  <2>6. /\ file'[t].at = "open" /\ file'[t].broken
        /\ \A u \in Transfers \ {t} : file'[u] = file[u]
    BY <1>2, <2>4, <2>5
  <2>7. \A u \in Transfers \ {t} : sent'[u] = sent[u]
    BY <1>2, <2>1
  <2> QED BY <2>1, <2>6, <2>7, UnsoundCuts, CutOfOne
<1>4. CASE Read(t)
  <2>1. PICK n \in 1 .. Len(file[t].content) - file[t].offset :
          file' = [file EXCEPT ![t].offset = @ + n]
    BY <1>4 DEF Read
  <2>2. /\ file'[t].at = file[t].at /\ file'[t].parts = file[t].parts
        /\ file'[t].content = file[t].content /\ file'[t].broken = file[t].broken
        /\ file'[t].partNumber = file[t].partNumber /\ file'[t].idx = file[t].idx
        /\ file'[t].totalWritten = file[t].totalWritten
        /\ \A u \in Transfers \ {t} : file'[u] = file[u]
    BY <1>2, <2>1 DEF FileType
  <2>3. UNCHANGED <<chat, sent, found>> /\ file[t].at = "open"
    BY <1>4 DEF Read
  <2>4. Whole(t)' = Whole(t) /\ Sound(t)' = Sound(t)
    BY <2>2, <2>3 DEF Whole, Upload, Sound
  <2>5. CutOf(t)'
    BY <2>2, <2>3, <2>4 DEF CutInv, CutOf
  <2> QED BY <2>2, <2>3, <2>5, CutOfOne
<1>5. CASE CloseDirectory(t) \/ CloseSpoolFails(t) \/ SendFails(t) \/ ReadPartFails(t)
  <2>1. /\ \E at \in {"skipped", "failed"} : file' = [file EXCEPT ![t].at = at]
        /\ UNCHANGED <<sent, found>>
    BY <1>5 DEF CloseDirectory, CloseSpoolFails, SendFails, ReadPartFails, Fail
  <2>2. \A u \in Transfers \ {t} : chat'[u] = chat[u]
    BY <1>2, <1>5 DEF CloseDirectory, CloseSpoolFails, SendFails, ReadPartFails
  <2>3. file'[t].at \in {"skipped", "failed"} /\ \A u \in Transfers \ {t} : file'[u] = file[u]
    BY <1>2, <2>1 DEF FileType
  <2> QED BY <2>1, <2>2, <2>3, UnsoundCuts, CutOfOne
<1> QED BY <1>3, <1>4, <1>5

(* The parts up to one more.                                               *)
LEMMA PartsToNext ==
  ASSUME NEW t \in Transfers, NEW n \in Nat
  PROVE  PartsTo(t, 0) = {} /\ PartsTo(t, n + 1) = PartsTo(t, n) \cup {Part(Whole(t), n + 1)}
<1>1. 1 .. n + 1 = 1 .. n \cup {n + 1} /\ 1 .. 0 = {}
  OBVIOUS
<1> QED BY <1>1 DEF PartsTo

(* What CutInv says of a transfer that sends, or has sent, in terms of the *)
(* parts there were before the step.                                       *)
LEMMA SendingCuts ==
  ASSUME NEW t \in Transfers, sent'[t] = sent[t], found'[t] = found[t],
         file'[t].broken = file[t].broken,
         \/ /\ file'[t].at = "sending"
            /\ Sound(t) =>
                 /\ Len(Sending(t)') = PartCount(Whole(t))
                 /\ \A k \in 1 .. PartCount(Whole(t)) : Sending(t)'[k] = Part(Whole(t), k).data
                 /\ PartsTo(t, file'[t].idx - 1) \subseteq Messages(t)'
                 /\ Messages(t)' \subseteq PartsTo(t, file'[t].idx)
         \/ /\ file'[t].at \in {"entering", "creating", "sizing", "caching", "closed"}
            /\ Sound(t) => Messages(t)' = PartsTo(t, PartCount(Whole(t)))
  PROVE  CutOf(t)'
<1>1. Sound(t)' = Sound(t)
  BY DEF Sound
<1>2. /\ PartCount(Whole(t))' = PartCount(Whole(t))
      /\ \A k : Part(Whole(t), k)' = Part(Whole(t), k)
  BY PartsKept
<1>3. CASE file'[t].at = "sending"
  <2>1. /\ PartsTo(t, file[t].idx - 1)' = PartsTo(t, file'[t].idx - 1)
        /\ PartsTo(t, file[t].idx)' = PartsTo(t, file'[t].idx)
    BY <1>2 DEF PartsTo
  <2>2. ASSUME Sound(t)
        PROVE  /\ Len(Sending(t))' = PartCount(Whole(t))'
               /\ \A k \in 1 .. PartCount(Whole(t))' : (Sending(t)[k])' = (Part(Whole(t), k).data)'
               /\ PartsTo(t, file[t].idx - 1)' \subseteq Messages(t)'
               /\ Messages(t)' \subseteq PartsTo(t, file[t].idx)'
    BY <1>2, <1>3, <2>1, <2>2
  <2> QED BY <1>1, <1>3, <2>2 DEF CutOf
<1>4. CASE file'[t].at \in {"entering", "creating", "sizing", "caching", "closed"}
  <2>1. PartsTo(t, PartCount(Whole(t)))' = PartsTo(t, PartCount(Whole(t)))
    BY <1>2 DEF PartsTo
  <2> QED BY <1>1, <1>4, <2>1 DEF CutOf
<1> QED BY <1>3, <1>4

(* Close: what is cut is what is sent.                                     *)
LEMMA CloseCuts ==
  ASSUME IInv, CutInv, NEW t \in Transfers, CloseEmpty(t) \/ CloseSingle(t) \/ CloseMultipart(t)
  PROVE  CutInv'
<1>1. TypeOK /\ SendInv
  BY DEF IInv
<1>2. /\ file[t] \in FileType /\ file \in [Transfers -> FileType]
      /\ file[t].content \in Seq(Byte) /\ file[t].parts \in Seq(Seq(Byte))
      /\ file[t].partNumber \in Nat
  BY <1>1 DEF TypeOK, FileType
<1>3. file[t].at = "open" /\ UNCHANGED <<entries, spool, chat, sent, found>>
  BY DEF CloseEmpty, CloseSingle, CloseMultipart
<1>4. Messages(t)' = {} /\ file[t].idx = 1
  BY <1>1, <1>3 DEF SendInv, Messages
<1> DEFINE whole == Whole(t)
           parts == file[t].parts
           r == file[t].content
           m == MaxPartSize
<1>6. whole \in Seq(Byte) /\ Len(whole) \in Nat /\ m \in Nat \ {0}
  BY <1>1, WholeTyped, SizesAssumption
<1>7. ASSUME Sound(t)
      PROVE  file[t].partNumber = Len(parts) /\ Cut(whole, parts, r)
  BY <1>3, <1>7 DEF CutInv, CutOf
<1>8. PartCount(Whole(t)) = (Len(whole) + m - 1) \div m
  BY DEF PartCount
<1>9. \A k : Part(Whole(t), k).data = SubSeq(whole, (k - 1) * m + 1,
                                      IF k < PartCount(Whole(t)) THEN k * m ELSE Len(whole))
  BY DEF Part
<1>10. CASE CloseEmpty(t)
  <2>1. /\ file[t].partNumber = 0 /\ r = <<>>
        /\ file' = [file EXCEPT ![t].at = "entering"]
    BY <1>10 DEF CloseEmpty
  <2>2. /\ file'[t].at = "entering" /\ file'[t].broken = file[t].broken
        /\ \A u \in Transfers \ {t} : file'[u] = file[u]
    BY <1>2, <2>1 DEF FileType
  <2>4. ASSUME Sound(t)
        PROVE  PartCount(Whole(t)) = 0
    <3>1. Len(parts) = 0 /\ r = SubSeq(whole, Len(parts) * m + 1, Len(whole))
      BY <1>7, <2>1, <2>4 DEF Cut
    <3>2. <<>> = SubSeq(whole, 0 + 1, Len(whole))
      BY <1>6, <2>1, <3>1
    <3>3. Len(SubSeq(whole, 0 + 1, Len(whole))) = Len(whole) - 0
      <4> HIDE DEF whole
      <4>1. 0 \in Nat /\ 0 <= Len(whole) /\ Len(whole) <= Len(whole)
        BY <1>6
      <4> QED BY <1>6, <4>1, Slice
    <3>4. Len(whole) = 0
      BY <1>6, <3>2, <3>3
    <3>5. 0 * m <= m - 1 /\ m - 1 < 0 * m + m /\ 0 \in Nat /\ m - 1 \in Nat
      BY <1>6
    <3>6. (m - 1) \div m = 0
      <4> HIDE DEF m
      <4> QED BY <1>6, <3>5, Quotient
    <3> QED BY <1>6, <1>8, <3>4, <3>6
  <2>5. CutOf(t)'
    BY <1>3, <1>4, <2>2, <2>4, PartsToNext, SendingCuts
  <2> QED BY <1>3, <2>2, <2>5, CutOfOne
<1>11. CASE CloseSingle(t) \/ CloseMultipart(t)
  <2>1. /\ file'[t].at = "sending" /\ file'[t].broken = file[t].broken
        /\ file'[t].idx = 1
        /\ \A u \in Transfers \ {t} : file'[u] = file[u]
        /\ Sound(t) => Sending(t)' = Append(parts, r) /\ r # <<>>
    <3>1. CASE CloseSingle(t)
      <4>1. file[t].partNumber = 0 /\ r # <<>> /\ file' = [file EXCEPT ![t].at = "sending"]
        BY <3>1 DEF CloseSingle
      <4>2. /\ file'[t].at = "sending" /\ file'[t].broken = file[t].broken
            /\ file'[t].idx = file[t].idx /\ file'[t].content = r /\ file'[t].partNumber = 0
            /\ \A u \in Transfers \ {t} : file'[u] = file[u]
        BY <1>2, <4>1 DEF FileType
      <4>3. ASSUME Sound(t)
            PROVE  Sending(t)' = Append(parts, r)
        <5>1. Len(parts) = 0 /\ parts \in Seq(Seq(Byte))
          BY <1>2, <1>7, <4>1, <4>3
        <5>2. parts = <<>>
          BY <5>1, EmptySeq
        <5>3. Sending(t)' = <<r>>
          BY <4>2 DEF Sending, Multipart
        <5>4. Append(<<>>, r) = <<r>>
          OBVIOUS
        <5> HIDE DEF parts, r
        <5> QED BY <5>2, <5>3, <5>4
      <4> QED BY <1>4, <4>1, <4>2, <4>3
    <3>2. CASE CloseMultipart(t)
      <4>1. /\ file[t].partNumber > 0
            /\ file' = [file EXCEPT ![t].at = "sending", ![t].parts = Append(@, file[t].content),
                                    ![t].partNumber = @ + 1]
        BY <3>2 DEF CloseMultipart
      <4>2. /\ file'[t].at = "sending" /\ file'[t].broken = file[t].broken
            /\ file'[t].idx = file[t].idx /\ file'[t].parts = Append(parts, r)
            /\ file'[t].partNumber = file[t].partNumber + 1
            /\ \A u \in Transfers \ {t} : file'[u] = file[u]
        BY <1>2, <4>1 DEF FileType
      <4>3. Sending(t)' = Append(parts, r)
        BY <1>2, <4>1, <4>2 DEF Sending, Multipart
      <4>4. Sound(t) => r # <<>>
        <5>1. Sound(t) => Len(parts) > 0 /\ (parts # <<>> => r # <<>>)
          BY <1>7, <4>1 DEF Cut
        <5> QED BY <5>1
      <4> QED BY <1>4, <4>2, <4>3, <4>4
    <3> QED BY <1>11, <3>1, <3>2
  <2>3. ASSUME Sound(t)
        PROVE  /\ Len(Sending(t)') = PartCount(Whole(t))
               /\ \A k \in 1 .. PartCount(Whole(t)) : Sending(t)'[k] = Part(Whole(t), k).data
    <3> DEFINE p == Len(parts)
               s == Sending(t)'
    <3>1. s = Append(parts, r) /\ r # <<>> /\ Cut(whole, parts, r)
      BY <1>7, <2>1, <2>3
    <3> HIDE DEF s, whole, m, r, parts
    <3>2. p \in Nat /\ Len(s) = p + 1 /\ s[p + 1] = r /\ \A k \in 1 .. p : s[k] = parts[k]
      BY <1>2, <3>1, AppendProperties DEF parts, r
    <3>3. PartCount(Whole(t)) = p + 1
      BY <1>2, <1>6, <1>8, <3>1, CutCounts DEF m, parts, r
    <3>4. /\ \A k \in 1 .. p : parts[k] = SubSeq(whole, (k - 1) * m + 1, k * m)
          /\ r = SubSeq(whole, p * m + 1, Len(whole))
      <4>1. DOMAIN parts = 1 .. p /\ m = MaxPartSize
        BY <1>2, LenProperties DEF parts, m
      <4>2. /\ \A k \in DOMAIN parts :
                 parts[k] = SubSeq(whole, (k - 1) * MaxPartSize + 1, k * MaxPartSize)
            /\ r = SubSeq(whole, Len(parts) * MaxPartSize + 1, Len(whole))
        BY <3>1 DEF Cut
      <4> QED BY <4>1, <4>2
    <3>5. ASSUME NEW k \in 1 .. p + 1
          PROVE  s[k] = Part(Whole(t), k).data
      <4>1. CASE k \in 1 .. p
        <5>1. k < PartCount(Whole(t))
          BY <3>2, <3>3, <4>1
        <5> QED BY <1>9, <3>2, <3>4, <4>1, <5>1
      <4>2. CASE k = p + 1
        <5>1. ~(k < PartCount(Whole(t))) /\ k - 1 = p
          BY <3>2, <3>3, <4>2
        <5> QED BY <1>9, <3>2, <3>4, <4>2, <5>1
      <4> QED BY <3>2, <4>1, <4>2
    <3> QED BY <3>2, <3>3, <3>5 DEF s
  <2>4. PartsTo(t, 1 - 1) = {}
    BY PartsToNext
  <2>5. CutOf(t)'
    BY <1>3, <1>4, <2>1, <2>3, <2>4, SendingCuts
  <2> QED BY <1>3, <2>1, <2>5, CutOfOne
<1> QED BY <1>10, <1>11

(* What is delivered is one message more.                                  *)
LEMMA DeliveredExactly ==
  ASSUME IInv, NEW t \in Transfers, file[t].at = "sending", Deliver(t)
  PROVE  Messages(t)' = Messages(t) \cup {Message(t)}
<1>1. chat \in [Transfers -> Seq(MessageType)] /\ Message(t) \in MessageType
  BY MessageTyped DEF IInv, TypeOK
<1> DEFINE s == chat[t]
           n == Len(s)
           m == Message(t)
<1>2. s \in Seq(MessageType) /\ chat'[t] = Append(s, m)
  BY <1>1 DEF Deliver
<1> HIDE DEF m
<1>3. m \in MessageType
  BY <1>1 DEF m
<1> HIDE DEF s
<1>4. /\ n \in Nat /\ DOMAIN s = 1 .. n
      /\ DOMAIN Append(s, m) = 1 .. n + 1
      /\ Append(s, m)[n + 1] = m
      /\ \A i \in 1 .. n : Append(s, m)[i] = s[i]
  BY <1>2, <1>3, AppendProperties, LenProperties
<1>5. {Append(s, m)[i] : i \in 1 .. n + 1} = {s[i] : i \in 1 .. n} \cup {m}
  <2> HIDE DEF n
  <2>1. 1 .. n + 1 = 1 .. n \cup {n + 1}
    BY <1>4
  <2> QED BY <1>4, <2>1
<1>6. Messages(t)' = {Append(s, m)[i] : i \in 1 .. n + 1}
  BY <1>2, <1>4 DEF Messages
<1>7. Messages(t) = {s[i] : i \in 1 .. n}
  BY <1>4 DEF Messages, s
<1> QED BY <1>5, <1>6, <1>7 DEF m

(* Sending, and sending again what may already be there.                   *)
LEMMA SendCuts ==
  ASSUME IInv, CutInv, NEW t \in Transfers, Send(t) \/ SendAgain(t)
  PROVE  CutInv'
<1>1. TypeOK /\ SendInv
  BY DEF IInv
<1>2. /\ file[t] \in FileType /\ file \in [Transfers -> FileType] /\ file[t].idx \in Nat
      /\ chat \in [Transfers -> Seq(MessageType)]
  BY <1>1 DEF TypeOK, FileType
<1>3. file[t].at = "sending" /\ UNCHANGED <<sent, found>>
  BY DEF Send, SendAgain
<1> DEFINE idx == file[t].idx
           n == Len(Sending(t))
<1>4. idx \in 1 .. n /\ n \in Nat
  BY <1>1, <1>3, MessageTyped
<1>5. ASSUME Sound(t)
      PROVE  /\ n = PartCount(Whole(t)) /\ Message(t) = Part(Whole(t), idx)
             /\ \A k \in 1 .. PartCount(Whole(t)) : Sending(t)[k] = Part(Whole(t), k).data
             /\ PartsTo(t, idx - 1) \subseteq Messages(t)
             /\ Messages(t) \subseteq PartsTo(t, idx)
             /\ PartsTo(t, idx) = PartsTo(t, idx - 1) \cup {Part(Whole(t), idx)}
  <2>1. /\ n = PartCount(Whole(t))
        /\ \A k \in 1 .. PartCount(Whole(t)) : Sending(t)[k] = Part(Whole(t), k).data
        /\ PartsTo(t, idx - 1) \subseteq Messages(t)
        /\ Messages(t) \subseteq PartsTo(t, idx)
    BY <1>3, <1>5 DEF CutInv, CutOf
  <2>2. Sending(t)[idx] = Part(Whole(t), idx).data
    BY <1>4, <2>1
  <2>3. Message(t) = Part(Whole(t), idx)
    BY <2>1, <2>2 DEF Message, Part
  <2>4. idx - 1 \in Nat /\ (idx - 1) + 1 = idx
    BY <1>4
  <2>5. PartsTo(t, idx) = PartsTo(t, idx - 1) \cup {Part(Whole(t), idx)}
    BY <2>4, PartsToNext
  <2> QED BY <2>1, <2>3, <2>5
<1>6. ASSUME Deliver(t), Sound(t)
      PROVE  Messages(t)' = PartsTo(t, idx)
  <2>1. Messages(t)' = Messages(t) \cup {Message(t)}
    BY <1>3, <1>6, DeliveredExactly
  <2> QED BY <1>5, <1>6, <2>1
<1>7. CASE Send(t) /\ idx = n
  <2>1. file' = [file EXCEPT ![t].at = "entering"] /\ Deliver(t)
    BY <1>7 DEF Send
  <2>2. /\ file'[t].at = "entering" /\ file'[t].broken = file[t].broken
        /\ \A u \in Transfers \ {t} : file'[u] = file[u] /\ chat'[u] = chat[u]
    BY <1>2, <2>1 DEF FileType, Deliver
  <2>3. Sound(t) => Messages(t)' = PartsTo(t, PartCount(Whole(t)))
    BY <1>5, <1>6, <1>7, <2>1
  <2>4. CutOf(t)'
    BY <1>3, <2>2, <2>3, SendingCuts
  <2> QED BY <1>3, <2>2, <2>4, CutOfOne
<1>8. ASSUME file'[t].at = "sending", file'[t].broken = file[t].broken,
             file'[t].content = file[t].content, file'[t].parts = file[t].parts,
             file'[t].partNumber = file[t].partNumber,
             \A u \in Transfers \ {t} : file'[u] = file[u],
             \/ Deliver(t) /\ file'[t].idx \in {idx, idx + 1}
             \/ UNCHANGED chat /\ file'[t].idx = idx
      PROVE  CutInv'
  <2>1. Sending(t)' = Sending(t)
    BY <1>8 DEF Sending, Multipart
  <2>2. ASSUME Sound(t)
        PROVE  /\ PartsTo(t, file'[t].idx - 1) \subseteq Messages(t)'
               /\ Messages(t)' \subseteq PartsTo(t, file'[t].idx)
    <3>1. CASE UNCHANGED chat /\ file'[t].idx = idx
      <4>1. Messages(t)' = Messages(t)
        BY <3>1 DEF Messages
      <4> QED BY <1>5, <2>2, <3>1, <4>1
    <3>2. CASE Deliver(t) /\ file'[t].idx = idx
      BY <1>5, <1>6, <2>2, <3>2
    <3>3. CASE Deliver(t) /\ file'[t].idx = idx + 1
      <4>1. (idx + 1) - 1 = idx
        BY <1>2
      <4>2. PartsTo(t, idx) \subseteq PartsTo(t, idx + 1)
        BY <1>2, PartsToNext
      <4>3. Messages(t)' = PartsTo(t, idx)
        BY <1>6, <2>2, <3>3
      <4> HIDE DEF idx
      <4> QED BY <3>3, <4>1, <4>2, <4>3
    <3> QED BY <1>8, <3>1, <3>2, <3>3
  <2>3. CutOf(t)'
    BY <1>3, <1>5, <1>8, <2>1, <2>2, SendingCuts
  <2>4. \A u \in Transfers \ {t} : chat'[u] = chat[u]
    BY <1>2, <1>8 DEF Deliver
  <2> QED BY <1>3, <1>8, <2>3, <2>4, CutOfOne
<1>9. CASE Send(t) /\ idx # n
  <2>1. file' = [file EXCEPT ![t].idx = @ + 1, ![t].attempt = 1] /\ Deliver(t)
    BY <1>9 DEF Send
  <2> DEFINE f == [file[t] EXCEPT !.idx = idx + 1, !.attempt = 1]
  <2>2. /\ f.at = file[t].at /\ f.broken = file[t].broken /\ f.content = file[t].content
        /\ f.parts = file[t].parts /\ f.partNumber = file[t].partNumber /\ f.idx = idx + 1
    BY <1>2 DEF FileType
  <2>3. file' = [file EXCEPT ![t] = f]
    BY <2>1
  <2> HIDE DEF f, idx
  <2> QED BY <1>2, <1>3, <1>8, <2>1, <2>2, <2>3
<1>10. CASE SendAgain(t)
  <2>1. file' = [file EXCEPT ![t].attempt = @ + 1] /\ (Deliver(t) \/ UNCHANGED chat)
    BY <1>10 DEF SendAgain
  <2> DEFINE f == [file[t] EXCEPT !.attempt = @ + 1]
  <2>2. /\ f.at = file[t].at /\ f.broken = file[t].broken /\ f.content = file[t].content
        /\ f.parts = file[t].parts /\ f.partNumber = file[t].partNumber /\ f.idx = file[t].idx
    BY <1>2 DEF FileType
  <2>3. file' = [file EXCEPT ![t] = f]
    BY <2>1
  <2> HIDE DEF f
  <2> QED BY <1>2, <1>3, <1>8, <2>1, <2>2, <2>3
<1> QED BY <1>7, <1>9, <1>10

(* The table: the chat has it all by then.                                 *)
LEMMA TableCuts ==
  ASSUME IInv, CutInv, NEW t \in Transfers,
         StatName(t) \/ CreateName(t) \/ SetSize(t) \/ SetContent(t)
  PROVE  CutInv'
<1>1. file[t] \in FileType /\ file \in [Transfers -> FileType]
  BY DEF IInv, TypeOK
<1>2. file[t].at \in {"entering", "creating", "sizing", "caching"} /\ UNCHANGED <<chat, sent, found>>
  BY DEF StatName, CreateName, SetSize, SetContent
<1>3. /\ file'[t].at \in {"creating", "sizing", "caching", "closed"}
      /\ file'[t].broken = file[t].broken
      /\ \A u \in Transfers \ {t} : file'[u] = file[u]
  <2>1. CASE StatName(t) \/ CreateName(t) \/ SetSize(t)
    <3>1. \E at \in {"creating", "sizing", "caching", "closed"} : file' = [file EXCEPT ![t].at = at]
      BY <2>1 DEF StatName, CreateName, SetSize
    <3> QED BY <1>1, <3>1 DEF FileType
  <2>2. CASE SetContent(t)
    BY <1>1, <2>2 DEF SetContent, FileType
  <2> QED BY <2>1, <2>2
<1>4. Messages(t)' = Messages(t)
  BY <1>2 DEF Messages
<1>5. Sound(t) => Messages(t) = PartsTo(t, PartCount(Whole(t)))
  BY <1>2 DEF CutInv, CutOf
<1>6. CutOf(t)'
  BY <1>2, <1>3, <1>4, <1>5, SendingCuts
<1> QED BY <1>2, <1>3, <1>6, CutOfOne

-----------------------------------------------------------------------------
(* The theorem.                                                            *)

(* Nothing is cut at the start, when nothing is open.                      *)
LEMMA InitCuts ==
  ASSUME Init
  PROVE  CutInv
BY DEF Init, CutInv, CutOf

(* Every step keeps the cut.                                               *)
LEMMA NextCuts ==
  ASSUME IInv, CutInv, [Next]_vars
  PROVE  CutInv'
<1>1. CASE UNCHANGED <<file, chat, sent, found>>
  BY <1>1, CutKept DEF CutInv
<1>2. CASE UNCHANGED vars
  BY <1>1, <1>2 DEF vars
<1>3. ASSUME NEW p \in Names, Mkdir(p)
      PROVE  CutInv'
  BY <1>1, <1>3 DEF Mkdir
<1>4. ASSUME NEW p \in Names, NEW t \in Transfers, OpenFile(t, p) \/ Create(t, p)
      PROVE  CutInv'
  BY <1>4, OpenCuts
<1>5. ASSUME NEW t \in Transfers, NEW n \in Chunks, Write(t, n) \/ WriteFails(t, n)
      PROVE  CutInv'
  BY <1>5, WriteCuts, EndCuts
<1>6. ASSUME NEW t \in Transfers, Read(t) \/ StartClose(t) \/ GoOnClosing(t)
      PROVE  CutInv'
  BY <1>6, EndCuts, CloseCuts, SendCuts, TableCuts DEF StartClose, GoOnClosing
<1> QED BY <1>2, <1>3, <1>4, <1>5, <1>6 DEF Next

(* However its writes are cut, however often its sends are retried and     *)
(* whichever of them arrived after all, and whatever the other sessions    *)
(* do meanwhile: an upload that was acknowledged, no part of which failed  *)
(* to be spooled and whose file was not opened with the cached content of  *)
(* its name (telegram.go:616-618, which sends that before the upload), is  *)
(* in the chat, every byte of it and no other, cut at MaxPartSize and at   *)
(* nothing else (telegram.go:228-262, 492-515).                            *)
THEOREM AcknowledgedUploadIsWhole == Spec => []AcknowledgedIsWhole
<1>1. Init => IInv /\ CutInv
  BY InitIInv, InitCuts
<1>2. IInv /\ CutInv /\ [Next]_vars => IInv' /\ CutInv'
  BY NextIInv, NextCuts
<1>3. IInv /\ CutInv => AcknowledgedIsWhole
  <2> SUFFICES ASSUME IInv, CutInv, NEW t \in Transfers, Acknowledged(t), found[t] = <<>>
               PROVE  Messages(t) = Parts(Upload(t))
    BY DEF AcknowledgedIsWhole
  <2>1. sent[t] \in Nat
    BY DEF IInv, TypeOK
  <2>2. Upload(t) \in Seq(Byte)
    <3>1. Bytes(t, 0, 0 + sent[t]) \in Seq(Byte)
      BY <2>1, BytesTyped
    <3>2. 0 + sent[t] = sent[t]
      BY <2>1
    <3> QED BY <3>1, <3>2 DEF Upload
  <2>3. Whole(t) = Upload(t)
    BY <2>2 DEF Whole, Upload
  <2>4. Sound(t)
    BY SizesAssumption DEF Sound, Acknowledged
  <2>5. Messages(t) = PartsTo(t, PartCount(Whole(t)))
    BY <2>4 DEF CutInv, CutOf, Acknowledged
  <2> QED BY <2>3, <2>5 DEF PartsTo, Parts
<1> QED BY <1>1, <1>2, <1>3, PTL DEF Spec

-----------------------------------------------------------------------------
(* Parts in order.                                                         *)

Count(s, m) == Cardinality({i \in DOMAIN s : s[i] = m})

InOrder(s, failed) ==
  \A i \in DOMAIN s :
    LET previous == IF i = 1 THEN 0 ELSE s[i - 1].part
    IN  IF s[i].notice THEN i = Len(s) /\ failed ELSE s[i].part - previous \in {0, 1}

Few(s) == \A m \in MessageType : Count(s, m) <= RetryAttempts
Small(s) == \A i \in DOMAIN s : Len(s[i].data) <= MaxPartSize

(* The messages s have come up to part k, with up to n of that part.       *)
UpTo(s, k, n) ==
  /\ InOrder(s, FALSE) /\ Few(s)
  /\ \A i \in DOMAIN s : s[i].part <= k
  /\ k - (IF s = <<>> THEN 0 ELSE s[Len(s)].part) \in {0, 1}
  /\ \A m \in MessageType : m.part = k => Count(s, m) <= n

(* What the property says of a transfer, and what its next part may be.    *)
OrderOf(t) ==
  /\ InOrder(chat[t], file[t].at = "failed")
  /\ Few(chat[t])
  /\ Sound(t) => Small(chat[t])
  /\ file[t].at = "sending" => UpTo(chat[t], file[t].idx, file[t].attempt - 1)

OrderInv == \A t \in Transfers : OrderOf(t)

(* One message more is counted once.                                       *)
LEMMA CountAppend ==
  ASSUME NEW s \in Seq(MessageType), NEW m \in MessageType, NEW x \in MessageType
  PROVE  /\ Count(s, x) \in Nat
         /\ Count(Append(s, m), x) = IF x = m THEN Count(s, x) + 1 ELSE Count(s, x)
<1> DEFINE n == Len(s)
           u == Append(s, m)
           c == {i \in DOMAIN s : s[i] = x}
           d == {i \in DOMAIN u : u[i] = x}
<1>1. /\ n \in Nat /\ DOMAIN s = 1 .. n /\ DOMAIN u = 1 .. n + 1 /\ u[n + 1] = m
      /\ \A i \in 1 .. n : u[i] = s[i]
  BY AppendProperties, LenProperties
<1> HIDE DEF n, u
<1>2. IsFiniteSet(c) /\ Cardinality(c) \in Nat /\ n + 1 \notin c
  <2>1. IsFiniteSet(1 .. n)
    BY <1>1, FS_Interval
  <2>2. c \subseteq 1 .. n
    BY <1>1
  <2>3. n + 1 \notin 1 .. n
    BY <1>1
  <2> HIDE DEF c
  <2> QED BY <2>1, <2>2, <2>3, FS_Subset, FS_CardinalityType
<1>3. d = IF x = m THEN c \cup {n + 1} ELSE c
  <2>1. 1 .. n + 1 = 1 .. n \cup {n + 1}
    BY <1>1
  <2> QED BY <1>1, <2>1
<1> HIDE DEF c, d
<1>4. Cardinality(c \cup {n + 1}) = Cardinality(c) + 1
  BY <1>2, FS_AddElement
<1>5. Cardinality(d) = IF x = m THEN Cardinality(c) + 1 ELSE Cardinality(c)
  BY <1>3, <1>4
<1> QED BY <1>2, <1>5 DEF Count, c, d, u

(* Nothing is in order.                                                    *)
LEMMA NothingUpTo ==
  /\ InOrder(<<>>, TRUE) /\ InOrder(<<>>, FALSE) /\ Few(<<>>) /\ Small(<<>>)
  /\ \A n \in Nat : UpTo(<<>>, 1, n)
<1>1. DOMAIN <<>> = {}
  OBVIOUS
<1>2. \A m \in MessageType : Count(<<>>, m) = 0
  BY <1>1, FS_EmptySet DEF Count
<1>3. RetryAttempts \in Nat
  BY SizesAssumption
<1>4. Few(<<>>)
  BY <1>2, <1>3 DEF Few
<1>5. InOrder(<<>>, TRUE) /\ InOrder(<<>>, FALSE) /\ Small(<<>>)
  BY <1>1 DEF InOrder, Small
<1>6. ASSUME NEW n \in Nat
      PROVE  UpTo(<<>>, 1, n)
  <2>1. 1 - 0 \in {0, 1} /\ 0 <= n
    OBVIOUS
  <2>2. 1 - (IF <<>> = <<>> THEN 0 ELSE <<>>[Len(<<>>)].part) \in {0, 1}
    BY <2>1
  <2>3. \A m \in MessageType : m.part = 1 => Count(<<>>, m) <= n
    BY <1>2, <2>1
  <2>4. \A i \in DOMAIN <<>> : <<>>[i].part <= 1
    BY <1>1
  <2> QED BY <1>4, <1>5, <2>2, <2>3, <2>4, Zenon DEF UpTo
<1> QED BY <1>4, <1>5, <1>6

(* An attempt that arrives: the part is there once more, or a first time.  *)
LEMMA PartFollows ==
  ASSUME NEW s \in Seq(MessageType), NEW m \in MessageType, ~m.notice,
         NEW n \in Nat, n < RetryAttempts, UpTo(s, m.part, n)
  PROVE  /\ UpTo(Append(s, m), m.part, n + 1)
         /\ UpTo(Append(s, m), m.part + 1, 0)
<1> DEFINE k == m.part
           l == Len(s)
           u == Append(s, m)
<1>1. /\ l \in Nat /\ DOMAIN s = 1 .. l /\ DOMAIN u = 1 .. l + 1 /\ Len(u) = l + 1
      /\ u[l + 1] = m /\ u # <<>>
      /\ \A i \in 1 .. l : u[i] = s[i]
  BY AppendProperties, LenProperties
<1>2. k \in Nat /\ RetryAttempts \in Nat
  BY SizesAssumption DEF MessageType
<1>3. \A x \in MessageType :
        Count(s, x) \in Nat /\ Count(u, x) = IF x = m THEN Count(s, x) + 1 ELSE Count(s, x)
  BY CountAppend
<1> HIDE DEF u, k, l
<1>4. ASSUME NEW i \in 1 .. l
      PROVE  s[i].part \in Nat
  <2>1. s[i] \in MessageType
    BY <1>4, ElementOfSeq DEF l
  <2> QED BY <2>1 DEF MessageType
<1>5. /\ InOrder(s, FALSE) /\ Few(s) /\ (\A i \in 1 .. l : s[i].part <= k)
      /\ k - (IF s = <<>> THEN 0 ELSE s[l].part) \in {0, 1}
      /\ \A x \in MessageType : x.part = k => Count(s, x) <= n
  BY <1>1 DEF UpTo, k, l
<1>6. InOrder(u, FALSE)
  <2> SUFFICES ASSUME NEW i \in 1 .. l + 1
               PROVE  LET previous == IF i = 1 THEN 0 ELSE u[i - 1].part
                      IN  ~u[i].notice /\ u[i].part - previous \in {0, 1}
    BY <1>1 DEF InOrder
  <2>1. CASE i \in 1 .. l
    <3>1. ~s[i].notice /\ s[i].part - (IF i = 1 THEN 0 ELSE s[i - 1].part) \in {0, 1}
      BY <1>1, <1>5, <2>1 DEF InOrder
    <3>2. i # 1 => i - 1 \in 1 .. l
      BY <1>1, <2>1
    <3> QED BY <1>1, <2>1, <3>1, <3>2
  <2>2. CASE i = l + 1
    <3>1. s = <<>> <=> l = 0
      BY EmptySeq DEF l
    <3>2. i = 1 <=> l = 0
      BY <1>1, <2>2
    <3>3. i # 1 => i - 1 = l /\ l \in 1 .. l
      BY <1>1, <2>2
    <3>4. u[i] = m /\ ~m.notice /\ m.part = k
      BY <1>1, <2>2 DEF k
    <3> QED BY <1>1, <1>5, <3>1, <3>2, <3>3, <3>4
  <2> QED BY <1>1, <2>1, <2>2
<1>7. Few(u)
  <2> SUFFICES ASSUME NEW x \in MessageType
               PROVE  Count(u, x) <= RetryAttempts
    BY DEF Few
  <2>1. CASE x = m
    <3>1. Count(s, x) <= n /\ Count(u, x) = Count(s, x) + 1 /\ Count(s, x) \in Nat
      BY <1>3, <1>5, <2>1 DEF k
    <3> QED BY <1>2, <3>1
  <2>2. CASE x # m
    BY <1>3, <1>5, <2>2 DEF Few
  <2> QED BY <2>1, <2>2
<1>8. ASSUME NEW i \in 1 .. l + 1
      PROVE  u[i].part \in Nat /\ u[i].part <= k /\ u[i].part <= k + 1
  <2>1. CASE i \in 1 .. l
    BY <1>1, <1>2, <1>4, <1>5, <2>1
  <2>2. CASE i = l + 1
    BY <1>1, <1>2, <2>2 DEF k
  <2> QED BY <1>1, <2>1, <2>2
<1>9. u[Len(u)].part = k
  BY <1>1 DEF k
<1>10. ASSUME NEW x \in MessageType, x.part = k
       PROVE  Count(u, x) <= n + 1
  <2>1. Count(s, x) <= n /\ Count(s, x) \in Nat
    BY <1>3, <1>5, <1>10
  <2> QED BY <1>3, <2>1
<1>11. ASSUME NEW x \in MessageType, x.part = k + 1
       PROVE  Count(u, x) = 0
  <2>1. ASSUME NEW i \in DOMAIN u
        PROVE  u[i] # x
    <3>1. u[i].part <= k /\ u[i].part \in Nat
      BY <1>1, <1>8
    <3> QED BY <1>2, <1>11, <3>1
  <2>2. {i \in DOMAIN u : u[i] = x} = {}
    BY <2>1
  <2> QED BY <2>2, FS_EmptySet DEF Count
<1>12. k - k \in {0, 1} /\ (k + 1) - k \in {0, 1} /\ 0 <= 0
  BY <1>2
<1>13. UpTo(u, k, n + 1)
  BY <1>1, <1>6, <1>7, <1>8, <1>9, <1>10, <1>12 DEF UpTo
<1>14. UpTo(u, k + 1, 0)
  BY <1>1, <1>6, <1>7, <1>8, <1>9, <1>11, <1>12 DEF UpTo
<1> QED BY <1>13, <1>14 DEF u, k

(* A notice comes last, once.                                              *)
LEMMA NoticeFollows ==
  ASSUME NEW s \in Seq(MessageType), NEW m \in MessageType, m.notice,
         InOrder(s, FALSE), Few(s)
  PROVE  InOrder(Append(s, m), TRUE) /\ Few(Append(s, m))
<1> DEFINE l == Len(s)
           u == Append(s, m)
<1>1. /\ l \in Nat /\ DOMAIN s = 1 .. l /\ DOMAIN u = 1 .. l + 1 /\ Len(u) = l + 1
      /\ u[l + 1] = m
      /\ \A i \in 1 .. l : u[i] = s[i]
  BY AppendProperties, LenProperties
<1>2. RetryAttempts \in Nat \ {0}
  BY SizesAssumption
<1>3. \A x \in MessageType :
        Count(s, x) \in Nat /\ Count(u, x) = IF x = m THEN Count(s, x) + 1 ELSE Count(s, x)
  BY CountAppend
<1>4. \A i \in DOMAIN s : ~s[i].notice
  BY DEF InOrder
<1>5. Count(s, m) = 0
  <2>1. {i \in DOMAIN s : s[i] = m} = {}
    BY <1>4
  <2> QED BY <2>1, FS_EmptySet DEF Count
<1> HIDE DEF u, l
<1>6. Few(u)
  <2> SUFFICES ASSUME NEW x \in MessageType
               PROVE  Count(u, x) <= RetryAttempts
    BY DEF Few
  <2>1. Count(s, x) <= RetryAttempts
    BY DEF Few
  <2> QED BY <1>2, <1>3, <1>5, <2>1
<1>7. InOrder(u, TRUE)
  <2> SUFFICES ASSUME NEW i \in 1 .. l + 1
               PROVE  LET previous == IF i = 1 THEN 0 ELSE u[i - 1].part
                      IN  IF u[i].notice THEN i = Len(u) ELSE u[i].part - previous \in {0, 1}
    BY <1>1 DEF InOrder
  <2>1. CASE i \in 1 .. l
    <3>1. ~s[i].notice /\ s[i].part - (IF i = 1 THEN 0 ELSE s[i - 1].part) \in {0, 1}
      BY <1>1, <2>1 DEF InOrder
    <3>2. i # 1 => i - 1 \in 1 .. l
      BY <1>1, <2>1
    <3> QED BY <1>1, <2>1, <3>1, <3>2
  <2>2. CASE i = l + 1
    BY <1>1, <2>2
  <2> QED BY <1>1, <2>1, <2>2
<1> QED BY <1>6, <1>7 DEF u

(* Order does not need a failure.                                          *)
LEMMA OrderStays ==
  ASSUME NEW s, InOrder(s, FALSE)
  PROVE  \A b \in BOOLEAN : InOrder(s, b)
BY DEF InOrder

(* A part is at most MaxPartSize long, the last one too.                   *)
LEMMA PartIsSmall ==
  ASSUME TypeOK, NEW t \in Transfers, NEW k \in 1 .. PartCount(Whole(t))
  PROVE  Len(Part(Whole(t), k).data) <= MaxPartSize
<1> DEFINE whole == Whole(t)
           n == Len(whole)
           m == MaxPartSize
           q == (n + m - 1) \div m
           j == k - 1
<1>1. whole \in Seq(Byte) /\ n \in Nat /\ m \in Nat \ {0}
  BY WholeTyped, SizesAssumption
<1>2. PartCount(Whole(t)) = q
  BY DEF PartCount
<1>3. Part(Whole(t), k).data = SubSeq(whole, j * m + 1, IF k < q THEN k * m ELSE n)
  BY <1>2 DEF Part
<1>4. n = Len(whole)
  OBVIOUS
<1> HIDE DEF whole, n, m
<1>5. q \in Nat /\ q * m <= n + m - 1 /\ n + m - 1 < q * m + m
  <2>1. n + m - 1 \in Nat
    BY <1>1
  <2> QED BY <1>1, <2>1
<1> HIDE DEF q
<1>6. j \in Nat /\ k \in Nat /\ k = j + 1 /\ k <= q /\ q \in Nat \ {0}
  BY <1>2, <1>5
<1> HIDE DEF j
<1>7. /\ j * m \in Nat /\ k * m \in Nat /\ k * m = j * m + m
      /\ q * m \in Nat /\ k * m <= q * m
  BY <1>1, <1>5, <1>6, Times
<1> DEFINE jm == j * m
           km == k * m
           qm == q * m
<1>8. jm \in Nat /\ km \in Nat /\ qm \in Nat /\ km = jm + m /\ km <= qm
      /\ qm <= n + m - 1 /\ n + m - 1 < qm + m
  BY <1>5, <1>7
<1>9. CASE k < q
  <2>1. (k + 1) * m = k * m + m /\ (k + 1) * m <= q * m
    BY <1>1, <1>5, <1>6, <1>9, Times
  <2>2. km + m <= qm
    BY <2>1
  <2> HIDE DEF jm, km, qm
  <2>3. jm <= km /\ km <= n /\ km - jm = m
    BY <1>1, <1>8, <2>2
  <2>4. Len(SubSeq(whole, jm + 1, km)) = km - jm
    BY <1>1, <1>4, <1>8, <2>3, Slice
  <2>5. Part(Whole(t), k).data = SubSeq(whole, jm + 1, km)
    BY <1>3, <1>9 DEF jm, km
  <2>6. Len(Part(Whole(t), k).data) = m
    BY <2>3, <2>4, <2>5
  <2>7. m <= m
    BY <1>1
  <2> QED BY <2>6, <2>7 DEF m
<1>10. CASE ~(k < q)
  <2>1. qm = km
    BY <1>5, <1>6, <1>10
  <2>2. Part(Whole(t), k).data = SubSeq(whole, jm + 1, n)
    BY <1>3, <1>10
  <2> HIDE DEF jm, km, qm
  <2>3. jm <= n /\ n - jm <= m /\ n <= n
    BY <1>1, <1>8, <2>1
  <2>4. Len(SubSeq(whole, jm + 1, n)) = n - jm
    BY <1>1, <1>4, <1>8, <2>3, Slice
  <2> QED BY <2>2, <2>3, <2>4 DEF m
<1> QED BY <1>9, <1>10

(* A message of that size keeps messages small.                            *)
LEMMA SmallFollows ==
  ASSUME NEW s \in Seq(MessageType), NEW m \in MessageType, Small(s), Len(m.data) <= MaxPartSize
  PROVE  Small(Append(s, m))
<1>1. /\ Len(s) \in Nat /\ DOMAIN s = 1 .. Len(s)
      /\ DOMAIN Append(s, m) = 1 .. Len(s) + 1 /\ Append(s, m)[Len(s) + 1] = m
      /\ \A i \in 1 .. Len(s) : Append(s, m)[i] = s[i]
  BY AppendProperties, LenProperties
<1>2. \A i \in 1 .. Len(s) + 1 : i \in 1 .. Len(s) \/ i = Len(s) + 1
  BY <1>1
<1> QED BY <1>1, <1>2 DEF Small

(* A transfer that no step touches stays in order.                         *)
LEMMA OrderKept ==
  ASSUME NEW t \in Transfers, OrderOf(t),
         file'[t] = file[t], chat'[t] = chat[t], found'[t] = found[t]
  PROVE  OrderOf(t)'
<1>1. Sound(t)' = Sound(t)
  BY DEF Sound
<1> QED BY <1>1 DEF OrderOf

(* A step of transfer t keeps OrderInv if it keeps what it says of t.      *)
LEMMA OrderOfOne ==
  ASSUME OrderInv, NEW t \in Transfers, OrderOf(t)',
         \A u \in Transfers \ {t} :
           file'[u] = file[u] /\ chat'[u] = chat[u] /\ found'[u] = found[u]
  PROVE  OrderInv'
<1>1. ASSUME NEW u \in Transfers \ {t}
      PROVE  OrderOf(u)'
  BY <1>1, OrderKept DEF OrderInv
<1> QED BY <1>1 DEF OrderInv

(* A step that sends nothing, with something or nothing in the chat.       *)
LEMMA QuietOrder ==
  ASSUME NEW t \in Transfers, OrderOf(t), chat'[t] = chat[t],
         file[t].at # "failed", file'[t].at # "sending",
         \/ chat[t] = <<>>
         \/ file'[t].broken = file[t].broken /\ found'[t] = found[t]
  PROVE  OrderOf(t)'
<1>1. InOrder(chat[t], FALSE) /\ Few(chat[t])
  BY DEF OrderOf
<1>2. InOrder(chat[t], file'[t].at = "failed")
  BY <1>1, OrderStays
<1>3. ASSUME Sound(t)'
      PROVE  Small(chat[t])
  <2>1. CASE chat[t] = <<>>
    BY <2>1, NothingUpTo
  <2>2. CASE file'[t].broken = file[t].broken /\ found'[t] = found[t]
    BY <1>3, <2>2 DEF Sound, OrderOf
  <2> QED BY <2>1, <2>2
<1> QED BY <1>1, <1>2, <1>3 DEF OrderOf

(* Opening, writing, reading, the end of a Close that sends nothing, and   *)
(* the table.                                                              *)
LEMMA QuietOrders ==
  ASSUME IInv, OrderInv, NEW t \in Transfers,
         \/ \E p \in Names : OpenFile(t, p) \/ Create(t, p)
         \/ \E n \in Chunks : Write(t, n) \/ WriteFails(t, n)
         \/ Read(t) \/ CloseDirectory(t) \/ CloseEmpty(t) \/ CloseSpoolFails(t) \/ ReadPartFails(t)
         \/ StatName(t) \/ CreateName(t) \/ SetSize(t) \/ SetContent(t)
  PROVE  OrderInv'
<1>1. TypeOK /\ SendInv
  BY DEF IInv
<1>2. /\ file[t] \in FileType /\ file \in [Transfers -> FileType]
      /\ found \in [Transfers -> Seq(Byte)] /\ chat \in [Transfers -> Seq(MessageType)]
  BY <1>1 DEF TypeOK
<1>3. file[t].at \in {"none", "open"} => chat[t] = <<>>
  BY <1>1 DEF SendInv
<1>4. ASSUME NEW f, file' = [file EXCEPT ![t] = f], file[t].at # "failed", f.at # "sending",
             UNCHANGED chat, \A u \in Transfers \ {t} : found'[u] = found[u],
             \/ file[t].at \in {"none", "open"}
             \/ f.broken = file[t].broken /\ UNCHANGED found
      PROVE  OrderInv'
  <2>1. file'[t] = f /\ \A u \in Transfers \ {t} : file'[u] = file[u]
    BY <1>2, <1>4
  <2>2. OrderOf(t)
    BY DEF OrderInv
  <2>3. OrderOf(t)'
    BY <1>3, <1>4, <2>1, <2>2, QuietOrder
  <2> QED BY <1>4, <2>1, <2>3, OrderOfOne
<1>5. ASSUME NEW p \in Names, OpenFile(t, p) \/ Create(t, p)
      PROVE  OrderInv'
  <2>1. CASE OpenFile(t, p)
    <3>1. PICK upload \in BOOLEAN :
            file' = [file EXCEPT ![t].at = "open", ![t].path = p, ![t].upload = upload,
                                 ![t].content = entries[p].content]
      BY <2>1 DEF OpenFile
    <3> DEFINE f == [file[t] EXCEPT !.at = "open", !.path = p, !.upload = upload,
                                    !.content = entries[p].content]
    <3>2. f.at = "open" /\ file' = [file EXCEPT ![t] = f]
      BY <1>2, <3>1 DEF FileType
    <3>3. file[t].at = "none" /\ UNCHANGED chat /\ \A u \in Transfers \ {t} : found'[u] = found[u]
      BY <1>2, <2>1 DEF OpenFile
    <3> HIDE DEF f
    <3> QED BY <1>4, <3>2, <3>3
  <2>2. CASE Create(t, p)
    <3> DEFINE f == [file[t] EXCEPT !.at = "open", !.path = p, !.upload = TRUE]
    <3>1. f.at = "open" /\ file' = [file EXCEPT ![t] = f]
      BY <1>2, <2>2 DEF Create, FileType
    <3>2. file[t].at = "none" /\ UNCHANGED <<chat, found>>
      BY <2>2 DEF Create
    <3> HIDE DEF f
    <3> QED BY <1>4, <3>1, <3>2
  <2> QED BY <1>5, <2>1, <2>2
<1>6. ASSUME NEW n \in Chunks, Write(t, n) \/ WriteFails(t, n)
      PROVE  OrderInv'
  <2> DEFINE b == Appended(t, n)
             Done(d) == Spilled(Counted(t, n), b, d)
             Broke(d) == [Done(d) EXCEPT !.broken = TRUE]
             Half(d) == [Broke(d) EXCEPT !.partNumber = @ + 1, !.tempDir = TRUE]
  <2>1. file[t].at = "open" /\ UNCHANGED <<chat, found>>
    BY <1>6 DEF Write, WriteFails, Writing
  <2>2. \/ file' = [file EXCEPT ![t] = Done(FullParts(Len(b)))]
        \/ \E d \in 0 .. FullParts(Len(b)) - 1 :
             \/ file' = [file EXCEPT ![t] = Broke(d)]
             \/ file' = [file EXCEPT ![t] = Half(d)]
    BY <1>6 DEF Write, WriteFails
  <2> HIDE DEF b
  <2>3. \A d : Done(d).at = "open"
    BY <1>2, <2>1 DEF Spilled, Counted, FileType
  <2>4. \A d : Broke(d).at = "open" /\ Half(d).at = "open"
    <3>1. ASSUME NEW d
          PROVE  Broke(d).at = "open" /\ Half(d).at = "open"
      <4> DEFINE f == Done(d)
      <4>1. f.at = "open"
        BY <2>3
      <4> HIDE DEF f, Done
      <4>2. [f EXCEPT !.broken = TRUE].at = "open"
        BY <4>1
      <4> DEFINE g == [f EXCEPT !.broken = TRUE]
      <4>3. g.at = "open"
        BY <4>2
      <4> HIDE DEF g
      <4>4. [g EXCEPT !.partNumber = @ + 1, !.tempDir = TRUE].at = "open"
        BY <4>3
      <4> QED BY <4>2, <4>4 DEF f, g
    <3> QED BY <3>1
  <2> HIDE DEF Done, Broke, Half
  <2>5. ASSUME NEW f, f.at = "open", file' = [file EXCEPT ![t] = f]
        PROVE  OrderInv'
    BY <1>4, <2>1, <2>5
  <2> QED BY <2>2, <2>3, <2>4, <2>5
<1>7. CASE Read(t)
  <2>1. PICK n \in 1 .. Len(file[t].content) - file[t].offset :
          file' = [file EXCEPT ![t].offset = @ + n]
    BY <1>7 DEF Read
  <2> DEFINE f == [file[t] EXCEPT !.offset = @ + n]
  <2>2. f.at = file[t].at /\ file' = [file EXCEPT ![t] = f]
    BY <1>2, <2>1 DEF FileType
  <2>3. file[t].at = "open" /\ UNCHANGED <<chat, found>>
    BY <1>7 DEF Read
  <2> HIDE DEF f
  <2> QED BY <1>4, <2>2, <2>3
<1>8. CASE \/ CloseDirectory(t) \/ CloseEmpty(t) \/ CloseSpoolFails(t) \/ ReadPartFails(t)
           \/ StatName(t) \/ CreateName(t) \/ SetSize(t)
  <2>1. /\ \E at \in {"skipped", "entering", "failed", "creating", "sizing", "caching", "closed"} :
             file' = [file EXCEPT ![t].at = at]
        /\ UNCHANGED <<chat, found>> /\ file[t].at # "failed"
    BY <1>8 DEF CloseDirectory, CloseEmpty, CloseSpoolFails, ReadPartFails, Fail,
                StatName, CreateName, SetSize
  <2>2. PICK at \in {"skipped", "entering", "failed", "creating", "sizing", "caching", "closed"} :
          file' = [file EXCEPT ![t].at = at]
    BY <2>1
  <2> DEFINE f == [file[t] EXCEPT !.at = at]
  <2>3. f.at = at /\ f.broken = file[t].broken /\ file' = [file EXCEPT ![t] = f]
    BY <1>2, <2>2 DEF FileType
  <2> HIDE DEF f
  <2> QED BY <1>4, <2>1, <2>3
<1>9. CASE SetContent(t)
  <2> DEFINE f == [file[t] EXCEPT !.at = "closed", !.content = <<>>, !.partNumber = 0,
                                  !.parts = <<>>, !.tempDir = FALSE,
                                  !.totalWritten = 0, !.offset = 0]
  <2>1. f.at = "closed" /\ f.broken = file[t].broken /\ file' = [file EXCEPT ![t] = f]
    BY <1>2, <1>9 DEF SetContent, FileType
  <2>2. file[t].at = "caching" /\ UNCHANGED <<chat, found>>
    BY <1>9 DEF SetContent
  <2> HIDE DEF f
  <2> QED BY <1>4, <2>1, <2>2
<1> QED BY <1>5, <1>6, <1>7, <1>8, <1>9

(* Close begins with the first part.                                       *)
LEMMA CloseOrders ==
  ASSUME IInv, OrderInv, NEW t \in Transfers, CloseSingle(t) \/ CloseMultipart(t)
  PROVE  OrderInv'
<1>1. TypeOK /\ SendInv
  BY DEF IInv
<1>2. file[t] \in FileType /\ file \in [Transfers -> FileType] /\ file[t].attempt - 1 \in Nat
  BY <1>1, SizesAssumption DEF TypeOK, FileType
<1>3. file[t].at = "open" /\ UNCHANGED <<chat, found>>
  BY DEF CloseSingle, CloseMultipart
<1>4. chat[t] = <<>> /\ file[t].idx = 1
  BY <1>1, <1>3 DEF SendInv
<1>5. /\ file'[t].at = "sending" /\ file'[t].idx = file[t].idx
      /\ file'[t].attempt = file[t].attempt
      /\ \A u \in Transfers \ {t} : file'[u] = file[u]
  <2>1. CASE CloseSingle(t)
    BY <1>2, <2>1 DEF CloseSingle, FileType
  <2>2. CASE CloseMultipart(t)
    <3> DEFINE f == [file[t] EXCEPT !.at = "sending", !.parts = Append(@, file[t].content),
                                    !.partNumber = @ + 1]
    <3>1. f.at = "sending" /\ f.idx = file[t].idx /\ f.attempt = file[t].attempt
      BY <1>2 DEF FileType
    <3>2. file' = [file EXCEPT ![t] = f]
      BY <2>2 DEF CloseMultipart
    <3> HIDE DEF f
    <3> QED BY <1>2, <3>1, <3>2
  <2> QED BY <2>1, <2>2
<1>6. UpTo(chat'[t], file'[t].idx, file'[t].attempt - 1)
  BY <1>2, <1>3, <1>4, <1>5, NothingUpTo
<1>7. Small(chat'[t]) /\ InOrder(chat'[t], FALSE) /\ Few(chat'[t])
  BY <1>3, <1>4, NothingUpTo
<1>8. OrderOf(t)'
  <2>1. InOrder(chat'[t], file'[t].at = "failed")
    BY <1>7, OrderStays
  <2> QED BY <1>6, <1>7, <2>1 DEF OrderOf
<1> QED BY <1>3, <1>5, <1>8, OrderOfOne

(* The message in hand.                                                    *)
LEMMA NextMessage ==
  ASSUME IInv, CutInv, OrderInv, NEW t \in Transfers, file[t].at = "sending"
  PROVE  LET m == Message(t)
         IN  /\ m \in MessageType /\ ~m.notice /\ m.part = file[t].idx
             /\ chat[t] \in Seq(MessageType)
             /\ file[t].attempt - 1 \in Nat /\ file[t].attempt - 1 < RetryAttempts
             /\ UpTo(chat[t], m.part, file[t].attempt - 1)
             /\ Sound(t) => Len(m.data) <= MaxPartSize /\ Small(chat[t])
<1>1. TypeOK /\ SendInv
  BY DEF IInv
<1>2. Message(t) \in MessageType /\ file[t].idx \in 1 .. Len(Sending(t))
  BY <1>1, MessageTyped
<1>3. ~Message(t).notice /\ Message(t).part = file[t].idx
      /\ Message(t).data = Sending(t)[file[t].idx]
  BY DEF Message
<1>4. chat[t] \in Seq(MessageType) /\ file[t].attempt \in 1 .. RetryAttempts
  BY <1>1 DEF TypeOK, FileType
<1>5. file[t].attempt - 1 \in Nat /\ file[t].attempt - 1 < RetryAttempts
  BY <1>4, SizesAssumption
<1>6. UpTo(chat[t], file[t].idx, file[t].attempt - 1) /\ (Sound(t) => Small(chat[t]))
  BY DEF OrderInv, OrderOf
<1>7. ASSUME Sound(t)
      PROVE  Len(Message(t).data) <= MaxPartSize
  <2>1. /\ Len(Sending(t)) = PartCount(Whole(t))
        /\ \A k \in 1 .. PartCount(Whole(t)) : Sending(t)[k] = Part(Whole(t), k).data
    BY <1>7 DEF CutInv, CutOf
  <2>2. file[t].idx \in 1 .. PartCount(Whole(t)) /\ Message(t).data = Part(Whole(t), file[t].idx).data
    BY <1>2, <1>3, <2>1
  <2>3. Len(Part(Whole(t), file[t].idx).data) <= MaxPartSize
    BY <1>1, <2>2, PartIsSmall
  <2> QED BY <2>2, <2>3
<1> QED BY <1>2, <1>3, <1>4, <1>5, <1>6, <1>7

(* Sending, and sending again.                                             *)
LEMMA SendOrders ==
  ASSUME IInv, CutInv, OrderInv, NEW t \in Transfers, Send(t) \/ SendAgain(t)
  PROVE  OrderInv'
<1>1. file[t].at = "sending" /\ UNCHANGED <<sent, found>>
  BY DEF Send, SendAgain
<1>2. /\ file[t] \in FileType /\ file \in [Transfers -> FileType] /\ file[t].idx \in Nat
      /\ chat \in [Transfers -> Seq(MessageType)] /\ file[t].attempt \in Nat
  <2>1. TypeOK
    BY DEF IInv
  <2>2. /\ file[t] \in FileType /\ file \in [Transfers -> FileType]
        /\ chat \in [Transfers -> Seq(MessageType)]
    BY <2>1 DEF TypeOK
  <2>3. file[t].idx \in Nat /\ file[t].attempt \in 1 .. RetryAttempts /\ RetryAttempts \in Nat
    BY <2>2, SizesAssumption DEF FileType
  <2>4. file[t].attempt \in Nat
    BY <2>3
  <2> QED BY <2>2, <2>3, <2>4
<1> DEFINE m == Message(t)
           s == chat[t]
           n == file[t].attempt - 1
<1>3. /\ m \in MessageType /\ ~m.notice /\ m.part = file[t].idx /\ s \in Seq(MessageType)
      /\ n \in Nat /\ n < RetryAttempts /\ UpTo(s, m.part, n)
      /\ Sound(t) => Len(m.data) <= MaxPartSize /\ Small(s)
  BY <1>1, NextMessage
<1>4. n + 1 = file[t].attempt
  BY <1>2
<1> HIDE DEF m, s, n
<1>5. /\ UpTo(Append(s, m), file[t].idx, n + 1) /\ UpTo(Append(s, m), file[t].idx + 1, 0)
      /\ Sound(t) => Small(Append(s, m))
  BY <1>3, PartFollows, SmallFollows
<1>6. ASSUME NEW f, file' = [file EXCEPT ![t] = f], f.broken = file[t].broken,
             f.at \in {"sending", "entering"},
             \A u \in Transfers \ {t} : chat'[u] = chat[u],
             Sound(t) => Small(chat'[t]), InOrder(chat'[t], FALSE), Few(chat'[t]),
             f.at = "sending" => UpTo(chat'[t], f.idx, f.attempt - 1)
      PROVE  OrderInv'
  <2>1. file'[t] = f /\ \A u \in Transfers \ {t} : file'[u] = file[u]
    BY <1>2, <1>6
  <2>2. Sound(t)' = Sound(t)
    BY <1>1, <1>6, <2>1 DEF Sound
  <2>3. InOrder(chat'[t], file'[t].at = "failed")
    BY <1>6, OrderStays
  <2>4. OrderOf(t)'
    BY <1>6, <2>1, <2>2, <2>3 DEF OrderOf
  <2> QED BY <1>1, <1>6, <2>1, <2>4, OrderOfOne
<1>7. ASSUME Deliver(t)
      PROVE  /\ chat'[t] = Append(s, m) /\ \A u \in Transfers \ {t} : chat'[u] = chat[u]
             /\ Sound(t) => Small(chat'[t])
             /\ InOrder(chat'[t], FALSE) /\ Few(chat'[t])
  <2>1. chat'[t] = Append(s, m) /\ \A u \in Transfers \ {t} : chat'[u] = chat[u]
    BY <1>2, <1>7 DEF Deliver, s, m
  <2>2. InOrder(Append(s, m), FALSE) /\ Few(Append(s, m))
    BY <1>5 DEF UpTo
  <2> QED BY <1>5, <2>1, <2>2
<1>8. CASE Send(t) /\ file[t].idx = Len(Sending(t))
  <2> DEFINE f == [file[t] EXCEPT !.at = "entering"]
  <2>1. f.at = "entering" /\ f.broken = file[t].broken /\ file' = [file EXCEPT ![t] = f]
    BY <1>2, <1>8 DEF Send, FileType
  <2>2. Deliver(t)
    BY <1>8 DEF Send
  <2> HIDE DEF f
  <2> QED BY <1>6, <1>7, <2>1, <2>2
<1>9. CASE Send(t) /\ file[t].idx # Len(Sending(t))
  <2> DEFINE f == [file[t] EXCEPT !.idx = @ + 1, !.attempt = 1]
  <2>1. /\ f.at = "sending" /\ f.broken = file[t].broken
        /\ f.idx = file[t].idx + 1 /\ f.attempt - 1 = 0
    BY <1>1, <1>2 DEF FileType
  <2>2. file' = [file EXCEPT ![t] = f] /\ Deliver(t)
    BY <1>9 DEF Send
  <2> HIDE DEF f
  <2>3. UpTo(chat'[t], f.idx, f.attempt - 1)
    BY <1>5, <1>7, <2>1, <2>2
  <2> QED BY <1>6, <1>7, <2>1, <2>2, <2>3
<1>10. CASE SendAgain(t)
  <2> DEFINE f == [file[t] EXCEPT !.attempt = @ + 1]
  <2>1. /\ f.at = "sending" /\ f.broken = file[t].broken
        /\ f.idx = file[t].idx /\ f.attempt = file[t].attempt + 1
    BY <1>1, <1>2 DEF FileType
  <2>2. file' = [file EXCEPT ![t] = f] /\ (Deliver(t) \/ UNCHANGED chat)
    BY <1>10 DEF SendAgain
  <2> HIDE DEF f
  <2>3. f.attempt - 1 = n + 1
    BY <1>2, <1>4, <2>1
  <2>4. CASE Deliver(t)
    <3>1. UpTo(chat'[t], f.idx, f.attempt - 1)
      BY <1>5, <1>7, <2>1, <2>3, <2>4
    <3> QED BY <1>6, <1>7, <2>1, <2>2, <2>4, <3>1
  <2>5. CASE UNCHANGED chat
    <3>1. chat'[t] = s /\ \A u \in Transfers \ {t} : chat'[u] = chat[u]
      BY <2>5 DEF s
    <3>2. InOrder(s, FALSE) /\ Few(s)
      BY <1>3 DEF UpTo
    <3>3. \A x \in MessageType : Count(s, x) \in Nat
      BY <1>3, CountAppend
    <3>4. UpTo(s, file[t].idx, n + 1)
      <4>1. \A x \in MessageType : x.part = file[t].idx => Count(s, x) <= n
        BY <1>3 DEF UpTo
      <4>2. \A x \in MessageType : x.part = file[t].idx => Count(s, x) <= n + 1
        BY <1>3, <3>3, <4>1
      <4> QED BY <1>3, <4>2 DEF UpTo
    <3> QED BY <1>3, <1>6, <2>1, <2>2, <2>3, <3>1, <3>2, <3>4
  <2> QED BY <2>2, <2>4, <2>5
<1> QED BY <1>8, <1>9, <1>10

(* A send that fails may have arrived, and a notice may follow.            *)
LEMMA FailOrders ==
  ASSUME IInv, CutInv, OrderInv, NEW t \in Transfers, SendFails(t)
  PROVE  OrderInv'
<1>1. file[t].at = "sending" /\ file' = [file EXCEPT ![t].at = "failed"] /\ UNCHANGED found
  BY DEF SendFails, Fail
<1>2. /\ file[t] \in FileType /\ file \in [Transfers -> FileType]
      /\ chat \in [Transfers -> Seq(MessageType)]
  BY DEF IInv, TypeOK
<1> DEFINE m == Message(t)
           s == chat[t]
           n == file[t].attempt - 1
           said == [m EXCEPT !.notice = TRUE]
<1>3. /\ m \in MessageType /\ ~m.notice /\ m.part = file[t].idx /\ s \in Seq(MessageType)
      /\ n \in Nat /\ n < RetryAttempts /\ UpTo(s, m.part, n)
      /\ Sound(t) => Len(m.data) <= MaxPartSize /\ Small(s)
  BY <1>1, NextMessage
<1>4. PICK last \in {<<>>, <<m>>}, notice \in {<<>>, <<said>>} :
        chat' = [chat EXCEPT ![t] = s \o last \o notice]
  BY DEF SendFails
<1> HIDE DEF m, s, n
<1>5. said \in MessageType /\ said.notice /\ said.data = m.data
  BY <1>3 DEF MessageType
<1> HIDE DEF said
<1> DEFINE u == s \o last
<1>6. /\ u \in Seq(MessageType) /\ InOrder(u, FALSE) /\ Few(u)
      /\ Sound(t) => Small(u)
  <2>1. CASE last = <<>>
    <3>1. u = s
      BY <1>3, <2>1, ConcatEmptySeq
    <3> HIDE DEF u
    <3> QED BY <1>3, <3>1 DEF UpTo
  <2>2. CASE last = <<m>>
    <3>1. u = Append(s, m)
      BY <1>3, <2>2, AppendIsConcat
    <3> HIDE DEF u
    <3>2. UpTo(Append(s, m), m.part, n + 1) /\ (Sound(t) => Small(Append(s, m)))
      BY <1>3, PartFollows, SmallFollows
    <3>3. Append(s, m) \in Seq(MessageType)
      BY <1>3, AppendProperties
    <3> QED BY <3>1, <3>2, <3>3 DEF UpTo
  <2> QED BY <2>1, <2>2
<1> HIDE DEF u
<1>7. InOrder(u \o notice, TRUE) /\ Few(u \o notice) /\ (Sound(t) => Small(u \o notice))
  <2>1. CASE notice = <<>>
    <3>1. u \o notice = u
      BY <1>6, <2>1, ConcatEmptySeq
    <3> QED BY <1>6, <3>1, OrderStays
  <2>2. CASE notice = <<said>>
    <3>1. u \o notice = Append(u, said)
      BY <1>5, <1>6, <2>2, AppendIsConcat
    <3>2. InOrder(Append(u, said), TRUE) /\ Few(Append(u, said))
      BY <1>5, <1>6, NoticeFollows
    <3>3. Sound(t) => Small(Append(u, said))
      BY <1>3, <1>5, <1>6, SmallFollows
    <3> QED BY <3>1, <3>2, <3>3
  <2> QED BY <2>1, <2>2
<1>8. /\ chat'[t] = u \o notice /\ file'[t].at = "failed" /\ file'[t].broken = file[t].broken
      /\ \A v \in Transfers \ {t} : file'[v] = file[v] /\ chat'[v] = chat[v]
  BY <1>1, <1>2, <1>4 DEF u, FileType
<1>9. Sound(t)' = Sound(t)
  BY <1>1, <1>8 DEF Sound
<1>10. OrderOf(t)'
  BY <1>7, <1>8, <1>9 DEF OrderOf
<1> QED BY <1>1, <1>8, <1>10, OrderOfOne

(* Every step keeps the order.                                             *)
LEMMA NextOrders ==
  ASSUME IInv, CutInv, OrderInv, [Next]_vars
  PROVE  OrderInv'
<1>1. CASE UNCHANGED <<file, chat, found>>
  BY <1>1, OrderKept DEF OrderInv
<1>2. CASE UNCHANGED vars
  BY <1>1, <1>2 DEF vars
<1>3. ASSUME NEW p \in Names, Mkdir(p)
      PROVE  OrderInv'
  BY <1>1, <1>3 DEF Mkdir
<1>4. ASSUME NEW p \in Names, NEW t \in Transfers, OpenFile(t, p) \/ Create(t, p)
      PROVE  OrderInv'
  BY <1>4, QuietOrders
<1>5. ASSUME NEW t \in Transfers, NEW n \in Chunks, Write(t, n) \/ WriteFails(t, n)
      PROVE  OrderInv'
  BY <1>5, QuietOrders
<1>6. ASSUME NEW t \in Transfers, Read(t) \/ StartClose(t) \/ GoOnClosing(t)
      PROVE  OrderInv'
  BY <1>6, QuietOrders, CloseOrders, SendOrders, FailOrders DEF StartClose, GoOnClosing
<1> QED BY <1>2, <1>3, <1>4, <1>5, <1>6 DEF Next

(* Parts come in order and without a gap, none more often than it may be   *)
(* tried, a notice last and only of a failure, and none that was spooled   *)
(* whole is larger than MaxPartSize, for any sizes, writes and attempts    *)
(* and in every state (telegram.go:237-262, 361-379, 503-513).             *)
THEOREM PartsComeInOrder == Spec => []PartsAreWellFormed
<1>1. Init => IInv /\ CutInv /\ OrderInv
  <2>1. ASSUME Init
        PROVE  OrderInv
    <3>1. ASSUME NEW t \in Transfers
          PROVE  OrderOf(t)
      <4>1. chat[t] = <<>> /\ file[t].at = "none"
        BY <2>1, <3>1 DEF Init
      <4>2. InOrder(chat[t], file[t].at = "failed")
        BY <4>1, NothingUpTo, OrderStays
      <4> QED BY <4>1, <4>2, NothingUpTo DEF OrderOf
    <3> QED BY <3>1 DEF OrderInv
  <2> QED BY <2>1, InitIInv, InitCuts
<1>2. IInv /\ CutInv /\ OrderInv /\ [Next]_vars => IInv' /\ CutInv' /\ OrderInv'
  BY NextIInv, NextCuts, NextOrders
<1>3. IInv /\ OrderInv => PartsAreWellFormed
  <2> SUFFICES ASSUME IInv, OrderInv, NEW t \in Transfers
               PROVE  /\ \A i \in DOMAIN chat[t] :
                           LET previous == IF i = 1 THEN 0 ELSE chat[t][i - 1].part
                           IN  IF chat[t][i].notice THEN i = Len(chat[t]) /\ file[t].at = "failed"
                                                    ELSE chat[t][i].part - previous \in {0, 1}
                      /\ \A m \in Messages(t) :
                           /\ Cardinality({i \in DOMAIN chat[t] : chat[t][i] = m}) <= RetryAttempts
                           /\ Sound(t) => Len(m.data) <= MaxPartSize
    BY DEF PartsAreWellFormed
  <2>1. InOrder(chat[t], file[t].at = "failed") /\ Few(chat[t]) /\ (Sound(t) => Small(chat[t]))
    BY DEF OrderInv, OrderOf
  <2>2. ASSUME NEW i \in DOMAIN chat[t]
        PROVE  LET m == chat[t][i]
               IN  /\ Cardinality({j \in DOMAIN chat[t] : chat[t][j] = m}) <= RetryAttempts
                   /\ Sound(t) => Len(m.data) <= MaxPartSize
    <3>1. chat[t] \in Seq(MessageType)
      BY DEF IInv, TypeOK
    <3>2. chat[t][i] \in MessageType
      BY <3>1, ElementOfSeq, LenProperties
    <3> QED BY <2>1, <3>2 DEF Few, Small, Count
  <2> QED BY <2>1, <2>2 DEF InOrder, Messages
<1> QED BY <1>1, <1>2, <1>3, PTL DEF Spec
=============================================================================
