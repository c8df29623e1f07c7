---------------------------- MODULE ConfigProofs ----------------------------
(***************************************************************************)
(* What module Config guarantees for any contents of the file, any users   *)
(* and passwords, any number of logins, loads and edits, in both variants: *)
(* hashing changes for nobody which passwords let him in while no edit     *)
(* falls into a load, and never brings a password to a place where none    *)
(* was accepted; it leaves no plain password when a load succeeds, and     *)
(* misleads no login that does not overlap a store.                        *)
(***************************************************************************)
EXTENDS Config, SequenceTheorems, TLAPS

-----------------------------------------------------------------------------
(* Sequences.                                                              *)

(* Replacing an element keeps the type, the length and the others.         *)
LEMMA Replaced ==
  ASSUME NEW S, NEW seq \in Seq(S), NEW i \in DOMAIN seq, NEW e \in S
  PROVE  LET new == [seq EXCEPT ![i] = e]
         IN  /\ new \in Seq(S) /\ Len(new) = Len(seq) /\ DOMAIN new = DOMAIN seq
             /\ new[i] = e /\ \A j \in DOMAIN seq \ {i} : new[j] = seq[j]
<1>1. i \in 1 .. Len(seq) /\ DOMAIN seq = 1 .. Len(seq)
  BY LenProperties
<1>2. /\ [seq EXCEPT ![i] = e] \in Seq(S) /\ Len([seq EXCEPT ![i] = e]) = Len(seq)
      /\ \A j \in 1 .. Len(seq) : [seq EXCEPT ![i] = e][j] = IF j = i THEN e ELSE seq[j]
  BY <1>1, ExceptSeq
<1>3. DOMAIN [seq EXCEPT ![i] = e] = DOMAIN seq
  OBVIOUS
<1> QED BY <1>1, <1>2, <1>3

-----------------------------------------------------------------------------
(* What hashing does to one entry (config.go:160-193, config_local.go).    *)

(* A hash is an entry again, of the same user, that is not hashed again.   *)
LEMMA HashedTyped ==
  ASSUME NEW e \in Entry
  PROVE  /\ Hashed(e) \in Entry /\ Hashed(e).user = e.user
         /\ Hashed(e).pass = Bcrypt(e.pass) /\ Bcrypt(e.pass) \in Stored
         /\ Exempt(Hashed(e))
<1>1. e.pass \in Stored
  BY DEF Entry
<1>2. Bcrypt(e.pass) \in Stored /\ Bcrypt(e.pass).kind = "bcrypt"
  BY <1>1 DEF Bcrypt, Stored
<1> DEFINE b == Bcrypt(e.pass)
<1> HIDE DEF b
<1>3. b \in Stored /\ b.kind = "bcrypt" /\ Hashed(e) = [e EXCEPT !.pass = b]
  BY <1>2 DEF b, Hashed
<1>4. Hashed(e) \in Entry /\ Hashed(e).user = e.user /\ Hashed(e).pass = b
  BY <1>3 DEF Entry
<1>5. Exempt(Hashed(e))
  BY <1>3, <1>4 DEF Exempt, Recognised
<1> QED BY <1>3, <1>4, <1>5 DEF b

(* It lets in whom the entry let in.                                       *)
LEMMA HashedAccepts ==
  ASSUME NEW e \in Entry, ~Exempt(e), NEW p \in Passwords
  PROVE  Accepts(Hashed(e), p) <=> Accepts(e, p)
<1>1. e.pass \in Stored /\ e.pass.kind \in {"plain", "bcrypt", "crypt"}
  BY DEF Entry, Stored
<1>2. Hashed(e).pass = Bcrypt(e.pass) /\ Bcrypt(e.pass).kind = "bcrypt"
  BY HashedTyped DEF Bcrypt
<1>3. Accepts(Hashed(e), p) <=> Bcrypt(e.pass).of = p
  BY <1>2 DEF Accepts, Recognised
<1>4. Accepts(e, p) <=> e.pass = Plain(p)
  BY DEF Accepts, Exempt
<1>5. e.pass = Plain(p) <=> e.pass.kind = "plain" /\ e.pass.of = p
  BY <1>1 DEF Plain, Stored
<1>6. Bcrypt(e.pass).of = p <=> e.pass.kind = "plain" /\ e.pass.of = p
  BY NamesAssumption DEF Bcrypt
<1> QED BY <1>3, <1>4, <1>5, <1>6

(* So entries that follow others let in whom those let in.                 *)
LEMMA FollowsSame ==
  ASSUME NEW xs \in Seq(Entry), NEW ys \in Seq(Entry), Follows(xs, ys)
  PROVE  Same(xs, ys)
<1> SUFFICES ASSUME NEW u \in Users, NEW p \in Passwords
             PROVE  LetsIn(xs, u, p) <=> LetsIn(ys, u, p)
  BY DEF Same
<1>1. DOMAIN xs = DOMAIN ys
  BY LenProperties DEF Follows
<1>2. ASSUME NEW i \in DOMAIN ys
      PROVE  xs[i].user = ys[i].user /\ (Accepts(xs[i], p) <=> Accepts(ys[i], p))
  <2>1. ys[i] \in Entry
    BY <1>2
  <2>2. \/ xs[i] = ys[i]
        \/ ~Exempt(ys[i]) /\ xs[i] = Hashed(ys[i])
    BY <1>2 DEF Follows
  <2> QED BY <2>1, <2>2, HashedTyped, HashedAccepts
<1> QED BY <1>1, <1>2 DEF LetsIn

(* Entries that follow others which follow others again follow these: what *)
(* is a hash already is not hashed again.                                  *)
LEMMA FollowsTwice ==
  ASSUME NEW xs \in Seq(Entry), NEW ys \in Seq(Entry), NEW zs \in Seq(Entry),
         Follows(xs, ys), Follows(ys, zs)
  PROVE  Follows(xs, zs)
<1>1. DOMAIN ys = DOMAIN zs /\ Len(xs) = Len(zs)
  BY LenProperties DEF Follows
<1>2. ASSUME NEW i \in DOMAIN zs
      PROVE  \/ xs[i] = zs[i]
             \/ ~Exempt(zs[i]) /\ xs[i] = Hashed(zs[i])
  <2>1. /\ \/ xs[i] = ys[i]
           \/ ~Exempt(ys[i]) /\ xs[i] = Hashed(ys[i])
        /\ \/ ys[i] = zs[i]
           \/ ~Exempt(zs[i]) /\ ys[i] = Hashed(zs[i])
    BY <1>1, <1>2 DEF Follows
  <2>2. Exempt(Hashed(zs[i]))
    BY <1>2, HashedTyped
  <2> QED BY <2>1, <2>2
<1> QED BY <1>1, <1>2 DEF Follows

(* Their users stay.                                                       *)
LEMMA FollowsUsers ==
  ASSUME NEW xs \in Seq(Entry), NEW ys \in Seq(Entry), Follows(xs, ys),
         \A i \in DOMAIN ys : ys[i].user \in Users
  PROVE  \A i \in DOMAIN xs : xs[i].user \in Users
<1>1. DOMAIN xs = DOMAIN ys
  BY LenProperties DEF Follows
<1>2. ASSUME NEW i \in DOMAIN ys
      PROVE  xs[i].user = ys[i].user
  <2>1. \/ xs[i] = ys[i]
        \/ xs[i] = Hashed(ys[i])
    BY <1>2 DEF Follows
  <2> QED BY <1>2, <2>1, HashedTyped
<1> QED BY <1>1, <1>2

-----------------------------------------------------------------------------
(* The content that was loaded last.                                       *)

(* There is one, with entries.                                             *)
LEMMA ContentTyped ==
  ASSUME TypeOK, heap # <<>>
  PROVE  /\ Len(heap) \in Nat \ {0} /\ DOMAIN heap = 1 .. Len(heap)
         /\ Content = heap[Len(heap)] /\ Content \in ContentType
         /\ Content.accesses \in Seq(Entry)
         /\ Len(Content.accesses) \in Nat
         /\ DOMAIN Content.accesses = 1 .. Len(Content.accesses)
         /\ Content.loaded \in FileType
         /\ Content.loaded.accesses \in Seq(Entry)
<1>1. heap \in Seq(ContentType)
  BY DEF TypeOK
<1>2. Len(heap) \in Nat \ {0} /\ DOMAIN heap = 1 .. Len(heap)
  BY <1>1, EmptySeq, LenProperties
<1>3. Content = heap[Len(heap)]
  BY DEF Content, Last
<1>4. Content \in ContentType
  BY <1>1, <1>2, <1>3
<1>5. Content.accesses \in Seq(Entry) /\ Content.loaded \in FileType
  BY <1>4 DEF ContentType
<1>6. Content.loaded.accesses \in Seq(Entry)
  BY <1>5 DEF FileType
<1> QED BY <1>2, <1>3, <1>4, <1>5, <1>6, LenProperties

-----------------------------------------------------------------------------
(* The steps.                                                              *)

(* Outside a load there is little to keep.                                 *)
LEMMA IdleStep ==
  ASSUME TypeOK', FollowInv', loader' = Idle, NothingPlainLeft'
  PROVE  IInv'
<1>1. LoadInv'
  BY DEF LoadInv, Loading, Idle
<1>2. OrderInv'
  BY DEF OrderInv, Idle
<1> QED BY <1>1, <1>2 DEF IInv

(* What logins do changes nothing of this.                                 *)
LEMMA LoginChanges ==
  ASSUME IInv, UNCHANGED <<build, file, edits, raced, heap, loader, result, loads>>,
         login' \in [Logins -> [at : {"idle", "scan", "hash", "plain", "accepted", "refused"},
                                user : Users \cup {Nobody}, pass : Passwords \cup {Unknown},
                                gen : 0 .. Len(heap), next : Nat \ {0}, overlap : BOOLEAN]],
         (Loading /\ Len(heap) = 1) => \A l \in Logins : login'[l].gen = 0
  PROVE  IInv'
<1>1. TypeOK'
  BY DEF IInv, TypeOK
<1>2. FollowInv'
  BY DEF IInv, FollowInv, Follows, Exempt, Wildcard, Recognised
<1>3. LoadInv'
  BY DEF IInv, LoadInv, Loading, Content, Follows, Exempt, Wildcard, Recognised
<1>4. OrderInv'
  BY DEF IInv, OrderInv, AllExempt, Content, Exempt, Wildcard, Recognised
<1>5. NothingPlainLeft'
  BY DEF IInv, NothingPlainLeft, Content, Exempt, Wildcard, Recognised
<1> QED BY <1>1, <1>2, <1>3, <1>4, <1>5 DEF IInv

(* GetAccess and its steps.                                                *)
LEMMA LoginStep ==
  ASSUME IInv, NEW l \in Logins, GetAccess(l) \/ Scan(l) \/ CompareHash(l) \/ ComparePlain(l)
  PROVE  IInv'
<1> DEFINE L == [at : {"idle", "scan", "hash", "plain", "accepted", "refused"},
                 user : Users \cup {Nobody}, pass : Passwords \cup {Unknown},
                 gen : 0 .. Len(heap), next : Nat \ {0}, overlap : BOOLEAN]
<1>1. login \in [Logins -> L]
  BY DEF IInv, TypeOK
<1>2. UNCHANGED <<build, file, edits, raced, heap, loader, result, loads>>
  BY DEF GetAccess, Scan, CompareHash, ComparePlain
<1>3. (Loading /\ Len(heap) = 1) => \A k \in Logins : login[k].gen = 0
  BY DEF IInv, LoadInv
<1>4. CASE GetAccess(l)
  <2>1. heap # <<>> /\ (Len(heap) > 1 \/ ~Loading)
    BY <1>4 DEF GetAccess
  <2>2. Len(heap) \in 0 .. Len(heap) /\ Len(heap) \in Nat
    BY <2>1, ContentTyped DEF IInv
  <2>3. PICK u \in Users, p \in Passwords :
          login' = [login EXCEPT ![l] =
            [at |-> "scan", user |-> u, pass |-> p, gen |-> Len(heap), next |-> 1,
             overlap |-> loader.at = "store"]]
    BY <1>4 DEF GetAccess
  <2>4. login' \in [Logins -> L]
    BY <1>1, <2>2, <2>3
  <2>5. ~(Loading /\ Len(heap) = 1)
    <3>1. \A n \in Nat : n > 1 => n # 1
      OBVIOUS
    <3> QED BY <2>1, <2>2, <3>1, Zenon
  <2> QED BY <1>2, <2>4, <2>5, LoginChanges
<1>5. CASE Scan(l) \/ CompareHash(l) \/ ComparePlain(l)
  <2>1. NextEntry(l) \/ \E at \in {"hash", "plain", "accepted", "refused"} : Goto(l, at)
    BY <1>5, Zenon DEF Scan, CompareHash, ComparePlain
  <2>2. login' \in [Logins -> L] /\ \A k \in Logins : login'[k].gen = login[k].gen
    <3>1. CASE NextEntry(l)
      <4>1. login' = [login EXCEPT ![l].at = "scan", ![l].next = login[l].next + 1]
        BY <3>1 DEF NextEntry
      <4>2. login[l] \in L /\ login[l].next + 1 \in Nat \ {0}
        BY <1>1
      <4> QED BY <1>1, <4>1, <4>2
    <3>2. ASSUME NEW at \in {"hash", "plain", "accepted", "refused"}, Goto(l, at)
          PROVE  login' \in [Logins -> L] /\ \A k \in Logins : login'[k].gen = login[k].gen
      <4>1. login' = [login EXCEPT ![l].at = at]
        BY <3>2 DEF Goto
      <4> QED BY <1>1, <4>1
    <3> QED BY <2>1, <3>1, <3>2
  <2> QED BY <1>2, <1>3, <2>2, LoginChanges
<1> QED BY <1>4, <1>5

(* A load that fails gives up the first content and keeps a later one.     *)
LEMMA FailStep ==
  ASSUME IInv, Loading, Fail, UNCHANGED <<build, file, edits, raced, loads, login>>
  PROVE  IInv'
<1>1. TypeOK /\ FollowInv /\ heap # <<>>
  BY DEF IInv, LoadInv
<1>2. loader' = Idle /\ result' = "failed" /\ heap' = IF Len(heap) = 1 THEN <<>> ELSE heap
  BY DEF Fail
<1>3. Idle \in [at : {"idle", "read", "hash", "store", "write", "writing"}, next : Nat \ {0},
                text : FileType \cup {Broken}, save : BOOLEAN]
  BY DEF Idle
<1>4. TypeOK' /\ FollowInv'
  <2>1. CASE heap' = heap
    <3>1. TypeOK'
      BY <1>1, <1>2, <1>3, <2>1 DEF TypeOK
    <3>2. FollowInv'
      BY <1>1, <2>1 DEF FollowInv, Follows, Exempt, Wildcard, Recognised
    <3> QED BY <3>1, <3>2
  <2>2. CASE heap' = <<>> /\ Len(heap) = 1
    <3>1. \A l \in Logins : login[l].gen = 0
      BY <2>2 DEF IInv, LoadInv
    <3>2. <<>> \in Seq(ContentType) /\ Len(<<>>) = 0 /\ DOMAIN <<>> = {}
      OBVIOUS
    <3>3. \A l \in Logins : login[l] \in
            [at : {"idle", "scan", "hash", "plain", "accepted", "refused"},
             user : Users \cup {Nobody}, pass : Passwords \cup {Unknown},
             gen : 0 .. 0, next : Nat \ {0}, overlap : BOOLEAN]
      BY <1>1, <3>1 DEF TypeOK
    <3>4. TypeOK'
      BY <1>1, <1>2, <1>3, <2>2, <3>2, <3>3 DEF TypeOK
    <3>5. FollowInv'
      BY <1>1, <2>2, <3>2 DEF FollowInv, Follows, Exempt, Wildcard, Recognised
    <3> QED BY <3>4, <3>5
  <2> QED BY <1>2, <2>1, <2>2
<1>5. NothingPlainLeft'
  BY <1>2 DEF NothingPlainLeft
<1> QED BY <1>2, <1>4, <1>5, IdleStep

(* A step of a load that only moves on.                                    *)
LEMMA LoaderMoves ==
  ASSUME IInv, UNCHANGED <<build, file, edits, raced, heap, result, loads>>,
         Loading, loader.at # "writing",
         loader' \in [at : {"read", "hash", "store", "write"}, next : Nat \ {0},
                      text : FileType \cup {Broken}, save : BOOLEAN],
         loader'.save = loader.save,
         login' \in [Logins -> [at : {"idle", "scan", "hash", "plain", "accepted", "refused"},
                                user : Users \cup {Nobody}, pass : Passwords \cup {Unknown},
                                gen : 0 .. Len(heap), next : Nat \ {0}, overlap : BOOLEAN]],
         \A l \in Logins : login'[l].gen = login[l].gen,
         OrderInv'
  PROVE  IInv'
<1>1. TypeOK'
  BY DEF IInv, TypeOK
<1>2. FollowInv'
  BY DEF IInv, FollowInv, Follows, Exempt, Wildcard, Recognised
<1>3. LoadInv'
  <2>1. loader'.at \notin {"idle", "writing"} /\ file # Broken /\ result # "ok"
    BY DEF IInv, LoadInv
  <2> QED BY <2>1 DEF IInv, LoadInv, Loading, Content, Follows, Exempt, Wildcard, Recognised
<1>4. NothingPlainLeft'
  BY DEF IInv, LoadInv, NothingPlainLeft
<1> QED BY <1>1, <1>2, <1>3, <1>4 DEF IInv

(* The full variant reads the file again: it is what was loaded, unless    *)
(* somebody edited it (config.go:146-158).                                 *)
LEMMA ReadStep ==
  ASSUME IInv, ReadFile
  PROVE  IInv'
<1>1. TypeOK /\ LoadInv /\ OrderInv /\ loader.at = "read" /\ Loading
      /\ UNCHANGED <<build, file, edits, raced, loads, login>>
  BY DEF IInv, ReadFile, Loading
<1>2. CASE Fail
  BY <1>1, <1>2, FailStep
<1>3. CASE loader' = [loader EXCEPT !.at = "hash", !.text = file] /\ UNCHANGED <<heap, result>>
  <2>1. /\ loader' \in [at : {"read", "hash", "store", "write"}, next : Nat \ {0},
                        text : FileType \cup {Broken}, save : BOOLEAN]
        /\ loader'.save = loader.save /\ loader'.at = "hash" /\ loader'.next = 1
        /\ loader'.text = file
    BY <1>1, <1>3 DEF TypeOK, OrderInv
  <2>2. /\ heap # <<>> /\ file # Broken
        /\ ~raced => file.accesses = Content.loaded.accesses
        /\ loader.save \/ Content.accesses = Content.loaded.accesses
    BY <1>1 DEF LoadInv
  <2>3. Content' = Content /\ Content.accesses = Content.loaded.accesses
        /\ DOMAIN Content.accesses = 1 .. Len(Content.accesses) /\ Len(Content.accesses) \in Nat
    BY <1>1, <1>3, <2>2, ContentTyped DEF OrderInv, Content
  <2>4. OrderInv'
    BY <1>1, <1>3, <2>1, <2>2, <2>3 DEF OrderInv
  <2> QED BY <1>1, <1>3, <2>1, <2>4, LoaderMoves DEF TypeOK
<1> QED BY <1>2, <1>3 DEF ReadFile

(* An entry that stays as it is, or whose hash is made (config.go:168-179).*)
LEMMA EntryStep ==
  ASSUME IInv, SkipEntry \/ HashFails \/ HashEntry
  PROVE  IInv'
<1>1. /\ TypeOK /\ LoadInv /\ OrderInv
      /\ loader.at = "hash" /\ Loading /\ heap # <<>> /\ loader.next <= Len(Content.accesses)
      /\ UNCHANGED <<build, file, edits, raced, loads>>
  BY DEF IInv, LoadInv, SkipEntry, HashFails, HashEntry, Hashing, Loading
<1>2. Len(Content.accesses) \in Nat /\ DOMAIN Content.accesses = 1 .. Len(Content.accesses)
      /\ loader.next \in Nat \ {0} /\ loader.next \in DOMAIN Content.accesses
  BY <1>1, ContentTyped DEF TypeOK
<1>3. loader.save \in BOOLEAN /\ loader.text \in FileType \cup {Broken}
  BY <1>1 DEF TypeOK
<1>4. CASE HashFails
  BY <1>1, <1>4, FailStep DEF HashFails
<1>5. CASE SkipEntry
  <2>1. loader' = [loader EXCEPT !.next = loader.next + 1] /\ UNCHANGED <<heap, result, login>>
        /\ Exempt(Content.accesses[loader.next])
    BY <1>5 DEF SkipEntry
  <2>2. /\ loader' \in [at : {"read", "hash", "store", "write"}, next : Nat \ {0},
                        text : FileType \cup {Broken}, save : BOOLEAN]
        /\ loader'.at = "hash" /\ loader'.next = loader.next + 1
        /\ loader'.save = loader.save /\ loader'.text = loader.text
    <3>1. loader.next + 1 \in Nat \ {0}
      BY <1>2
    <3> QED BY <1>1, <1>3, <2>1, <3>1 DEF TypeOK
  <2>3. Content' = Content
    BY <2>1 DEF Content
  <2>4. \A i \in DOMAIN Content.accesses :
          IF i < loader'.next THEN Exempt(Content.accesses[i])
                              ELSE Content.accesses[i] = Content.loaded.accesses[i]
    BY <1>1, <1>2, <2>1, <2>2 DEF OrderInv
  <2>5. OrderInv'
    BY <1>1, <1>2, <2>2, <2>3, <2>4 DEF OrderInv, Exempt, Wildcard, Recognised
  <2> QED BY <1>1, <2>1, <2>2, <2>5, LoaderMoves DEF TypeOK
<1>6. CASE HashEntry
  <2>1. loader' = [loader EXCEPT !.at = "store"] /\ UNCHANGED <<heap, result>>
        /\ login' = [l \in Logins |->
                       [login[l] EXCEPT !.overlap = login[l].overlap \/ login[l].gen = Len(heap)]]
        /\ ~Exempt(Content.accesses[loader.next])
    BY <1>6 DEF HashEntry
  <2>2. /\ loader' \in [at : {"read", "hash", "store", "write"}, next : Nat \ {0},
                        text : FileType \cup {Broken}, save : BOOLEAN]
        /\ loader'.at = "store" /\ loader'.next = loader.next
        /\ loader'.save = loader.save /\ loader'.text = loader.text
    BY <1>1, <1>2, <1>3, <2>1 DEF TypeOK
  <2>3. Content' = Content
    BY <2>1 DEF Content
  <2>4. OrderInv'
    BY <1>1, <1>2, <2>1, <2>2, <2>3 DEF OrderInv, Exempt, Wildcard, Recognised
  <2>5. /\ login' \in [Logins -> [at : {"idle", "scan", "hash", "plain", "accepted", "refused"},
                                 user : Users \cup {Nobody}, pass : Passwords \cup {Unknown},
                                 gen : 0 .. Len(heap), next : Nat \ {0}, overlap : BOOLEAN]]
        /\ \A l \in Logins : login'[l].gen = login[l].gen
    <3>1. \A l \in Logins : (login[l].overlap \/ login[l].gen = Len(heap)) \in BOOLEAN
      BY <1>1 DEF TypeOK
    <3> DEFINE L == [at : {"idle", "scan", "hash", "plain", "accepted", "refused"},
                     user : Users \cup {Nobody}, pass : Passwords \cup {Unknown},
                     gen : 0 .. Len(heap), next : Nat \ {0}, overlap : BOOLEAN]
    <3>2. ASSUME NEW l \in Logins, NEW o \in BOOLEAN
          PROVE  [login[l] EXCEPT !.overlap = o] \in L /\ [login[l] EXCEPT !.overlap = o].gen = login[l].gen
      <4> DEFINE e == login[l]
      <4>1. e \in L
        BY <1>1 DEF TypeOK
      <4> HIDE DEF e
      <4>2. [e EXCEPT !.overlap = o] \in L /\ [e EXCEPT !.overlap = o].gen = e.gen
        BY <4>1
      <4> QED BY <4>2 DEF e
    <3> HIDE DEF L
    <3>3. \A l \in Logins : login'[l] \in L /\ login'[l].gen = login[l].gen
      BY <2>1, <3>1, <3>2
    <3>4. login' \in [Logins -> L]
      BY <2>1, <3>3
    <3> QED BY <3>3, <3>4 DEF L
  <2> QED BY <1>1, <2>1, <2>2, <2>4, <2>5, LoaderMoves
<1> QED BY <1>4, <1>5, <1>6

(* Setting a password in the text keeps it a text (config.go:182).         *)
LEMMA SetPassTyped ==
  ASSUME NEW xs \in Seq(Entry), NEW i \in Nat \ {0}, NEW b \in Stored
  PROVE  SetPass(xs, i, b) \in Seq(Entry)
<1>1. [user |-> Nobody, pass |-> b] \in Entry
  BY DEF Entry
<1>2. CASE i <= Len(xs)
  <2>1. i \in 1 .. Len(xs) /\ xs[i] \in Entry
    BY <1>2, LenProperties, ElementOfSeq
  <2> DEFINE e == [xs[i] EXCEPT !.pass = b]
  <2>2. e \in Entry
    BY <2>1 DEF Entry
  <2>3. SetPass(xs, i, b) = [xs EXCEPT ![i] = e]
    BY <1>2 DEF SetPass
  <2> HIDE DEF e
  <2>4. i \in DOMAIN xs
    BY <2>1, LenProperties
  <2> QED BY <2>2, <2>3, <2>4, Replaced
<1>3. CASE ~(i <= Len(xs))
  <2>1. SetPass(xs, i, b) = Append(xs, [user |-> Nobody, pass |-> b])
    BY <1>3 DEF SetPass
  <2> DEFINE e == [user |-> Nobody, pass |-> b]
  <2> HIDE DEF e
  <2>2. Append(xs, e) \in Seq(Entry)
    BY <1>1 DEF e
  <2> QED BY <2>1, <2>2 DEF e
<1> QED BY <1>2, <1>3

(* The hash goes into the entry, and in the full variant into the text,    *)
(* which stays what the content is (config.go:180-188).                    *)
LEMMA StoreStep ==
  ASSUME IInv, StoreEntry
  PROVE  IInv'
<1> DEFINE n == Len(heap)
           i == loader.next
           xs == Content.accesses
           e == Hashed(xs[i])
           ys == [xs EXCEPT ![i] = e]
           c == [Content EXCEPT !.accesses = ys]
<1>1. /\ TypeOK /\ FollowInv /\ LoadInv /\ OrderInv
      /\ loader.at = "store" /\ Loading /\ heap # <<>>
      /\ UNCHANGED <<build, file, edits, raced, result, loads, login>>
  BY DEF IInv, LoadInv, StoreEntry, Loading
<1>2. /\ n \in Nat \ {0} /\ DOMAIN heap = 1 .. n /\ Content = heap[n] /\ Content \in ContentType
      /\ xs \in Seq(Entry) /\ Len(xs) \in Nat /\ DOMAIN xs = 1 .. Len(xs)
      /\ heap \in Seq(ContentType)
  BY <1>1, ContentTyped DEF TypeOK
<1>3. i \in DOMAIN xs /\ i \in Nat \ {0} /\ ~Exempt(xs[i]) /\ xs[i] = Content.loaded.accesses[i]
  BY <1>1, <1>2 DEF OrderInv, TypeOK
<1>4. xs[i] \in Entry
  BY <1>2, <1>3
<1>5. /\ e \in Entry /\ Exempt(e) /\ Bcrypt(xs[i].pass) \in Stored
      /\ e = [xs[i] EXCEPT !.pass = Bcrypt(xs[i].pass)]
  BY <1>4, HashedTyped DEF Hashed
<1> DEFINE b == Bcrypt(xs[i].pass)
<1>6. /\ heap' = [heap EXCEPT ![n].accesses[i].pass = b]
      /\ loader' = [loader EXCEPT !.at = "hash", !.next = i + 1, !.save = TRUE,
                      !.text = IF build = "full"
                                 THEN [loader.text EXCEPT !.accesses = SetPass(loader.text.accesses, i, b)]
                                 ELSE loader.text]
  <2>1. heap' = [heap EXCEPT ![n].accesses[i].pass = b]
    BY DEF StoreEntry
  <2>2. loader' = [loader EXCEPT !.at = "hash", !.next = i + 1, !.save = TRUE,
                      !.text = IF build = "full"
                                 THEN [loader.text EXCEPT !.accesses = SetPass(loader.text.accesses, i, b)]
                                 ELSE loader.text]
    BY DEF StoreEntry, Saved
  <2> QED BY <2>1, <2>2
<1>7. heap' = [heap EXCEPT ![n] = c]
  <2>1. [heap[n].accesses EXCEPT ![i].pass = b] = ys
    BY <1>2, <1>5
  <2> QED BY <1>2, <1>6, <2>1
<1>8. /\ ys \in Seq(Entry) /\ Len(ys) = Len(xs) /\ ys[i] = e
      /\ \A j \in DOMAIN xs \ {i} : ys[j] = xs[j]
  <2> HIDE DEF e, xs, i
  <2> QED BY <1>2, <1>3, <1>5, Replaced
<1>9. c \in ContentType /\ c.accesses = ys /\ c.loaded = Content.loaded
  <2> HIDE DEF ys
  <2> QED BY <1>2, <1>8 DEF ContentType
<1>10. /\ heap' \in Seq(ContentType) /\ Len(heap') = n /\ heap' # <<>>
       /\ heap'[n] = c /\ (\A g \in 1 .. n : g # n => heap'[g] = heap[g])
       /\ DOMAIN heap' = 1 .. n
  <2> HIDE DEF c
  <2>1. /\ heap' \in Seq(ContentType) /\ Len(heap') = n /\ DOMAIN heap' = DOMAIN heap
        /\ heap'[n] = c /\ \A g \in DOMAIN heap \ {n} : heap'[g] = heap[g]
    <3>1. n \in DOMAIN heap
      BY <1>2
    <3> QED BY <1>2, <1>7, <1>9, <3>1, Replaced
  <2>2. heap' # <<>>
    BY <1>2, <2>1
  <2> QED BY <1>2, <2>1, <2>2
<1>11. Content' = c
  BY <1>10 DEF Content, Last
<1>12. /\ loader'.at = "hash" /\ loader'.next = i + 1 /\ loader'.save = TRUE
       /\ loader' \in [at : {"idle", "read", "hash", "store", "write", "writing"}, next : Nat \ {0},
                       text : FileType \cup {Broken}, save : BOOLEAN]
       /\ build = "full" /\ ~raced => loader'.text.accesses = ys
       /\ build = "full" => loader'.text # Broken
  <2>0. i + 1 \in Nat \ {0}
    BY <1>3
  <2>1. CASE build # "full"
    BY <1>1, <1>6, <2>0, <2>1 DEF TypeOK
  <2>2. CASE build = "full"
    <3>1. loader.text \in FileType /\ (~raced => loader.text.accesses = xs)
      BY <1>1, <2>2 DEF TypeOK, OrderInv
    <3> DEFINE ts == SetPass(loader.text.accesses, i, b)
               text == [loader.text EXCEPT !.accesses = ts]
    <3>2. loader.text.accesses \in Seq(Entry)
      BY <3>1 DEF FileType
    <3>3. ts \in Seq(Entry)
      BY <1>3, <1>5, <3>2, SetPassTyped
    <3>4. ~raced => ts = ys
      <4>1. SetPass(xs, i, b) = [xs EXCEPT ![i].pass = b]
        BY <1>2, <1>3 DEF SetPass
      <4>2. [xs EXCEPT ![i].pass = b] = ys
        BY <1>3, <1>5
      <4> QED BY <3>1, <4>1, <4>2
    <3> HIDE DEF ts
    <3>5. text \in FileType /\ text.accesses = ts
      BY <3>1, <3>3 DEF FileType
    <3>6. text # Broken
      BY <3>5, FilesAssumption
    <3>7. loader' = [loader EXCEPT !.at = "hash", !.next = i + 1, !.save = TRUE, !.text = text]
      BY <1>6, <2>2 DEF ts
    <3> HIDE DEF text, ys
    <3> QED BY <1>1, <2>0, <3>4, <3>5, <3>6, <3>7 DEF TypeOK
  <2> QED BY <2>1, <2>2
<1> HIDE DEF c, ys, e
<1>13. TypeOK'
  BY <1>1, <1>10, <1>12 DEF TypeOK
<1>14. FollowInv'
  <2>1. Follows(ys, Content.loaded.accesses)
    <3>1. Follows(xs, Content.loaded.accesses)
      BY <1>1, <1>2 DEF FollowInv
    <3>2. Content.loaded.accesses \in Seq(Entry)
      BY <1>1, ContentTyped
    <3>3. DOMAIN Content.loaded.accesses = DOMAIN xs
      BY <1>2, <3>1, <3>2, LenProperties DEF Follows
    <3> QED BY <1>3, <1>8, <3>1, <3>3 DEF Follows, e
  <2>2. \A g \in DOMAIN heap' : Follows(heap'[g].accesses, heap'[g].loaded.accesses)
    BY <1>1, <1>2, <1>9, <1>10, <2>1 DEF FollowInv
  <2> QED BY <1>1, <2>2 DEF FollowInv, Follows, Exempt, Wildcard, Recognised
<1>15. LoadInv'
  <2>1. /\ heap' # <<>> /\ file' # Broken /\ loader'.at = "hash" /\ loader'.save /\ result' # "ok"
        /\ Len(heap') = 1 => \A l \in Logins : login'[l].gen = 0
        /\ ~raced => file'.accesses = Content'.loaded.accesses
    BY <1>1, <1>9, <1>10, <1>11, <1>12 DEF LoadInv
  <2>2. ~raced => Follows(Content.loaded.accesses, Last(edits).accesses)
    BY <1>1 DEF LoadInv
  <2>3. Content'.loaded = Content.loaded
    BY <1>9, <1>11
  <2> QED BY <1>1, <2>1, <2>2, <2>3 DEF LoadInv, Loading, Follows, Exempt, Wildcard, Recognised
<1>16. \A j \in DOMAIN ys : IF j < i + 1 THEN Exempt(ys[j]) ELSE ys[j] = Content.loaded.accesses[j]
  <2> SUFFICES ASSUME NEW j \in 1 .. Len(xs)
               PROVE  IF j < i + 1 THEN Exempt(ys[j]) ELSE ys[j] = Content.loaded.accesses[j]
    BY <1>2, <1>8, LenProperties
  <2>1. CASE j = i
    BY <1>3, <1>5, <1>8, <2>1
  <2>2. CASE j # i
    <3>1. ys[j] = xs[j] /\ (j < i + 1 <=> j < i)
      <4>1. \A k, m \in Nat : k # m => (k < m + 1 <=> k < m)
        OBVIOUS
      <4>2. j \in Nat /\ i \in Nat /\ j \in DOMAIN xs \ {i}
        BY <1>2, <1>3, <2>2
      <4> QED BY <1>8, <2>2, <4>1, <4>2
    <3>2. IF j < i THEN Exempt(xs[j]) ELSE xs[j] = Content.loaded.accesses[j]
      BY <1>1, <1>2 DEF OrderInv
    <3> QED BY <3>1, <3>2
  <2> QED BY <2>1, <2>2
<1>17. OrderInv'
  <2>1. i + 1 <= Len(ys) + 1
    BY <1>2, <1>3, <1>8
  <2>2. \A j \in DOMAIN Content'.accesses :
          IF j < loader'.next THEN Exempt(Content'.accesses[j])
                              ELSE Content'.accesses[j] = Content'.loaded.accesses[j]
    BY <1>9, <1>11, <1>12, <1>16
  <2> QED BY <1>1, <1>9, <1>11, <1>12, <2>1, <2>2 DEF OrderInv, Exempt, Wildcard, Recognised
<1>18. NothingPlainLeft'
  BY <1>1 DEF NothingPlainLeft, LoadInv
<1> QED BY <1>13, <1>14, <1>15, <1>17, <1>18 DEF IInv

(* A load that succeeds leaves what it made of the content, and no plain   *)
(* password in it, or in what it wrote.                                    *)
LEMMA SucceedStep ==
  ASSUME IInv, Loading, Succeed, UNCHANGED <<build, edits, raced, loads, login>>,
         file' \in FileType \cup {Broken},
         (file' # Broken /\ ~raced) => file'.accesses = Content.accesses,
         AllExempt(Content.accesses)
  PROVE  IInv'
<1>1. TypeOK /\ FollowInv /\ LoadInv /\ heap # <<>>
  BY DEF IInv, LoadInv
<1>2. loader' = Idle /\ result' = "ok" /\ heap' = heap
  BY DEF Succeed
<1>3. Idle \in [at : {"idle", "read", "hash", "store", "write", "writing"}, next : Nat \ {0},
                text : FileType \cup {Broken}, save : BOOLEAN]
  BY DEF Idle
<1>4. /\ Content.accesses \in Seq(Entry) /\ Content.loaded.accesses \in Seq(Entry)
      /\ Content = heap[Len(heap)] /\ Len(heap) \in DOMAIN heap
  BY <1>1, ContentTyped
<1>5. Content' = Content
  BY <1>2 DEF Content
<1>6. Follows(Content.accesses, Content.loaded.accesses)
  BY <1>1, <1>4 DEF FollowInv
<1>7. ~raced => Follows(Content.loaded.accesses, Last(edits).accesses)
  BY <1>1 DEF LoadInv
<1>8. /\ Last(edits).accesses \in Seq(Entry)
      /\ \A k \in DOMAIN Last(edits).accesses : Last(edits).accesses[k].user \in Users
  <2>1. edits \in Seq(Files) /\ Len(edits) \in 1 .. Len(edits)
    BY <1>1, BoundsAssumption DEF TypeOK
  <2>2. Last(edits) \in Files
    BY <2>1, ElementOfSeq DEF Last
  <2> QED BY <2>2, FilesAssumption DEF FileType
<1>9. ~raced => Follows(Content.accesses, Last(edits).accesses)
  BY <1>4, <1>6, <1>7, <1>8, FollowsTwice
<1>10. FollowInv'
  <2>1. (file' # Broken /\ ~raced) => Follows(file'.accesses, Last(edits).accesses)
    BY <1>9
  <2>2. \A g \in DOMAIN heap : Follows(heap[g].accesses, heap[g].loaded.accesses)
    BY <1>1 DEF FollowInv
  <2> QED BY <1>2, <2>1, <2>2 DEF FollowInv, Follows, Exempt, Wildcard, Recognised
<1>11. (file' # Broken /\ ~raced) => \A k \in DOMAIN file'.accesses : file'.accesses[k].user \in Users
  <2>1. ~raced => \A k \in DOMAIN Content.accesses : Content.accesses[k].user \in Users
    BY <1>4, <1>8, <1>9, FollowsUsers
  <2> QED BY <2>1
<1>12. TypeOK'
  BY <1>1, <1>2, <1>3, <1>11 DEF TypeOK
<1>13. NothingPlainLeft'
  <2>1. /\ \A k \in DOMAIN Content.accesses : Exempt(Content.accesses[k])
        /\ (file' # Broken /\ ~raced) => \A k \in DOMAIN file'.accesses : Exempt(file'.accesses[k])
    BY DEF AllExempt
  <2> QED BY <1>5, <2>1 DEF NothingPlainLeft, Exempt, Wildcard, Recognised
<1> QED BY <1>2, <1>10, <1>12, <1>13, IdleStep

(* The hashing ends, and the file is written if there was a hash to store  *)
(* (config.go:189-201, config_local.go:96-104).                            *)
LEMMA WriteStep ==
  ASSUME IInv, HashingEnds \/ BeginWrite \/ EndWrite
  PROVE  IInv'
<1>1. TypeOK /\ LoadInv /\ OrderInv /\ FollowInv
  BY DEF IInv
<1>2. Loading /\ heap # <<>> /\ UNCHANGED <<build, edits, raced, loads, login>>
  BY <1>1 DEF HashingEnds, BeginWrite, EndWrite, Loading, LoadInv
<1>3. /\ Content.accesses \in Seq(Entry) /\ Len(Content.accesses) \in Nat
      /\ DOMAIN Content.accesses = 1 .. Len(Content.accesses)
      /\ loader.next \in Nat \ {0} /\ loader.save \in BOOLEAN
      /\ loader.text \in FileType \cup {Broken}
  BY <1>1, <1>2, ContentTyped DEF TypeOK
<1>4. CASE HashingEnds
  <2>1. loader.at = "hash" /\ loader.next > Len(Content.accesses) /\ UNCHANGED file
    BY <1>4 DEF HashingEnds
  <2>2. AllExempt(Content.accesses)
    <3>1. \A i \in 1 .. Len(Content.accesses) : i < loader.next
      BY <1>3, <2>1
    <3> QED BY <1>1, <1>3, <2>1, <3>1 DEF OrderInv, AllExempt
  <2>3. CASE loader.save
    <3>1. loader' = [loader EXCEPT !.at = "write"] /\ UNCHANGED <<heap, result>>
      BY <1>4, <2>3 DEF HashingEnds
    <3>2. /\ loader' \in [at : {"read", "hash", "store", "write"}, next : Nat \ {0},
                          text : FileType \cup {Broken}, save : BOOLEAN]
          /\ loader'.at = "write" /\ loader'.save = loader.save /\ loader'.text = loader.text
      BY <1>1, <1>3, <3>1 DEF TypeOK
    <3>3. Content' = Content
      BY <3>1 DEF Content
    <3>4. OrderInv'
      BY <1>1, <1>2, <2>1, <2>2, <3>2, <3>3
         DEF OrderInv, AllExempt, Exempt, Wildcard, Recognised
    <3> QED BY <1>1, <1>2, <2>1, <3>1, <3>2, <3>4, LoaderMoves DEF TypeOK
  <2>4. CASE ~loader.save
    <3>1. Succeed
      BY <1>4, <2>4 DEF HashingEnds
    <3>2. Content.accesses = Content.loaded.accesses
      BY <1>1, <1>2, <2>4 DEF LoadInv
    <3>3. (file' # Broken /\ ~raced) => file'.accesses = Content.accesses
      BY <1>1, <1>2, <2>1, <3>2 DEF LoadInv
    <3>4. file' \in FileType \cup {Broken}
      BY <1>1, <2>1 DEF TypeOK
    <3> QED BY <1>2, <2>2, <3>1, <3>3, <3>4, SucceedStep
  <2> QED BY <2>3, <2>4
<1>5. CASE BeginWrite
  <2>1. CASE Fail /\ UNCHANGED file
    BY <1>2, <2>1, FailStep
  <2>2. CASE file' = Broken /\ loader' = [loader EXCEPT !.at = "writing"] /\ UNCHANGED <<heap, result>>
    <3>1. /\ loader' \in [at : {"idle", "read", "hash", "store", "write", "writing"}, next : Nat \ {0},
                          text : FileType \cup {Broken}, save : BOOLEAN]
          /\ loader'.at = "writing" /\ loader'.save = loader.save /\ loader'.text = loader.text
      BY <1>1, <1>3, <2>2 DEF TypeOK
    <3>2. Content' = Content
      BY <2>2 DEF Content
    <3>3. loader.at = "write"
      BY <1>5 DEF BeginWrite
    <3>4. TypeOK'
      BY <1>1, <1>2, <2>2, <3>1 DEF TypeOK
    <3>5. FollowInv'
      BY <1>1, <1>2, <2>2 DEF FollowInv, Follows, Exempt, Wildcard, Recognised
    <3>6. LoadInv'
      BY <1>1, <1>2, <2>2, <3>1, <3>2, <3>3
         DEF LoadInv, Loading, Follows, Exempt, Wildcard, Recognised
    <3>7. OrderInv'
      BY <1>1, <1>2, <3>1, <3>2, <3>3 DEF OrderInv, AllExempt, Exempt, Wildcard, Recognised
    <3>8. NothingPlainLeft'
      BY <1>1, <1>2, <2>2 DEF NothingPlainLeft, LoadInv
    <3> QED BY <3>4, <3>5, <3>6, <3>7, <3>8 DEF IInv
  <2> QED BY <1>5, <2>1, <2>2 DEF BeginWrite
<1>6. CASE EndWrite
  <2>1. CASE Fail /\ UNCHANGED file
    BY <1>2, <2>1, FailStep
  <2>2. CASE /\ file' = IF build = "full" THEN loader.text
                                          ELSE [hash |-> TRUE, accesses |-> Content.accesses]
             /\ Succeed
    <3>1. loader.at = "writing" /\ AllExempt(Content.accesses)
      BY <1>1, <1>6 DEF EndWrite, OrderInv
    <3>2. build = "full" /\ ~raced => loader.text.accesses = Content.accesses
      BY <1>1, <3>1 DEF OrderInv
    <3>3. [hash |-> TRUE, accesses |-> Content.accesses] \in FileType
      BY <1>3 DEF FileType
    <3>4. /\ file' \in FileType \cup {Broken}
          /\ (file' # Broken /\ ~raced) => file'.accesses = Content.accesses
      BY <1>3, <2>2, <3>2, <3>3
    <3> QED BY <1>2, <2>2, <3>1, <3>4, SucceedStep
  <2> QED BY <1>6, <2>1, <2>2 DEF EndWrite
<1> QED BY <1>4, <1>5, <1>6

-----------------------------------------------------------------------------
(* Load, and what happens to it.                                           *)

(* Load publishes what the file says (config.go:101-135).                  *)
LEMMA LoadStep ==
  ASSUME IInv, Load
  PROVE  IInv'
<1> DEFINE c == [accesses |-> file.accesses, loaded |-> file]
           n == Len(heap) + 1
<1>1. /\ TypeOK /\ FollowInv /\ LoadInv /\ ~Loading /\ loads < MaxLoads /\ file # Broken
      /\ UNCHANGED <<build, file, edits, raced, login>>
      /\ loads' = loads + 1 /\ heap' = Append(heap, c)
  BY DEF IInv, Load
<1>2. file \in FileType /\ file.accesses \in Seq(Entry) /\ c \in ContentType
  BY <1>1 DEF TypeOK, FileType, ContentType
<1>3. /\ heap \in Seq(ContentType) /\ Len(heap) \in Nat /\ DOMAIN heap = 1 .. Len(heap)
      /\ loads + 1 \in 0 .. MaxLoads
  BY <1>1, LenProperties, BoundsAssumption DEF TypeOK
<1>4. /\ heap' \in Seq(ContentType) /\ Len(heap') = n /\ heap'[n] = c
      /\ \A g \in 1 .. Len(heap) : heap'[g] = heap[g]
      /\ DOMAIN heap' = 1 .. n /\ heap' # <<>>
  <2> HIDE DEF c
  <2>1. /\ heap' \in Seq(ContentType) /\ Len(heap') = n /\ heap'[n] = c
        /\ \A g \in 1 .. Len(heap) : heap'[g] = heap[g]
    BY <1>1, <1>2, <1>3
  <2>2. DOMAIN heap' = 1 .. n /\ heap' # <<>>
    BY <1>3, <2>1, LenProperties
  <2> QED BY <2>1, <2>2
<1>5. Content' = c
  BY <1>4 DEF Content, Last
<1>6. FollowInv'
  <2>1. Follows(file.accesses, file.accesses)
    BY DEF Follows
  <2>2. \A g \in DOMAIN heap' : Follows(heap'[g].accesses, heap'[g].loaded.accesses)
    <3> SUFFICES ASSUME NEW g \in 1 .. n
                 PROVE  Follows(heap'[g].accesses, heap'[g].loaded.accesses)
      BY <1>4
    <3>1. CASE g = n
      BY <1>4, <2>1, <3>1
    <3>2. CASE g # n
      <4>1. g \in 1 .. Len(heap)
        BY <1>3, <3>2
      <4> QED BY <1>1, <1>3, <1>4, <4>1 DEF FollowInv
    <3> QED BY <3>1, <3>2
  <2> QED BY <1>1, <2>2 DEF FollowInv, Follows, Exempt, Wildcard, Recognised
<1>7. login' \in [Logins -> [at : {"idle", "scan", "hash", "plain", "accepted", "refused"},
                             user : Users \cup {Nobody}, pass : Passwords \cup {Unknown},
                             gen : 0 .. n, next : Nat \ {0}, overlap : BOOLEAN]]
  <2>1. 0 .. Len(heap) \subseteq 0 .. n
    BY <1>3
  <2> QED BY <1>1, <2>1 DEF TypeOK
<1>8. n = 1 => \A l \in Logins : login'[l].gen = 0
  <2>1. n = 1 => Len(heap) = 0
    BY <1>3
  <2>2. \A l \in Logins : login[l].gen \in 0 .. Len(heap)
    BY <1>1 DEF TypeOK
  <2> QED BY <1>1, <2>1, <2>2
<1>9. CASE ~file.hash
  <2>1. loader' = Idle /\ result' = "ok"
    BY <1>9 DEF Load
  <2>2. TypeOK'
    BY <1>1, <1>3, <1>4, <1>7, <2>1 DEF TypeOK, Idle
  <2>3. NothingPlainLeft'
    BY <1>5, <1>9 DEF NothingPlainLeft
  <2> QED BY <1>6, <2>1, <2>2, <2>3, IdleStep
<1>10. CASE file.hash
  <2>1. PICK at \in {"read", "hash"} :
          /\ loader' = [Idle EXCEPT !.at = at]
          /\ at = "read" <=> build = "full"
    BY <1>10 DEF Load
  <2>2. result' = "none"
    BY <1>10 DEF Load
  <2>3. /\ loader'.at \in {"read", "hash"} /\ loader'.next = 1 /\ loader'.save = FALSE
        /\ loader'.at = "read" <=> build = "full"
        /\ loader' \in [at : {"idle", "read", "hash", "store", "write", "writing"}, next : Nat \ {0},
                        text : FileType \cup {Broken}, save : BOOLEAN]
    <3>1. loader' = [at |-> at, next |-> 1, text |-> Broken, save |-> FALSE]
      BY <2>1 DEF Idle
    <3>2. loader'.at = at /\ loader'.next = 1 /\ loader'.save = FALSE
      BY <3>1
    <3>3. loader' \in [at : {"idle", "read", "hash", "store", "write", "writing"}, next : Nat \ {0},
                       text : FileType \cup {Broken}, save : BOOLEAN]
      BY <3>1
    <3> QED BY <2>1, <3>2, <3>3
  <2>4. TypeOK'
    BY <1>1, <1>3, <1>4, <1>7, <2>2, <2>3 DEF TypeOK
  <2>5. LoadInv'
    <3>1. ~raced => Follows(file.accesses, Last(edits).accesses)
      BY <1>1 DEF FollowInv
    <3>2. Content'.accesses = file.accesses /\ Content'.loaded.accesses = file.accesses
      BY <1>5
    <3>3. ~raced => Follows(Content'.loaded.accesses, Last(edits).accesses)
      BY <3>1, <3>2
    <3> QED BY <1>1, <1>4, <1>8, <2>2, <2>3, <3>2, <3>3
            DEF LoadInv, Loading, Follows, Exempt, Wildcard, Recognised
  <2>6. OrderInv'
    <3>1. Len(file.accesses) \in Nat /\ DOMAIN file.accesses = 1 .. Len(file.accesses)
      BY <1>2, LenProperties
    <3> QED BY <1>1, <1>5, <2>3, <3>1 DEF OrderInv
  <2>7. NothingPlainLeft'
    BY <2>2 DEF NothingPlainLeft
  <2> QED BY <1>6, <2>4, <2>5, <2>6, <2>7 DEF IInv
<1> QED BY <1>9, <1>10

(* A file that does not decode leaves the content as it is.                *)
LEMMA LoadFailsStep ==
  ASSUME IInv, LoadFails
  PROVE  IInv'
<1>1. /\ TypeOK /\ FollowInv /\ LoadInv /\ ~Loading /\ loads < MaxLoads
      /\ UNCHANGED <<build, file, edits, raced, heap, loader, login>>
      /\ loads' = loads + 1 /\ result' = "failed"
  BY DEF IInv, LoadFails
<1>2. loader' = Idle
  BY <1>1 DEF LoadInv, Loading
<1>3. loads + 1 \in 0 .. MaxLoads
  BY <1>1, BoundsAssumption DEF TypeOK
<1>4. TypeOK'
  BY <1>1, <1>3 DEF TypeOK
<1>5. FollowInv'
  BY <1>1 DEF FollowInv, Follows, Exempt, Wildcard, Recognised
<1>6. NothingPlainLeft'
  BY <1>1 DEF NothingPlainLeft
<1> QED BY <1>2, <1>4, <1>5, <1>6, IdleStep

(* The process dies: the file stays as it is.                              *)
LEMMA CrashStep ==
  ASSUME IInv, Crash
  PROVE  IInv'
<1>1. /\ TypeOK /\ FollowInv /\ UNCHANGED <<build, file, edits, raced, loads>>
      /\ heap' = <<>> /\ loader' = Idle /\ result' = "none"
      /\ login' = [l \in Logins |-> NotAsked]
  BY DEF IInv, Crash
<1>2. <<>> \in Seq(ContentType) /\ Len(<<>>) = 0 /\ DOMAIN <<>> = {}
  OBVIOUS
<1>3. TypeOK'
  BY <1>1, <1>2 DEF TypeOK, Idle, NotAsked
<1>4. FollowInv'
  BY <1>1, <1>2 DEF FollowInv, Follows, Exempt, Wildcard, Recognised
<1>5. NothingPlainLeft'
  BY <1>1 DEF NothingPlainLeft
<1> QED BY <1>1, <1>3, <1>4, <1>5, IdleStep

(* An editor writes the file, perhaps during a load.                       *)
LEMMA EditStep ==
  ASSUME IInv, Edit
  PROVE  IInv'
<1>1. /\ TypeOK /\ FollowInv /\ LoadInv /\ OrderInv
      /\ Len(edits) <= MaxEdits /\ loader.at # "writing"
      /\ raced' = Loading /\ result' = "none"
      /\ UNCHANGED <<build, heap, loader, loads, login>>
  BY DEF IInv, Edit
<1>2. PICK f \in Files : file' = f /\ edits' = Append(edits, f)
  BY DEF Edit
<1>3. /\ f \in FileType /\ f # Broken /\ f.accesses \in Seq(Entry)
      /\ \A i \in DOMAIN f.accesses : f.accesses[i].user \in Users
  BY FilesAssumption DEF FileType
<1>4. /\ edits' \in Seq(Files) /\ Len(edits') \in 1 .. MaxEdits + 1 /\ Last(edits') = f
  <2>1. edits \in Seq(Files) /\ Len(edits) \in Nat
    BY <1>1 DEF TypeOK
  <2>2. edits' \in Seq(Files) /\ Len(edits') = Len(edits) + 1 /\ edits'[Len(edits) + 1] = f
    BY <1>2, <2>1
  <2>3. Last(edits') = f
    BY <2>2 DEF Last
  <2> QED BY <1>1, <2>1, <2>2, <2>3, BoundsAssumption
<1>5. Loading \in BOOLEAN
  BY DEF Loading
<1>6. TypeOK'
  BY <1>1, <1>2, <1>3, <1>4, <1>5 DEF TypeOK
<1>7. FollowInv'
  <2>1. Follows(f.accesses, f.accesses)
    BY DEF Follows
  <2> QED BY <1>1, <1>2, <1>4, <2>1 DEF FollowInv, Follows, Exempt, Wildcard, Recognised
<1>8. Content' = Content
  BY <1>1 DEF Content
<1>9. LoadInv'
  BY <1>1, <1>2, <1>3, <1>8 DEF LoadInv, Loading
<1>10. OrderInv'
  BY <1>1, <1>8 DEF OrderInv, Loading, AllExempt, Exempt, Wildcard, Recognised
<1>11. NothingPlainLeft'
  BY <1>1 DEF NothingPlainLeft
<1> QED BY <1>6, <1>7, <1>9, <1>10, <1>11 DEF IInv

-----------------------------------------------------------------------------
(* The theorems.                                                           *)

(* The inductive invariant holds at the start.                             *)
LEMMA InitIInv ==
  ASSUME Init
  PROVE  IInv
<1>1. /\ build \in Builds /\ file \in Files /\ edits = <<file>> /\ raced = FALSE
      /\ heap = <<>> /\ loader = Idle /\ result = "none" /\ loads = 0
      /\ login = [l \in Logins |-> NotAsked]
  BY DEF Init
<1>2. /\ file \in FileType /\ file # Broken
      /\ \A i \in DOMAIN file.accesses : file.accesses[i].user \in Users
  BY <1>1, FilesAssumption
<1>3. edits \in Seq(Files) /\ Len(edits) \in 1 .. MaxEdits + 1 /\ Last(edits) = file
  BY <1>1, BoundsAssumption DEF Last
<1>4. <<>> \in Seq(ContentType) /\ Len(<<>>) = 0 /\ DOMAIN <<>> = {}
  OBVIOUS
<1>5. TypeOK
  <2>1. Idle \in [at : {"idle", "read", "hash", "store", "write", "writing"}, next : Nat \ {0},
                  text : FileType \cup {Broken}, save : BOOLEAN]
    BY DEF Idle
  <2>2. login \in [Logins -> [at : {"idle", "scan", "hash", "plain", "accepted", "refused"},
                              user : Users \cup {Nobody}, pass : Passwords \cup {Unknown},
                              gen : 0 .. Len(heap), next : Nat \ {0}, overlap : BOOLEAN]]
    BY <1>1, <1>4 DEF NotAsked
  <2>3. loads \in 0 .. MaxLoads
    BY <1>1, BoundsAssumption
  <2> QED BY <1>1, <1>2, <1>3, <1>4, <2>1, <2>2, <2>3 DEF TypeOK
<1>6. FollowInv
  BY <1>1, <1>3, <1>4 DEF FollowInv, Follows
<1>7. LoadInv /\ OrderInv /\ NothingPlainLeft
  BY <1>1 DEF LoadInv, Loading, OrderInv, NothingPlainLeft, Idle
<1> QED BY <1>5, <1>6, <1>7 DEF IInv

(* Every step keeps it.                                                    *)
LEMMA NextIInv ==
  ASSUME IInv, [Next]_vars
  PROVE  IInv'
<1>1. CASE UNCHANGED vars
  BY <1>1, LoginChanges DEF vars, IInv, TypeOK, LoadInv
<1>2. CASE Next
  <2>1. CASE \E l \in Logins : GetAccess(l) \/ Scan(l) \/ CompareHash(l) \/ ComparePlain(l)
    BY <2>1, LoginStep
  <2> QED BY <1>2, <2>1, EditStep, CrashStep, LoadStep, LoadFailsStep, ReadStep, EntryStep,
             StoreStep, WriteStep DEF Next
<1> QED BY <1>1, <1>2

(* IInv holds in every state.                                              *)
THEOREM Invariance == Spec => []IInv
<1>1. Init => IInv
  BY InitIInv
<1>2. IInv /\ [Next]_vars => IInv'
  BY NextIInv
<1> QED BY <1>1, <1>2, PTL DEF Spec

(* File, contents, the load and the logins keep their types; a file that   *)
(* is whole has a user in each of its entries.                             *)
THEOREM TypeCorrect == Spec => []TypeOK
<1>1. IInv => TypeOK
  BY DEF IInv
<1> QED BY <1>1, Invariance, PTL

(* A load that asks for hashes and reports no error leaves no plain        *)
(* password, in the content or the file (config.go:160-201).               *)
THEOREM HashingIsComplete == Spec => []NothingPlainLeft
<1>1. IInv => NothingPlainLeft
  BY DEF IInv
<1> QED BY <1>1, Invariance, PTL

-----------------------------------------------------------------------------
(* What the full variant may rely on.                                      *)

(* Setting a password keeps what no editor writes out of the entries.      *)
LEMMA SetPassClear ==
  ASSUME NEW accesses \in Seq(Entry), NEW i \in Nat \ {0}, NEW stored \in Stored,
         Clear(accesses), AllKnown => stored.of # Unknown
  PROVE  Clear(SetPass(accesses, i, stored))
<1> DEFINE n == Len(accesses)
           new == SetPass(accesses, i, stored)
<1>1. n \in Nat /\ DOMAIN accesses = 1 .. n
  BY LenProperties
<1>2. CASE i <= n
  <2>1. new = [accesses EXCEPT ![i].pass = stored]
    BY <1>2 DEF SetPass
  <2>2. /\ DOMAIN new = 1 .. n
        /\ \A j \in 1 .. n : /\ new[j].user = accesses[j].user
                             /\ new[j].pass = IF j = i THEN stored ELSE accesses[j].pass
    <3>1. \A j \in 1 .. n : accesses[j] \in Entry
      BY <1>1
    <3>2. \A j \in 1 .. n : accesses[j] \in [user : Users \cup {Nobody}, pass : Stored]
      BY <3>1 DEF Entry
    <3> HIDE DEF new, n
    <3> QED BY <1>1, <2>1, <3>2
  <2> QED BY <1>1, <2>2 DEF Clear, NamesOnce, NoneUnknown
<1>3. CASE i > n
  <2> DEFINE e == [user |-> Nobody, pass |-> stored]
  <2>1. new = Append(accesses, e)
    BY <1>1, <1>3 DEF SetPass
  <2>2. e.user = Nobody /\ e.pass = stored /\ e \in Entry
    BY DEF Entry
  <2> HIDE DEF e
  <2>3. /\ DOMAIN new = 1 .. (n + 1) /\ new[n + 1] = e
        /\ \A j \in 1 .. n : new[j] = accesses[j]
    BY <1>1, <2>1, <2>2
  <2> HIDE DEF new
  <2>4. \A j \in 1 .. (n + 1) : j \in 1 .. n \/ j = n + 1
    BY <1>1
  <2>5. AllNamesOnce => NamesOnce(new)
    BY <1>1, <2>2, <2>3, <2>4, NamesAssumption DEF Clear, NamesOnce
  <2>6. AllKnown => NoneUnknown(new)
    BY <1>1, <2>2, <2>3, <2>4 DEF Clear, NoneUnknown
  <2> QED BY <2>5, <2>6 DEF Clear, new
<1> QED BY <1>1, <1>2, <1>3

(* What StoreEntry does to the contents (config.go:180-188).               *)
LEMMA StoreDoes ==
  ASSUME IInv, StoreEntry
  PROVE  LET n == Len(heap)
             i == loader.next
             xs == heap[n].accesses
         IN  /\ n \in DOMAIN heap /\ DOMAIN heap' = DOMAIN heap /\ Len(heap') = n
             /\ \A g \in DOMAIN heap \ {n} : heap'[g] = heap[g]
             /\ xs \in Seq(Entry) /\ i \in DOMAIN xs /\ i \in Nat \ {0} /\ ~Exempt(xs[i])
             /\ heap'[n].accesses = SetPass(xs, i, Bcrypt(xs[i].pass))
             /\ heap'[n].accesses = [xs EXCEPT ![i] = Hashed(xs[i])]
             /\ loader.at = "store" /\ loader'.at = "hash"
             /\ loader'.text = IF build = "full"
                  THEN [loader.text EXCEPT !.accesses = SetPass(loader.text.accesses, i, Bcrypt(xs[i].pass))]
                  ELSE loader.text
             /\ UNCHANGED <<build, file, edits, raced, result, loads, login>>
<1> DEFINE n == Len(heap)
           i == loader.next
           xs == heap[n].accesses
           b == Bcrypt(xs[i].pass)
<1>1. /\ TypeOK /\ LoadInv /\ OrderInv /\ loader.at = "store" /\ heap # <<>>
      /\ UNCHANGED <<build, file, edits, raced, result, loads, login>>
  BY DEF IInv, LoadInv, StoreEntry, Loading
<1>2. /\ n \in Nat \ {0} /\ DOMAIN heap = 1 .. n /\ Content = heap[n] /\ heap[n] \in ContentType
      /\ xs \in Seq(Entry) /\ DOMAIN xs = 1 .. Len(xs) /\ Len(xs) \in Nat
      /\ heap \in Seq(ContentType)
  BY <1>1, ContentTyped DEF TypeOK
<1>3. i \in DOMAIN xs /\ i \in Nat \ {0} /\ ~Exempt(xs[i])
  BY <1>1, <1>2 DEF OrderInv, TypeOK
<1>4. heap' = [heap EXCEPT ![n].accesses[i].pass = b]
  BY <1>2 DEF StoreEntry
<1>5. /\ loader' = [loader EXCEPT !.at = "hash", !.next = i + 1, !.save = TRUE,
                      !.text = IF build = "full"
                                 THEN [loader.text EXCEPT !.accesses = SetPass(loader.text.accesses, i, b)]
                                 ELSE loader.text]
  BY <1>2 DEF StoreEntry, Saved
<1>6. /\ loader'.at = "hash"
      /\ loader'.text = IF build = "full"
           THEN [loader.text EXCEPT !.accesses = SetPass(loader.text.accesses, i, b)]
           ELSE loader.text
  <2> HIDE DEF b, i
  <2> QED BY <1>1, <1>5 DEF TypeOK
<1>7. heap'[n].accesses = [xs EXCEPT ![i].pass = b] /\ DOMAIN heap' = DOMAIN heap
      /\ \A g \in DOMAIN heap \ {n} : heap'[g] = heap[g]
  <2> DEFINE ys == [xs EXCEPT ![i].pass = b]
             c == [heap[n] EXCEPT !.accesses = ys]
  <2>1. heap' = [heap EXCEPT ![n] = c]
    BY <1>2, <1>4
  <2>2. c.accesses = ys
    BY <1>2 DEF ContentType
  <2> HIDE DEF c, ys, i, b
  <2>3. n \in DOMAIN heap
    BY <1>2
  <2> QED BY <2>1, <2>2, <2>3 DEF ys
<1>8. Len(heap') = n
  BY <1>1, <1>2, <1>7, NextIInv, LenProperties DEF Next, TypeOK, IInv
<1>9. [xs EXCEPT ![i].pass = b] = [xs EXCEPT ![i] = Hashed(xs[i])]
  BY <1>3 DEF Hashed
<1>10. SetPass(xs, i, b) = [xs EXCEPT ![i].pass = b]
  BY <1>2, <1>3 DEF SetPass
<1> QED BY <1>1, <1>2, <1>3, <1>6, <1>7, <1>8, <1>9, <1>10

(* The hash of a password in plain text fits that password.                *)
LEMMA HashIsKnown ==
  ASSUME NEW e \in Entry, ~Exempt(e), build = "full"
  PROVE  Bcrypt(e.pass) \in Stored /\ Bcrypt(e.pass).of = e.pass.of
<1>1. e.pass \in [kind : {"plain", "bcrypt", "crypt"}, of : Passwords \cup {Unknown}]
  BY DEF Entry, Stored
<1>2. e.pass.kind = "plain"
  BY <1>1 DEF Exempt, Recognised
<1> QED BY <1>1, <1>2 DEF Bcrypt, Stored

(* A step keeps ClearInv if the entries it changes are clear.              *)
LEMMA ClearStep ==
  ASSUME ClearInv, UNCHANGED build,
         build = "full" =>
           /\ file' \in {file, Broken} \/ Clear(file'.accesses)
           /\ loader'.text \in {loader.text, Broken} \/ Clear(loader'.text.accesses)
           /\ \A g \in DOMAIN heap' : \/ g \in DOMAIN heap /\ heap'[g] = heap[g]
                                      \/ Clear(heap'[g].accesses)
  PROVE  ClearInv'
BY DEF ClearInv, Clear, NamesOnce, NoneUnknown, AllNamesOnce, AllKnown

(* Every step does.                                                        *)
LEMMA NextClear ==
  ASSUME IInv, ClearInv, [Next]_vars
  PROVE  ClearInv'
<1>1. CASE UNCHANGED vars
  BY <1>1, ClearStep DEF vars
<1>2. CASE Edit
  <2>1. PICK f \in Files : file' = f
    BY <1>2 DEF Edit
  <2>2. Clear(f.accesses)
    BY DEF Clear, AllNamesOnce, AllKnown
  <2> QED BY <1>2, <2>1, <2>2, ClearStep DEF Edit
<1>4. CASE Load
  <2> DEFINE c == [accesses |-> file.accesses, loaded |-> file]
  <2>1. file # Broken /\ heap' = Append(heap, c) /\ loader'.text = Broken /\ UNCHANGED <<build, file>>
    BY <1>4 DEF Load, Idle
  <2>2. heap \in Seq(ContentType) /\ c \in ContentType /\ c.accesses = file.accesses
    BY <2>1 DEF IInv, TypeOK, FileType, ContentType
  <2> HIDE DEF c
  <2>3. \A g \in DOMAIN heap' : (g \in DOMAIN heap /\ heap'[g] = heap[g]) \/ heap'[g] = c
    BY <2>1, <2>2
  <2>4. build = "full" => Clear(c.accesses)
    BY <2>1, <2>2 DEF ClearInv
  <2> QED BY <2>1, <2>3, <2>4, ClearStep
<1>5. CASE Crash \/ LoadFails \/ SkipEntry \/ HashFails \/ HashEntry \/ HashingEnds \/ BeginWrite
  <2>1. /\ UNCHANGED build /\ file' \in {file, Broken} /\ heap' \in {heap, <<>>}
        /\ loader'.text \in {loader.text, Broken}
    BY <1>5 DEF Crash, LoadFails, SkipEntry, HashFails, HashEntry, HashingEnds, BeginWrite,
                Succeed, Fail, Idle, IInv, TypeOK
  <2> QED BY <2>1, ClearStep
<1>6. CASE ReadFile
  <2>1. UNCHANGED <<build, file>> /\ heap' \in {heap, <<>>} /\ loader'.text \in {file, Broken}
    <3>1. loader \in [at : {"idle", "read", "hash", "store", "write", "writing"}, next : Nat \ {0},
                     text : FileType \cup {Broken}, save : BOOLEAN]
      BY DEF IInv, TypeOK
    <3>2. CASE Fail
      BY <1>6, <3>2 DEF ReadFile, Fail, Idle
    <3>3. CASE loader' = [loader EXCEPT !.at = "hash", !.text = file] /\ UNCHANGED <<heap, result>>
      BY <1>6, <3>1, <3>3 DEF ReadFile
    <3> QED BY <1>6, <3>2, <3>3 DEF ReadFile
  <2>2. build = "full" /\ file # Broken => Clear(file.accesses)
    BY DEF ClearInv
  <2> QED BY <2>1, <2>2, ClearStep
<1>7. CASE EndWrite
  <2>1. /\ UNCHANGED build /\ heap' \in {heap, <<>>} /\ loader'.text = Broken
        /\ loader.at = "writing" /\ (build = "full" => file' \in {file, loader.text})
    BY <1>7 DEF EndWrite, Succeed, Fail, Idle
  <2>2. build = "full" => loader.text # Broken
    BY <2>1 DEF IInv, OrderInv
  <2>3. build = "full" => Clear(loader.text.accesses)
    BY <2>2 DEF ClearInv
  <2> QED BY <2>1, <2>3, ClearStep
<1>8. CASE StoreEntry
  <2> DEFINE n == Len(heap)
             i == loader.next
             xs == heap[n].accesses
             b == Bcrypt(xs[i].pass)
  <2>1. /\ n \in DOMAIN heap /\ DOMAIN heap' = DOMAIN heap
        /\ \A g \in DOMAIN heap \ {n} : heap'[g] = heap[g]
        /\ xs \in Seq(Entry) /\ i \in DOMAIN xs /\ i \in Nat \ {0} /\ ~Exempt(xs[i])
        /\ heap'[n].accesses = SetPass(xs, i, b)
        /\ build = "full" => loader'.text = [loader.text EXCEPT !.accesses = SetPass(loader.text.accesses, i, b)]
        /\ UNCHANGED <<build, file>> /\ loader.at = "store"
    BY <1>8, StoreDoes
  <2>2. CASE build # "full"
    BY <2>1, <2>2, ClearStep
  <2>3. CASE build = "full"
    <3>1. xs[i] \in Entry
      BY <2>1
    <3>2. Clear(xs)
      BY <2>1, <2>3 DEF ClearInv
    <3>3. b \in Stored /\ b.of = xs[i].pass.of
      BY <2>1, <2>3, <3>1, HashIsKnown
    <3>4. AllKnown => b.of # Unknown
      BY <2>1, <3>2, <3>3 DEF Clear, NoneUnknown
    <3> HIDE DEF b, xs, i, n
    <3>5. Clear(SetPass(xs, i, b))
      BY <2>1, <3>2, <3>3, <3>4, SetPassClear
    <3>6. loader.text \in FileType /\ loader.text.accesses \in Seq(Entry)
      BY <2>1, <2>3 DEF IInv, TypeOK, OrderInv, FileType
    <3>7. Clear(loader.text.accesses)
      BY <2>3, <3>6, FilesAssumption DEF ClearInv
    <3>8. Clear(SetPass(loader.text.accesses, i, b))
      BY <2>1, <3>3, <3>4, <3>6, <3>7, SetPassClear
    <3>9. loader'.text.accesses = SetPass(loader.text.accesses, i, b)
      BY <2>1, <2>3, <3>6 DEF FileType
    <3> QED BY <2>1, <2>3, <3>5, <3>8, <3>9, ClearStep
  <2> QED BY <2>2, <2>3
<1>3. CASE \E l \in Logins : GetAccess(l) \/ Scan(l) \/ CompareHash(l) \/ ComparePlain(l)
  <2>1. UNCHANGED <<build, file, heap, loader>>
    BY <1>3 DEF GetAccess, Scan, CompareHash, ComparePlain
  <2> QED BY <2>1, ClearStep
<1> QED BY <1>1, <1>2, <1>4, <1>5, <1>6, <1>7, <1>8, <1>3 DEF Next

-----------------------------------------------------------------------------
(* Entries keep the places editors gave them.                              *)

(* The hash of a password accepts no other.                                *)
LEMMA HashAcceptsNoMore ==
  ASSUME NEW e \in Entry, NEW known \in Entry, NEW p \in Passwords,
         e = known \/ e.pass = Bcrypt(known.pass), Accepts(e, p)
  PROVE  Accepts(known, p)
<1>1. CASE e = known
  BY <1>1
<1>2. CASE e.pass = Bcrypt(known.pass)
  <2>1. /\ known.pass \in [kind : {"plain", "bcrypt", "crypt"}, of : Passwords \cup {Unknown}]
        /\ p # Unknown
    BY NamesAssumption DEF Entry, Stored
  <2>2. e.pass.kind = "bcrypt" /\ e.pass # Plain(Star) /\ e.pass # Plain(p)
    BY <1>2 DEF Bcrypt, Plain
  <2>3. e.pass.of = p
    BY <2>2 DEF Accepts, Wildcard
  <2>4. known.pass.kind = "plain" /\ known.pass.of = p
    BY <1>2, <2>1, <2>3 DEF Bcrypt
  <2>5. known.pass = Plain(p)
    BY <2>1, <2>4 DEF Plain
  <2> QED BY <2>4, <2>5 DEF Accepts, Recognised
<1> QED BY <1>1, <1>2

(* More edits leave what is known.                                         *)
LEMMA KnownStays ==
  ASSUME NEW accesses, Known(accesses),
         \A k \in DOMAIN edits : k \in DOMAIN edits' /\ edits'[k] = edits[k]
  PROVE  Known(accesses)'
BY DEF Known, KnownEntry

(* Setting the hash of an editor's entry at its place, in a sequence that  *)
(* is known, gives one that is known, also where an entry is appended: of  *)
(* two files the longer has one entry more.                                *)
LEMMA SetPassKnown ==
  ASSUME NEW accesses \in Seq(Entry), Known(accesses),
         NEW others \in Seq(Entry), Known(others), NEW i \in DOMAIN others, NEW k \in DOMAIN edits,
         i \in DOMAIN edits[k].accesses,
         NEW stored \in Stored, stored = Bcrypt(edits[k].accesses[i].pass)
  PROVE  Known(SetPass(accesses, i, stored))
<1> DEFINE n == Len(accesses)
           new == SetPass(accesses, i, stored)
<1>1. /\ n \in Nat /\ DOMAIN accesses = 1 .. n
      /\ Len(others) \in Nat /\ i \in 1 .. Len(others)
  BY LenProperties
<1>2. ASSUME NEW e, e.pass = stored
      PROVE  KnownEntry(e, i)
  BY <1>2 DEF KnownEntry
<1>3. CASE i <= n
  <2>1. new = [accesses EXCEPT ![i].pass = stored]
    BY <1>3 DEF SetPass
  <2>2. i \in DOMAIN accesses /\ accesses[i] \in Entry
    BY <1>1, <1>3
  <2> DEFINE e == [accesses[i] EXCEPT !.pass = stored]
  <2>3. e \in Entry /\ e.pass = stored
    BY <2>2 DEF Entry
  <2>4. new = [accesses EXCEPT ![i] = e]
    BY <2>1
  <2> HIDE DEF e, new
  <2>5. /\ DOMAIN new = DOMAIN accesses /\ Len(new) = n
        /\ new[i] = e /\ \A j \in DOMAIN accesses \ {i} : new[j] = accesses[j]
    BY <2>2, <2>3, <2>4, Replaced
  <2>6. \A j \in DOMAIN new : KnownEntry(new[j], j)
    BY <1>2, <2>3, <2>5 DEF Known
  <2> QED BY <2>5, <2>6 DEF Known, new
<1>4. CASE i > n
  <2> DEFINE e == [user |-> Nobody, pass |-> stored]
  <2>1. new = Append(accesses, e)
    BY <1>1, <1>4 DEF SetPass
  <2>2. e \in Entry /\ e.pass = stored
    BY DEF Entry
  <2>3. PICK f \in Files : n = Len(f.accesses)
    BY DEF Known
  <2>4. PICK g \in Files : Len(others) = Len(g.accesses)
    BY DEF Known
  <2>5. Len(others) <= n + 1
    BY <2>3, <2>4, FilesAssumption
  <2>6. i = n + 1 /\ Len(others) = n + 1
    BY <1>1, <1>4, <2>5
  <2> HIDE DEF e
  <2>7. /\ Len(new) = n + 1 /\ DOMAIN new = 1 .. (n + 1) /\ new[n + 1] = e
        /\ \A j \in 1 .. n : new[j] = accesses[j]
    BY <1>1, <2>1, <2>2
  <2> HIDE DEF new
  <2>8. ASSUME NEW j \in 1 .. (n + 1)
        PROVE  KnownEntry(new[j], j)
    <3>1. CASE j = n + 1
      BY <1>2, <2>2, <2>6, <2>7, <3>1
    <3>2. CASE j # n + 1
      <4>1. j \in 1 .. n
        BY <1>1, <3>2
      <4> QED BY <1>1, <2>7, <4>1 DEF Known
    <3> QED BY <3>1, <3>2
  <2> QED BY <2>4, <2>6, <2>7, <2>8 DEF Known, new
<1> QED BY <1>1, <1>3, <1>4

(* A step keeps KnownInv if the sequences it changes are known.            *)
LEMMA KnownStep ==
  ASSUME KnownInv, UNCHANGED edits,
         file' \in {file, Broken} \/ Known(file'.accesses),
         loader'.text \in {loader.text, Broken} \/ Known(loader'.text.accesses),
         \A g \in DOMAIN heap' : \/ g \in DOMAIN heap /\ heap'[g] = heap[g]
                                 \/ Known(heap'[g].accesses)
  PROVE  KnownInv'
BY DEF KnownInv, Known, KnownEntry

(* An editor's file is known once he wrote it.                             *)
LEMMA EditKnown ==
  ASSUME IInv, KnownInv, Edit
  PROVE  KnownInv'
<1>1. PICK f \in Files : file' = f /\ edits' = Append(edits, f)
  BY DEF Edit
<1>2. edits \in Seq(Files) /\ UNCHANGED <<heap, loader>>
  BY DEF IInv, TypeOK, Edit
<1>3. /\ \A k \in DOMAIN edits : k \in DOMAIN edits' /\ edits'[k] = edits[k]
      /\ Len(edits) + 1 \in DOMAIN edits' /\ edits'[Len(edits) + 1] = f
  BY <1>1, <1>2
<1>4. Known(f.accesses)'
  BY <1>3 DEF Known, KnownEntry
<1>5. Known(loader.text.accesses) => Known(loader.text.accesses)'
  <2>1. ASSUME Known(loader.text.accesses)
        PROVE  (\E g \in Files : Len(loader.text.accesses) = Len(g.accesses))
               /\ \A i \in DOMAIN loader.text.accesses :
                    \E k \in DOMAIN edits' : i \in DOMAIN edits'[k].accesses /\
                      LET known == edits'[k].accesses[i]
                      IN  loader.text.accesses[i] = known
                          \/ loader.text.accesses[i].pass = Bcrypt(known.pass)
    BY <1>3, <2>1 DEF Known, KnownEntry
  <2> QED BY <1>2, <2>1 DEF Known, KnownEntry
<1>6. \A g \in DOMAIN heap : Known(heap[g].accesses)'
  <2> SUFFICES ASSUME NEW g \in DOMAIN heap
               PROVE  Known(heap[g].accesses)'
    OBVIOUS
  <2>1. Known(heap[g].accesses)
    BY DEF KnownInv
  <2>2. /\ \E f2 \in Files : Len(heap[g].accesses) = Len(f2.accesses)
        /\ \A i \in DOMAIN heap[g].accesses :
             \E k \in DOMAIN edits' : i \in DOMAIN edits'[k].accesses /\
               LET known == edits'[k].accesses[i]
               IN  heap[g].accesses[i] = known \/ heap[g].accesses[i].pass = Bcrypt(known.pass)
    BY <1>3, <2>1 DEF Known, KnownEntry
  <2> QED BY <1>2, <2>2 DEF Known, KnownEntry
<1> QED BY <1>1, <1>2, <1>4, <1>5, <1>6 DEF KnownInv

(* A store takes an editor's entry itself, for hashes are not hashed.      *)
LEMMA StoreKnown ==
  ASSUME IInv, KnownInv, StoreEntry
  PROVE  KnownInv'
<1> DEFINE n == Len(heap)
           i == loader.next
           xs == heap[n].accesses
           b == Bcrypt(xs[i].pass)
<1>1. /\ n \in DOMAIN heap /\ DOMAIN heap' = DOMAIN heap
      /\ \A g \in DOMAIN heap \ {n} : heap'[g] = heap[g]
      /\ xs \in Seq(Entry) /\ i \in DOMAIN xs /\ ~Exempt(xs[i])
      /\ heap'[n].accesses = SetPass(xs, i, b)
      /\ loader'.text = IF build = "full"
           THEN [loader.text EXCEPT !.accesses = SetPass(loader.text.accesses, i, b)]
           ELSE loader.text
      /\ UNCHANGED <<file, edits>> /\ loader.at = "store"
  BY StoreDoes
<1>2. xs[i] \in Entry /\ b \in Stored
  <2> HIDE DEF xs, i
  <2>1. xs[i] \in Entry
    BY <1>1
  <2> QED BY <2>1, HashedTyped
<1>3. Known(xs)
  BY <1>1 DEF KnownInv
<1>4. PICK k \in DOMAIN edits : i \in DOMAIN edits[k].accesses /\ xs[i] = edits[k].accesses[i]
  <2>1. PICK k \in DOMAIN edits :
          /\ i \in DOMAIN edits[k].accesses
          /\ \/ xs[i] = edits[k].accesses[i]
             \/ xs[i].pass = Bcrypt(edits[k].accesses[i].pass)
    BY <1>1, <1>3 DEF Known, KnownEntry
  <2>2. xs[i].pass.kind # "bcrypt"
    BY <1>1 DEF Exempt, Recognised
  <2> QED BY <2>1, <2>2 DEF Bcrypt
<1>5. b = Bcrypt(edits[k].accesses[i].pass)
  BY <1>4
<1>6. /\ build = "full" => loader.text \in FileType /\ loader.text.accesses \in Seq(Entry)
                           /\ Known(loader.text.accesses)
      /\ build \in Builds
  BY <1>1 DEF IInv, TypeOK, OrderInv, FileType, KnownInv
<1> HIDE DEF b, xs, i, n
<1>7. Known(SetPass(xs, i, b))
  BY <1>1, <1>2, <1>3, <1>4, <1>5, SetPassKnown
<1>8. build = "full" => Known(SetPass(loader.text.accesses, i, b))
  BY <1>1, <1>2, <1>3, <1>4, <1>5, <1>6, SetPassKnown
<1>9. build = "full" => loader'.text.accesses = SetPass(loader.text.accesses, i, b)
  BY <1>1, <1>6 DEF FileType
<1> QED BY <1>1, <1>7, <1>8, <1>9, KnownStep

(* Every step keeps KnownInv.                                              *)
LEMMA NextKnown ==
  ASSUME IInv, KnownInv, [Next]_vars
  PROVE  KnownInv'
<1>1. CASE UNCHANGED vars
  BY <1>1, KnownStep DEF vars
<1>2. CASE Load
  <2> DEFINE c == [accesses |-> file.accesses, loaded |-> file]
  <2>1. /\ file # Broken /\ heap' = Append(heap, c) /\ loader'.text = Broken
        /\ UNCHANGED <<edits, file>>
    BY <1>2 DEF Load, Idle
  <2>2. heap \in Seq(ContentType) /\ c \in ContentType /\ c.accesses = file.accesses
    BY <2>1 DEF IInv, TypeOK, FileType, ContentType
  <2> HIDE DEF c
  <2>3. \A g \in DOMAIN heap' : (g \in DOMAIN heap /\ heap'[g] = heap[g]) \/ heap'[g] = c
    BY <2>1, <2>2
  <2>4. Known(c.accesses)
    BY <2>1, <2>2 DEF KnownInv
  <2> QED BY <2>1, <2>3, <2>4, KnownStep
<1>3. CASE Crash \/ LoadFails \/ SkipEntry \/ HashFails \/ HashEntry \/ HashingEnds \/ BeginWrite
  <2>1. /\ UNCHANGED edits /\ file' \in {file, Broken} /\ heap' \in {heap, <<>>}
        /\ loader'.text \in {loader.text, Broken}
    BY <1>3 DEF Crash, LoadFails, SkipEntry, HashFails, HashEntry, HashingEnds, BeginWrite,
                Succeed, Fail, Idle, IInv, TypeOK
  <2> QED BY <2>1, KnownStep
<1>4. CASE ReadFile
  <2>1. UNCHANGED <<edits, file>> /\ heap' \in {heap, <<>>} /\ loader'.text \in {file, Broken}
    <3>1. loader \in [at : {"idle", "read", "hash", "store", "write", "writing"}, next : Nat \ {0},
                     text : FileType \cup {Broken}, save : BOOLEAN]
      BY DEF IInv, TypeOK
    <3>2. CASE Fail
      BY <1>4, <3>2 DEF ReadFile, Fail, Idle
    <3>3. CASE loader' = [loader EXCEPT !.at = "hash", !.text = file] /\ UNCHANGED <<heap, result>>
      BY <1>4, <3>1, <3>3 DEF ReadFile
    <3> QED BY <1>4, <3>2, <3>3 DEF ReadFile
  <2>2. file # Broken => Known(file.accesses)
    BY DEF KnownInv
  <2> QED BY <2>1, <2>2, KnownStep
<1>5. CASE EndWrite
  <2>1. /\ UNCHANGED edits /\ heap' \in {heap, <<>>} /\ loader'.text = Broken
        /\ loader.at = "writing"
        /\ file' \in {file, IF build = "full" THEN loader.text
                                              ELSE [hash |-> TRUE, accesses |-> Content.accesses]}
    BY <1>5 DEF EndWrite, Succeed, Fail, Idle
  <2>2. build = "full" => loader.text # Broken /\ Known(loader.text.accesses)
    BY <2>1 DEF IInv, OrderInv, KnownInv
  <2>3. Known(Content.accesses)
    <3>1. heap \in Seq(ContentType) /\ heap # <<>>
      BY <2>1 DEF IInv, TypeOK, LoadInv, Loading
    <3>2. Len(heap) \in DOMAIN heap /\ Content = heap[Len(heap)]
      BY <3>1, ContentTyped DEF IInv
    <3> QED BY <3>2 DEF KnownInv
  <2>4. file' = file \/ Known(file'.accesses)
    BY <2>1, <2>2, <2>3
  <2> QED BY <2>1, <2>4, KnownStep
<1>6. CASE \E l \in Logins : GetAccess(l) \/ Scan(l) \/ CompareHash(l) \/ ComparePlain(l)
  <2>1. UNCHANGED <<edits, file, heap, loader>>
    BY <1>6 DEF GetAccess, Scan, CompareHash, ComparePlain
  <2> QED BY <2>1, KnownStep
<1> QED BY <1>1, <1>2, <1>3, <1>4, <1>5, <1>6, EditKnown, StoreKnown DEF Next

(* What is known accepts nothing new.                                      *)
LEMMA KnownAcceptsNoMore ==
  ASSUME edits \in Seq(Files), NEW accesses \in Seq(Entry), Known(accesses)
  PROVE  NothingNew(accesses)
<1> SUFFICES ASSUME NEW i \in DOMAIN accesses, NEW p \in Passwords, Accepts(accesses[i], p)
             PROVE  \E k \in DOMAIN edits : /\ i \in DOMAIN edits[k].accesses
                                            /\ Accepts(edits[k].accesses[i], p)
  BY DEF NothingNew
<1>1. PICK k \in DOMAIN edits :
        /\ i \in DOMAIN edits[k].accesses
        /\ \/ accesses[i] = edits[k].accesses[i]
           \/ accesses[i].pass = Bcrypt(edits[k].accesses[i].pass)
  BY DEF Known, KnownEntry
<1>2. edits[k] \in Files
  BY <1>1
<1>3. edits[k].accesses \in Seq(Entry)
  BY <1>2, FilesAssumption DEF FileType
<1>4. edits[k].accesses[i] \in Entry /\ accesses[i] \in Entry
  BY <1>1, <1>3
<1> QED BY <1>1, <1>4, HashAcceptsNoMore

(* Whatever the file holds, whoever logs in, and wherever a load fails or  *)
(* dies: hashing changes for nobody which passwords let him in, between    *)
(* two stores or later, in memory always and on the disk as long as no     *)
(* edit fell into a load.  However edits fall into loads, no entry of a    *)
(* file that is whole accepts a password that no editor ever accepted at   *)
(* its place (config.go:101-201, config_local.go:72-105).                  *)
THEOREM PasswordsAreKept == Spec => []HashingKeepsPasswords
<1>1. Init => KnownInv
  <2> SUFFICES ASSUME Init
               PROVE  KnownInv
    OBVIOUS
  <2>1. file \in Files /\ edits = <<file>> /\ heap = <<>> /\ loader.text = Broken
    BY DEF Init, Idle
  <2>2. 1 \in DOMAIN edits /\ edits[1] = file
    BY <2>1
  <2>3. Known(file.accesses)
    BY <2>1, <2>2 DEF Known, KnownEntry
  <2> QED BY <2>1, <2>3 DEF KnownInv
<1>2. IInv /\ KnownInv /\ [Next]_vars => KnownInv'
  BY NextKnown
<1>3. IInv /\ KnownInv => HashingKeepsPasswords
  <2> SUFFICES ASSUME IInv, KnownInv
               PROVE  HashingKeepsPasswords
    OBVIOUS
  <2>1. TypeOK /\ FollowInv
    BY DEF IInv
  <2>2. ASSUME NEW g \in DOMAIN heap
        PROVE  Same(heap[g].accesses, heap[g].loaded.accesses)
    <3>1. heap[g] \in ContentType
      BY <2>1, <2>2 DEF TypeOK
    <3>2. heap[g].accesses \in Seq(Entry) /\ heap[g].loaded.accesses \in Seq(Entry)
      BY <3>1 DEF ContentType, FileType
    <3> QED BY <2>1, <2>2, <3>2, FollowsSame DEF FollowInv
  <2>3. edits \in Seq(Files) /\ (file # Broken => file.accesses \in Seq(Entry))
    BY <2>1 DEF TypeOK, FileType
  <2>4. ASSUME file # Broken, ~raced
        PROVE  Same(file.accesses, Last(edits).accesses)
    <3>1. Last(edits).accesses \in Seq(Entry)
      <4>1. edits \in Seq(Files) /\ Len(edits) \in 1 .. Len(edits)
        BY <2>1, BoundsAssumption DEF TypeOK
      <4>2. Last(edits) \in Files
        BY <4>1, ElementOfSeq DEF Last
      <4> QED BY <4>2, FilesAssumption DEF FileType
    <3> QED BY <2>1, <2>3, <2>4, <3>1, FollowsSame DEF FollowInv
  <2>5. file # Broken => NothingNew(file.accesses)
    BY <2>3, KnownAcceptsNoMore DEF KnownInv
  <2> QED BY <2>2, <2>4, <2>5 DEF HashingKeepsPasswords
<1> QED BY <1>1, <1>2, <1>3, Invariance, PTL DEF Spec

-----------------------------------------------------------------------------
(* Logins.                                                                 *)

(* What the type of a login says, and of the entries it looks at.          *)
LEMMA LoginTyped ==
  ASSUME TypeOK, NEW l \in Logins
  PROVE  /\ login[l].next \in Nat \ {0} /\ login[l].overlap \in BOOLEAN
         /\ login[l].gen \in DOMAIN heap =>
              /\ Accesses(l) \in Seq(Entry) /\ Len(Accesses(l)) \in Nat
              /\ DOMAIN Accesses(l) = 1 .. Len(Accesses(l))
<1>1. login[l].next \in Nat \ {0} /\ login[l].overlap \in BOOLEAN /\ heap \in Seq(ContentType)
  BY DEF TypeOK
<1>2. ASSUME login[l].gen \in DOMAIN heap
      PROVE  Accesses(l) \in Seq(Entry)
  <2>1. heap[login[l].gen] \in ContentType
    BY <1>1, <1>2
  <2> QED BY <2>1 DEF Accesses, ContentType
<1> QED BY <1>1, <1>2, LenProperties

(* A step that leaves login and entries of a call alone keeps what it      *)
(* knows.                                                                  *)
LEMMA LoginKept ==
  ASSUME NEW l \in Logins, LoginOf(l), UNCHANGED build, login'[l] = login[l],
         login[l].gen \in DOMAIN heap =>
           /\ login[l].gen \in DOMAIN heap'
           /\ heap'[login[l].gen].accesses = heap[login[l].gen].accesses,
         login[l].gen \in DOMAIN heap /\ (loader.at # "store" \/ login[l].gen # Len(heap)) =>
           loader'.at # "store" \/ login[l].gen # Len(heap')
  PROVE  LoginOf(l)'
<1>1. CASE login[l].at = "idle"
  BY <1>1 DEF LoginOf
<1>2. CASE login[l].at # "idle"
  <2>1. login[l].gen \in DOMAIN heap
    BY <1>2 DEF LoginOf
  <2>2. Accesses(l)' = Accesses(l) /\ At(l)' = At(l)
    BY <2>1 DEF Accesses, At
  <2> QED BY <1>2, <2>1, <2>2 DEF LoginOf, Passed, LetsIn, Accepts, Recognised, Wildcard
<1> QED BY <1>1, <1>2

(* So do steps that add a content or none, and store nothing.              *)
LEMMA LoginsKept ==
  ASSUME LoginInv, UNCHANGED <<build, login>>, loader'.at # "store" \/ UNCHANGED <<heap, loader>>,
         \A g \in DOMAIN heap : g \in DOMAIN heap' /\ heap'[g] = heap[g]
  PROVE  LoginInv'
<1> SUFFICES ASSUME NEW l \in Logins
             PROVE  LoginOf(l)'
  BY DEF LoginInv
<1>1. LoginOf(l) /\ login'[l] = login[l]
  BY DEF LoginInv
<1> QED BY <1>1, LoginKept

(* A call that does not run knows nothing.                                 *)
LEMMA NoLogins ==
  ASSUME \A l \in Logins : login'[l].at = "idle"
  PROVE  LoginInv'
BY DEF LoginInv, LoginOf

(* A load that fails for the first time finds no call under way.           *)
LEMMA FailLogins ==
  ASSUME IInv, LoginInv, Loading, Fail, UNCHANGED <<build, login>>
  PROVE  LoginInv'
<1>1. loader'.at = "idle"
  BY DEF Fail, Idle
<1>2. CASE heap' = heap
  BY <1>1, <1>2, LoginsKept
<1>3. CASE Len(heap) = 1
  <2>1. \A l \in Logins : login[l].gen = 0
    BY <1>3 DEF IInv, LoadInv
  <2>2. 0 \notin DOMAIN heap
    BY LenProperties DEF IInv, TypeOK
  <2>3. \A l \in Logins : login[l].at = "idle"
    BY <2>1, <2>2 DEF LoginInv, LoginOf
  <2> QED BY <2>3, NoLogins
<1> QED BY <1>2, <1>3 DEF Fail

(* The calls under way overlap the store that begins.                      *)
LEMMA HashLogins ==
  ASSUME IInv, LoginInv, HashEntry
  PROVE  LoginInv'
<1> SUFFICES ASSUME NEW l \in Logins
             PROVE  LoginOf(l)'
  BY DEF LoginInv
<1>1. /\ LoginOf(l) /\ UNCHANGED <<build, heap>>
      /\ login' = [k \in Logins |-> [login[k] EXCEPT !.overlap = @ \/ login[k].gen = Len(heap)]]
  BY DEF HashEntry, LoginInv
<1> DEFINE before == login[l].overlap
           here == login[l].gen = Len(heap)
<1>2. login[l] \in [at : {"idle", "scan", "hash", "plain", "accepted", "refused"},
                    user : Users \cup {Nobody}, pass : Passwords \cup {Unknown},
                    gen : 0 .. Len(heap), next : Nat \ {0}, overlap : BOOLEAN]
  BY DEF IInv, TypeOK
<1>3. /\ login'[l].at = login[l].at /\ login'[l].user = login[l].user
      /\ login'[l].pass = login[l].pass /\ login'[l].gen = login[l].gen
      /\ login'[l].next = login[l].next /\ login'[l].overlap = (before \/ here)
  BY <1>1, <1>2
<1>4. Accesses(l)' = Accesses(l) /\ At(l)' = At(l)
  BY <1>1, <1>3 DEF Accesses, At
<1>5. ~login'[l].overlap => ~login[l].overlap /\ login'[l].gen # Len(heap')
  BY <1>1, <1>3
<1> HIDE DEF before, here
<1> QED BY <1>1, <1>3, <1>4, <1>5 DEF LoginOf, Passed, LetsIn, Accepts, Recognised, Wildcard

(* And what they found of its entries before stays so.                     *)
LEMMA StoreLogins ==
  ASSUME IInv, LoginInv, StoreEntry
  PROVE  LoginInv'
<1> DEFINE n == Len(heap)
           i == loader.next
           xs == heap[n].accesses
           ys == heap'[n].accesses
<1>1. /\ n \in DOMAIN heap /\ DOMAIN heap' = DOMAIN heap /\ Len(heap') = n
      /\ \A g \in DOMAIN heap \ {n} : heap'[g] = heap[g]
      /\ xs \in Seq(Entry) /\ i \in DOMAIN xs /\ ~Exempt(xs[i])
      /\ ys = [xs EXCEPT ![i] = Hashed(xs[i])]
      /\ loader.at = "store" /\ loader'.at = "hash" /\ UNCHANGED <<build, login>>
  BY StoreDoes
<1>2. /\ ys \in Seq(Entry) /\ Len(ys) = Len(xs) /\ Follows(ys, xs)
      /\ \A j \in DOMAIN xs : ys[j].user = xs[j].user
  <2>1. xs[i] \in Entry /\ Hashed(xs[i]) \in Entry /\ Hashed(xs[i]).user = xs[i].user
    BY <1>1, HashedTyped
  <2> DEFINE e == Hashed(xs[i])
  <2>2. /\ ys \in Seq(Entry) /\ Len(ys) = Len(xs) /\ ys[i] = e
        /\ \A j \in DOMAIN xs \ {i} : ys[j] = xs[j]
    <3> HIDE DEF e, i, xs
    <3>1. ys = [xs EXCEPT ![i] = e]
      BY <1>1 DEF e
    <3>2. e \in Entry
      BY <2>1 DEF e
    <3> HIDE DEF ys
    <3> QED BY <1>1, <3>1, <3>2, Replaced
  <2> QED BY <1>1, <2>1, <2>2 DEF Follows
<1> SUFFICES ASSUME NEW l \in Logins
             PROVE  LoginOf(l)'
  BY DEF LoginInv
<1>3. LoginOf(l) /\ login'[l] = login[l]
  BY <1>1 DEF LoginInv
<1>4. CASE login[l].gen # n
  BY <1>1, <1>3, <1>4, LoginKept
<1>5. CASE login[l].gen = n /\ login[l].at # "idle"
  <2>1. login[l].overlap
    BY <1>1, <1>3, <1>5, LoginTyped DEF LoginOf, IInv
  <2>2. Accesses(l) = xs /\ Accesses(l)' = ys
    BY <1>1, <1>5 DEF Accesses
  <2>3. LetsIn(xs, login[l].user, login[l].pass) => LetsIn(ys, login[l].user, login[l].pass)
    <3>1. Same(ys, xs)
      <4> HIDE DEF ys, xs
      <4> QED BY <1>1, <1>2, FollowsSame
    <3>2. login[l].user \in Users /\ login[l].pass \in Passwords
      BY <1>3, <1>5 DEF LoginOf
    <3> HIDE DEF ys, xs
    <3> QED BY <3>1, <3>2 DEF Same
  <2>5. login[l].at \in {"hash", "plain"} =>
          login[l].next <= Len(ys) /\ ys[login[l].next].user = login[l].user
    <3>1. login[l].next \in Nat \ {0} /\ DOMAIN xs = 1 .. Len(xs) /\ Len(xs) \in Nat
      BY <1>1, LoginTyped, LenProperties DEF IInv
    <3>2. login[l].at \in {"hash", "plain"} =>
            login[l].next <= Len(xs) /\ xs[login[l].next].user = login[l].user
      BY <1>3, <1>5, <2>2 DEF LoginOf, At
    <3> HIDE DEF ys, xs
    <3> QED BY <1>2, <3>1, <3>2
  <2> DEFINE u == login[l].user
             p == login[l].pass
  <2>6. login[l].at = "accepted" => LetsIn(Accesses(l), u, p)'
    <3> SUFFICES ASSUME login[l].at = "accepted"
                 PROVE  LetsIn(Accesses(l), u, p)'
      BY <1>3
    <3>1. LetsIn(ys, u, p)
      BY <1>3, <1>5, <2>2, <2>3 DEF LoginOf
    <3> HIDE DEF ys
    <3>2. PICK j \in DOMAIN ys : ys[j].user = u /\ Accepts(ys[j], p)
      BY <3>1 DEF LetsIn
    <3>3. /\ Recognised(Accesses(l)[j].pass)' = Recognised(ys[j].pass)
          /\ Wildcard(Accesses(l)[j])' = Wildcard(ys[j])
      BY <1>1, <2>2 DEF Recognised, Wildcard
    <3>4. Accepts(Accesses(l)[j], p)'
      BY <1>3, <2>2, <3>2, <3>3 DEF Accepts
    <3> QED BY <1>3, <2>2, <3>2, <3>4 DEF LetsIn
  <2>7. login[l].at \in {"hash", "plain"} =>
          (login[l].next <= Len(Accesses(l)) /\ At(l).user = u)'
    BY <1>3, <2>2, <2>5 DEF At
  <2> QED BY <1>1, <1>3, <1>5, <2>1, <2>6, <2>7 DEF LoginOf
<1>6. CASE login[l].at = "idle"
  BY <1>3, <1>6 DEF LoginOf
<1> QED BY <1>4, <1>5, <1>6

(* GetAccess and its steps concern one call; the others see nothing of it. *)
LEMMA OneLogin ==
  ASSUME LoginInv, NEW l \in Logins, UNCHANGED <<build, heap, loader>>, LoginOf(l)',
         \A k \in Logins \ {l} : login'[k] = login[k]
  PROVE  LoginInv'
<1> SUFFICES ASSUME NEW k \in Logins \ {l}
             PROVE  LoginOf(k)'
  BY DEF LoginInv
<1>1. LoginOf(k) /\ login'[k] = login[k]
  BY DEF LoginInv
<1> QED BY <1>1, LoginKept

(* A call begins before the first entry (config.go:204).                   *)
LEMMA GetAccessLogin ==
  ASSUME IInv, LoginInv, NEW l \in Logins, GetAccess(l)
  PROVE  LoginInv'
<1>1. PICK u \in Users, p \in Passwords :
        login' = [login EXCEPT ![l] =
          [at |-> "scan", user |-> u, pass |-> p, gen |-> Len(heap), next |-> 1,
           overlap |-> loader.at = "store"]]
  BY DEF GetAccess
<1>2. /\ heap # <<>> /\ UNCHANGED <<build, heap, loader>>
      /\ Len(heap) \in DOMAIN heap /\ DOMAIN login = Logins
      /\ Content.accesses \in Seq(Entry) /\ Content = heap[Len(heap)]
  BY ContentTyped DEF GetAccess, IInv, TypeOK
<1> DEFINE late == loader.at = "store"
<1>3. /\ login'[l].at = "scan" /\ login'[l].user = u /\ login'[l].pass = p
      /\ login'[l].gen = Len(heap) /\ login'[l].next = 1 /\ login'[l].overlap = late
      /\ \A k \in Logins \ {l} : login'[k] = login[k]
  <2> HIDE DEF late
  <2>1. login' = [login EXCEPT ![l] = [at |-> "scan", user |-> u, pass |-> p, gen |-> Len(heap),
                                       next |-> 1, overlap |-> late]]
    BY <1>1 DEF late
  <2> QED BY <1>2, <2>1
<1>4. Passed(heap[Len(heap)].accesses, 1, u, p)
  BY <1>2, LenProperties DEF Passed
<1>5. Passed(Accesses(l)', 1, u, p)
  BY <1>2, <1>3, <1>4 DEF Accesses
<1>6. LoginOf(l)'
  BY <1>2, <1>3, <1>5 DEF LoginOf, Passed, Accepts, Recognised, Wildcard
<1> QED BY <1>2, <1>3, <1>6, OneLogin

(* The next entry is looked at, if this one is not the user's or does not  *)
(* accept the password, or was being stored.                               *)
LEMMA NextEntryLogin ==
  ASSUME IInv, LoginInv, NEW l \in Logins, NextEntry(l), UNCHANGED <<build, heap, loader>>,
         login[l].at \in {"scan", "hash", "plain"}, login[l].next <= Len(Accesses(l)),
         \/ At(l).user # login[l].user
         \/ ~Accepts(At(l), login[l].pass)
         \/ login[l].overlap
  PROVE  LoginInv'
<1> DEFINE n == login[l].next
           as == Accesses(l)
           u == login[l].user
           p == login[l].pass
<1>1. LoginOf(l) /\ login[l].gen \in DOMAIN heap
  BY DEF LoginInv, LoginOf
<1>2. /\ n \in Nat \ {0} /\ as \in Seq(Entry) /\ DOMAIN as = 1 .. Len(as) /\ Len(as) \in Nat
      /\ login[l].overlap \in BOOLEAN
  BY <1>1, LoginTyped DEF IInv
<1>3. /\ login' = [login EXCEPT ![l].at = "scan", ![l].next = n + 1]
      /\ DOMAIN login = Logins
  BY DEF NextEntry, IInv, TypeOK
<1>4. login[l] \in [at : {"idle", "scan", "hash", "plain", "accepted", "refused"},
                    user : Users \cup {Nobody}, pass : Passwords \cup {Unknown},
                    gen : 0 .. Len(heap), next : Nat \ {0}, overlap : BOOLEAN]
  BY DEF IInv, TypeOK
<1>5. /\ login'[l].at = "scan" /\ login'[l].user = u /\ login'[l].pass = p
      /\ login'[l].gen = login[l].gen /\ login'[l].next = n + 1
      /\ login'[l].overlap = login[l].overlap
      /\ \A k \in Logins \ {l} : login'[k] = login[k]
  BY <1>3, <1>4
<1>6. Accesses(l)' = as
  BY <1>5 DEF Accesses
<1>7. ~login[l].overlap => Passed(as, n + 1, u, p)
  <2> SUFFICES ASSUME ~login[l].overlap, NEW i \in DOMAIN as, i < n + 1, as[i].user = u
               PROVE  ~Accepts(as[i], p)
    BY DEF Passed
  <2>1. CASE i < n
    BY <1>1, <2>1 DEF LoginOf, Passed
  <2>2. CASE i = n
    BY <2>2 DEF At
  <2>3. i \in Nat /\ (i < n \/ i = n)
    BY <1>2
  <2> QED BY <2>1, <2>2, <2>3
<1>8. LoginOf(l)'
  <2> HIDE DEF as
  <2> QED BY <1>1, <1>5, <1>6, <1>7 DEF LoginOf, Passed, Accepts, Recognised, Wildcard
<1> QED BY <1>5, <1>8, OneLogin

(* A call that moves on at its entry, or ends.                             *)
LEMMA GotoLogin ==
  ASSUME IInv, LoginInv, NEW l \in Logins, NEW where \in {"hash", "plain", "accepted", "refused"},
         Goto(l, where), UNCHANGED <<build, heap, loader>>,
         login[l].at \in {"scan", "hash", "plain"},
         where \in {"hash", "plain"} =>
           /\ login[l].next <= Len(Accesses(l)) /\ At(l).user = login[l].user
           /\ ~login[l].overlap => (where = "hash" <=> Recognised(At(l).pass)),
         where = "accepted" => LetsIn(Accesses(l), login[l].user, login[l].pass),
         where = "refused" =>
           login[l].overlap \/ ~LetsIn(Accesses(l), login[l].user, login[l].pass)
  PROVE  LoginInv'
<1>1. LoginOf(l) /\ DOMAIN login = Logins
  BY DEF LoginInv, IInv, TypeOK
<1>2. login[l] \in [at : {"idle", "scan", "hash", "plain", "accepted", "refused"},
                    user : Users \cup {Nobody}, pass : Passwords \cup {Unknown},
                    gen : 0 .. Len(heap), next : Nat \ {0}, overlap : BOOLEAN]
  BY DEF IInv, TypeOK
<1>3. /\ login'[l].at = where /\ login'[l].user = login[l].user
      /\ login'[l].pass = login[l].pass /\ login'[l].gen = login[l].gen
      /\ login'[l].next = login[l].next /\ login'[l].overlap = login[l].overlap
      /\ \A k \in Logins \ {l} : login'[k] = login[k]
  BY <1>1, <1>2 DEF Goto
<1>4. Accesses(l)' = Accesses(l) /\ At(l)' = At(l)
  BY <1>3 DEF Accesses, At
<1>5. LoginOf(l)'
  BY <1>1, <1>3, <1>4 DEF LoginOf, Passed, LetsIn, Accepts, Recognised, Wildcard
<1> QED BY <1>3, <1>5, OneLogin

(* What a call reads of the password of its entry is the password, unless  *)
(* it is being stored; and then it accepts nothing that the entry does not *)
(* (config.go:186, a string of two words).                                 *)
LEMMA ReadingIsRight ==
  ASSUME IInv, LoginInv, NEW l \in Logins, login[l].at # "idle",
         login[l].next <= Len(Accesses(l)),
         NEW stored \in Readings(login[l].gen, login[l].next)
  PROVE  /\ At(l) \in Entry /\ login[l].next \in DOMAIN Accesses(l)
         /\ ~login[l].overlap => stored = At(l).pass
         /\ Recognised(stored) /\ stored.of = login[l].pass => Accepts(At(l), login[l].pass)
         /\ stored = Plain(login[l].pass) => Accepts(At(l), login[l].pass)
<1> DEFINE p == login[l].pass
           e == At(l)
<1>1. LoginOf(l) /\ login[l].gen \in DOMAIN heap /\ p \in Passwords /\ p # Unknown
  BY NamesAssumption DEF LoginInv, LoginOf
<1>2. login[l].next \in DOMAIN Accesses(l) /\ e \in Entry
  <2>1. login[l].next \in 1 .. Len(Accesses(l)) /\ Accesses(l) \in Seq(Entry)
        /\ DOMAIN Accesses(l) = 1 .. Len(Accesses(l))
    BY <1>1, LoginTyped DEF IInv
  <2> QED BY <2>1 DEF At
<1>3. e = heap[login[l].gen].accesses[login[l].next]
  BY DEF At, Accesses
<1>4. CASE stored = e.pass
  <2>1. ~Recognised(Plain(p)) /\ Plain(p).of = p
    BY DEF Recognised, Plain
  <2> QED BY <1>2, <1>4, <2>1 DEF Accepts
<1>5. CASE stored # e.pass
  <2>1. /\ loader.at = "store" /\ login[l].gen = Len(heap) /\ login[l].next = loader.next
        /\ stored \in {Bcrypt(e.pass), Plain(Unknown), [kind |-> "bcrypt", of |-> Unknown]}
    BY <1>3, <1>5 DEF Readings
  <2>2. login[l].overlap
    BY <1>1, <2>1, LoginTyped DEF LoginOf, IInv
  <2>3. ~Exempt(e)
    BY <1>1, <1>3, <2>1, ContentTyped DEF IInv, OrderInv, LoadInv, Loading
  <2>4. CASE stored = Bcrypt(e.pass)
    <3>1. Hashed(e).pass = stored /\ stored.kind = "bcrypt"
      BY <1>2, <2>4, HashedTyped DEF Bcrypt
    <3>2. stored.of = p => Accepts(e, p)
      BY <1>1, <1>2, <2>3, <3>1, HashedAccepts DEF Accepts, Recognised
    <3> QED BY <1>2, <2>2, <3>1, <3>2 DEF Plain
  <2>5. CASE stored.of = Unknown
    BY <1>1, <1>2, <2>2, <2>5 DEF Plain
  <2> QED BY <2>1, <2>4, <2>5 DEF Plain
<1> QED BY <1>4, <1>5

(* Scan, CompareHash and ComparePlain (config.go:204-246).                 *)
LEMMA CompareLogin ==
  ASSUME IInv, ClearInv, LoginInv, FilesAreClear, NEW l \in Logins,
         Scan(l) \/ CompareHash(l) \/ ComparePlain(l)
  PROVE  LoginInv'
<1> DEFINE n == login[l].next
           u == login[l].user
           p == login[l].pass
           as == Accesses(l)
<1>1. /\ LoginOf(l) /\ UNCHANGED <<build, heap, loader>>
      /\ login[l].at \in {"scan", "hash", "plain"}
  BY DEF LoginInv, Scan, CompareHash, ComparePlain
<1>2. /\ login[l].gen \in DOMAIN heap /\ p \in Passwords /\ p # Unknown /\ u \in Users
  BY <1>1, NamesAssumption DEF LoginOf
<1>3. /\ n \in Nat \ {0} /\ as \in Seq(Entry) /\ DOMAIN as = 1 .. Len(as) /\ Len(as) \in Nat
      /\ login[l].overlap \in BOOLEAN
  BY <1>2, LoginTyped DEF IInv
<1>4. ASSUME n <= Len(as), At(l).user = u, Accepts(At(l), p)
      PROVE  LetsIn(as, u, p)
  <2>1. n \in DOMAIN as
    BY <1>3, <1>4
  <2> QED BY <1>4, <2>1 DEF LetsIn, At
<1>5. CASE Scan(l)
  <2>1. CASE n > Len(as)
    <3>1. Goto(l, "refused")
      BY <1>5, <2>1 DEF Scan
    <3>2. ~login[l].overlap => ~LetsIn(as, u, p)
      <4>1. \A i \in DOMAIN as : i < n
        BY <1>3, <2>1
      <4> QED BY <1>1, <1>5, <4>1 DEF LoginOf, Passed, LetsIn, Scan
    <3> QED BY <1>1, <1>3, <3>1, <3>2, GotoLogin
  <2>2. CASE n <= Len(as) /\ At(l).user # u /\ NextEntry(l)
    BY <1>1, <2>2, NextEntryLogin
  <2>3. CASE n <= Len(as) /\ At(l).user = u
    <3>1. PICK stored \in Readings(login[l].gen, n) : 
            Goto(l, IF Recognised(stored) THEN "hash" ELSE "plain")
      BY <1>3, <1>5, <2>3 DEF Scan
    <3>2. ~login[l].overlap => stored = At(l).pass
      BY <1>1, <2>3, <3>1, ReadingIsRight
    <3>3. CASE Recognised(stored)
      BY <1>1, <2>3, <3>1, <3>2, <3>3, GotoLogin
    <3>4. CASE ~Recognised(stored)
      BY <1>1, <2>3, <3>1, <3>2, <3>4, GotoLogin
    <3> QED BY <3>3, <3>4
  <2>4. n > Len(as) \/ n <= Len(as)
    BY <1>3
  <2> QED BY <1>5, <2>1, <2>2, <2>3, <2>4 DEF Scan
<1>6. CASE CompareHash(l)
  <2>1. login[l].at = "hash" /\ n <= Len(as) /\ At(l).user = u
    BY <1>1, <1>6 DEF CompareHash, LoginOf
  <2>2. PICK stored \in Readings(login[l].gen, n) :
          CASE stored.of = p /\ Recognised(stored) -> Goto(l, "accepted")
            [] stored.of = Unknown /\ build = "full" -> Goto(l, "refused")
            [] OTHER -> NextEntry(l)
    BY <1>6 DEF CompareHash
  <2>3. /\ At(l) \in Entry /\ n \in DOMAIN as
        /\ ~login[l].overlap => stored = At(l).pass /\ Recognised(stored)
        /\ Recognised(stored) /\ stored.of = p => Accepts(At(l), p)
    BY <1>1, <2>1, <2>2, ReadingIsRight DEF LoginOf
  <2>4. CASE stored.of = p /\ Recognised(stored)
    <3>1. Goto(l, "accepted")
      BY <1>2, <2>2, <2>4
    <3>2. LetsIn(as, u, p)
      BY <1>4, <2>1, <2>3, <2>4
    <3> QED BY <1>1, <3>1, <3>2, GotoLogin
  <2>5. CASE stored.of = Unknown /\ build = "full"
    <3>1. Goto(l, "refused")
      BY <1>2, <2>2, <2>5
    <3>2. ~login[l].overlap => ~LetsIn(as, u, p)
      <4> SUFFICES ASSUME ~login[l].overlap, NEW i \in DOMAIN as, as[i].user = u
                   PROVE  ~Accepts(as[i], p)
        BY DEF LetsIn
      <4>1. Clear(as) /\ (AllNamesOnce \/ AllKnown)
        BY <1>2, <2>5 DEF ClearInv, Accesses, FilesAreClear, IInv, TypeOK
      <4>2. ~AllKnown
        BY <2>3, <2>5, <4>1 DEF Clear, NoneUnknown, At
      <4>3. i = n
        BY <1>2, <2>1, <2>3, <4>1, <4>2 DEF Clear, NamesOnce, At
      <4> QED BY <1>2, <2>3, <2>5, <4>3 DEF Accepts, At
    <3> QED BY <1>1, <1>3, <3>1, <3>2, GotoLogin
  <2>6. CASE ~(stored.of = p /\ Recognised(stored)) /\ ~(stored.of = Unknown /\ build = "full")
    <3>1. NextEntry(l)
      BY <2>2, <2>6
    <3>2. ~login[l].overlap => ~Accepts(At(l), p)
      BY <2>3, <2>6 DEF Accepts
    <3> QED BY <1>1, <1>3, <2>1, <3>1, <3>2, NextEntryLogin
  <2> QED BY <2>4, <2>5, <2>6
<1>7. CASE ComparePlain(l)
  <2>1. login[l].at = "plain" /\ n <= Len(as) /\ At(l).user = u
    BY <1>1, <1>7 DEF ComparePlain, LoginOf
  <2>2. PICK stored \in Readings(login[l].gen, n) :
          IF stored = Plain(p) \/ Wildcard(At(l)) THEN Goto(l, "accepted") ELSE NextEntry(l)
    BY <1>7 DEF ComparePlain
  <2>3. /\ ~login[l].overlap => stored = At(l).pass /\ ~Recognised(stored)
        /\ stored = Plain(p) => Accepts(At(l), p)
    BY <1>1, <2>1, <2>2, ReadingIsRight DEF LoginOf
  <2>4. CASE stored = Plain(p) \/ Wildcard(At(l))
    <3>1. Wildcard(At(l)) => Accepts(At(l), p)
      BY DEF Wildcard, Accepts, Recognised, Plain
    <3>2. LetsIn(as, u, p)
      BY <1>4, <2>1, <2>3, <2>4, <3>1
    <3> QED BY <1>1, <2>2, <2>4, <3>2, GotoLogin
  <2>5. CASE ~(stored = Plain(p) \/ Wildcard(At(l)))
    <3>1. ~login[l].overlap => ~Accepts(At(l), p)
      BY <2>3, <2>5 DEF Accepts
    <3> QED BY <1>1, <1>3, <2>1, <2>2, <2>5, <3>1, NextEntryLogin
  <2> QED BY <2>4, <2>5
<1> QED BY <1>5, <1>6, <1>7

(* Every step keeps what the calls know.                                   *)
LEMMA NextLogins ==
  ASSUME IInv, ClearInv, LoginInv, FilesAreClear, [Next]_vars
  PROVE  LoginInv'
<1>1. CASE UNCHANGED vars \/ Edit \/ LoadFails
  BY <1>1, LoginsKept DEF vars, Edit, LoadFails
<1>2. CASE Crash
  BY <1>2, NoLogins DEF Crash, NotAsked
<1>3. CASE Load
  <2>1. /\ UNCHANGED <<build, login>> /\ heap' = Append(heap, [accesses |-> file.accesses, loaded |-> file])
        /\ loader'.at # "store"
    BY <1>3 DEF Load, Idle
  <2> DEFINE c == [accesses |-> file.accesses, loaded |-> file]
  <2>2. heap \in Seq(ContentType) /\ c \in ContentType
    BY <1>3 DEF Load, IInv, TypeOK, FileType, ContentType
  <2> HIDE DEF c
  <2>3. \A g \in DOMAIN heap : g \in DOMAIN heap' /\ heap'[g] = heap[g]
    BY <2>1, <2>2 DEF c
  <2> QED BY <2>1, <2>3, LoginsKept
<1>4. CASE SkipEntry
  <2>1. UNCHANGED <<build, login, heap>> /\ loader'.at # "store"
    BY <1>4 DEF SkipEntry, Hashing, IInv, TypeOK
  <2> QED BY <2>1, LoginsKept
<1>5. CASE ReadFile \/ HashFails \/ HashingEnds \/ BeginWrite \/ EndWrite
  <2>1. UNCHANGED <<build, login>> /\ Loading
    BY <1>5 DEF ReadFile, HashFails, Hashing, HashingEnds, BeginWrite, EndWrite, Loading
  <2>2. Fail \/ (UNCHANGED heap /\ loader'.at # "store")
    <3>1. loader \in [at : {"idle", "read", "hash", "store", "write", "writing"}, next : Nat \ {0},
                     text : FileType \cup {Broken}, save : BOOLEAN]
      BY DEF IInv, TypeOK
    <3>2. ASSUME loader' = Idle
          PROVE  loader'.at # "store"
      BY <3>2 DEF Idle
    <3>3. CASE ReadFile
      BY <3>1, <3>3 DEF ReadFile
    <3>4. CASE HashingEnds
      BY <3>1, <3>2, <3>4 DEF HashingEnds, Succeed
    <3>5. CASE BeginWrite
      BY <3>1, <3>5 DEF BeginWrite
    <3>6. CASE EndWrite
      BY <3>2, <3>6 DEF EndWrite, Succeed
    <3> QED BY <1>5, <3>3, <3>4, <3>5, <3>6 DEF HashFails
  <2> QED BY <2>1, <2>2, FailLogins, LoginsKept
<1>6. CASE HashEntry \/ StoreEntry
  BY <1>6, HashLogins, StoreLogins
<1>7. CASE \E l \in Logins : GetAccess(l) \/ Scan(l) \/ CompareHash(l) \/ ComparePlain(l)
  BY <1>7, GetAccessLogin, CompareLogin
<1> QED BY <1>1, <1>2, <1>3, <1>4, <1>5, <1>6, <1>7 DEF Next

(* Nobody is let in whom the content his call began with did not let in,   *)
(* and nobody is turned away whom it does, unless a store overlapped the   *)
(* call: for any files of which, in the full variant, either none names a  *)
(* user twice or none has a hash that does not decode (config.go:204-246,  *)
(* config_local.go:107-130).                                               *)
THEOREM VerdictsAreRight ==
  ASSUME FilesAreClear
  PROVE  Spec => []VerdictIsRight
<1>1. Init => IInv /\ ClearInv /\ LoginInv
  <2> SUFFICES ASSUME Init
               PROVE  IInv /\ ClearInv /\ LoginInv
    OBVIOUS
  <2>1. ClearInv
    BY DEF Init, ClearInv, Clear, AllNamesOnce, AllKnown, Idle
  <2>2. LoginInv
    BY DEF Init, LoginInv, LoginOf, NotAsked
  <2> QED BY <2>1, <2>2, InitIInv
<1>2. IInv /\ ClearInv /\ LoginInv /\ [Next]_vars => (IInv /\ ClearInv /\ LoginInv)'
  BY NextIInv, NextClear, NextLogins
<1>3. IInv /\ LoginInv => VerdictIsRight
  <2> SUFFICES ASSUME IInv, LoginInv, NEW l \in Logins, login[l].at \in {"accepted", "refused"}
               PROVE  LET right == LetsIn(heap[login[l].gen].loaded.accesses, login[l].user, login[l].pass)
                      IN  /\ login[l].at = "accepted" => right
                          /\ login[l].at = "refused" => ~right \/ login[l].overlap
    BY DEF VerdictIsRight
  <2>1. /\ login[l].gen \in DOMAIN heap /\ login[l].user \in Users /\ login[l].pass \in Passwords
        /\ login[l].at = "accepted" => LetsIn(Accesses(l), login[l].user, login[l].pass)
        /\ login[l].at = "refused" /\ ~login[l].overlap =>
             ~LetsIn(Accesses(l), login[l].user, login[l].pass)
    BY DEF LoginInv, LoginOf
  <2>2. heap[login[l].gen] \in ContentType
    BY <2>1 DEF IInv, TypeOK
  <2>3. Accesses(l) \in Seq(Entry) /\ heap[login[l].gen].loaded.accesses \in Seq(Entry)
    BY <2>2 DEF Accesses, ContentType, FileType
  <2>4. Follows(Accesses(l), heap[login[l].gen].loaded.accesses)
    BY <2>1 DEF IInv, FollowInv, Accesses
  <2>5. Same(Accesses(l), heap[login[l].gen].loaded.accesses)
    BY <2>3, <2>4, FollowsSame
  <2> QED BY <2>1, <2>5, LoginTyped DEF Same, IInv
<1> QED BY <1>1, <1>2, <1>3, PTL DEF Spec
=============================================================================
