-------------------------- MODULE GuiConfigProofs --------------------------
(***************************************************************************)
(* What module GuiConfig guarantees for any users, passwords and lengths   *)
(* of the list, however the process is killed in between: a server starts  *)
(* with the users of the window, the file follows the list, and a deletion *)
(* takes the user whom the box named.                                      *)
(***************************************************************************)
EXTENDS GuiConfig, ConfigProofs

-----------------------------------------------------------------------------
(* Lists of users.                                                         *)

(* The names are those of the lines.                                       *)
LEMMA NamesOf ==
  ASSUME NEW xs, NEW name
  PROVE  name \in Names(xs) <=> \E i \in DOMAIN xs : xs[i].user = name
BY DEF Names

(* Hashing keeps the names, the length, and that none is there twice.      *)
LEMMA FollowsNames ==
  ASSUME NEW xs \in Seq(Entry), NEW ys \in Seq(Entry), Follows(xs, ys)
  PROVE  /\ Names(xs) = Names(ys) /\ Len(xs) = Len(ys)
         /\ NoNameTwice(ys) => NoNameTwice(xs)
         /\ ys # <<>> => xs # <<>>
<1>1. DOMAIN xs = DOMAIN ys /\ Len(xs) = Len(ys)
  BY LenProperties DEF Follows
<1>2. ASSUME NEW i \in DOMAIN ys
      PROVE  xs[i].user = ys[i].user
  <2>1. \/ xs[i] = ys[i]
        \/ xs[i] = Hashed(ys[i])
    BY <1>2 DEF Follows
  <2> QED BY <1>2, <2>1, HashedTyped
<1>3. Names(xs) = Names(ys)
  BY <1>1, <1>2 DEF Names
<1>4. NoNameTwice(ys) => NoNameTwice(xs)
  BY <1>1, <1>2 DEF NoNameTwice
<1>5. ys # <<>> => xs # <<>>
  BY <1>1, EmptySeq
<1> QED BY <1>1, <1>3, <1>4, <1>5

(* Removing a line takes its user from the list, and nobody else           *)
(* (main_windows.go:553).                                                  *)
LEMMA RemovedUser ==
  ASSUME NEW xs \in Seq(Entry), NoNameTwice(xs), NEW i \in DOMAIN xs
  PROVE  LET ys == RemoveAt(xs, i)
         IN  /\ ys \in Seq(Entry) /\ Len(ys) = Len(xs) - 1 /\ NoNameTwice(ys)
             /\ Names(ys) = Names(xs) \ {xs[i].user}
<1> DEFINE n == Len(xs)
           ys == RemoveAt(xs, i)
           back(k) == IF k < i THEN k ELSE k + 1
<1>1. n \in Nat /\ DOMAIN xs = 1 .. n /\ i \in 1 .. n
  BY LenProperties
<1>2. /\ SubSeq(xs, 1, i - 1) \in Seq(Entry) /\ Len(SubSeq(xs, 1, i - 1)) = i - 1
      /\ \A k \in 1 .. (i - 1) : SubSeq(xs, 1, i - 1)[k] = xs[k]
  BY <1>1
<1>3. /\ SubSeq(xs, i + 1, n) \in Seq(Entry) /\ Len(SubSeq(xs, i + 1, n)) = n - i
      /\ \A k \in 1 .. (n - i) : SubSeq(xs, i + 1, n)[k] = xs[i + k]
  BY <1>1
<1>4. /\ ys \in Seq(Entry) /\ Len(ys) = n - 1
      /\ \A k \in 1 .. (n - 1) : ys[k] = xs[back(k)]
  <2> DEFINE a == SubSeq(xs, 1, i - 1)
             b == SubSeq(xs, i + 1, n)
  <2>1. ys = a \o b
    BY DEF RemoveAt
  <2>2. /\ a \in Seq(Entry) /\ Len(a) = i - 1 /\ \A k \in 1 .. (i - 1) : a[k] = xs[k]
        /\ b \in Seq(Entry) /\ Len(b) = n - i /\ \A k \in 1 .. (n - i) : b[k] = xs[i + k]
    BY <1>2, <1>3
  <2> HIDE DEF a, b, ys, n
  <2>3. /\ a \o b \in Seq(Entry) /\ Len(a \o b) = Len(a) + Len(b)
        /\ \A k \in 1 .. Len(a) + Len(b) :
             (a \o b)[k] = IF k <= Len(a) THEN a[k] ELSE b[k - Len(a)]
    BY <2>2, ConcatProperties
  <2>4. Len(a) + Len(b) = n - 1
    BY <1>1, <2>2
  <2>5. ASSUME NEW k \in 1 .. (n - 1)
        PROVE  ys[k] = xs[back(k)]
    <3>1. ys[k] = IF k <= i - 1 THEN a[k] ELSE b[k - (i - 1)]
      BY <2>1, <2>2, <2>3, <2>4
    <3>2. CASE k < i
      BY <1>1, <2>2, <3>1, <3>2
    <3>3. CASE k >= i
      <4>1. ~(k <= i - 1) /\ k - (i - 1) \in 1 .. (n - i) /\ i + (k - (i - 1)) = k + 1
        BY <1>1, <3>3
      <4>2. ys[k] = b[k - (i - 1)]
        BY <3>1, <4>1
      <4>3. b[k - (i - 1)] = xs[i + (k - (i - 1))]
        BY <2>2, <4>1
      <4> QED BY <1>1, <3>3, <4>1, <4>2, <4>3
    <3> QED BY <1>1, <3>2, <3>3
  <2> QED BY <2>1, <2>3, <2>4, <2>5
<1>5. DOMAIN ys = 1 .. (n - 1)
  BY <1>4, LenProperties
<1>6. \A k \in 1 .. (n - 1) : back(k) \in 1 .. n /\ back(k) # i
  BY <1>1
<1>7. \A j \in 1 .. n : j # i => \E k \in 1 .. (n - 1) : back(k) = j
  <2> SUFFICES ASSUME NEW j \in 1 .. n, j # i
               PROVE  \E k \in 1 .. (n - 1) : back(k) = j
    OBVIOUS
  <2>1. CASE j < i
    BY <1>1, <2>1
  <2>2. CASE j > i
    <3>1. j - 1 \in 1 .. (n - 1) /\ back(j - 1) = j
      BY <1>1, <2>2
    <3> QED BY <3>1
  <2> QED BY <1>1, <2>1, <2>2
<1>8. \A j, k \in 1 .. (n - 1) : back(j) = back(k) => j = k
  BY <1>1
<1> HIDE DEF ys, n, back
<1>9. NoNameTwice(ys)
  BY <1>1, <1>4, <1>5, <1>6, <1>8 DEF NoNameTwice
<1>10. ASSUME NEW name
       PROVE  name \in Names(ys) <=> name \in Names(xs) /\ name # xs[i].user
  <2>1. name \in Names(ys) => name \in Names(xs) /\ name # xs[i].user
    <3> SUFFICES ASSUME name \in Names(ys)
                 PROVE  name \in Names(xs) /\ name # xs[i].user
      OBVIOUS
    <3>0. PICK k \in 1 .. (n - 1) : ys[k].user = name
      BY <1>5, NamesOf
    <3>1. ys[k] = xs[back(k)] /\ back(k) \in DOMAIN xs /\ back(k) # i
      BY <1>1, <1>4, <1>6
    <3>2. xs[back(k)].user = name
      BY <3>0, <3>1
    <3>3. name \in Names(xs)
      BY <3>1, <3>2, NamesOf
    <3>4. name # xs[i].user
      BY <3>1, <3>2 DEF NoNameTwice
    <3> QED BY <3>3, <3>4
  <2>2. name \in Names(xs) /\ name # xs[i].user => name \in Names(ys)
    <3> SUFFICES ASSUME NEW j \in 1 .. n, xs[j].user = name, name # xs[i].user
                 PROVE  name \in Names(ys)
      BY <1>1, NamesOf
    <3>1. PICK k \in 1 .. (n - 1) : back(k) = j
      BY <1>7
    <3>2. ys[k].user = name
      BY <1>4, <3>1
    <3> QED BY <1>5, <3>2, NamesOf
  <2> QED BY <2>1, <2>2
<1>11. Names(ys) = Names(xs) \ {xs[i].user}
  BY <1>10
<1> QED BY <1>4, <1>9, <1>11 DEF ys, n

(* A new line with a name that no line has.                                *)
LEMMA AddedUser ==
  ASSUME NEW xs \in Seq(Entry), NoNameTwice(xs), NEW u \in Entry, u.user \notin Names(xs)
  PROVE  /\ Append(xs, u) \in Seq(Entry) /\ NoNameTwice(Append(xs, u))
         /\ Names(Append(xs, u)) = Names(xs) \cup {u.user}
<1> DEFINE n == Len(xs)
           ys == Append(xs, u)
<1>1. /\ n \in Nat /\ DOMAIN xs = 1 .. n /\ ys \in Seq(Entry) /\ DOMAIN ys = 1 .. (n + 1)
      /\ ys[n + 1] = u /\ \A k \in 1 .. n : ys[k] = xs[k]
  BY LenProperties
<1>2. \A k \in 1 .. (n + 1) : k \in 1 .. n \/ k = n + 1
  BY <1>1
<1>3. \A k \in 1 .. n : xs[k].user # u.user /\ k \in 1 .. (n + 1)
  BY <1>1, NamesOf
<1>4. n + 1 \in 1 .. (n + 1)
  BY <1>1
<1> HIDE DEF ys, n
<1>5. NoNameTwice(ys)
  BY <1>1, <1>2, <1>3 DEF NoNameTwice
<1>6. Names(ys) = Names(xs) \cup {u.user}
  BY <1>1, <1>2, <1>3, <1>4 DEF Names
<1> QED BY <1>1, <1>5, <1>6 DEF ys

(* A line that gets a name that no other line has.                         *)
LEMMA ChangedUser ==
  ASSUME NEW xs \in Seq(Entry), NoNameTwice(xs), NEW i \in DOMAIN xs, NEW u \in Entry,
         \A k \in DOMAIN xs : k # i => xs[k].user # u.user
  PROVE  LET ys == [xs EXCEPT ![i] = u]
         IN  /\ ys \in Seq(Entry) /\ Len(ys) = Len(xs) /\ NoNameTwice(ys)
             /\ Names(ys) \subseteq Names(xs) \cup {u.user}
<1> DEFINE ys == [xs EXCEPT ![i] = u]
<1>1. /\ ys \in Seq(Entry) /\ Len(ys) = Len(xs) /\ DOMAIN ys = DOMAIN xs
      /\ ys[i] = u /\ \A k \in DOMAIN xs \ {i} : ys[k] = xs[k]
  BY Replaced
<1> HIDE DEF ys
<1>2. NoNameTwice(ys)
  BY <1>1 DEF NoNameTwice
<1>3. Names(ys) \subseteq Names(xs) \cup {u.user}
  BY <1>1 DEF Names
<1> QED BY <1>1, <1>2, <1>3 DEF ys

-----------------------------------------------------------------------------
(* What steps leave as it was.                                             *)

(* The list, and the box that asks about it.                               *)
LEMMA ListKept ==
  ASSUME ListInv, UNCHANGED <<users, asked>>, step' = "off" => step = "off"
  PROVE  ListInv'
BY DEF ListInv

(* The file, and what it was when the list was read or saved.              *)
LEMMA FileKept ==
  ASSUME FileInv, step # "off", UNCHANGED <<build, file, users, hash, dirty>>,
         step' \in {"write", "load"} => users # <<>>
  PROVE  FileInv'
BY DEF FileInv, Follows, Exempt, Wildcard, Recognised

(* Away from a load it does not matter which contents there are.           *)
LEMMA StartKept ==
  ASSUME StartInv, UNCHANGED <<build, heap, loader>>, step # "load", step' \notin {"load", "listen"},
         running' = running, heap # <<>> => running,
         starting' /\ step' \in {"save", "write"} => ~running
  PROVE  StartInv'
<1>1. ~Loading
  BY DEF StartInv
<1>2. ~Loading' /\ loader.at = "idle"
  BY <1>1 DEF Loading
<1> QED BY <1>2 DEF StartInv

(* Giving a configuration up leaves none.                                  *)
LEMMA GaveUp ==
  ASSUME StartInv, GiveUp, step' \notin {"load", "listen"},
         starting' /\ step' \in {"save", "write"} => ~running'
  PROVE  StartInv'
<1>1. heap' = <<>> /\ loader' = Idle /\ build' = build
  BY DEF GiveUp
<1>2. ~Loading' /\ <<>> \in Seq(ContentType)
  BY <1>1 DEF Loading, Idle
<1>3. Idle \in LoaderType
  BY DEF Idle, LoaderType
<1>4. loader'.at # "store"
  BY <1>1 DEF Idle
<1> QED BY <1>1, <1>2, <1>3, <1>4 DEF StartInv

-----------------------------------------------------------------------------
(* The process and the window.                                             *)

(* No box, or the box about a line, for any length of the list.            *)
LEMMA NoBoxTyped == \A n \in Nat : NoBox \in [line : 0 .. n, user : Users \cup {Nobody}]
BY DEF NoBox

(* An empty list, without a box.                                           *)
LEMMA NoListTyped ==
  /\ <<>> \in Seq(Entry) /\ Len(<<>>) <= MaxUsers /\ 0 \in 0 .. Len(<<>>)
  /\ NoBox \in [line : 0 .. Len(<<>>), user : Users \cup {Nobody}]
<1>1. <<>> \in Seq(Entry) /\ Len(<<>>) = 0 /\ 0 <= MaxUsers /\ 0 \in 0 .. 0
  BY WindowAssumption
<1>2. NoBox \in [line : 0 .. 0, user : Users \cup {Nobody}]
  BY NoBoxTyped
<1> QED BY <1>1, <1>2

(* At first there is no process, and perhaps a file.                       *)
LEMMA InitGui == GuiInit => GuiInv
<1> SUFFICES ASSUME GuiInit
             PROVE  GuiInv
  OBVIOUS
<1>1. /\ step = "off" /\ starting = FALSE /\ running = FALSE /\ hash = FALSE /\ dirty = FALSE
      /\ users = <<>> /\ selected = 0 /\ asked = NoBox /\ file \in Files \cup {Broken}
      /\ heap = <<>> /\ loader = Idle /\ result = "none" /\ build = "local"
  BY DEF GuiInit
<1>2. file # Broken => /\ file \in FileType /\ file.accesses # <<>>
                       /\ Len(file.accesses) <= MaxUsers /\ NoNameTwice(file.accesses)
                       /\ Names(file.accesses) \subseteq Users
  BY <1>1, WindowAssumption, FilesAssumption DEF Names
<1>3. /\ <<>> \in Seq(Entry) /\ <<>> \in Seq(ContentType) /\ Len(<<>>) = 0
      /\ DOMAIN <<>> = {}
  OBVIOUS
<1>4. GuiTypeOK
  BY <1>1, <1>2, NoListTyped DEF GuiTypeOK
<1>5. ListInv
  BY <1>1, <1>3 DEF ListInv, NoNameTwice, Names
<1>6. FileInv
  BY <1>1, <1>2 DEF FileInv
<1>7. StartInv
  BY <1>1, <1>3 DEF StartInv, Loading, Idle, LoaderType
<1> QED BY <1>4, <1>5, <1>6, <1>7 DEF GuiInv

(* The process dies, and the file stays.                                   *)
LEMMA KillStep ==
  ASSUME GuiInv, Kill
  PROVE  GuiInv'
<1>1. /\ step' = "off" /\ starting' = FALSE /\ running' = FALSE /\ users' = <<>>
      /\ hash' = FALSE /\ selected' = 0 /\ asked' = NoBox /\ dirty' = FALSE
      /\ GiveUp /\ file' = file
  BY DEF Kill, NoProcess, GiveUp
<1>2. <<>> \in Seq(Entry) /\ Len(<<>>) = 0 /\ DOMAIN <<>> = {}
  OBVIOUS
<1>3. GuiTypeOK'
  <2>1. /\ users' \in Seq(Entry) /\ Len(users') <= MaxUsers /\ selected' \in 0 .. Len(users')
        /\ asked' \in [line : 0 .. Len(users'), user : Users \cup {Nobody}]
    BY <1>1, NoListTyped
  <2> QED BY <1>1, <2>1 DEF GuiInv, GuiTypeOK
<1>4. ListInv'
  BY <1>1, <1>2 DEF ListInv, NoNameTwice, Names
<1>5. FileInv'
  BY <1>1 DEF GuiInv, FileInv
<1>6. StartInv'
  BY <1>1, GaveUp DEF GuiInv
<1> QED BY <1>3, <1>4, <1>5, <1>6 DEF GuiInv

(* The list is what the file says.                                         *)
LEMMA BootStep ==
  ASSUME GuiInv, Boot
  PROVE  GuiInv'
<1>1. /\ step = "off" /\ step' = "loop" /\ UNCHANGED <<configVars, starting, running, asked, dirty>>
      /\ users' = IF file = Broken THEN <<>> ELSE file.accesses
      /\ hash' = (file # Broken /\ file.hash) /\ selected' = Refreshed(users')
  BY DEF Boot
<1>2. build' = build /\ file' = file /\ asked = NoBox
  BY <1>1 DEF configVars, GuiInv, ListInv
<1>3. /\ file # Broken => /\ file.accesses \in Seq(Entry) /\ file.hash \in BOOLEAN
                          /\ Len(file.accesses) <= MaxUsers
      /\ <<>> \in Seq(Entry) /\ Len(<<>>) = 0 /\ DOMAIN <<>> = {}
  BY DEF GuiInv, FileInv, FileType
<1>4. users' \in Seq(Entry) /\ Len(users') <= MaxUsers /\ hash' \in BOOLEAN
  BY <1>1, <1>3, WindowAssumption
<1>5. Refreshed(users') \in 0 .. Len(users')
  BY <1>4, EmptySeq, LenProperties DEF Refreshed
<1>6. NoBox \in [line : 0 .. Len(users'), user : Users \cup {Nobody}]
  BY <1>4, LenProperties, NoBoxTyped
<1>7. GuiTypeOK'
  BY <1>1, <1>2, <1>4, <1>5, <1>6 DEF GuiInv, GuiTypeOK
<1>8. ListInv'
  BY <1>1, <1>2, <1>3 DEF GuiInv, ListInv, FileInv, NoNameTwice, Names
<1>9. FileInv'
  <2>1. file # Broken => Follows(file.accesses, file.accesses)
    BY DEF Follows
  <2>2. file # Broken => Follows(file.accesses, users)'
    BY <1>1, <1>2, <2>1 DEF Follows, Exempt, Wildcard, Recognised
  <2>3. file # Broken => hash' = file.hash
    BY <1>1, <1>3
  <2>4. step' \notin {"write", "load"} /\ UNCHANGED <<file, dirty>>
    BY <1>1, <1>2
  <2> QED BY <2>2, <2>3, <2>4 DEF GuiInv, FileInv
<1>10. StartInv'
  BY <1>1, StartKept DEF GuiInv, StartInv, configVars
<1> QED BY <1>7, <1>8, <1>9, <1>10 DEF GuiInv

-----------------------------------------------------------------------------
(* The window.                                                             *)

(* Steps of the window leave the file and what is loaded as they are, so   *)
(* that what they do to the list is all there is to look at.               *)
LEMMA WindowStep ==
  ASSUME GuiInv, UNCHANGED <<configVars, running>>, step \in {"loop", "save"},
         step' \in {"loop", "save"}, starting' \in BOOLEAN,
         starting' /\ step' = "save" => ~running,
         hash' \in BOOLEAN, dirty' \in BOOLEAN,
         dirty' \/ UNCHANGED <<users, hash, dirty>>,
         users' \in Seq(Entry), Len(users') <= MaxUsers, selected' \in 0 .. Len(users'),
         asked' \in [line : 0 .. Len(users'), user : Users \cup {Nobody}], ListInv'
  PROVE  GuiInv'
<1>1. build' = build /\ file' = file
  BY DEF configVars
<1>2. GuiTypeOK'
  BY <1>1 DEF GuiInv, GuiTypeOK
<1>3. FileInv'
  <2>1. CASE dirty'
    BY <1>1, <2>1 DEF GuiInv, FileInv
  <2>2. CASE UNCHANGED <<users, hash, dirty>>
    BY <1>1, <2>2, FileKept DEF GuiInv
  <2> QED BY <2>1, <2>2
<1>4. StartInv'
  <2>1. heap # <<>> => running
    BY DEF GuiInv, StartInv
  <2> QED BY <2>1, StartKept DEF GuiInv, configVars
<1> QED BY <1>2, <1>3, <1>4 DEF GuiInv

(* Steps that leave the list alone, and ask about a line at most.          *)
LEMMA SameListStep ==
  ASSUME GuiInv, UNCHANGED <<configVars, running, users>>, step \in {"loop", "save"},
         step' \in {"loop", "save"}, starting' \in BOOLEAN,
         starting' /\ step' = "save" => ~running,
         hash' \in BOOLEAN, dirty' \in BOOLEAN,
         dirty' \/ UNCHANGED <<hash, dirty>>, selected' \in 0 .. Len(users),
         \/ asked' = asked
         \/ asked' = NoBox
         \/ \E i \in DOMAIN users : asked' = [line |-> i, user |-> users[i].user]
  PROVE  GuiInv'
<1>1. /\ users \in Seq(Entry) /\ Len(users) <= MaxUsers /\ Len(users) \in Nat
      /\ DOMAIN users = 1 .. Len(users)
      /\ asked \in [line : 0 .. Len(users), user : Users \cup {Nobody}]
  BY LenProperties DEF GuiInv, GuiTypeOK
<1>2. /\ asked' \in [line : 0 .. Len(users), user : Users \cup {Nobody}]
      /\ asked' # NoBox => asked'.line \in DOMAIN users /\ users[asked'.line].user = asked'.user
  <2>1. CASE asked' = asked
    BY <1>1, <2>1 DEF GuiInv, ListInv
  <2>2. CASE asked' = NoBox
    BY <1>1, <2>2, NoBoxTyped
  <2>3. CASE \E i \in DOMAIN users : asked' = [line |-> i, user |-> users[i].user]
    <3>1. PICK i \in DOMAIN users : asked' = [line |-> i, user |-> users[i].user]
      BY <2>3
    <3>2. users[i].user \in Users /\ i \in 0 .. Len(users)
      BY <1>1, NamesOf DEF GuiInv, ListInv
    <3> QED BY <3>1, <3>2
  <2> QED BY <2>1, <2>2, <2>3
<1>3. ListInv'
  BY <1>2 DEF GuiInv, ListInv
<1> QED BY <1>1, <1>2, <1>3, WindowStep

(* The handlers that do so, and the save that is refused.                  *)
LEMMA HandlerStep ==
  ASSUME GuiInv,
         \/ SelectUser \/ NewUser \/ AskDelete \/ AcceptDialog
         \/ PressSave \/ PressStart \/ SaveFails
  PROVE  GuiInv'
<1>1. /\ users \in Seq(Entry) /\ Len(users) \in Nat /\ DOMAIN users = 1 .. Len(users)
      /\ selected \in 0 .. Len(users) /\ starting \in BOOLEAN /\ hash \in BOOLEAN
      /\ dirty \in BOOLEAN
      /\ starting /\ step \in {"save", "write"} => ~running
  BY LenProperties DEF GuiInv, GuiTypeOK, StartInv
<1>2. CASE SelectUser \/ NewUser
  <2>1. selected' \in 0 .. Len(users)
    BY <1>1, <1>2 DEF SelectUser, NewUser
  <2> QED BY <1>1, <1>2, <2>1, SameListStep DEF SelectUser, NewUser, AtWindow
<1>3. CASE AskDelete
  <2>1. selected \in DOMAIN users
    BY <1>1, <1>3 DEF AskDelete
  <2> QED BY <1>1, <1>3, <2>1, SameListStep DEF AskDelete, AtWindow
<1>4. CASE AcceptDialog
  BY <1>1, <1>4, SameListStep DEF AcceptDialog, AtWindow
<1>5. CASE PressSave
  BY <1>1, <1>5, SameListStep DEF PressSave, AtWindow, formVars
<1>6. CASE PressStart
  BY <1>1, <1>6, SameListStep DEF PressStart, formVars
<1>7. CASE SaveFails
  BY <1>1, <1>7, SameListStep DEF SaveFails, formVars
<1> QED BY <1>2, <1>3, <1>4, <1>5, <1>6, <1>7

(* A user is changed, or added, under a name that no other line has.       *)
LEMMA SaveUserStep ==
  ASSUME GuiInv, SaveUser
  PROVE  GuiInv'
<1>1. /\ users \in Seq(Entry) /\ Len(users) \in Nat /\ DOMAIN users = 1 .. Len(users)
      /\ selected \in 0 .. Len(users) /\ starting \in BOOLEAN /\ hash \in BOOLEAN
      /\ NoNameTwice(users) /\ Names(users) \subseteq Users
  BY LenProperties DEF GuiInv, GuiTypeOK, ListInv
<1>2. PICK name \in Users, pass \in Given :
        /\ ~Taken(name)
        /\ users' = IF selected # 0
                      THEN [users EXCEPT ![selected] = [user |-> name, pass |-> pass]]
                      ELSE Append(users, [user |-> name, pass |-> pass])
  BY DEF SaveUser
<1> DEFINE u == [user |-> name, pass |-> pass]
<1>3. u \in Entry /\ u.user = name
  <2>1. pass \in Stored
    <3>1. CASE pass \in {Plain(p) : p \in Typed}
      BY <3>1, WindowAssumption DEF Plain, Stored
    <3>2. CASE selected # 0 /\ pass = users[selected].pass
      <4>1. users[selected] \in Entry
        BY <1>1, <3>2
      <4> QED BY <3>2, <4>1 DEF Entry
    <3> QED BY <1>2, <3>1, <3>2 DEF Given
  <2> QED BY <2>1 DEF Entry
<1> HIDE DEF u
<1>4. users' \in Seq(Entry) /\ NoNameTwice(users') /\ Names(users') \subseteq Users
  <2>1. CASE selected # 0
    <3>1. selected \in DOMAIN users /\ users' = [users EXCEPT ![selected] = u]
      BY <1>1, <1>2, <2>1 DEF u
    <3>2. \A k \in DOMAIN users : k # selected => users[k].user # u.user
      BY <1>2, <1>3 DEF Taken
    <3> QED BY <1>1, <1>3, <3>1, <3>2, ChangedUser
  <2>2. CASE selected = 0
    <3>1. users' = Append(users, u)
      BY <1>2, <2>2 DEF u
    <3>2. u.user \notin Names(users)
      BY <1>1, <1>2, <1>3, <2>2, NamesOf DEF Taken
    <3> QED BY <1>1, <1>3, <3>1, <3>2, AddedUser
  <2> QED BY <2>1, <2>2
<1>5. /\ AtWindow /\ Len(users') <= MaxUsers /\ selected' = Refreshed(users') /\ dirty' = TRUE
      /\ UNCHANGED <<configVars, step, starting, running, hash, asked>>
  BY DEF SaveUser
<1>6. Len(users') \in Nat /\ Refreshed(users') \in 0 .. Len(users')
  BY <1>4, EmptySeq, LenProperties DEF Refreshed
<1>7. asked' = NoBox /\ step = "loop" /\ step' = "loop"
  BY <1>5 DEF AtWindow
<1>8. ListInv'
  BY <1>4, <1>7 DEF ListInv
<1>9. asked' \in [line : 0 .. Len(users'), user : Users \cup {Nobody}]
  BY <1>6, <1>7, NoBoxTyped
<1> QED BY <1>1, <1>4, <1>5, <1>6, <1>7, <1>8, <1>9, WindowStep

(* The user whom the box named is taken from the list, and nobody else.    *)
LEMMA Confirmed ==
  ASSUME GuiInv, AnswerDelete, users' # users
  PROVE  /\ users' \in Seq(Entry) /\ Len(users') = Len(users) - 1 /\ NoNameTwice(users')
         /\ Names(users') = Names(users) \ {asked.user}
         /\ selected' = 0 /\ dirty' = TRUE
<1>1. asked # NoBox /\ users' = RemoveAt(users, asked.line) /\ selected' = 0 /\ dirty' = TRUE
  BY DEF AnswerDelete
<1>2. /\ users \in Seq(Entry) /\ NoNameTwice(users) /\ asked.line \in DOMAIN users
      /\ users[asked.line].user = asked.user
  BY <1>1 DEF GuiInv, GuiTypeOK, ListInv
<1> QED BY <1>1, <1>2, RemovedUser

(* The box is answered.                                                    *)
LEMMA AnswerStep ==
  ASSUME GuiInv, AnswerDelete
  PROVE  GuiInv'
<1>1. /\ step = "loop" /\ step' = "loop" /\ asked' = NoBox
      /\ UNCHANGED <<configVars, starting, running, hash>>
  BY DEF AnswerDelete
<1>2. /\ users \in Seq(Entry) /\ Len(users) \in Nat /\ Len(users) <= MaxUsers
      /\ starting \in BOOLEAN /\ hash \in BOOLEAN /\ dirty \in BOOLEAN
      /\ NoNameTwice(users) /\ Names(users) \subseteq Users
      /\ selected \in 0 .. Len(users)
  BY LenProperties DEF GuiInv, GuiTypeOK, ListInv
<1>3. CASE users' = users
  <2>1. \/ selected' = selected /\ dirty' = dirty
        \/ selected' = 0 /\ dirty' = TRUE
    BY Zenon DEF AnswerDelete
  <2>2. selected' \in 0 .. Len(users)
    BY <1>2, <2>1
  <2>3. dirty' \in BOOLEAN
    BY <1>2, <2>1, Zenon
  <2> QED BY <1>1, <1>2, <1>3, <2>1, <2>2, <2>3, SameListStep
<1>4. CASE users' # users
  <2>1. /\ users' \in Seq(Entry) /\ Len(users') = Len(users) - 1 /\ NoNameTwice(users')
        /\ Names(users') \subseteq Users /\ selected' = 0 /\ dirty' = TRUE
    BY <1>2, <1>4, Confirmed
  <2>2. Len(users') \in Nat /\ Len(users') <= MaxUsers /\ 0 \in 0 .. Len(users')
    BY <1>2, <2>1, LenProperties, WindowAssumption
  <2>3. ListInv'
    BY <1>1, <2>1 DEF ListInv
  <2>4. asked' \in [line : 0 .. Len(users'), user : Users \cup {Nobody}]
    BY <1>1, <2>2, NoBoxTyped
  <2> QED BY <1>1, <1>2, <2>1, <2>2, <2>3, <2>4, WindowStep
<1> QED BY <1>3, <1>4

-----------------------------------------------------------------------------
(* Saving and starting.                                                    *)

(* The file is emptied.                                                    *)
LEMMA BeginSaveStep ==
  ASSUME GuiInv, BeginSave
  PROVE  GuiInv'
<1>1. /\ step = "save" /\ step' = "write" /\ file' = Broken /\ users # <<>>
      /\ UNCHANGED <<build, heap, loader, starting, running, formVars>>
  BY DEF BeginSave, Refused
<1>2. GuiTypeOK' /\ ListInv' /\ FileInv'
  BY <1>1 DEF GuiInv, GuiTypeOK, ListInv, FileInv, formVars
<1>3. /\ heap # <<>> => running
      /\ starting => ~running
  BY <1>1 DEF GuiInv, StartInv
<1>4. StartInv'
  BY <1>1, <1>3, StartKept DEF GuiInv
<1> QED BY <1>2, <1>4 DEF GuiInv

(* What is written is the list.  A start has not loaded anything before.   *)
LEMMA EndSaveStep ==
  ASSUME GuiInv, EndSave
  PROVE  GuiInv'
<1>1. /\ step = "write"
      /\ UNCHANGED <<build, heap, loader, starting, running, users, hash, selected, asked>>
  BY DEF EndSave
<1>2. /\ users \in Seq(Entry) /\ hash \in BOOLEAN /\ Len(users) <= MaxUsers /\ users # <<>>
      /\ NoNameTwice(users) /\ Names(users) \subseteq Users /\ starting \in BOOLEAN
  BY <1>1 DEF GuiInv, GuiTypeOK, ListInv, FileInv
<1>3. /\ heap # <<>> => running
      /\ starting => ~running
      /\ ~Loading
  BY <1>1 DEF GuiInv, StartInv
<1>4. CASE /\ file' = [hash |-> hash, accesses |-> users] /\ dirty' = FALSE /\ result' = "none"
           /\ step' = IF starting THEN "load" ELSE "loop"
  <2>1. file' \in FileType /\ file' # Broken /\ file'.accesses = users /\ file'.hash = hash
    BY <1>2, <1>4, FilesAssumption DEF FileType
  <2>2. Follows(users, users)'
    BY <1>1 DEF Follows
  <2>3. GuiTypeOK'
    BY <1>1, <1>2, <1>4, <2>1 DEF GuiInv, GuiTypeOK
  <2>4. ListInv'
    BY <1>1, <1>2, <1>4 DEF GuiInv, ListInv
  <2>5. FileInv'
    BY <1>1, <1>2, <1>4, <2>1, <2>2 DEF FileInv, NoNameTwice, Names
  <2>6. CASE starting
    <3>1. heap = <<>> /\ step' = "load"
      BY <1>3, <1>4, <2>6
    <3>2. ~Loading' /\ loader.at = "idle"
      BY <1>1, <1>3 DEF Loading
    <3>3. StartInv'
      BY <1>1, <1>4, <3>1, <3>2 DEF GuiInv, StartInv
    <3> QED BY <2>3, <2>4, <2>5, <3>3 DEF GuiInv
  <2>7. CASE ~starting
    <3>1. StartInv'
      BY <1>1, <1>3, <1>4, <2>7, StartKept DEF GuiInv
    <3> QED BY <2>3, <2>4, <2>5, <3>1 DEF GuiInv
  <2> QED BY <2>6, <2>7
<1>5. CASE step' = "loop" /\ UNCHANGED <<file, dirty>>
  <2>1. GuiTypeOK' /\ ListInv'
    BY <1>1, <1>5 DEF GuiInv, GuiTypeOK, ListInv
  <2>2. FileInv'
    BY <1>1, <1>5, FileKept DEF GuiInv
  <2>3. StartInv'
    BY <1>1, <1>3, <1>5, StartKept DEF GuiInv
  <2> QED BY <2>1, <2>2, <2>3 DEF GuiInv
<1> QED BY <1>4, <1>5 DEF EndSave, Collected

(* The end of start, and of the server.                                    *)
LEMMA ServerStep ==
  ASSUME GuiInv, LoadEnds \/ Listen \/ ListenFails \/ StopServer
  PROVE  GuiInv'
<1>1. /\ step \in {"load", "listen", "loop"} /\ step' \in {"listen", "loop"}
      /\ running' \in BOOLEAN /\ starting' = starting
      /\ UNCHANGED <<build, file, formVars>>
  BY DEF LoadEnds, Listen, ListenFails, StopServer, GuiInv, GuiTypeOK, configVars, GiveUp
<1>2. GuiTypeOK' /\ ListInv'
  BY <1>1 DEF GuiInv, GuiTypeOK, ListInv, formVars
<1>3. FileInv'
  BY <1>1, FileKept DEF GuiInv, formVars
<1>4. StartInv'
  <2>1. CASE GiveUp /\ step' = "loop"
    BY <2>1, GaveUp DEF GuiInv
  <2>2. CASE LoadEnds /\ result = "ok"
    <3>1. /\ step = "load" /\ step' = "listen" /\ ~Loading /\ result = "ok"
          /\ UNCHANGED <<configVars, starting, running, users, hash, dirty>>
      BY <2>2 DEF LoadEnds, formVars
    <3>2. UNCHANGED <<build, heap, loader, result>>
      BY <3>1 DEF configVars
    <3>3. heap # <<>> => Follows(Content.accesses, users)'
      BY <3>1, <3>2 DEF GuiInv, StartInv, Content, Last, Follows, Exempt, Wildcard, Recognised
    <3>4. ~Loading' /\ loader.at = "idle"
      BY <3>1, <3>2 DEF Loading
    <3> QED BY <3>1, <3>2, <3>3, <3>4 DEF GuiInv, StartInv
  <2>3. CASE Listen
    <3>1. /\ step' = "loop" /\ running' = TRUE /\ step = "listen"
          /\ UNCHANGED <<build, heap, loader>>
      BY <2>3 DEF Listen, configVars
    <3>2. ~Loading' /\ loader.at = "idle"
      BY <3>1 DEF GuiInv, StartInv, Loading
    <3> QED BY <3>1, <3>2 DEF GuiInv, StartInv
  <2> QED BY <2>1, <2>2, <2>3 DEF LoadEnds, ListenFails, StopServer
<1> QED BY <1>2, <1>3, <1>4 DEF GuiInv

-----------------------------------------------------------------------------
(* NewConfig, in a start: the steps of Config.                             *)

(* What it makes of the file is all that the rest of the invariant asks.   *)
LEMMA LoadingFrame ==
  ASSUME GuiInv, step = "load", UNCHANGED <<step, starting, running, formVars>>, StartInv',
         build' = build,
         \/ file' = file
         \/ file' = Broken
         \/ /\ file' \in FileType /\ file'.hash = hash
            /\ Follows(file'.accesses, users)
  PROVE  GuiInv'
<1>1. UNCHANGED <<users, hash, selected, asked, dirty>>
  BY DEF formVars
<1>2. /\ users # <<>> /\ users \in Seq(Entry) /\ Len(users) <= MaxUsers /\ NoNameTwice(users)
      /\ Names(users) \subseteq Users
  BY DEF GuiInv, GuiTypeOK, ListInv, FileInv
<1>3. CASE file' = file \/ file' = Broken
  <2>1. GuiTypeOK'
    BY <1>1, <1>3 DEF GuiInv, GuiTypeOK
  <2>2. ListInv'
    BY <1>1 DEF GuiInv, ListInv
  <2>3. FileInv'
    <3>1. CASE file' = file
      BY <1>1, <1>2, <3>1, FileKept DEF GuiInv
    <3>2. CASE file' = Broken
      BY <1>1, <1>2, <3>2 DEF FileInv
    <3> QED BY <1>3, <3>1, <3>2
  <2> QED BY <2>1, <2>2, <2>3 DEF GuiInv
<1>4. CASE file' \in FileType /\ file'.hash = hash /\ Follows(file'.accesses, users)
  <2>1. file'.accesses \in Seq(Entry) /\ file' # Broken
    BY <1>4, FilesAssumption DEF FileType
  <2>2. /\ Names(file'.accesses) = Names(users) /\ Len(file'.accesses) = Len(users)
        /\ NoNameTwice(file'.accesses) /\ file'.accesses # <<>>
    BY <1>2, <1>4, <2>1, FollowsNames
  <2>3. GuiTypeOK'
    BY <1>1, <2>2 DEF GuiInv, GuiTypeOK
  <2>4. ListInv'
    BY <1>1 DEF GuiInv, ListInv
  <2>5. Follows(file.accesses, users)'
    BY <1>1, <1>4 DEF Follows, Exempt, Wildcard, Recognised
  <2>6. FileInv'
    BY <1>1, <1>2, <1>4, <2>1, <2>2, <2>5 DEF FileInv, NoNameTwice, Names
  <2> QED BY <2>3, <2>4, <2>6 DEF GuiInv
<1> QED BY <1>3, <1>4

(* The content that start has loaded is typed, and follows the list.       *)
LEMMA LoadedTyped ==
  ASSUME GuiInv, step = "load", heap # <<>>
  PROVE  /\ Len(heap) \in Nat \ {0} /\ DOMAIN heap = 1 .. Len(heap)
         /\ Content = heap[Len(heap)] /\ Content \in ContentType
         /\ Content.accesses \in Seq(Entry)
         /\ DOMAIN Content.accesses = 1 .. Len(Content.accesses)
         /\ Follows(Content.accesses, users)
<1>1. heap \in Seq(ContentType) /\ Follows(Content.accesses, users)
  BY DEF GuiInv, StartInv
<1>2. Len(heap) \in Nat \ {0} /\ DOMAIN heap = 1 .. Len(heap)
  BY <1>1, EmptySeq, LenProperties
<1>3. Content = heap[Len(heap)]
  BY DEF Content, Last
<1>4. Content \in ContentType
  BY <1>1, <1>2, <1>3
<1>5. Content.accesses \in Seq(Entry)
  BY <1>4 DEF ContentType
<1> QED BY <1>1, <1>2, <1>3, <1>4, <1>5, LenProperties

(* Steps that leave the contents alone.                                    *)
LEMMA SameContent ==
  ASSUME GuiInv, step = "load", UNCHANGED <<step, starting, running, formVars>>, Loading,
         build' = build, heap' = heap, loader' \in LoaderType,
         loader'.at = "store" => /\ loader'.next \in DOMAIN Content.accesses
                                 /\ ~Exempt(Content.accesses[loader'.next])
  PROVE  StartInv'
<1>1. UNCHANGED <<users, hash, dirty>> /\ heap # <<>> /\ hash /\ ~dirty
  BY DEF formVars, GuiInv, StartInv
<1>2. Content' = Content
  BY DEF Content
<1>3. Follows(Content.accesses, users)'
  BY <1>1, <1>2, LoadedTyped DEF Follows, Exempt, Wildcard, Recognised
<1>4. loader'.at = "store" => ~Exempt(Content.accesses[loader.next])'
  BY <1>2 DEF Exempt, Wildcard, Recognised
<1> QED BY <1>1, <1>2, <1>3, <1>4 DEF GuiInv, StartInv

(* Steps that give them up.                                                *)
LEMMA NoContent ==
  ASSUME GuiInv, step = "load", UNCHANGED <<step, starting, running, formVars>>,
         build' = build, heap' = <<>>, loader' = Idle, result' # "ok"
  PROVE  StartInv'
<1>1. UNCHANGED dirty /\ ~dirty
  BY DEF formVars, GuiInv, StartInv
<1>2. ~Loading' /\ loader'.at = "idle" /\ <<>> \in Seq(ContentType) /\ loader' \in LoaderType
  BY DEF Loading, Idle, LoaderType
<1> QED BY <1>1, <1>2 DEF GuiInv, StartInv

(* The file is decoded.                                                    *)
LEMMA LoadedStep ==
  ASSUME GuiInv, step = "load", Load, UNCHANGED <<step, starting, running, formVars>>
  PROVE  GuiInv'
<1> DEFINE c == [accesses |-> file.accesses, loaded |-> file]
<1>1. /\ build = "local" /\ ~Loading /\ file # Broken /\ UNCHANGED <<build, file>>
      /\ heap' = Append(heap, c) /\ heap \in Seq(ContentType)
      /\ file \in FileType /\ ~dirty /\ Follows(file.accesses, users) /\ file.hash = hash
      /\ UNCHANGED <<users, hash, dirty>> /\ hash \in BOOLEAN
  BY DEF Load, GuiInv, GuiTypeOK, StartInv, FileInv, formVars
<1>2. c \in ContentType /\ c.accesses = file.accesses
  BY <1>1 DEF ContentType, FileType
<1> HIDE DEF c
<1>3. heap' \in Seq(ContentType) /\ heap' # <<>> /\ heap'[Len(heap')] = c
  BY <1>1, <1>2
<1>4. Content' = c
  BY <1>3 DEF Content, Last
<1>5. Follows(Content.accesses, users)'
  BY <1>1, <1>2, <1>4 DEF Follows, Exempt, Wildcard, Recognised
<1>6. \/ loader' = [Idle EXCEPT !.at = "hash"] /\ hash
      \/ loader' = Idle
  BY <1>1 DEF Load
<1>7. /\ loader' \in LoaderType
      /\ loader'.at \in {"idle", "hash"}
      /\ loader'.at = "hash" => hash
  <2>1. Idle.at = "idle" /\ Idle \in LoaderType
    BY DEF Idle, LoaderType
  <2>2. [Idle EXCEPT !.at = "hash"].at = "hash" /\ [Idle EXCEPT !.at = "hash"] \in LoaderType
    BY <2>1 DEF LoaderType
  <2>3. CASE loader' = [Idle EXCEPT !.at = "hash"] /\ hash
    BY <2>2, <2>3
  <2>4. CASE loader' = Idle
    BY <2>1, <2>4
  <2> QED BY <1>6, <2>3, <2>4
<1>8. StartInv'
  BY <1>1, <1>3, <1>5, <1>7 DEF GuiInv, StartInv, Loading
<1> QED BY <1>1, <1>8, LoadingFrame

(* An entry gets the hash of its password, or none does.                   *)
LEMMA HashedStep ==
  ASSUME GuiInv, step = "load", StoreEntry, UNCHANGED <<step, starting, running, formVars>>
  PROVE  GuiInv'
<1> DEFINE n == Len(heap)
           i == loader.next
           xs == Content.accesses
           b == Bcrypt(xs[i].pass)
           ys == [xs EXCEPT ![i].pass = b]
           d == [heap[n] EXCEPT !.accesses = ys]
<1>1. /\ loader.at = "store" /\ UNCHANGED <<build, file>> /\ build = "local" /\ Loading
      /\ heap # <<>> /\ hash /\ ~dirty /\ i \in DOMAIN xs /\ ~Exempt(xs[i])
      /\ UNCHANGED <<users, hash, dirty>> /\ users \in Seq(Entry)
  BY DEF StoreEntry, GuiInv, GuiTypeOK, StartInv, Loading, formVars
<1>2. /\ n \in Nat \ {0} /\ DOMAIN heap = 1 .. n /\ Content = heap[n] /\ Content \in ContentType
      /\ xs \in Seq(Entry) /\ DOMAIN xs = 1 .. Len(xs) /\ Follows(xs, users)
  BY <1>1, LoadedTyped
<1>3. /\ xs[i] \in Entry /\ Hashed(xs[i]) \in Entry /\ ys = [xs EXCEPT ![i] = Hashed(xs[i])]
      /\ i \in Nat \ {0}
  <2>1. xs[i] \in Entry /\ i \in Nat \ {0}
    BY <1>1, <1>2
  <2>2. ys = [xs EXCEPT ![i] = Hashed(xs[i])]
    BY <1>1 DEF Hashed
  <2> QED BY <2>1, <2>2, HashedTyped
<1>4. /\ ys \in Seq(Entry) /\ Len(ys) = Len(xs) /\ ys[i] = Hashed(xs[i])
      /\ \A j \in DOMAIN xs \ {i} : ys[j] = xs[j]
  <2> DEFINE e == Hashed(xs[i])
  <2>1. ys = [xs EXCEPT ![i] = e] /\ e \in Entry /\ xs \in Seq(Entry) /\ i \in DOMAIN xs
    BY <1>1, <1>2, <1>3
  <2> HIDE DEF e, ys, xs, i
  <2>2. ys \in Seq(Entry) /\ Len(ys) = Len(xs) /\ ys[i] = e
        /\ \A j \in DOMAIN xs \ {i} : ys[j] = xs[j]
    BY <2>1, Replaced
  <2> QED BY <2>2 DEF e
<1>5. Follows(ys, xs)
  BY <1>1, <1>4 DEF Follows
<1>6. Follows(ys, users)
  BY <1>1, <1>2, <1>4, <1>5, FollowsTwice
<1>7. heap' = [heap EXCEPT ![n] = d]
  <2>1. heap' = [heap EXCEPT ![n].accesses[i].pass = b]
    BY <1>2 DEF StoreEntry
  <2> QED BY <1>2, <2>1
<1>8. d \in ContentType /\ d.accesses = ys
  BY <1>2, <1>4 DEF ContentType
<1>9. loader' = [loader EXCEPT !.at = "hash", !.next = i + 1, !.save = TRUE, !.text = loader.text]
  BY <1>1 DEF StoreEntry, Saved
<1>10. /\ loader' \in LoaderType
       /\ loader'.at = "hash"
  <2>1. loader \in LoaderType
    BY DEF GuiInv, StartInv
  <2>2. i + 1 \in Nat \ {0}
    BY <1>3
  <2> HIDE DEF i
  <2> QED BY <1>9, <2>1, <2>2 DEF LoaderType
<1> HIDE DEF d, ys
<1>11. /\ heap' \in Seq(ContentType) /\ Len(heap') = n /\ heap'[n] = d /\ heap' # <<>>
  <2>1. heap \in Seq(ContentType) /\ n \in DOMAIN heap
    BY <1>2 DEF GuiInv, StartInv
  <2>2. heap' \in Seq(ContentType) /\ Len(heap') = n /\ heap'[n] = d
    BY <1>7, <1>8, <2>1, Replaced
  <2> QED BY <1>2, <2>2, EmptySeq
<1>12. Content' = d
  BY <1>11 DEF Content, Last
<1>13. Follows(Content.accesses, users)'
  BY <1>1, <1>6, <1>8, <1>12 DEF Follows, Exempt, Wildcard, Recognised
<1>14. StartInv'
  BY <1>1, <1>10, <1>11, <1>13 DEF GuiInv, StartInv
<1> QED BY <1>1, <1>14, LoadingFrame

(* The other steps of the hashing, and the write: what is written is what  *)
(* is in memory.                                                           *)
LEMMA HashingStep ==
  ASSUME GuiInv, step = "load", UNCHANGED <<step, starting, running, formVars>>,
         \/ SkipEntry \/ HashFails \/ HashEntry \/ HashingEnds \/ BeginWrite \/ EndWrite
  PROVE  GuiInv'
<1>1. Loading /\ build' = build /\ build = "local" /\ loader \in LoaderType
  BY DEF SkipEntry, HashFails, HashEntry, HashingEnds, BeginWrite, EndWrite, Hashing, Loading,
         GuiInv, StartInv
<1>2. heap # <<>> /\ hash
  BY <1>1 DEF GuiInv, StartInv
<1>3. /\ Content \in ContentType /\ Content.accesses \in Seq(Entry)
      /\ DOMAIN Content.accesses = 1 .. Len(Content.accesses) /\ Follows(Content.accesses, users)
  BY <1>2, LoadedTyped
<1>4. Idle \in LoaderType /\ Idle.at = "idle"
  BY DEF Idle, LoaderType
<1>5. CASE SkipEntry
  <2>1. /\ loader' = [loader EXCEPT !.next = loader.next + 1] /\ UNCHANGED <<file, heap>>
        /\ loader.at = "hash"
    BY <1>5 DEF SkipEntry, Hashing
  <2>2. loader' \in LoaderType /\ loader'.at # "store"
    BY <1>1, <2>1 DEF LoaderType
  <2>3. StartInv'
    BY <1>1, <2>1, <2>2, SameContent
  <2> QED BY <1>1, <2>1, <2>3, LoadingFrame
<1>6. CASE HashEntry
  <2>1. /\ loader' = [loader EXCEPT !.at = "store"] /\ UNCHANGED <<file, heap>>
        /\ loader.next <= Len(Content.accesses) /\ ~Exempt(Content.accesses[loader.next])
    BY <1>6 DEF HashEntry, Hashing
  <2>2. loader' \in LoaderType /\ loader'.next = loader.next
    BY <1>1, <2>1 DEF LoaderType
  <2>3. loader.next \in DOMAIN Content.accesses
    <3>1. loader.next \in Nat \ {0} /\ Len(Content.accesses) \in Nat
      BY <1>1, <1>3, LenProperties DEF LoaderType
    <3> QED BY <1>3, <2>1, <3>1
  <2>4. StartInv'
    BY <1>1, <2>1, <2>2, <2>3, SameContent
  <2> QED BY <1>1, <2>1, <2>4, LoadingFrame
<1>7. CASE Fail /\ (UNCHANGED file \/ file' = Broken)
  <2>1. loader' = Idle /\ result' = "failed" /\ (heap' = heap \/ heap' = <<>>)
    BY <1>7 DEF Fail
  <2>2. StartInv'
    <3>1. CASE heap' = heap
      BY <1>1, <1>4, <2>1, <3>1, SameContent
    <3>2. CASE heap' = <<>>
      BY <1>1, <2>1, <3>2, NoContent
    <3> QED BY <2>1, <3>1, <3>2
  <2> QED BY <1>1, <1>7, <2>2, LoadingFrame
<1>8. CASE \E at \in {"write", "writing"} :
             /\ loader' = [loader EXCEPT !.at = at] /\ heap' = heap
             /\ file' = file \/ file' = Broken
  <2>1. PICK at \in {"write", "writing"} : loader' = [loader EXCEPT !.at = at]
    BY <1>8
  <2>2. loader' \in LoaderType /\ loader'.at # "store"
    BY <1>1, <2>1 DEF LoaderType
  <2>3. StartInv'
    BY <1>1, <1>8, <2>2, SameContent
  <2> QED BY <1>1, <1>8, <2>3, LoadingFrame
<1>9. CASE Succeed /\ (file' = file \/ file' = [hash |-> TRUE, accesses |-> Content.accesses])
  <2>1. loader' = Idle /\ heap' = heap
    BY <1>9 DEF Succeed
  <2>2. StartInv'
    BY <1>1, <1>4, <2>1, SameContent
  <2>3. CASE file' = file
    BY <1>1, <2>2, <2>3, LoadingFrame
  <2>4. CASE file' = [hash |-> TRUE, accesses |-> Content.accesses]
    <3>1. file' \in FileType /\ file'.accesses = Content.accesses /\ file'.hash = TRUE
      BY <1>3, <2>4 DEF FileType
    <3>2. hash = TRUE
      BY <1>2 DEF GuiInv, GuiTypeOK
    <3> QED BY <1>1, <1>3, <2>2, <3>1, <3>2, LoadingFrame
  <2> QED BY <1>9, <2>3, <2>4
<1>10. CASE HashFails
  BY <1>7, <1>10 DEF HashFails
<1>11. CASE HashingEnds
  BY <1>8, <1>9, <1>11 DEF HashingEnds
<1>12. CASE BeginWrite
  BY <1>7, <1>8, <1>12 DEF BeginWrite
<1>13. CASE EndWrite
  BY <1>1, <1>7, <1>9, <1>13 DEF EndWrite
<1> QED BY <1>5, <1>6, <1>10, <1>11, <1>12, <1>13

(* A load that does not succeed is noticed before anything listens.        *)
LEMMA LoadConfigStep ==
  ASSUME GuiInv, LoadConfig
  PROVE  GuiInv'
BY LoadedStep, HashedStep, HashingStep DEF LoadConfig

-----------------------------------------------------------------------------
(* The theorems.                                                           *)

(* Every step keeps the invariant.                                         *)
LEMMA NextGui ==
  ASSUME GuiInv, [GuiNext]_allVars
  PROVE  GuiInv'
<1>1. CASE GuiNext
  BY <1>1, KillStep, BootStep, HandlerStep, SaveUserStep, AnswerStep, BeginSaveStep, EndSaveStep,
     LoadConfigStep, ServerStep
  DEF GuiNext
<1>2. CASE UNCHANGED allVars
  <2>1. GuiTypeOK' /\ ListInv'
    BY <1>2 DEF GuiInv, GuiTypeOK, ListInv, allVars, configVars, formVars
  <2>2. FileInv'
    BY <1>2 DEF GuiInv, FileInv, allVars, configVars, formVars, Follows, Exempt, Wildcard,
                Recognised
  <2>3. StartInv'
    BY <1>2 DEF GuiInv, StartInv, allVars, configVars, formVars, Follows, Exempt, Wildcard,
                Recognised, Loading, Content
  <2> QED BY <2>1, <2>2, <2>3 DEF GuiInv
<1> QED BY <1>1, <1>2

(* However the process is killed and started again, the list, the file and *)
(* what a start has loaded stay in step (main_windows.go:400-437).         *)
THEOREM GuiInvariance == GuiSpec => []GuiInv
<1>1. GuiInit => GuiInv
  BY InitGui
<1>2. GuiInv /\ [GuiNext]_allVars => GuiInv'
  BY NextGui
<1> QED BY <1>1, <1>2, PTL DEF GuiSpec

(* The window, its box and the file have their types                       *)
(* (main_windows.go:85-117).                                               *)
THEOREM WindowTyped == GuiSpec => []GuiTypeOK
<1>1. GuiInv => GuiTypeOK
  BY DEF GuiInv
<1> QED BY <1>1, GuiInvariance, PTL

(* A server starts with the users and passwords of the window, whatever    *)
(* the save, the load and the hashing did between, and however often       *)
(* (main_windows.go:410-437).                                              *)
THEOREM ServersServeTheWindow == GuiSpec => []StartServesTheWindow
<1>1. GuiInv => StartServesTheWindow
  <2> SUFFICES ASSUME GuiInv, step = "listen"
               PROVE  Same(Content.accesses, users) /\ NoNameTwice(Content.accesses)
    BY DEF StartServesTheWindow
  <2>1. /\ heap \in Seq(ContentType) /\ heap # <<>> /\ users \in Seq(Entry)
        /\ Follows(Content.accesses, users) /\ NoNameTwice(users)
    BY DEF GuiInv, GuiTypeOK, ListInv, StartInv
  <2>2. Len(heap) \in Nat \ {0} /\ DOMAIN heap = 1 .. Len(heap)
    BY <2>1, EmptySeq, LenProperties
  <2>3. Content \in ContentType
    BY <2>1, <2>2 DEF Content, Last
  <2>4. Content.accesses \in Seq(Entry)
    BY <2>3 DEF ContentType
  <2> QED BY <2>1, <2>4, FollowsSame, FollowsNames
<1> QED BY <1>1, GuiInvariance, PTL

(* While nothing was changed the file lets in whom the list does, hashed   *)
(* or not, and after a kill and a new start as well                        *)
(* (main_windows.go:116, 400).                                             *)
THEOREM FileMatchesWindow == GuiSpec => []WindowMatchesFile
<1>1. GuiInv => WindowMatchesFile
  <2> SUFFICES ASSUME GuiInv, step = "loop", ~dirty, file # Broken
               PROVE  /\ Same(file.accesses, users) /\ Names(file.accesses) = Names(users)
                      /\ file.hash = hash
    BY DEF WindowMatchesFile
  <2>1. /\ file \in FileType /\ Follows(file.accesses, users) /\ file.hash = hash
        /\ users \in Seq(Entry)
    BY DEF GuiInv, GuiTypeOK, FileInv
  <2>2. file.accesses \in Seq(Entry)
    BY <2>1 DEF FileType
  <2> QED BY <2>1, <2>2, FollowsSame, FollowsNames
<1> QED BY <1>1, GuiInvariance, PTL

(* Only the answer to the box takes a user from the list, and it takes the *)
(* one whom the box named (main_windows.go:549-556).                       *)
THEOREM DeletionsAreConfirmed == GuiSpec => DeletesWhatWasConfirmed
<1> DEFINE A == asked # NoBox /\ users' # users /\ step' # "off" =>
                  /\ Names(users') = Names(users) \ {asked.user}
                  /\ Len(users') = Len(users) - 1
<1>1. GuiInv /\ [GuiNext]_allVars => [A]_allVars
  <2> SUFFICES ASSUME GuiInv, GuiNext, asked # NoBox, users' # users, step' # "off"
               PROVE  /\ Names(users') = Names(users) \ {asked.user}
                      /\ Len(users') = Len(users) - 1
    OBVIOUS
  <2>1. ~Kill
    BY DEF Kill, NoProcess
  <2>2. ~Boot /\ ~SaveUser
    BY DEF GuiInv, ListInv, Boot, SaveUser, AtWindow
  <2>3. AnswerDelete
    BY <2>1, <2>2 DEF GuiNext, SelectUser, NewUser, AskDelete, AcceptDialog, PressSave, PressStart,
          SaveFails, BeginSave, EndSave, LoadConfig, LoadEnds, Listen, ListenFails, StopServer,
          formVars
  <2> QED BY <2>3, Confirmed
<1> QED BY <1>1, GuiInvariance, PTL DEF GuiSpec, DeletesWhatWasConfirmed

-----------------------------------------------------------------------------
(* GuiConfig implements Accounts, under the mapping of KeepsAccounts.      *)

(* Steps of the window leave the loader idle, and the file alone or broken.*)
LEMMA AwayFromStart ==
  ASSUME GuiInv, step' \in {"off", "loop", "save"}, loader' = loader \/ loader' = Idle,
         Loading => loader' = Idle
  PROVE  WriteInv'
<1>1. ~Loading' /\ loader'.at = "idle"
  BY DEF Loading, Idle
<1> QED BY <1>1 DEF WriteInv

(* The steps of a load keep the file until they write it.                  *)
LEMMA LoadConfigWrites ==
  ASSUME GuiInv, WriteInv, LoadConfig
  PROVE  WriteInv'
<1>1. /\ step = "load" /\ step' = "load" /\ ~running /\ running' = running
      /\ Broken \notin FileType
  BY FilesAssumption DEF LoadConfig, WriteInv
<1>2. Idle.at = "idle"
  BY DEF Idle
<1>3. loader \in LoaderType
  BY DEF GuiInv, StartInv
<1>4. CASE Load
  <2>1. /\ file # Broken /\ file' = file
        /\ \/ loader' = [Idle EXCEPT !.at = "hash"] /\ result' = "none"
           \/ loader' = Idle /\ result' = "ok"
    BY <1>4 DEF Load, GuiInv, StartInv
  <2>2. [Idle EXCEPT !.at = "hash"].at = "hash"
    BY DEF Idle
  <2>3. loader'.at # "writing" /\ (Loading' => result' = "none")
    BY <1>2, <2>1, <2>2 DEF Loading
  <2> QED BY <1>1, <2>1, <2>3 DEF WriteInv
<1>5. CASE /\ loader.at \in {"hash", "store"} /\ loader'.at # "writing"
           /\ file' = file /\ result' = result
  BY <1>1, <1>5 DEF WriteInv, Loading
<1>6. CASE /\ Succeed /\ file' # Broken
  BY <1>1, <1>2, <1>6 DEF WriteInv, Loading, Succeed
<1>7. CASE Fail
  BY <1>1, <1>2, <1>7 DEF WriteInv, Loading, Fail
<1>8. CASE SkipEntry
  BY <1>3, <1>5, <1>8 DEF SkipEntry, Hashing, LoaderType
<1>9. CASE HashFails
  BY <1>7, <1>9 DEF HashFails
<1>10. CASE HashEntry
  BY <1>3, <1>5, <1>10 DEF HashEntry, Hashing, LoaderType
<1>11. CASE StoreEntry
  <2>1. loader.at = "store" /\ loader'.at = "hash" /\ file' = file /\ result' = result
    BY <1>3, <1>11 DEF StoreEntry, LoaderType
  <2> QED BY <1>5, <2>1
<1>12. CASE HashingEnds
  <2>1. loader.at = "hash" /\ file' = file /\ result = "none"
    BY <1>12 DEF HashingEnds, WriteInv, Loading
  <2>2. CASE loader' = [loader EXCEPT !.at = "write"] /\ UNCHANGED result
    BY <1>3, <1>5, <2>1, <2>2 DEF LoaderType
  <2>3. CASE Succeed
    BY <1>1, <1>6, <2>1, <2>3 DEF WriteInv
  <2> QED BY <1>12, <2>2, <2>3 DEF HashingEnds
<1>13. CASE BeginWrite
  <2>1. CASE /\ file' = Broken /\ loader' = [loader EXCEPT !.at = "writing"]
             /\ UNCHANGED result
    <3>1. loader'.at = "writing" /\ result = "none"
      BY <1>3, <1>13, <2>1 DEF LoaderType, BeginWrite, WriteInv, Loading
    <3> QED BY <1>1, <2>1, <3>1 DEF WriteInv
  <2> QED BY <1>7, <1>13, <2>1 DEF BeginWrite
<1>14. CASE EndWrite
  <2>1. CASE /\ file' = [hash |-> TRUE, accesses |-> Content.accesses] /\ Succeed
    <3>1. heap # <<>>
      BY <1>14 DEF EndWrite, GuiInv, StartInv, Loading
    <3>2. Content.accesses \in Seq(Entry)
      BY <1>1, <3>1, LoadedTyped
    <3>3. file' \in FileType
      BY <2>1, <3>2 DEF FileType
    <3> QED BY <1>1, <1>6, <2>1, <3>3
  <2>2. build = "local"
    BY DEF GuiInv, StartInv
  <2> QED BY <1>7, <1>14, <2>1, <2>2 DEF EndWrite
<1> QED BY <1>4, <1>8, <1>9, <1>10, <1>11, <1>12, <1>13, <1>14 DEF LoadConfig

(* Every step keeps the file while a start needs it.                       *)
LEMMA NextWrites ==
  ASSUME GuiInv, WriteInv, [GuiNext]_allVars
  PROVE  WriteInv'
<1>1. CASE Kill \/ ListenFails \/ StopServer
  BY <1>1, AwayFromStart DEF Kill, NoProcess, ListenFails, StopServer, GiveUp
<1>2. CASE \/ Boot \/ SelectUser \/ NewUser \/ SaveUser \/ AskDelete \/ AnswerDelete
           \/ AcceptDialog \/ PressSave \/ PressStart \/ SaveFails
  <2>1. /\ step # "load" /\ step' \in {"loop", "save"} /\ loader' = loader
    BY <1>2 DEF Boot, SelectUser, NewUser, SaveUser, AskDelete, AnswerDelete, AcceptDialog,
                PressSave, PressStart, SaveFails, AtWindow, configVars
  <2>2. ~Loading
    BY <2>1 DEF GuiInv, StartInv
  <2> QED BY <2>1, <2>2, AwayFromStart
<1>3. CASE BeginSave
  <2>1. step' = "write" /\ file' = Broken /\ loader' = loader /\ ~Loading
    BY <1>3 DEF BeginSave, GuiInv, StartInv
  <2> QED BY <2>1 DEF WriteInv, Loading
<1>4. CASE EndSave
  <2>1. step = "write" /\ loader' = loader /\ running' = running /\ ~Loading
        /\ (starting => ~running)
    BY <1>4 DEF EndSave, GuiInv, StartInv
  <2>2. CASE step' = "loop"
    BY <2>1, <2>2, AwayFromStart
  <2>3. CASE step' = "load" /\ starting /\ file' = [hash |-> hash, accesses |-> users]
    <3>1. file' \in FileType /\ file' # Broken
      BY <2>3, FilesAssumption DEF FileType, GuiInv, GuiTypeOK
    <3> QED BY <2>1, <2>3, <3>1 DEF WriteInv, Loading
  <2> QED BY <1>4, <2>2, <2>3 DEF EndSave, Collected
<1>5. CASE LoadEnds
  <2>1. step = "load" /\ ~Loading /\ running' = running /\ ~running /\ file' = file
    BY <1>5 DEF LoadEnds, WriteInv, configVars, GiveUp
  <2>2. CASE result = "ok"
    <3>1. step' = "listen" /\ loader' = loader
      BY <1>5, <2>2 DEF LoadEnds, configVars
    <3> QED BY <2>1, <2>2, <3>1 DEF WriteInv, Loading
  <2>3. CASE result # "ok"
    BY <1>5, <2>3, AwayFromStart DEF LoadEnds, GiveUp
  <2> QED BY <2>2, <2>3
<1>6. CASE Listen
  <2>1. step' = "loop" /\ loader' = loader /\ ~Loading
    BY <1>6 DEF Listen, configVars, GuiInv, StartInv
  <2> QED BY <2>1, AwayFromStart
<1>7. CASE UNCHANGED allVars
  BY <1>7 DEF WriteInv, allVars, configVars, Loading
<1> QED BY <1>1, <1>2, <1>3, <1>4, <1>5, <1>6, <1>7, LoadConfigWrites DEF GuiNext

(* Accounts stay where nothing is changed.                                 *)
LEMMA TablesKept ==
  ASSUME build' = build
  PROVE  /\ users' = users => Table(users)' = Table(users)
         /\ file' = file => FileTable' = FileTable
         /\ running' = running /\ (running => heap' = heap) => ServerTable' = ServerTable
<1>1. users' = users => Table(users)' = Table(users)
  BY DEF Table, LetsIn, Accepts, Recognised, Wildcard
<1>2. file' = file => FileTable' = FileTable
  BY DEF FileTable, Table, LetsIn, Accepts, Recognised, Wildcard
<1>3. ASSUME running' = running, running => heap' = heap
      PROVE  ServerTable' = ServerTable
  <2>1. CASE running
    <3>1. Content' = Content
      BY <1>3, <2>1 DEF Content
    <3>2. Table(Content.accesses)' = Table(Content.accesses)
      BY <3>1 DEF Table, LetsIn, Accepts, Recognised, Wildcard
    <3> QED BY <1>3, <2>1, <3>2 DEF ServerTable
  <2>2. CASE ~running
    BY <1>3, <2>2 DEF ServerTable
  <2> QED BY <2>1, <2>2
<1> QED BY <1>1, <1>2, <1>3

(* Entries that follow others stand for the same accounts.                 *)
LEMMA FollowsTable ==
  ASSUME NEW xs \in Seq(Entry), NEW ys \in Seq(Entry), Follows(xs, ys)
  PROVE  Table(xs) = Table(ys)
<1>1. Same(xs, ys)
  BY FollowsSame
<1> QED BY <1>1 DEF Same, Table

(* A file that gets entries that follow the list has its accounts.         *)
LEMMA FileGetsTable ==
  ASSUME GuiInv, build' = build, users' = users, NEW h \in BOOLEAN, NEW xs \in Seq(Entry),
         Follows(xs, users), file' = [hash |-> h, accesses |-> xs]
  PROVE  FileTable' = {Table(users)}
<1>1. file' # Broken /\ file'.accesses = xs
  BY FilesAssumption DEF FileType
<1>2. FileTable' = {Table(xs)}
  BY <1>1 DEF FileTable, Table, LetsIn, Accepts, Recognised, Wildcard
<1>3. Table(xs) = Table(users)
  BY FollowsTable DEF GuiInv, GuiTypeOK
<1> QED BY <1>2, <1>3

(* At first no program runs.                                               *)
LEMMA InitAccounts == GuiInit => Promise!Init
BY DEF GuiInit, Promise!Init, Table, LetsIn, ServerTable

(* What a load does to the file is to lose it, or to save the accounts of  *)
(* the window.                                                             *)
LEMMA LoadConfigSaves ==
  ASSUME GuiInv, WriteInv, LoadConfig
  PROVE  Promise!Next
<1>1. /\ step = "load" /\ step' = "load" /\ ~running /\ running' = running /\ users' = users
      /\ build' = build
  BY DEF LoadConfig, WriteInv, formVars, Load, SkipEntry, HashFails, HashEntry, StoreEntry,
         HashingEnds, BeginWrite, EndWrite
<1>2. Table(users)' = Table(users) /\ ServerTable' = ServerTable
  BY <1>1, TablesKept
<1>3. CASE file' = file
  <2>1. Promise!Change
    BY <1>1, <1>2, <1>3, TablesKept DEF Promise!Change
  <2> QED BY <2>1 DEF Promise!Next
<1>4. CASE file' = Broken
  <2>1. Promise!Lose
    BY <1>1, <1>2, <1>4 DEF Promise!Lose, FileTable
  <2> QED BY <2>1 DEF Promise!Next
<1>5. CASE /\ loader.at = "writing"
           /\ file' = [hash |-> TRUE, accesses |-> Content.accesses]
  <2>1. heap # <<>> /\ file = Broken
    BY <1>5 DEF GuiInv, StartInv, Loading, WriteInv
  <2>2. Content.accesses \in Seq(Entry) /\ Follows(Content.accesses, users)
    BY <1>1, <2>1, LoadedTyped
  <2>3. FileTable' = {Table(users)}
    BY <1>1, <1>5, <2>2, FileGetsTable
  <2>4. Promise!Save
    BY <1>1, <1>2, <2>1, <2>3 DEF Promise!Save, FileTable
  <2> QED BY <2>4 DEF Promise!Next
<1>6. \/ file' = file \/ file' = Broken
      \/ loader.at = "writing" /\ file' = [hash |-> TRUE, accesses |-> Content.accesses]
  BY DEF LoadConfig, Load, SkipEntry, HashFails, HashEntry, StoreEntry, HashingEnds, BeginWrite,
         EndWrite, GuiInv, StartInv
<1> QED BY <1>3, <1>4, <1>5, <1>6

(* Every step is one of the accounts, or none.                             *)
LEMMA StepAccounts ==
  ASSUME GuiInv, WriteInv, [GuiNext]_allVars
  PROVE  [Promise!Next]_Promise!vars
<1>1. CASE Kill
  <2>1. /\ step # "off" /\ step' = "off" /\ users' = <<>> /\ running' = FALSE
        /\ UNCHANGED <<build, file>>
    BY <1>1 DEF Kill, NoProcess, GiveUp
  <2>2. Table(users)' = {} /\ ServerTable' = {} /\ FileTable' = FileTable
    BY <2>1, TablesKept DEF Table, LetsIn, ServerTable
  <2>3. Promise!End
    BY <2>1, <2>2 DEF Promise!End
  <2> QED BY <2>3 DEF Promise!Next
<1>2. CASE Boot
  <2>1. /\ step = "off" /\ step' = "loop" /\ UNCHANGED <<build, file, heap, running>>
        /\ users' = IF file = Broken THEN <<>> ELSE file.accesses
    BY <1>2 DEF Boot, configVars
  <2>2. FileTable' = FileTable /\ ServerTable' = ServerTable
    BY <2>1, TablesKept
  <2>3. Table(users)' = UNION FileTable
    <3>1. CASE file = Broken
      BY <2>1, <3>1 DEF FileTable, Table, LetsIn
    <3>2. CASE file # Broken
      BY <2>1, <3>2 DEF FileTable, Table, LetsIn, Accepts, Recognised, Wildcard
    <3> QED BY <3>1, <3>2
  <2>4. Promise!Open
    BY <2>1, <2>2, <2>3 DEF Promise!Open
  <2> QED BY <2>4 DEF Promise!Next
<1>3. CASE /\ step # "off" /\ step' # "off" /\ UNCHANGED <<build, file, running>>
           /\ running => heap' = heap
  <2>1. Promise!Change
    BY <1>3, TablesKept DEF Promise!Change
  <2> QED BY <2>1 DEF Promise!Next
<1>4. CASE \/ SelectUser \/ NewUser \/ SaveUser \/ AskDelete \/ AnswerDelete
           \/ AcceptDialog \/ PressSave \/ PressStart \/ SaveFails
  BY <1>3, <1>4 DEF SelectUser, NewUser, SaveUser, AskDelete, AnswerDelete, AcceptDialog,
        PressSave, PressStart, SaveFails, AtWindow, configVars
<1>5. CASE LoadEnds \/ ListenFails
  <2>1. ~running
    BY <1>5 DEF LoadEnds, ListenFails, WriteInv
  <2> QED BY <1>3, <1>5, <2>1 DEF LoadEnds, ListenFails, configVars, GiveUp
<1>6. CASE BeginSave
  <2>1. /\ step # "off" /\ step' # "off" /\ file' = Broken
        /\ UNCHANGED <<build, heap, running, users>>
    BY <1>6 DEF BeginSave, formVars
  <2>2. Promise!Lose
    BY <2>1, TablesKept DEF Promise!Lose, FileTable
  <2> QED BY <2>2 DEF Promise!Next
<1>7. CASE EndSave
  <2>1. /\ step = "write" /\ step' # "off" /\ UNCHANGED <<build, heap, running, users>>
    BY <1>7 DEF EndSave
  <2>2. CASE UNCHANGED file
    BY <1>3, <2>1, <2>2
  <2>3. CASE file' = [hash |-> hash, accesses |-> users]
    <3>1. users \in Seq(Entry) /\ hash \in BOOLEAN /\ file = Broken
      BY <2>1 DEF GuiInv, GuiTypeOK, WriteInv
    <3>2. Follows(users, users)
      BY DEF Follows
    <3>3. FileTable' = {Table(users)}
      BY <2>1, <2>3, <3>1, <3>2, FileGetsTable
    <3>4. Promise!Save
      BY <2>1, <3>1, <3>3, TablesKept DEF Promise!Save, FileTable
    <3> QED BY <3>4 DEF Promise!Next
  <2> QED BY <1>7, <2>2, <2>3 DEF EndSave, Collected
<1>8. CASE Listen
  <2>1. /\ step = "listen" /\ step' = "loop" /\ ~running /\ running' = TRUE
        /\ UNCHANGED <<build, file, heap, users>>
    BY <1>8 DEF Listen, WriteInv, configVars, formVars
  <2>2. Table(users)' = Table(users) /\ FileTable' = FileTable
    BY <2>1, TablesKept
  <2>3. users \in Seq(Entry)
    BY DEF GuiInv, GuiTypeOK
  <2>4. FileTable = {Table(users)}
    <3>1. file # Broken /\ file \in FileType /\ Follows(file.accesses, users)
      BY <2>1 DEF GuiInv, WriteInv, FileInv, StartInv
    <3>2. file.accesses \in Seq(Entry)
      BY <3>1 DEF FileType
    <3> QED BY <2>3, <3>1, <3>2, FollowsTable DEF FileTable
  <2>5. ServerTable' = {Table(users)}
    <3>1. heap # <<>> /\ heap \in Seq(ContentType) /\ Follows(Content.accesses, users)
      BY <2>1 DEF GuiInv, StartInv
    <3>2. Content \in ContentType
      <4>1. Len(heap) \in DOMAIN heap
        BY <3>1, EmptySeq, LenProperties
      <4> QED BY <3>1, <4>1 DEF Content, Last
    <3>3. Content.accesses \in Seq(Entry)
      BY <3>2 DEF ContentType
    <3>4. Table(Content.accesses) = Table(users)
      BY <2>3, <3>1, <3>3, FollowsTable
    <3>5. ServerTable' = {Table(Content.accesses)}
      BY <2>1 DEF ServerTable, Content, Table, LetsIn, Accepts, Recognised, Wildcard
    <3> QED BY <3>4, <3>5
  <2>6. Promise!Start
    BY <2>1, <2>2, <2>4, <2>5 DEF Promise!Start, ServerTable
  <2> QED BY <2>6 DEF Promise!Next
<1>9. CASE StopServer
  <2>1. /\ step = "loop" /\ step' = "loop" /\ running /\ running' = FALSE
        /\ UNCHANGED <<build, file, users>>
    BY <1>9 DEF StopServer, GiveUp, formVars
  <2>2. Promise!Stop
    BY <2>1, TablesKept DEF Promise!Stop, ServerTable
  <2> QED BY <2>2 DEF Promise!Next
<1>10. CASE UNCHANGED allVars
  <2>1. UNCHANGED <<build, users, file, running, heap, step>>
    BY <1>10 DEF allVars, configVars, formVars
  <2> QED BY <2>1, TablesKept DEF Promise!vars
<1>11. CASE LoadConfig
  BY <1>11, LoadConfigSaves
<1> QED BY <1>1, <1>2, <1>4, <1>5, <1>6, <1>7, <1>8, <1>9, <1>10, <1>11 DEF GuiNext

(* However saves and starts fail, and whenever the process is killed, the  *)
(* file only ever gets the accounts of the window, and a server those that *)
(* window and file agree on (main_windows.go:116, 391-437).                *)
THEOREM ImplementsAccounts == GuiSpec => KeepsAccounts
<1>1. GuiInit => WriteInv
  BY DEF GuiInit, WriteInv, Loading, Idle
<1>2. GuiInv /\ WriteInv /\ [GuiNext]_allVars => WriteInv'
  BY NextWrites
<1>3. GuiInv /\ WriteInv /\ [GuiNext]_allVars => [Promise!Next]_Promise!vars
  BY StepAccounts
<1> QED BY <1>1, <1>2, <1>3, GuiInvariance, InitAccounts, PTL
        DEF GuiSpec, KeepsAccounts, Promise!Spec
=============================================================================
