---------------------------- MODULE AccessProofs ----------------------------
(***************************************************************************)
(* What module Access guarantees for any number of sessions, any contents  *)
(* of the configuration file, and any number of reloads.                   *)
(***************************************************************************)
EXTENDS Access, TLAPS

-----------------------------------------------------------------------------
(* The access entries.                                                     *)

(* The pointer of a session, or its own answer, is an access.              *)
LEMMA AccessTyped ==
  ASSUME TypeOK, PointerInv, NEW s \in Sessions
  PROVE  Access(s) \in AccessType
<1>1. CASE session[s].gen = 0
  BY <1>1 DEF Access, TypeOK, SessionType
<1>2. CASE session[s].gen # 0
  <2>1. /\ session[s].gen \in 1 .. Len(heap)
        /\ session[s].entry \in DOMAIN heap[session[s].gen].accesses
    BY <1>2 DEF PointerInv
  <2>2. heap[session[s].gen] \in ContentType
    BY <2>1 DEF TypeOK
  <2>3. heap[session[s].gen].accesses \in Seq(AccessType)
    BY <2>2 DEF ContentType
  <2>4. heap[session[s].gen].accesses[session[s].entry] \in AccessType
    BY <2>1, <2>3
  <2> QED BY <1>2, <2>4 DEF Access
<1> QED BY <1>1, <1>2

(* The content that was loaded last is one.                                *)
LEMMA ContentTyped ==
  ASSUME TypeOK
  PROVE  /\ Len(heap) \in 1 .. Len(heap) /\ Len(heap) \in Nat
         /\ Content \in ContentType
         /\ Content.accesses \in Seq(AccessType)
<1>1. heap \in Seq(ContentType) /\ heap # <<>>
  BY DEF TypeOK
<1>2. Len(heap) \in Nat /\ Len(heap) \in 1 .. Len(heap)
  BY <1>1
<1>3. Content \in ContentType
  BY <1>1, <1>2 DEF Content
<1> QED BY <1>2, <1>3 DEF ContentType

(* Storing a user into an entry keeps the heap one (config.go:206).        *)
LEMMA UserStored ==
  ASSUME TypeOK, NEW g \in 1 .. Len(heap), NEW i \in DOMAIN heap[g].accesses, NEW u \in Names
  PROVE  /\ [heap EXCEPT ![g].accesses[i].user = u] \in Seq(ContentType)
         /\ Len([heap EXCEPT ![g].accesses[i].user = u]) = Len(heap)
<1> DEFINE a == [heap[g].accesses[i] EXCEPT !.user = u]
           as == [heap[g].accesses EXCEPT ![i] = a]
           c == [heap[g] EXCEPT !.accesses = as]
<1>1. heap \in Seq(ContentType)
  BY DEF TypeOK
<1>2. heap[g] \in ContentType /\ heap[g].accesses \in Seq(AccessType)
  <2>1. heap[g] \in ContentType
    BY <1>1
  <2> QED BY <2>1 DEF ContentType
<1>3. heap[g].accesses[i] \in AccessType
  BY <1>2
<1>4. a \in AccessType
  BY <1>3 DEF AccessType
<1>5. as \in Seq(AccessType)
  <2> HIDE DEF a
  <2> QED BY <1>2, <1>4
<1>6. c \in ContentType
  <2> HIDE DEF as
  <2> QED BY <1>2, <1>5 DEF ContentType
<1>7. [heap EXCEPT ![g] = c] \in Seq(ContentType) /\ Len([heap EXCEPT ![g] = c]) = Len(heap)
  <2> HIDE DEF c
  <2> QED BY <1>1, <1>6
<1> QED BY <1>7

(* And so does storing a password (config.go:207).                         *)
LEMMA PassStored ==
  ASSUME TypeOK, NEW g \in 1 .. Len(heap), NEW i \in DOMAIN heap[g].accesses,
         NEW p \in Passwords \cup {Undecodable}
  PROVE  /\ [heap EXCEPT ![g].accesses[i].pass = p] \in Seq(ContentType)
         /\ Len([heap EXCEPT ![g].accesses[i].pass = p]) = Len(heap)
<1> DEFINE a == [heap[g].accesses[i] EXCEPT !.pass = p]
           as == [heap[g].accesses EXCEPT ![i] = a]
           c == [heap[g] EXCEPT !.accesses = as]
<1>1. heap \in Seq(ContentType)
  BY DEF TypeOK
<1>2. heap[g] \in ContentType /\ heap[g].accesses \in Seq(AccessType)
  <2>1. heap[g] \in ContentType
    BY <1>1
  <2> QED BY <2>1 DEF ContentType
<1>3. heap[g].accesses[i] \in AccessType
  BY <1>2
<1>4. a \in AccessType
  BY <1>3 DEF AccessType
<1>5. as \in Seq(AccessType)
  <2> HIDE DEF a
  <2> QED BY <1>2, <1>4
<1>6. c \in ContentType
  <2> HIDE DEF as
  <2> QED BY <1>2, <1>5 DEF ContentType
<1>7. [heap EXCEPT ![g] = c] \in Seq(ContentType) /\ Len([heap EXCEPT ![g] = c]) = Len(heap)
  <2> HIDE DEF c
  <2> QED BY <1>1, <1>6
<1> QED BY <1>7

(* The contents that were loaded stay, with their entries, and whether an  *)
(* entry is shared, or a keycloak one, never changes.                      *)
LEMMA HeapKept ==
  ASSUME TypeOK, PointerInv, [Next]_vars
  PROVE  /\ heap' \in Seq(ContentType) /\ heap' # <<>>
         /\ Len(heap) <= Len(heap') /\ (Reload \/ Len(heap') = Len(heap))
         /\ \A g \in 1 .. Len(heap) :
              /\ DOMAIN heap'[g].accesses = DOMAIN heap[g].accesses
              /\ \A i \in DOMAIN heap[g].accesses :
                   /\ heap'[g].accesses[i].shared = heap[g].accesses[i].shared
                   /\ heap'[g].accesses[i].fs = heap[g].accesses[i].fs
                   /\ heap[g].accesses[i].fs # "keycloak" =>
                        heap'[g].accesses[i] = heap[g].accesses[i]
<1>0. heap \in Seq(ContentType) /\ heap # <<>> /\ Len(heap) \in Nat /\ Len(heap) # 0
  BY DEF TypeOK
<1>1. CASE heap' = heap
  BY <1>0, <1>1
<1>2. CASE Reload
  <2>1. PICK content \in Contents : heap' = Append(heap, content)
    BY <1>2 DEF Reload
  <2>2. content \in ContentType
    BY ContentsAssumption
  <2> QED BY <1>0, <1>2, <2>1, <2>2
<1>3. ASSUME NEW s \in Sessions, GetKeycloakAccess(s)
      PROVE  \E g \in 1 .. Len(heap) : \E i \in DOMAIN heap[g].accesses :
               /\ heap[g].accesses[i].fs = "keycloak"
               /\ \E u \in Names : heap' = [heap EXCEPT ![g].accesses[i].user = u]
  <2>1. PICK i \in Entries :
          /\ Content.accesses[i].fs = "keycloak"
          /\ heap' = [heap EXCEPT ![Len(heap)].accesses[i].user = session[s].user]
    BY <1>3 DEF GetKeycloakAccess
  <2>2. /\ i \in DOMAIN heap[Len(heap)].accesses
        /\ heap[Len(heap)].accesses[i].fs = "keycloak"
    BY <2>1 DEF Entries, Content
  <2>3. session[s].user \in Names
    BY DEF TypeOK, SessionType
  <2>4. Len(heap) \in 1 .. Len(heap)
    BY <1>0
  <2> QED BY <2>1, <2>2, <2>3, <2>4, Zenon
<1>4. ASSUME NEW g \in 1 .. Len(heap), NEW i \in DOMAIN heap[g].accesses, NEW u \in Names,
             heap[g].accesses[i].fs = "keycloak",
             heap' = [heap EXCEPT ![g].accesses[i].user = u]
      PROVE  /\ heap' \in Seq(ContentType) /\ heap' # <<>>
             /\ Len(heap') = Len(heap)
             /\ \A h \in 1 .. Len(heap) :
                  /\ DOMAIN heap'[h].accesses = DOMAIN heap[h].accesses
                  /\ \A j \in DOMAIN heap[h].accesses :
                       /\ heap'[h].accesses[j].shared = heap[h].accesses[j].shared
                       /\ heap'[h].accesses[j].fs = heap[h].accesses[j].fs
                       /\ heap[h].accesses[j].fs # "keycloak" =>
                            heap'[h].accesses[j] = heap[h].accesses[j]
  <2>1. heap' \in Seq(ContentType) /\ Len(heap') = Len(heap)
    BY <1>4, UserStored
  <2> QED BY <1>0, <1>4, <2>1 DEF ContentType, AccessType
<1>5. ASSUME NEW s \in Sessions, StorePass(s)
      PROVE  \E g \in 1 .. Len(heap) : \E i \in DOMAIN heap[g].accesses :
               /\ heap[g].accesses[i].fs = "keycloak"
               /\ \E p \in Passwords \cup {Undecodable} :
                    heap' = [heap EXCEPT ![g].accesses[i].pass = p]
  <2>1. /\ session[s].gen \in 1 .. Len(heap)
        /\ session[s].entry \in DOMAIN heap[session[s].gen].accesses
        /\ heap[session[s].gen].accesses[session[s].entry].fs = "keycloak"
    BY <1>5 DEF StorePass, PointerInv, Access
  <2>2. session[s].pass \in Passwords \cup {Undecodable}
    BY DEF TypeOK, SessionType
  <2> QED BY <1>5, <2>1, <2>2 DEF StorePass
<1>6. ASSUME NEW g \in 1 .. Len(heap), NEW i \in DOMAIN heap[g].accesses,
             NEW p \in Passwords \cup {Undecodable},
             heap[g].accesses[i].fs = "keycloak",
             heap' = [heap EXCEPT ![g].accesses[i].pass = p]
      PROVE  /\ heap' \in Seq(ContentType) /\ heap' # <<>>
             /\ Len(heap') = Len(heap)
             /\ \A h \in 1 .. Len(heap) :
                  /\ DOMAIN heap'[h].accesses = DOMAIN heap[h].accesses
                  /\ \A j \in DOMAIN heap[h].accesses :
                       /\ heap'[h].accesses[j].shared = heap[h].accesses[j].shared
                       /\ heap'[h].accesses[j].fs = heap[h].accesses[j].fs
                       /\ heap[h].accesses[j].fs # "keycloak" =>
                            heap'[h].accesses[j] = heap[h].accesses[j]
  <2>1. heap' \in Seq(ContentType) /\ Len(heap') = Len(heap)
    BY <1>6, PassStored
  <2> QED BY <1>0, <1>6, <2>1 DEF ContentType, AccessType
<1>7. \/ heap' = heap \/ Reload
      \/ \E s \in Sessions : GetKeycloakAccess(s) \/ StorePass(s)
  BY DEF Next, Step, vars, AuthUser, AskWebhook, WebhookFails, WebhookAnswers, GetAccessFails,
         GetAccess, UseCached, MissCache, LoadFails, LoadOs, CheckPasswd, LoadKeycloak, StoreFs
<1> QED
  <2>1. CASE \E s \in Sessions : GetKeycloakAccess(s)
    BY <2>1, <1>3, <1>4
  <2>2. CASE \E s \in Sessions : StorePass(s)
    BY <2>2, <1>5, <1>6
  <2> QED BY <1>1, <1>2, <1>7, <2>1, <2>2

(* While a session keeps its pointer, what it points to keeps its kind.    *)
LEMMA AccessKept ==
  ASSUME TypeOK, PointerInv, [Next]_vars, NEW s \in Sessions,
         session'[s].gen = session[s].gen, session'[s].entry = session[s].entry,
         session'[s].own = session[s].own
  PROVE  Access(s)'.shared = Access(s).shared /\ Access(s)'.fs = Access(s).fs
<1>1. CASE session[s].gen = 0
  BY <1>1 DEF Access
<1>2. CASE session[s].gen # 0
  <2>1. session[s].gen \in 1 .. Len(heap) /\ session[s].entry \in DOMAIN heap[session[s].gen].accesses
    BY <1>2 DEF PointerInv
  <2> QED BY <1>2, <2>1, HeapKept DEF Access
<1> QED BY <1>1, <1>2

-----------------------------------------------------------------------------
(* The parts of the inductive invariant.                                   *)

(* The invariant holds before anybody logs in.                             *)
LEMMA InitIInv == Init => IInv
<1> SUFFICES ASSUME Init PROVE IInv
  OBVIOUS
<1>1. PICK content \in Contents : heap = <<content>>
  BY DEF Init
<1>2. heap \in Seq(ContentType) /\ heap # <<>>
  BY <1>1, ContentsAssumption
<1>3. NoAccess \in AccessType
  BY BasesAssumption DEF NoAccess, AccessType, Names
<1>4. TypeOK
  BY <1>2, <1>3, NamesAssumption
  DEF Init, TypeOK, SessionType, LockHeld, Phases, Holding, Names
<1>5. PointerInv /\ LoadedInv /\ PrivateInv
  BY DEF Init, PointerInv, LoadedInv, PrivateInv, Loaded
<1> QED BY <1>4, <1>5 DEF IInv

(* Moving to another phase keeps a session one.                            *)
LEMMA GotoTyped ==
  ASSUME TypeOK, NEW s \in Sessions, NEW phase \in Phases, Goto(s, phase)
  PROVE  /\ session' \in [Sessions -> SessionType]
         /\ session'[s] = [session[s] EXCEPT !.at = phase]
         /\ \A t \in Sessions \ {s} : session'[t] = session[t]
<1>1. session \in [Sessions -> SessionType] /\ session[s] \in SessionType
  BY DEF TypeOK
<1>2. [session[s] EXCEPT !.at = phase] \in SessionType
  BY <1>1 DEF SessionType
<1>3. session' = [session EXCEPT ![s] = [session[s] EXCEPT !.at = phase]]
  BY DEF Goto
<1> QED BY <1>1, <1>2, <1>3

(* Every step keeps the types, and the mutex with the session that loads.  *)
LEMMA NextType == IInv /\ [Next]_vars => TypeOK'
<1> SUFFICES ASSUME IInv, [Next]_vars PROVE TypeOK'
  OBVIOUS
<1> USE DEF IInv
<1>0. heap' \in Seq(ContentType) /\ heap' # <<>>
  BY HeapKept
<1>1. CASE UNCHANGED vars
  BY <1>0, <1>1 DEF TypeOK, LockHeld, vars
<1>2. CASE Reload
  BY <1>0, <1>2 DEF TypeOK, LockHeld, Reload
<1>3. ASSUME NEW s \in Sessions, AuthUser(s) PROVE TypeOK'
  <2>1. session' \in [Sessions -> SessionType]
    BY <1>3 DEF TypeOK, SessionType, Phases, Names, AuthUser
  <2>2. LockHeld'
    BY <1>3 DEF TypeOK, SessionType, LockHeld, Holding, AuthUser
  <2> QED BY <1>0, <1>3, <2>1, <2>2 DEF TypeOK, AuthUser
<1>4. ASSUME NEW s \in Sessions, Step(s) PROVE TypeOK'
  <2>0. Access(s) \in AccessType /\ Access(s).user \in Names
    BY AccessTyped DEF AccessType
  <2>1. CASE AskWebhook(s)
    <3>1. PICK phase \in Phases : Goto(s, phase)
      BY <2>1 DEF AskWebhook, Phases
    <3>2. session' \in [Sessions -> SessionType]
      BY <3>1, GotoTyped
    <3>3. LockHeld'
      BY <2>1 DEF TypeOK, SessionType, LockHeld, Holding, AskWebhook, Goto
    <3> QED BY <1>0, <2>1, <3>2, <3>3 DEF TypeOK, AskWebhook, Goto
  <2>2. CASE WebhookFails(s)
    <3>1. PICK phase \in Phases : Goto(s, phase)
      BY <2>2 DEF WebhookFails, Phases
    <3>2. session' \in [Sessions -> SessionType]
      BY <3>1, GotoTyped
    <3>3. LockHeld'
      BY <2>2 DEF TypeOK, SessionType, LockHeld, Holding, WebhookFails, Goto
    <3> QED BY <1>0, <2>2, <3>2, <3>3 DEF TypeOK, WebhookFails, Goto
  <2>3. CASE WebhookAnswers(s)
    <3>1. \A a \in WebAnswers : a \in AccessType
      BY WebAnswersAssumption
    <3>2. session' \in [Sessions -> SessionType]
      <4>1. PICK a \in WebAnswers : session' = [session EXCEPT ![s].own = a, ![s].at = "loadFs"]
        BY <2>3 DEF WebhookAnswers
      <4>2. a \in AccessType
        BY <3>1
      <4>3. session[s] \in SessionType
        BY DEF TypeOK
      <4>4. [session[s] EXCEPT !.own = a, !.at = "loadFs"] \in SessionType
        BY <4>2, <4>3 DEF SessionType, Phases
      <4> QED BY <4>1, <4>4 DEF TypeOK
    <3>3. LockHeld'
      BY <2>3, <3>1 DEF TypeOK, SessionType, LockHeld, Holding, WebhookAnswers
    <3> QED BY <1>0, <2>3, <3>1, <3>2, <3>3 DEF TypeOK, WebhookAnswers
  <2>4. CASE GetAccessFails(s)
    <3>1. PICK phase \in Phases : Goto(s, phase)
      BY <2>4 DEF GetAccessFails, Phases
    <3>2. session' \in [Sessions -> SessionType]
      BY <3>1, GotoTyped
    <3>3. LockHeld'
      BY <2>4 DEF TypeOK, SessionType, LockHeld, Holding, GetAccessFails, Goto
    <3> QED BY <1>0, <2>4, <3>2, <3>3 DEF TypeOK, GetAccessFails, Goto
  <2>5. CASE GetAccess(s)
    <3>1. Len(heap) \in Nat /\ \A i \in Entries : i \in Nat
      BY ContentTyped DEF Entries
    <3>2. session' \in [Sessions -> SessionType]
      <4>1. PICK i \in Entries :
              session' = [session EXCEPT ![s].gen = Len(heap), ![s].entry = i, ![s].at = "loadFs"]
        BY <2>5 DEF GetAccess
      <4>2. session[s] \in SessionType
        BY DEF TypeOK
      <4>3. [session[s] EXCEPT !.gen = Len(heap), !.entry = i, !.at = "loadFs"] \in SessionType
        BY <3>1, <4>2 DEF SessionType, Phases
      <4> QED BY <4>1, <4>3 DEF TypeOK
    <3>3. LockHeld'
      BY <2>5, <3>1 DEF TypeOK, SessionType, LockHeld, Holding, GetAccess
    <3> QED BY <1>0, <2>5, <3>1, <3>2, <3>3 DEF TypeOK, GetAccess
  <2>6. CASE GetKeycloakAccess(s)
    <3>1. Len(heap) \in Nat /\ \A i \in Entries : i \in Nat
      BY ContentTyped DEF Entries
    <3>2. session' \in [Sessions -> SessionType]
      <4>1. PICK i \in Entries :
              session' = [session EXCEPT ![s].gen = Len(heap), ![s].entry = i, ![s].at = "storePass"]
        BY <2>6 DEF GetKeycloakAccess
      <4>2. session[s] \in SessionType
        BY DEF TypeOK
      <4>3. [session[s] EXCEPT !.gen = Len(heap), !.entry = i, !.at = "storePass"] \in SessionType
        BY <3>1, <4>2 DEF SessionType, Phases
      <4> QED BY <4>1, <4>3 DEF TypeOK
    <3>3. LockHeld'
      BY <2>6, <3>1 DEF TypeOK, SessionType, LockHeld, Holding, GetKeycloakAccess
    <3> QED BY <1>0, <2>6, <3>1, <3>2, <3>3 DEF TypeOK, GetKeycloakAccess
  <2>7. CASE StorePass(s)
    <3>1. PICK phase \in Phases : Goto(s, phase)
      BY <2>7 DEF StorePass, Phases
    <3>2. session' \in [Sessions -> SessionType]
      BY <3>1, GotoTyped
    <3>3. LockHeld'
      BY <2>7 DEF TypeOK, SessionType, LockHeld, Holding, StorePass, Goto
    <3> QED BY <1>0, <2>7, <3>2, <3>3 DEF TypeOK, StorePass, Goto
  <2>8. CASE UseCached(s)
    <3>1. cache[Access(s).user] \in FsType \cup {NoFs}
      BY <2>0 DEF TypeOK
    <3>2. session' \in [Sessions -> SessionType]
      BY <2>8, <3>1 DEF TypeOK, SessionType, Phases, UseCached
    <3>3. LockHeld'
      BY <2>8, <3>1 DEF TypeOK, SessionType, LockHeld, Holding, UseCached
    <3> QED BY <1>0, <2>8, <3>1, <3>2, <3>3 DEF TypeOK, UseCached
  <2>9. CASE MissCache(s)
    <3>1. PICK phase \in Phases : Goto(s, phase)
      BY <2>9, NamesAssumption DEF MissCache, Phases
    <3>2. session' \in [Sessions -> SessionType]
      BY <3>1, GotoTyped
    <3>3. LockHeld'
      BY <2>9, NamesAssumption DEF TypeOK, SessionType, LockHeld, Holding, MissCache, Goto
    <3> QED BY <1>0, <2>9, <3>2, <3>3, NamesAssumption DEF TypeOK, MissCache, Goto
  <2>10. CASE LoadFails(s)
    <3>1. PICK phase \in Phases : Goto(s, phase)
      BY <2>10, NamesAssumption DEF LoadFails, Phases
    <3>2. session' \in [Sessions -> SessionType]
      BY <3>1, GotoTyped
    <3>3. LockHeld'
      BY <2>10, NamesAssumption DEF TypeOK, SessionType, LockHeld, Holding, LoadFails, Goto
    <3> QED BY <1>0, <2>10, <3>2, <3>3, NamesAssumption DEF TypeOK, LoadFails, Goto
  <2>11. CASE CheckPasswd(s)
    <3>1. PICK phase \in Phases : Goto(s, phase)
      BY <2>11 DEF CheckPasswd, Phases
    <3>2. session' \in [Sessions -> SessionType]
      BY <3>1, GotoTyped
    <3>3. LockHeld'
      BY <2>11 DEF TypeOK, SessionType, LockHeld, Holding, CheckPasswd, Goto
    <3> QED BY <1>0, <2>11, <3>2, <3>3 DEF TypeOK, CheckPasswd, Goto
  <2>12. CASE LoadOs(s)
    <3>1. NewFs(s, Nobody) \in FsType /\ loads + 1 \in Nat
      BY <2>0 DEF TypeOK, NewFs, FsType, AccessType, Names
    <3>2. session' \in [Sessions -> SessionType]
      BY <2>12, <3>1 DEF TypeOK, SessionType, Phases, LoadOs
    <3>3. LockHeld'
      BY <2>12, <3>1 DEF TypeOK, SessionType, LockHeld, Holding, LoadOs
    <3> QED BY <1>0, <2>12, <3>1, <3>2, <3>3 DEF TypeOK, LoadOs
  <2>13. CASE LoadKeycloak(s)
    <3>1. NewFs(s, Access(s).user) \in FsType /\ loads + 1 \in Nat
      BY <2>0 DEF TypeOK, NewFs, FsType, AccessType, Names
    <3>2. session' \in [Sessions -> SessionType]
      BY <2>13, <3>1 DEF TypeOK, SessionType, Phases, LoadKeycloak
    <3>3. LockHeld'
      BY <2>13, <3>1 DEF TypeOK, SessionType, LockHeld, Holding, LoadKeycloak
    <3> QED BY <1>0, <2>13, <3>1, <3>2, <3>3 DEF TypeOK, LoadKeycloak
  <2>14. CASE StoreFs(s)
    <3>1. session[s].fs \in FsType \cup {NoFs}
      BY DEF TypeOK, SessionType
    <3>2. PICK phase \in Phases : Goto(s, phase)
      BY <2>14, <3>1, <2>0, NamesAssumption DEF StoreFs, Phases
    <3>3. session' \in [Sessions -> SessionType]
      BY <3>2, GotoTyped
    <3>4. LockHeld'
      BY <2>14, <3>1, <2>0, NamesAssumption DEF TypeOK, SessionType, LockHeld, Holding, StoreFs, Goto
    <3> QED BY <1>0, <2>14, <3>1, <3>3, <3>4, <2>0, NamesAssumption DEF TypeOK, StoreFs, Goto
  <2> QED
    BY <1>4, <2>1, <2>2, <2>3, <2>4, <2>5, <2>6, <2>7, <2>8, <2>9, <2>10, <2>11, <2>12, <2>13, <2>14
    DEF Step
<1> QED BY <1>1, <1>2, <1>3, <1>4 DEF Next

(* A step of one session leaves the others alone.                          *)
LEMMA OthersKept ==
  ASSUME TypeOK, NEW s \in Sessions, AuthUser(s) \/ Step(s)
  PROVE  \A t \in Sessions \ {s} : session'[t] = session[t]
BY DEF TypeOK, Step, Goto, AuthUser, AskWebhook, WebhookFails, WebhookAnswers, GetAccessFails,
       GetAccess, GetKeycloakAccess, StorePass, UseCached, MissCache, LoadFails, LoadOs,
       CheckPasswd, LoadKeycloak, StoreFs

(* Who does not move the pointer of a session keeps it good.               *)
LEMMA PointerKept ==
  ASSUME TypeOK, PointerInv, [Next]_vars, NEW s \in Sessions,
         session'[s].gen = session[s].gen, session'[s].entry = session[s].entry
  PROVE  session'[s].gen # 0 =>
           /\ session'[s].gen \in 1 .. Len(heap')
           /\ session'[s].entry \in DOMAIN heap'[session'[s].gen].accesses
<1> SUFFICES ASSUME session[s].gen # 0
             PROVE  /\ session[s].gen \in 1 .. Len(heap')
                    /\ session[s].entry \in DOMAIN heap'[session[s].gen].accesses
  OBVIOUS
<1>1. session[s].gen \in 1 .. Len(heap) /\ session[s].entry \in DOMAIN heap[session[s].gen].accesses
  BY DEF PointerInv
<1>2. Len(heap) \in Nat /\ Len(heap') \in Nat
  BY HeapKept DEF TypeOK
<1> QED BY <1>1, <1>2, HeapKept

(* Every step keeps the pointers of the sessions good.                     *)
LEMMA NextPointer == IInv /\ [Next]_vars => PointerInv'
<1> SUFFICES ASSUME IInv, [Next]_vars, NEW t \in Sessions
             PROVE  /\ session'[t].gen # 0 =>
                         /\ session'[t].gen \in 1 .. Len(heap')
                         /\ session'[t].entry \in DOMAIN heap'[session'[t].gen].accesses
                    /\ session'[t].at = "storePass" =>
                         session'[t].gen # 0 /\ Access(t)'.fs = "keycloak"
  BY DEF PointerInv
<1> USE DEF IInv
<1>1. CASE session'[t] = session[t]
  BY <1>1, PointerKept, AccessKept DEF PointerInv
<1>2. ASSUME AuthUser(t) \/ Step(t),
             session'[t].at # "storePass", session'[t].gen = session[t].gen,
             session'[t].entry = session[t].entry
      PROVE  session'[t].gen # 0 =>
               /\ session'[t].gen \in 1 .. Len(heap')
               /\ session'[t].entry \in DOMAIN heap'[session'[t].gen].accesses
  BY <1>2, PointerKept
<1>3. CASE GetAccess(t) \/ GetKeycloakAccess(t)
  <2>1. PICK i \in DOMAIN Content.accesses :
          /\ session'[t].gen = Len(heap) /\ session'[t].entry = i
          /\ \/ session'[t].at = "loadFs"
             \/ session'[t].at = "storePass" /\ Content.accesses[i].fs = "keycloak"
    <3>1. CASE GetAccess(t)
      BY <3>1 DEF GetAccess, Entries, TypeOK, SessionType
    <3>2. CASE GetKeycloakAccess(t)
      BY <3>2 DEF GetKeycloakAccess, Entries, TypeOK, SessionType
    <3> QED BY <1>3, <3>1, <3>2
  <2>2. Len(heap) \in 1 .. Len(heap) /\ Len(heap) \in Nat /\ Len(heap') \in Nat
        /\ Len(heap) <= Len(heap')
    BY ContentTyped, HeapKept
  <2>3. i \in DOMAIN heap'[Len(heap)].accesses
        /\ heap'[Len(heap)].accesses[i].fs = Content.accesses[i].fs
    BY <2>2, HeapKept DEF Content
  <2> QED BY <2>1, <2>2, <2>3 DEF Access
<1>4. CASE /\ AuthUser(t) \/ Step(t)
           /\ ~GetAccess(t) /\ ~GetKeycloakAccess(t)
  <2>1. /\ session'[t].at # "storePass" /\ session'[t].gen = session[t].gen
        /\ session'[t].entry = session[t].entry
    <3>1. session[t] \in SessionType
      BY DEF TypeOK
    <3>2. CASE AuthUser(t) \/ AskWebhook(t) \/ WebhookFails(t) \/ WebhookAnswers(t)
      <4>1. CASE AuthUser(t)
        BY <3>1, <4>1 DEF TypeOK, SessionType, AuthUser
      <4>2. CASE WebhookAnswers(t)
        BY <3>1, <4>2 DEF TypeOK, SessionType, WebhookAnswers
      <4>3. CASE AskWebhook(t) \/ WebhookFails(t)
        BY <3>1, <4>3 DEF TypeOK, SessionType, Goto, AskWebhook, WebhookFails
      <4> QED BY <3>2, <4>1, <4>2, <4>3
    <3>3. CASE GetAccessFails(t) \/ StorePass(t) \/ UseCached(t) \/ MissCache(t)
      BY <3>1, <3>3 DEF TypeOK, SessionType, Goto, GetAccessFails, StorePass, UseCached, MissCache
    <3>4. CASE LoadFails(t) \/ LoadOs(t) \/ CheckPasswd(t) \/ LoadKeycloak(t) \/ StoreFs(t)
      BY <3>1, <3>4 DEF TypeOK, SessionType, Goto, LoadFails, LoadOs, CheckPasswd, LoadKeycloak, StoreFs
    <3> QED BY <1>4, <3>2, <3>3, <3>4 DEF Step
  <2> QED BY <1>2, <1>4, <2>1
<1>5. session'[t] = session[t] \/ AuthUser(t) \/ Step(t)
  BY OthersKept DEF Next, vars, Reload
<1> QED BY <1>1, <1>3, <1>4, <1>5

(* The steps that neither load nor store nor use a file system.            *)
LEMMA QuietStep ==
  ASSUME TypeOK, [Next]_vars,
         \A s \in Sessions : ~UseCached(s) /\ ~LoadOs(s) /\ ~LoadKeycloak(s) /\ ~StoreFs(s)
  PROVE  /\ cache' = cache /\ loads' = loads
         /\ \A t \in Sessions :
              /\ session'[t].fs = session[t].fs
              /\ Loaded(t)' <=> Loaded(t)
              /\ Loaded(t) => session'[t] = session[t]
<1>1. CASE UNCHANGED vars \/ Reload
  BY <1>1 DEF vars, Reload, Loaded
<1>2. ASSUME NEW s \in Sessions, AuthUser(s) \/ Step(s)
      PROVE  /\ cache' = cache /\ loads' = loads
             /\ session'[s].fs = session[s].fs
             /\ ~Loaded(s) /\ ~Loaded(s)'
  <2>1. session[s] \in SessionType
    BY DEF TypeOK
  <2>2. CASE AuthUser(s) \/ AskWebhook(s) \/ WebhookFails(s) \/ WebhookAnswers(s)
    <3>1. CASE AuthUser(s)
      BY <2>1, <3>1 DEF TypeOK, SessionType, Loaded, AuthUser
    <3>2. CASE WebhookAnswers(s)
      BY <2>1, <3>2 DEF TypeOK, SessionType, Loaded, WebhookAnswers
    <3>3. CASE AskWebhook(s) \/ WebhookFails(s)
      BY <2>1, <3>3 DEF TypeOK, SessionType, Goto, Loaded, AskWebhook, WebhookFails
    <3> QED BY <2>2, <3>1, <3>2, <3>3
  <2>3. CASE GetAccessFails(s) \/ GetAccess(s) \/ GetKeycloakAccess(s)
    <3>1. CASE GetAccessFails(s)
      BY <2>1, <3>1 DEF TypeOK, SessionType, Goto, Loaded, GetAccessFails
    <3>2. CASE GetAccess(s)
      BY <2>1, <3>2 DEF TypeOK, SessionType, Loaded, GetAccess
    <3>3. CASE GetKeycloakAccess(s)
      BY <2>1, <3>3 DEF TypeOK, SessionType, Loaded, GetKeycloakAccess
    <3> QED BY <2>3, <3>1, <3>2, <3>3
  <2>4. CASE StorePass(s) \/ MissCache(s) \/ LoadFails(s) \/ CheckPasswd(s)
    BY <2>1, <2>4
    DEF TypeOK, SessionType, Goto, Loaded, StorePass, MissCache, LoadFails, CheckPasswd
  <2> QED BY <1>2, <2>2, <2>3, <2>4 DEF Step
<1>3. ASSUME NEW s \in Sessions, AuthUser(s) \/ Step(s)
      PROVE  /\ cache' = cache /\ loads' = loads
             /\ \A t \in Sessions :
                  /\ session'[t].fs = session[t].fs
                  /\ Loaded(t)' <=> Loaded(t)
                  /\ Loaded(t) => session'[t] = session[t]
  BY <1>2, <1>3, OthersKept DEF Loaded
<1> QED BY <1>1, <1>3 DEF Next

(* Every step keeps file systems numbered, and the cache to shared ones.   *)
LEMMA NextLoaded == IInv /\ [Next]_vars => LoadedInv'
<1> SUFFICES ASSUME IInv, [Next]_vars PROVE LoadedInv'
  OBVIOUS
<1> USE DEF IInv
<1>0. loads \in Nat /\ session \in [Sessions -> SessionType]
  BY DEF TypeOK
<1>1. CASE \A s \in Sessions : ~UseCached(s) /\ ~LoadOs(s) /\ ~LoadKeycloak(s) /\ ~StoreFs(s)
  <2>1. ASSUME NEW t \in Sessions, session'[t].at = "store"
        PROVE  session'[t].fs.shared = Access(t)'.shared
    <3>1. session'[t] = session[t]
      BY <1>1, <2>1, QuietStep DEF Loaded
    <3> QED BY <2>1, <3>1, AccessKept DEF LoadedInv
  <2> QED BY <1>1, <2>1, QuietStep DEF LoadedInv
<1>2. ASSUME NEW s \in Sessions, UseCached(s) PROVE LoadedInv'
  <2>1. /\ session'[s].fs = cache[Access(s).user] /\ session'[s].at = "serving"
        /\ cache[Access(s).user] # NoFs /\ Access(s).user \in Names
        /\ UNCHANGED <<heap, cache, loads>>
    BY <1>0, <1>2, AccessTyped DEF UseCached, SessionType, AccessType
  <2>2. \A t \in Sessions \ {s} : session'[t] = session[t] /\ Access(t)' = Access(t)
    BY <1>2, <2>1, OthersKept DEF Step, Access
  <2> QED BY <2>1, <2>2 DEF LoadedInv, Loaded
<1>3. ASSUME NEW s \in Sessions, NEW u \in Names, loads' = loads + 1,
             session' = [session EXCEPT ![s].fs = NewFs(s, u), ![s].at = "store"],
             UNCHANGED <<heap, cache>>
      PROVE  LoadedInv'
  <2>1. NewFs(s, u) \in FsType /\ NewFs(s, u).id = loads /\ NewFs(s, u).shared = Access(s).shared
    BY <1>0, AccessTyped DEF NewFs, FsType, AccessType
  <2>2. /\ session'[s].fs = NewFs(s, u) /\ session'[s].gen = session[s].gen
        /\ session'[s].entry = session[s].entry /\ session'[s].own = session[s].own
        /\ \A t \in Sessions \ {s} : session'[t] = session[t]
    BY <1>0, <1>3 DEF SessionType
  <2>3. \A t \in Sessions : Access(t)' = Access(t)
    <3>1. \A t \in Sessions : /\ session'[t].gen = session[t].gen
                             /\ session'[t].entry = session[t].entry
                             /\ session'[t].own = session[t].own
      BY <2>2
    <3>2. heap' = heap
      BY <1>3
    <3> QED BY <3>1, <3>2 DEF Access
  <2>4. ASSUME NEW f \in FsType, f.id < loads PROVE f.id < loads'
    BY <1>0, <1>3, <2>4 DEF FsType
  <2>5. \A t \in Sessions : Loaded(t)' => session'[t].fs # NoFs /\ session'[t].fs.id < loads'
    <3>1. session'[s].fs # NoFs /\ session'[s].fs.id < loads'
      BY <1>0, <1>3, <2>1, <2>2, NamesAssumption
    <3>2. \A t \in Sessions \ {s} : Loaded(t) =>
            session[t].fs \in FsType /\ session[t].fs # NoFs /\ session[t].fs.id < loads
      BY <1>0 DEF LoadedInv, SessionType
    <3> QED BY <2>2, <2>4, <3>1, <3>2 DEF Loaded
  <2>6. \A v \in Names : cache'[v] # NoFs => cache'[v].shared /\ cache'[v].id < loads'
    <3>1. \A v \in Names : cache[v] # NoFs => cache[v] \in FsType
      BY DEF TypeOK
    <3> QED BY <1>3, <2>4, <3>1 DEF LoadedInv
  <2>7. \A t \in Sessions : session'[t].at = "store" => session'[t].fs.shared = Access(t)'.shared
    BY <2>1, <2>2, <2>3 DEF LoadedInv
  <2> QED BY <2>5, <2>6, <2>7 DEF LoadedInv
<1>4. ASSUME NEW s \in Sessions, LoadOs(s) \/ LoadKeycloak(s) PROVE LoadedInv'
  <2>1. Nobody \in Names /\ Access(s).user \in Names
    BY AccessTyped DEF AccessType, Names
  <2>2. CASE LoadOs(s)
    BY <2>1, <2>2, <1>3 DEF LoadOs
  <2>3. CASE LoadKeycloak(s)
    BY <2>1, <2>3, <1>3 DEF LoadKeycloak
  <2> QED BY <1>4, <2>2, <2>3
<1>5. ASSUME NEW s \in Sessions, StoreFs(s) PROVE LoadedInv'
  <2>1. /\ session'[s].fs = session[s].fs /\ session'[s].at = "serving"
        /\ session[s].at = "store" /\ UNCHANGED <<heap, loads>>
    BY <1>0, <1>5 DEF StoreFs, Goto, SessionType
  <2>2. \A t \in Sessions \ {s} : session'[t] = session[t] /\ Access(t)' = Access(t)
    BY <1>5, <2>1, OthersKept DEF Step, Access
  <2>3. \A v \in Names : \/ cache'[v] = cache[v]
                         \/ cache'[v] = session[s].fs /\ session[s].fs.shared
    BY <1>5, <2>1 DEF StoreFs, TypeOK, LoadedInv
  <2> QED BY <2>1, <2>2, <2>3 DEF LoadedInv, Loaded
<1> QED BY <1>1, <1>2, <1>4, <1>5

(* Every step keeps file systems that are not shared apart.                *)
LEMMA NextPrivate == IInv /\ [Next]_vars => PrivateInv'
<1> SUFFICES ASSUME IInv, [Next]_vars PROVE PrivateInv'
  OBVIOUS
<1> USE DEF IInv
<1>0. loads \in Nat /\ session \in [Sessions -> SessionType]
  BY DEF TypeOK
<1>1. CASE \A s \in Sessions : ~UseCached(s) /\ ~LoadOs(s) /\ ~LoadKeycloak(s) /\ ~StoreFs(s)
  BY <1>1, QuietStep DEF PrivateInv
<1>2. ASSUME NEW s \in Sessions, UseCached(s) PROVE PrivateInv'
  <2>1. /\ session'[s].fs = cache[Access(s).user] /\ session'[s].at = "serving"
        /\ cache[Access(s).user] # NoFs /\ Access(s).user \in Names
        /\ cache' = cache
    BY <1>0, <1>2, AccessTyped DEF UseCached, SessionType, AccessType
  <2>2. \A t \in Sessions \ {s} : session'[t] = session[t]
    BY <1>2, OthersKept DEF Step
  <2> QED BY <2>1, <2>2 DEF LoadedInv, PrivateInv, Loaded
<1>3. ASSUME NEW s \in Sessions, LoadOs(s) \/ LoadKeycloak(s) PROVE PrivateInv'
  <2>1. session'[s].fs.id = loads /\ cache' = cache
    BY <1>0, <1>3 DEF LoadOs, LoadKeycloak, SessionType, NewFs
  <2>2. \A t \in Sessions \ {s} : session'[t] = session[t]
    BY <1>3, OthersKept DEF Step
  <2>3. \A t \in Sessions : Loaded(t) => session[t].fs.id # loads
    <3>1. \A t \in Sessions : Loaded(t) => session[t].fs.id \in Nat /\ session[t].fs.id < loads
      BY <1>0 DEF LoadedInv, SessionType, FsType
    <3> QED BY <1>0, <3>1
  <2>4. \A u \in Names : cache[u] # NoFs => cache[u].id # loads
    <3>1. \A u \in Names : cache[u] # NoFs => cache[u].id \in Nat /\ cache[u].id < loads
      BY DEF LoadedInv, TypeOK, FsType
    <3> QED BY <1>0, <3>1
  <2> QED BY <2>1, <2>2, <2>3, <2>4 DEF PrivateInv, Loaded
<1>4. ASSUME NEW s \in Sessions, StoreFs(s) PROVE PrivateInv'
  <2>1. /\ session'[s].fs = session[s].fs /\ Loaded(s) /\ session[s].at = "store"
    BY <1>0, <1>4 DEF StoreFs, Goto, SessionType, Loaded
  <2>2. \A t \in Sessions \ {s} : session'[t] = session[t]
    BY <1>4, OthersKept DEF Step
  <2>3. \A v \in Names : \/ cache'[v] = cache[v]
                         \/ cache'[v] = session[s].fs /\ session[s].fs.shared
    BY <1>4, <2>1 DEF StoreFs, TypeOK, LoadedInv
  <2>4. \A t \in Sessions : session'[t].fs = session[t].fs /\ (Loaded(t)' => Loaded(t))
    BY <2>1, <2>2 DEF Loaded
  <2> QED BY <2>1, <2>3, <2>4 DEF PrivateInv
<1> QED BY <1>1, <1>2, <1>3, <1>4

-----------------------------------------------------------------------------
(* The inductive invariant, in every reachable state.                      *)
THEOREM Invariance == Spec => []IInv
<1>1. IInv /\ [Next]_vars => IInv'
  BY NextType, NextPointer, NextLoaded, NextPrivate DEF IInv
<1> QED BY <1>1, InitIInv, PTL DEF Spec

(* The state of the logins keeps its types, and the mutex of the cache is  *)
(* held by the one session between lookup and store (server.go:187-206).   *)
THEOREM TypeCorrect == Spec => []TypeOK
<1>1. IInv => TypeOK
  BY DEF IInv
<1> QED BY <1>1, Invariance, PTL

(* However logins and reloads interleave, a file system that is not shared *)
(* has one session (server.go:201).                                        *)
THEOREM PrivateIsPrivate == Spec => []PrivateFsHasOneSession
<1>1. IInv => PrivateFsHasOneSession
  BY DEF IInv, PrivateInv, PrivateFsHasOneSession, Serving, Loaded
<1> QED BY <1>1, Invariance, PTL

-----------------------------------------------------------------------------
(* The cache of shared file systems, in configurations that share no       *)
(* keycloak entry: there the user of a shared entry never changes.         *)

(* No step makes a keycloak entry a shared one.                            *)
LEMMA NextNotShared ==
  ASSUME \A c \in Contents : KeycloakNotShared(c)
  PROVE  IInv /\ SharedInv /\ [Next]_vars =>
           (\A g \in 1 .. Len(heap) : KeycloakNotShared(heap[g]))'
<1> SUFFICES ASSUME IInv, SharedInv, [Next]_vars, NEW g \in 1 .. Len(heap')
             PROVE  KeycloakNotShared(heap'[g])
  OBVIOUS
<1>0. heap \in Seq(ContentType)
  BY DEF IInv, TypeOK
<1>1. CASE Reload
  <2>1. PICK content \in Contents : heap' = Append(heap, content)
    BY <1>1 DEF Reload
  <2>2. Len(heap) \in Nat /\ Len(heap') = Len(heap) + 1 /\ heap'[Len(heap) + 1] = content
        /\ \A h \in 1 .. Len(heap) : heap'[h] = heap[h]
    BY <1>0, <2>1, ContentsAssumption
  <2>3. g = Len(heap) + 1 \/ g \in 1 .. Len(heap)
    BY <2>2
  <2> QED BY <2>2, <2>3 DEF SharedInv
<1>2. CASE Len(heap') = Len(heap)
  BY <1>2, HeapKept DEF IInv, SharedInv, KeycloakNotShared
<1> QED BY <1>1, <1>2, HeapKept DEF IInv

(* What a session reaches through a shared entry never changes.            *)
LEMMA SharedKept ==
  ASSUME IInv, SharedInv, [Next]_vars, NEW s \in Sessions,
         session'[s].gen = session[s].gen, session'[s].entry = session[s].entry,
         session'[s].own = session[s].own, Access(s)'.shared
  PROVE  Access(s).shared /\ Access(s)' = Access(s)
<1>1. Access(s).shared
  BY AccessKept DEF IInv
<1>2. CASE session[s].gen = 0
  BY <1>2, <1>1 DEF Access
<1>3. CASE session[s].gen # 0
  <2>1. session[s].gen \in 1 .. Len(heap) /\ session[s].entry \in DOMAIN heap[session[s].gen].accesses
    BY <1>3 DEF IInv, PointerInv
  <2>2. heap[session[s].gen].accesses[session[s].entry].fs # "keycloak"
    BY <1>1, <1>3, <2>1 DEF SharedInv, KeycloakNotShared, Access
  <2> QED BY <1>1, <1>3, <2>1, <2>2, HeapKept DEF Access, IInv
<1> QED BY <1>2, <1>3

(* Every step keeps the cache what the sessions of a user have.            *)
LEMMA NextCache == IInv /\ SharedInv /\ [Next]_vars => CacheInv'
<1> SUFFICES ASSUME IInv, SharedInv, [Next]_vars, NEW t \in Sessions, Access(t)'.shared
             PROVE  /\ Serving(t)' => session'[t].fs = cache'[Access(t)'.user]
                    /\ session'[t].at \in Holding => cache'[Access(t)'.user] = NoFs
  BY DEF CacheInv
<1>0. session \in [Sessions -> SessionType] /\ session[t] \in SessionType
      /\ cache \in [Names -> FsType \cup {NoFs}]
  BY DEF IInv, TypeOK
<1>1. CASE session'[t] = session[t] /\ cache' = cache
  BY <1>1, SharedKept DEF SharedInv, CacheInv, Serving
<1>2. CASE session'[t] = session[t] /\ \E s \in Sessions \ {t} : StoreFs(s)
  <2>1. PICK s \in Sessions \ {t} : StoreFs(s)
    BY <1>2
  <2>2. Access(t).shared /\ Access(t)' = Access(t)
    BY <1>2, SharedKept
  <2>3. session[s].at \in Holding /\ cacheLock = s /\ session[t].at \notin Holding
    BY <2>1 DEF StoreFs, Holding, IInv, TypeOK, LockHeld
  <2>4. CASE cache' = cache
    BY <1>1, <1>2, <2>4
  <2>5. CASE Access(s).shared /\ cache' = [cache EXCEPT ![Access(s).user] = session[s].fs]
    <3>1. cache[Access(s).user] = NoFs
      BY <2>3, <2>5 DEF SharedInv, CacheInv
    <3>2. Serving(t) => cache[Access(t).user] = session[t].fs /\ session[t].fs # NoFs
      BY <2>2 DEF SharedInv, CacheInv, IInv, LoadedInv, Loaded, Serving
    <3>3. Serving(t) => cache'[Access(t).user] = cache[Access(t).user]
      BY <1>0, <2>5, <3>1, <3>2
    <3> QED BY <1>2, <2>2, <2>3, <3>2, <3>3 DEF Serving
  <2> QED BY <2>1, <2>4, <2>5 DEF StoreFs
<1>3. CASE StoreFs(t)
  <2>1. /\ session'[t].gen = session[t].gen /\ session'[t].entry = session[t].entry
        /\ session'[t].own = session[t].own /\ session'[t].fs = session[t].fs
        /\ session'[t].at = "serving"
    BY <1>0, <1>3 DEF StoreFs, Goto, SessionType
  <2>2. Access(t).shared /\ Access(t)' = Access(t) /\ Access(t).user \in Names
    BY <2>1, SharedKept, AccessTyped DEF IInv, AccessType
  <2>3. cache'[Access(t).user] = session[t].fs
    BY <1>0, <1>3, <2>2 DEF StoreFs
  <2> QED BY <2>1, <2>2, <2>3 DEF Holding, Serving
<1>4. CASE UseCached(t)
  <2>1. /\ session'[t].gen = session[t].gen /\ session'[t].entry = session[t].entry
        /\ session'[t].own = session[t].own /\ session'[t].fs = cache[Access(t).user]
        /\ session'[t].at = "serving" /\ cache' = cache
    BY <1>0, <1>4 DEF UseCached, SessionType
  <2> QED BY <2>1, SharedKept DEF Holding, Serving
<1>5. CASE MissCache(t)
  <2>1. /\ session'[t].gen = session[t].gen /\ session'[t].entry = session[t].entry
        /\ session'[t].own = session[t].own /\ cache[Access(t).user] = NoFs
        /\ session'[t].at # "serving" /\ cache' = cache
    BY <1>0, <1>5 DEF MissCache, Goto, SessionType
  <2> QED BY <2>1, SharedKept DEF Serving
<1>6. CASE LoadOs(t) \/ CheckPasswd(t) \/ LoadKeycloak(t)
  <2>1. /\ session'[t].gen = session[t].gen /\ session'[t].entry = session[t].entry
        /\ session'[t].own = session[t].own /\ session[t].at \in Holding
        /\ session'[t].at # "serving" /\ cache' = cache
    BY <1>0, <1>6 DEF LoadOs, CheckPasswd, LoadKeycloak, Goto, SessionType, Holding
  <2> QED BY <2>1, SharedKept DEF SharedInv, CacheInv, Serving
<1>7. CASE AuthUser(t) \/ AskWebhook(t) \/ WebhookFails(t) \/ WebhookAnswers(t)
  <2>1. CASE AuthUser(t)
    BY <1>0, <2>1 DEF AuthUser, Serving, Holding, SessionType
  <2>2. CASE WebhookAnswers(t)
    BY <1>0, <2>2 DEF WebhookAnswers, Serving, Holding, SessionType
  <2>3. CASE AskWebhook(t) \/ WebhookFails(t)
    BY <1>0, <2>3 DEF AskWebhook, WebhookFails, Goto, Serving, Holding, SessionType
  <2> QED BY <1>7, <2>1, <2>2, <2>3
<1>8. CASE GetAccessFails(t) \/ GetAccess(t) \/ GetKeycloakAccess(t) \/ StorePass(t) \/ LoadFails(t)
  <2>1. CASE GetAccess(t)
    BY <1>0, <2>1 DEF GetAccess, Serving, Holding, SessionType
  <2>2. CASE GetKeycloakAccess(t)
    BY <1>0, <2>2 DEF GetKeycloakAccess, Serving, Holding, SessionType
  <2>3. CASE GetAccessFails(t) \/ StorePass(t) \/ LoadFails(t)
    BY <1>0, <2>3 DEF GetAccessFails, StorePass, LoadFails, Goto, Serving, Holding, SessionType
  <2> QED BY <1>8, <2>1, <2>2, <2>3
<1>9. \/ session'[t] = session[t] /\ cache' = cache
      \/ session'[t] = session[t] /\ \E s \in Sessions \ {t} : StoreFs(s)
      \/ AuthUser(t) \/ Step(t)
  <2>1. CASE UNCHANGED vars \/ Reload
    BY <2>1 DEF vars, Reload
  <2>2. CASE \E s \in Sessions \ {t} : AuthUser(s) \/ Step(s)
    <3>1. PICK s \in Sessions \ {t} : AuthUser(s) \/ Step(s)
      BY <2>2
    <3>2. session'[t] = session[t]
      BY <3>1, OthersKept DEF IInv
    <3>3. cache' = cache \/ StoreFs(s)
      BY <3>1 DEF AuthUser, Step, AskWebhook, WebhookFails, WebhookAnswers, GetAccessFails,
                  GetAccess, GetKeycloakAccess, StorePass, UseCached, MissCache, LoadFails,
                  LoadOs, CheckPasswd, LoadKeycloak
    <3> QED BY <3>2, <3>3
  <2> QED BY <2>1, <2>2 DEF Next
<1> QED BY <1>1, <1>2, <1>3, <1>4, <1>5, <1>6, <1>7, <1>8, <1>9 DEF Step

(* Both parts hold before anybody logs in.                                 *)
LEMMA InitShared ==
  ASSUME \A c \in Contents : KeycloakNotShared(c)
  PROVE  Init => SharedInv /\ OwnInv
<1> SUFFICES ASSUME Init PROVE SharedInv /\ OwnInv
  OBVIOUS
<1>1. PICK content \in Contents : heap = <<content>>
  BY DEF Init
<1>2. \A g \in 1 .. Len(heap) : KeycloakNotShared(heap[g])
  BY <1>1
<1>3. CacheInv
  BY DEF Init, CacheInv, Access, NoAccess
<1>4. OwnInv
  BY DEF Init, OwnInv, Loaded, Holding
<1> QED BY <1>2, <1>3, <1>4 DEF SharedInv

(* However the logins of a user interleave, and however often the          *)
(* configuration is reloaded, the sessions served through shared entries   *)
(* of a user use one file system (server.go:191-204), as long as no        *)
(* keycloak entry is marked shared.                                        *)
THEOREM SharedIsLoadedOnce ==
  ASSUME \A c \in Contents : KeycloakNotShared(c)
  PROVE  Spec => []SharedLoadedOnce
<1>1. Init => SharedInv
  BY InitShared
<1>2. IInv /\ SharedInv /\ [Next]_vars => SharedInv'
  BY NextCache, NextNotShared DEF SharedInv
<1>3. SharedInv => SharedLoadedOnce
  BY DEF SharedInv, CacheInv, SharedLoadedOnce
<1> QED BY <1>1, <1>2, <1>3, Invariance, PTL DEF Spec
-----------------------------------------------------------------------------
(* Whose file systems are served, in the same configurations.              *)

(* An entry that no login writes to stays what it is (config.go:198-210).  *)
LEMMA FixedKept ==
  ASSUME TypeOK, PointerInv, [Next]_vars, NEW s \in Sessions,
         session'[s].gen = session[s].gen, session'[s].entry = session[s].entry,
         session'[s].own = session[s].own, Fixed(s)'
  PROVE  Fixed(s) /\ Access(s)' = Access(s)
<1>1. CASE session[s].gen = 0
  BY <1>1 DEF Access, Fixed
<1>2. CASE session[s].gen # 0
  <2>1. session[s].gen \in 1 .. Len(heap) /\ session[s].entry \in DOMAIN heap[session[s].gen].accesses
    BY <1>2 DEF PointerInv
  <2>2. Access(s).fs # "keycloak"
    BY <1>2, AccessKept DEF Fixed
  <2>3. heap'[session[s].gen].accesses[session[s].entry]
          = heap[session[s].gen].accesses[session[s].entry]
    BY <1>2, <2>1, <2>2, HeapKept DEF Access
  <2> QED BY <1>2, <2>2, <2>3 DEF Access, Fixed
<1> QED BY <1>1, <1>2

(* What a step of a session that does not search for its entry keeps of it.*)
SamePointer(s) ==
  /\ session'[s].user = session[s].user /\ session'[s].gen = session[s].gen
  /\ session'[s].entry = session[s].entry /\ session'[s].own = session[s].own

(* Only the end of a load writes to the cache.                             *)
LEMMA CacheWriters ==
  ASSUME [Next]_vars
  PROVE  cache' = cache \/ \E s \in Sessions : StoreFs(s)
BY DEF Next, vars, Reload, AuthUser, Step, AskWebhook, WebhookFails, WebhookAnswers,
       GetAccessFails, GetAccess, GetKeycloakAccess, StorePass, UseCached, MissCache, LoadFails,
       LoadOs, CheckPasswd, LoadKeycloak

(* What the cache has stays in it: a shared file system is only stored     *)
(* where there is none.                                                    *)
LEMMA CacheStays ==
  ASSUME IInv, SharedInv, [Next]_vars, NEW u \in Names, cache[u] # NoFs
  PROVE  cache'[u] = cache[u]
<1>1. ASSUME NEW s \in Sessions, StoreFs(s)
      PROVE  cache'[u] = cache[u]
  <2>1. Access(s).shared => cache[Access(s).user] = NoFs
    BY <1>1 DEF StoreFs, SharedInv, CacheInv, Holding
  <2>2. cache \in [Names -> FsType \cup {NoFs}]
    BY DEF IInv, TypeOK
  <2> QED BY <1>1, <2>1, <2>2 DEF StoreFs
<1> QED BY <1>1, CacheWriters

(* What OwnInv says of the access of a session, and of what it has loaded. *)
EntryOf(s) ==
  session[s].at \in Holding \cup {"loadFs", "serving"} /\ Fixed(s) =>
    /\ session[s].gen # 0 =>
         Access(s).user = session[s].user /\ Access(s).pass = session[s].pass
    /\ session[s].at = "load" => Access(s).fs # "keycloak"
    /\ session[s].at \in {"checkPasswd", "joinPath"} => Access(s).fs = "keycloak"

OwnOf(s) ==
  /\ session[s].at \in {"idle", "webhook", "asked", "local"} => session[s].gen = 0
  /\ EntryOf(s)
  /\ Loaded(s) /\ Fixed(s) =>
       \/ LoadedFrom(session[s].fs, Access(s))
       \/ Serving(s) /\ session[s].fs = cache[Access(s).user]

(* What a session goes on with in the next step of loadFs is its access    *)
(* still, if that step is one for such an access.                          *)
LEMMA EntryMoves ==
  ASSUME IInv, OwnInv, [Next]_vars, NEW s \in Sessions, SamePointer(s),
         session'[s].pass = session[s].pass,
         session[s].at \in Holding \cup {"loadFs", "serving"},
         session'[s].at = "load" => Access(s).fs # "keycloak",
         session'[s].at \in {"checkPasswd", "joinPath"} => Access(s).fs = "keycloak"
  PROVE  /\ EntryOf(s)'
         /\ Fixed(s)' => Fixed(s) /\ Access(s)' = Access(s)
<1>1. Fixed(s)' => Fixed(s) /\ Access(s)' = Access(s)
  BY FixedKept DEF IInv, SamePointer
<1> QED BY <1>1 DEF OwnInv, EntryOf, SamePointer

(* A session that moves on between two steps of loadFs without loading, or *)
(* that does nothing, keeps what OwnInv says of it.                        *)
LEMMA OwnMoves ==
  ASSUME IInv, SharedInv, OwnInv, [Next]_vars, NEW s \in Sessions, SamePointer(s),
         session'[s].fs = session[s].fs, session'[s].pass = session[s].pass,
         \/ session'[s].at = session[s].at
         \/ session'[s].at = "refused"
         \/ /\ session[s].at \in Holding \cup {"loadFs"}
            /\ session'[s].at \in Holding \cup {"serving"}
            /\ Loaded(s)' => session[s].at = "store"
            /\ session'[s].at = "load" => Access(s).fs # "keycloak"
            /\ session'[s].at \in {"checkPasswd", "joinPath"} => Access(s).fs = "keycloak"
  PROVE  OwnOf(s)'
<1>1. OwnOf(s)
  BY DEF OwnInv, OwnOf, EntryOf
<1>2. Fixed(s)' => Fixed(s) /\ Access(s)' = Access(s)
  BY FixedKept DEF IInv, SamePointer
<1>3. CASE session'[s].at = session[s].at
  <2>1. EntryOf(s)'
    BY <1>1, <1>2, <1>3 DEF OwnOf, EntryOf, SamePointer
  <2>2. ASSUME Loaded(s)', Fixed(s)'
        PROVE  \/ LoadedFrom(session'[s].fs, Access(s)')
               \/ Serving(s)' /\ session'[s].fs = cache'[Access(s)'.user]
    <3>1. CASE LoadedFrom(session[s].fs, Access(s))
      BY <1>2, <2>2, <3>1
    <3>2. CASE Serving(s) /\ session[s].fs = cache[Access(s).user]
      <4>1. session[s].fs # NoFs /\ Access(s).user \in Names
        BY <3>2, AccessTyped DEF IInv, LoadedInv, Loaded, Serving, AccessType
      <4>2. cache'[Access(s).user] = cache[Access(s).user]
        BY <3>2, <4>1, CacheStays
      <4> QED BY <1>2, <1>3, <2>2, <3>2, <4>2 DEF Serving
    <3> QED BY <1>1, <1>2, <1>3, <2>2, <3>1, <3>2 DEF OwnOf, Loaded
  <2>3. LoadedFrom(session[s].fs, Access(s))' <=> LoadedFrom(session'[s].fs, Access(s)')
    BY DEF LoadedFrom
  <2> QED BY <1>1, <1>3, <2>1, <2>2, <2>3 DEF OwnOf, SamePointer
<1>4. CASE session'[s].at = "refused"
  BY <1>4 DEF OwnOf, EntryOf, Loaded, Holding
<1>5. CASE /\ session[s].at \in Holding \cup {"loadFs"}
           /\ session'[s].at \in Holding \cup {"serving"}
           /\ Loaded(s)' => session[s].at = "store"
           /\ session'[s].at = "load" => Access(s).fs # "keycloak"
           /\ session'[s].at \in {"checkPasswd", "joinPath"} => Access(s).fs = "keycloak"
  <2>1. EntryOf(s)'
    BY <1>5, EntryMoves
  <2>2. session'[s].at \notin {"idle", "webhook", "asked", "local"}
    BY <1>5 DEF Holding
  <2>3. Loaded(s)' /\ Fixed(s)' => LoadedFrom(session[s].fs, Access(s))
    BY <1>1, <1>2, <1>5 DEF OwnOf, Loaded, Serving
  <2>4. Loaded(s)' /\ Fixed(s)' => LoadedFrom(session[s].fs, Access(s))'
    BY <1>2, <2>3 DEF LoadedFrom
  <2> QED BY <2>1, <2>2, <2>4 DEF OwnOf
<1> QED BY <1>3, <1>4, <1>5

(* Every step of a session keeps what OwnInv says of it.                   *)
LEMMA OwnStep ==
  ASSUME IInv, SharedInv, OwnInv, [Next]_vars, NEW s \in Sessions, AuthUser(s) \/ Step(s)
  PROVE  OwnOf(s)'
<1>0. session[s] \in SessionType /\ session \in [Sessions -> SessionType]
      /\ Access(s) \in AccessType /\ Access(s).user \in Names
  BY AccessTyped DEF IInv, TypeOK, AccessType
<1>1. CASE AuthUser(s)
  <2>1. /\ session[s].at = "idle" /\ session'[s].at \in {"webhook", "local"}
        /\ session'[s].gen = session[s].gen
    <3>1. PICK u \in Users, p \in Passwords :
            session' = [session EXCEPT
              ![s].user = u, ![s].pass = p,
              ![s].at = IF Content.webhook THEN "webhook" ELSE "local"]
      BY <1>1 DEF AuthUser
    <3>2. session'[s] = [session[s] EXCEPT
            !.user = u, !.pass = p, !.at = IF Content.webhook THEN "webhook" ELSE "local"]
      BY <1>0, <3>1
    <3>3. session[s].at = "idle"
      BY <1>1 DEF AuthUser
    <3> QED BY <1>0, <3>2, <3>3 DEF SessionType
  <2> QED BY <2>1 DEF OwnInv, OwnOf, EntryOf, Loaded, Holding
<1>2. CASE AskWebhook(s)
  BY <1>0, <1>2 DEF AskWebhook, Goto, SessionType, OwnInv, OwnOf, EntryOf, Loaded, Holding
<1>3. CASE WebhookFails(s) \/ GetAccessFails(s) \/ LoadFails(s)
  <2>1. session'[s] = [session[s] EXCEPT !.at = "refused"]
    BY <1>0, <1>3 DEF WebhookFails, GetAccessFails, LoadFails, Goto
  <2> QED BY <1>0, <2>1, OwnMoves DEF SessionType, SamePointer
<1>4. CASE WebhookAnswers(s)
  <2>1. PICK a \in WebAnswers :
          /\ session'[s] = [session[s] EXCEPT !.own = a, !.at = "loadFs"]
          /\ session[s].at = "asked"
    BY <1>0, <1>4 DEF WebhookAnswers
  <2>2. session'[s].gen = 0 /\ session'[s].at = "loadFs"
    BY <1>0, <2>1 DEF OwnInv, SessionType
  <2> QED BY <2>2 DEF OwnOf, EntryOf, Loaded, Holding
<1>5. CASE GetAccess(s)
  <2>1. PICK i \in DOMAIN Content.accesses :
          /\ Content.accesses[i].user = session[s].user
          /\ Content.accesses[i].pass = session[s].pass
          /\ session'[s] = [session[s] EXCEPT !.gen = Len(heap), !.entry = i, !.at = "loadFs"]
          /\ heap' = heap
    BY <1>0, <1>5 DEF GetAccess, Entries, Deciding, Decides
  <2>2. Len(heap) # 0 /\ Len(heap) \in Nat
    BY DEF IInv, TypeOK
  <2>3. /\ session'[s].gen = Len(heap) /\ session'[s].entry = i /\ session'[s].at = "loadFs"
        /\ session'[s].user = session[s].user /\ session'[s].pass = session[s].pass
    BY <1>0, <2>1 DEF SessionType
  <2>4. Access(s)' = Content.accesses[i]
    BY <2>1, <2>2, <2>3 DEF Access, Content
  <2> QED BY <2>1, <2>3, <2>4 DEF OwnOf, EntryOf, Loaded, Holding
<1>6. CASE GetKeycloakAccess(s)
  <2>1. session'[s].at = "storePass"
    BY <1>0, <1>6 DEF GetKeycloakAccess, SessionType
  <2> QED BY <2>1 DEF OwnOf, EntryOf, Loaded, Holding
<1>7. CASE StorePass(s)
  <2>1. session'[s] = [session[s] EXCEPT !.at = "loadFs"] /\ session[s].at = "storePass"
    BY <1>0, <1>7 DEF StorePass, Goto
  <2>2. SamePointer(s) /\ session'[s].at = "loadFs"
    BY <1>0, <2>1 DEF SamePointer, SessionType
  <2>3. ~Fixed(s)
    BY <2>1 DEF IInv, PointerInv, Fixed
  <2>4. ~Fixed(s)'
    BY <2>2, <2>3, FixedKept DEF IInv, SamePointer
  <2> QED BY <2>2, <2>4 DEF OwnOf, EntryOf, Holding
<1>8. CASE UseCached(s)
  <2>1. /\ session'[s] = [session[s] EXCEPT !.fs = cache[Access(s).user], !.at = "serving"]
        /\ session[s].at = "loadFs" /\ cache' = cache
    BY <1>0, <1>8 DEF UseCached
  <2>2. /\ SamePointer(s) /\ session'[s].pass = session[s].pass
        /\ session'[s].at = "serving" /\ session'[s].fs = cache[Access(s).user]
    BY <1>0, <2>1 DEF SamePointer, SessionType
  <2>3. EntryOf(s)' /\ (Fixed(s)' => Access(s)' = Access(s))
    BY <2>1, <2>2, EntryMoves
  <2>4. Fixed(s)' => session'[s].fs = cache'[Access(s)'.user]
    BY <2>1, <2>2, <2>3
  <2> QED BY <2>2, <2>3, <2>4 DEF OwnOf, Serving
<1>9. CASE MissCache(s) \/ CheckPasswd(s) \/ StoreFs(s)
  <2>1. PICK phase \in {"checkPasswd", "load", "joinPath", "serving"} :
          /\ session'[s] = [session[s] EXCEPT !.at = phase]
          /\ session[s].at \in Holding \cup {"loadFs"}
          /\ phase = "serving" => session[s].at = "store"
          /\ phase = "load" => Access(s).fs # "keycloak"
          /\ phase = "checkPasswd" => Access(s).fs = "keycloak"
          /\ phase = "joinPath" => session[s].at = "checkPasswd"
    BY <1>0, <1>9 DEF MissCache, CheckPasswd, StoreFs, Goto, Holding
  <2>2. /\ SamePointer(s) /\ session'[s].fs = session[s].fs /\ session'[s].at = phase
        /\ session'[s].pass = session[s].pass
    BY <1>0, <2>1 DEF SamePointer, SessionType
  <2>3. CASE phase # "joinPath"
    BY <2>1, <2>2, <2>3, OwnMoves DEF Loaded, Holding
  <2>4. CASE phase = "joinPath"
    <3>1. Fixed(s)' => Fixed(s) /\ Access(s)' = Access(s)
      BY <2>2, FixedKept DEF IInv, SamePointer
    <3>2. EntryOf(s)'
      BY <2>1, <2>2, <2>4, <3>1 DEF OwnInv, EntryOf, SamePointer, Holding
    <3> QED BY <2>2, <2>4, <3>2 DEF OwnOf, Loaded
  <2> QED BY <2>3, <2>4
<1>10. CASE LoadOs(s) \/ LoadKeycloak(s)
  <2>1. PICK u \in Names :
          /\ session'[s] = [session[s] EXCEPT !.fs = NewFs(s, u), !.at = "store"]
          /\ session[s].at \in {"load", "joinPath"}
          /\ u = IF session[s].at = "joinPath" THEN Access(s).user ELSE Nobody
    BY <1>0, <1>10 DEF LoadOs, LoadKeycloak, Names
  <2>2. session[s].at \in Holding
    BY <2>1 DEF Holding
  <2>3. /\ SamePointer(s) /\ session'[s].at = "store" /\ session'[s].fs = NewFs(s, u)
        /\ session'[s].pass = session[s].pass
    BY <1>0, <2>1 DEF SamePointer, SessionType
  <2>4. EntryOf(s)' /\ (Fixed(s)' => Fixed(s) /\ Access(s)' = Access(s))
    BY <2>2, <2>3, EntryMoves
  <2>5. Fixed(s) => u = IF Access(s).fs = "keycloak" THEN Access(s).user ELSE Nobody
    BY <2>1, <2>2 DEF OwnInv
  <2>6. Fixed(s) => LoadedFrom(NewFs(s, u), Access(s))
    BY <2>5 DEF LoadedFrom, NewFs
  <2>7. Fixed(s)' => LoadedFrom(session[s].fs, Access(s))'
    BY <2>3, <2>4, <2>6 DEF LoadedFrom
  <2> QED BY <2>3, <2>4, <2>7 DEF OwnOf
<1> QED BY <1>1, <1>2, <1>3, <1>4, <1>5, <1>6, <1>7, <1>8, <1>9, <1>10 DEF Step

(* What a step puts into the cache was loaded for the user it is kept for. *)
LEMMA OwnCache ==
  ASSUME IInv, SharedInv, OwnInv, [Next]_vars, NEW u \in Names, cache'[u] # NoFs
  PROVE  cache'[u].user = u
<1>1. CASE cache' = cache
  BY <1>1 DEF OwnInv
<1>2. ASSUME NEW s \in Sessions, StoreFs(s)
      PROVE  cache'[u].user = u
  <2>1. Access(s).user \in Names
    BY AccessTyped DEF IInv, AccessType
  <2>2. CASE cache' = cache
    BY <1>1, <2>2
  <2>3. CASE Access(s).shared /\ cache' = [cache EXCEPT ![Access(s).user] = session[s].fs]
    <3>1. Fixed(s)
      BY <2>3 DEF Fixed, Access, SharedInv, KeycloakNotShared, IInv, PointerInv
    <3>2. session[s].fs.user = Access(s).user
      BY <1>2, <3>1 DEF StoreFs, OwnInv, Loaded, Serving, LoadedFrom
    <3>3. cache \in [Names -> FsType \cup {NoFs}]
      BY DEF IInv, TypeOK
    <3> QED BY <2>1, <2>3, <3>2, <3>3 DEF OwnInv
  <2> QED BY <1>2, <2>2, <2>3 DEF StoreFs
<1> QED BY <1>1, <1>2, CacheWriters

LEMMA NextOwn == IInv /\ SharedInv /\ OwnInv /\ [Next]_vars => OwnInv'
<1> SUFFICES ASSUME IInv, SharedInv, OwnInv, [Next]_vars PROVE OwnInv'
  OBVIOUS
<1>1. ASSUME NEW t \in Sessions PROVE OwnOf(t)'
  <2>1. CASE session'[t] = session[t]
    BY <2>1, OwnMoves DEF SamePointer
  <2>2. CASE AuthUser(t) \/ Step(t)
    BY <2>2, OwnStep
  <2>3. session'[t] = session[t] \/ AuthUser(t) \/ Step(t)
    BY OthersKept DEF Next, vars, Reload, IInv
  <2> QED BY <2>1, <2>2, <2>3
<1>2. \A u \in Names : cache'[u] # NoFs => cache'[u].user = u
  BY OwnCache
<1> QED BY <1>1, <1>2 DEF OwnInv, OwnOf, EntryOf

(* However logins, answers of the webhook and reloads interleave, an entry *)
(* serves who has its user and its password, and what a session is served  *)
(* was loaded from its own access, or is what the cache has for the user   *)
(* of its access and was loaded for that user (server.go:187-223), as long *)
(* as no keycloak entry is marked shared.                                  *)
THEOREM OwnAccessIsServed ==
  ASSUME \A c \in Contents : KeycloakNotShared(c)
  PROVE  Spec => []ServedOwnAccess
<1>1. Init => SharedInv /\ OwnInv
  BY InitShared
<1>2. IInv /\ SharedInv /\ OwnInv /\ [Next]_vars => SharedInv' /\ OwnInv'
  BY NextCache, NextNotShared, NextOwn DEF SharedInv
<1>3. IInv /\ OwnInv => ServedOwnAccess
  <2> SUFFICES ASSUME IInv, OwnInv, NEW s \in Sessions, Serving(s), Fixed(s)
               PROVE  /\ session[s].gen # 0 =>
                           Access(s).user = session[s].user /\ Access(s).pass = session[s].pass
                      /\ session[s].fs.user = Access(s).user
                      /\ \/ LoadedFrom(session[s].fs, Access(s))
                         \/ session[s].fs = cache[Access(s).user]
    BY DEF ServedOwnAccess
  <2>1. Access(s).user \in Names /\ session[s].fs # NoFs
    BY AccessTyped DEF IInv, AccessType, LoadedInv, Loaded, Serving
  <2>2. \/ LoadedFrom(session[s].fs, Access(s))
        \/ session[s].fs = cache[Access(s).user]
    BY DEF OwnInv, Loaded, Serving
  <2>3. session[s].fs.user = Access(s).user
    BY <2>1, <2>2 DEF OwnInv, LoadedFrom
  <2> QED BY <2>2, <2>3 DEF OwnInv, Serving
<1> QED BY <1>1, <1>2, <1>3, Invariance, PTL DEF Spec
-----------------------------------------------------------------------------
(* Access implements FsRegistry, under the mapping of KeepsRegistry and in *)
(* the same configurations.                                                *)

(* Who loads or uses the cache holds its mutex, or finds it free, so no    *)
(* session has a file system that it is about to store.                    *)
LEMMA LoadsAlone ==
  ASSUME TypeOK, NEW s \in Sessions,
         UseCached(s) \/ LoadOs(s) \/ LoadKeycloak(s) \/ StoreFs(s)
  PROVE  \A t \in Sessions \ {s} : session[t].at # "store"
BY NamesAssumption
DEF TypeOK, LockHeld, Holding, UseCached, LoadOs, LoadKeycloak, StoreFs

(* Every step keeps what was loaded and not stored yet from the others.    *)
LEMMA NextFresh == IInv /\ FreshInv /\ [Next]_vars => FreshInv'
<1> SUFFICES ASSUME IInv, FreshInv, [Next]_vars PROVE FreshInv'
  OBVIOUS
<1> USE DEF IInv
<1>0. loads \in Nat /\ session \in [Sessions -> SessionType]
  BY DEF TypeOK
<1>1. CASE \A s \in Sessions : ~UseCached(s) /\ ~LoadOs(s) /\ ~LoadKeycloak(s) /\ ~StoreFs(s)
  BY <1>1, QuietStep DEF FreshInv, Loaded
<1>2. ASSUME NEW s \in Sessions, UseCached(s) \/ StoreFs(s) PROVE FreshInv'
  <2>1. session'[s].at = "serving"
    BY <1>0, <1>2 DEF UseCached, StoreFs, Goto, SessionType
  <2>2. \A t \in Sessions \ {s} : session'[t] = session[t] /\ session[t].at # "store"
    BY <1>2, OthersKept, LoadsAlone DEF Step
  <2> QED BY <2>1, <2>2 DEF FreshInv
<1>3. ASSUME NEW s \in Sessions, LoadOs(s) \/ LoadKeycloak(s) PROVE FreshInv'
  <2>1. session'[s].fs.id = loads /\ cache' = cache
    BY <1>0, <1>3 DEF LoadOs, LoadKeycloak, SessionType, NewFs
  <2>2. \A t \in Sessions \ {s} : session'[t] = session[t] /\ session[t].at # "store"
    BY <1>3, OthersKept, LoadsAlone DEF Step
  <2>3. \A t \in Sessions : Loaded(t) => session[t].fs.id # loads
    <3>1. \A t \in Sessions : Loaded(t) => session[t].fs.id \in Nat /\ session[t].fs.id < loads
      BY <1>0 DEF LoadedInv, SessionType, FsType
    <3> QED BY <1>0, <3>1
  <2>4. \A u \in Names : cache[u] # NoFs => cache[u].id # loads
    <3>1. \A u \in Names : cache[u] # NoFs => cache[u].id \in Nat /\ cache[u].id < loads
      BY DEF LoadedInv, TypeOK, FsType
    <3> QED BY <1>0, <3>1
  <2> QED BY <2>1, <2>2, <2>3, <2>4 DEF FreshInv, Loaded
<1> QED BY <1>1, <1>2, <1>3

(* Nothing is kept or served before anybody logs in.                       *)
LEMMA InitRegistry == Init => Registry!Init
BY DEF Init, Registry!Init, Served, Serving

(* A session whose login ends is served what it has then.                  *)
LEMMA ServedNext ==
  ASSUME TypeOK, NEW s \in Sessions, UseCached(s) \/ StoreFs(s)
  PROVE  /\ session[s].at # "serving"
         /\ Served' = [Served EXCEPT ![s] = session'[s].fs]
         /\ Served[s] = NoFs
<1>1. session \in [Sessions -> SessionType]
  BY DEF TypeOK
<1>2. session[s].at # "serving" /\ session'[s].at = "serving"
  BY <1>1 DEF UseCached, StoreFs, Goto, SessionType
<1>3. \A t \in Sessions \ {s} : session'[t] = session[t]
  BY OthersKept DEF Step
<1>4. Served'[s] = session'[s].fs /\ Served[s] = NoFs
  BY <1>2 DEF Served, Serving
<1>5. \A t \in Sessions \ {s} : Served'[t] = Served[t]
  BY <1>3 DEF Served, Serving
<1>6. /\ Served = [t \in Sessions |-> Served[t]]
      /\ Served' = [t \in Sessions |-> Served'[t]]
  BY DEF Served
<1>7. Served' = [Served EXCEPT ![s] = session'[s].fs]
  BY <1>4, <1>5, <1>6
<1> QED BY <1>2, <1>4, <1>7

(* The step that ends a load makes what was loaded a file system of the    *)
(* registry that nobody has (server.go:197-206).                           *)
LEMMA StoreOpens ==
  ASSUME IInv, SharedInv, OwnInv, FreshInv, NEW s \in Sessions, StoreFs(s)
  PROVE  Registry!OpenPrivate(s, Served'[s]) \/ Registry!OpenShared(s, Served'[s])
<1> DEFINE fs == session[s].fs
<1>0. session \in [Sessions -> SessionType] /\ cache \in [Names -> FsType \cup {NoFs}]
  BY DEF IInv, TypeOK
<1>1. session[s].at = "store" /\ session'[s].fs = fs
  BY <1>0 DEF StoreFs, Goto, SessionType
<1>2. /\ Served' = [Served EXCEPT ![s] = fs] /\ Served[s] = NoFs
      /\ Served'[s] = fs
  <2>1. Served' = [Served EXCEPT ![s] = fs] /\ Served[s] = NoFs
    BY <1>1, ServedNext DEF IInv
  <2> QED BY <2>1 DEF Served
<1>3. fs # NoFs /\ fs.shared = Access(s).shared
  BY <1>1 DEF IInv, LoadedInv, Loaded
<1>4. Registry!New(fs)
  <2>1. \A t \in Sessions : Served[t] # fs
    BY <1>1, <1>3 DEF Served, Serving, FreshInv, Loaded
  <2>2. \A u \in Names : cache[u] # fs
    BY <1>1, <1>3 DEF FreshInv
  <2> QED BY <1>3, <2>1, <2>2 DEF Registry!New
<1>5. Registry!Serve(s, fs)
  BY <1>2 DEF Registry!Serve
<1>6. CASE ~Access(s).shared
  <2>1. cache' = cache
    BY <1>6 DEF StoreFs
  <2> QED BY <1>2, <1>3, <1>4, <1>5, <1>6, <2>1 DEF Registry!OpenPrivate
<1>7. CASE Access(s).shared
  <2>1. Fixed(s)
    BY <1>7 DEF Fixed, Access, SharedInv, KeycloakNotShared, IInv, PointerInv
  <2>2. fs.user = Access(s).user /\ Access(s).user \in Names
    BY <1>1, <2>1, AccessTyped DEF OwnInv, Loaded, Serving, LoadedFrom, IInv, AccessType
  <2>3. cache[Access(s).user] = NoFs
    BY <1>1, <1>7 DEF SharedInv, CacheInv, Holding
  <2>4. cache' = [cache EXCEPT ![Access(s).user] = fs]
    BY <1>7 DEF StoreFs
  <2>5. fs.shared
    BY <1>3, <1>7
  <2> QED BY <1>2, <1>4, <1>5, <2>2, <2>3, <2>4, <2>5 DEF Registry!OpenShared
<1> QED BY <1>6, <1>7

(* Every step of the logins is one of the registry, or none.               *)
LEMMA StepRegistry ==
  IInv /\ SharedInv /\ OwnInv /\ FreshInv /\ [Next]_vars => [Registry!Next]_Registry!vars
<1> SUFFICES ASSUME IInv, SharedInv, OwnInv, FreshInv, [Next]_vars
             PROVE  [Registry!Next]_Registry!vars
  OBVIOUS
<1>0. session \in [Sessions -> SessionType] /\ TypeOK
  BY DEF IInv, TypeOK
<1>1. CASE \A s \in Sessions : ~UseCached(s) /\ ~LoadOs(s) /\ ~LoadKeycloak(s) /\ ~StoreFs(s)
  <2>1. cache' = cache /\ Served' = Served
    BY <1>0, <1>1, QuietStep DEF Served, Serving, Loaded
  <2> QED BY <2>1 DEF Registry!vars
<1>2. ASSUME NEW s \in Sessions, LoadOs(s) \/ LoadKeycloak(s)
      PROVE  [Registry!Next]_Registry!vars
  <2>1. session[s].at # "serving" /\ session'[s].at = "store" /\ cache' = cache
    BY <1>0, <1>2 DEF LoadOs, LoadKeycloak, SessionType
  <2>2. \A t \in Sessions \ {s} : session'[t] = session[t]
    BY <1>0, <1>2, OthersKept DEF Step
  <2>3. Served' = Served
    BY <2>1, <2>2 DEF Served, Serving
  <2> QED BY <2>1, <2>3 DEF Registry!vars
<1>3. ASSUME NEW s \in Sessions, UseCached(s)
      PROVE  [Registry!Next]_Registry!vars
  <2>1. /\ session'[s].fs = cache[Access(s).user] /\ cache[Access(s).user] # NoFs
        /\ cache' = cache
    BY <1>0, <1>3 DEF UseCached, SessionType
  <2>2. Access(s).user \in Names
    BY AccessTyped DEF IInv, AccessType
  <2>3. Registry!Join(s, Access(s).user)
    BY <1>0, <1>3, <2>1, ServedNext DEF Registry!Join, Registry!Serve
  <2> QED BY <2>2, <2>3 DEF Registry!Next
<1>4. ASSUME NEW s \in Sessions, StoreFs(s)
      PROVE  [Registry!Next]_Registry!vars
  BY <1>4, StoreOpens DEF Registry!Next
<1> QED BY <1>1, <1>2, <1>3, <1>4

(* However logins and reloads interleave, each login is served at one      *)
(* moment what is kept for a user, or a file system of its own, which is   *)
(* kept if it is shared, and what is kept is never replaced                *)
(* (server.go:187-206), as long as no keycloak entry is marked shared.     *)
THEOREM ImplementsFsRegistry ==
  ASSUME \A c \in Contents : KeycloakNotShared(c)
  PROVE  Spec => KeepsRegistry
<1>1. Init => SharedInv /\ OwnInv /\ FreshInv
  BY InitShared DEF Init, FreshInv
<1>2. IInv /\ SharedInv /\ OwnInv /\ FreshInv /\ [Next]_vars => SharedInv' /\ OwnInv' /\ FreshInv'
  BY NextCache, NextNotShared, NextOwn, NextFresh DEF SharedInv
<1> QED BY <1>1, <1>2, Invariance, InitRegistry, StepRegistry, PTL
        DEF Spec, KeepsRegistry, Registry!Spec
=============================================================================
