---------------------------- MODULE ServerProofs ----------------------------
(***************************************************************************)
(* What module Server guarantees for any number of connections, any limits *)
(* and any width of the counter: its inductive invariant IInv, and the     *)
(* properties that follow from it.  And what module Daemon guarantees, for *)
(* any signals: the process drives its driver only in ways that module     *)
(* Server knows, so that all of this holds in it, and it closes the        *)
(* listener only when the wait of main will find the channel.              *)
(***************************************************************************)
EXTENDS Daemon, FiniteSetTheorems, TLAPS

(* The set of admitted clients is finite, and the counter can count it.    *)
LEMMA AcceptedFinite ==
  ASSUME acceptedClients \subseteq Clients
  PROVE  /\ IsFiniteSet(acceptedClients)
         /\ Cardinality(acceptedClients) \in Nat
         /\ Cardinality(acceptedClients) < UintMod
<1>1. /\ IsFiniteSet(acceptedClients)
      /\ Cardinality(acceptedClients) <= Cardinality(Clients)
  BY FS_Subset, ClientsAssumption
<1>2. /\ Cardinality(acceptedClients) \in Nat
      /\ Cardinality(Clients) \in Nat
  BY <1>1, FS_CardinalityType, ClientsAssumption
<1> QED BY <1>1, <1>2, WidthAssumption

(* nbClients++ (server.go:121) goes with one more admitted client, and     *)
(* never wraps.                                                            *)
LEMMA CountUp ==
  ASSUME TypeOK, CountsSessions,
         NEW c \in Clients, c \notin acceptedClients
  PROVE  /\ Increment(nbClients) = Cardinality(acceptedClients \cup {c})
         /\ Increment(nbClients) \in 0 .. UintMod - 1
<1> DEFINE more == acceptedClients \cup {c}
<1>1. acceptedClients \subseteq Clients /\ more \subseteq Clients
  BY DEF TypeOK
<1>2. IsFiniteSet(acceptedClients) /\ Cardinality(acceptedClients) \in Nat
  BY <1>1, AcceptedFinite
<1>3. Cardinality(more) = Cardinality(acceptedClients) + 1
  BY <1>2, FS_AddElement
<1>4. Cardinality(more) <= Cardinality(Clients)
  BY <1>1, FS_Subset, ClientsAssumption
<1>5. Cardinality(Clients) \in Nat
  BY FS_CardinalityType, ClientsAssumption
<1> QED BY <1>2, <1>3, <1>4, <1>5, WidthAssumption DEF CountsSessions, Increment

(* nbClients-- (server.go:146) goes with one admitted client less, and     *)
(* never wraps.                                                            *)
LEMMA CountDown ==
  ASSUME TypeOK, CountsSessions, NEW c \in acceptedClients
  PROVE  /\ Decrement(nbClients) = Cardinality(acceptedClients \ {c})
         /\ Decrement(nbClients) \in 0 .. UintMod - 1
<1>1. /\ IsFiniteSet(acceptedClients)
      /\ Cardinality(acceptedClients) \in Nat
      /\ Cardinality(acceptedClients) < UintMod
  BY AcceptedFinite DEF TypeOK
<1>2. Cardinality(acceptedClients \ {c}) = Cardinality(acceptedClients) - 1
  BY <1>1, FS_RemoveElement
<1>3. IsFiniteSet(acceptedClients \ {c})
  BY <1>1, FS_RemoveElement
<1>4. Cardinality(acceptedClients \ {c}) \in Nat
  BY <1>3, FS_CardinalityType
<1> QED BY <1>1, <1>2, <1>4, WidthAssumption DEF CountsSessions, Decrement

-----------------------------------------------------------------------------
(* The invariant holds when the driver is made.                            *)
LEMMA InitIInv == Init => IInv
<1> SUFFICES ASSUME Init PROVE IInv
  OBVIOUS
<1>1. 0 \in 0 .. UintMod - 1
  <2>1. Cardinality(Clients) \in Nat
    BY FS_CardinalityType, ClientsAssumption
  <2> QED BY <2>1, WidthAssumption
<1>2. TypeOK
  BY <1>1 DEF Init, TypeOK, ConnStates, WaiterStates
<1>3. CountsSessions
  BY FS_EmptySet DEF Init, CountsSessions
<1>4. LockInv /\ EventInv
  BY ClientsAssumption DEF Init, LockInv, EventInv
<1> QED BY <1>2, <1>3, <1>4 DEF IInv, Init

(* Every step of the driver keeps the invariant.                           *)
LEMMA NextIInv == IInv /\ [Next]_vars => IInv'
<1> SUFFICES ASSUME IInv, [Next]_vars PROVE IInv'
  OBVIOUS
<1> USE DEF IInv
<1>1. CASE Listen
  BY <1>1 DEF Listen, TypeOK, CountsSessions, LockInv, EventInv, lockVars, eventVars
<1>2. CASE CloseListener
  BY <1>2 DEF CloseListener, TypeOK, CountsSessions, LockInv, EventInv, lockVars, eventVars
<1>3. CASE ReloadConfig
  BY <1>3 DEF ReloadConfig, TypeOK, CountsSessions, LockInv, EventInv, lockVars, eventVars
<1>4. ASSUME NEW c \in Clients, Arrive(c) PROVE IInv'
  <2>1. TypeOK'
    BY <1>4 DEF Arrive, TypeOK, ConnStates, lockVars, eventVars
  <2>2. CountsSessions'
    BY <1>4 DEF Arrive, TypeOK, CountsSessions, lockVars
  <2>3. LockInv'
    BY <1>4 DEF Arrive, TypeOK, LockInv, lockVars
  <2>4. EventInv' /\ (crashed => nbClients = 0)'
    BY <1>4 DEF Arrive, EventInv, lockVars, eventVars
  <2> QED BY <2>1, <2>2, <2>3, <2>4
<1>5. ASSUME NEW c \in Clients, Leave(c) PROVE IInv'
  <2>1. TypeOK'
    BY <1>5 DEF Leave, TypeOK, ConnStates, lockVars, eventVars
  <2>2. CountsSessions'
    BY <1>5 DEF Leave, TypeOK, CountsSessions, lockVars
  <2>3. LockInv'
    BY <1>5 DEF Leave, TypeOK, LockInv, lockVars
  <2>4. EventInv' /\ (crashed => nbClients = 0)'
    BY <1>5 DEF Leave, EventInv, lockVars, eventVars
  <2> QED BY <2>1, <2>2, <2>3, <2>4
<1>6. ASSUME NEW c \in Clients, ClientConnected(c) PROVE IInv'
  <2>1. CASE Reject(c)
    <3>1. TypeOK'
      BY <1>6, <2>1 DEF ClientConnected, Reject, TypeOK, ConnStates, eventVars
    <3>2. CountsSessions'
      BY <1>6, <2>1 DEF ClientConnected, Reject, TypeOK, CountsSessions
    <3>3. LockInv' /\ EventInv' /\ (crashed => nbClients = 0)'
      BY <1>6, <2>1, ClientsAssumption
      DEF ClientConnected, Reject, TypeOK, LockInv, EventInv, eventVars
    <3> QED BY <3>1, <3>2, <3>3
  <2>2. CASE Accept(c)
    <3>1. c \notin acceptedClients
      BY <1>6 DEF ClientConnected, CountsSessions
    <3>2. /\ nbClients' = Cardinality(acceptedClients')
          /\ nbClients' \in 0 .. UintMod - 1
      BY <2>2, <3>1, CountUp DEF Accept
    <3>3. TypeOK'
      BY <1>6, <2>2, <3>2 DEF ClientConnected, Accept, TypeOK, ConnStates, eventVars
    <3>4. CountsSessions'
      BY <1>6, <2>2, <3>2 DEF ClientConnected, Accept, TypeOK, CountsSessions
    <3>5. LockInv' /\ EventInv' /\ (crashed => nbClients = 0)'
      BY <1>6, <2>2, ClientsAssumption
      DEF ClientConnected, Accept, TypeOK, LockInv, EventInv, eventVars
    <3> QED BY <3>3, <3>4, <3>5
  <2> QED BY <1>6, <2>1, <2>2 DEF ClientConnected
<1>7. ASSUME NEW c \in Clients, ClientDisconnected(c) PROVE IInv'
  <2>1. CASE Forget(c)
    <3>1. TypeOK'
      BY <1>7, <2>1 DEF ClientDisconnected, Forget, TypeOK, ConnStates, lockVars, eventVars
    <3>2. CountsSessions'
      BY <1>7, <2>1 DEF ClientDisconnected, Forget, TypeOK, CountsSessions, lockVars
    <3>3. LockInv' /\ EventInv' /\ (crashed => nbClients = 0)'
      BY <1>7, <2>1, ClientsAssumption
      DEF ClientDisconnected, Forget, TypeOK, LockInv, EventInv, lockVars, eventVars
    <3> QED BY <3>1, <3>2, <3>3
  <2>2. CASE Release(c)
    <3>1. /\ nbClients' = Cardinality(acceptedClients')
          /\ nbClients' \in 0 .. UintMod - 1
      BY <2>2, CountDown DEF Release
    <3>2. /\ c # NoOne
          /\ \/ nbClients' = 0 /\ zeroClientEvent' /\ holder' = c /\ ending' = "send"
             \/ holder' = NoOne /\ ending' = "no"
      BY <2>2, ClientsAssumption DEF Release, ConsiderEnd
    <3>3. conn' = [conn EXCEPT ![c] = IF holder' = c THEN "ending" ELSE "gone"]
      BY <2>2 DEF Release
    <3>4. TypeOK'
      BY <1>7, <2>2, <3>1, <3>2, <3>3
      DEF ClientDisconnected, Release, TypeOK, ConnStates, eventVars
    <3>5. CountsSessions'
      BY <1>7, <2>2, <3>1, <3>3 DEF ClientDisconnected, Release, TypeOK, CountsSessions
    <3>6. LockInv'
      BY <2>2, <3>2, <3>3, ClientsAssumption DEF TypeOK, LockInv
    <3>7. EventInv' /\ (crashed => nbClients = 0)'
      BY <1>7, <2>2, <3>2
      DEF ClientDisconnected, Release, TypeOK, LockInv, EventInv, eventVars
    <3> QED BY <3>4, <3>5, <3>6, <3>7
  <2> QED BY <1>7, <2>1, <2>2 DEF ClientDisconnected
<1>8. CASE Stop
  <2>1. /\ Stopper # NoOne
        /\ \/ nbClients' = 0 /\ holder' = Stopper /\ ending' = "send"
           \/ holder' = NoOne /\ ending' = "no"
    BY <1>8, ClientsAssumption DEF Stop, ConsiderEnd
  <2>2. TypeOK'
    BY <1>8, <2>1 DEF Stop, TypeOK
  <2>3. CountsSessions'
    BY <1>8 DEF Stop, CountsSessions
  <2>4. LockInv' /\ EventInv' /\ (crashed => nbClients = 0)'
    BY <1>8, <2>1, ClientsAssumption DEF Stop, TypeOK, LockInv, EventInv
  <2> QED BY <2>2, <2>3, <2>4
<1>9. CASE ConsiderEndSend
  <2>1. TypeOK' /\ CountsSessions'
    BY <1>9 DEF ConsiderEndSend, SendEvent, SendOnClosed, SendOnNil, TypeOK, CountsSessions
  <2>2. LockInv' /\ EventInv' /\ (crashed => nbClients = 0)'
    BY <1>9
    DEF ConsiderEndSend, SendEvent, SendOnClosed, SendOnNil, TypeOK, LockInv, EventInv
  <2> QED BY <2>1, <2>2
<1>10. CASE ConsiderEndClose
  <2>1. CASE CloseEvent
    <3>1. TypeOK'
      BY <1>10, <2>1 DEF ConsiderEndClose, CloseEvent, TypeOK, ConnStates
    <3>2. CountsSessions'
      <4>1. \A c \in Clients : c = holder => conn[c] = "ending" /\ conn'[c] = "gone"
        BY <2>1 DEF CloseEvent, LockInv
      <4>2. \A c \in Clients : c # holder => conn'[c] = conn[c]
        BY <2>1 DEF CloseEvent
      <4>3. \A c \in Clients :
              conn'[c] \in {"serving", "leaving"} <=> conn[c] \in {"serving", "leaving"}
        BY <4>1, <4>2
      <4> QED BY <1>10, <4>3 DEF ConsiderEndClose, CountsSessions
    <3>3. LockInv' /\ EventInv' /\ (crashed => nbClients = 0)'
      BY <1>10, <2>1, ClientsAssumption
      DEF ConsiderEndClose, CloseEvent, TypeOK, LockInv, EventInv
    <3> QED BY <3>1, <3>2, <3>3
  <2>2. CASE CloseNil
    BY <1>10, <2>2
    DEF ConsiderEndClose, CloseNil, TypeOK, CountsSessions, LockInv, EventInv
  <2> QED BY <1>10, <2>1, <2>2 DEF ConsiderEndClose
<1>11. CASE WaitGracefully
  BY <1>11 DEF WaitGracefully, TypeOK, WaiterStates, CountsSessions, LockInv, EventInv,
               lockVars, eventVars
<1>12. CASE WaitReceive
  BY <1>12 DEF WaitReceive, TypeOK, WaiterStates, CountsSessions, LockInv, EventInv, lockVars
<1>13. CASE WaitTimeout
  BY <1>13 DEF WaitTimeout, TypeOK, WaiterStates, CountsSessions, LockInv, EventInv,
               lockVars, eventVars
<1>14. CASE WaitReturn
  BY <1>14 DEF WaitReturn, TypeOK, WaiterStates, CountsSessions, LockInv, EventInv, lockVars
<1>15. CASE UNCHANGED vars
  BY <1>15 DEF vars, lockVars, eventVars, TypeOK, CountsSessions, LockInv, EventInv
<1> QED
  BY <1>1, <1>2, <1>3, <1>4, <1>5, <1>6, <1>7, <1>8, <1>9, <1>10, <1>11, <1>12,
     <1>13, <1>14, <1>15 DEF Next

(* The inductive invariant holds in every behaviour of the driver.         *)
THEOREM Invariance == Spec => []IInv
<1> QED BY InitIInv, NextIInv, PTL DEF Spec

(* The types of the driver's state; the counter stays within its width.    *)
THEOREM TypeCorrect == Spec => []TypeOK
<1>1. IInv => TypeOK
  BY DEF IInv
<1> QED BY <1>1, Invariance, PTL

(* nbClients counts the sessions, for any number of connections.           *)
THEOREM SessionsAreCounted == Spec => []CountsSessions
<1>1. IInv => CountsSessions
  BY DEF IInv
<1> QED BY <1>1, Invariance, PTL

(* The send in considerEnd never finds the channel full.                   *)
THEOREM EventDoesNotBlock == Spec => []EventNeverBlocks
<1>1. IInv => EventNeverBlocks
  BY DEF IInv, EventInv, EventNeverBlocks
<1> QED BY <1>1, Invariance, PTL

(* A panic in considerEnd finds nobody being served.                       *)
THEOREM NoSessionIsCutByAPanic == Spec => []PanicCutsNoSession
<1>1. IInv => PanicCutsNoSession
  <2> SUFFICES ASSUME IInv, crashed PROVE acceptedClients = {}
    BY DEF PanicCutsNoSession
  <2>1. Cardinality(acceptedClients) = 0
    BY DEF IInv, CountsSessions
  <2>2. IsFiniteSet(acceptedClients)
    BY AcceptedFinite DEF IInv, TypeOK
  <2> QED BY <2>1, <2>2, FS_EmptySet
<1> QED BY <1>1, Invariance, PTL

-----------------------------------------------------------------------------
(* The limits that uint32(maxClients) (server.go:111) does not truncate.   *)
LimitsFit == \A m \in Limits : m < UintMod

(* A limit that fits in the counter is compared as it is.                  *)
LEMMA Uint32Fits ==
  ASSUME LimitsFit, NEW m \in Limits, m > 0
  PROVE  Uint32(m) = m
<1>1. m \in Nat /\ UintMod \in Nat /\ m < UintMod
  BY LimitsAssumption, WidthAssumption DEF LimitsFit
<1> QED BY <1>1 DEF Uint32

(* Admission follows the number of sessions and the limit in force, for    *)
(* every limit that fits in the counter; a larger one is truncated, and    *)
(* 2^32 of them turned into a limit of none.                               *)
THEOREM AdmissionIsByLimit ==
  ASSUME LimitsFit
  PROVE  Spec => AdmissionByLimit
<1> DEFINE
  full == maxClients > 0 /\ Cardinality(acceptedClients) >= maxClients
  Fair == \A c \in Clients :
            conn[c] = "arrived" /\ conn'[c] # "arrived" =>
              IF full THEN conn'[c] = "rejected" ELSE conn'[c] = "serving"
<1>1. IInv /\ [Next]_vars => Fair
  <2> SUFFICES ASSUME IInv, [Next]_vars, NEW c \in Clients,
                      conn[c] = "arrived", conn'[c] # "arrived"
               PROVE  IF full THEN conn'[c] = "rejected" ELSE conn'[c] = "serving"
    OBVIOUS
  <2>1. LimitReached <=> full
    BY Uint32Fits, LimitsAssumption DEF IInv, TypeOK, CountsSessions, LimitReached
  <2>2. ClientConnected(c)
    <3>1. conn \in [Clients -> ConnStates]
      BY DEF IInv, TypeOK
    <3>2. \A d \in Clients :
            Leave(d) \/ Arrive(d) \/ ClientDisconnected(d) => conn'[c] = conn[c]
      BY <3>1 DEF Leave, Arrive, ClientDisconnected, Forget, Release
    <3>3. \A d \in Clients : ClientConnected(d) /\ d # c => conn'[c] = conn[c]
      BY <3>1 DEF ClientConnected, Reject, Accept
    <3>4. ConsiderEndClose => conn'[c] = conn[c]
      BY <3>1 DEF ConsiderEndClose, CloseEvent, CloseNil, IInv, LockInv
    <3>5. \/ Listen \/ CloseListener \/ ReloadConfig \/ Stop \/ ConsiderEndSend
          \/ WaitGracefully \/ WaitReceive \/ WaitTimeout \/ WaitReturn
          \/ UNCHANGED vars
          => conn' = conn
      BY DEF Listen, CloseListener, ReloadConfig, Stop, ConsiderEndSend,
             WaitGracefully, WaitReceive, WaitTimeout, WaitReturn, vars
    <3> QED BY <3>2, <3>3, <3>4, <3>5 DEF Next
  <2> QED BY <2>1, <2>2 DEF ClientConnected, Reject, Accept, IInv, TypeOK
<1> QED BY <1>1, Invariance, PTL DEF Spec, AdmissionByLimit

-----------------------------------------------------------------------------
(* The driver implements GracefulStop, under the mapping of KeepsPromise.  *)

(* A new driver is an initial state of GracefulStop.                       *)
LEMMA InitPromise == Init => Promise!Init
<1> QED BY DEF Init, Promise!Init, Outcome

(* Every step of the driver is one of GracefulStop, or none.               *)
LEMMA StepPromise == IInv /\ [Next]_vars => [Promise!Next]_Promise!vars
<1> SUFFICES ASSUME IInv, [Next]_vars PROVE [Promise!Next]_Promise!vars
  OBVIOUS
<1> DEFINE
  SameOutcome == waiter' = waiter
  SameEvent == buffer' = buffer
<1>1. ASSUME acceptedClients' = acceptedClients, SameEvent, SameOutcome
      PROVE  UNCHANGED Promise!vars
  BY <1>1 DEF Promise!vars, Outcome
<1>2. CASE \/ Listen \/ CloseListener \/ ReloadConfig \/ WaitGracefully
           \/ UNCHANGED vars
  BY <1>2 DEF Listen, CloseListener, ReloadConfig, WaitGracefully, vars, lockVars,
              eventVars, Promise!vars, Outcome
<1>3. ASSUME NEW c \in Clients,
             Arrive(c) \/ Leave(c) \/ ClientConnected(c) \/ ClientDisconnected(c)
      PROVE  [Promise!Next]_Promise!vars
  <2>1. SameEvent /\ SameOutcome
    BY <1>3 DEF Arrive, Leave, ClientConnected, ClientDisconnected, Forget, Release,
                eventVars
  <2>2. CASE acceptedClients' = acceptedClients
    BY <1>1, <2>1, <2>2
  <2>3. CASE ClientConnected(c) /\ Accept(c)
    <3>1. c \notin acceptedClients
      BY <2>3 DEF ClientConnected, IInv, CountsSessions
    <3>2. Promise!Join(c)
      BY <2>1, <2>3, <3>1 DEF Accept, Promise!Join, Outcome
    <3> QED BY <3>2 DEF Promise!Next
  <2>4. CASE ClientDisconnected(c) /\ Release(c)
    <3>1. Promise!Leave(c)
      BY <2>1, <2>4 DEF Release, Promise!Leave, Outcome
    <3> QED BY <3>1 DEF Promise!Next
  <2> QED BY <1>3, <2>2, <2>3, <2>4
          DEF Arrive, Leave, ClientConnected, Reject, ClientDisconnected, Forget,
              lockVars
<1>4. CASE Stop
  <2>1. Promise!BeginStop
    BY <1>4 DEF Stop, Promise!BeginStop, Outcome
  <2> QED BY <2>1 DEF Promise!Next
<1>5. CASE ConsiderEndSend
  <2>1. acceptedClients' = acceptedClients /\ SameOutcome
    BY <1>5 DEF ConsiderEndSend
  <2>2. CASE SendEvent
    <3>1. acceptedClients = {}
      <4>1. IsFiniteSet(acceptedClients) /\ Cardinality(acceptedClients) = 0
        BY <1>5, AcceptedFinite
        DEF ConsiderEndSend, IInv, TypeOK, CountsSessions, LockInv
      <4> QED BY <4>1, FS_EmptySet
    <3>2. buffer = "empty" /\ buffer' = "full"
      BY <1>5, <2>2 DEF ConsiderEndSend, SendEvent, IInv, EventInv
    <3>3. Promise!Announce
      BY <2>1, <3>1, <3>2 DEF Promise!Announce, Outcome
    <3> QED BY <3>3 DEF Promise!Next
  <2>3. CASE SendOnClosed \/ SendOnNil
    BY <1>1, <2>1, <2>3 DEF SendOnClosed, SendOnNil
  <2> QED BY <1>5, <2>2, <2>3 DEF ConsiderEndSend
<1>6. CASE ConsiderEndClose
  BY <1>1, <1>6 DEF ConsiderEndClose
<1>7. CASE WaitReceive
  <2>1. Promise!LearnDrained
    BY <1>7 DEF WaitReceive, lockVars, Promise!LearnDrained, Outcome
  <2> QED BY <2>1 DEF Promise!Next
<1>8. CASE WaitTimeout
  <2>1. Promise!GiveUp
    BY <1>8 DEF WaitTimeout, lockVars, eventVars, Promise!GiveUp, Outcome
  <2> QED BY <2>1 DEF Promise!Next
<1>9. CASE WaitReturn
  BY <1>9 DEF WaitReturn, lockVars, Promise!vars, Outcome
<1> QED
  BY <1>2, <1>3, <1>4, <1>5, <1>6, <1>7, <1>8, <1>9 DEF Next

(* The end is announced only while no session is open, after Stop, and a   *)
(* wait ends without an error only after that: for any number of clients.  *)
THEOREM ImplementsGracefulStop == Spec => KeepsPromise
<1> QED BY InitPromise, StepPromise, Invariance, PTL
        DEF Spec, KeepsPromise, Promise!Spec

-----------------------------------------------------------------------------
(* The driver in the process.                                              *)

(* Every step of the process is a step of the driver, or none.             *)
LEMMA StepDrives == [DaemonNext]_allVars => [Next]_vars
<1> SUFFICES ASSUME [DaemonNext]_allVars
             PROVE  [Next]_vars
  OBVIOUS
<1>1. CASE Main
  <2>1. CASE BootFails \/ Boot \/ ListenFails \/ ServeReturns
    BY <2>1 DEF BootFails, Boot, ListenFails, ServeReturns
  <2>2. CASE ListenAndServe
    BY <2>2 DEF ListenAndServe, Next
  <2>3. CASE MainWaits \/ MainWaitEnds \/ MainReturns
    BY <2>3 DEF MainWaits, MainWaitEnds, MainReturns, Next
  <2> QED BY <1>1, <2>1, <2>2, <2>3 DEF Main
<1>2. CASE Handler
  <2>1. CASE NotifyTerm \/ NotifyHup \/ HandlerReceives
    BY <2>1 DEF NotifyTerm, NotifyHup, HandlerReceives
  <2>2. CASE HandlerReloads \/ HandlerStops \/ HandlerStopsListener
    BY <2>2 DEF HandlerReloads, HandlerStops, HandlerStopsListener, Next
  <2> QED BY <1>2, <2>1, <2>2 DEF Handler
<1>3. CASE \E s \in Signals : Signal(s)
  BY <1>3 DEF Signal
<1>4. CASE \E c \in Clients : ClientActs(c) \/ Callback(c)
  BY <1>4 DEF ClientActs, Callback, Next
<1>5. CASE FinishConsiderEnd
  BY <1>5 DEF FinishConsiderEnd, Next
<1>6. CASE UNCHANGED allVars
  BY <1>6 DEF allVars
<1> QED BY <1>1, <1>2, <1>3, <1>4, <1>5, <1>6 DEF DaemonNext

(* The process is one of the programs that module Server describes: main,  *)
(* the handler and ftpserverlib call the driver in no other order.         *)
THEOREM ProcessRunsTheDriver == DaemonSpec => Spec
<1>1. DaemonInit => Init
  BY DEF DaemonInit
<1> QED BY <1>1, StepDrives, PTL DEF DaemonSpec, Spec

(* In the process, too, the end is announced only with no session open,    *)
(* after driver.Stop, and main's wait ends without an error only then.     *)
THEOREM ProcessKeepsPromise == DaemonSpec => KeepsPromise
<1> QED BY ProcessRunsTheDriver, ImplementsGracefulStop, PTL

(* A panic of considerEnd ends the process with no session open, whatever  *)
(* signals came.                                                           *)
THEOREM ProcessCutsNoSession == DaemonSpec => []PanicCutsNoSession
<1> QED BY ProcessRunsTheDriver, NoSessionIsCutByAPanic, PTL

-----------------------------------------------------------------------------
(* The wait.                                                               *)

(* Until main's wait begins, the channel that the handler made stays, and  *)
(* the listener is closed by the handler after it.                         *)
WaitInv ==
  /\ handler \in {"stoppingListener", "done"} /\ waiter = "idle" => zeroClientEvent
  /\ listener = "closed" => handler = "done"
  /\ main = "booting" => listener = "none"

LEMMA NextWaitInv == WaitInv /\ [DaemonNext]_allVars => WaitInv'
<1> SUFFICES ASSUME WaitInv, [DaemonNext]_allVars
             PROVE  WaitInv'
  OBVIOUS
<1>1. CASE Main
  <2>1. CASE BootFails \/ ListenFails \/ ServeReturns
    BY <2>1 DEF BootFails, ListenFails, ServeReturns, WaitInv, vars, eventVars
  <2>2. CASE Boot
    BY <2>2 DEF Boot, WaitInv, vars, eventVars
  <2>3. CASE ListenAndServe
    BY <2>3 DEF ListenAndServe, Listen, WaitInv, eventVars
  <2>4. CASE MainWaits
    BY <2>4 DEF MainWaits, WaitGracefully, WaitInv, eventVars
  <2>5. CASE MainWaitEnds
    BY <2>5 DEF MainWaitEnds, WaitReceive, WaitTimeout, WaitInv, daemonVars, eventVars
  <2>6. CASE MainReturns
    BY <2>6 DEF MainReturns, WaitReturn, WaitInv
  <2> QED BY <1>1, <2>1, <2>2, <2>3, <2>4, <2>5, <2>6 DEF Main
<1>2. CASE Handler
  <2>1. CASE NotifyTerm \/ NotifyHup \/ HandlerReceives
    BY <2>1 DEF NotifyTerm, NotifyHup, HandlerReceives, WaitInv, vars, eventVars
  <2>2. CASE HandlerReloads
    BY <2>2 DEF HandlerReloads, ReloadConfig, WaitInv, eventVars
  <2>3. CASE HandlerStops
    BY <2>3 DEF HandlerStops, Stop, WaitInv
  <2>4. CASE HandlerStopsListener
    BY <2>4 DEF HandlerStopsListener, CloseListener, WaitInv, vars, eventVars
  <2> QED BY <1>2, <2>1, <2>2, <2>3, <2>4 DEF Handler
<1>3. CASE \E s \in Signals : Signal(s)
  BY <1>3 DEF Signal, WaitInv, vars, eventVars
<1>4. CASE \E c \in Clients : ClientActs(c) \/ Callback(c)
  <2> PICK c \in Clients : ClientActs(c) \/ Callback(c)
    BY <1>4
  <2>1. CASE ClientActs(c)
    BY <2>1 DEF ClientActs, Arrive, Leave, WaitInv, daemonVars, eventVars
  <2>2. CASE Callback(c)
    BY <2>2 DEF Callback, ClientConnected, ClientDisconnected, Forget, Release, WaitInv,
                daemonVars, eventVars
  <2> QED BY <2>1, <2>2
<1>5. CASE FinishConsiderEnd
  BY <1>5 DEF FinishConsiderEnd, ConsiderEndSend, ConsiderEndClose, WaitInv, daemonVars
<1>6. CASE UNCHANGED allVars
  BY <1>6 DEF allVars, daemonVars, vars, eventVars, WaitInv
<1> QED BY <1>1, <1>2, <1>3, <1>4, <1>5, <1>6 DEF DaemonNext

(* When the handler has closed the listener, main's wait finds the channel *)
(* that driver.Stop made, however signals, a failing accept and clients    *)
(* interleave with the two steps of the stop (main.go:120-122).            *)
THEOREM TheWaitIsArmed == DaemonSpec => []StopArmsTheWait
<1>1. DaemonInit => WaitInv
  BY DEF DaemonInit, Init, WaitInv
<1>2. WaitInv => StopArmsTheWait
  BY DEF WaitInv, StopArmsTheWait
<1> QED BY <1>1, <1>2, NextWaitInv, PTL DEF DaemonSpec
=============================================================================
