------------------------------- MODULE GuiProofs -------------------------------
(***************************************************************************)
(* What module Gui guarantees for any number of connections and servers    *)
(* and any limit: its inductive invariant IInv, and the properties that    *)
(* follow from it.                                                         *)
(***************************************************************************)
EXTENDS Gui, FiniteSetTheorems, SequenceTheorems, TLAPS

(* The sessions of a server are finitely many.                             *)
LEMMA ServedFinite ==
  ASSUME NEW s
  PROVE  IsFiniteSet(Served(s)) /\ Cardinality(Served(s)) \in Nat
<1>1. Served(s) \subseteq Clients /\ IsFiniteSet(Clients)
  BY BoundsAssumption DEF Served
<1>2. IsFiniteSet(Served(s))
  BY <1>1, FS_Subset
<1> QED BY <1>2, FS_CardinalityType

(* Removing the innermost box leaves the others where they were.           *)
LEMMA Pop ==
  ASSUME stack \in Seq(Frames), stack # <<>>
  PROVE  LET rest == SubSeq(stack, 1, Len(stack) - 1)
         IN  /\ rest \in Seq(Frames)
             /\ Len(rest) = Len(stack) - 1
             /\ \A i \in 1 .. Len(rest) : rest[i] = stack[i]
<1>1. Len(stack) \in Nat /\ Len(stack) > 0
  BY EmptySeq
<1>2. \A i \in 1 .. Len(stack) - 1 : stack[i] \in Frames
  BY <1>1
<1>3. Len(stack) - 1 \in Int /\ 1 \in Int
  BY <1>1
<1>4. Len(stack) - 1 - 1 + 1 = Len(stack) - 1 /\ \A i \in Int : 1 + i - 1 = i
  BY <1>1
<1> DEFINE rest == SubSeq(stack, 1, Len(stack) - 1)
<1>5. /\ rest \in Seq(Frames)
      /\ Len(rest) = IF 1 <= Len(stack) - 1 THEN Len(stack) - 1 - 1 + 1 ELSE 0
      /\ \A i \in 1 .. Len(stack) - 1 - 1 + 1 : rest[i] = stack[1 + i - 1]
  <2> HIDE DEF rest
  <2> QED BY <1>2, <1>3, SubSeqProperties DEF rest
<1> QED BY <1>1, <1>4, <1>5

(* A new box is the innermost one.                                         *)
LEMMA Push ==
  ASSUME stack \in Seq(Frames), NEW f \in Frames
  PROVE  LET more == Append(stack, f)
         IN  /\ more \in Seq(Frames) /\ more # <<>>
             /\ Len(more) = Len(stack) + 1
             /\ more[Len(more)] = f
             /\ \A i \in 1 .. Len(stack) : more[i] = stack[i]
<1> QED BY AppendProperties

-----------------------------------------------------------------------------
(* The invariant holds when the window is shown.                           *)
LEMMA InitIInv == Init => IInv
<1> SUFFICES ASSUME Init PROVE IInv
  OBVIOUS
<1>1. TypeOK
  <2>1. <<>> \in Seq(Frames)
    BY EmptySeq
  <2>2. conn \in [Clients -> [at : {"none", "arrived", "served", "gone"}, of : Servers \cup {0}]]
    BY DEF Init, NotConnected
  <2> QED BY <2>1, <2>2 DEF Init, TypeOK, Steps
<1>2. MutexInv
  BY DEF Init, MutexInv
<1>3. HandleInv /\ OnlyFailuresLoseServers
  BY DEF Init, HandleInv, RunningIsServed, OnlyFailuresLoseServers
<1>4. \A s : Served(s) = {}
  BY DEF Init, Served, NotConnected
<1>5. LimitInv
  BY <1>4, FS_EmptySet, BoundsAssumption DEF LimitInv
<1>6. ConnInv
  BY DEF Init, NotConnected, ConnInv
<1> QED BY <1>1, <1>2, <1>3, <1>5, <1>6 DEF IInv

(* Every step of the program keeps the invariant.                          *)
LEMMA NextIInv == IInv /\ [Next]_vars => IInv'
<1> SUFFICES ASSUME IInv, [Next]_vars PROVE IInv'
  OBVIOUS
<1> USE DEF IInv
<1>sessions. ASSUME UNCHANGED conn
      PROVE  LimitInv' /\ ConnInv'
  BY <1>sessions DEF LimitInv, ConnInv, Served
<1>handles. ASSUME UNCHANGED <<running, current, listener, serve, failed>>
      PROVE  HandleInv' /\ OnlyFailuresLoseServers'
  BY <1>handles DEF HandleInv, RunningIsServed, OnlyFailuresLoseServers
<1>1. CASE CloseWindow
  <2>1. TypeOK'
    BY <1>1 DEF CloseWindow, windowVars, serverVars, AtWindow, InLoop, Up, TypeOK, Steps
  <2>2. MutexInv'
    BY <1>1 DEF CloseWindow, windowVars, serverVars, AtWindow, InLoop, Up, TypeOK, MutexInv
  <2>3. HandleInv' /\ OnlyFailuresLoseServers'
    BY <1>1, <1>handles DEF CloseWindow, windowVars, serverVars, AtWindow, InLoop, Up
  <2>4. LimitInv' /\ ConnInv'
    BY <1>1, <1>sessions DEF CloseWindow, windowVars, serverVars, AtWindow, InLoop, Up
  <2> QED BY <2>1, <2>2, <2>3, <2>4
<1>2. CASE ShowWindow
  <2>1. TypeOK'
    BY <1>2 DEF ShowWindow, windowVars, serverVars, AtTray, InLoop, Up, TypeOK, Steps
  <2>2. MutexInv'
    BY <1>2 DEF ShowWindow, windowVars, serverVars, AtTray, InLoop, Up, TypeOK, MutexInv
  <2>3. HandleInv' /\ OnlyFailuresLoseServers'
    BY <1>2, <1>handles DEF ShowWindow, windowVars, serverVars, AtTray, InLoop, Up
  <2>4. LimitInv' /\ ConnInv'
    BY <1>2, <1>sessions DEF ShowWindow, windowVars, serverVars, AtTray, InLoop, Up
  <2> QED BY <2>1, <2>2, <2>3, <2>4
<1>3. CASE OpenDialog
  <2>1. TypeOK'
    BY <1>3 DEF OpenDialog, windowVars, serverVars, AtWindow, InLoop, Up, TypeOK, Steps, Frames
  <2>2. MutexInv'
    BY <1>3 DEF OpenDialog, windowVars, serverVars, AtWindow, InLoop, Up, TypeOK, MutexInv
  <2>3. HandleInv' /\ OnlyFailuresLoseServers'
    BY <1>3, <1>handles DEF OpenDialog, windowVars, serverVars, AtWindow, InLoop, Up
  <2>4. LimitInv' /\ ConnInv'
    BY <1>3, <1>sessions DEF OpenDialog, windowVars, serverVars, AtWindow, InLoop, Up
  <2> QED BY <2>1, <2>2, <2>3, <2>4
<1>4. CASE OpenBox
  <2>frames. stack \in Seq(Frames) /\ {"start", "box", "dialog"} = Frames
    BY DEF TypeOK, Frames
  <2>1. TypeOK'
    BY <1>4, <2>frames, Push DEF OpenBox, windowVars, serverVars, AtWindow, InLoop, Up, TypeOK
  <2>2. MutexInv'
    BY <1>4, <2>frames, Push DEF OpenBox, windowVars, serverVars, AtWindow, InLoop, Up, MutexInv
  <2>3. HandleInv' /\ OnlyFailuresLoseServers'
    BY <1>4, <1>handles DEF OpenBox, windowVars, serverVars, AtWindow, InLoop, Up
  <2>4. LimitInv' /\ ConnInv'
    BY <1>4, <1>sessions DEF OpenBox, windowVars, serverVars, AtWindow, InLoop, Up
  <2> QED BY <2>1, <2>2, <2>3, <2>4
<1>5. CASE AnswerBox
  <2>frames. stack \in Seq(Frames) /\ {"start", "box", "dialog"} = Frames
    BY DEF TypeOK, Frames
  <2>1. TypeOK'
    BY <1>5, <2>frames, Pop DEF AnswerBox, windowVars, serverVars, InLoop, Up, TypeOK
  <2>2. MutexInv'
    BY <1>5, <2>frames, Pop, EmptySeq
    DEF AnswerBox, windowVars, serverVars, InLoop, Up, MutexInv, TypeOK
  <2>3. HandleInv' /\ OnlyFailuresLoseServers'
    BY <1>5, <1>handles DEF AnswerBox, windowVars, serverVars, InLoop, Up
  <2>4. LimitInv' /\ ConnInv'
    BY <1>5, <1>sessions DEF AnswerBox, windowVars, serverVars, InLoop, Up
  <2> QED BY <2>1, <2>2, <2>3, <2>4
<1>6. CASE PressStart
  <2>1. TypeOK'
    BY <1>6
    DEF PressStart, windowVars, serverVars, Lock, AtWindow, AtTray, InLoop, Up, TypeOK, Steps
  <2>2. MutexInv'
    BY <1>6
    DEF PressStart, windowVars, serverVars, Lock, AtWindow, AtTray, InLoop, Up, TypeOK, MutexInv
  <2>3. HandleInv' /\ OnlyFailuresLoseServers'
    BY <1>6, <1>handles DEF PressStart, windowVars, serverVars, Lock, AtWindow, AtTray, InLoop, Up
  <2>4. LimitInv' /\ ConnInv'
    BY <1>6, <1>sessions
    DEF PressStart, windowVars, serverVars, Lock, AtWindow, AtTray, InLoop, Up
  <2> QED BY <2>1, <2>2, <2>3, <2>4
<1>7. CASE PressStop
  <2>1. TypeOK'
    BY <1>7
    DEF PressStop, windowVars, serverVars, Lock, AtWindow, AtTray, InLoop, Up, TypeOK, Steps
  <2>2. MutexInv'
    BY <1>7
    DEF PressStop, windowVars, serverVars, Lock, AtWindow, AtTray, InLoop, Up, TypeOK, MutexInv
  <2>3. HandleInv' /\ OnlyFailuresLoseServers'
    BY <1>7, <1>handles DEF PressStop, windowVars, serverVars, Lock, AtWindow, AtTray, InLoop, Up
  <2>4. LimitInv' /\ ConnInv'
    BY <1>7, <1>sessions DEF PressStop, windowVars, serverVars, Lock, AtWindow, AtTray, InLoop, Up
  <2> QED BY <2>1, <2>2, <2>3, <2>4
<1>8. CASE PressExit
  <2>1. TypeOK'
    BY <1>8
    DEF PressExit, windowVars, serverVars, Lock, AtWindow, AtTray, InLoop, Up, TypeOK, Steps
  <2>2. MutexInv'
    BY <1>8
    DEF PressExit, windowVars, serverVars, Lock, AtWindow, AtTray, InLoop, Up, TypeOK, MutexInv
  <2>3. HandleInv' /\ OnlyFailuresLoseServers'
    BY <1>8, <1>handles DEF PressExit, windowVars, serverVars, Lock, AtWindow, AtTray, InLoop, Up
  <2>4. LimitInv' /\ ConnInv'
    BY <1>8, <1>sessions DEF PressExit, windowVars, serverVars, Lock, AtWindow, AtTray, InLoop, Up
  <2> QED BY <2>1, <2>2, <2>3, <2>4
<1>9. CASE StartFails
  <2>frames. stack \in Seq(Frames) /\ {"start", "box", "dialog"} = Frames
    BY DEF TypeOK, Frames
  <2>1. TypeOK'
    BY <1>9, <2>frames, Push DEF StartFails, windowVars, serverVars, Up, TypeOK, Steps
  <2>2. MutexInv'
    BY <1>9, <2>frames, Push DEF StartFails, windowVars, serverVars, Up, MutexInv
  <2>3. HandleInv' /\ OnlyFailuresLoseServers'
    BY <1>9, <1>handles DEF StartFails, windowVars, serverVars, Up
  <2>4. LimitInv' /\ ConnInv'
    BY <1>9, <1>sessions DEF StartFails, windowVars, serverVars, Up
  <2> QED BY <2>1, <2>2, <2>3, <2>4
<1>10. CASE SaveConfig
  <2>1. TypeOK'
    BY <1>10 DEF SaveConfig, windowVars, serverVars, Up, TypeOK, Steps
  <2>2. MutexInv'
    BY <1>10 DEF SaveConfig, windowVars, serverVars, Up, TypeOK, MutexInv
  <2>3. HandleInv' /\ OnlyFailuresLoseServers'
    BY <1>10, <1>handles DEF SaveConfig, windowVars, serverVars, Up
  <2>4. LimitInv' /\ ConnInv'
    BY <1>10, <1>sessions DEF SaveConfig, windowVars, serverVars, Up
  <2> QED BY <2>1, <2>2, <2>3, <2>4
<1>11. CASE NewServer
  <2>1. TypeOK'
    BY <1>11 DEF NewServer, windowVars, serverVars, Up, TypeOK, Steps
  <2>2. MutexInv'
    BY <1>11 DEF NewServer, windowVars, serverVars, Up, TypeOK, MutexInv
  <2>3. HandleInv' /\ OnlyFailuresLoseServers'
    BY <1>11, <1>handles DEF NewServer, windowVars, serverVars, Up
  <2>4. LimitInv' /\ ConnInv'
    BY <1>11, <1>sessions DEF NewServer, windowVars, serverVars, Up
  <2> QED BY <2>1, <2>2, <2>3, <2>4
<1>12. ASSUME NEW s \in Servers, Listen(s) PROVE IInv'
  <2>1. TypeOK'
    BY <1>12 DEF Listen, windowVars, serverVars, Up, TypeOK, Steps
  <2>2. MutexInv'
    BY <1>12 DEF Listen, windowVars, serverVars, Up, TypeOK, MutexInv
  <2>3. RunningIsServed' /\ running' /\ (\A t \in Servers : serve[t] \in {"failed", "posted"} =>
      t \in failed)'
    BY <1>12, BoundsAssumption
    DEF Listen, windowVars, serverVars, Up, RunningIsServed, HandleInv, TypeOK, Servers
  <2>4. HandleInv'
    BY <1>12, <2>3 DEF Listen, windowVars, serverVars, Up, HandleInv
  <2>5. OnlyFailuresLoseServers'
    BY <1>12 DEF Listen, windowVars, serverVars, Up, OnlyFailuresLoseServers, MutexInv, TypeOK
  <2>6. LimitInv' /\ ConnInv'
    BY <1>12, <1>sessions DEF Listen, windowVars, serverVars, Up
  <2> QED BY <2>1, <2>2, <2>3, <2>4, <2>5, <2>6
<1>13. CASE StopDriver
  <2>1. TypeOK'
    BY <1>13
    DEF StopDriver, windowVars, serverVars, Up, TypeOK, Steps, MutexInv, HandleInv,
        RunningIsServed
  <2>2. MutexInv'
    BY <1>13 DEF StopDriver, windowVars, serverVars, Up, TypeOK, MutexInv
  <2>3. HandleInv' /\ OnlyFailuresLoseServers'
    BY <1>13, <1>handles DEF StopDriver, windowVars, serverVars, Up
  <2>4. LimitInv' /\ ConnInv'
    BY <1>13, <1>sessions DEF StopDriver, windowVars, serverVars, Up
  <2> QED BY <2>1, <2>2, <2>3, <2>4
<1>14. CASE StopListener
  <2>1. TypeOK'
    BY <1>14 DEF StopListener, windowVars, serverVars, Up, SetStopped, TypeOK, Steps
  <2>2. MutexInv'
    BY <1>14 DEF StopListener, windowVars, serverVars, Up, SetStopped, TypeOK, MutexInv
  <2>3. HandleInv' /\ OnlyFailuresLoseServers'
    BY <1>14
    DEF StopListener, windowVars, serverVars, Up, SetStopped, HandleInv, RunningIsServed,
        OnlyFailuresLoseServers, TypeOK, MutexInv
  <2>4. LimitInv' /\ ConnInv'
    BY <1>14, <1>sessions DEF StopListener, windowVars, serverVars, Up, SetStopped
  <2> QED BY <2>1, <2>2, <2>3, <2>4
<1>15. CASE CloseProgram
  <2>1. TypeOK'
    BY <1>15 DEF CloseProgram, windowVars, serverVars, Up, TypeOK, Steps
  <2>2. MutexInv'
    BY <1>15 DEF CloseProgram, windowVars, serverVars, Up, TypeOK, MutexInv
  <2>3. HandleInv' /\ OnlyFailuresLoseServers'
    BY <1>15, <1>handles DEF CloseProgram, windowVars, serverVars, Up
  <2>4. LimitInv' /\ ConnInv'
    BY <1>15, <1>sessions DEF CloseProgram, windowVars, serverVars, Up
  <2> QED BY <2>1, <2>2, <2>3, <2>4
<1>16. ASSUME NEW s \in Servers, AcceptFails(s) PROVE IInv'
  <2>1. TypeOK'
    BY <1>16 DEF AcceptFails, windowVars, serverVars, Up, TypeOK, Steps
  <2>2. MutexInv'
    BY <1>16 DEF AcceptFails, windowVars, serverVars, Up, TypeOK, MutexInv
  <2>3. HandleInv' /\ OnlyFailuresLoseServers'
    BY <1>16
    DEF AcceptFails, windowVars, serverVars, Up, HandleInv, RunningIsServed,
        OnlyFailuresLoseServers, TypeOK
  <2>4. LimitInv' /\ ConnInv'
    BY <1>16, <1>sessions DEF AcceptFails, windowVars, serverVars, Up
  <2> QED BY <2>1, <2>2, <2>3, <2>4
<1>17. ASSUME NEW s \in Servers, ServeReturns(s) PROVE IInv'
  <2>1. TypeOK'
    BY <1>17 DEF ServeReturns, windowVars, serverVars, Up, TypeOK, Steps
  <2>2. MutexInv'
    BY <1>17 DEF ServeReturns, windowVars, serverVars, Up, TypeOK, MutexInv
  <2>3. HandleInv' /\ OnlyFailuresLoseServers'
    BY <1>17
    DEF ServeReturns, windowVars, serverVars, Up, HandleInv, RunningIsServed,
        OnlyFailuresLoseServers, TypeOK
  <2>4. LimitInv' /\ ConnInv'
    BY <1>17, <1>sessions DEF ServeReturns, windowVars, serverVars, Up
  <2> QED BY <2>1, <2>2, <2>3, <2>4
<1>18. ASSUME NEW s \in Servers, ServeReports(s) PROVE IInv'
  <2>1. TypeOK'
    BY <1>18 DEF ServeReports, windowVars, serverVars, Up, TypeOK, Steps
  <2>2. MutexInv'
    BY <1>18 DEF ServeReports, windowVars, serverVars, Up, TypeOK, MutexInv
  <2>3. HandleInv' /\ OnlyFailuresLoseServers'
    BY <1>18
    DEF ServeReports, windowVars, serverVars, Up, HandleInv, RunningIsServed,
        OnlyFailuresLoseServers, TypeOK
  <2>4. LimitInv' /\ ConnInv'
    BY <1>18, <1>sessions DEF ServeReports, windowVars, serverVars, Up
  <2> QED BY <2>1, <2>2, <2>3, <2>4
<1>19. ASSUME NEW s \in Servers, RunPosted(s) PROVE IInv'
  <2>1. TypeOK'
    BY <1>19 DEF RunPosted, windowVars, serverVars, Up, InLoop, SetStopped, TypeOK, Steps
  <2>2. MutexInv'
    BY <1>19 DEF RunPosted, windowVars, serverVars, Up, InLoop, SetStopped, TypeOK, MutexInv
  <2>3. HandleInv' /\ OnlyFailuresLoseServers'
    BY <1>19
    DEF RunPosted, windowVars, serverVars, Up, InLoop, SetStopped, HandleInv, RunningIsServed,
        OnlyFailuresLoseServers, TypeOK
  <2>4. LimitInv' /\ ConnInv'
    BY <1>19, <1>sessions DEF RunPosted, windowVars, serverVars, Up, InLoop, SetStopped
  <2> QED BY <2>1, <2>2, <2>3, <2>4
<1>20. ASSUME NEW s \in Servers, Collect(s) PROVE IInv'
  <2>1. TypeOK'
    BY <1>20 DEF Collect, windowVars, serverVars, Up, TypeOK, Steps
  <2>2. MutexInv'
    BY <1>20 DEF Collect, windowVars, serverVars, Up, TypeOK, MutexInv
  <2>3. HandleInv' /\ OnlyFailuresLoseServers'
    BY <1>20
    DEF Collect, windowVars, serverVars, Up, HandleInv, RunningIsServed, OnlyFailuresLoseServers,
        TypeOK
  <2>4. LimitInv' /\ ConnInv'
    BY <1>20, <1>sessions DEF Collect, windowVars, serverVars, Up
  <2> QED BY <2>1, <2>2, <2>3, <2>4
<1>60. ASSUME NEW c \in Clients, NEW s \in Servers, Arrive(c, s) PROVE IInv'
  <2>1. conn' = [conn EXCEPT ![c] = [at |-> "arrived", of |-> s]] /\ conn[c].at = "none"
    BY <1>60 DEF Arrive
  <2>2. TypeOK'
    BY <1>60, <2>1 DEF Arrive, Up, TypeOK, Steps, windowVars, serverVars
  <2>3. MutexInv'
    BY <1>60 DEF Arrive, MutexInv, windowVars
  <2>4. HandleInv' /\ OnlyFailuresLoseServers'
    BY <1>60, <1>handles DEF Arrive, windowVars, serverVars
  <2>5. \A t \in Servers : Served(t)' = Served(t)
    BY <2>1 DEF Served, TypeOK
  <2>6. LimitInv'
    BY <2>5 DEF LimitInv
  <2>7. ConnInv'
    BY <2>1 DEF TypeOK, ConnInv
  <2> QED BY <2>2, <2>3, <2>4, <2>6, <2>7
<1>61. ASSUME NEW c \in Clients, ClientConnected(c) PROVE IInv'
  <2>1. PICK at \in {"gone", "served"} :
          /\ conn' = [conn EXCEPT ![c].at = at]
          /\ conn[c].at = "arrived"
          /\ at = "served" => ~LimitReached(conn[c].of)
    BY <1>61 DEF ClientConnected
  <2>2. conn[c] \in [at : {"none", "arrived", "served", "gone"}, of : Servers \cup {0}]
    BY DEF TypeOK
  <2>3. TypeOK'
    BY <1>61, <2>1, <2>2 DEF ClientConnected, Up, TypeOK, Steps, windowVars, serverVars
  <2>4. MutexInv'
    BY <1>61 DEF ClientConnected, MutexInv, windowVars
  <2>5. HandleInv' /\ OnlyFailuresLoseServers'
    BY <1>61, <1>handles DEF ClientConnected, windowVars, serverVars
  <2>6. LimitInv'
    <3>1. SUFFICES ASSUME NEW s \in Servers, MaxClients > 0
                   PROVE  Cardinality(Served(s)') <= MaxClients
      BY DEF LimitInv
    <3>2. CASE Served(s)' = Served(s)
      BY <3>1, <3>2 DEF LimitInv
    <3>3. CASE Served(s)' = Served(s) \cup {c} /\ ~LimitReached(s)
      <4>0. Cardinality(Served(s) \cup {c}) <= Cardinality(Served(s)) + 1
        BY ServedFinite, FS_AddElement
      <4>1. Cardinality(Served(s)') <= Cardinality(Served(s)) + 1
        BY <3>3, <4>0
      <4>2. Cardinality(Served(s)) < MaxClients
        BY <3>1, <3>3, ServedFinite, BoundsAssumption DEF LimitReached
      <4>3. Cardinality(Served(s)') \in Nat
        BY <3>3, ServedFinite, FS_AddElement, FS_CardinalityType
      <4> QED BY <4>1, <4>2, <4>3, ServedFinite, BoundsAssumption
    <3>4. \/ Served(s)' = Served(s)
          \/ Served(s)' = Served(s) \cup {c} /\ ~LimitReached(s)
      BY <2>1, <2>2 DEF Served, TypeOK
    <3> QED BY <3>2, <3>3, <3>4
  <2>7. ConnInv'
    BY <2>1, <2>2 DEF TypeOK, ConnInv
  <2> QED BY <2>3, <2>4, <2>5, <2>6, <2>7
<1>62. ASSUME NEW c \in Clients, ClientDisconnected(c) PROVE IInv'
  <2>1. conn' = [conn EXCEPT ![c].at = "gone"] /\ conn[c].at = "served"
    BY <1>62 DEF ClientDisconnected
  <2>2. conn[c] \in [at : {"none", "arrived", "served", "gone"}, of : Servers \cup {0}]
    BY DEF TypeOK
  <2>3. conn' \in [Clients -> [at : {"none", "arrived", "served", "gone"}, of : Servers \cup {0}]]
    BY <2>1, <2>2 DEF TypeOK
  <2>4. announced' \subseteq stopping /\ life' \in {"up", "crashed"}
    BY <1>62 DEF ClientDisconnected, Up, TypeOK
  <2>5. TypeOK'
    BY <1>62, <2>3, <2>4 DEF ClientDisconnected, TypeOK, windowVars
  <2>6. MutexInv'
    BY <1>62 DEF ClientDisconnected, MutexInv, windowVars
  <2>7. HandleInv' /\ OnlyFailuresLoseServers'
    BY <1>62, <1>handles DEF ClientDisconnected, windowVars
  <2>8. \A s \in Servers : Served(s)' \subseteq Served(s)
    BY <2>1, <2>2 DEF Served, TypeOK
  <2>9. ASSUME NEW s \in Servers, MaxClients > 0 PROVE Cardinality(Served(s)') <= MaxClients
    <3>1. Cardinality(Served(s)') <= Cardinality(Served(s)) /\ IsFiniteSet(Served(s)')
      BY <2>8, ServedFinite, FS_Subset
    <3>2. Cardinality(Served(s)') \in Nat
      BY <3>1, FS_CardinalityType
    <3> QED BY <2>9, <3>1, <3>2, ServedFinite, BoundsAssumption DEF LimitInv
  <2>10. LimitInv'
    BY <2>9 DEF LimitInv
  <2>11. ConnInv'
    BY <2>1, <2>2 DEF TypeOK, ConnInv
  <2> QED BY <2>5, <2>6, <2>7, <2>10, <2>11
<1>63. CASE UNCHANGED vars
  <2>1. UNCHANGED <<running, current, listener, serve, failed>> /\ UNCHANGED conn
    BY <1>63 DEF vars, windowVars, serverVars
  <2>2. TypeOK' /\ MutexInv'
    BY <1>63 DEF vars, windowVars, serverVars, TypeOK, MutexInv
  <2> QED BY <1>handles, <1>sessions, <2>1, <2>2
<1> QED
  BY <1>1, <1>2, <1>3, <1>4, <1>5, <1>6, <1>7, <1>8, <1>9, <1>10, <1>11, <1>12, <1>13, <1>14,
      <1>15, <1>16, <1>17, <1>18, <1>19, <1>20, <1>60, <1>61, <1>62, <1>63
  DEF Next, Handlers

(* IInv holds in every reachable state.                                    *)
THEOREM Invariance == Spec => []IInv
<1> QED BY InitIInv, NextIInv, PTL DEF Spec

-----------------------------------------------------------------------------
(* The properties.                                                         *)

(* The state of the program keeps its types (main_windows.go).             *)
THEOREM TypeCorrect == Spec => []TypeOK
<1>1. IInv => TypeOK
  BY DEF IInv
<1> QED BY <1>1, Invariance, PTL

(* While the window says that a server runs, it has the one that serves,   *)
(* or whose failure is on its way to the window.                           *)
THEOREM TheWindowHasTheServer == Spec => []RunningIsServed
<1>1. IInv => RunningIsServed
  BY DEF IInv, HandleInv
<1> QED BY <1>1, Invariance, PTL

(* As long as no accept fails, every listening server can be stopped from  *)
(* the window, whatever is nested in what.                                 *)
THEOREM NoServerIsLost == Spec => []OnlyFailuresLoseServers
<1>1. IInv => OnlyFailuresLoseServers
  BY DEF IInv
<1> QED BY <1>1, Invariance, PTL

(* The UI thread locks the mutex it holds only inside a box of start, and  *)
(* never while the window says that a server runs.                         *)
THEOREM HangsWithNothingRunning == Spec => []HangFindsNothingRunning
<1>1. IInv => HangFindsNothingRunning
  <2> SUFFICES ASSUME IInv, ui = "blocked" PROVE HangFindsNothingRunning
    BY DEF HangFindsNothingRunning
  <2>1. stack # <<>> /\ stack[Len(stack)] = "start" /\ stack \in Seq(Frames)
    BY DEF IInv, MutexInv, TypeOK
  <2>2. Len(stack) \in 1 .. Len(stack) /\ DOMAIN stack = 1 .. Len(stack)
    BY <2>1, EmptySeq
  <2>3. ~running
    BY <2>1, <2>2 DEF IInv, MutexInv
  <2> QED BY <2>1, <2>2, <2>3 DEF HangFindsNothingRunning
<1> QED BY <1>1, Invariance, PTL

(* More sessions than max_clients need the sessions of two drivers.        *)
THEOREM EachDriverKeepsItsLimit == Spec => []OverLimitOnlyAcrossServers
<1>1. IInv => OverLimitOnlyAcrossServers
  <2> DEFINE served == {c \in Clients : conn[c].at = "served"}
  <2> SUFFICES ASSUME IInv, MaxClients > 0, Cardinality(served) > MaxClients,
                      \A c, d \in served : conn[c].of = conn[d].of
               PROVE  FALSE
    BY DEF OverLimitOnlyAcrossServers
  <2>1. served # {}
    BY FS_EmptySet, BoundsAssumption
  <2>2. PICK c \in served : TRUE
    BY <2>1
  <2>3. conn[c].of \in Servers
    BY <2>2 DEF IInv, ConnInv
  <2>4. served = Served(conn[c].of)
    BY <2>2 DEF Served
  <2>5. Cardinality(served) <= MaxClients
    BY <2>3, <2>4 DEF IInv, LimitInv
  <2>6. Cardinality(served) \in Nat
    BY <2>4, ServedFinite
  <2> QED BY <2>5, <2>6, BoundsAssumption
<1> QED BY <1>1, Invariance, PTL
=============================================================================
