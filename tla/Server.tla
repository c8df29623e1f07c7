------------------------------- MODULE Server -------------------------------
(***************************************************************************)
(* The driver of server/server.go, the part that lives as long as the      *)
(* process: the callbacks ClientConnected and ClientDisconnected, called   *)
(* by the goroutine of each connection, the stop that another goroutine    *)
(* asks for, and WaitGracefully.  They share nbClients and acceptedClients *)
(* under nbClientsSync, and the channel zeroClientEvent, which Stop makes  *)
(* under the mutex and WaitGracefully reads and clears without it.         *)
(*                                                                         *)
(* The connections come from ftpserverlib, an external library, modelled   *)
(* as this code uses it: one goroutine per accepted connection calls       *)
(* ClientConnected once, and ClientDisconnected once when it ends, whether *)
(* it was admitted or not.  A panic in either callback is recovered by     *)
(* nobody, so it ends the process.                                         *)
(*                                                                         *)
(* A critical section is one step unless it sends to the channel: then the *)
(* send and the close are steps of their own, taken with the mutex held.   *)
(***************************************************************************)
EXTENDS Integers, FiniteSets

CONSTANTS
  Clients,  \* the connections of a run, one client context each
  Limits,   \* the values max_clients takes; 0 and below mean no limit
  UintMod,  \* 2^w, for the w bits of nbClients (uint32 in the code)
  Stopper,  \* the goroutine that calls Stop
  NoOne     \* the holder of a free mutex

ASSUME ClientsAssumption ==
  /\ IsFiniteSet(Clients)
  /\ Stopper \notin Clients
  /\ NoOne \notin Clients \cup {Stopper}

\* A run has fewer connections than nbClients can count.
ASSUME WidthAssumption == UintMod \in Nat /\ Cardinality(Clients) < UintMod

ASSUME LimitsAssumption == Limits \subseteq Int /\ Limits # {}

VARIABLES
  maxClients,       \* s.config.Content.MaxClients
  nbClients,        \* s.nbClients
  acceptedClients,  \* the keys of s.acceptedClients
  holder,           \* who holds nbClientsSync
  ending,           \* what the holder has left to do in considerEnd
  zeroClientEvent,  \* s.zeroClientEvent is not nil
  buffer,           \* the value in the channel that Stop made
  closed,           \* that channel is closed
  listener,         \* the listening socket
  conn,             \* where the goroutine of each connection is
  waiter,           \* where the caller of WaitGracefully is
  crashed           \* a panic ended the process

lockVars   == <<nbClients, acceptedClients, holder, ending>>
eventVars  == <<zeroClientEvent, buffer, closed>>
vars == <<maxClients, lockVars, eventVars, listener, conn, waiter, crashed>>

ConnStates   == {"none", "arrived", "serving", "rejected", "leaving", "ending", "gone"}
WaiterStates == {"idle", "waiting", "waitingNil", "received", "expired",
                 "returnedNil", "returnedTimeout"}

TypeOK ==
  /\ maxClients \in Limits
  /\ nbClients \in 0 .. UintMod - 1
  /\ acceptedClients \subseteq Clients
  /\ holder \in Clients \cup {Stopper, NoOne}
  /\ ending \in {"no", "send", "close", "blocked"}
  /\ zeroClientEvent \in BOOLEAN
  /\ buffer \in {"unmade", "empty", "full", "taken"}
  /\ closed \in BOOLEAN
  /\ listener \in {"none", "open", "closed"}
  /\ conn \in [Clients -> ConnStates]
  /\ waiter \in WaiterStates
  /\ crashed \in BOOLEAN

Init ==
  /\ maxClients \in Limits
  /\ nbClients = 0
  /\ acceptedClients = {}
  /\ holder = NoOne
  /\ ending = "no"
  /\ zeroClientEvent = FALSE
  /\ buffer = "unmade"
  /\ closed = FALSE
  /\ listener = "none"
  /\ conn = [c \in Clients |-> "none"]
  /\ waiter = "idle"
  /\ crashed = FALSE

-----------------------------------------------------------------------------
(* The listener and the connections, as ftpserverlib runs them.            *)

Listen ==
  /\ ~crashed
  /\ listener = "none"
  /\ listener' = "open"
  /\ UNCHANGED <<maxClients, lockVars, eventVars, conn, waiter, crashed>>

\* FtpServer.Stop closes the listener and no connection.
CloseListener ==
  /\ ~crashed
  /\ listener = "open"
  /\ listener' = "closed"
  /\ UNCHANGED <<maxClients, lockVars, eventVars, conn, waiter, crashed>>

Arrive(c) ==
  /\ ~crashed
  /\ listener = "open"
  /\ conn[c] = "none"
  /\ conn' = [conn EXCEPT ![c] = "arrived"]
  /\ UNCHANGED <<maxClients, lockVars, eventVars, listener, waiter, crashed>>

\* The client quits, its connection breaks, or it idles too long.
Leave(c) ==
  /\ ~crashed
  /\ conn[c] = "serving"
  /\ conn' = [conn EXCEPT ![c] = "leaving"]
  /\ UNCHANGED <<maxClients, lockVars, eventVars, listener, waiter, crashed>>

-----------------------------------------------------------------------------
(* The callbacks.                                                          *)

\* uint32(n)
Uint32(n) == n % UintMod

\* Mutant of LimitReached: one session too many.
LimitPassed == maxClients > 0 /\ nbClients > Uint32(maxClients)

\* max_clients is set and nbClients has reached it.
LimitReached == maxClients > 0 /\ nbClients >= Uint32(maxClients)

\* s.nbClients++ and s.nbClients-- on a uint32
Increment(n) == IF n = UintMod - 1 THEN 0 ELSE n + 1
Decrement(n) == IF n = 0 THEN UintMod - 1 ELSE n - 1

\* The load replaces the whole content; a failed one may leave either.
ReloadConfig ==
  /\ ~crashed
  /\ maxClients' \in Limits
  /\ UNCHANGED <<lockVars, eventVars, listener, conn, waiter, crashed>>

Reject(c) ==
  /\ LimitReached
  /\ conn' = [conn EXCEPT ![c] = "rejected"]
  /\ UNCHANGED <<nbClients, acceptedClients>>

Accept(c) ==
  /\ ~LimitReached
  /\ conn' = [conn EXCEPT ![c] = "serving"]
  /\ nbClients' = Increment(nbClients)
  /\ acceptedClients' = acceptedClients \cup {c}

ClientConnected(c) ==
  /\ ~crashed
  /\ conn[c] = "arrived"
  /\ holder = NoOne
  /\ Reject(c) \/ Accept(c)
  /\ UNCHANGED <<maxClients, holder, ending, eventVars, listener, waiter, crashed>>

\* Mutant of ConsiderEnd: the last but one session ends the server.
ConsiderEndEarly(h) ==
  IF nbClients' <= 1 /\ zeroClientEvent'
    THEN holder' = h /\ ending' = "send"
    ELSE holder' = NoOne /\ ending' = "no"

\* considerEnd, called by h with the mutex held: the check here, the send
\* and the close below.  Without the event, the deferred unlock follows.
ConsiderEnd(h) ==
  IF nbClients' = 0 /\ zeroClientEvent'
    THEN holder' = h /\ ending' = "send"
    ELSE holder' = NoOne /\ ending' = "no"

\* Mutant of Forget: an early return that skips the unlock.
ForgetLocked(c) ==
  /\ c \notin acceptedClients
  /\ conn' = [conn EXCEPT ![c] = "gone"]
  /\ holder' = c
  /\ UNCHANGED <<nbClients, acceptedClients, ending, eventVars>>

Forget(c) ==
  /\ c \notin acceptedClients
  /\ conn' = [conn EXCEPT ![c] = "gone"]
  /\ UNCHANGED <<lockVars, eventVars>>

\* Mutant of Release: a rejected connection is counted off too.
ReleaseUnchecked(c) ==
  /\ acceptedClients' = acceptedClients \ {c}
  /\ nbClients' = Decrement(nbClients)
  /\ UNCHANGED eventVars
  /\ ConsiderEnd(c)
  /\ conn' = [conn EXCEPT ![c] = IF holder' = c THEN "ending" ELSE "gone"]

\* Mutant of Release: the same, on a signed counter.
ReleaseSigned(c) ==
  /\ acceptedClients' = acceptedClients \ {c}
  /\ nbClients' = nbClients - 1
  /\ UNCHANGED eventVars
  /\ ConsiderEnd(c)
  /\ conn' = [conn EXCEPT ![c] = IF holder' = c THEN "ending" ELSE "gone"]

\* Mutant of Release: nobody considers the end.
ReleaseSilently(c) ==
  /\ c \in acceptedClients
  /\ acceptedClients' = acceptedClients \ {c}
  /\ nbClients' = Decrement(nbClients)
  /\ conn' = [conn EXCEPT ![c] = "gone"]
  /\ UNCHANGED <<eventVars, holder, ending>>

Release(c) ==
  /\ c \in acceptedClients
  /\ acceptedClients' = acceptedClients \ {c}
  /\ nbClients' = Decrement(nbClients)
  /\ UNCHANGED eventVars
  /\ ConsiderEnd(c)
  /\ conn' = [conn EXCEPT ![c] = IF holder' = c THEN "ending" ELSE "gone"]

ClientDisconnected(c) ==
  /\ ~crashed
  /\ conn[c] \in {"rejected", "leaving"}
  /\ holder = NoOne
  /\ Forget(c) \/ Release(c)
  /\ UNCHANGED <<maxClients, listener, waiter, crashed>>

\* Called once: this program makes the channel once in the life of a driver.
Stop ==
  /\ ~crashed
  /\ buffer = "unmade"
  /\ holder = NoOne
  /\ zeroClientEvent' = TRUE
  /\ buffer' = "empty"
  /\ UNCHANGED <<closed, nbClients, acceptedClients>>
  /\ ConsiderEnd(Stopper)
  /\ UNCHANGED <<maxClients, listener, conn, waiter, crashed>>

-----------------------------------------------------------------------------
(* The rest of considerEnd, with the mutex held.  Its three reads of       *)
(* s.zeroClientEvent race with the store in WaitGracefully.                *)

SendEvent ==
  /\ ~closed
  /\ buffer # "full"
  /\ buffer' = "full"
  /\ ending' = "close"
  /\ UNCHANGED <<closed, crashed>>

SendOnClosed ==
  /\ closed
  /\ crashed' = TRUE
  /\ UNCHANGED <<buffer, closed, ending>>

\* The second read finds nil: a send on a nil channel blocks for ever.
SendOnNil ==
  /\ ~zeroClientEvent
  /\ ending' = "blocked"
  /\ UNCHANGED <<buffer, closed, crashed>>

ConsiderEndSend ==
  /\ ~crashed
  /\ ending = "send"
  /\ SendEvent \/ SendOnClosed \/ SendOnNil
  /\ UNCHANGED <<maxClients, nbClients, acceptedClients, holder, zeroClientEvent,
                 listener, conn, waiter>>

\* Mutant of CloseEvent: the channel stays open.
LeaveEventOpen ==
  /\ zeroClientEvent
  /\ ending' = "no"
  /\ holder' = NoOne
  /\ conn' = [c \in Clients |-> IF c = holder THEN "gone" ELSE conn[c]]
  /\ UNCHANGED <<closed, crashed>>

CloseEvent ==
  /\ zeroClientEvent
  /\ closed' = TRUE
  /\ ending' = "no"
  /\ holder' = NoOne
  /\ conn' = [c \in Clients |-> IF c = holder THEN "gone" ELSE conn[c]]
  /\ UNCHANGED crashed

CloseNil ==
  /\ ~zeroClientEvent
  /\ crashed' = TRUE
  /\ UNCHANGED <<closed, ending, holder, conn>>

ConsiderEndClose ==
  /\ ~crashed
  /\ ending = "close"
  /\ CloseEvent \/ CloseNil
  /\ UNCHANGED <<maxClients, nbClients, acceptedClients, zeroClientEvent, buffer,
                 listener, waiter>>

-----------------------------------------------------------------------------
(* WaitGracefully: the select reads the channel once, and the deferred     *)
(* store clears it without the mutex.                                      *)

WaitGracefully ==
  /\ ~crashed
  /\ waiter = "idle"
  /\ waiter' = IF zeroClientEvent THEN "waiting" ELSE "waitingNil"
  /\ UNCHANGED <<maxClients, lockVars, eventVars, listener, conn, crashed>>

WaitReceive ==
  /\ ~crashed
  /\ waiter = "waiting"
  /\ buffer = "full"
  /\ buffer' = "taken"
  /\ waiter' = "received"
  /\ UNCHANGED <<maxClients, lockVars, zeroClientEvent, closed, listener, conn, crashed>>

\* Mutant of WaitTimeout: no timer beside the channel.
WaitTimeoutOnNil ==
  /\ ~crashed
  /\ waiter = "waitingNil"
  /\ waiter' = "expired"
  /\ UNCHANGED <<maxClients, lockVars, eventVars, listener, conn, crashed>>

WaitTimeout ==
  /\ ~crashed
  /\ waiter \in {"waiting", "waitingNil"}
  /\ waiter' = "expired"
  /\ UNCHANGED <<maxClients, lockVars, eventVars, listener, conn, crashed>>

WaitReturn ==
  /\ ~crashed
  /\ waiter \in {"received", "expired"}
  /\ zeroClientEvent' = FALSE
  /\ waiter' = IF waiter = "received" THEN "returnedNil" ELSE "returnedTimeout"
  /\ UNCHANGED <<maxClients, lockVars, buffer, closed, listener, conn, crashed>>

-----------------------------------------------------------------------------
Next ==
  \/ Listen \/ CloseListener
  \/ ReloadConfig
  \/ \E c \in Clients : \/ Arrive(c) \/ Leave(c)
                        \/ ClientConnected(c) \/ ClientDisconnected(c)
  \/ Stop
  \/ ConsiderEndSend \/ ConsiderEndClose
  \/ WaitGracefully \/ WaitReceive \/ WaitTimeout \/ WaitReturn

Spec == Init /\ [][Next]_vars

(***************************************************************************)
(* A goroutine that can run does, a mutex is granted to whoever waits for  *)
(* it (sync.Mutex does not starve), and the timer of WaitGracefully fires. *)
(* Nothing makes a client arrive or leave, or anyone stop the server.      *)
(***************************************************************************)
Fairness ==
  /\ \A c \in Clients : SF_vars(ClientConnected(c)) /\ SF_vars(ClientDisconnected(c))
  /\ WF_vars(ConsiderEndSend) /\ WF_vars(ConsiderEndClose)
  /\ WF_vars(WaitReceive) /\ WF_vars(WaitTimeout) /\ WF_vars(WaitReturn)

FairSpec == Spec /\ Fairness

-----------------------------------------------------------------------------
(* Correctness.                                                            *)

\* nbClients and acceptedClients (server.go:121-122, 145-146) count the same
\* sessions, those ClientConnected admitted and ClientDisconnected has not
\* seen the end of, whatever the order of the callbacks, rejected
\* connections and reloads of the limit.
CountsSessions ==
  /\ nbClients = Cardinality(acceptedClients)
  /\ acceptedClients = {c \in Clients : conn[c] \in {"serving", "leaving"}}

\* The channel of capacity 1 that Stop makes (server.go:161) never fills up
\* under considerEnd's send: a sender that blocked there would hold
\* nbClientsSync, and with it every callback, for ever.
EventNeverBlocks == ending = "send" /\ ~closed => buffer = "empty"

\* Whatever panics in considerEnd (server.go:181-182), no session is cut by
\* it: the process is only ever brought down when nobody is being served.
PanicCutsNoSession == crashed => acceptedClients = {}

\* The mutex is kept only for considerEnd's send and close, which are reached
\* with no session open, and by a connection that is in ClientDisconnected.
LockInv ==
  /\ holder = NoOne <=> ending = "no"
  /\ ending # "no" => nbClients = 0
  /\ holder \in Clients => conn[holder] = "ending"

\* Under the mutex, the channel is either as Stop made it or closed with its
\* one event sent; crashes apart, a send is under way only on the first.
EventInv ==
  /\ zeroClientEvent => buffer # "unmade"
  /\ buffer \in {"unmade", "empty"} => ~closed
  /\ buffer = "unmade" => ending = "no"
  /\ ending = "no" /\ buffer \in {"full", "taken"} => closed
  /\ ending = "send" => closed \/ buffer = "empty"
  /\ ending = "close" => ~closed /\ buffer \in {"full", "taken"}

\* The inductive invariant behind the theorems of ServerProofs.
IInv ==
  /\ TypeOK
  /\ CountsSessions
  /\ LockInv
  /\ EventInv
  /\ crashed => nbClients = 0

\* A connection is turned away only when max_clients sessions are open, and
\* admitted only when fewer are, by the limit in force at that moment
\* (server.go:111) and counting sessions, not counter values.
AdmissionByLimit ==
  [][\A c \in Clients :
       conn[c] = "arrived" /\ conn'[c] # "arrived" =>
         LET full == maxClients > 0 /\ Cardinality(acceptedClients) >= maxClients
         IN  IF full THEN conn'[c] = "rejected" ELSE conn'[c] = "serving"]_vars

\* The waiter's part of the process is over.
Returned == waiter \in {"returnedNil", "returnedTimeout"}

\* Every callback returns: a connection that reached ClientConnected or
\* ClientDisconnected gets through it, however the mutex is passed around and
\* although considerEnd sends to a channel with the mutex held, as long as
\* the process lives and WaitGracefully has not returned (its caller exits).
CallbacksReturn ==
  \A c \in Clients :
    conn[c] \in {"arrived", "rejected", "leaving", "ending"}
      ~> conn[c] \in {"serving", "gone"} \/ crashed \/ Returned

\* Once Stop was called, the last client's departure does not go unnoticed:
\* if no session is left the event is sent (server.go:154, 162, 181), unless
\* the process crashes, the wait is over or somebody new is admitted first.
DrainIsAnnounced ==
  buffer = "empty" /\ acceptedClients = {}
    ~> buffer \in {"full", "taken"} \/ crashed \/ Returned

\* What WaitGracefully has learnt.
Outcome ==
  IF waiter \in {"received", "returnedNil"} THEN "drained"
  ELSE IF waiter \in {"expired", "returnedTimeout"} THEN "timeout" ELSE "none"

\* The driver keeps the promise of GracefulStop: it announces the end only
\* while no session is open, once, after Stop, and WaitGracefully returns nil
\* only after that.
Promise ==
  INSTANCE GracefulStop WITH
    members   <- acceptedClients,
    draining  <- buffer # "unmade",
    announced <- buffer \in {"full", "taken"},
    outcome   <- Outcome

KeepsPromise == Promise!Spec
=============================================================================
