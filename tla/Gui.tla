---------------------------------- MODULE Gui ----------------------------------
(***************************************************************************)
(* The Windows program, cmd/ftpserver-gui/main_windows.go: its window, its *)
(* tray icon, and the servers that start and stop make one after another.  *)
(*                                                                         *)
(* Every handler runs on the UI thread.  A message box, and the dialog of  *)
(* the advanced settings, run a message loop of their own inside the       *)
(* handler that opened them: the window below is disabled, the tray icon   *)
(* is not, and its start, stop and exit run nested in that handler.  The   *)
(* mutex mu is taken by start and stop, on this one thread; it is not      *)
(* reentrant, and start opens its boxes with the mutex held.               *)
(*                                                                         *)
(* Beside the UI thread there is a goroutine per server, which calls Serve *)
(* and posts to the UI thread when that fails, and the connections, which  *)
(* outlive the server that was stopped.  Module Server has the details of  *)
(* a driver; here one is the set of its sessions and whether its end was   *)
(* announced.  Nobody waits for the event in this program, so the field    *)
(* and the channel do not part.  The users and the file are in GuiConfig.  *)
(***************************************************************************)
EXTENDS Naturals, Sequences, FiniteSets

CONSTANTS
  Clients,     \* the connections of a run
  MaxStarts,   \* bound: how many servers are started
  MaxClients  \* max_clients in every configuration; 0 is no limit

ASSUME BoundsAssumption == IsFiniteSet(Clients) /\ MaxStarts \in Nat /\ MaxClients \in Nat

Servers == 1 .. MaxStarts

VARIABLES
  ui,         \* what the UI thread does
  stack,      \* the handlers that wait for their box, the innermost last
  mu,         \* a.mu is locked
  running,    \* a.running
  current,    \* a.server and a.driver, or 0 for nil
  exiting,    \* exit was called
  visible,    \* the window is shown
  icon,       \* the tray icon could be made
  life,       \* of the process
  listener,   \* of each server
  serve,      \* where the goroutine of each server is
  stopping,   \* the drivers that Stop was called on
  announced,  \* the drivers whose event was sent and closed
  failed,     \* the servers that had an accept fail for good
  conn        \* each connection, and its server

windowVars == <<ui, stack, mu, running, current, exiting, visible, icon>>
serverVars == <<listener, serve, stopping, announced, failed>>
vars == <<windowVars, life, serverVars, conn>>

Steps == {"loop", "save", "load", "listen", "stop", "stopListener", "close", "blocked"}
Frames == {"start", "box", "dialog"}
NotConnected == [at |-> "none", of |-> 0]

TypeOK ==
  /\ ui \in Steps
  /\ stack \in Seq(Frames)
  /\ mu \in BOOLEAN /\ running \in BOOLEAN /\ exiting \in BOOLEAN
  /\ visible \in BOOLEAN /\ icon \in BOOLEAN
  /\ current \in Servers \cup {0}
  /\ life \in {"up", "exited", "crashed"}
  /\ listener \in [Servers -> {"none", "open", "closed"}]
  /\ serve \in [Servers -> {"none", "serving", "failed", "posted", "ended"}]
  /\ stopping \subseteq Servers /\ announced \subseteq stopping /\ failed \subseteq Servers
  /\ conn \in [Clients -> [at : {"none", "arrived", "served", "gone"}, of : Servers \cup {0}]]

\* The configuration is loaded, or its defaults are, and the window shown;
\* a tray that fails is reported and done without.
Init ==
  /\ ui = "loop" /\ stack = <<>> /\ mu = FALSE
  /\ running = FALSE /\ current = 0 /\ exiting = FALSE
  /\ visible = TRUE /\ icon \in BOOLEAN
  /\ life = "up"
  /\ listener = [s \in Servers |-> "none"]
  /\ serve = [s \in Servers |-> "none"]
  /\ stopping = {} /\ announced = {} /\ failed = {}
  /\ conn = [c \in Clients |-> NotConnected]

Up == life = "up"
InLoop == Up /\ ui = "loop"
AtWindow == InLoop /\ visible /\ stack = <<>>
AtTray == InLoop /\ icon

-----------------------------------------------------------------------------
(* The window, and the boxes of the handlers that do not hold the mutex.   *)

\* The Closing handler cancels, and hides the window instead.
CloseWindow ==
  /\ AtWindow
  /\ visible' = FALSE
  /\ UNCHANGED <<ui, stack, mu, running, current, exiting, icon, life, serverVars, conn>>

ShowWindow ==
  /\ AtTray
  /\ visible' = TRUE
  /\ UNCHANGED <<ui, stack, mu, running, current, exiting, icon, life, serverVars, conn>>

OpenDialog ==
  /\ AtWindow
  /\ stack' = <<"dialog">>
  /\ UNCHANGED <<ui, mu, running, current, exiting, visible, icon, life, serverVars, conn>>

\* A refused save, a wrong field, a question: from the window or the dialog.
OpenBox ==
  /\ AtWindow \/ (InLoop /\ stack = <<"dialog">>)
  /\ stack' = Append(stack, "box")
  /\ UNCHANGED <<ui, mu, running, current, exiting, visible, icon, life, serverVars, conn>>

\* The innermost box is answered, and its handler returns; that of start
\* has the unlock left to do.
AnswerBox ==
  /\ InLoop
  /\ stack # <<>>
  /\ stack' = SubSeq(stack, 1, Len(stack) - 1)
  /\ mu' = (mu /\ stack[Len(stack)] # "start")
  /\ UNCHANGED <<ui, running, current, exiting, visible, icon, life, serverVars, conn>>

-----------------------------------------------------------------------------
(* start.                                                                  *)

\* a.mu.Lock(), on a thread that may hold it already.
Lock(then) ==
  IF mu THEN ui' = "blocked" /\ UNCHANGED mu
        ELSE ui' = then /\ mu' = TRUE

\* Mutant of PressStart: a server that runs is not looked for.
PressStartAgain ==
  /\ AtWindow \/ AtTray
  /\ Lock("save")
  /\ UNCHANGED <<stack, running, current, exiting, visible, icon, life, serverVars, conn>>

\* The button is enabled while nothing runs; the tray's action always is.
\* A start that finds a server running returns at once.
PressStart ==
  /\ AtWindow \/ AtTray
  /\ mu \/ ~running
  /\ Lock("save")
  /\ UNCHANGED <<stack, running, current, exiting, visible, icon, life, serverVars, conn>>

\* The form is refused, the file cannot be written or read, the address is
\* taken: a box, with the mutex held.
StartFails ==
  /\ Up
  /\ ui \in {"save", "load", "listen"}
  /\ stack' = Append(stack, "start")
  /\ ui' = "loop"
  /\ UNCHANGED <<mu, running, current, exiting, visible, icon, life, serverVars, conn>>

SaveConfig ==
  /\ Up
  /\ ui = "save"
  /\ ui' = "load"
  /\ UNCHANGED <<stack, mu, running, current, exiting, visible, icon, life, serverVars, conn>>

NewServer ==
  /\ Up
  /\ ui = "load"
  /\ ui' = "listen"
  /\ UNCHANGED <<stack, mu, running, current, exiting, visible, icon, life, serverVars, conn>>

Listen(s) ==
  /\ Up
  /\ ui = "listen"
  /\ listener[s] = "none"
  /\ \A t \in Servers : t < s => listener[t] # "none"
  /\ listener' = [listener EXCEPT ![s] = "open"]
  /\ serve' = [serve EXCEPT ![s] = "serving"]
  /\ current' = s /\ running' = TRUE
  /\ mu' = FALSE /\ ui' = "loop"
  /\ UNCHANGED <<stack, exiting, visible, icon, life, stopping, announced, failed, conn>>

-----------------------------------------------------------------------------
(* stop and exit.                                                          *)

\* Mutant of SetStopped: running is not reset.
SetForgotten == UNCHANGED running /\ current' = 0

SetStopped == running' = FALSE /\ current' = 0

\* A stop that finds nothing running returns at once.
PressStop ==
  /\ AtWindow \/ AtTray
  /\ mu \/ running
  /\ Lock("stop")
  /\ UNCHANGED <<stack, running, current, exiting, visible, icon, life, serverVars, conn>>

\* exit calls stop, and goes on when that returns, if it does.
PressExit ==
  /\ AtWindow \/ AtTray
  /\ \/ /\ mu \/ running
        /\ Lock("stop")
     \/ /\ ~mu /\ ~running
        /\ ui' = "close"
        /\ UNCHANGED mu
  /\ exiting' = TRUE
  /\ UNCHANGED <<stack, running, current, visible, icon, life, serverVars, conn>>

Served(s) == {c \in Clients : conn[c].at = "served" /\ conn[c].of = s}

\* Mutant of StopDriver: the end is announced, the event not kept.
StopDriverUnarmed ==
  /\ Up
  /\ ui = "stop"
  /\ announced' = IF Served(current) = {} THEN announced \cup {current} ELSE announced
  /\ ui' = "stopListener"
  /\ UNCHANGED <<stack, mu, running, current, exiting, visible, icon, life, listener, serve,
                 stopping, failed, conn>>

\* driver.Stop(): with nobody served, the end is announced at once.
StopDriver ==
  /\ Up
  /\ ui = "stop"
  /\ stopping' = stopping \cup {current}
  /\ announced' = IF Served(current) = {} THEN announced \cup {current} ELSE announced
  /\ ui' = "stopListener"
  /\ UNCHANGED <<stack, mu, running, current, exiting, visible, icon, life, listener, serve,
                 failed, conn>>

\* Mutant of StopListener: a failed stop is reported in a box first.
StopListenerBox ==
  /\ Up
  /\ ui = "stopListener"
  /\ listener' = [listener EXCEPT ![current] = "closed"]
  /\ stack' = Append(stack, "start")
  /\ ui' = "loop"
  /\ UNCHANGED <<mu, running, current, exiting, visible, icon, life, serve, stopping, announced,
                 failed, conn>>

\* server.Stop() closes the listener and no connection; the window is set
\* to stopped whatever it returns.
StopListener ==
  /\ Up
  /\ ui = "stopListener"
  /\ listener' = [listener EXCEPT ![current] = "closed"]
  /\ SetStopped
  /\ mu' = FALSE
  /\ ui' = IF exiting THEN "close" ELSE "loop"
  /\ UNCHANGED <<stack, exiting, visible, icon, life, serve, stopping, announced, failed, conn>>

\* Mutant of CloseProgram: the window is closed before allowExit is set.
CloseFirst ==
  /\ Up
  /\ ui = "close"
  /\ visible' = FALSE
  /\ ui' = "loop"
  /\ UNCHANGED <<stack, mu, running, current, exiting, icon, life, serverVars, conn>>

\* allowExit is set, and the Closing handler lets the window go: every loop
\* ends, and the process with its connections.
CloseProgram ==
  /\ Up
  /\ ui = "close"
  /\ life' = "exited"
  /\ UNCHANGED <<windowVars, serverVars, conn>>

-----------------------------------------------------------------------------
(* The goroutine of a server, and what it posts.                           *)

\* An accept fails for good.  Serve returns the error and closes nothing.
AcceptFails(s) ==
  /\ Up
  /\ serve[s] = "serving" /\ listener[s] = "open"
  /\ serve' = [serve EXCEPT ![s] = "failed"]
  /\ failed' = failed \cup {s}
  /\ UNCHANGED <<windowVars, life, listener, stopping, announced, conn>>

\* The listener was closed: Serve returns nil, and nothing is posted.
ServeReturns(s) ==
  /\ Up
  /\ serve[s] = "serving" /\ listener[s] = "closed"
  /\ serve' = [serve EXCEPT ![s] = "ended"]
  /\ UNCHANGED <<windowVars, life, listener, stopping, announced, failed, conn>>

\* Mutant of ServeReports: nothing is posted.
ServeForgets(s) ==
  /\ Up
  /\ serve[s] = "failed"
  /\ serve' = [serve EXCEPT ![s] = "ended"]
  /\ UNCHANGED <<windowVars, life, listener, stopping, announced, failed, conn>>

\* a.running is read without the mutex.
ServeReports(s) ==
  /\ Up
  /\ serve[s] = "failed"
  /\ serve' = [serve EXCEPT ![s] = IF running THEN "posted" ELSE "ended"]
  /\ UNCHANGED <<windowVars, life, listener, stopping, announced, failed, conn>>

\* What was posted runs in any message loop, without the mutex, and whichever
\* server is the current one by then.
RunPosted(s) ==
  /\ InLoop
  /\ serve[s] = "posted"
  /\ serve' = [serve EXCEPT ![s] = "ended"]
  /\ SetStopped
  /\ UNCHANGED <<ui, stack, mu, exiting, visible, icon, life, listener, stopping, announced,
                 failed, conn>>

Connected(s) == {c \in Clients : conn[c].at \in {"arrived", "served"} /\ conn[c].of = s}

\* A server that nothing refers to any more is collected, its listener too.
Collect(s) ==
  /\ Up
  /\ serve[s] = "ended" /\ listener[s] = "open"
  /\ current # s /\ Connected(s) = {}
  /\ listener' = [listener EXCEPT ![s] = "closed"]
  /\ UNCHANGED <<windowVars, life, serve, stopping, announced, failed, conn>>

-----------------------------------------------------------------------------
(* The connections of ftpserverlib, and the callbacks of their driver.     *)

Arrive(c, s) ==
  /\ Up
  /\ conn[c].at = "none"
  /\ serve[s] = "serving" /\ listener[s] = "open"
  /\ conn' = [conn EXCEPT ![c] = [at |-> "arrived", of |-> s]]
  /\ UNCHANGED <<windowVars, life, serverVars>>

\* Mutant of LimitReached: one session too many.
LimitReachedLate(s) == MaxClients > 0 /\ Cardinality(Served(s)) > MaxClients

\* Each driver counts its own sessions.
LimitReached(s) == MaxClients > 0 /\ Cardinality(Served(s)) >= MaxClients

ClientConnected(c) ==
  /\ Up
  /\ conn[c].at = "arrived"
  /\ conn' = [conn EXCEPT ![c].at = IF LimitReached(conn[c].of) THEN "gone" ELSE "served"]
  /\ UNCHANGED <<windowVars, life, serverVars>>

\* The last session of a stopped driver announces the end, or sends on the
\* closed channel and takes the process with it.
ClientDisconnected(c) ==
  /\ Up
  /\ conn[c].at = "served"
  /\ conn' = [conn EXCEPT ![c].at = "gone"]
  /\ LET s == conn[c].of
         last == s \in stopping /\ Served(s) = {c}
     IN  /\ announced' = IF last THEN announced \cup {s} ELSE announced
         /\ life' = IF last /\ s \in announced THEN "crashed" ELSE life
  /\ UNCHANGED <<windowVars, listener, serve, stopping, failed>>

-----------------------------------------------------------------------------
Handlers ==
  \/ StartFails \/ SaveConfig \/ NewServer \/ \E s \in Servers : Listen(s)
  \/ StopDriver \/ StopListener \/ CloseProgram

Next ==
  \/ CloseWindow \/ ShowWindow \/ OpenDialog \/ OpenBox \/ AnswerBox
  \/ PressStart \/ PressStop \/ PressExit
  \/ Handlers
  \/ \E s \in Servers : \/ AcceptFails(s) \/ ServeReturns(s) \/ ServeReports(s)
                        \/ RunPosted(s) \/ Collect(s)
  \/ \E c \in Clients : \/ \E s \in Servers : Arrive(c, s)
                        \/ ClientConnected(c) \/ ClientDisconnected(c)

Spec == Init /\ [][Next]_vars

(***************************************************************************)
(* A handler that can go on does, so does the goroutine of a server, and   *)
(* what was posted is run by a thread that comes back to its loop again    *)
(* and again.  Nobody is obliged to click, to answer a box or to connect.  *)
(***************************************************************************)
Fairness ==
  /\ WF_vars(Handlers)
  /\ \A s \in Servers : WF_vars(ServeReports(s)) /\ SF_vars(RunPosted(s))

FairSpec == Spec /\ Fairness

-----------------------------------------------------------------------------
(* Correctness.                                                            *)

\* While the window says a server runs, it has the one that does: its
\* goroutine serves, or the failure of it is on its way to the window, and
\* its listener was not closed, however starts, stops and failures of
\* earlier servers interleave (main_windows.go:436, 446-449, 472-475).
RunningIsServed ==
  running => /\ current # 0
             /\ serve[current] \in {"serving", "failed", "posted"}
             /\ listener[current] = "open"

\* As long as no accept has failed, every server that listens is the one
\* the window can stop (main_windows.go:464-468): however starts, stops and
\* boxes are nested, no handle is lost.
OnlyFailuresLoseServers ==
  failed = {} => \A s \in Servers : listener[s] = "open" => running /\ current = s

\* A thread that locks the mutex it holds does so inside a box of start, and
\* takes down no server that the window says is running (main_windows.go:411,
\* 459).
HangFindsNothingRunning ==
  ui = "blocked" => /\ ~running
                    /\ \E i \in DOMAIN stack : stack[i] = "start"

\* More sessions than max_clients are served only while some of them belong
\* to another server than the current one (server.go:111, a driver a start).
OverLimitOnlyAcrossServers ==
  LET served == {c \in Clients : conn[c].at = "served"}
  IN  MaxClients > 0 /\ Cardinality(served) > MaxClients =>
        \E c, d \in served : conn[c].of # conn[d].of

\* Who holds the mutex: a step of start or stop, or the box of a start, which
\* is the innermost one and finds no server running.
MutexInv ==
  /\ \A i \in 1 .. Len(stack) : stack[i] = "start" =>
       i = Len(stack) /\ mu /\ ~running /\ ui \in {"loop", "blocked"}
  /\ ui \in {"save", "load", "listen"} => mu /\ ~running
  /\ ui \in {"stop", "stopListener"} => mu /\ running
  /\ ui = "close" => ~mu /\ ~running
  /\ ui = "blocked" \/ (ui = "loop" /\ mu) => stack # <<>> /\ stack[Len(stack)] = "start"

\* What the window and the goroutines know of the servers.
HandleInv ==
  /\ RunningIsServed
  /\ ~running => current = 0
  /\ \A s \in Servers : serve[s] \in {"failed", "posted"} => s \in failed

\* What a driver is told of the sessions of another does not count for it.
LimitInv == \A s \in Servers : MaxClients > 0 => Cardinality(Served(s)) <= MaxClients

\* A connection is one to a server.
ConnInv == \A c \in Clients : conn[c].at # "none" => conn[c].of \in Servers

IInv == TypeOK /\ MutexInv /\ HandleInv /\ OnlyFailuresLoseServers /\ LimitInv /\ ConnInv

\* Once exit has begun and its stop has the mutex, or found nothing to stop,
\* the process ends, whatever clients and servers do meanwhile
\* (main_windows.go:716).  An exit under the box of a failed start does not get
\* the mutex: it never ends, and nothing else does (HangFindsNothingRunning,
\* BackgroundKeepsRunning).
ExitEnds == exiting /\ ui # "blocked" ~> ~Up

\* A server that failed does not stay the one the window shows as running
\* (main_windows.go:446-449).
FailureIsShown ==
  \A s \in Servers : (serve[s] = "failed" /\ current = s) ~> (current # s \/ ~Up)

\* main_windows.go:216, on closing the window: the program is still running
\* in the background, and the window can be brought back from the tray.
BackgroundKeepsRunning == ~visible /\ icon => ui # "blocked"

\* main_windows.go:478, when the label says that the service is not started,
\* no server accepts connections.
StoppedMeansStopped ==
  ~running => \A s \in Servers : serve[s] # "serving" \/ listener[s] # "open"
=============================================================================
