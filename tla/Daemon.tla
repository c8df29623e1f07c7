------------------------------- MODULE Daemon -------------------------------
(***************************************************************************)
(* The process of main.go: the main goroutine, the goroutine of the signal *)
(* handler it starts, and the driver of module Server between them.  Main  *)
(* boots, starts the handler without waiting for it, listens, serves until *)
(* the listener is closed, and waits for the clients; when it returns, the *)
(* process ends and every goroutine with it.                               *)
(***************************************************************************)
EXTENDS Server

CONSTANT MaxSignals  \* bound: how many signals of a kind are delivered

ASSUME MaxSignalsAssumption == MaxSignals \in Nat

VARIABLES
  main,      \* where the main goroutine is
  handler,   \* where signalHandler is
  pending,   \* the signal in its channel, of capacity 1
  signalled  \* how many signals of each kind were delivered to the process

daemonVars == <<main, handler, pending, signalled>>
allVars == <<vars, daemonVars>>

Signals == {"TERM", "HUP"}

DaemonInit ==
  /\ Init
  /\ main = "booting"
  /\ handler = "none"
  /\ pending = "none"
  /\ signalled = [s \in Signals |-> 0]

\* The process is over: main returned, a signal killed it, or a panic did.
Ended == main \in {"exited", "killed"} \/ crashed
Alive == ~Ended

-----------------------------------------------------------------------------
(* The main goroutine.                                                     *)

\* No configuration, no log file, or no driver: main returns.
BootFails ==
  /\ Alive
  /\ main = "booting"
  /\ main' = "exited"
  /\ UNCHANGED <<vars, handler, pending, signalled>>

\* go signalHandler(), then -conf-only returns and the rest goes on to listen.
Boot ==
  /\ Alive
  /\ main = "booting"
  /\ handler' = "starting"
  /\ main' \in {"listening", "exited"}
  /\ UNCHANGED <<vars, pending, signalled>>

ListenAndServe ==
  /\ Alive
  /\ main = "listening"
  /\ Listen
  /\ main' = "serving"
  /\ UNCHANGED <<handler, pending, signalled>>

\* The address is taken, or the settings are refused: the error is logged.
ListenFails ==
  /\ Alive
  /\ main = "listening"
  /\ main' = "served"
  /\ UNCHANGED <<vars, handler, pending, signalled>>

\* Serve returns when the listener was closed, or on a fatal accept error.
ServeReturns ==
  /\ Alive
  /\ main = "serving"
  /\ main' = "served"
  /\ UNCHANGED <<vars, handler, pending, signalled>>

MainWaits ==
  /\ Alive
  /\ main = "served"
  /\ WaitGracefully
  /\ main' = "waiting"
  /\ UNCHANGED <<handler, pending, signalled>>

MainWaitEnds ==
  /\ Alive
  /\ main = "waiting"
  /\ WaitReceive \/ WaitTimeout
  /\ UNCHANGED daemonVars

MainReturns ==
  /\ Alive
  /\ main = "waiting"
  /\ WaitReturn
  /\ main' = "exited"
  /\ UNCHANGED <<handler, pending, signalled>>

-----------------------------------------------------------------------------
(* The signals and signalHandler.                                          *)

\* The kinds of signals that go to the handler's channel, and not to the
\* default action of the runtime, which ends the process.
Notified ==
  CASE handler \in {"none", "starting"} -> {}
    [] handler = "termOnly" -> {"TERM"}
    [] OTHER -> Signals

\* signal.Notify does not block: a signal finds room in the channel or is lost.
Signal(s) ==
  /\ Alive
  /\ signalled[s] < MaxSignals
  /\ signalled' = [signalled EXCEPT ![s] = @ + 1]
  /\ main' = IF s \in Notified THEN main ELSE "killed"
  /\ pending' = IF s \in Notified /\ pending = "none" THEN s ELSE pending
  /\ UNCHANGED <<vars, handler>>

NotifyTerm ==
  /\ Alive
  /\ handler = "starting"
  /\ handler' = "termOnly"
  /\ UNCHANGED <<vars, main, pending, signalled>>

NotifyHup ==
  /\ Alive
  /\ handler = "termOnly"
  /\ handler' = "ready"
  /\ UNCHANGED <<vars, main, pending, signalled>>

HandlerReceives ==
  /\ Alive
  /\ handler = "ready"
  /\ pending # "none"
  /\ handler' = IF pending = "HUP" THEN "reloading" ELSE "stopping"
  /\ pending' = "none"
  /\ UNCHANGED <<vars, main, signalled>>

HandlerReloads ==
  /\ Alive
  /\ handler = "reloading"
  /\ ReloadConfig
  /\ handler' = "ready"
  /\ UNCHANGED <<main, pending, signalled>>

\* Mutant of HandlerStops: the driver is not told of the stop.
HandlerForgetsDriver ==
  /\ Alive
  /\ handler = "stopping"
  /\ handler' = "stoppingListener"
  /\ UNCHANGED <<vars, main, pending, signalled>>

\* stop(): driver.Stop() first ...
HandlerStops ==
  /\ Alive
  /\ handler = "stopping"
  /\ Stop
  /\ handler' = "stoppingListener"
  /\ UNCHANGED <<main, pending, signalled>>

\* ... then ftpServer.Stop(), which closes the listener if there is one, and
\* fails otherwise.  The loop is left: nobody reads the channel any more.
HandlerStopsListener ==
  /\ Alive
  /\ handler = "stoppingListener"
  /\ holder # Stopper
  /\ CloseListener \/ (listener # "open" /\ UNCHANGED vars)
  /\ handler' = "done"
  /\ UNCHANGED <<main, pending, signalled>>

-----------------------------------------------------------------------------
(* The goroutines of the connections, and the rest of considerEnd.         *)

ClientActs(c) ==
  /\ Alive
  /\ (main = "serving" /\ Arrive(c)) \/ Leave(c)
  /\ UNCHANGED daemonVars

Callback(c) ==
  /\ Alive
  /\ ClientConnected(c) \/ ClientDisconnected(c)
  /\ UNCHANGED daemonVars

FinishConsiderEnd ==
  /\ Alive
  /\ ConsiderEndSend \/ ConsiderEndClose
  /\ UNCHANGED daemonVars

Main == \/ BootFails \/ Boot \/ ListenAndServe \/ ListenFails \/ ServeReturns
        \/ MainWaits \/ MainWaitEnds \/ MainReturns

Handler == \/ NotifyTerm \/ NotifyHup \/ HandlerReceives \/ HandlerReloads
           \/ HandlerStops \/ HandlerStopsListener

DaemonNext ==
  \/ Main
  \/ Handler
  \/ \E s \in Signals : Signal(s)
  \/ \E c \in Clients : ClientActs(c) \/ Callback(c)
  \/ FinishConsiderEnd

DaemonSpec == DaemonInit /\ [][DaemonNext]_allVars

(***************************************************************************)
(* The scheduler runs every goroutine that can run, a mutex is granted to  *)
(* whoever waits for it, the timer of WaitGracefully fires, and Serve      *)
(* returns once the listener is closed.  Nothing makes a signal come, a    *)
(* client arrive or leave, or an accept fail.                              *)
(***************************************************************************)
DaemonFairness ==
  /\ WF_allVars(Boot \/ ListenAndServe)
  /\ WF_allVars(listener = "closed" /\ ServeReturns)
  /\ WF_allVars(MainWaits \/ MainWaitEnds \/ MainReturns)
  /\ SF_allVars(Handler)
  /\ WF_allVars(FinishConsiderEnd)
  /\ \A c \in Clients : SF_allVars(Callback(c))

FairDaemon == DaemonSpec /\ DaemonFairness

-----------------------------------------------------------------------------
(* Correctness.                                                            *)

\* When the handler's stop closes the listener, main is going to find the
\* channel that driver.Stop made (main.go:120 comes before main.go:122): it
\* does not go and wait on nil, a wait that no departing client could end.
StopArmsTheWait == listener = "closed" /\ waiter = "idle" => zeroClientEvent

TermIsComing ==
  pending = "TERM" /\ handler \in {"termOnly", "ready", "reloading"} /\ main = "serving"

\* A SIGTERM that signalHandler is yet to read while main is serving brings
\* the process to its end, whatever the clients do and however many other
\* signals come: through driver.Stop, the closed listener, the end of Serve
\* and a wait that the departure of the clients or its timer ends.  So does a
\* listener that was closed: nothing obliges a client to leave, but the wait
\* has a timeout (main.go:113-116).
ShutdownCompletes == (TermIsComing \/ listener = "closed") ~> Ended

\* server.go:157: "Stop will trigger a graceful stop of the server."
StopIsGraceful == ~crashed
=============================================================================
