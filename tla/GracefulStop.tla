---------------------------- MODULE GracefulStop ----------------------------
(***************************************************************************)
(* What a driver promises about its sessions and its shutdown, without     *)
(* the mutex, the counter and the channel it is made of: sessions come and *)
(* go, a stop may be asked for, the end is announced only at a moment when *)
(* no session is open, and whoever waits for it is told of the end only    *)
(* after it was announced, or gives up.                                    *)
(***************************************************************************)
CONSTANT Clients

VARIABLES
  members,    \* the clients that were admitted and have not left
  draining,   \* a graceful stop was asked for
  announced,  \* the end was announced
  outcome     \* what the waiter was told: "none", "drained" or "timeout"

vars == <<members, draining, announced, outcome>>

Init ==
  /\ members = {}
  /\ draining = FALSE
  /\ announced = FALSE
  /\ outcome = "none"

Join(c) ==
  /\ c \notin members
  /\ members' = members \cup {c}
  /\ UNCHANGED <<draining, announced, outcome>>

Leave(c) ==
  /\ c \in members
  /\ members' = members \ {c}
  /\ UNCHANGED <<draining, announced, outcome>>

BeginStop ==
  /\ ~draining
  /\ draining' = TRUE
  /\ UNCHANGED <<members, announced, outcome>>

Announce ==
  /\ draining
  /\ ~announced
  /\ members = {}
  /\ announced' = TRUE
  /\ UNCHANGED <<members, draining, outcome>>

LearnDrained ==
  /\ outcome = "none"
  /\ announced
  /\ outcome' = "drained"
  /\ UNCHANGED <<members, draining, announced>>

GiveUp ==
  /\ outcome = "none"
  /\ outcome' = "timeout"
  /\ UNCHANGED <<members, draining, announced>>

Next ==
  \/ \E c \in Clients : Join(c) \/ Leave(c)
  \/ BeginStop
  \/ Announce
  \/ LearnDrained
  \/ GiveUp

Spec == Init /\ [][Next]_vars
=============================================================================
