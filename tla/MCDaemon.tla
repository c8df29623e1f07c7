------------------------------ MODULE MCDaemon ------------------------------
(* The process with two connections and two signals of each kind, for TLC. *)
EXTENDS Daemon
=============================================================================
