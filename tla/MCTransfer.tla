------------------------------ MODULE MCTransfer ------------------------------
(* Two sessions that transfer files of one name, with accesses of which    *)
(* one is logged, and the other read-only.                                 *)
EXTENDS Transfer

MCAccesses == {[readOnly |-> FALSE, logged |-> TRUE], [readOnly |-> TRUE, logged |-> FALSE]}
=============================================================================
