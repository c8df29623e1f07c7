------------------------------ MODULE MCServer ------------------------------
(* The driver with three connections, for TLC.                             *)
EXTENDS Server
=============================================================================
