-------------------------------- MODULE MCGui --------------------------------
(* The window with two servers in turn and two connections, for TLC.       *)
EXTENDS Gui
=============================================================================
