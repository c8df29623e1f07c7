------------------------------- MODULE Accounts -------------------------------
(***************************************************************************)
(* What the Windows program promises of who may log in, without hashes,    *)
(* entries, boxes and the steps of a save and of a start: the window, the  *)
(* file and the server each have accounts, a set of [user, password].  The *)
(* file only ever gets those of the window, and a window opens with those  *)
(* of the file.  A server starts when window and file agree, with what     *)
(* they have, and keeps that until it ends.                                *)
(***************************************************************************)
VARIABLES
  open,    \* the program runs
  window,  \* the accounts that its window shows
  file,    \* those of the file, as a set of one, or {} if it holds nothing
  server   \* those of the server, as a set of one, or {} without a server

vars == <<open, window, file, server>>

Init ==
  /\ ~open
  /\ window = {}
  /\ server = {}

Open ==
  /\ ~open /\ open'
  /\ window' = UNION file
  /\ UNCHANGED <<file, server>>

\* It ends, or is killed.
End ==
  /\ open /\ ~open'
  /\ window' = {}
  /\ server' = {}
  /\ UNCHANGED file

Change ==
  /\ open /\ open'
  /\ UNCHANGED <<file, server>>

\* The file is emptied, in order to write it.
Lose ==
  /\ open
  /\ file' = {}
  /\ UNCHANGED <<open, window, server>>

Save ==
  /\ open
  /\ file = {}
  /\ file' = {window}
  /\ UNCHANGED <<open, window, server>>

Start ==
  /\ open
  /\ server = {} /\ file = {window}
  /\ server' = {window}
  /\ UNCHANGED <<open, window, file>>

Stop ==
  /\ open
  /\ server # {}
  /\ server' = {}
  /\ UNCHANGED <<open, window, file>>

Next == Change \/ Open \/ End \/ Lose \/ Save \/ Start \/ Stop

Spec == Init /\ [][Next]_vars
=============================================================================
