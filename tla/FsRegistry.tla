------------------------------ MODULE FsRegistry ------------------------------
(***************************************************************************)
(* What the driver promises of the file systems it hands out, without the  *)
(* configuration, the mutex and the steps of a load: at one moment, a      *)
(* session is served either what is kept for a user, or a file system that *)
(* nobody else has.  That one is kept for its user if it is to be shared,  *)
(* which takes that nothing is kept for him yet.  What is kept, or served, *)
(* stays.                                                                  *)
(***************************************************************************)
CONSTANTS
  Clients,
  Owners,   \* the users that file systems are kept for
  NoFs

VARIABLES
  kept,     \* the file system that is kept for each user, or NoFs
  served    \* the file system of each client, or NoFs

vars == <<kept, served>>

Init ==
  /\ kept = [u \in Owners |-> NoFs]
  /\ served = [c \in Clients |-> NoFs]

\* Nobody has it.
New(fs) ==
  /\ fs # NoFs
  /\ \A c \in Clients : served[c] # fs
  /\ \A u \in Owners : kept[u] # fs

Serve(c, fs) ==
  /\ served[c] = NoFs
  /\ served' = [served EXCEPT ![c] = fs]

Join(c, u) ==
  /\ kept[u] # NoFs
  /\ Serve(c, kept[u])
  /\ UNCHANGED kept

OpenPrivate(c, fs) ==
  /\ New(fs) /\ ~fs.shared
  /\ Serve(c, fs)
  /\ UNCHANGED kept

OpenShared(c, fs) ==
  /\ New(fs) /\ fs.shared
  /\ fs.user \in Owners /\ kept[fs.user] = NoFs
  /\ Serve(c, fs)
  /\ kept' = [kept EXCEPT ![fs.user] = fs]

\* What is opened is what the client is served afterwards.
Next ==
  \E c \in Clients :
    \/ \E u \in Owners : Join(c, u)
    \/ OpenPrivate(c, served'[c])
    \/ OpenShared(c, served'[c])

Spec == Init /\ [][Next]_vars
=============================================================================
