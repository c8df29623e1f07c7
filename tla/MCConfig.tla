------------------------------ MODULE MCConfig ------------------------------
(* Two users beside anonymous, and files with every kind of password.      *)
EXTENDS Config

MCUsers == {"anonymous", "ann", "bob"}
MCPasswords == {"pa", "pb", "*"}

Of(u, kind, p) == [user |-> u, pass |-> [kind |-> kind, of |-> p]]
File(hash, accesses) == [hash |-> hash, accesses |-> accesses]

\* A plain password, a hash and the wildcard; ann with two passwords; and
\* what an editor makes of the first when bob goes to the top.
MCFiles == {
  File(TRUE, <<Of("ann", "plain", "pa"), Of("anonymous", "plain", "*"), Of("bob", "crypt", "pb")>>),
  File(TRUE, <<Of("ann", "bcrypt", "pb"), Of("ann", "plain", "pa"), Of("bob", "plain", "*")>>),
  File(TRUE, <<Of("bob", "crypt", "pb"), Of("ann", "plain", "pa")>>),
  File(FALSE, <<Of("bob", "plain", "pb"), Of("ann", "plain", "pa")>>)}
=============================================================================
