------------------------------ MODULE MCAccess ------------------------------
(* Two users and two sessions, for TLC.                                    *)
EXTENDS Access

MCUsers == {"ann", "bob"}
MCPasswords == {"pa", "pb"}
MCBases == {"", "a", "b", "c", "w", "kc"}
MCRealm == [u \in MCUsers |-> IF u = "ann" THEN "pa" ELSE "pb"]

Os(u, p, base, ro, sh) ==
  [user |-> u, pass |-> p, fs |-> "os", base |-> base, readOnly |-> ro, shared |-> sh]

Keycloak(sh) ==
  [user |-> Nobody, pass |-> Undecodable, fs |-> "keycloak", base |-> "kc", readOnly |-> FALSE,
   shared |-> sh]

Local(accesses) == [webhook |-> FALSE, accesses |-> accesses]

\* ann shares one file system, bob has one per session; after a reload ann's
\* is read-only, bob's stored password is broken and ann has a second entry.
Before == Local(<<Os("ann", "pa", "a", FALSE, TRUE), Os("bob", "pb", "b", FALSE, FALSE)>>)
After  == Local(<<Os("ann", "pa", "a", TRUE, TRUE), Os("bob", Undecodable, "b", TRUE, FALSE),
                  Os("ann", "pb", "c", FALSE, TRUE)>>)
Hooked == [webhook |-> TRUE, accesses |-> <<>>]

\* Whoever it is asked about, the webhook may name ann, or nobody.
MCWebAnswers == {Os("ann", "pa", "w", FALSE, TRUE), Os(Nobody, "pb", "w", TRUE, FALSE)}

\* A keycloak entry after an entry of the file.
Realmed == Local(<<Os("ann", "pa", "a", FALSE, TRUE), Keycloak(FALSE)>>)

MCContents == {Before, After, Hooked, Realmed}
=============================================================================
