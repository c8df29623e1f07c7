----------------------------- MODULE MCGuiConfig -----------------------------
(* One user beside anonymous, and what the file may hold before.           *)
EXTENDS GuiConfig

Of(u, kind, p) == [user |-> u, pass |-> [kind |-> kind, of |-> p]]

MCFiles == {
  [hash |-> TRUE, accesses |-> <<Of("anonymous", "plain", "*"), Of("ann", "bcrypt", "pa")>>],
  [hash |-> FALSE, accesses |-> <<Of("ann", "plain", "pa")>>]}
=============================================================================
