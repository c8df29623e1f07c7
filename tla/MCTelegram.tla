----------------------------- MODULE MCTelegram -----------------------------
(* Two transfers, parts of two bytes, for TLC.                             *)
EXTENDS Telegram, TLC

CONSTANTS t1, t2

\* Up to three parts for the one, one part for the other.
MCMaxWritten == t1 :> 5 @@ t2 :> 2
=============================================================================
