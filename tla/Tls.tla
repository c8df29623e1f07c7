---------------------------------- MODULE Tls ----------------------------------
(***************************************************************************)
(* GetTLSConfig and loadTLSConfig of server/server.go: the first connection*)
(* that needs TLS loads the certificate and its key, and every later one   *)
(* gets what the first one got, an error included, for as long as the      *)
(* driver lives.  Certificate and key are two files, read one after the    *)
(* other, while something renews them or the configuration is reloaded.    *)
(***************************************************************************)
EXTENDS Naturals

CONSTANTS
  Sessions,   \* the connections that ask
  Versions,   \* the key pairs that are installed one after another
  NoFile,     \* a file that cannot be read
  NotLoaded,  \* no result yet
  MaxChanges  \* bound: how often files and configuration change

ASSUME VersionsAssumption ==
  /\ Versions # {} /\ NoFile \notin Versions
  /\ NotLoaded \notin Versions /\ NotLoaded # "error" /\ "error" \notin Versions
  /\ MaxChanges \in Nat

VARIABLES
  disk,     \* the two files
  enabled,  \* the configuration has a server certificate
  changes,
  once,     \* s.tlsOnce: "new", "running" or "done"
  pair,     \* what loadTLSConfig has read
  tls,      \* s.tlsConfig and s.tlsError
  call      \* where each connection is in GetTLSConfig, and what it got

diskVars == <<disk, enabled, changes>>
tlsVars == <<diskVars, once, pair, tls, call>>

Results == Versions \cup {NotLoaded, "error"}
NoCall == [at |-> "none", got |-> NotLoaded]

TlsTypeOK ==
  /\ disk \in [{"cert", "key"} -> Versions \cup {NoFile}]
  /\ enabled \in BOOLEAN /\ changes \in 0 .. MaxChanges
  /\ once \in {"new", "running", "done"}
  /\ pair \in [{"cert", "key"} -> Versions \cup {NoFile}]
  /\ tls \in Results
  /\ call \in [Sessions -> [at : {"none", "waiting", "section", "cert", "key", "pair", "returned"},
                            got : Results]]

\* The versions are interchangeable: the first is any of them.
TlsInit ==
  /\ LET v == CHOOSE v \in Versions : TRUE IN disk = [f \in {"cert", "key"} |-> v]
  /\ enabled \in BOOLEAN
  /\ changes = 0
  /\ once = "new" /\ tls = NotLoaded
  /\ pair = [f \in {"cert", "key"} |-> NoFile]
  /\ call = [s \in Sessions |-> NoCall]

-----------------------------------------------------------------------------
(* The surroundings.                                                       *)

\* A renewal replaces one file, and then the other.
Renew ==
  /\ changes < MaxChanges
  /\ changes' = changes + 1
  /\ \E f \in {"cert", "key"}, v \in Versions \cup {NoFile} :
       /\ v # disk[f]
       /\ disk' = [disk EXCEPT ![f] = v]
  /\ UNCHANGED <<enabled, once, pair, tls, call>>

\* A reload brings the section with the certificate, or takes it away.
ReloadTls ==
  /\ changes < MaxChanges
  /\ changes' = changes + 1
  /\ enabled' = ~enabled
  /\ UNCHANGED <<disk, once, pair, tls, call>>

-----------------------------------------------------------------------------
(* GetTLSConfig.                                                           *)

\* Mutant of Ask: the load is marked as done when it begins.
AskFlag(s) ==
  /\ call[s].at = "none"
  /\ call' = [call EXCEPT ![s].at = IF once = "done" THEN "waiting" ELSE "section"]
  /\ once' = "done"

\* s.tlsOnce.Do: the first call loads, one that comes during the load waits.
Ask(s) ==
  /\ call[s].at = "none"
  /\ call' = [call EXCEPT ![s].at = IF once = "new" THEN "section" ELSE "waiting"]
  /\ once' = IF once = "new" THEN "running" ELSE once

Return(s) ==
  /\ call[s].at = "waiting"
  /\ once = "done"
  /\ call' = [call EXCEPT ![s] = [at |-> "returned", got |-> tls]]
  /\ UNCHANGED <<diskVars, once, pair, tls>>

\* The load of s ends with a result, kept for everybody.
Loaded(s, result) ==
  /\ tls' = result
  /\ once' = "done"
  /\ call' = [call EXCEPT ![s].at = "waiting"]

LoadTLSConfig(s) ==
  /\ call[s].at = "section"
  /\ IF enabled
       THEN call' = [call EXCEPT ![s].at = "cert"] /\ UNCHANGED <<once, tls>>
       ELSE Loaded(s, "error")
  /\ UNCHANGED <<diskVars, pair>>

\* os.ReadFile, of the certificate and then of the key.
ReadPart(s, f, then) ==
  /\ call[s].at = f
  /\ IF disk[f] = NoFile
       THEN Loaded(s, "error") /\ UNCHANGED pair
       ELSE /\ pair' = [pair EXCEPT ![f] = disk[f]]
            /\ call' = [call EXCEPT ![s].at = then]
            /\ UNCHANGED <<once, tls>>
  /\ UNCHANGED diskVars

\* A key that is not the certificate's is an error.
X509KeyPair == IF pair["cert"] = pair["key"] THEN pair["cert"] ELSE "error"

ParsePair(s) ==
  /\ call[s].at = "pair"
  /\ Loaded(s, X509KeyPair)
  /\ UNCHANGED <<diskVars, pair>>

LoadStep(s) ==
  \/ LoadTLSConfig(s)
  \/ ReadPart(s, "cert", "key") \/ ReadPart(s, "key", "pair")
  \/ ParsePair(s)
  \/ Return(s)

-----------------------------------------------------------------------------
(* Correctness.                                                            *)

\* Whoever asks, and whenever, gets the same answer, and nobody gets one
\* before there is one (server.go:311-315).
CallsAgree ==
  \A s \in Sessions : call[s].at = "returned" => call[s].got = tls /\ tls # NotLoaded

\* The key of a certificate that is used is its own, whatever was renewed
\* between the reading of one and of the other (server.go:285-298).
KeyFitsCertificate ==
  tls \in Versions => pair = [f \in {"cert", "key"} |-> tls]

\* The steps of a load.
Loads == {"section", "cert", "key", "pair"}

\* There is one load, the result stands once it is done, and what was read is
\* that of the load.
TlsInv ==
  /\ \A s \in Sessions : call[s].at \in Loads =>
       once = "running" /\ \A t \in Sessions : call[t].at \in Loads => t = s
  /\ \A s \in Sessions : call[s].at \in {"key", "pair"} => pair["cert"] \in Versions
  /\ once = "done" <=> tls # NotLoaded
  /\ \A s \in Sessions : call[s].at = "returned" => once = "done"
  /\ CallsAgree /\ KeyFitsCertificate

\* What every connection gets is the one answer, and a certificate with its
\* own key, however the first calls and the renewals interleave.
OneWholeCertificate == CallsAgree /\ KeyFitsCertificate
=============================================================================
