---------------------------- MODULE TransferProofs ----------------------------
(***************************************************************************)
(* What modules Tls and Transfer guarantee for any number of sessions, of  *)
(* files and of pieces: their inductive invariants, and the properties     *)
(* that follow from them.                                                  *)
(***************************************************************************)
EXTENDS Transfer, SequenceTheorems, TLAPS

-----------------------------------------------------------------------------
(* The certificate.                                                        *)

(* Before the first connection, nothing is loaded.                         *)
LEMMA TlsInitInv == TlsInit => TlsTypeOK /\ TlsInv
<1> SUFFICES ASSUME TlsInit PROVE TlsTypeOK /\ TlsInv
  OBVIOUS
<1>1. (CHOOSE v \in Versions : TRUE) \in Versions
  BY VersionsAssumption
<1>2. TlsTypeOK
  BY <1>1, VersionsAssumption DEF TlsInit, TlsTypeOK, NoCall, Results
<1>3. TlsInv
  BY VersionsAssumption DEF TlsInit, TlsInv, Loads, NoCall, CallsAgree, KeyFitsCertificate
<1> QED BY <1>2, <1>3

(* A load ends once, with a result for everybody.                          *)
LEMMA LoadedKeepsTls ==
  ASSUME TlsTypeOK, TlsInv, UNCHANGED <<diskVars, pair>>,
         NEW s \in Sessions, call[s].at \in Loads,
         NEW result \in Versions \cup {"error"}, Loaded(s, result),
         result \in Versions => pair = [f \in {"cert", "key"} |-> result]
  PROVE  TlsTypeOK' /\ TlsInv'
<1>1. call' \in [Sessions -> [at : {"none", "waiting", "section", "cert", "key", "pair", "returned"},
                              got : Results]]
  BY DEF Loaded, TlsTypeOK
<1>2. TlsTypeOK'
  BY <1>1 DEF Loaded, TlsTypeOK, Results, diskVars
<1>3. \A t \in Sessions : call[t].at # "returned" /\ (call[t].at \in Loads => t = s)
  BY DEF TlsInv, Loads
<1>4. \A t \in Sessions : call'[t].at # "returned" /\ call'[t].at \notin Loads
  BY <1>3 DEF Loaded, TlsTypeOK, Loads
<1>5. tls' # NotLoaded /\ once' = "done"
  BY VersionsAssumption DEF Loaded
<1>6. (tls \in Versions)' => pair' = [f \in {"cert", "key"} |-> tls']
  BY VersionsAssumption DEF Loaded
<1> QED BY <1>2, <1>4, <1>5, <1>6 DEF TlsInv, Loads, CallsAgree, KeyFitsCertificate

(* Every step of a call keeps the invariant.                               *)
LEMMA TlsNextInv ==
  ASSUME TlsTypeOK, TlsInv,
         \/ Renew \/ ReloadTls
         \/ \E s \in Sessions : LoadStep(s)
         \/ \E s \in Sessions : Ask(s) /\ UNCHANGED <<diskVars, pair, tls>>
         \/ \E s \in Sessions : /\ call[s].at = "returned"
                                /\ call' = [call EXCEPT ![s] = NoCall]
                                /\ UNCHANGED <<diskVars, once, pair, tls>>
         \/ UNCHANGED tlsVars
  PROVE  TlsTypeOK' /\ TlsInv'
<1> USE DEF Loads
<1>1. CASE Renew
  BY <1>1, VersionsAssumption DEF Renew, TlsTypeOK, TlsInv, CallsAgree, KeyFitsCertificate
<1>2. CASE ReloadTls
  BY <1>2, VersionsAssumption DEF ReloadTls, TlsTypeOK, TlsInv, CallsAgree, KeyFitsCertificate
<1>3. ASSUME NEW s \in Sessions, LoadTLSConfig(s) PROVE TlsTypeOK' /\ TlsInv'
  <2>1. CASE enabled
    <3>1. TlsTypeOK'
      BY <1>3, <2>1 DEF LoadTLSConfig, TlsTypeOK, diskVars
    <3>2. TlsInv'
      BY <1>3, <2>1 DEF LoadTLSConfig, TlsTypeOK, TlsInv, CallsAgree, KeyFitsCertificate, diskVars
    <3> QED BY <3>1, <3>2
  <2>2. CASE ~enabled
    BY <1>3, <2>2, LoadedKeepsTls, VersionsAssumption DEF LoadTLSConfig
  <2> QED BY <2>1, <2>2
<1>4. ASSUME NEW s \in Sessions, NEW f \in {"cert", "key"}, NEW then \in {"key", "pair"},
             then = (IF f = "cert" THEN "key" ELSE "pair"), ReadPart(s, f, then)
      PROVE  TlsTypeOK' /\ TlsInv'
  <2>1. CASE disk[f] = NoFile
    BY <1>4, <2>1, LoadedKeepsTls, VersionsAssumption DEF ReadPart
  <2>2. CASE disk[f] # NoFile
    <3>1. disk[f] \in Versions /\ pair' = [pair EXCEPT ![f] = disk[f]]
      BY <1>4, <2>2 DEF ReadPart, TlsTypeOK
    <3>2. call' = [call EXCEPT ![s].at = then] /\ UNCHANGED <<once, tls, diskVars>>
      BY <1>4, <2>2 DEF ReadPart
    <3>3. call[s].at = f
      BY <1>4 DEF ReadPart
    <3>4. TlsTypeOK'
      BY <3>1, <3>2 DEF TlsTypeOK, diskVars
    <3>5. tls \notin Versions
      BY <3>3, VersionsAssumption DEF TlsInv
    <3>6. \A t \in Sessions : call'[t].at \in {"key", "pair"} => t = s
      BY <3>2, <3>3 DEF TlsInv, TlsTypeOK
    <3>7. pair'["cert"] \in Versions
      BY <1>4, <3>1, <3>3 DEF TlsInv, TlsTypeOK
    <3>8. TlsInv'
      BY <3>2, <3>3, <3>5, <3>6, <3>7 DEF TlsInv, TlsTypeOK, CallsAgree, KeyFitsCertificate
    <3> QED BY <3>4, <3>8
  <2> QED BY <2>1, <2>2
<1>5. ASSUME NEW s \in Sessions, ParsePair(s) PROVE TlsTypeOK' /\ TlsInv'
  <2>1. pair["cert"] \in Versions /\ call[s].at = "pair"
    BY <1>5 DEF ParsePair, TlsInv
  <2>2. pair["cert"] = pair["key"] => pair = [f \in {"cert", "key"} |-> pair["cert"]]
    BY DEF TlsTypeOK
  <2>3. /\ X509KeyPair \in Versions \cup {"error"}
        /\ X509KeyPair \in Versions => pair = [f \in {"cert", "key"} |-> X509KeyPair]
    BY <2>1, <2>2, VersionsAssumption DEF X509KeyPair
  <2> QED BY <1>5, <2>1, <2>3, LoadedKeepsTls DEF ParsePair
<1>6. ASSUME NEW s \in Sessions, Return(s) PROVE TlsTypeOK' /\ TlsInv'
  <2>1. TlsTypeOK'
    BY <1>6 DEF Return, TlsTypeOK, diskVars
  <2>2. TlsInv'
    BY <1>6 DEF Return, TlsTypeOK, TlsInv, CallsAgree, KeyFitsCertificate, diskVars
  <2> QED BY <2>1, <2>2
<1>7. ASSUME NEW s \in Sessions, Ask(s), UNCHANGED <<diskVars, pair, tls>>
      PROVE  TlsTypeOK' /\ TlsInv'
  <2>1. TlsTypeOK'
    BY <1>7 DEF Ask, TlsTypeOK, diskVars
  <2>2. CASE once = "new"
    <3>1. \A t \in Sessions : call[t].at \notin Loads /\ call[t].at # "returned"
      BY <2>2 DEF TlsInv
    <3> QED BY <1>7, <2>1, <2>2, <3>1 DEF Ask, TlsTypeOK, TlsInv, CallsAgree, KeyFitsCertificate
  <2>3. CASE once # "new"
    BY <1>7, <2>1, <2>3 DEF Ask, TlsTypeOK, TlsInv, CallsAgree, KeyFitsCertificate
  <2> QED BY <2>2, <2>3
<1>8. ASSUME NEW s \in Sessions, call[s].at = "returned", call' = [call EXCEPT ![s] = NoCall],
             UNCHANGED <<diskVars, once, pair, tls>>
      PROVE  TlsTypeOK' /\ TlsInv'
  <2>1. TlsTypeOK'
    BY <1>8 DEF TlsTypeOK, diskVars, NoCall, Results
  <2>2. TlsInv'
    BY <1>8 DEF TlsTypeOK, TlsInv, CallsAgree, KeyFitsCertificate, NoCall
  <2> QED BY <2>1, <2>2
<1>9. CASE UNCHANGED tlsVars
  BY <1>9 DEF tlsVars, diskVars, TlsTypeOK, TlsInv, CallsAgree, KeyFitsCertificate
<1>10. ASSUME NEW s \in Sessions, LoadStep(s) PROVE TlsTypeOK' /\ TlsInv'
  BY <1>3, <1>4, <1>5, <1>6, <1>10 DEF LoadStep
<1> QED BY <1>1, <1>2, <1>7, <1>8, <1>9, <1>10

-----------------------------------------------------------------------------
(* The transfers.                                                          *)

(* The part of the invariant about the transfers.                          *)
FilesInv ==
  /\ OpenInv /\ MailInv
  /\ AcknowledgedIsMailed /\ LogAgreesWithReply /\ ReadOnlyMailsNothing

(* What is shared by the steps of a transfer that mail nothing.            *)
LEMMA NothingMailed ==
  ASSUME TypeOK, FilesInv, UNCHANGED <<mails, replies>>, opens' >= opens,
         opens' \in Nat, OpenInv'
  PROVE  FilesInv'
<1>1. \A r \in replies : r.file \in Nat
  BY BoundsAssumption DEF TypeOK, ReplyType
<1>2. MailInv'
  BY <1>1, BoundsAssumption DEF FilesInv, MailInv, TypeOK
<1>3. AcknowledgedIsMailed' /\ LogAgreesWithReply' /\ ReadOnlyMailsNothing'
  BY DEF FilesInv, AcknowledgedIsMailed, LogAgreesWithReply, ReadOnlyMailsNothing
<1> QED BY <1>2, <1>3 DEF FilesInv

(* A session without a transfer is of the type of transfers.               *)
LEMMA NoTransferType == NoTransfer \in XferType
<1>1. <<>> \in ContentType
  BY EmptySeq DEF ContentType
<1> QED BY <1>1, BoundsAssumption DEF NoTransfer, XferType

(* At the start, nothing is open, mailed or answered.                      *)
LEMMA InitIInv == Init => IInv
<1> SUFFICES ASSUME Init PROVE IInv
  OBVIOUS
<1>1. TlsTypeOK /\ TlsInv
  BY TlsInitInv DEF Init
<1>2. NoTransfer \in XferType
  BY NoTransferType
<1>3. TypeOK
  BY <1>1, <1>2, BoundsAssumption, EmptySeq DEF Init, TypeOK
<1>4. Active = {}
  BY DEF Init, Active, NoTransfer
<1>5. OpenInv /\ MailInv
  BY <1>4 DEF Init, OpenInv, MailInv
<1>6. AcknowledgedIsMailed /\ LogAgreesWithReply /\ ReadOnlyMailsNothing
  BY DEF Init, AcknowledgedIsMailed, LogAgreesWithReply, ReadOnlyMailsNothing
<1> QED BY <1>1, <1>3, <1>5, <1>6 DEF IInv

(* A step that leaves the open files as they are.                          *)
Moves(s, at, failed) == xfer' = [xfer EXCEPT ![s] = [xfer[s] EXCEPT !.at = at, !.failed = failed]]

LEMMA SameFiles ==
  ASSUME TypeOK, FilesInv, UNCHANGED <<access, opens, mails, replies>>,
         NEW s \in Sessions, NEW at \in {"idle", "tls", "passive", "opened", "data", "closing"},
         NEW failed \in BOOLEAN, Moves(s, at, failed),
         s \in Active \/ at \in {"idle", "tls", "passive"}
  PROVE  FilesInv' /\ xfer' \in [Sessions -> XferType]
<1> DEFINE u == [xfer[s] EXCEPT !.at = at, !.failed = failed]
<1>1. xfer \in [Sessions -> XferType] /\ xfer[s] \in XferType
  BY DEF TypeOK
<1>2. /\ u \in XferType /\ u.at = at
      /\ u.file = xfer[s].file /\ u.content = xfer[s].content /\ u.arrived = xfer[s].arrived
      /\ u.op = xfer[s].op /\ u.counted = xfer[s].counted
  BY <1>1 DEF XferType
<1>3. xfer' = [xfer EXCEPT ![s] = u]
  BY DEF Moves
<1> HIDE DEF u
<1>4. Active' \subseteq Active
  BY <1>1, <1>2, <1>3 DEF Active
<1>5. \A t \in Sessions : /\ xfer'[t].file = xfer[t].file /\ xfer'[t].content = xfer[t].content
                         /\ xfer'[t].arrived = xfer[t].arrived /\ xfer'[t].op = xfer[t].op
                         /\ xfer'[t].counted = xfer[t].counted
  BY <1>1, <1>2, <1>3
<1>6. OpenInv'
  <2>1. \A t \in Active' : t \in Active /\ t \in Sessions
    BY <1>4 DEF Active
  <2>2. access' = access /\ opens' = opens /\ replies' = replies
    OBVIOUS
  <2> QED BY <1>5, <2>1, <2>2 DEF FilesInv, OpenInv, WholeFrom
<1>7. FilesInv'
  <2>1. opens \in Nat /\ opens' = opens
    BY BoundsAssumption DEF TypeOK
  <2> QED BY <1>6, <2>1, NothingMailed
<1> QED BY <1>1, <1>2, <1>3, <1>7

(* The steps before and after the data keep the invariant.                 *)
LEMMA MovesKeep ==
  ASSUME TypeOK, FilesInv, NEW s \in Sessions,
         Passive(s) \/ PassiveAnswered(s) \/ Connect(s) \/ DataEnds(s)
  PROVE  /\ FilesInv' /\ xfer' \in [Sessions -> XferType]
         /\ UNCHANGED <<access, opens, mails, replies>>
<1>1. UNCHANGED <<access, opens, mails, replies>>
  BY DEF Passive, PassiveAnswered, Connect, DataEnds
<1>2. xfer[s].failed \in BOOLEAN /\ xfer \in [Sessions -> XferType]
  BY DEF TypeOK, XferType
<1>3. ASSUME NEW at, Goto(s, at) PROVE Moves(s, at, xfer[s].failed)
  <2>1. xfer[s] \in XferType
    BY <1>2
  <2>2. [xfer[s] EXCEPT !.at = at] = [xfer[s] EXCEPT !.at = at, !.failed = xfer[s].failed]
    BY <2>1 DEF XferType
  <2> QED BY <1>3, <2>2 DEF Goto, Moves
<1>4. CASE Passive(s) \/ PassiveAnswered(s)
  <2>1. PICK at \in {"idle", "tls", "passive"} : Goto(s, at)
    BY <1>4 DEF Passive, PassiveAnswered
  <2> QED BY <1>1, <1>2, <1>3, <2>1, SameFiles
<1>5. CASE Connect(s) \/ DataEnds(s)
  <2>1. s \in Active
    BY <1>5 DEF Connect, DataEnds, Active
  <2>2. PICK at \in {"data", "closing"}, failed \in BOOLEAN : Moves(s, at, failed)
    <3>1. CASE Connect(s)
      BY <1>2, <1>3, <3>1 DEF Connect, Moves
    <3>2. CASE DataEnds(s)
      BY <3>2 DEF DataEnds, Moves
    <3> QED BY <1>5, <3>1, <3>2
  <2> QED BY <1>1, <2>1, <2>2, SameFiles
<1> QED BY <1>1, <1>4, <1>5

(* A new file is nobody else's, and nothing of it is mailed yet.           *)
LEMMA OpenKeeps ==
  ASSUME TypeOK, FilesInv, NEW s \in Sessions, NEW op \in {"STOR", "RETR"}, OpenFile(s, op)
  PROVE  /\ FilesInv' /\ xfer' \in [Sessions -> XferType] /\ opens' \in 0 .. MaxOpens
         /\ UNCHANGED <<access, mails, replies>>
<1>1. xfer \in [Sessions -> XferType] /\ xfer[s] \in XferType /\ opens \in 0 .. MaxOpens
  BY DEF TypeOK
<1>2. UNCHANGED <<access, mails, replies>>
  BY DEF OpenFile
<1>3. CASE ReadOnlyRefuses(s, op)
  <2>1. Moves(s, "idle", xfer[s].failed)
    <3>1. [xfer[s] EXCEPT !.at = "idle"]
            = [xfer[s] EXCEPT !.at = "idle", !.failed = xfer[s].failed]
      BY <1>1 DEF XferType
    <3> QED BY <1>3, <3>1 DEF OpenFile, Goto, Moves
  <2>2. xfer[s].failed \in BOOLEAN /\ opens' = opens
    BY <1>1, <1>3 DEF XferType, OpenFile
  <2> QED BY <1>1, <1>2, <2>1, <2>2, SameFiles
<1>4. CASE ~ReadOnlyRefuses(s, op)
  <2>1. PICK name \in Names :
          xfer' = [xfer EXCEPT ![s] =
            [NoTransfer EXCEPT !.at = "opened", !.op = op, !.name = name, !.file = opens',
                               !.content = Buffer(name)]]
    BY <1>4 DEF OpenFile
  <2> DEFINE u == [NoTransfer EXCEPT !.at = "opened", !.op = op, !.name = name, !.file = opens',
                                     !.content = Buffer(name)]
  <2>2. opens' = opens + 1 /\ opens' \in 0 .. MaxOpens /\ opens' \in Nat /\ opens \in Nat
    <3>1. opens' = opens + 1 /\ opens < MaxOpens
      BY <1>4 DEF OpenFile
    <3> QED BY <1>1, <3>1, BoundsAssumption
  <2>3. u.content = <<>> /\ u.file = opens' /\ u.arrived = 0 /\ u.counted = 0 /\ u.op = op
    BY DEF NoTransfer, Buffer
  <2>4. u \in XferType
    BY <2>2, NoTransferType DEF XferType, NoTransfer, Buffer
  <2>5. xfer' = [xfer EXCEPT ![s] = u]
    BY <2>1
  <2> HIDE DEF u
  <2>6. \A t \in Sessions : t # s => xfer'[t] = xfer[t]
    BY <1>1, <2>5
  <2>7. xfer'[s] = u
    BY <1>1, <2>5
  <2>8. \A r \in replies : r.file \in Nat /\ r.file <= opens
    BY BoundsAssumption DEF TypeOK, ReplyType, FilesInv, MailInv
  <2>9. \A t \in Active' : t # s => t \in Active /\ xfer'[t] = xfer[t]
                                  /\ xfer[t].file \in 1 .. opens
    BY <2>6 DEF Active, FilesInv, OpenInv
  <2>10. ASSUME access[s].readOnly PROVE op = "RETR"
    BY <1>4, <2>10 DEF ReadOnlyRefuses
  <2>11. OpenInv'
    <3>1. ASSUME NEW t \in Active', t # s
          PROVE  /\ xfer'[t].file \in 1 .. opens'
                 /\ \A v \in Active' : xfer'[v].file = xfer'[t].file => v = t
                 /\ \A r \in replies' : r.file # xfer'[t].file
                 /\ WholeFrom(xfer'[t].content, xfer'[t].file)
                 /\ Len(xfer'[t].content) = xfer'[t].arrived
                 /\ access'[t].logged => xfer'[t].counted = xfer'[t].arrived
                 /\ access'[t].readOnly => xfer'[t].content = <<>> /\ xfer'[t].op = "RETR"
      <4>1. /\ t \in Active /\ xfer'[t] = xfer[t] /\ xfer[t].file \in 1 .. opens
            /\ access' = access /\ replies' = replies
        BY <1>2, <2>9, <3>1
      <4>2. \A v \in Active' : xfer'[v].file = xfer'[t].file => v = t
        BY <2>2, <2>3, <2>7, <2>9, <4>1 DEF FilesInv, OpenInv
      <4> QED BY <2>2, <4>1, <4>2 DEF FilesInv, OpenInv
    <3>2. /\ xfer'[s].file \in 1 .. opens'
          /\ \A v \in Active' : xfer'[v].file = xfer'[s].file => v = s
          /\ \A r \in replies' : r.file # xfer'[s].file
      BY <1>2, <2>2, <2>3, <2>7, <2>8, <2>9
    <3>3. /\ WholeFrom(xfer'[s].content, xfer'[s].file)
          /\ Len(xfer'[s].content) = xfer'[s].arrived
          /\ access'[s].logged => xfer'[s].counted = xfer'[s].arrived
          /\ access'[s].readOnly => xfer'[s].content = <<>> /\ xfer'[s].op = "RETR"
      BY <1>2, <2>3, <2>7, <2>10, EmptySeq DEF WholeFrom
    <3> QED BY <3>1, <3>2, <3>3 DEF OpenInv, WholeFrom
  <2>12. FilesInv'
    BY <1>2, <2>2, <2>11, NothingMailed
  <2> QED BY <1>1, <1>2, <2>2, <2>4, <2>5, <2>12
<1> QED BY <1>3, <1>4

(* A piece goes to the end of the buffer, and is counted once.             *)
LEMMA WriteKeeps ==
  ASSUME TypeOK, FilesInv, NEW s \in Sessions, Write(s)
  PROVE  /\ FilesInv' /\ xfer' \in [Sessions -> XferType]
         /\ UNCHANGED <<access, opens, mails, replies>>
<1> DEFINE
  t == xfer[s]
  piece == [file |-> t.file, part |-> t.arrived + 1]
  u == [t EXCEPT !.arrived = t.arrived + 1, !.content = Append(t.content, piece),
                 !.counted = IF access[s].logged THEN Count(t.counted) ELSE 0]
<1>1. /\ xfer \in [Sessions -> XferType] /\ t \in XferType /\ opens \in 0 .. MaxOpens
      /\ s \in Active /\ t.at = "data" /\ t.op = "STOR" /\ t.arrived < MaxChunks
      /\ UNCHANGED <<access, opens, mails, replies>>
  BY DEF TypeOK, Write, Active
<1>2. xfer' = [xfer EXCEPT ![s] = u]
  BY DEF Write
<1>3. /\ t.file \in 1 .. opens /\ WholeFrom(t.content, t.file) /\ Len(t.content) = t.arrived
      /\ access[s].logged => t.counted = t.arrived
      /\ ~access[s].readOnly
  BY <1>1 DEF FilesInv, OpenInv
<1>4. t.arrived \in Nat /\ t.arrived + 1 \in 1 .. MaxChunks /\ t.file \in 1 .. MaxOpens
  <2>1. t.arrived \in 0 .. MaxChunks
    BY <1>1 DEF XferType
  <2> QED BY <1>1, <1>3, <2>1, BoundsAssumption
<1>5. t.content \in ContentType /\ piece \in Chunk
  BY <1>1, <1>4 DEF XferType, Chunk
<1> DEFINE more == Append(t.content, piece)
<1>6. /\ more \in ContentType /\ Len(more) = Len(t.content) + 1
      /\ \A i \in 1 .. Len(t.content) : more[i] = t.content[i]
      /\ more[Len(t.content) + 1] = piece
  BY <1>5, AppendProperties DEF ContentType
<1>7. WholeFrom(more, t.file)
  <2>1. DOMAIN more = 1 .. t.arrived + 1 /\ DOMAIN t.content = 1 .. t.arrived
    BY <1>3, <1>4, <1>5, <1>6 DEF ContentType
  <2> QED BY <1>3, <1>4, <1>6, <2>1 DEF WholeFrom
<1>8. /\ (IF access[s].logged THEN Count(t.counted) ELSE 0) \in 0 .. MaxChunks
      /\ access[s].logged => Count(t.counted) = t.arrived + 1
  BY <1>3, <1>4, BoundsAssumption DEF Count
<1>9. /\ u.at = "data" /\ u.file = t.file /\ u.op = t.op /\ u.content = more
      /\ u.arrived = t.arrived + 1
      /\ u.counted = IF access[s].logged THEN Count(t.counted) ELSE 0
  BY <1>1 DEF XferType
<1>10. u \in XferType
  <2>1. t.arrived + 1 \in 0 .. MaxChunks
    BY <1>4
  <2> QED BY <1>1, <1>6, <1>8, <2>1 DEF XferType
<1> HIDE DEF u, more, piece
<1>11. \A v \in Sessions : v # s => xfer'[v] = xfer[v]
  BY <1>1, <1>2
<1>12. xfer'[s] = u
  BY <1>1, <1>2
<1>13. Active' = Active /\ \A v \in Sessions : xfer'[v].file = xfer[v].file
  BY <1>1, <1>9, <1>11, <1>12 DEF Active
<1>14. OpenInv'
  <2>1. ASSUME NEW v \in Active, v # s
        PROVE  xfer'[v] = xfer[v]
    BY <1>11, <2>1 DEF Active
  <2>2. /\ WholeFrom(u.content, u.file) /\ Len(u.content) = u.arrived
        /\ access[s].logged => u.counted = u.arrived
    BY <1>3, <1>6, <1>7, <1>8, <1>9
  <2>3. \A v \in Active : v \in Sessions
    BY DEF Active
  <2> QED BY <1>1, <1>3, <1>9, <1>12, <1>13, <2>1, <2>2, <2>3 DEF FilesInv, OpenInv, WholeFrom
<1>15. FilesInv'
  <2>1. opens \in Nat /\ opens' = opens
    BY <1>1, BoundsAssumption
  <2> QED BY <1>1, <1>14, <2>1, NothingMailed
<1> QED BY <1>1, <1>2, <1>10, <1>15

(* A file is mailed, and answered, when it is closed, and never again.     *)
LEMMA CloseKeeps ==
  ASSUME TypeOK, FilesInv, NEW s \in Sessions, Close(s)
  PROVE  /\ FilesInv' /\ xfer' \in [Sessions -> XferType] /\ mails' \in Seq(MailType)
         /\ replies' \subseteq ReplyType /\ UNCHANGED <<access, opens>>
<1> DEFINE t == xfer[s]
<1>1. PICK taken \in BOOLEAN, failed \in BOOLEAN :
        /\ failed \/ taken
        /\ mails' = IF taken THEN Append(mails, Mail(s)) ELSE mails
        /\ replies' = replies \cup
             {[file |-> xfer[s].file, op |-> xfer[s].op, arrived |-> xfer[s].arrived,
               readOnly |-> access[s].readOnly, logged |-> access[s].logged,
               ok |-> ~xfer[s].failed /\ (xfer[s].op = "STOR" => ~LogClose(s, failed)),
               line |-> Line(s, failed)]}
  BY DEF Close
<1> DEFINE
  reply == [file |-> t.file, op |-> t.op, arrived |-> t.arrived,
            readOnly |-> access[s].readOnly, logged |-> access[s].logged,
            ok |-> ~t.failed /\ (t.op = "STOR" => ~LogClose(s, failed)),
            line |-> Line(s, failed)]
<1>2. /\ xfer \in [Sessions -> XferType] /\ t \in XferType /\ mails \in Seq(MailType)
      /\ access[s] \in [readOnly : BOOLEAN, logged : BOOLEAN] /\ replies \subseteq ReplyType
      /\ s \in Active /\ UNCHANGED <<access, opens>> /\ xfer' = [xfer EXCEPT ![s] = NoTransfer]
  BY AccessesAssumption DEF TypeOK, Close, Active
<1>3. xfer' \in [Sessions -> XferType]
  BY <1>2, NoTransferType
<1>4. Mail(s) \in MailType
  BY <1>2 DEF Mail, MailType, XferType
<1>5. mails' \in Seq(MailType)
  BY <1>1, <1>2, <1>4, AppendProperties
<1>6. reply \in ReplyType
  <2>1. t.counted \in 0 .. MaxChunks /\ 0 \in 0 .. MaxChunks
    <3>1. t \in XferType
      BY <1>2
    <3>2. t.counted \in 0 .. MaxChunks
      BY <3>1 DEF XferType
    <3> QED BY <3>2, BoundsAssumption
  <2>2. Line(s, failed) \in [failed : BOOLEAN, length : 0 .. MaxChunks]
    BY <2>1 DEF Line, NoLine
  <2>3. /\ t.file \in 0 .. MaxOpens /\ t.op \in {"STOR", "RETR"} /\ t.arrived \in 0 .. MaxChunks
        /\ t.failed \in BOOLEAN
    BY <1>2 DEF XferType
  <2>4. access[s].readOnly \in BOOLEAN /\ access[s].logged \in BOOLEAN
    BY <1>2
  <2>5. reply.ok \in BOOLEAN
    OBVIOUS
  <2> QED BY <2>2, <2>3, <2>4, <2>5 DEF ReplyType
<1>7. replies' = replies \cup {reply} /\ replies' \subseteq ReplyType
  BY <1>1, <1>2, <1>6
<1>8. /\ t.file \in 1 .. opens /\ WholeFrom(t.content, t.file) /\ Len(t.content) = t.arrived
      /\ \A r \in replies : r.file # t.file
      /\ \A v \in Active : xfer[v].file = t.file => v = s
      /\ access[s].logged => t.counted = t.arrived
      /\ access[s].readOnly => t.content = <<>> /\ t.op = "RETR"
  BY <1>2 DEF FilesInv, OpenInv
<1>9. reply.file = t.file /\ reply.op = t.op /\ reply.arrived = t.arrived
      /\ reply.readOnly = access[s].readOnly /\ reply.logged = access[s].logged
      /\ reply.ok = (~t.failed /\ (t.op = "STOR" => ~failed)) /\ reply.line = Line(s, failed)
  BY DEF LogClose
<1>10. Mail(s).file = t.file /\ Mail(s).content = t.content
  BY DEF Mail
<1> HIDE DEF reply
<1>11. OpenInv'
  <2>1. \A v \in Active' : v \in Active /\ v # s /\ xfer'[v] = xfer[v]
    BY <1>2 DEF Active, NoTransfer
  <2>2. \A v \in Active' : \A r \in replies' : r.file # xfer'[v].file
    BY <1>7, <1>8, <1>9, <2>1 DEF FilesInv, OpenInv
  <2> QED BY <1>2, <2>1, <2>2 DEF FilesInv, OpenInv, WholeFrom
<1> DEFINE n == Len(mails)
<1>12. n \in Nat /\ DOMAIN mails = 1 .. n
  BY <1>2
<1>13. \/ mails' = mails /\ ~taken
       \/ /\ taken /\ DOMAIN mails' = 1 .. n + 1
          /\ \A i \in 1 .. n : mails'[i] = mails[i]
          /\ mails'[n + 1] = Mail(s)
  <2>1. CASE taken
    <3>1. mails' = Append(mails, Mail(s))
      BY <1>1, <2>1
    <3>2. /\ Len(mails') = n + 1 /\ mails'[n + 1] = Mail(s)
          /\ \A i \in 1 .. n : mails'[i] = mails[i]
      BY <1>2, <1>4, <3>1, AppendProperties
    <3>3. DOMAIN mails' = 1 .. n + 1
      BY <1>5, <3>2
    <3> QED BY <2>1, <3>2, <3>3
  <2>2. CASE ~taken
    BY <1>1, <2>2
  <2> QED BY <2>1, <2>2
<1> HIDE DEF n
<1>14. \A i \in DOMAIN mails : mails[i].file # t.file
  BY <1>8 DEF FilesInv, MailInv
<1>15. ASSUME NEW i \in DOMAIN mails'
       PROVE  \/ i \in DOMAIN mails /\ mails'[i] = mails[i]
              \/ taken /\ i = n + 1 /\ mails'[i] = Mail(s)
  <2>1. CASE mails' = mails
    <3>1. i \in DOMAIN mails /\ mails'[i] = mails[i]
      BY <1>15, <2>1
    <3> QED BY <3>1
  <2>2. CASE /\ taken /\ DOMAIN mails' = 1 .. n + 1
             /\ \A l \in 1 .. n : mails'[l] = mails[l]
             /\ mails'[n + 1] = Mail(s)
    <3>1. i \in 1 .. n + 1
      BY <1>15, <2>2
    <3>2. i \in 1 .. n \/ i = n + 1
      BY <1>12, <3>1
    <3>3. CASE i \in 1 .. n
      BY <1>12, <2>2, <3>3
    <3>4. CASE i = n + 1
      BY <2>2, <3>4
    <3> QED BY <3>2, <3>3, <3>4
  <2> QED BY <1>13, <2>1, <2>2
<1>16. MailInv'
  <2>1. \A r \in replies' : r.file <= opens'
    BY <1>2, <1>7, <1>8, <1>9 DEF FilesInv, MailInv
  <2>3. \A i \in DOMAIN mails' : /\ WholeFrom(mails'[i].content, mails'[i].file)
                                /\ \E r \in replies' : r.file = mails'[i].file
    BY <1>7, <1>8, <1>9, <1>10, <1>15 DEF FilesInv, MailInv
  <2>4. \A i, j \in DOMAIN mails' : mails'[i].file = mails'[j].file => i = j
    BY <1>10, <1>14, <1>15 DEF FilesInv, MailInv
  <2> QED BY <2>1, <2>3, <2>4 DEF MailInv
<1>17. \A i \in DOMAIN mails : i \in DOMAIN mails' /\ mails'[i] = mails[i]
  BY <1>12, <1>13
<1>18. AcknowledgedIsMailed'
  <2>1. ASSUME NEW r \in replies, r.op = "STOR", r.ok
        PROVE  \E i \in DOMAIN mails' :
                 mails'[i].file = r.file /\ Len(mails'[i].content) = r.arrived
    BY <1>17, <2>1 DEF FilesInv, AcknowledgedIsMailed
  <2>2. ASSUME reply.op = "STOR", reply.ok
        PROVE  \E i \in DOMAIN mails' :
                 mails'[i].file = reply.file /\ Len(mails'[i].content) = reply.arrived
    <3>1. taken
      BY <1>1, <1>9, <2>2
    <3>2. n + 1 \in DOMAIN mails' /\ mails'[n + 1] = Mail(s)
      BY <1>12, <1>13, <3>1
    <3> QED BY <1>8, <1>9, <1>10, <3>2
  <2> QED BY <1>7, <2>1, <2>2 DEF AcknowledgedIsMailed
<1>19. LogAgreesWithReply'
  <2>1. reply.op = "STOR" /\ reply.ok /\ reply.logged
          => reply.line = [failed |-> FALSE, length |-> reply.arrived]
    BY <1>8, <1>9 DEF Line
  <2> QED BY <1>7, <2>1 DEF FilesInv, LogAgreesWithReply
<1>20. ReadOnlyMailsNothing'
  <2>1. ASSUME NEW r \in replies, r.readOnly, NEW i \in DOMAIN mails', mails'[i].file = r.file
        PROVE  mails'[i].content = <<>>
    <3>1. i \in DOMAIN mails /\ mails'[i] = mails[i]
      BY <1>8, <1>10, <1>12, <1>13, <2>1
    <3> QED BY <2>1, <3>1 DEF FilesInv, ReadOnlyMailsNothing
  <2>2. ASSUME reply.readOnly, NEW i \in DOMAIN mails', mails'[i].file = reply.file
        PROVE  mails'[i].content = <<>>
    <3>1. mails'[i] = Mail(s)
      BY <1>9, <1>14, <1>15, <2>2
    <3> QED BY <1>8, <1>9, <1>10, <2>2, <3>1
  <2> QED BY <1>7, <2>1, <2>2 DEF ReadOnlyMailsNothing
<1> QED BY <1>2, <1>3, <1>5, <1>7, <1>11, <1>16, <1>18, <1>19, <1>20 DEF FilesInv

-----------------------------------------------------------------------------
(* Every step of the program keeps the invariant.                          *)
LEMMA NextIInv == IInv /\ [Next]_vars => IInv'
<1> SUFFICES ASSUME IInv, [Next]_vars PROVE IInv'
  OBVIOUS
<1>1. TypeOK /\ TlsTypeOK /\ TlsInv /\ FilesInv
  BY DEF IInv, TypeOK, FilesInv
<1>2. ASSUME TlsTypeOK' /\ TlsInv', FilesInv', access' \in [Sessions -> Accesses],
             opens' \in 0 .. MaxOpens, xfer' \in [Sessions -> XferType],
             mails' \in Seq(MailType), replies' \subseteq ReplyType
      PROVE  IInv'
  BY <1>2 DEF IInv, TypeOK, FilesInv
<1>3. ASSUME UNCHANGED xferVars, TlsTypeOK' /\ TlsInv' PROVE IInv'
  <2>1. FilesInv' /\ TypeOK'
    BY <1>1, <1>3 DEF xferVars, TypeOK, FilesInv, OpenInv, Active, MailInv, AcknowledgedIsMailed,
                      LogAgreesWithReply, ReadOnlyMailsNothing
  <2> QED BY <1>3, <2>1 DEF IInv, FilesInv
<1>4. CASE (Renew \/ ReloadTls) /\ UNCHANGED xferVars
  BY <1>1, <1>3, <1>4, TlsNextInv
<1>5. ASSUME NEW s \in Sessions, LoadStep(s), UNCHANGED xferVars PROVE IInv'
  BY <1>1, <1>3, <1>5, TlsNextInv
<1>6. CASE UNCHANGED vars
  <2>1. UNCHANGED tlsVars /\ UNCHANGED xferVars
    BY <1>6 DEF vars
  <2> QED BY <1>1, <1>3, <2>1, TlsNextInv
<1>7. ASSUME NEW s \in Sessions, Step(s) PROVE IInv'
  <2>1. TlsTypeOK' /\ TlsInv'
    <3>1. CASE Passive(s)
      <4>1. \/ Ask(s) /\ UNCHANGED <<diskVars, pair, tls>>
            \/ UNCHANGED tlsVars
        BY <3>1 DEF Passive, tlsVars
      <4> QED BY <1>1, <4>1, TlsNextInv
    <3>2. CASE PassiveAnswered(s)
      <4>1. /\ call[s].at = "returned" /\ call' = [call EXCEPT ![s] = NoCall]
            /\ UNCHANGED <<diskVars, once, pair, tls>>
        BY <3>2 DEF PassiveAnswered
      <4> QED BY <1>1, <4>1, TlsNextInv
    <3>3. CASE UNCHANGED tlsVars
      BY <1>1, <3>3, TlsNextInv
    <3> QED BY <1>7, <3>1, <3>2, <3>3 DEF Step, Connect, OpenFile, Write, DataEnds, Close
  <2>2. CASE Passive(s) \/ PassiveAnswered(s) \/ Connect(s) \/ DataEnds(s)
    <3>1. /\ FilesInv' /\ xfer' \in [Sessions -> XferType]
          /\ UNCHANGED <<access, opens, mails, replies>>
      BY <1>1, <2>2, MovesKeep
    <3> QED BY <1>1, <1>2, <2>1, <3>1 DEF TypeOK
  <2>3. ASSUME NEW op \in {"STOR", "RETR"}, OpenFile(s, op) PROVE IInv'
    <3>1. /\ FilesInv' /\ xfer' \in [Sessions -> XferType] /\ opens' \in 0 .. MaxOpens
          /\ UNCHANGED <<access, mails, replies>>
      BY <1>1, <2>3, OpenKeeps
    <3> QED BY <1>1, <1>2, <2>1, <3>1 DEF TypeOK
  <2>4. CASE Write(s)
    <3>1. /\ FilesInv' /\ xfer' \in [Sessions -> XferType]
          /\ UNCHANGED <<access, opens, mails, replies>>
      BY <1>1, <2>4, WriteKeeps
    <3> QED BY <1>1, <1>2, <2>1, <3>1 DEF TypeOK
  <2>5. CASE Close(s)
    <3>1. /\ FilesInv' /\ xfer' \in [Sessions -> XferType] /\ mails' \in Seq(MailType)
          /\ replies' \subseteq ReplyType /\ UNCHANGED <<access, opens>>
      BY <1>1, <2>5, CloseKeeps
    <3> QED BY <1>1, <1>2, <2>1, <3>1 DEF TypeOK
  <2> QED BY <1>7, <2>2, <2>3, <2>4, <2>5 DEF Step
<1> QED BY <1>4, <1>5, <1>6, <1>7 DEF Next

(* IInv holds in every reachable state.                                    *)
THEOREM Invariance == Spec => []IInv
<1> QED BY InitIInv, NextIInv, PTL DEF Spec

(* The state of certificate and transfers keeps its types.                 *)
THEOREM TypeCorrect == Spec => []TypeOK
<1>1. IInv => TypeOK
  BY DEF IInv
<1> QED BY <1>1, Invariance, PTL

(* All connections get the same answer, and none before there is one; and  *)
(* a certificate is used with its own key only.                            *)
THEOREM CertificateIsOne == Spec => []OneWholeCertificate
<1>1. IInv => OneWholeCertificate
  BY DEF IInv, TlsInv, OneWholeCertificate
<1> QED BY <1>1, Invariance, PTL

(* A mail is one file, from its first piece on, and a file one mail; and   *)
(* nothing a read-only access sends is mailed.                             *)
THEOREM MailsAreTheUploads == Spec => []MailsAreUploads
<1>1. IInv => MailsAreUploads
  <2> SUFFICES ASSUME IInv PROVE MailsAreUploads
    OBVIOUS
  <2>1. MailInv /\ ReadOnlyMailsNothing
    BY DEF IInv
  <2>2. EachMailIsOneFile
    BY <2>1 DEF MailInv, WholeFrom, EachMailIsOneFile
  <2> QED BY <2>1, <2>2 DEF MailsAreUploads
<1> QED BY <1>1, Invariance, PTL

(* An acknowledged upload was mailed with all that arrived of it, and the  *)
(* log agrees with what its client was told.                               *)
THEOREM AcknowledgementsAreTrue == Spec => []RepliesAreTrue
<1>1. IInv => RepliesAreTrue
  BY DEF IInv, RepliesAreTrue
<1> QED BY <1>1, Invariance, PTL
=============================================================================
