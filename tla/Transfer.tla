------------------------------- MODULE Transfer -------------------------------
(***************************************************************************)
(* The transfers of sessions whose access has the mail backend, through    *)
(* all the layers between ftpserverlib and the mail server: GetTLSConfig   *)
(* for the data connection (module Tls), the logging of fs/fslog, the      *)
(* read-only wrapper of fs/fs.go, and the files of fs/mail, which keep     *)
(* what is written and mail it when they are closed.                       *)
(*                                                                         *)
(* ftpserverlib opens the file before the data connection, and closes it   *)
(* whatever became of the transfer.  The end of the data is the end of the *)
(* connection, wherever the client stopped.  An error of Close fails an    *)
(* upload, and is ignored after a download.  Mail servers refuse, break    *)
(* the connection, or take the mail and lose the answer.                   *)
(***************************************************************************)
EXTENDS Tls, Sequences, FiniteSets

CONSTANTS
  Names,      \* the names of the files
  Accesses,   \* [readOnly, logged]: the accesses of the sessions
  MaxOpens,   \* bound: how many files are opened
  MaxChunks   \* bound: how many pieces an upload is made of

ASSUME AccessesAssumption == Accesses \subseteq [readOnly : BOOLEAN, logged : BOOLEAN]

ASSUME BoundsAssumption == MaxOpens \in Nat /\ MaxChunks \in Nat

VARIABLES
  access,  \* of each session
  opens,   \* how many files were opened
  xfer,    \* the transfer of each session
  mails,   \* what the mail server has taken, in order
  replies  \* the transfers that were answered

xferVars == <<access, opens, xfer, mails, replies>>
vars == <<tlsVars, xferVars>>

Chunk == [file : 1 .. MaxOpens, part : 1 .. MaxChunks]
ContentType == Seq(Chunk)

\* A transfer: "file" counts the files opened; "arrived" is what came over the
\* data connection, "content" the buffer of the mail's file, "counted" the
\* lengthWritten of the log's.
NoTransfer == [at |-> "idle", op |-> "RETR", name |-> "", file |-> 0, arrived |-> 0, content |-> <<>>,
               counted |-> 0, failed |-> FALSE]

XferType ==
  [at : {"idle", "tls", "passive", "opened", "data", "closing"}, op : {"STOR", "RETR"},
   name : Names \cup {""}, file : 0 .. MaxOpens, arrived : 0 .. MaxChunks, content : ContentType,
   counted : 0 .. MaxChunks, failed : BOOLEAN]

MailType == [name : Names \cup {""}, content : ContentType, file : 0 .. MaxOpens]

ReplyType ==
  [file : 0 .. MaxOpens, op : {"STOR", "RETR"}, arrived : 0 .. MaxChunks, readOnly : BOOLEAN,
   logged : BOOLEAN, ok : BOOLEAN, line : [failed : BOOLEAN, length : 0 .. MaxChunks]]

TypeOK ==
  /\ TlsTypeOK
  /\ access \in [Sessions -> Accesses]
  /\ opens \in 0 .. MaxOpens
  /\ xfer \in [Sessions -> XferType]
  /\ mails \in Seq(MailType)
  /\ replies \subseteq ReplyType

Init ==
  /\ TlsInit
  /\ access \in [Sessions -> Accesses]
  /\ opens = 0
  /\ xfer = [s \in Sessions |-> NoTransfer]
  /\ mails = <<>>
  /\ replies = {}

Goto(s, where) == xfer' = [xfer EXCEPT ![s].at = where]

-----------------------------------------------------------------------------
(* The data connection.                                                    *)

\* With or without TLS; every protected connection asks for the certificate.
Passive(s) ==
  /\ xfer[s].at = "idle"
  /\ opens < MaxOpens
  /\ \/ /\ Goto(s, "passive")
        /\ UNCHANGED <<once, call>>
     \/ /\ Goto(s, "tls")
        /\ Ask(s)
  /\ UNCHANGED <<diskVars, pair, tls, access, opens, mails, replies>>

\* Without a certificate, the connection is refused.
PassiveAnswered(s) ==
  /\ xfer[s].at = "tls"
  /\ call[s].at = "returned"
  /\ Goto(s, IF call[s].got = "error" THEN "idle" ELSE "passive")
  /\ call' = [call EXCEPT ![s] = NoCall]
  /\ UNCHANGED <<diskVars, once, pair, tls, access, opens, mails, replies>>

\* The client connects, or never does, or the handshake fails.
Connect(s) ==
  /\ xfer[s].at = "opened"
  /\ \/ Goto(s, "data")
     \/ xfer' = [xfer EXCEPT ![s] = [@ EXCEPT !.at = "closing", !.failed = TRUE]]
  /\ UNCHANGED <<tlsVars, access, opens, mails, replies>>

-----------------------------------------------------------------------------
(* Opening: through the log and the read-only wrapper to a new buffer.     *)

\* The wrapper refuses every flag of a write.
ReadOnlyRefuses(s, op) == access[s].readOnly /\ op = "STOR"

\* Mutant of Buffer: files of one name share what they hold.
BufferOfName(name) ==
  LET sharing == {s \in Sessions : xfer[s].at \in {"opened", "data"} /\ xfer[s].name = name}
  IN  IF sharing = {} THEN <<>> ELSE xfer[CHOOSE s \in sharing : TRUE].content

\* OpenFile of the mail backend makes a buffer that nobody shares.
Buffer(name) == <<>>

OpenFile(s, op) ==
  /\ xfer[s].at = "passive"
  /\ IF ReadOnlyRefuses(s, op)
       THEN Goto(s, "idle") /\ UNCHANGED opens
       ELSE /\ opens < MaxOpens
            /\ opens' = opens + 1
            /\ \E name \in Names :
                 xfer' = [xfer EXCEPT ![s] =
                   [NoTransfer EXCEPT !.at = "opened", !.op = op, !.name = name, !.file = opens',
                                      !.content = Buffer(name)]]
  /\ UNCHANGED <<tlsVars, access, mails, replies>>

-----------------------------------------------------------------------------
(* The data.                                                               *)

\* Mutant of Count: a write counts what the write below it counted.
CountTwice(counted) == counted + 2

\* f.lengthWritten += n
Count(counted) == counted + 1

\* A piece arrives, and is appended to the buffer.
Write(s) ==
  /\ xfer[s].at = "data" /\ xfer[s].op = "STOR"
  /\ xfer[s].arrived < MaxChunks
  /\ LET t == xfer[s]
         piece == [file |-> t.file, part |-> t.arrived + 1]
     IN  xfer' = [xfer EXCEPT ![s] = [t EXCEPT
           !.arrived = t.arrived + 1,
           !.content = Append(t.content, piece),
           !.counted = IF access[s].logged THEN Count(t.counted) ELSE 0]]
  /\ UNCHANGED <<tlsVars, access, opens, mails, replies>>

\* The client's end of the data, or, for a download, that of the empty buffer;
\* or the connection breaks.
DataEnds(s) ==
  /\ xfer[s].at = "data"
  /\ \E failed \in BOOLEAN :
       xfer' = [xfer EXCEPT ![s] = [@ EXCEPT !.at = "closing", !.failed = failed]]
  /\ UNCHANGED <<tlsVars, access, opens, mails, replies>>

-----------------------------------------------------------------------------
(* Close: the mail, and what log and client are told of it.                *)

\* Mutant of LogClose: the log keeps the error for itself.
LogCloseSilent(s, failed) == access[s].logged = FALSE /\ failed

\* The log writes a line, and returns the error it was given.
LogClose(s, failed) == failed

\* What the line says, if there is a log.
NoLine == [failed |-> FALSE, length |-> 0]
Line(s, failed) ==
  IF access[s].logged THEN [failed |-> failed, length |-> xfer[s].counted] ELSE NoLine

\* DialAndSend reads the buffer from where it was read to, the beginning.
Mail(s) == [name |-> xfer[s].name, content |-> xfer[s].content, file |-> xfer[s].file]

Close(s) ==
  /\ xfer[s].at = "closing"
  /\ \E taken, failed \in BOOLEAN :
       /\ failed \/ taken
       /\ mails' = IF taken THEN Append(mails, Mail(s)) ELSE mails
       /\ replies' = replies \cup
            {[file |-> xfer[s].file, op |-> xfer[s].op, arrived |-> xfer[s].arrived,
              readOnly |-> access[s].readOnly, logged |-> access[s].logged,
              ok |-> ~xfer[s].failed /\ (xfer[s].op = "STOR" => ~LogClose(s, failed)),
              line |-> Line(s, failed)]}
  /\ xfer' = [xfer EXCEPT ![s] = NoTransfer]
  /\ UNCHANGED <<tlsVars, access, opens>>

Step(s) ==
  \/ Passive(s) \/ PassiveAnswered(s) \/ Connect(s)
  \/ OpenFile(s, "STOR") \/ OpenFile(s, "RETR")
  \/ Write(s) \/ DataEnds(s) \/ Close(s)

Next ==
  \/ (Renew \/ ReloadTls) /\ UNCHANGED xferVars
  \/ \E s \in Sessions : Step(s) \/ (LoadStep(s) /\ UNCHANGED xferVars)

Spec == Init /\ [][Next]_vars

-----------------------------------------------------------------------------
(* Correctness.                                                            *)

\* A mail holds what one upload wrote, whole and in order, whichever other
\* session writes to the same name meanwhile, and however its transfer
\* ended; and no file is mailed twice (mail.go:97-117, 184-188, 236-248).
EachMailIsOneFile ==
  /\ \A i \in DOMAIN mails : \A k \in DOMAIN mails[i].content :
       mails[i].content[k] = [file |-> mails[i].file, part |-> k]
  /\ \A i, j \in DOMAIN mails : mails[i].file = mails[j].file => i = j

\* An upload that is acknowledged was mailed with all that arrived, through
\* every layer that returns an error of the mail server (mail.go:109,
\* fslog.go:127-143).
AcknowledgedIsMailed ==
  \A r \in replies : r.op = "STOR" /\ r.ok =>
    \E i \in DOMAIN mails : mails[i].file = r.file /\ Len(mails[i].content) = r.arrived

\* The log's line on a closed file agrees with an acknowledgement: no error,
\* and the length of what arrived (fslog.go:127-143, 173-181).
LogAgreesWithReply ==
  \A r \in replies : r.op = "STOR" /\ r.ok /\ r.logged =>
    r.line = [failed |-> FALSE, length |-> r.arrived]

\* Nothing that a session of a read-only access sends is mailed (fs.go:62).
ReadOnlyMailsNothing ==
  \A r \in replies : r.readOnly =>
    \A i \in DOMAIN mails : mails[i].file = r.file => mails[i].content = <<>>

\* What is mailed is what one session with the right to write uploaded.
MailsAreUploads == EachMailIsOneFile /\ ReadOnlyMailsNothing

\* What a client and the log are told of an upload is what became of it.
RepliesAreTrue == AcknowledgedIsMailed /\ LogAgreesWithReply

\* The sessions that have a file open.
Active == {s \in Sessions : xfer[s].at \in {"opened", "data", "closing"}}

\* A buffer holds the pieces of its file, from the first one on.
WholeFrom(content, file) == \A k \in DOMAIN content : content[k] = [file |-> file, part |-> k]

\* An open file belongs to one session and is not answered yet; its buffer and
\* its counts agree.
OpenInv ==
  \A s \in Active :
    /\ xfer[s].file \in 1 .. opens
    /\ \A t \in Active : xfer[t].file = xfer[s].file => t = s
    /\ \A r \in replies : r.file # xfer[s].file
    /\ WholeFrom(xfer[s].content, xfer[s].file)
    /\ Len(xfer[s].content) = xfer[s].arrived
    /\ access[s].logged => xfer[s].counted = xfer[s].arrived
    /\ access[s].readOnly => xfer[s].content = <<>> /\ xfer[s].op = "RETR"

\* What was mailed was answered, and is as it was in the buffer.
MailInv ==
  /\ \A r \in replies : r.file <= opens
  /\ \A i \in DOMAIN mails : /\ WholeFrom(mails[i].content, mails[i].file)
                             /\ \E r \in replies : r.file = mails[i].file
  /\ \A i, j \in DOMAIN mails : mails[i].file = mails[j].file => i = j

IInv ==
  /\ TypeOK /\ TlsInv /\ OpenInv /\ MailInv
  /\ AcknowledgedIsMailed /\ LogAgreesWithReply /\ ReadOnlyMailsNothing
=============================================================================
