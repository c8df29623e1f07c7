------------------------------ MODULE Telegram ------------------------------
(***************************************************************************)
(* The telegram backend, fs/telegram: a file is buffered while it is       *)
(* written, full parts are spooled to a temporary directory, and Close     *)
(* sends the content, or the parts one by one, to the chat.  The table of  *)
(* fake_fs.go remembers the names, their sizes and small contents, which   *)
(* OpenFile puts back into the buffer.  A file system marked shared has    *)
(* several sessions, so transfers run concurrently on the same table.      *)
(*                                                                         *)
(* A transfer is one open file, used as ftpserverlib (external) uses it:   *)
(* opened once, written or read, and closed once, also when it was aborted *)
(* or a write failed.  A byte is named after the transfer that writes it   *)
(* and its number in it.  The names clients give are of one form, so the   *)
(* two spellings that candidatePaths tries are one name here.              *)
(***************************************************************************)
EXTENDS Integers, Sequences, FiniteSets

CONSTANTS
  Transfers,      \* the transfers of a run
  Names,          \* the names of files and directories
  MaxPartSize,    \* bytes in a part
  MaxCached,      \* maxReadbackCacheSize
  RetryAttempts,  \* attempts of a send
  Chunks,         \* the sizes of a write
  MaxWritten      \* bound: bytes written in each transfer

ASSUME SizesAssumption ==
  /\ MaxPartSize \in Nat \ {0}
  /\ RetryAttempts \in Nat \ {0}
  /\ MaxCached \in Nat
  /\ MaxWritten \in [Transfers -> Nat]
  /\ Chunks \subseteq Nat \ {0}

VARIABLES
  entries,  \* fakeFs.dict: what is known of each name
  file,     \* the File of each transfer, and where its Close is
  spool,    \* the temporary directory of each transfer, on the disk
  chat,     \* the messages of each transfer that reached the chat
  sent,     \* history: how many bytes the client wrote
  found     \* history: the content that the file was opened with

vars == <<entries, file, spool, chat, sent, found>>

Byte == Transfers \X (Nat \ {0})
Bytes(t, from, to) == [k \in 1 .. to - from |-> <<t, from + k>>]

\* An empty content is a nil one: the table only keeps contents with bytes.
Entry(kind) == [kind |-> kind, size |-> 0, content |-> <<>>]

Closing == {"sending", "entering", "creating", "sizing", "caching"}
Closed == {"closed", "skipped", "failed"}

FileType ==
  [at : {"none", "open"} \cup Closing \cup Closed, path : Names, upload : BOOLEAN,
   broken : BOOLEAN, content : Seq(Byte), partNumber : Nat, parts : Seq(Seq(Byte)),
   tempDir : BOOLEAN, totalWritten : Nat, offset : Nat, idx : Nat, attempt : 1 .. RetryAttempts]

MessageType == [notice : BOOLEAN, part : Nat, total : Nat, data : Seq(Byte)]

TypeOK ==
  /\ entries \in [Names -> [kind : {"none", "file", "dir"}, size : Nat, content : Seq(Byte)]]
  /\ file \in [Transfers -> FileType]
  /\ spool \in [Transfers -> {"none", "made", "removed", "stuck"}]
  /\ chat \in [Transfers -> Seq(MessageType)]
  /\ sent \in [Transfers -> Nat]
  /\ found \in [Transfers -> Seq(Byte)]

Init ==
  /\ entries = [p \in Names |-> Entry("none")]
  /\ \E p \in Names :
       file = [t \in Transfers |->
         [at |-> "none", path |-> p, upload |-> FALSE, broken |-> FALSE, content |-> <<>>,
          partNumber |-> 0, parts |-> <<>>, tempDir |-> FALSE, totalWritten |-> 0,
          offset |-> 0, idx |-> 1, attempt |-> 1]]
  /\ spool = [t \in Transfers |-> "none"]
  /\ chat = [t \in Transfers |-> <<>>]
  /\ sent = [t \in Transfers |-> 0]
  /\ found = [t \in Transfers |-> <<>>]

-----------------------------------------------------------------------------
(* Opening, writing and reading.                                           *)

\* MKD; MkdirAll does this for each name of the path.
Mkdir(p) ==
  /\ entries' = [entries EXCEPT ![p] = Entry("dir")]
  /\ UNCHANGED <<file, spool, chat, sent, found>>

\* OpenFile whatever its flags, and Open: the buffer is what the table has.
OpenFile(t, p) ==
  /\ file[t].at = "none"
  /\ \E upload \in BOOLEAN :
       file' = [file EXCEPT ![t].at = "open", ![t].path = p, ![t].upload = upload,
                            ![t].content = entries[p].content]
  /\ found' = [found EXCEPT ![t] = entries[p].content]
  /\ UNCHANGED <<entries, spool, chat, sent>>

Create(t, p) ==
  /\ file[t].at = "none"
  /\ entries' = [entries EXCEPT ![p] = Entry("file")]
  /\ file' = [file EXCEPT ![t].at = "open", ![t].path = p, ![t].upload = TRUE]
  /\ UNCHANGED <<spool, chat, sent, found>>

\* Mutant of FullParts: an if in place of the loop.
OneFullPart(n) == IF n > MaxPartSize THEN 1 ELSE 0

\* What Write has to spool of a buffer of n bytes: it keeps at most one part.
FullParts(n) == (n - 1) \div MaxPartSize

\* File f with buffer b, the first n parts of which have been spooled.
Spilled(f, b, n) ==
  [f EXCEPT !.parts = @ \o [i \in 1 .. n |->
                              SubSeq(b, (i - 1) * MaxPartSize + 1, i * MaxPartSize)],
            !.content = SubSeq(b, n * MaxPartSize + 1, Len(b)),
            !.partNumber = @ + n,
            !.tempDir = @ \/ n > 0]

SpoolOf(f) == IF f.tempDir THEN "made" ELSE "none"

\* Transfer t may write n bytes more.
Writing(t, n) ==
  /\ file[t].at = "open"
  /\ file[t].upload
  /\ ~file[t].broken
  /\ file[t].totalWritten + n <= MaxWritten[t]
  /\ sent' = [sent EXCEPT ![t] = @ + n]

\* The buffer and the file after the append.
Appended(t, n) == file[t].content \o Bytes(t, file[t].totalWritten, file[t].totalWritten + n)
Counted(t, n) == [file[t] EXCEPT !.totalWritten = @ + n]

Write(t, n) ==
  /\ Writing(t, n)
  /\ LET b == Appended(t, n)
         f == Spilled(Counted(t, n), b, FullParts(Len(b)))
     IN  /\ file' = [file EXCEPT ![t] = f]
         /\ spool' = [spool EXCEPT ![t] = SpoolOf(f)]
  /\ UNCHANGED <<entries, chat, found>>

\* Part done + 1 cannot be spooled: no directory for it, or no file, and then
\* the part has been counted.  The buffer keeps it.
WriteFails(t, n) ==
  /\ Writing(t, n)
  /\ LET b == Appended(t, n)
     IN  \E done \in 0 .. FullParts(Len(b)) - 1 :
           LET f == [Spilled(Counted(t, n), b, done) EXCEPT !.broken = TRUE]
               g == [f EXCEPT !.partNumber = @ + 1, !.tempDir = TRUE]
           IN  \/ /\ ~f.tempDir
                  /\ file' = [file EXCEPT ![t] = f]
                  /\ UNCHANGED spool
               \/ /\ file' = [file EXCEPT ![t] = g]
                  /\ spool' = [spool EXCEPT ![t] = SpoolOf(g)]
  /\ UNCHANGED <<entries, chat, found>>

\* A Read into a buffer of any size.
Read(t) ==
  /\ file[t].at = "open"
  /\ ~file[t].upload
  /\ \E n \in 1 .. Len(file[t].content) - file[t].offset :
       file' = [file EXCEPT ![t].offset = @ + n]
  /\ UNCHANGED <<entries, spool, chat, sent, found>>

-----------------------------------------------------------------------------
(* Close: what there is to send.                                           *)

\* A directory by now: nothing is sent, and nothing cleaned up.
CloseDirectory(t) ==
  /\ file[t].at = "open"
  /\ entries[file[t].path].kind = "dir"
  /\ file' = [file EXCEPT ![t].at = "skipped"]
  /\ UNCHANGED <<entries, spool, chat, sent, found>>

CloseEmpty(t) ==
  /\ file[t].at = "open"
  /\ entries[file[t].path].kind # "dir"
  /\ file[t].partNumber = 0
  /\ file[t].content = <<>>
  /\ file' = [file EXCEPT ![t].at = "entering"]
  /\ UNCHANGED <<entries, spool, chat, sent, found>>

CloseSingle(t) ==
  /\ file[t].at = "open"
  /\ entries[file[t].path].kind # "dir"
  /\ file[t].partNumber = 0
  /\ file[t].content # <<>>
  /\ file' = [file EXCEPT ![t].at = "sending"]
  /\ UNCHANGED <<entries, spool, chat, sent, found>>

\* The rest of the buffer, never empty after a spooled part, is the last part.
CloseMultipart(t) ==
  /\ file[t].at = "open"
  /\ entries[file[t].path].kind # "dir"
  /\ file[t].partNumber > 0
  /\ file' = [file EXCEPT ![t].at = "sending", ![t].parts = Append(@, file[t].content),
                          ![t].partNumber = @ + 1]
  /\ UNCHANGED <<entries, spool, chat, sent, found>>

\* Mutant of CleanUp: the early return comes before the defer.
KeepSpool(t) == UNCHANGED spool

\* cleanupTempParts, deferred: it may fail, and it finds no directory in a
\* File that has none, or has been reset.
CleanUp(t) ==
  IF file[t].tempDir
    THEN \E outcome \in {"removed", "stuck"} : spool' = [spool EXCEPT ![t] = outcome]
    ELSE UNCHANGED spool

\* Close returns an error.
Fail(t) ==
  /\ file' = [file EXCEPT ![t].at = "failed"]
  /\ CleanUp(t)

CloseSpoolFails(t) ==
  /\ file[t].at = "open"
  /\ entries[file[t].path].kind # "dir"
  /\ file[t].partNumber > 0
  /\ Fail(t)
  /\ UNCHANGED <<entries, chat, sent, found>>

-----------------------------------------------------------------------------
(* Close: sending.  The Bot API (external) may deliver what it reports as  *)
(* failed, for instance when its answer times out.                         *)

Multipart(t) == file[t].partNumber > 0

\* What is sent, in order: the content, or the temporary files.
Sending(t) == IF Multipart(t) THEN file[t].parts ELSE <<file[t].content>>

Message(t) == [notice |-> FALSE, part |-> file[t].idx, total |-> Len(Sending(t)),
               data |-> Sending(t)[file[t].idx]]

Deliver(t) == chat' = [chat EXCEPT ![t] = Append(@, Message(t))]

Send(t) ==
  /\ file[t].at = "sending"
  /\ Deliver(t)
  /\ file' = IF file[t].idx = Len(Sending(t))
               THEN [file EXCEPT ![t].at = "entering"]
               ELSE [file EXCEPT ![t].idx = @ + 1, ![t].attempt = 1]
  /\ UNCHANGED <<entries, spool, sent, found>>

\* Mutant of SendAgain: the attempts are not counted to an end.
SendForever(t) ==
  /\ file[t].at = "sending"
  /\ Deliver(t) \/ UNCHANGED chat
  /\ file' = [file EXCEPT ![t].attempt = IF @ = RetryAttempts THEN 1 ELSE @ + 1]
  /\ UNCHANGED <<entries, spool, sent, found>>

\* Mutant of SendAgain: the retry goes on with the next part.
SendNext(t) ==
  /\ file[t].at = "sending"
  /\ file[t].attempt < RetryAttempts
  /\ Deliver(t) \/ UNCHANGED chat
  /\ file' = IF file[t].idx = Len(Sending(t))
               THEN [file EXCEPT ![t].at = "entering"]
               ELSE [file EXCEPT ![t].idx = @ + 1]
  /\ UNCHANGED <<entries, spool, sent, found>>

\* Mutant of SendAgain: one attempt too many.
SendOnceMore(t) ==
  /\ file[t].at = "sending"
  /\ file[t].attempt <= RetryAttempts
  /\ Deliver(t) \/ UNCHANGED chat
  /\ file' = [file EXCEPT ![t].attempt = @ + 1]
  /\ UNCHANGED <<entries, spool, sent, found>>

\* A transient error before the last attempt.
SendAgain(t) ==
  /\ file[t].at = "sending"
  /\ file[t].attempt < RetryAttempts
  /\ Deliver(t) \/ UNCHANGED chat
  /\ file' = [file EXCEPT ![t].attempt = @ + 1]
  /\ UNCHANGED <<entries, spool, sent, found>>

\* The last attempt, or another error: a multipart upload tries to say so in
\* the chat.
SendFails(t) ==
  /\ file[t].at = "sending"
  /\ \E last \in {<<>>, <<Message(t)>>},
        notice \in IF Multipart(t) THEN {<<>>, <<[Message(t) EXCEPT !.notice = TRUE]>>}
                                   ELSE {<<>>} :
       chat' = [chat EXCEPT ![t] = @ \o last \o notice]
  /\ Fail(t)
  /\ UNCHANGED <<entries, sent, found>>

\* The temporary file of a part cannot be read.
ReadPartFails(t) ==
  /\ file[t].at = "sending"
  /\ Multipart(t)
  /\ file[t].attempt = 1
  /\ Fail(t)
  /\ UNCHANGED <<entries, chat, sent, found>>

-----------------------------------------------------------------------------
(* Close: the table, one lock of it per step, and the reset of the File.   *)

StatName(t) ==
  /\ file[t].at = "entering"
  /\ file' = [file EXCEPT ![t].at = IF entries[file[t].path].kind = "none"
                                      THEN "creating" ELSE "sizing"]
  /\ UNCHANGED <<entries, spool, chat, sent, found>>

CreateName(t) ==
  /\ file[t].at = "creating"
  /\ entries' = [entries EXCEPT ![file[t].path] = Entry("file")]
  /\ file' = [file EXCEPT ![t].at = "sizing"]
  /\ UNCHANGED <<spool, chat, sent, found>>

\* An empty file is done with.
SetSize(t) ==
  /\ file[t].at = "sizing"
  /\ entries' = [entries EXCEPT ![file[t].path].size = file[t].totalWritten]
  /\ file' = [file EXCEPT ![t].at = IF ~Multipart(t) /\ file[t].content = <<>>
                                      THEN "closed" ELSE "caching"]
  /\ UNCHANGED <<spool, chat, sent, found>>

\* Mutant of Cacheable: the size alone decides.
SmallEnough(f) == f.totalWritten \in 1 .. MaxCached

\* What may be read back: a small content that went out in one message.
Cacheable(f) == f.partNumber = 0 /\ f.totalWritten \in 1 .. MaxCached

\* The reset forgets the temporary directory before the deferred clean-up.
SetContent(t) ==
  /\ file[t].at = "caching"
  /\ entries' = [entries EXCEPT ![file[t].path].content =
                   IF Cacheable(file[t]) THEN file[t].content ELSE <<>>]
  /\ file' = [file EXCEPT ![t].at = "closed", ![t].content = <<>>, ![t].partNumber = 0,
                          ![t].parts = <<>>, ![t].tempDir = FALSE,
                          ![t].totalWritten = 0, ![t].offset = 0]
  /\ UNCHANGED <<spool, chat, sent, found>>

-----------------------------------------------------------------------------
StartClose(t) == \/ CloseDirectory(t) \/ CloseEmpty(t) \/ CloseSingle(t)
                 \/ CloseMultipart(t) \/ CloseSpoolFails(t)

GoOnClosing(t) == \/ Send(t) \/ SendAgain(t) \/ SendFails(t) \/ ReadPartFails(t)
                  \/ StatName(t) \/ CreateName(t) \/ SetSize(t) \/ SetContent(t)

Next ==
  \/ \E p \in Names : Mkdir(p) \/ \E t \in Transfers : OpenFile(t, p) \/ Create(t, p)
  \/ \E t \in Transfers :
       \/ \E n \in Chunks : Write(t, n) \/ WriteFails(t, n)
       \/ Read(t) \/ StartClose(t) \/ GoOnClosing(t)

Spec == Init /\ [][Next]_vars

\* A Close that was called goes on: sends return, the Bot API's client has a
\* timeout, and sleeps end.  Nothing makes a client write or close.
FairSpec == Spec /\ \A t \in Transfers : WF_vars(GoOnClosing(t))

-----------------------------------------------------------------------------
(* Correctness.                                                            *)

\* How a content is cut into parts.
PartCount(whole) == (Len(whole) + MaxPartSize - 1) \div MaxPartSize
Part(whole, k) ==
  [notice |-> FALSE, part |-> k, total |-> PartCount(whole),
   data |-> SubSeq(whole, (k - 1) * MaxPartSize + 1,
                   IF k < PartCount(whole) THEN k * MaxPartSize ELSE Len(whole))]
Parts(whole) == {Part(whole, k) : k \in 1 .. PartCount(whole)}

\* What the client wrote in transfer t.
Upload(t) == Bytes(t, 0, sent[t])

Messages(t) == {chat[t][i] : i \in DOMAIN chat[t]}

\* The client was told that all is well, and the name is a file.
Acknowledged(t) == file[t].at = "closed" /\ ~file[t].broken

\* No failed write had a part in what t sends: not one of its own, nor one of
\* an upload it found in the table, which leaves an oversized content there.
Sound(t) == ~file[t].broken /\ Len(found[t]) <= MaxPartSize

\* An upload that was acknowledged is in the chat, every byte the client wrote
\* and no other, cut at MaxPartSize and at nothing else, however its writes were
\* cut, whatever was sent again (telegram.go:228-262, 492-515).  Together with
\* PartsAreWellFormed: putting the parts together by number gives the file.
\* Not where the file was opened with a cached content of its name, which
\* OpenFile leaves in the buffer: then the upload comes after the old content,
\* in the same file (telegram.go:616-618), and the client is told it is well.
AcknowledgedIsWhole ==
  \A t \in Transfers :
    Acknowledged(t) /\ found[t] = <<>> => Messages(t) = Parts(Upload(t))

\* Parts come in their order without a gap, however sends are retried, and a
\* part comes at most RetryAttempts times (telegram.go:237-262, 361-379): a
\* failed upload has sent a beginning of the file, and at most then says so.
\* Files exceeding MaxPartSize are split (fs/telegram/README.md:25, 503-513 of
\* telegram.go): no message is larger, whether its upload was acknowledged,
\* aborted or failed, unless a part could not be spooled.
PartsAreWellFormed ==
  \A t \in Transfers :
    /\ \A i \in DOMAIN chat[t] :
         LET previous == IF i = 1 THEN 0 ELSE chat[t][i - 1].part
         IN  IF chat[t][i].notice THEN i = Len(chat[t]) /\ file[t].at = "failed"
                                  ELSE chat[t][i].part - previous \in {0, 1}
    /\ \A m \in Messages(t) :
         /\ Cardinality({i \in DOMAIN chat[t] : chat[t][i] = m}) <= RetryAttempts
         /\ Sound(t) => Len(m.data) <= MaxPartSize

\* What can be read back under a name went to the chat under that name, whole
\* and in one message (telegram.go:270-274, 583-591), however the transfers
\* of the sessions that share the file system interleave.
ReadbackIsInChat ==
  \A p \in Names :
    entries[p].content # <<>> =>
      \E t \in Transfers :
        file[t].path = p /\ [notice |-> FALSE, part |-> 1, total |-> 1,
                             data |-> entries[p].content] \in Messages(t)

\* An upload that fails leaves no parts on the disk, unless their removal
\* itself fails (telegram.go:210, 414-420), at whatever step it fails.
FailedLeavesNoSpool == \A t \in Transfers : file[t].at = "failed" => spool[t] # "made"

\* The one message of a content that is sent whole.
WholeMessage(content) == [notice |-> FALSE, part |-> 1, total |-> 1, data |-> content]

\* Nothing is sent before Close, which begins with the first part; what it
\* sends is one message, or the parts there are.
SendInv ==
  \A t \in Transfers :
    /\ file[t].at \in {"none", "open"} => chat[t] = <<>> /\ file[t].idx = 1
    /\ file[t].at = "none" => ~Multipart(t)
    /\ file[t].at = "sending" => file[t].idx \in DOMAIN Sending(t)

\* What goes into the table from here on was sent.
ReadInv ==
  /\ ReadbackIsInChat
  /\ \A t \in Transfers :
       /\ file[t].at \in {"entering", "creating", "sizing", "caching"}
       /\ ~Multipart(t) /\ file[t].content # <<>>
       => WholeMessage(file[t].content) \in Messages(t)

\* Until parts are sent, their File knows of their directory.
SpoolInv ==
  \A t \in Transfers :
    /\ file[t].at \in {"none", "open", "sending"} /\ spool[t] = "made" => file[t].tempDir
    /\ file[t].at = "failed" => spool[t] # "made"

IInv == TypeOK /\ SendInv /\ ReadInv /\ SpoolInv

\* Parts, and the rest of the buffer, are the whole, cut at MaxPartSize.
Cut(whole, parts, rest) ==
  /\ Len(parts) * MaxPartSize <= Len(whole)
  /\ \A k \in DOMAIN parts :
       parts[k] = SubSeq(whole, (k - 1) * MaxPartSize + 1, k * MaxPartSize)
  /\ rest = SubSeq(whole, Len(parts) * MaxPartSize + 1, Len(whole))
  /\ Len(rest) <= MaxPartSize
  /\ parts # <<>> => rest # <<>>

\* What transfer t had in its buffer: what it found there, then the upload.
Whole(t) == found[t] \o Upload(t)

PartsTo(t, n) == {Part(Whole(t), k) : k \in 1 .. n}

\* What is spooled and buffered is what came, cut into parts; then these parts
\* are sent in order, until all of them are in the chat.
CutOf(t) ==
  /\ file[t].at = "none" => /\ file[t].parts = <<>> /\ file[t].totalWritten = 0
                            /\ file[t].content = <<>>
                            /\ sent[t] = 0 /\ found[t] = <<>>
  /\ file[t].at = "open" /\ Sound(t) =>
       /\ sent[t] = file[t].totalWritten
       /\ file[t].partNumber = Len(file[t].parts)
       /\ Cut(Whole(t), file[t].parts, file[t].content)
  /\ file[t].at = "sending" /\ Sound(t) =>
       /\ Len(Sending(t)) = PartCount(Whole(t))
       /\ \A k \in 1 .. PartCount(Whole(t)) : Sending(t)[k] = Part(Whole(t), k).data
       /\ PartsTo(t, file[t].idx - 1) \subseteq Messages(t)
       /\ Messages(t) \subseteq PartsTo(t, file[t].idx)
  /\ file[t].at \in {"entering", "creating", "sizing", "caching", "closed"} /\ Sound(t) =>
       Messages(t) = PartsTo(t, PartCount(Whole(t)))

CutInv == \A t \in Transfers : CutOf(t)

\* A Close ends, whatever the Bot API answers and how often.
ClosesEnd == \A t \in Transfers : file[t].at \in Closing ~> file[t].at \in Closed
=============================================================================
