--------------------------- MODULE TelegramProofs ---------------------------
(***************************************************************************)
(* What module Telegram guarantees for any number of concurrent transfers, *)
(* any part and cache sizes, any number of attempts and any writes: its    *)
(* types, that what can be read back is in the chat, and that a failed     *)
(* upload leaves no parts on the disk.                                     *)
(***************************************************************************)
EXTENDS Telegram, SequenceTheorems, TLAPS

-----------------------------------------------------------------------------
(* How Write cuts a buffer (telegram.go:398-412, 492-515).                 *)

(* The parts that are spooled lie within the buffer.                       *)
LEMMA PartsFit ==
  ASSUME NEW len \in Nat \ {0}
  PROVE  /\ FullParts(len) \in Nat
         /\ \A n \in 0 .. FullParts(len) : \A i \in 1 .. n :
              /\ i * MaxPartSize \in Nat /\ i * MaxPartSize < len
              /\ (i - 1) * MaxPartSize \in Nat
<1>0. MaxPartSize \in Nat \ {0}
  BY SizesAssumption
<1>1. FullParts(len) \in Nat /\ FullParts(len) * MaxPartSize <= len - 1
  BY <1>0 DEF FullParts
<1>2. ASSUME NEW i \in Nat, NEW n \in Nat, NEW m \in Nat, i <= n
      PROVE  i * m \in Nat /\ i * m <= n * m
  BY <1>2
<1>3. ASSUME NEW i \in 1 .. FullParts(len)
      PROVE  /\ i * MaxPartSize \in Nat /\ i * MaxPartSize < len
             /\ (i - 1) * MaxPartSize \in Nat
  <2>1. i \in Nat /\ i - 1 \in Nat /\ i <= FullParts(len) /\ MaxPartSize \in Nat
    BY <1>0, <1>1, <1>3
  <2>2. i * MaxPartSize \in Nat /\ i * MaxPartSize <= FullParts(len) * MaxPartSize
    BY <1>1, <1>2, <2>1
  <2>3. (i - 1) * MaxPartSize \in Nat
    BY <1>2, <2>1
  <2>4. FullParts(len) * MaxPartSize \in Nat
    BY <1>1, <1>2, <2>1
  <2> QED BY <1>1, <2>2, <2>3, <2>4
<1> QED BY <1>1, <1>3

(* Spooling n parts of a buffer keeps a file one.                          *)
LEMMA SpilledTyped ==
  ASSUME NEW f \in FileType, NEW b \in Seq(Byte), b # <<>>,
         NEW n \in 0 .. FullParts(Len(b))
  PROVE  Spilled(f, b, n) \in FileType
<1> DEFINE cut == [i \in 1 .. n |-> SubSeq(b, (i - 1) * MaxPartSize + 1, i * MaxPartSize)]
           rest == SubSeq(b, n * MaxPartSize + 1, Len(b))
<1>1. Len(b) \in Nat \ {0}
  BY EmptySeq
<1>2. n \in Nat
  BY <1>1, PartsFit
<1>3. ASSUME NEW i \in 1 .. n
      PROVE  SubSeq(b, (i - 1) * MaxPartSize + 1, i * MaxPartSize) \in Seq(Byte)
  <2>1. i * MaxPartSize \in Nat /\ i * MaxPartSize < Len(b) /\ (i - 1) * MaxPartSize \in Nat
    BY <1>1, PartsFit
  <2>2. \A k \in (i - 1) * MaxPartSize + 1 .. i * MaxPartSize : b[k] \in Byte
    BY <1>1, <2>1
  <2> QED BY <2>1, <2>2, SubSeqProperties
<1>4. cut \in Seq(Seq(Byte))
  BY <1>2, <1>3, IsASeq
<1>5. rest \in Seq(Byte)
  <2>1. n * MaxPartSize \in Nat
    BY <1>1, <1>2, PartsFit, SizesAssumption
  <2>2. \A k \in n * MaxPartSize + 1 .. Len(b) : b[k] \in Byte
    BY <1>1, <2>1
  <2> QED BY <1>1, <2>1, <2>2, SubSeqProperties
<1>6. f.parts \o cut \in Seq(Seq(Byte))
  <2> HIDE DEF cut
  <2>1. f.parts \in Seq(Seq(Byte))
    BY DEF FileType
  <2> QED BY <1>4, <2>1, ConcatProperties
<1>7. Spilled(f, b, n) =
        [f EXCEPT !.parts = f.parts \o cut, !.content = rest, !.partNumber = f.partNumber + n,
                  !.tempDir = f.tempDir \/ n > 0]
  BY DEF Spilled
<1>8. f.partNumber + n \in Nat /\ (f.tempDir \/ n > 0) \in BOOLEAN
  BY <1>2 DEF FileType
<1> HIDE DEF cut, rest
<1> QED BY <1>5, <1>6, <1>7, <1>8 DEF FileType

-----------------------------------------------------------------------------
(* The types of what a step changes.                                       *)

(* The file of a transfer is replaced by another one.                      *)
LEMMA FileReplaced ==
  ASSUME TypeOK, NEW t \in Transfers, NEW f \in FileType, file' = [file EXCEPT ![t] = f]
  PROVE  /\ file' \in [Transfers -> FileType]
         /\ file'[t] = f
         /\ \A u \in Transfers \ {t} : file'[u] = file[u]
BY DEF TypeOK

(* What is sent next is a message (telegram.go:237-262).                   *)
LEMMA MessageTyped ==
  ASSUME TypeOK, SendInv, NEW t \in Transfers, file[t].at = "sending"
  PROVE  /\ Message(t) \in MessageType
         /\ ~Multipart(t) => file[t].idx = 1 /\ Message(t) = WholeMessage(file[t].content)
         /\ file[t].idx \in 1 .. Len(Sending(t)) /\ Len(Sending(t)) \in Nat
<1>1. file[t] \in FileType
  BY DEF TypeOK
<1>2. Sending(t) \in Seq(Seq(Byte))
  BY <1>1 DEF Sending, FileType
<1>3. file[t].idx \in 1 .. Len(Sending(t)) /\ Len(Sending(t)) \in Nat
  BY <1>2 DEF SendInv
<1>4. Sending(t)[file[t].idx] \in Seq(Byte)
  BY <1>2, <1>3
<1>5. Message(t) \in MessageType
  BY <1>1, <1>2, <1>3, <1>4 DEF Message, MessageType, FileType
<1>6. ASSUME ~Multipart(t)
      PROVE  file[t].idx = 1 /\ Message(t) = WholeMessage(file[t].content)
  <2>1. Sending(t) = <<file[t].content>>
    BY <1>6 DEF Sending
  <2>2. file[t].idx = 1
    BY <1>3, <2>1
  <2> QED BY <2>1, <2>2 DEF Message, WholeMessage
<1> QED BY <1>3, <1>5, <1>6

(* Messages that follow are added to those of one transfer.                *)
LEMMA ChatGrows ==
  ASSUME TypeOK, NEW t \in Transfers, NEW more \in Seq(MessageType),
         chat' = [chat EXCEPT ![t] = chat[t] \o more]
  PROVE  /\ chat' \in [Transfers -> Seq(MessageType)]
         /\ \A u \in Transfers : Messages(u) \subseteq Messages(u)'
         /\ \A m \in {more[i] : i \in DOMAIN more} : m \in Messages(t)'
<1>1. chat[t] \in Seq(MessageType) /\ chat \in [Transfers -> Seq(MessageType)]
  BY DEF TypeOK
<1>2. /\ chat[t] \o more \in Seq(MessageType)
      /\ Len(chat[t] \o more) = Len(chat[t]) + Len(more)
      /\ \A i \in 1 .. Len(chat[t]) : (chat[t] \o more)[i] = chat[t][i]
      /\ \A i \in 1 .. Len(more) : (chat[t] \o more)[Len(chat[t]) + i] = more[i]
  BY <1>1
<1>3. chat' \in [Transfers -> Seq(MessageType)] /\ chat'[t] = chat[t] \o more
      /\ \A u \in Transfers \ {t} : chat'[u] = chat[u]
  BY <1>1, <1>2
<1>4. Messages(t) \subseteq Messages(t)'
  <2> SUFFICES ASSUME NEW i \in DOMAIN chat[t]
               PROVE  \E j \in DOMAIN chat'[t] : chat'[t][j] = chat[t][i]
    BY DEF Messages
  <2>1. i \in 1 .. Len(chat[t]) /\ Len(chat[t]) \in Nat /\ Len(more) \in Nat
    BY <1>1
  <2>2. i \in DOMAIN chat'[t]
    BY <1>2, <1>3, <2>1
  <2> QED BY <1>2, <1>3, <2>1, <2>2
<1>5. \A u \in Transfers \ {t} : Messages(u)' = Messages(u)
  BY <1>3 DEF Messages
<1>6. ASSUME NEW i \in DOMAIN more
      PROVE  more[i] \in Messages(t)'
  <2>1. i \in 1 .. Len(more) /\ Len(chat[t]) \in Nat /\ Len(more) \in Nat
    BY <1>1
  <2>2. Len(chat[t]) + i \in DOMAIN chat'[t]
    BY <1>2, <1>3, <2>1
  <2> QED BY <1>2, <1>3, <2>1, <2>2 DEF Messages
<1> QED BY <1>3, <1>4, <1>5, <1>6

-----------------------------------------------------------------------------
(* The steps.                                                              *)

(* A step of one transfer keeps the invariant when its new file f does:    *)
(* the rest of it is about what the others have, which stays, and about    *)
(* the table, which gets nothing but what transfer t sent.                 *)
LEMMA OneTransfer ==
  ASSUME IInv, NEW t \in Transfers, NEW f \in FileType, file' = [file EXCEPT ![t] = f],
         entries' \in [Names -> [kind : {"none", "file", "dir"}, size : Nat, content : Seq(Byte)]],
         \A p \in Names : \/ entries'[p].content \in {entries[p].content, <<>>}
                          \/ p = f.path /\ WholeMessage(entries'[p].content) \in Messages(t)',
         chat' \in [Transfers -> Seq(MessageType)],
         \A u \in Transfers \ {t} : chat'[u] = chat[u],
         Messages(t) \subseteq Messages(t)',
         spool' \in [Transfers -> {"none", "made", "removed", "stuck"}],
         \A u \in Transfers \ {t} : spool'[u] = spool[u],
         sent' \in [Transfers -> Nat], found' \in [Transfers -> Seq(Byte)],
         f.path = file[t].path \/ chat[t] = <<>>,
         f.at \in {"none", "open"} => chat'[t] = <<>> /\ f.idx = 1,
         f.at = "none" => f.partNumber = 0,
         f.at = "sending" => f.idx \in DOMAIN IF f.partNumber > 0 THEN f.parts ELSE <<f.content>>,
         f.at \in {"entering", "creating", "sizing", "caching"} /\ f.partNumber = 0
           /\ f.content # <<>> => WholeMessage(f.content) \in Messages(t)',
         f.at \in {"none", "open", "sending"} /\ spool'[t] = "made" => f.tempDir,
         f.at = "failed" => spool'[t] # "made"
  PROVE  IInv'
<1>0. TypeOK /\ SendInv /\ ReadInv /\ SpoolInv
  BY DEF IInv
<1>1. /\ file' \in [Transfers -> FileType]
      /\ file'[t] = f
      /\ \A u \in Transfers \ {t} : file'[u] = file[u]
  BY <1>0, FileReplaced
<1>2. \A u \in Transfers \ {t} : Messages(u)' = Messages(u)
  BY DEF Messages
<1>3. TypeOK'
  BY <1>1 DEF TypeOK
<1>4. f.partNumber \in Nat
  BY DEF FileType
<1>5. SendInv'
  <2> SUFFICES ASSUME NEW u \in Transfers
               PROVE  /\ file'[u].at \in {"none", "open"} => chat'[u] = <<>> /\ file'[u].idx = 1
                      /\ file'[u].at = "none" => ~Multipart(u)'
                      /\ file'[u].at = "sending" => file'[u].idx \in DOMAIN Sending(u)'
    BY DEF SendInv
  <2>1. CASE u = t
    BY <1>1, <1>4, <2>1 DEF Multipart, Sending
  <2>2. CASE u # t
    BY <1>0, <1>1, <2>2 DEF SendInv, Multipart, Sending
  <2> QED BY <2>1, <2>2
<1>6. ReadbackIsInChat'
  <2> SUFFICES ASSUME NEW p \in Names, entries'[p].content # <<>>
               PROVE  \E u \in Transfers : /\ file'[u].path = p
                                           /\ WholeMessage(entries'[p].content) \in Messages(u)'
    BY DEF ReadbackIsInChat, WholeMessage
  <2>1. CASE p = f.path /\ WholeMessage(entries'[p].content) \in Messages(t)'
    BY <1>1, <2>1
  <2>2. CASE entries'[p].content = entries[p].content
    <3>1. PICK u \in Transfers :
            file[u].path = p /\ WholeMessage(entries[p].content) \in Messages(u)
      BY <1>0, <2>2 DEF ReadInv, ReadbackIsInChat, WholeMessage
    <3>2. Messages(u) \subseteq Messages(u)'
      <4>1. CASE u = t
        BY <4>1
      <4>2. CASE u # t
        BY <1>2, <4>2
      <4> QED BY <4>1, <4>2
    <3>3. chat[u] # <<>>
      BY <3>1 DEF Messages
    <3>4. file'[u].path = p
      BY <1>1, <3>1, <3>3
    <3> QED BY <2>2, <3>1, <3>2, <3>4
  <2> QED BY <2>1, <2>2
<1>7. ReadInv'
  <2> SUFFICES ASSUME NEW u \in Transfers,
                      file'[u].at \in {"entering", "creating", "sizing", "caching"},
                      ~Multipart(u)', file'[u].content # <<>>
               PROVE  WholeMessage(file'[u].content) \in Messages(u)'
    BY <1>6 DEF ReadInv, WholeMessage
  <2>1. CASE u = t
    BY <1>1, <1>4, <2>1 DEF Multipart
  <2>2. CASE u # t
    BY <1>0, <1>1, <1>2, <2>2 DEF ReadInv, Multipart
  <2> QED BY <2>1, <2>2
<1>8. SpoolInv'
  BY <1>0, <1>1 DEF SpoolInv
<1> QED BY <1>3, <1>5, <1>7, <1>8 DEF IInv

(* In particular when the table and the chat stay as they are.             *)
LEMMA QuietStep ==
  ASSUME IInv, NEW t \in Transfers, NEW f \in FileType, file' = [file EXCEPT ![t] = f],
         UNCHANGED <<entries, chat>>,
         spool' \in [Transfers -> {"none", "made", "removed", "stuck"}],
         \A u \in Transfers \ {t} : spool'[u] = spool[u],
         sent' \in [Transfers -> Nat], found' \in [Transfers -> Seq(Byte)],
         f.path = file[t].path \/ chat[t] = <<>>,
         f.at \in {"none", "open"} => chat[t] = <<>> /\ f.idx = 1,
         f.at = "none" => f.partNumber = 0,
         f.at = "sending" => f.idx \in DOMAIN IF f.partNumber > 0 THEN f.parts ELSE <<f.content>>,
         f.at \in {"entering", "creating", "sizing", "caching"} /\ f.partNumber = 0
           /\ f.content # <<>> => WholeMessage(f.content) \in Messages(t),
         f.at \in {"none", "open", "sending"} /\ spool'[t] = "made" => f.tempDir,
         f.at = "failed" => spool'[t] # "made"
  PROVE  IInv'
<1>1. TypeOK
  BY DEF IInv
<1>2. Messages(t)' = Messages(t)
  BY DEF Messages
<1>3. /\ entries' \in [Names -> [kind : {"none", "file", "dir"}, size : Nat, content : Seq(Byte)]]
      /\ chat' \in [Transfers -> Seq(MessageType)]
  BY <1>1 DEF TypeOK
<1>4. /\ \A p \in Names : entries'[p].content \in {entries[p].content, <<>>}
      /\ \A u \in Transfers \ {t} : chat'[u] = chat[u]
      /\ Messages(t) \subseteq Messages(t)'
  BY <1>2
<1>5. f.at \in {"none", "open"} => chat'[t] = <<>> /\ f.idx = 1
  OBVIOUS
<1>6. f.at \in {"entering", "creating", "sizing", "caching"} /\ f.partNumber = 0
        /\ f.content # <<>> => WholeMessage(f.content) \in Messages(t)'
  BY <1>2
<1> QED BY <1>3, <1>4, <1>5, <1>6, OneTransfer

(* Mkdir.                                                                  *)
LEMMA MkdirStep ==
  ASSUME IInv, NEW p \in Names, Mkdir(p)
  PROVE  IInv'
<1>1. TypeOK /\ SendInv /\ ReadInv /\ SpoolInv
  BY DEF IInv
<1>2. entries' = [entries EXCEPT ![p] = Entry("dir")] /\ UNCHANGED <<file, spool, chat, sent, found>>
  BY DEF Mkdir
<1>3. Entry("dir") \in [kind : {"none", "file", "dir"}, size : Nat, content : Seq(Byte)]
      /\ Entry("dir").content = <<>>
  BY DEF Entry
<1>4. TypeOK'
  BY <1>1, <1>2, <1>3 DEF TypeOK
<1>5. \A q \in Names : entries'[q].content \in {entries[q].content, <<>>}
  BY <1>1, <1>2, <1>3 DEF TypeOK
<1>6. \A u \in Transfers : Messages(u)' = Messages(u) /\ Multipart(u)' = Multipart(u)
                           /\ Sending(u)' = Sending(u)
  BY <1>2 DEF Messages, Multipart, Sending
<1>7. SendInv' /\ SpoolInv'
  BY <1>1, <1>2, <1>6 DEF SendInv, SpoolInv
<1>8. ReadInv'
  <2>1. ReadbackIsInChat'
    <3> SUFFICES ASSUME NEW q \in Names, entries'[q].content # <<>>
                 PROVE  \E u \in Transfers :
                          /\ file'[u].path = q
                          /\ [notice |-> FALSE, part |-> 1, total |-> 1,
                              data |-> entries'[q].content] \in Messages(u)'
      BY DEF ReadbackIsInChat
    <3>1. PICK u \in Transfers :
            /\ file[u].path = q
            /\ [notice |-> FALSE, part |-> 1, total |-> 1,
                data |-> entries[q].content] \in Messages(u)
      BY <1>1, <1>5 DEF ReadInv, ReadbackIsInChat
    <3>2. entries'[q].content = entries[q].content
      BY <1>5
    <3> QED BY <1>2, <1>6, <3>1, <3>2
  <2> QED BY <1>1, <1>2, <1>6, <2>1 DEF ReadInv
<1> QED BY <1>4, <1>7, <1>8 DEF IInv

(* OpenFile and Create: the chat has nothing of the transfer yet.          *)
LEMMA OpenStep ==
  ASSUME IInv, NEW p \in Names, NEW t \in Transfers, OpenFile(t, p) \/ Create(t, p)
  PROVE  IInv'
<1>1. TypeOK /\ SendInv /\ ReadInv /\ SpoolInv
  BY DEF IInv
<1>2. file[t] \in FileType /\ entries[p].content \in Seq(Byte)
  BY <1>1 DEF TypeOK
<1>3. file[t].at = "none"
  BY DEF OpenFile, Create
<1>4. chat[t] = <<>> /\ file[t].idx = 1 /\ (spool[t] = "made" => file[t].tempDir)
  BY <1>1, <1>3 DEF SendInv, SpoolInv
<1>5. CASE OpenFile(t, p)
  <2>1. PICK upload \in BOOLEAN :
          file' = [file EXCEPT ![t].at = "open", ![t].path = p, ![t].upload = upload,
                               ![t].content = entries[p].content]
    BY <1>5 DEF OpenFile
  <2> DEFINE f == [file[t] EXCEPT !.at = "open", !.path = p, !.upload = upload,
                                  !.content = entries[p].content]
  <2>2. f \in FileType /\ f.at = "open" /\ f.idx = 1 /\ f.tempDir = file[t].tempDir
    BY <1>2, <1>4 DEF FileType
  <2>3. file' = [file EXCEPT ![t] = f]
    BY <2>1
  <2>4. UNCHANGED <<entries, spool, chat, sent>> /\ found' = [found EXCEPT ![t] = entries[p].content]
    BY <1>5 DEF OpenFile
  <2>5. /\ spool' \in [Transfers -> {"none", "made", "removed", "stuck"}]
        /\ sent' \in [Transfers -> Nat] /\ found' \in [Transfers -> Seq(Byte)]
    BY <1>1, <1>2, <2>4 DEF TypeOK
  <2> HIDE DEF f
  <2> QED BY <1>4, <2>2, <2>3, <2>4, <2>5, QuietStep
<1>6. CASE Create(t, p)
  <2> DEFINE f == [file[t] EXCEPT !.at = "open", !.path = p, !.upload = TRUE]
  <2>1. f \in FileType /\ f.at = "open" /\ f.idx = 1 /\ f.tempDir = file[t].tempDir
    BY <1>2, <1>4 DEF FileType
  <2>2. file' = [file EXCEPT ![t] = f]
    BY <1>6 DEF Create
  <2>3. entries' = [entries EXCEPT ![p] = Entry("file")] /\ UNCHANGED <<spool, chat, sent, found>>
    BY <1>6 DEF Create
  <2>4. /\ entries' \in [Names -> [kind : {"none", "file", "dir"}, size : Nat, content : Seq(Byte)]]
        /\ \A q \in Names : entries'[q].content \in {entries[q].content, <<>>}
    BY <1>1, <2>3 DEF TypeOK, Entry
  <2>5. Messages(t) \subseteq Messages(t)'
    BY <2>3 DEF Messages
  <2>6. /\ spool' \in [Transfers -> {"none", "made", "removed", "stuck"}]
        /\ sent' \in [Transfers -> Nat] /\ found' \in [Transfers -> Seq(Byte)]
        /\ chat' \in [Transfers -> Seq(MessageType)]
    BY <1>1, <2>3 DEF TypeOK
  <2> HIDE DEF f
  <2> QED BY <1>4, <2>1, <2>2, <2>3, <2>4, <2>5, <2>6, OneTransfer
<1> QED BY <1>5, <1>6

(* What may be written next, and the file that counts it.                  *)
LEMMA WritingTyped ==
  ASSUME IInv, NEW t \in Transfers, NEW n \in Chunks, Writing(t, n)
  PROVE  /\ Appended(t, n) \in Seq(Byte) /\ Appended(t, n) # <<>>
         /\ Len(Appended(t, n)) \in Nat \ {0}
         /\ Counted(t, n) \in FileType
         /\ Counted(t, n).at = "open" /\ Counted(t, n).idx = 1
         /\ Counted(t, n).path = file[t].path /\ Counted(t, n).tempDir = file[t].tempDir
         /\ chat[t] = <<>> /\ (spool[t] = "made" => file[t].tempDir)
         /\ sent' \in [Transfers -> Nat]
<1>1. TypeOK /\ SendInv /\ SpoolInv
  BY DEF IInv
<1>2. n \in Nat \ {0}
  BY SizesAssumption
<1>3. file[t] \in FileType /\ file[t].totalWritten \in Nat /\ file[t].content \in Seq(Byte)
  BY <1>1 DEF TypeOK, FileType
<1> DEFINE w == file[t].totalWritten
           more == Bytes(t, w, w + n)
<1>4. more \in Seq(Byte) /\ Len(more) = n
  <2> DEFINE m == (w + n) - w
  <2>1. m = n
    BY <1>2, <1>3
  <2>2. more = [k \in 1 .. m |-> <<t, w + k>>]
    BY DEF Bytes
  <2> HIDE DEF m, more
  <2>3. m \in Nat /\ \A k \in 1 .. m : <<t, w + k>> \in Byte
    BY <1>2, <1>3, <2>1 DEF Byte
  <2>4. more \in Seq(Byte) /\ Len(more) = m
    <3> HIDE DEF w
    <3> QED BY <2>2, <2>3, IsASeq
  <2> QED BY <2>1, <2>4
<1>5. Appended(t, n) \in Seq(Byte) /\ Len(Appended(t, n)) = Len(file[t].content) + n
  <2> HIDE DEF more
  <2>1. file[t].content \o more \in Seq(Byte)
        /\ Len(file[t].content \o more) = Len(file[t].content) + Len(more)
    BY <1>3, <1>4, ConcatProperties
  <2> QED BY <1>4, <2>1 DEF Appended, more
<1>6. Len(Appended(t, n)) \in Nat \ {0} /\ Appended(t, n) # <<>>
  <2>1. Len(file[t].content) \in Nat
    BY <1>3
  <2> QED BY <1>2, <1>5, <2>1
<1>7. /\ Counted(t, n) \in FileType
      /\ Counted(t, n).at = file[t].at /\ Counted(t, n).idx = file[t].idx
      /\ Counted(t, n).path = file[t].path /\ Counted(t, n).tempDir = file[t].tempDir
  <2>1. w + n \in Nat /\ Counted(t, n) = [file[t] EXCEPT !.totalWritten = w + n]
    BY <1>2, <1>3 DEF Counted
  <2> HIDE DEF w
  <2> QED BY <1>3, <2>1 DEF FileType
<1>8. file[t].at = "open" /\ sent' = [sent EXCEPT ![t] = @ + n]
  BY DEF Writing
<1>9. chat[t] = <<>> /\ file[t].idx = 1 /\ (spool[t] = "made" => file[t].tempDir)
  BY <1>1, <1>8 DEF SendInv, SpoolInv
<1>10. sent' \in [Transfers -> Nat]
  BY <1>1, <1>2, <1>8 DEF TypeOK
<1> QED BY <1>5, <1>6, <1>7, <1>8, <1>9, <1>10

(* A spooled file is where it was, and knows of its directory.             *)
LEMMA SpilledKeeps ==
  ASSUME NEW f \in FileType, NEW b, NEW n
  PROVE  LET g == Spilled(f, b, n)
         IN  g.at = f.at /\ g.idx = f.idx /\ g.path = f.path /\ (f.tempDir => g.tempDir)
BY DEF Spilled, FileType

(* Write, and a Write that fails, with the parts it could spool.           *)
LEMMA WriteStep ==
  ASSUME IInv, NEW t \in Transfers, NEW n \in Chunks, Write(t, n) \/ WriteFails(t, n)
  PROVE  IInv'
<1> DEFINE b == Appended(t, n)
           Done(d) == Spilled(Counted(t, n), b, d)
<1>1. TypeOK /\ Writing(t, n) /\ UNCHANGED <<entries, chat, found>>
  BY DEF IInv, Write, WriteFails
<1>2. /\ b \in Seq(Byte) /\ b # <<>> /\ Len(b) \in Nat \ {0}
      /\ Counted(t, n) \in FileType
      /\ Counted(t, n).at = "open" /\ Counted(t, n).idx = 1
      /\ Counted(t, n).path = file[t].path /\ Counted(t, n).tempDir = file[t].tempDir
      /\ chat[t] = <<>> /\ (spool[t] = "made" => file[t].tempDir)
      /\ sent' \in [Transfers -> Nat]
  BY <1>1, WritingTyped
<1>3. FullParts(Len(b)) \in Nat
  BY <1>2, PartsFit
<1> HIDE DEF b
<1>4. ASSUME NEW d \in 0 .. FullParts(Len(b))
      PROVE  /\ Done(d) \in FileType /\ Done(d).at = "open" /\ Done(d).idx = 1
             /\ Done(d).path = file[t].path /\ (file[t].tempDir => Done(d).tempDir)
  BY <1>2, SpilledTyped, SpilledKeeps
<1>5. found' \in [Transfers -> Seq(Byte)]
  BY <1>1 DEF TypeOK
<1>6. ASSUME NEW f \in FileType, f.at = "open", f.idx = 1, f.path = file[t].path,
             file[t].tempDir => f.tempDir, file' = [file EXCEPT ![t] = f],
             \/ UNCHANGED spool
             \/ f.tempDir /\ spool' = [spool EXCEPT ![t] = "made"]
             \/ spool' = [spool EXCEPT ![t] = "none"]
      PROVE  IInv'
  <2>1. spool' \in [Transfers -> {"none", "made", "removed", "stuck"}]
        /\ (\A u \in Transfers \ {t} : spool'[u] = spool[u])
        /\ (spool'[t] = "made" => f.tempDir)
    BY <1>1, <1>2, <1>6 DEF TypeOK
  <2> QED BY <1>1, <1>2, <1>5, <1>6, <2>1, QuietStep
<1> DEFINE k == FullParts(Len(b))
<1>7. CASE Write(t, n)
  <2>1. file' = [file EXCEPT ![t] = Done(k)] /\ spool' = [spool EXCEPT ![t] = SpoolOf(Done(k))]
    BY <1>7 DEF Write, b
  <2>2. k \in 0 .. FullParts(Len(b))
    BY <1>3
  <2> HIDE DEF Done, k
  <2> QED BY <1>4, <1>6, <2>1, <2>2 DEF SpoolOf
<1>8. CASE WriteFails(t, n)
  <2>1. PICK done \in 0 .. k - 1 :
          LET f == [Done(done) EXCEPT !.broken = TRUE]
              g == [f EXCEPT !.partNumber = @ + 1, !.tempDir = TRUE]
          IN  \/ file' = [file EXCEPT ![t] = f] /\ UNCHANGED spool
              \/ file' = [file EXCEPT ![t] = g] /\ spool' = [spool EXCEPT ![t] = SpoolOf(g)]
    BY <1>8 DEF WriteFails, b
  <2> DEFINE f == [Done(done) EXCEPT !.broken = TRUE]
             g == [f EXCEPT !.partNumber = @ + 1, !.tempDir = TRUE]
  <2>2. done \in 0 .. FullParts(Len(b))
    BY <1>3
  <2> HIDE DEF Done, k
  <2>3. /\ f \in FileType /\ f.at = "open" /\ f.idx = 1 /\ f.path = file[t].path
        /\ (file[t].tempDir => f.tempDir)
    BY <1>4, <2>2 DEF FileType
  <2>4. /\ g \in FileType /\ g.at = "open" /\ g.idx = 1 /\ g.path = file[t].path
        /\ g.tempDir = TRUE
    <3>1. f.partNumber + 1 \in Nat
      BY <2>3 DEF FileType
    <3> HIDE DEF f
    <3> QED BY <2>3, <3>1 DEF FileType
  <2>5. \/ file' = [file EXCEPT ![t] = f] /\ UNCHANGED spool
        \/ file' = [file EXCEPT ![t] = g] /\ spool' = [spool EXCEPT ![t] = SpoolOf(g)]
    BY <2>1
  <2> HIDE DEF f, g
  <2> QED BY <1>6, <2>3, <2>4, <2>5 DEF SpoolOf
<1> QED BY <1>7, <1>8

(* Read.                                                                   *)
LEMMA ReadStep ==
  ASSUME IInv, NEW t \in Transfers, Read(t)
  PROVE  IInv'
<1>1. TypeOK /\ SendInv /\ SpoolInv
  BY DEF IInv
<1>2. file[t] \in FileType /\ file[t].offset \in Nat
  BY <1>1 DEF TypeOK, FileType
<1>3. PICK n \in 1 .. Len(file[t].content) - file[t].offset :
        file' = [file EXCEPT ![t].offset = @ + n]
  BY DEF Read
<1>4. n \in Nat /\ file[t].offset + n \in Nat
  <2>1. Len(file[t].content) \in Nat
    BY <1>2 DEF FileType
  <2> QED BY <1>2, <2>1
<1> DEFINE f == [file[t] EXCEPT !.offset = file[t].offset + n]
<1>5. /\ f \in FileType /\ f.at = file[t].at /\ f.idx = file[t].idx /\ f.path = file[t].path
      /\ f.tempDir = file[t].tempDir
  BY <1>2, <1>4 DEF FileType
<1>6. file' = [file EXCEPT ![t] = f]
  BY <1>3
<1>7. file[t].at = "open" /\ UNCHANGED <<entries, spool, chat, sent, found>>
  BY DEF Read
<1>8. chat[t] = <<>> /\ file[t].idx = 1 /\ (spool[t] = "made" => file[t].tempDir)
  BY <1>1, <1>7 DEF SendInv, SpoolInv
<1>9. /\ spool' \in [Transfers -> {"none", "made", "removed", "stuck"}]
      /\ sent' \in [Transfers -> Nat] /\ found' \in [Transfers -> Seq(Byte)]
  BY <1>1, <1>7 DEF TypeOK
<1> HIDE DEF f
<1> QED BY <1>5, <1>6, <1>7, <1>8, <1>9, QuietStep

(* A Close that fails: the deferred clean-up finds the directory of every  *)
(* part that is on the disk (telegram.go:210, 414-420).                    *)
LEMMA FailTyped ==
  ASSUME IInv, NEW t \in Transfers, file[t].at \in {"open", "sending"}, Fail(t)
  PROVE  LET f == [file[t] EXCEPT !.at = "failed"]
         IN  /\ f \in FileType /\ f.at = "failed" /\ f.path = file[t].path
             /\ file' = [file EXCEPT ![t] = f]
             /\ spool' \in [Transfers -> {"none", "made", "removed", "stuck"}]
             /\ \A u \in Transfers \ {t} : spool'[u] = spool[u]
             /\ spool'[t] # "made"
<1>1. TypeOK /\ SpoolInv
  BY DEF IInv
<1>2. file[t] \in FileType /\ spool \in [Transfers -> {"none", "made", "removed", "stuck"}]
  BY <1>1 DEF TypeOK
<1>3. spool[t] = "made" => file[t].tempDir
  BY <1>1 DEF SpoolInv
<1>4. CleanUp(t) /\ file' = [file EXCEPT ![t].at = "failed"]
  BY DEF Fail
<1>5. \/ \E outcome \in {"removed", "stuck"} : spool' = [spool EXCEPT ![t] = outcome]
      \/ ~file[t].tempDir /\ spool' = spool
  BY <1>4 DEF CleanUp
<1>6. /\ spool' \in [Transfers -> {"none", "made", "removed", "stuck"}]
      /\ \A u \in Transfers \ {t} : spool'[u] = spool[u]
      /\ spool'[t] # "made"
  BY <1>2, <1>3, <1>5
<1>7. [file[t] EXCEPT !.at = "failed"] \in FileType
  BY <1>2 DEF FileType, Closing, Closed
<1> QED BY <1>2, <1>4, <1>6, <1>7 DEF FileType, Closing, Closed

(* The begin of a Close.                                                   *)
LEMMA StartCloseStep ==
  ASSUME IInv, NEW t \in Transfers, StartClose(t)
  PROVE  IInv'
<1>1. TypeOK /\ SendInv /\ SpoolInv
  BY DEF IInv
<1>2. file[t] \in FileType
  BY <1>1 DEF TypeOK
<1>3. file[t].at = "open" /\ UNCHANGED <<entries, chat, sent, found>>
  BY DEF StartClose, CloseDirectory, CloseEmpty, CloseSingle, CloseMultipart, CloseSpoolFails
<1>4. chat[t] = <<>> /\ file[t].idx = 1 /\ (spool[t] = "made" => file[t].tempDir)
  BY <1>1, <1>3 DEF SendInv, SpoolInv
<1>5. /\ spool \in [Transfers -> {"none", "made", "removed", "stuck"}]
      /\ sent' \in [Transfers -> Nat] /\ found' \in [Transfers -> Seq(Byte)]
  BY <1>1, <1>3 DEF TypeOK
<1>6. CASE CloseDirectory(t)
  <2> DEFINE f == [file[t] EXCEPT !.at = "skipped"]
  <2>1. f \in FileType /\ f.at = "skipped" /\ f.path = file[t].path
    BY <1>2 DEF FileType, Closing, Closed
  <2>2. file' = [file EXCEPT ![t] = f] /\ spool' = spool
    BY <1>6 DEF CloseDirectory
  <2> HIDE DEF f
  <2> QED BY <1>3, <1>5, <2>1, <2>2, QuietStep
<1>7. CASE CloseEmpty(t)
  <2> DEFINE f == [file[t] EXCEPT !.at = "entering"]
  <2>1. f \in FileType /\ f.at = "entering" /\ f.path = file[t].path /\ f.content = <<>>
    BY <1>2, <1>7 DEF CloseEmpty, FileType, Closing, Closed
  <2>2. file' = [file EXCEPT ![t] = f] /\ spool' = spool
    BY <1>7 DEF CloseEmpty
  <2> HIDE DEF f
  <2> QED BY <1>3, <1>5, <2>1, <2>2, QuietStep
<1>8. CASE CloseSingle(t)
  <2> DEFINE f == [file[t] EXCEPT !.at = "sending"]
  <2>1. /\ f \in FileType /\ f.at = "sending" /\ f.path = file[t].path /\ f.partNumber = 0
        /\ f.idx = 1 /\ f.tempDir = file[t].tempDir
    BY <1>2, <1>4, <1>8 DEF CloseSingle, FileType, Closing, Closed
  <2>2. file' = [file EXCEPT ![t] = f] /\ spool' = spool
    BY <1>8 DEF CloseSingle
  <2> HIDE DEF f
  <2>3. f.idx \in DOMAIN IF f.partNumber > 0 THEN f.parts ELSE <<f.content>>
    <3>1. f.idx \in DOMAIN <<f.content>>
      BY <2>1
    <3> QED BY <2>1, <3>1
  <2> QED BY <1>3, <1>4, <1>5, <2>1, <2>2, <2>3, QuietStep
<1>9. CASE CloseMultipart(t)
  <2> DEFINE ps == Append(file[t].parts, file[t].content)
             f == [file[t] EXCEPT !.at = "sending", !.parts = ps,
                                  !.partNumber = file[t].partNumber + 1]
  <2>1. /\ ps \in Seq(Seq(Byte)) /\ 1 \in DOMAIN ps
        /\ file[t].partNumber + 1 \in Nat /\ file[t].partNumber + 1 > 0
    BY <1>2 DEF FileType, Closing, Closed
  <2>2. file' = [file EXCEPT ![t] = f] /\ spool' = spool
    BY <1>9 DEF CloseMultipart
  <2> HIDE DEF ps
  <2>3. /\ f \in FileType /\ f.at = "sending" /\ f.path = file[t].path /\ f.partNumber > 0
        /\ f.idx \in DOMAIN f.parts /\ f.tempDir = file[t].tempDir
    BY <1>2, <1>4, <2>1 DEF FileType, Closing, Closed
  <2> HIDE DEF f
  <2> QED BY <1>3, <1>4, <1>5, <2>2, <2>3, QuietStep
<1>10. CASE CloseSpoolFails(t)
  <2> DEFINE f == [file[t] EXCEPT !.at = "failed"]
  <2>1. Fail(t)
    BY <1>10 DEF CloseSpoolFails
  <2>2. /\ f \in FileType /\ f.at = "failed" /\ f.path = file[t].path
        /\ file' = [file EXCEPT ![t] = f]
        /\ spool' \in [Transfers -> {"none", "made", "removed", "stuck"}]
        /\ \A u \in Transfers \ {t} : spool'[u] = spool[u]
        /\ spool'[t] # "made"
    BY <1>3, <2>1, FailTyped
  <2> HIDE DEF f
  <2> QED BY <1>3, <1>5, <2>2, QuietStep
<1> QED BY <1>6, <1>7, <1>8, <1>9, <1>10 DEF StartClose

-----------------------------------------------------------------------------
(* Sending (telegram.go:237-262, 322-379).                                 *)

(* What is sent follows what has been sent.                                *)
LEMMA Delivered ==
  ASSUME TypeOK, SendInv, NEW t \in Transfers, file[t].at = "sending", Deliver(t)
  PROVE  /\ chat' \in [Transfers -> Seq(MessageType)]
         /\ \A u \in Transfers \ {t} : chat'[u] = chat[u]
         /\ Messages(t) \subseteq Messages(t)'
         /\ Message(t) \in Messages(t)'
<1>1. Message(t) \in MessageType
  BY MessageTyped
<1> DEFINE m == Message(t)
           more == <<m>>
<1>2. chat' = [chat EXCEPT ![t] = Append(chat[t], m)] /\ chat[t] \in Seq(MessageType)
  BY DEF Deliver, TypeOK
<1> HIDE DEF m
<1>3. more \in Seq(MessageType) /\ more[1] = m /\ 1 \in DOMAIN more
  BY <1>1 DEF m
<1>4. Append(chat[t], m) = chat[t] \o more
  BY <1>1, <1>2 DEF m
<1>5. chat' = [chat EXCEPT ![t] = chat[t] \o more]
  BY <1>2, <1>4
<1> HIDE DEF more
<1>6. /\ chat' \in [Transfers -> Seq(MessageType)]
      /\ Messages(t) \subseteq Messages(t)'
      /\ m \in Messages(t)'
  BY <1>3, <1>5, ChatGrows
<1>7. \A u \in Transfers \ {t} : chat'[u] = chat[u]
  BY <1>2
<1> QED BY <1>6, <1>7 DEF m

(* A chat that stays as it is.                                             *)
LEMMA ChatKept ==
  ASSUME TypeOK, NEW t \in Transfers, UNCHANGED chat
  PROVE  /\ chat' \in [Transfers -> Seq(MessageType)]
         /\ \A u \in Transfers \ {t} : chat'[u] = chat[u]
         /\ Messages(t) \subseteq Messages(t)'
BY DEF TypeOK, Messages

(* The messages of a send that fails for good.                             *)
LEMMA FailureSaid ==
  ASSUME IInv, NEW t \in Transfers, SendFails(t)
  PROVE  /\ chat' \in [Transfers -> Seq(MessageType)]
         /\ \A u \in Transfers \ {t} : chat'[u] = chat[u]
         /\ Messages(t) \subseteq Messages(t)'
<1>0. ASSUME NEW m \in MessageType
      PROVE  <<>> \in Seq(MessageType) /\ <<m>> \in Seq(MessageType)
  OBVIOUS
<1>1. TypeOK /\ SendInv /\ file[t].at = "sending"
  BY DEF IInv, SendFails
<1>2. Message(t) \in MessageType
  BY <1>1, MessageTyped
<1>3. [Message(t) EXCEPT !.notice = TRUE] \in MessageType
  BY <1>2 DEF MessageType
<1>4. PICK last \in {<<>>, <<Message(t)>>},
           notice \in {<<>>, <<[Message(t) EXCEPT !.notice = TRUE]>>} :
             chat' = [chat EXCEPT ![t] = chat[t] \o last \o notice]
  BY DEF SendFails
<1>5. last \in Seq(MessageType)
  BY <1>2, <1>4, <1>0
<1>6. notice \in Seq(MessageType)
  BY <1>3, <1>4, <1>0
<1>7. chat[t] \in Seq(MessageType)
  BY <1>1 DEF TypeOK
<1>8. last \o notice \in Seq(MessageType)
  BY <1>5, <1>6, ConcatProperties
<1>9. (chat[t] \o last) \o notice = chat[t] \o (last \o notice)
  <2> DEFINE a == chat[t]
             b == last
             c == notice
  <2>1. a \in Seq(MessageType) /\ b \in Seq(MessageType) /\ c \in Seq(MessageType)
    BY <1>5, <1>6, <1>7
  <2> HIDE DEF a, b, c
  <2>2. (a \o b) \o c = a \o (b \o c)
    BY <2>1
  <2> QED BY <2>2 DEF a, b, c
<1>10. chat' = [chat EXCEPT ![t] = chat[t] \o (last \o notice)]
  BY <1>4, <1>9
<1> DEFINE more == last \o notice
<1> HIDE DEF more
<1>11. more \in Seq(MessageType) /\ chat' = [chat EXCEPT ![t] = chat[t] \o more]
  BY <1>8, <1>10 DEF more
<1> QED BY <1>1, <1>11, ChatGrows

(* The sends of a Close, and what stops them.                              *)
LEMMA SendStep ==
  ASSUME IInv, NEW t \in Transfers,
         Send(t) \/ SendAgain(t) \/ SendFails(t) \/ ReadPartFails(t)
  PROVE  IInv'
<1>1. TypeOK /\ SendInv /\ SpoolInv
  BY DEF IInv
<1>2. file[t] \in FileType
  BY <1>1 DEF TypeOK
<1>3. file[t].at = "sending" /\ UNCHANGED <<entries, sent, found>>
  BY DEF Send, SendAgain, SendFails, ReadPartFails
<1>4. spool[t] = "made" => file[t].tempDir
  BY <1>1, <1>3 DEF SpoolInv
<1>5. /\ spool \in [Transfers -> {"none", "made", "removed", "stuck"}]
      /\ sent' \in [Transfers -> Nat] /\ found' \in [Transfers -> Seq(Byte)]
      /\ entries' \in [Names -> [kind : {"none", "file", "dir"}, size : Nat, content : Seq(Byte)]]
      /\ \A p \in Names : entries'[p].content \in {entries[p].content, <<>>}
  BY <1>1, <1>3 DEF TypeOK
<1>6. /\ ~Multipart(t) => Message(t) = WholeMessage(file[t].content)
      /\ file[t].idx \in 1 .. Len(Sending(t)) /\ Len(Sending(t)) \in Nat
      /\ DOMAIN Sending(t) = 1 .. Len(Sending(t))
      /\ Sending(t) = IF file[t].partNumber > 0 THEN file[t].parts ELSE <<file[t].content>>
  <2>1. Sending(t) \in Seq(Seq(Byte))
    BY <1>2 DEF Sending, FileType
  <2>2. /\ ~Multipart(t) => Message(t) = WholeMessage(file[t].content)
        /\ file[t].idx \in 1 .. Len(Sending(t)) /\ Len(Sending(t)) \in Nat
    BY <1>1, <1>3, MessageTyped
  <2>3. DOMAIN Sending(t) = 1 .. Len(Sending(t))
    BY <2>1, LenProperties
  <2>4. Sending(t) = IF file[t].partNumber > 0 THEN file[t].parts ELSE <<file[t].content>>
    BY DEF Sending, Multipart
  <2> QED BY <2>2, <2>3, <2>4
<1>7. CASE Send(t) /\ file[t].idx = Len(Sending(t))
  <2> DEFINE f == [file[t] EXCEPT !.at = "entering"]
  <2>1. /\ f \in FileType /\ f.at = "entering" /\ f.path = file[t].path
        /\ f.partNumber = file[t].partNumber /\ f.content = file[t].content
    BY <1>2 DEF FileType, Closing
  <2>2. file' = [file EXCEPT ![t] = f] /\ spool' = spool
    BY <1>7 DEF Send
  <2>3. /\ chat' \in [Transfers -> Seq(MessageType)]
        /\ \A u \in Transfers \ {t} : chat'[u] = chat[u]
        /\ Messages(t) \subseteq Messages(t)'
        /\ Message(t) \in Messages(t)'
    BY <1>1, <1>3, <1>7, Delivered DEF Send
  <2>4. f.partNumber = 0 => WholeMessage(f.content) \in Messages(t)'
    BY <1>6, <2>1, <2>3 DEF Multipart
  <2> HIDE DEF f
  <2> QED BY <1>5, <2>1, <2>2, <2>3, <2>4, OneTransfer
<1>8. ASSUME NEW f \in FileType, f.at = "sending", f.path = file[t].path, f.tempDir = file[t].tempDir,
             f.idx \in DOMAIN IF f.partNumber > 0 THEN f.parts ELSE <<f.content>>,
             file' = [file EXCEPT ![t] = f], UNCHANGED spool, Deliver(t) \/ UNCHANGED chat
      PROVE  IInv'
  <2>1. /\ chat' \in [Transfers -> Seq(MessageType)]
        /\ \A u \in Transfers \ {t} : chat'[u] = chat[u]
        /\ Messages(t) \subseteq Messages(t)'
    <3>1. CASE Deliver(t)
      BY <1>1, <1>3, <3>1, Delivered
    <3>2. CASE UNCHANGED chat
      BY <1>1, <3>2, ChatKept
    <3> QED BY <1>8, <3>1, <3>2
  <2> QED BY <1>4, <1>5, <1>8, <2>1, OneTransfer
<1>9. CASE Send(t) /\ file[t].idx # Len(Sending(t))
  <2> DEFINE f == [file[t] EXCEPT !.idx = file[t].idx + 1, !.attempt = 1]
  <2>1. file[t].idx + 1 \in Nat /\ file[t].idx + 1 \in DOMAIN Sending(t)
    BY <1>6, <1>9
  <2>2. 1 \in 1 .. RetryAttempts
    BY SizesAssumption
  <2>3. /\ f \in FileType /\ f.at = "sending" /\ f.path = file[t].path
        /\ f.tempDir = file[t].tempDir /\ f.idx = file[t].idx + 1
        /\ f.partNumber = file[t].partNumber /\ f.parts = file[t].parts
        /\ f.content = file[t].content
    BY <1>2, <1>3, <2>1, <2>2 DEF FileType
  <2>4. f.idx \in DOMAIN IF f.partNumber > 0 THEN f.parts ELSE <<f.content>>
    <3> HIDE DEF f
    <3> QED BY <1>6, <2>1, <2>3
  <2>5. file' = [file EXCEPT ![t] = f] /\ UNCHANGED spool /\ Deliver(t)
    BY <1>9 DEF Send
  <2> HIDE DEF f
  <2> QED BY <1>8, <2>3, <2>4, <2>5
<1>10. CASE SendAgain(t)
  <2> DEFINE f == [file[t] EXCEPT !.attempt = file[t].attempt + 1]
  <2>1. file[t].attempt + 1 \in 1 .. RetryAttempts
    BY <1>2, <1>10, SizesAssumption DEF SendAgain, FileType
  <2>2. /\ f \in FileType /\ f.at = "sending" /\ f.path = file[t].path
        /\ f.tempDir = file[t].tempDir /\ f.idx = file[t].idx
        /\ f.partNumber = file[t].partNumber /\ f.parts = file[t].parts
        /\ f.content = file[t].content
    BY <1>2, <1>3, <2>1 DEF FileType
  <2>3. f.idx \in DOMAIN IF f.partNumber > 0 THEN f.parts ELSE <<f.content>>
    <3> HIDE DEF f
    <3> QED BY <1>6, <2>2
  <2>4. file' = [file EXCEPT ![t] = f] /\ UNCHANGED spool /\ (Deliver(t) \/ UNCHANGED chat)
    BY <1>10 DEF SendAgain
  <2> HIDE DEF f
  <2> QED BY <1>8, <2>2, <2>3, <2>4
<1>11. CASE SendFails(t) \/ ReadPartFails(t)
  <2> DEFINE f == [file[t] EXCEPT !.at = "failed"]
  <2>1. /\ f \in FileType /\ f.at = "failed" /\ f.path = file[t].path
        /\ file' = [file EXCEPT ![t] = f]
        /\ spool' \in [Transfers -> {"none", "made", "removed", "stuck"}]
        /\ \A u \in Transfers \ {t} : spool'[u] = spool[u]
        /\ spool'[t] # "made"
    BY <1>3, <1>11, FailTyped DEF SendFails, ReadPartFails
  <2>2. /\ chat' \in [Transfers -> Seq(MessageType)]
        /\ \A u \in Transfers \ {t} : chat'[u] = chat[u]
        /\ Messages(t) \subseteq Messages(t)'
    <3>1. CASE SendFails(t)
      BY <3>1, FailureSaid
    <3>2. CASE ReadPartFails(t)
      BY <1>1, <3>2, ChatKept DEF ReadPartFails
    <3> QED BY <1>11, <3>1, <3>2
  <2> HIDE DEF f
  <2> QED BY <1>5, <2>1, <2>2, OneTransfer
<1> QED BY <1>7, <1>9, <1>10, <1>11

-----------------------------------------------------------------------------
(* The table (telegram.go:263-284).                                        *)

(* The name is looked up, and created when it is gone.                     *)
LEMMA NameStep ==
  ASSUME IInv, NEW t \in Transfers, StatName(t) \/ CreateName(t)
  PROVE  IInv'
<1>0. Entry("file") \in [kind : {"none", "file", "dir"}, size : Nat, content : Seq(Byte)]
      /\ Entry("file").content = <<>>
  BY DEF Entry
<1>1. TypeOK /\ ReadInv
  BY DEF IInv
<1>2. file[t] \in FileType
  BY <1>1 DEF TypeOK
<1>3. /\ file[t].at \in {"entering", "creating"}
      /\ \E at \in {"creating", "sizing"} : file' = [file EXCEPT ![t].at = at]
      /\ \/ UNCHANGED entries
         \/ entries' = [entries EXCEPT ![file[t].path] = Entry("file")]
      /\ UNCHANGED <<spool, chat, sent, found>>
  BY DEF StatName, CreateName
<1>4. PICK at \in {"creating", "sizing"} : file' = [file EXCEPT ![t].at = at]
  BY <1>3
<1> DEFINE f == [file[t] EXCEPT !.at = at]
<1>5. /\ f \in FileType /\ f.at \in {"creating", "sizing"} /\ f.path = file[t].path
      /\ f.partNumber = file[t].partNumber /\ f.content = file[t].content
  BY <1>2 DEF FileType, Closing
<1>6. file' = [file EXCEPT ![t] = f]
  BY <1>4
<1>7. Messages(t)' = Messages(t)
  BY <1>3 DEF Messages
<1>8. f.partNumber = 0 /\ f.content # <<>> => WholeMessage(f.content) \in Messages(t)'
  BY <1>1, <1>3, <1>5, <1>7 DEF ReadInv, Multipart
<1>9. /\ entries' \in [Names -> [kind : {"none", "file", "dir"}, size : Nat, content : Seq(Byte)]]
      /\ \A p \in Names : entries'[p].content \in {entries[p].content, <<>>}
  <2>1. CASE UNCHANGED entries
    BY <1>1, <2>1 DEF TypeOK
  <2>2. CASE entries' = [entries EXCEPT ![file[t].path] = Entry("file")]
    BY <1>1, <1>0, <2>2 DEF TypeOK
  <2> QED BY <1>3, <2>1, <2>2
<1>10. /\ spool' \in [Transfers -> {"none", "made", "removed", "stuck"}]
       /\ sent' \in [Transfers -> Nat] /\ found' \in [Transfers -> Seq(Byte)]
       /\ chat' \in [Transfers -> Seq(MessageType)]
  BY <1>1, <1>3 DEF TypeOK
<1> HIDE DEF f
<1> QED BY <1>3, <1>5, <1>6, <1>7, <1>8, <1>9, <1>10, OneTransfer

(* The size is set.                                                        *)
LEMMA SizeStep ==
  ASSUME IInv, NEW t \in Transfers, SetSize(t)
  PROVE  IInv'
<1>1. TypeOK /\ ReadInv
  BY DEF IInv
<1>2. file[t] \in FileType /\ file[t].totalWritten \in Nat
  BY <1>1 DEF TypeOK, FileType
<1>3. /\ file[t].at = "sizing"
      /\ \E at \in {"closed", "caching"} : file' = [file EXCEPT ![t].at = at]
      /\ entries' = [entries EXCEPT ![file[t].path].size = file[t].totalWritten]
      /\ UNCHANGED <<spool, chat, sent, found>>
  BY DEF SetSize
<1>4. PICK at \in {"closed", "caching"} : file' = [file EXCEPT ![t].at = at]
  BY <1>3
<1> DEFINE f == [file[t] EXCEPT !.at = at]
<1>5. /\ f \in FileType /\ f.at \in {"closed", "caching"} /\ f.path = file[t].path
      /\ f.partNumber = file[t].partNumber /\ f.content = file[t].content
  BY <1>2 DEF FileType, Closing, Closed
<1>6. file' = [file EXCEPT ![t] = f]
  BY <1>4
<1>7. Messages(t)' = Messages(t)
  BY <1>3 DEF Messages
<1>8. f.partNumber = 0 /\ f.content # <<>> => WholeMessage(f.content) \in Messages(t)'
  BY <1>1, <1>3, <1>5, <1>7 DEF ReadInv, Multipart
<1>9. /\ entries' \in [Names -> [kind : {"none", "file", "dir"}, size : Nat, content : Seq(Byte)]]
      /\ \A p \in Names : entries'[p].content \in {entries[p].content, <<>>}
  <2> DEFINE q == file[t].path
             e == [entries[q] EXCEPT !.size = file[t].totalWritten]
  <2>1. q \in Names /\ entries[q] \in [kind : {"none", "file", "dir"}, size : Nat, content : Seq(Byte)]
    BY <1>1, <1>2 DEF TypeOK, FileType
  <2>2. /\ e \in [kind : {"none", "file", "dir"}, size : Nat, content : Seq(Byte)]
        /\ e.content = entries[q].content
    BY <1>2, <2>1
  <2>3. entries' = [entries EXCEPT ![q] = e]
    BY <1>3
  <2> HIDE DEF q, e
  <2> QED BY <1>1, <2>1, <2>2, <2>3 DEF TypeOK
<1>10. /\ spool' \in [Transfers -> {"none", "made", "removed", "stuck"}]
       /\ sent' \in [Transfers -> Nat] /\ found' \in [Transfers -> Seq(Byte)]
       /\ chat' \in [Transfers -> Seq(MessageType)]
  BY <1>1, <1>3 DEF TypeOK
<1> HIDE DEF f
<1> QED BY <1>3, <1>5, <1>6, <1>7, <1>8, <1>9, <1>10, OneTransfer

(* The content is kept for reading, which is what was sent, or forgotten.  *)
LEMMA ContentStep ==
  ASSUME IInv, NEW t \in Transfers, SetContent(t)
  PROVE  IInv'
<1>1. TypeOK /\ ReadInv
  BY DEF IInv
<1>2. file[t] \in FileType /\ file[t].content \in Seq(Byte)
  BY <1>1 DEF TypeOK, FileType
<1> DEFINE kept == IF Cacheable(file[t]) THEN file[t].content ELSE <<>>
<1>3. /\ file[t].at = "caching"
      /\ entries' = [entries EXCEPT ![file[t].path].content = kept]
      /\ UNCHANGED <<spool, chat, sent, found>>
  BY DEF SetContent
<1>4. Messages(t)' = Messages(t)
  BY <1>3 DEF Messages
<1>5. kept \in Seq(Byte) /\ (kept # <<>> => WholeMessage(kept) \in Messages(t)')
  <2>0. <<>> \in Seq(Byte)
    OBVIOUS
  <2>1. CASE Cacheable(file[t]) /\ file[t].content # <<>>
    <3>1. ~Multipart(t)
      BY <2>1 DEF Cacheable, Multipart
    <3>2. WholeMessage(file[t].content) \in Messages(t)
      BY <1>1, <1>3, <2>1, <3>1 DEF ReadInv
    <3>3. kept = file[t].content
      BY <2>1
    <3> HIDE DEF kept
    <3> QED BY <1>2, <1>4, <3>2, <3>3
  <2>2. CASE ~(Cacheable(file[t]) /\ file[t].content # <<>>)
    <3>1. kept = <<>>
      BY <2>2
    <3> HIDE DEF kept
    <3> QED BY <2>0, <3>1
  <2> QED BY <2>1, <2>2
<1> DEFINE f == [file[t] EXCEPT !.at = "closed", !.content = <<>>, !.partNumber = 0, !.parts = <<>>,
                                !.tempDir = FALSE, !.totalWritten = 0, !.offset = 0]
<1>6. f \in FileType /\ f.at = "closed" /\ f.path = file[t].path
  <2>1. <<>> \in Seq(Byte) /\ <<>> \in Seq(Seq(Byte)) /\ 0 \in Nat
    OBVIOUS
  <2> QED BY <1>2, <2>1 DEF FileType, Closed
<1>7. file' = [file EXCEPT ![t] = f]
  BY DEF SetContent
<1> HIDE DEF kept
<1>8. /\ entries' \in [Names -> [kind : {"none", "file", "dir"}, size : Nat, content : Seq(Byte)]]
      /\ \A p \in Names : \/ entries'[p].content = entries[p].content
                          \/ p = file[t].path /\ entries'[p].content = kept
  BY <1>1, <1>3, <1>5 DEF TypeOK
<1>9. \A p \in Names : \/ entries'[p].content \in {entries[p].content, <<>>}
                       \/ p = f.path /\ WholeMessage(entries'[p].content) \in Messages(t)'
  <2> HIDE DEF f
  <2> SUFFICES ASSUME NEW p \in Names
               PROVE  \/ entries'[p].content \in {entries[p].content, <<>>}
                      \/ p = f.path /\ WholeMessage(entries'[p].content) \in Messages(t)'
    OBVIOUS
  <2>1. CASE entries'[p].content = entries[p].content
    BY <2>1
  <2>2. CASE p = file[t].path /\ entries'[p].content = kept
    BY <1>5, <1>6, <2>2
  <2> QED BY <1>8, <2>1, <2>2
<1>10. /\ spool' \in [Transfers -> {"none", "made", "removed", "stuck"}]
       /\ sent' \in [Transfers -> Nat] /\ found' \in [Transfers -> Seq(Byte)]
       /\ chat' \in [Transfers -> Seq(MessageType)]
  BY <1>1, <1>3 DEF TypeOK
<1>11. /\ \A u \in Transfers \ {t} : chat'[u] = chat[u]
       /\ \A u \in Transfers \ {t} : spool'[u] = spool[u]
       /\ Messages(t) \subseteq Messages(t)'
  BY <1>3, <1>4
<1>12. entries' \in [Names -> [kind : {"none", "file", "dir"}, size : Nat, content : Seq(Byte)]]
  BY <1>8
<1> HIDE DEF f
<1> QED BY <1>6, <1>7, <1>9, <1>10, <1>11, <1>12, OneTransfer

-----------------------------------------------------------------------------
(* The theorems.                                                           *)

(* The inductive invariant holds at the start.                             *)
LEMMA InitIInv ==
  ASSUME Init
  PROVE  IInv
<1>1. /\ entries = [p \in Names |-> Entry("none")] /\ spool = [t \in Transfers |-> "none"]
      /\ chat = [t \in Transfers |-> <<>>] /\ sent = [t \in Transfers |-> 0]
      /\ found = [t \in Transfers |-> <<>>]
  BY DEF Init
<1>2. PICK p \in Names :
        file = [t \in Transfers |->
          [at |-> "none", path |-> p, upload |-> FALSE, broken |-> FALSE, content |-> <<>>,
           partNumber |-> 0, parts |-> <<>>, tempDir |-> FALSE, totalWritten |-> 0,
           offset |-> 0, idx |-> 1, attempt |-> 1]]
  BY DEF Init
<1>3. <<>> \in Seq(Byte) /\ <<>> \in Seq(Seq(Byte)) /\ <<>> \in Seq(MessageType)
  OBVIOUS
<1>4. 1 \in 1 .. RetryAttempts
  BY SizesAssumption
<1>5. file \in [Transfers -> FileType]
  BY <1>2, <1>3, <1>4 DEF FileType
<1>6. entries \in [Names -> [kind : {"none", "file", "dir"}, size : Nat, content : Seq(Byte)]]
  BY <1>1, <1>3 DEF Entry
<1>7. TypeOK
  BY <1>1, <1>3, <1>5, <1>6 DEF TypeOK
<1>8. SendInv /\ SpoolInv
  BY <1>1, <1>2 DEF SendInv, SpoolInv, Multipart
<1>9. ReadInv
  BY <1>1, <1>2 DEF ReadInv, ReadbackIsInChat, Entry
<1> QED BY <1>7, <1>8, <1>9 DEF IInv

(* Every step keeps it.                                                    *)
LEMMA NextIInv ==
  ASSUME IInv, [Next]_vars
  PROVE  IInv'
<1>1. CASE UNCHANGED vars
  BY <1>1 DEF vars, IInv, TypeOK, SendInv, ReadInv, SpoolInv, ReadbackIsInChat, WholeMessage,
              Messages, Multipart, Sending
<1>2. CASE \E p \in Names : Mkdir(p) \/ \E t \in Transfers : OpenFile(t, p) \/ Create(t, p)
  BY <1>2, MkdirStep, OpenStep
<1>3. ASSUME NEW t \in Transfers, \E n \in Chunks : Write(t, n) \/ WriteFails(t, n)
      PROVE  IInv'
  BY <1>3, WriteStep
<1>4. ASSUME NEW t \in Transfers, Read(t) \/ StartClose(t)
      PROVE  IInv'
  BY <1>4, ReadStep, StartCloseStep
<1>5. ASSUME NEW t \in Transfers, GoOnClosing(t)
      PROVE  IInv'
  BY <1>5, SendStep, NameStep, SizeStep, ContentStep DEF GoOnClosing
<1> QED BY <1>1, <1>2, <1>3, <1>4, <1>5 DEF Next

(* IInv holds in every state.                                              *)
THEOREM Invariance == Spec => []IInv
<1>1. Init => IInv
  BY InitIInv
<1>2. IInv /\ [Next]_vars => IInv'
  BY NextIInv
<1> QED BY <1>1, <1>2, PTL DEF Spec

(* Files, messages, spools and the table keep their types.                 *)
THEOREM TypeCorrect == Spec => []TypeOK
<1>1. IInv => TypeOK
  BY DEF IInv
<1> QED BY <1>1, Invariance, PTL

(* However many sessions share a file system and however their uploads,    *)
(* aborts and failures interleave, what can be read back under a name is   *)
(* in the chat, whole, sent under that name (telegram.go:270-274, 583).    *)
THEOREM ReadbackWasSent == Spec => []ReadbackIsInChat
<1>1. IInv => ReadbackIsInChat
  BY DEF IInv, ReadInv
<1> QED BY <1>1, Invariance, PTL

(* An upload that fails, at whatever step, leaves no parts on the disk     *)
(* unless their removal fails (telegram.go:210, 414-420).                  *)
THEOREM FailuresCleanUp == Spec => []FailedLeavesNoSpool
<1>1. IInv => FailedLeavesNoSpool
  BY DEF IInv, SpoolInv, FailedLeavesNoSpool
<1> QED BY <1>1, Invariance, PTL
=============================================================================
