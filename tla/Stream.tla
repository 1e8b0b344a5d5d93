------------------------------- MODULE Stream -------------------------------
(***************************************************************************)
(* rsync/rsync_stream.cpp: the buffered, multiplexed byte stream the rsync *)
(* client runs on top of one IO channel, between enableBuffer() and the    *)
(* end of the session.                                                     *)
(*                                                                         *)
(* One thread owns the stream.  Every call of io->read and io->write is a  *)
(* step of its own, since the remote process and the network run between   *)
(* any two of them; an io call moves any part of what it could move.  The  *)
(* bytes of each direction are numbered in the order of their origin, and  *)
(* that number is all a byte carries.  The remote side is external: it has *)
(* one thread too, and does not read while it has something to write.      *)
(***************************************************************************)
EXTENDS Naturals, Sequences, FiniteSets

CONSTANTS
  BufferSize,    \* g_BufferSize
  FlagLength,    \* sizeof(uint32_t), the header of a message
  PipeCapacity,  \* what the network holds in each direction
  WriteSizes,    \* the sizes the client passes to write()
  ReadSizes,     \* the sizes the client passes to read()
  Messages,      \* <<kind, length>> of the messages the remote side sends
  MaxWritten,    \* bound: bytes the client writes
  MaxSent,       \* bound: data bytes the remote side sends
  MaxDeleted     \* bound: deletions the remote side reports

ASSUME StreamAssumption ==
  /\ BufferSize \in Nat \ {0}
  /\ FlagLength \in Nat \ {0}
  /\ PipeCapacity \in Nat \ {0}
  /\ WriteSizes \subseteq Nat \ {0}
  /\ ReadSizes \subseteq Nat \ {0}
  /\ Messages \subseteq {"data", "info", "deleted", "error"} \X Nat
  /\ MaxWritten \in Nat
  /\ MaxSent \in Nat
  /\ MaxDeleted \in Nat

VARIABLES
  op,              \* the Stream call the thread is in; "fatal" after LOG_FATAL
  multiplexed,     \* d_isWriteMultiplexed
  autoFlush,       \* d_automaticFlush
  writeBuffer,     \* d_writeBuffer up to d_writeBufferPosition
  flushStart,      \* d_flushStart
  pending,         \* what the writeAll calls of flushWriteBuffer still owe
  flagRead,        \* bytes of the next message flag already read
  messageFlag,     \* d_messageFlag: the kind of a message being read, or "none"
  messageLeft,     \* bytes of that message still to read
  deletedFiles,    \* how many names d_deletedFiles holds
  readDataLength,  \* d_readDataLength
  readBuffer,      \* d_readBuffer between d_readBufferPosition and d_readBufferEnd
  need,            \* size - bytes in read()
  written,         \* how many bytes write() has taken
  received,        \* the bytes read() has handed to the client
  outPipe, inPipe, \* the bytes in the network, oldest first
  remoteOut,       \* what the remote side still has to write of its message
  remoteSent,      \* how many data bytes the remote side has produced
  remoteDeleted,   \* how many deletions the remote side has reported
  remoteFlag,      \* bytes of a flag the remote side has read
  remoteLeft,      \* data bytes of the frame the remote side is reading
  remoteGot,       \* the data bytes the remote side has taken out of frames
  remoteInStep     \* whether every byte it read was of the kind it expected

writing == <<autoFlush, writeBuffer, flushStart, pending, written, outPipe>>
message == <<flagRead, messageFlag, messageLeft, deletedFiles>>
reading == <<message, readDataLength, readBuffer, need, received, inPipe>>
sender == <<remoteOut, remoteSent, remoteDeleted>>
parser == <<remoteFlag, remoteLeft, remoteGot, remoteInStep>>
vars == <<op, multiplexed, writing, reading, sender, parser>>

-----------------------------------------------------------------------------
Flag(kind, length) ==
  [k \in 1 .. FlagLength |-> [type |-> "flag", kind |-> kind, length |-> length, at |-> k]]

Data(bytes) == [k \in 1 .. Len(bytes) |-> [type |-> "data", byte |-> bytes[k]]]

Text(length) == [k \in 1 .. length |-> [type |-> "text"]]

(* The numbers of the n bytes that follow byte number `last`. *)
Fresh(last, n) == [k \in 1 .. n |-> last + k]

flagLength == IF multiplexed THEN FlagLength ELSE 0

(* What a flush of `bytes` puts on the wire. *)
Frame(bytes) ==
  IF multiplexed THEN Flag("data", Len(bytes)) \o Data(bytes) ELSE Data(bytes)

Drop(s, n) == SubSeq(s, n + 1, Len(s))
Take(s, n) == SubSeq(s, 1, n)

(* The numbers of the data bytes among the bytes of a pipe. *)
DataOf(wire) ==
  LET bytes[k \in 0 .. Len(wire)] ==
        IF k = 0 THEN <<>>
        ELSE IF wire[k].type = "data" THEN Append(bytes[k - 1], wire[k].byte) ELSE bytes[k - 1]
  IN  bytes[Len(wire)]

-----------------------------------------------------------------------------
Init ==
  /\ op = "idle"
  /\ multiplexed \in BOOLEAN
  /\ autoFlush = TRUE
  /\ writeBuffer = <<>> /\ flushStart = 0 /\ pending = <<>> /\ written = 0
  /\ flagRead = 0 /\ messageFlag = "none" /\ messageLeft = 0 /\ deletedFiles = 0
  /\ readDataLength = 0
  /\ readBuffer = <<>> /\ need = 0 /\ received = <<>>
  /\ outPipe = <<>> /\ inPipe = <<>>
  /\ remoteOut = <<>> /\ remoteSent = 0 /\ remoteDeleted = 0
  /\ remoteFlag = 0 /\ remoteLeft = 0 /\ remoteGot = <<>> /\ remoteInStep = TRUE

(* LOG_FATAL throws: the stream is left as it is. *)
Fatal == op' = "fatal" /\ UNCHANGED <<autoFlush, writeBuffer, flushStart, pending>>

AdditionalFirst(additional) ==
  \/ /\ writeBuffer = <<>>
     /\ UNCHANGED <<op, writeBuffer, flushStart, pending>>
  \/ /\ writeBuffer # <<>>
     /\ flushStart = 0
     /\ op' = "flush"
     /\ pending' = Frame(additional \o writeBuffer)
     /\ writeBuffer' = <<>>
     /\ UNCHANGED flushStart

(* flushWriteBuffer(additional): an empty buffer returns at once, whatever
   `additional` holds.  d_writeBufferPosition is cleared half way through the
   writes; nothing looks at it before they end, so it is cleared here. *)
FlushWriteBuffer(additional) ==
  \/ /\ writeBuffer = <<>>
     /\ UNCHANGED <<op, writeBuffer, flushStart, pending>>
  \/ /\ writeBuffer # <<>>
     /\ flushStart = 0
     /\ op' = "flush"
     /\ pending' = Frame(writeBuffer \o additional)
     /\ writeBuffer' = <<>>
     /\ UNCHANGED flushStart

(* A flush has begun and is not complete: its frame must not change. *)
NeverForbidden == FALSE
WriteForbidden == flushStart # 0

(* Stream::write in buffered mode. *)
Write ==
  /\ op = "idle"
  /\ \E size \in WriteSizes :
       LET bytes == Fresh(written, size)
           fits  == ~autoFlush \/ size < BufferSize - Len(writeBuffer)
       IN  /\ written + size <= MaxWritten
           /\ \/ WriteForbidden /\ Fatal /\ UNCHANGED written
              \/ /\ ~WriteForbidden
                 /\ fits
                 /\ writeBuffer' = writeBuffer \o bytes
                 /\ written' = written + size
                 /\ UNCHANGED <<op, autoFlush, flushStart, pending>>
              \/ /\ ~WriteForbidden
                 /\ ~fits
                 /\ FlushWriteBuffer(bytes)
                 /\ written' = written + size
                 /\ UNCHANGED autoFlush
  /\ UNCHANGED <<multiplexed, outPipe, reading, sender, parser>>

(* A call of flushWriteBuffer() by the client. *)
Flush ==
  /\ op = "idle"
  /\ writeBuffer # <<>>
  /\ \/ flushStart # 0 /\ Fatal
     \/ FlushWriteBuffer(<<>>) /\ UNCHANGED autoFlush
  /\ UNCHANGED <<multiplexed, written, outPipe, reading, sender, parser>>

DisableAutomaticFlush ==
  /\ op = "idle"
  /\ autoFlush
  /\ \/ writeBuffer # <<>> /\ flushStart # 0 /\ Fatal
     \/ FlushWriteBuffer(<<>>) /\ autoFlush' = FALSE
  /\ UNCHANGED <<multiplexed, written, outPipe, reading, sender, parser>>

(* d_flushStart counts the flag as well as the buffer. *)
FlagNotCounted(start) == start >= Len(writeBuffer)
FlushDone(start) == start >= Len(writeBuffer) + flagLength

(* One io->write of tryFlushWriteBuffer: the rest of the flag, or else the
   rest of the buffer, as far as the channel takes it. *)
TryFlushWriteBuffer ==
  LET wire    == Frame(writeBuffer)
      segment == IF flushStart < flagLength THEN flagLength ELSE Len(wire)
  IN  /\ op = "idle"
      /\ writeBuffer # <<>>
      /\ \E n \in 1 .. segment - flushStart :
           /\ Len(outPipe) + n <= PipeCapacity
           /\ outPipe' = outPipe \o SubSeq(wire, flushStart + 1, flushStart + n)
           /\ IF FlushDone(flushStart + n)
                THEN writeBuffer' = <<>> /\ flushStart' = 0
                ELSE flushStart' = flushStart + n /\ UNCHANGED writeBuffer
      /\ UNCHANGED <<op, multiplexed, autoFlush, pending, written, reading, sender, parser>>
-----------------------------------------------------------------------------
(* readMessageFlag and readMessageContent once there is something to read:
   the flag is read to its end, then the text of a message that is not data. *)
MidMessage == flagRead > 0 \/ messageFlag # "none"

LostWhileBlocked(kind) ==
  /\ messageFlag' = "none"
  /\ messageLeft' = 0
  /\ deletedFiles' = IF kind = "deleted" /\ op # "flush" THEN deletedFiles + 1 ELSE deletedFiles
  /\ op' = IF kind = "error" THEN "fatal" ELSE IF op = "poll" THEN "idle" ELSE op

(* A message has been read: errors and warnings throw; isDataAvailable and
   writeAll go on after one message, read does not. *)
EndMessage(kind) ==
  /\ messageFlag' = "none"
  /\ messageLeft' = 0
  /\ deletedFiles' = IF kind = "deleted" THEN deletedFiles + 1 ELSE deletedFiles
  /\ op' = IF kind = "error" THEN "fatal" ELSE IF op = "poll" THEN "idle" ELSE op

FlagComplete(kind, length) ==
  \/ /\ kind = "data"
     /\ readDataLength' = length
     /\ EndMessage(kind)
  \/ /\ kind # "data" /\ length = 0
     /\ EndMessage(kind)
     /\ UNCHANGED readDataLength
  \/ /\ kind # "data" /\ length > 0
     /\ messageFlag' = kind
     /\ messageLeft' = length
     /\ UNCHANGED <<op, deletedFiles, readDataLength>>

ReadFlag ==
  \E n \in 1 .. FlagLength - flagRead :
    /\ n <= Len(inPipe)
    /\ inPipe' = Drop(inPipe, n)
    /\ \/ /\ flagRead + n < FlagLength
          /\ flagRead' = flagRead + n
          /\ UNCHANGED <<op, messageFlag, messageLeft, deletedFiles, readDataLength>>
       \/ /\ flagRead + n = FlagLength
          /\ flagRead' = 0
          /\ FlagComplete(inPipe[n].kind, inPipe[n].length)
    /\ UNCHANGED <<readBuffer, need, received>>

ReadText ==
  /\ messageLeft > 0
  /\ \E n \in 1 .. messageLeft :
       /\ n <= Len(inPipe)
       /\ inPipe' = Drop(inPipe, n)
       /\ \/ n = messageLeft /\ EndMessage(messageFlag)
          \/ /\ n < messageLeft
             /\ messageLeft' = messageLeft - n
             /\ UNCHANGED <<op, messageFlag, deletedFiles>>
  /\ UNCHANGED <<flagRead, readDataLength, readBuffer, need, received>>

(* readAll of a flag or of a message, in whatever call it is part of. *)
ReadMessage ==
  /\ MidMessage
  /\ (flagRead > 0 /\ ReadFlag) \/ ReadText
  /\ UNCHANGED <<multiplexed, writing, sender, parser>>

(* isDataAvailable: with no chunk open and nothing to read it changes nothing. *)
IsDataAvailable ==
  /\ op = "idle"
  /\ readDataLength = 0
  /\ inPipe # <<>>
  /\ op' = "poll"
  /\ UNCHANGED <<multiplexed, writing, reading, sender, parser>>

(* readMessageFlag while a chunk is open, called by a blocked writeAll: the
   rest of the chunk is put aside in the read buffer. *)
StashChunk ==
  /\ readDataLength > 0
  /\ \E n \in 1 .. readDataLength :
       /\ n <= Len(inPipe)
       /\ readBuffer' = readBuffer \o DataOf(Take(inPipe, n))
       /\ inPipe' = Drop(inPipe, n)
       /\ readDataLength' = readDataLength - n
  /\ UNCHANGED <<op, message, need, received>>

(* writeAll, one io->write that moved something. *)
WriteAll ==
  /\ op = "flush"
  /\ ~MidMessage
  /\ \E n \in 1 .. Len(pending) :
       /\ Len(outPipe) + n <= PipeCapacity
       /\ outPipe' = outPipe \o Take(pending, n)
       /\ pending' = Drop(pending, n)
       /\ op' = IF n = Len(pending) THEN "idle" ELSE op
  /\ UNCHANGED <<multiplexed, autoFlush, writeBuffer, flushStart, written, reading, sender, parser>>

WaitForWritable ==
  /\ op = "flush"
  /\ ~MidMessage
  /\ Len(outPipe) = PipeCapacity
  /\ UNCHANGED vars

(* writeAll, the channel took nothing: look for something to read instead. *)
WriteAllBlocked ==
  /\ op = "flush"
  /\ ~MidMessage
  /\ Len(outPipe) = PipeCapacity
  /\ StashChunk \/ (readDataLength = 0 /\ ReadFlag)
  /\ UNCHANGED <<multiplexed, writing, sender, parser>>

(* isDataAvailable, its readMessageFlag. *)
Poll ==
  /\ op = "poll"
  /\ ~MidMessage
  /\ ReadFlag
  /\ UNCHANGED <<multiplexed, writing, sender, parser>>

(* How much of a read() of `size` bytes the read buffer satisfies. *)
NoneBuffered(size) == 0
FromReadBuffer(size) == IF size < Len(readBuffer) THEN size ELSE Len(readBuffer)

(* Stream::read, first from what a blocked write put aside. *)
Read ==
  /\ op = "idle"
  /\ \E size \in ReadSizes :
       /\ Len(received) + size <= MaxSent
       /\ LET k == FromReadBuffer(size)
          IN  /\ received' = received \o Take(readBuffer, k)
              /\ readBuffer' = Drop(readBuffer, k)
              /\ need' = size - k
              /\ op' = IF k = size THEN "idle" ELSE "read"
  /\ UNCHANGED <<message, readDataLength, inPipe>>
  /\ UNCHANGED <<multiplexed, writing, sender, parser>>

(* Then from the channel, never past the end of the chunk. *)
WithinChunk(n) == n <= readDataLength

ReadChunk ==
  /\ op = "read"
  /\ ~MidMessage
  /\ \/ readDataLength = 0 /\ ReadFlag
     \/ /\ readDataLength > 0
        /\ \E n \in 1 .. need :
             /\ WithinChunk(n)
             /\ n <= Len(inPipe)
             /\ received' = received \o DataOf(Take(inPipe, n))
             /\ inPipe' = Drop(inPipe, n)
             /\ readDataLength' = readDataLength - n
             /\ need' = need - n
             /\ op' = IF n = need THEN "idle" ELSE op
        /\ UNCHANGED <<message, readBuffer>>
  /\ UNCHANGED <<multiplexed, writing, sender, parser>>
-----------------------------------------------------------------------------
(* The remote side starts a message once the last one is on its way. *)
RemoteSend ==
  /\ remoteOut = <<>>
  /\ \E m \in Messages :
       LET kind == m[1]
           length == m[2]
       IN  \/ /\ kind = "data"
              /\ remoteSent + length <= MaxSent
              /\ remoteOut' = Flag(kind, length) \o Data(Fresh(remoteSent, length))
              /\ remoteSent' = remoteSent + length
              /\ UNCHANGED remoteDeleted
           \/ /\ kind # "data"
              /\ remoteSent < MaxSent
              /\ kind = "deleted" => remoteDeleted < MaxDeleted
              /\ remoteOut' = Flag(kind, length) \o Text(length)
              /\ remoteDeleted' = IF kind = "deleted" THEN remoteDeleted + 1 ELSE remoteDeleted
              /\ UNCHANGED remoteSent
  /\ UNCHANGED <<op, multiplexed, writing, reading, parser>>

RemoteWrite ==
  /\ \E n \in 1 .. Len(remoteOut) :
       /\ Len(inPipe) + n <= PipeCapacity
       /\ inPipe' = inPipe \o Take(remoteOut, n)
       /\ remoteOut' = Drop(remoteOut, n)
  /\ UNCHANGED <<op, multiplexed, writing, remoteSent, remoteDeleted, parser>>
  /\ UNCHANGED <<message, readDataLength, readBuffer, need, received>>

(* The remote side takes frames apart: a flag, then as many data bytes as the
   flag announced; without multiplexing there are data bytes only. *)
RemoteRead ==
  /\ remoteOut = <<>>
  /\ outPipe # <<>>
  /\ remoteInStep
  /\ LET b == Head(outPipe)
         expectsFlag == multiplexed /\ remoteLeft = 0
     IN  \/ /\ expectsFlag /\ b.type = "flag" /\ b.at = remoteFlag + 1
            /\ remoteFlag' = b.at % FlagLength
            /\ remoteLeft' = IF b.at = FlagLength THEN b.length ELSE 0
            /\ UNCHANGED <<remoteGot, remoteInStep>>
         \/ /\ ~expectsFlag /\ b.type = "data"
            /\ remoteGot' = Append(remoteGot, b.byte)
            /\ remoteLeft' = IF multiplexed THEN remoteLeft - 1 ELSE 0
            /\ UNCHANGED <<remoteFlag, remoteInStep>>
         \/ /\ IF expectsFlag THEN b.type # "flag" \/ b.at # remoteFlag + 1
                              ELSE b.type # "data"
            /\ remoteInStep' = FALSE
            /\ UNCHANGED <<remoteFlag, remoteLeft, remoteGot>>
  /\ outPipe' = Tail(outPipe)
  /\ UNCHANGED <<op, multiplexed, reading, sender>>
  /\ UNCHANGED <<autoFlush, writeBuffer, flushStart, pending, written>>
-----------------------------------------------------------------------------
Client == Write \/ Flush \/ DisableAutomaticFlush \/ TryFlushWriteBuffer
            \/ Read \/ IsDataAvailable

(* The steps of a call that has begun: the thread does nothing else. *)
Thread == WriteAll \/ WriteAllBlocked \/ Poll \/ ReadMessage \/ ReadChunk

Remote == RemoteSend \/ RemoteWrite \/ RemoteRead

Next == Client \/ Thread \/ Remote

Spec == Init /\ [][Next]_vars

(* A call that has begun is carried on; the remote side carries on what it has
   begun to write, and between its messages it reads again and again. *)
FairSpec == Spec /\ WF_vars(Thread) /\ WF_vars(RemoteWrite) /\ SF_vars(RemoteRead)
-----------------------------------------------------------------------------
(* The bytes of the write buffer that are not on the wire yet. *)
Unflushed == Drop(writeBuffer, IF flushStart > flagLength THEN flushStart - flagLength ELSE 0)

(* No byte passed to write() is lost, repeated or reordered: what the remote
   side took, what is on its way and what waits in the write buffer are, in
   this order, everything the client wrote.  (write, flushWriteBuffer,
   tryFlushWriteBuffer and writeAll between them.) *)
OutFIFO ==
  remoteGot \o DataOf(outPipe) \o DataOf(pending) \o Unflushed = Fresh(0, written)

(* The flags of deletion messages a pipe holds the last byte of. *)
Deletion(b) == b.type = "flag" /\ b.kind = "deleted" /\ b.at = FlagLength
DeletionsOf(wire) == Cardinality({k \in DOMAIN wire : Deletion(wire[k])})

(* Every deletion the remote side reports reaches d_deletedFiles once, even
   one that arrives in the middle of a blocked write or of read(). *)
DeletionsRecorded ==
  deletedFiles + (IF messageFlag = "deleted" THEN 1 ELSE 0)
    + DeletionsOf(inPipe) + DeletionsOf(remoteOut) = remoteDeleted

(* The header of a frame announces exactly the bytes that follow it, however
   often tryFlushWriteBuffer was interrupted and whatever the client called
   in between: the remote side never takes a header for data or the reverse. *)
FrameIntegrity == remoteInStep

(* Once a flush has put a byte on the wire, the buffer it announced does not
   change until the flush is complete, and then it is empty. *)
FlushFreezesBuffer ==
  [][flushStart # 0 =>
       \/ writeBuffer' = writeBuffer /\ flushStart' >= flushStart
       \/ writeBuffer' = <<>> /\ flushStart' = 0]_vars

(* A blocking flush ends although the remote side may be blocked on a write
   of its own: writeAll takes the input off the pipe while it cannot write. *)
FlushCompletes == (op = "flush") ~> (op # "flush")

(* Stream is a byte channel from write() to the remote side ... *)
Outbound == INSTANCE ByteChannel WITH accepted <- written, delivered <- remoteGot
OutboundChannel == Outbound!Spec

(* ... and one from the remote side to read(). *)
Inbound == INSTANCE ByteChannel WITH accepted <- remoteSent, delivered <- received
InboundChannel == Inbound!Spec
=============================================================================
