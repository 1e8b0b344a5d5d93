------------------------------- MODULE Client -------------------------------
(***************************************************************************)
(* The life of an IO, and of the Clients that use it one after the other:   *)
(* each operation begins with Client::start (rsync/rsync_client.cpp), which  *)
(* resets the stream and creates a channel, and ends well or with an         *)
(* exception, from whatever it was doing.  Nothing is cleaned up then.       *)
(*                                                                         *)
(* What an operation does is the matter of Session, Download and Stream;     *)
(* here it writes indices, flushes and reads.  A write or an answer is known *)
(* by the session it belongs to.                                             *)
(***************************************************************************)
EXTENDS Connection

CONSTANTS
  PreferredProtocol, \* of the client
  SSHVersions, DaemonVersions,  \* of the remote sides
  MaxSessions,       \* bound: operations
  MaxWrites          \* bound: indices written by one

ASSUME ClientAssumption ==
  /\ PreferredProtocol \in {29, 30}
  /\ SSHVersions \subseteq Nat /\ DaemonVersions \subseteq Nat
  /\ MaxSessions \in Nat /\ MaxWrites \in Nat

VARIABLES
  protocol,     \* d_protocol
  isReadBuffered, isWriteBuffered, isWriteMultiplexed,
  automaticFlush,
  flushStart,   \* what tryFlushWriteBuffer has written, in writes
  writeBuffer,  \* writes before d_writeBufferPosition
  readBuffer,   \* answers between d_readBufferPosition and d_readBufferEnd
  lastIndexWritten,  \* d_lastPositiveIndexWritten
  number,       \* of the session
  wire,         \* what was written to the session's channel
  heard,        \* the session whose answer was read last
  remoteProtocol     \* what the remote side uses

modes == <<isReadBuffered, isWriteBuffered, isWriteMultiplexed, automaticFlush>>
buffers == <<flushStart, writeBuffer, readBuffer, lastIndexWritten>>
channelVars == <<number, wire, heard, remoteProtocol>>
clientVars == <<protocol, modes, buffers, channelVars>>
vars == <<connectionVars, clientVars>>

InSession == step \in {"version", "seed", "body"}
-----------------------------------------------------------------------------
(* Stream::reset; the constructor's values are the same. *)
ResetUnflushed ==
  /\ isReadBuffered' = FALSE /\ isWriteBuffered' = FALSE /\ isWriteMultiplexed' = FALSE
  /\ automaticFlush' = TRUE
  /\ flushStart' = 0 /\ readBuffer' = <<>> /\ lastIndexWritten' = -1
  /\ UNCHANGED writeBuffer

Reset ==
  /\ isReadBuffered' = FALSE /\ isWriteBuffered' = FALSE /\ isWriteMultiplexed' = FALSE
  /\ automaticFlush' = TRUE
  /\ flushStart' = 0 /\ writeBuffer' = <<>> /\ readBuffer' = <<>>
  /\ lastIndexWritten' = -1

Init ==
  /\ ConnectionInit
  /\ protocol = PreferredProtocol
  /\ isReadBuffered = FALSE /\ isWriteBuffered = FALSE /\ isWriteMultiplexed = FALSE
  /\ automaticFlush = TRUE
  /\ flushStart = 0 /\ writeBuffer = <<>> /\ readBuffer = <<>> /\ lastIndexWritten = -1
  /\ number = 0 /\ wire = <<>> /\ heard = 0 /\ remoteProtocol = 0

(* The application lets go of the client and takes another one for its IO. *)
NewClient ==
  /\ step = "idle" /\ number > 0
  /\ Reset /\ protocol' = PreferredProtocol
  /\ UNCHANGED <<connectionVars, channelVars>>

(* Client::start or listModules, up to where the channel is asked for.  The
   application has asked isConnected() of an SSHIO, which is true from the
   moment there is a session. *)
Start ==
  /\ number < MaxSessions
  /\ Reset
  /\ CreateChannel
  /\ number' = number + 1 /\ wire' = <<>>
  /\ UNCHANGED <<protocol, heard, remoteProtocol>>
-----------------------------------------------------------------------------
Write(base) == [session |-> number, base |-> base]
OnWire(writes, framed) ==
  [k \in DOMAIN writes |-> [session |-> writes[k].session, base |-> writes[k].base, framed |-> framed]]

(* Stream::read: the rest of a chunk may be put aside in the read buffer. *)
Hears ==
  IF isReadBuffered /\ readBuffer # <<>>
    THEN heard' = Head(readBuffer) /\ readBuffer' = Tail(readBuffer)
    ELSE /\ heard' = number
         /\ IF isReadBuffered THEN readBuffer' \in {<<>>, <<number>>} ELSE UNCHANGED readBuffer

(* The client's version, for an ssh channel by Stream::write and for a daemon
   by writeLine, which never buffers. *)
WriteVersion ==
  /\ step = "running" /\ step' = "version"
  /\ IF usingSSH /\ isWriteBuffered
       THEN writeBuffer' = Append(writeBuffer, Write(0)) /\ UNCHANGED wire
       ELSE wire' = OnWire(<<Write(0)>>, FALSE) /\ UNCHANGED writeBuffer
  /\ UNCHANGED <<usingSSH, fds, io, request, protocol, modes, flushStart, readBuffer,
                 lastIndexWritten, number, heard, remoteProtocol>>

Lower(p, q) == IF p < q THEN p ELSE q

Negotiated(version) == IF usingSSH THEN Lower(version, protocol) ELSE Lower(version, 30)

ReadVersion ==
  /\ step = "version" /\ servers[server] = "up"
  /\ Hears
  /\ \E version \in IF usingSSH THEN SSHVersions ELSE DaemonVersions :
       /\ protocol' = Negotiated(version)
       /\ remoteProtocol' = Lower(version, protocol)
  /\ step' = IF protocol' \in {29, 30} THEN "seed" ELSE "idle"
  /\ UNCHANGED <<usingSSH, fds, io, request, modes, flushStart, writeBuffer,
                 lastIndexWritten, number, wire>>

(* d_checksumSeed, and the modes of the stream from then on. *)
ReadSeed ==
  /\ step = "seed" /\ step' = "body"
  /\ Hears
  /\ isReadBuffered' = TRUE /\ isWriteBuffered' = TRUE
  /\ isWriteMultiplexed' = (isWriteMultiplexed \/ protocol >= 30)
  /\ UNCHANGED <<usingSSH, fds, io, request, protocol, automaticFlush, flushStart,
                 writeBuffer, lastIndexWritten, number, wire, remoteProtocol>>
-----------------------------------------------------------------------------
(* In the middle of an operation.  Under protocol 29 an index is told as it is. *)
WriteIndex ==
  /\ flushStart = 0 /\ Len(wire) + Len(writeBuffer) <= MaxWrites
  /\ writeBuffer' = Append(writeBuffer, Write(lastIndexWritten))
  /\ lastIndexWritten' = IF protocol < 30 THEN lastIndexWritten ELSE lastIndexWritten + 1
  /\ UNCHANGED <<modes, flushStart, readBuffer, wire, heard>>

FlushWriteBuffer ==
  /\ flushStart = 0
  /\ wire' = wire \o OnWire(writeBuffer, isWriteMultiplexed)
  /\ writeBuffer' = <<>>
  /\ UNCHANGED <<isReadBuffered, isWriteBuffered, isWriteMultiplexed, flushStart,
                 readBuffer, lastIndexWritten, heard>>

Flush == FlushWriteBuffer /\ UNCHANGED automaticFlush
DisableAutomaticFlush == FlushWriteBuffer /\ automaticFlush' = FALSE

TryFlush ==
  /\ ~automaticFlush /\ writeBuffer # <<>>
  /\ wire' = Append(wire, OnWire(writeBuffer, isWriteMultiplexed)[flushStart + 1])
  /\ IF flushStart + 1 = Len(writeBuffer)
       THEN flushStart' = 0 /\ writeBuffer' = <<>>
       ELSE flushStart' = flushStart + 1 /\ UNCHANGED writeBuffer
  /\ UNCHANGED <<modes, readBuffer, lastIndexWritten, heard>>

Read ==
  /\ Hears
  /\ UNCHANGED <<modes, flushStart, writeBuffer, lastIndexWritten, wire>>

Body ==
  /\ step = "body"
  /\ WriteIndex \/ Flush \/ DisableAutomaticFlush \/ TryFlush \/ Read
  /\ UNCHANGED <<connectionVars, protocol, number, remoteProtocol>>

(* The operation returns, or an exception leaves it: the channel is closed only
   if it was the signal that ended the remote program (isClosed).  stop() is
   never called. *)
Ends ==
  /\ step \in {"running", "version", "seed", "body"} /\ step' = "idle"
  /\ channel' \in {channel, "none"}
  /\ UNCHANGED <<usingSSH, fds, socket, session, blocking, request, clientVars>>
-----------------------------------------------------------------------------
Next ==
  \/ (ConnectionStep \/ OtherOpens \/ OtherCloses) /\ UNCHANGED clientVars
  \/ NewClient \/ Start
  \/ WriteVersion \/ ReadVersion \/ ReadSeed \/ Body \/ Ends

Spec == Init /\ [][Next]_vars
-----------------------------------------------------------------------------
(* A session is as if it were the first.  What arrives at the remote side was
   written in this session: the version first, unframed and at once, then, in
   frames if its protocol has them, indices told from those before them in this
   session.  And what the client has read was written in it too.  Whatever an
   earlier operation left in the buffers, half flushed or unread, is gone. *)
SessionsAreSeparate ==
  InSession =>
    /\ Len(wire) > 0
    /\ \A k \in DOMAIN wire :
         /\ wire[k].session = number
         /\ wire[k].framed = (k > 1 /\ remoteProtocol >= 30)
         /\ wire[k].framed => wire[k].base = k - 3
    /\ step # "version" => heard = number
=============================================================================
