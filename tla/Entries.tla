------------------------------- MODULE Entries -------------------------------
(***************************************************************************)
(* The file list and the indices that follow it on the wire:               *)
(* Client::sendEntry and receiveEntry, Client::writeIndex and readIndex    *)
(* (rsync/rsync_client.cpp), with the integers of Encoding.                *)
(*                                                                         *)
(* An entry says only what is different from the entry before, and an      *)
(* index what it adds to the index before, so both ends keep what went     *)
(* last and stay in step as long as each reads what the other has written. *)
(* In a session the client is one end and a remote rsync that follows the  *)
(* same protocol the other; here it is both.                               *)
(***************************************************************************)
EXTENDS Encoding

CONSTANTS
  Protocols,     \* of 29 and 30, those that may be negotiated
  EntryPaths,    \* sequences of bytes, shorter than what an int holds
  Sizes, Times,  \* integers of 64 bits
  Modes,         \* integers of 32 bits
  Links,         \* the modes of symbolic links
  Targets,       \* what a symbolic link may contain
  Indices,       \* indices into the file list, and the special ones
  MaxByte,       \* 255 for a prefix or a length of one byte
  MaxUnderWay    \* bound: how many things are written ahead of the reader

(* What the int of a length holds. *)
IntMax == 2147483647

ASSUME EntriesAssumption ==
  /\ Protocols \subseteq {29, 30}
  /\ \A s \in EntryPaths \cup Targets : s \in Seq(Byte) /\ Len(s) < IntMax
  /\ Sizes \subseteq Bytes(8) /\ Times \subseteq Bytes(8)
  /\ Modes \subseteq Int /\ Links \subseteq Modes
  /\ Indices \subseteq -(2 ^ 30) .. 2 ^ 30
  /\ MaxByte \in 1 .. 255
  /\ MaxUnderWay \in Nat \ {0}

VARIABLES
  protocol,      \* d_protocol
  listing,       \* whether entries are being sent, rather than indices
  writer,        \* d_lastEntryPath, d_lastEntryMode, d_lastEntryTime and the
                 \* last indices written
  reader,        \* the same for what has been read
  wire,
  underWay       \* what was written and has not been read

entriesVars == <<protocol, listing, writer, reader, wire, underWay>>

-----------------------------------------------------------------------------
End == [kind |-> "end"]
Failed == [kind |-> "failed"]
Zero == [k \in 1 .. 8 |-> 0]

EntriesToSend ==
  [kind : {"entry"}, path : EntryPaths, size : Sizes, time : Times,
   mode : Modes \ Links, link : {<<>>}]
    \cup [kind : {"entry"}, path : EntryPaths, size : Sizes, time : Times,
          mode : Links, link : Targets]

EntriesInit ==
  /\ protocol \in Protocols
  /\ listing = TRUE
  /\ writer = [path |-> <<>>, mode |-> 0, time |-> Zero, positive |-> -1, negative |-> 1]
  /\ reader = writer
  /\ wire = <<>> /\ underWay = <<>>

BytesOf(number) ==
  <<number % 256, (number \div 256) % 256, (number \div 65536) % 256, number \div 16777216>>
NumberOf(v) == v[1] + v[2] * 256 + v[3] * 65536 + v[4] * 16777216

(* A length, in four bytes or in as many as it takes. *)
WriteLength(length) ==
  IF protocol < 30 THEN BytesOf(length) ELSE WriteVariableInt32(BytesOf(length))

ReadLength(from) ==
  IF protocol < 30 THEN ReadBytes(from, 4) ELSE ReadVariableInt32(from)

WriteSize(size) == IF protocol < 30 THEN WriteInt64(size) ELSE WriteVariableInt64(size, 3)

ReadSize(from) == IF protocol < 30 THEN ReadInt64(from) ELSE ReadVariableInt64(from, 3)

(* In protocol 29 a time is written as 64 bits and read as 32. *)
WriteTime(time) == IF protocol < 30 THEN WriteInt64(time) ELSE WriteVariableInt64(time, 4)

ReadTime(from) ==
  IF protocol < 30 THEN Read(Extended(SubSeq(from, 1, 4)), Drop(from, 4))
                   ELSE ReadVariableInt64(from, 4)

-----------------------------------------------------------------------------
(* How much of a path is the same as the last one, as far as a byte can say. *)
CommonPrefix(path, last) ==
  CHOOSE k \in 0 .. Len(path) :
    /\ k <= Len(last) /\ k <= MaxByte
    /\ \A j \in 1 .. k : path[j] = last[j]
    /\ k < Len(path) /\ k < Len(last) /\ k < MaxByte => path[k + 1] # last[k + 1]

(* The transfer flags are one unit of the wire.  SAME_UID and SAME_GID are
   always set, so they are never the zero that ends the list. *)
Flags(e, last) ==
  {"SAME_UID", "SAME_GID"}
    \cup (IF e.time = last.time THEN {"SAME_TIME"} ELSE {})
    \cup (IF e.mode = last.mode THEN {"SAME_MODE"} ELSE {})
    \cup (IF CommonPrefix(e.path, last.path) > 0 THEN {"SAME_NAME"} ELSE {})
    \cup (IF Len(e.path) - CommonPrefix(e.path, last.path) > MaxByte THEN {"LONG_NAME"} ELSE {})

(* writeUInt8 *)
AsByte(k) == k % (MaxByte + 1)

EntryOnWire(e, last) ==
  LET flags == Flags(e, last)
      l1 == CommonPrefix(e.path, last.path)
      l2 == Len(e.path) - l1
  IN  <<flags>>
        \o (IF "SAME_NAME" \in flags THEN <<AsByte(l1)>> ELSE <<>>)
        \o (IF "LONG_NAME" \in flags THEN WriteLength(l2) ELSE <<AsByte(l2)>>)
        \o Drop(e.path, l1)
        \o WriteSize(e.size)
        \o (IF "SAME_TIME" \in flags THEN <<>> ELSE WriteTime(e.time))
        \o (IF "SAME_MODE" \in flags THEN <<>> ELSE <<e.mode>>)
        \o (IF e.mode \in Links THEN WriteLength(Len(e.link)) \o e.link ELSE <<>>)

Written(item, bytes) ==
  /\ Len(underWay) < MaxUnderWay
  /\ wire' = wire \o bytes
  /\ underWay' = Append(underWay, item)
  /\ UNCHANGED <<protocol, reader>>

ForgetTime(last, e) == [last EXCEPT !.path = e.path, !.mode = e.mode]
RememberEntry(last, e) == [last EXCEPT !.path = e.path, !.mode = e.mode, !.time = e.time]

SendEntry ==
  /\ listing
  /\ \E e \in EntriesToSend :
       /\ Written(e, EntryOnWire(e, writer))
       /\ writer' = RememberEntry(writer, e)
  /\ UNCHANGED listing

(* After the last entry: a zero in the place of the flags. *)
EndList ==
  /\ listing
  /\ listing' = FALSE
  /\ Written(End, <<{}>>)
  /\ UNCHANGED writer

WriteIndexAction ==
  /\ ~listing
  /\ \E index \in Indices :
       /\ Written([kind |-> "index", index |-> index],
                  IF protocol < 30 THEN <<index>> ELSE WriteIndex(index, writer))
       /\ writer' = IF protocol < 30 THEN writer ELSE After(writer, index)
  /\ UNCHANGED listing
-----------------------------------------------------------------------------
(* The prefix of an entry that says nothing of one. *)
NothingSame == <<0>>

(* What receiveEntry makes of the wire: the entry and the rest, or no entry. *)
EntryFromWire ==
  LET flags == wire[1]
      l1    == IF "SAME_NAME" \in flags THEN ReadBytes(Drop(wire, 1), 1) ELSE Read(NothingSame, Drop(wire, 1))
      l2    == IF "LONG_NAME" \in flags THEN ReadLength(l1.rest) ELSE ReadBytes(l1.rest, 1)
      count == IF "LONG_NAME" \in flags THEN NumberOf(l2.value) ELSE l2.value[1]
      name  == ReadBytes(l2.rest, count)
      size  == ReadSize(name.rest)
      time  == IF "SAME_TIME" \in flags THEN Read(reader.time, size.rest) ELSE ReadTime(size.rest)
      mode  == IF "SAME_MODE" \in flags THEN Read(<<reader.mode>>, time.rest) ELSE ReadBytes(time.rest, 1)
      isLink == mode.value[1] \in Links
      length == IF isLink THEN ReadLength(mode.rest) ELSE Read(BytesOf(0), mode.rest)
      link  == ReadBytes(length.rest, NumberOf(length.value))
  IN  IF l2.ok /\ size.ok /\ time.ok /\ length.ok
        THEN Read([kind |-> "entry", path |-> SubSeq(reader.path, 1, l1.value[1]) \o name.value,
                   size |-> size.value, time |-> time.value, mode |-> mode.value[1],
                   link |-> link.value],
                  link.rest)
        ELSE Read(Failed, wire)

(* readIndex, as a thing that is read. *)
IndexFromWire ==
  LET read == IF protocol < 30 THEN Read(wire[1], Drop(wire, 1)) ELSE ReadIndex(wire, reader)
  IN  Read([kind |-> "index", index |-> read.value], read.rest)

(* Each end knows from the protocol what it reads next. *)
FromWire ==
  IF Head(underWay).kind = "index" THEN IndexFromWire
  ELSE IF Head(wire) = {} THEN Read(End, Tail(wire))
  ELSE EntryFromWire

IsRead(kind) ==
  /\ underWay # <<>>
  /\ FromWire.value.kind = kind
  /\ wire' = FromWire.rest
  /\ underWay' = Tail(underWay)
  /\ UNCHANGED <<protocol, listing, writer>>

ReceiveEntry ==
  /\ IsRead("entry")
  /\ LET e == FromWire.value
     IN  reader' = [reader EXCEPT !.path = e.path, !.mode = e.mode, !.time = e.time]

ReceiveEnd == IsRead("end") /\ UNCHANGED reader

ReadIndexAction ==
  /\ IsRead("index")
  /\ reader' = IF protocol < 30 THEN reader ELSE After(reader, FromWire.value.index)
-----------------------------------------------------------------------------
EntriesNext ==
  \/ SendEntry \/ EndList \/ WriteIndexAction
  \/ ReceiveEntry \/ ReceiveEnd \/ ReadIndexAction

EntriesSpec == EntriesInit /\ [][EntriesNext]_entriesVars
-----------------------------------------------------------------------------
(* What is read next is what was written first and not read: every entry, end
   of list and index, as sendEntry and writeIndex wrote it and receiveEntry and
   readIndex read it, relative to what each of them remembers. *)
ReadIsWritten == underWay # <<>> => FromWire.value = Head(underWay)

(* Once everything has been read the wire is empty and both ends remember the
   same last entry and the same last indices, so the next thing written, which
   says only what is different from them, will be understood. *)
EndsInStep == underWay = <<>> => wire = <<>> /\ reader = writer
=============================================================================
