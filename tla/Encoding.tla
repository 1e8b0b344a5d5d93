------------------------------ MODULE Encoding ------------------------------
(***************************************************************************)
(* How rsync/rsync_stream.cpp writes integers and indices.  An integer is  *)
(* the sequence of its bytes in memory, the least significant one first;   *)
(* an index is a number.  A writer is the sequence of bytes it writes; a   *)
(* reader takes what is on the wire and returns the value it reads and the *)
(* rest of the wire, or fails.                                             *)
(***************************************************************************)
EXTENDS Integers, Sequences

Byte == 0 .. 255
Bytes(width) == [1 .. width -> Byte]

Drop(s, k) == SubSeq(s, k + 1, Len(s))

Read(value, rest) == [ok |-> TRUE, value |-> value, rest |-> rest]

(* A reader waits for a byte that has not come; here it finds a zero. *)
At(wire, k) == IF k <= Len(wire) THEN wire[k] ELSE 0

(* Stream::read of a fixed number of bytes. *)
ReadBytes(wire, size) == Read([k \in 1 .. size |-> At(wire, k)], Drop(wire, size))

(* A byte that begins with e ones, and the room behind them. *)
Ones == [e \in 0 .. 7 |-> <<0, 128, 192, 224, 240, 248, 252, 254>>[e + 1]]
Room(e) == 256 - Ones[e]

(* getVariableLength: the number of ones a byte begins with, six at most. *)
VariableLength(c) ==
  CHOOSE e \in 0 .. 6 : c >= Ones[e] /\ (e < 6 => c < Ones[e + 1])

(* The bytes of v that count: `least` of them, or all up to the last that is
   not zero. *)
Significant(v, least) ==
  CHOOSE k \in least .. Len(v) :
    /\ \A j \in k + 1 .. Len(v) : v[j] = 0
    /\ k > least => v[k] # 0

PackTight(v, least) ==
  LET k == Significant(v, least)
      e == k - least
  IN  IF v[k] > Room(e + 1)
        THEN <<Ones[e + 1]>> \o SubSeq(v, 1, k)
        ELSE <<Ones[e] + v[k]>> \o SubSeq(v, 1, k - 1)

(* A variable-length integer: its first byte begins with as many ones as there
   are bytes beyond the least number, and then holds the last significant byte
   if there is room for it. *)
Pack(v, least) ==
  LET k == Significant(v, least)
      e == k - least
  IN  IF v[k] >= Room(e + 1)
        THEN <<Ones[e + 1]>> \o SubSeq(v, 1, k)
        ELSE <<Ones[e] + v[k]>> \o SubSeq(v, 1, k - 1)

Unpack(wire, least, width) ==
  LET e == VariableLength(wire[1])
  IN  IF e + least > width + 1
        THEN [ok |-> FALSE]
        ELSE Read([k \in 1 .. width |->
                     IF k < least + e THEN At(wire, k + 1)
                     ELSE IF k = least + e THEN wire[1] % Room(e)
                     ELSE 0],
                  Drop(wire, least + e))

WriteVariableInt32(v) == Pack(v, 1)
ReadVariableInt32(wire) == Unpack(wire, 1, 4)

WriteVariableInt64(v, least) == Pack(v, least)
ReadVariableInt64(wire, least) == Unpack(wire, least, 8)

(* Four bytes if they can hold the value, else twelve. *)
WriteInt64(v) ==
  IF v[4] < 128 /\ \A k \in 5 .. 8 : v[k] = 0
    THEN SubSeq(v, 1, 4)
    ELSE <<255, 255, 255, 255>> \o v

(* The sign of a 32-bit integer is extended. *)
Extended(v) == [k \in 1 .. 8 |-> IF k <= 4 THEN v[k] ELSE IF v[4] < 128 THEN 0 ELSE 255]

ReadInt64(wire) ==
  IF SubSeq(wire, 1, 4) = <<255, 255, 255, 255>>
    THEN ReadBytes(Drop(wire, 4), 8)
    ELSE Read(Extended(SubSeq(wire, 1, 4)), Drop(wire, 4))
-----------------------------------------------------------------------------
(* An index is written as what it adds to the last one of its sign if that is
   from 1 to 253, in two bytes if it is from 0 to 2^15 - 1, and as it is in
   the other cases. *)
INDEX_DONE == -1

(* What stands before the step of a negative index. *)
NegativeFollows == 255

WriteStep(i, last) ==
  LET diff == i - last
  IN  IF diff > 0 /\ diff < 254 THEN <<diff>>
      ELSE IF diff < 0 \/ diff > 32767
        THEN <<254, i \div 16777216 + 128, i % 256, (i \div 256) % 256, (i \div 65536) % 256>>
      ELSE <<254, diff \div 256, diff % 256>>

ReadStep(wire, last) ==
  LET b == [k \in 1 .. 5 |-> At(wire, k)]
  IN  IF b[1] # 254 THEN Read(b[1] + last, Drop(wire, 1))
      ELSE IF b[2] >= 128
        THEN Read(b[3] + b[4] * 256 + b[5] * 65536 + (b[2] - 128) * 16777216, Drop(wire, 5))
      ELSE Read(b[2] * 256 + b[3] + last, Drop(wire, 3))

(* writeIndex and readIndex, given the last indices of either sign. *)
WriteIndex(index, last) ==
  IF index >= 0 THEN WriteStep(index, last.positive)
  ELSE IF index = INDEX_DONE THEN <<0>>
  ELSE <<NegativeFollows>> \o WriteStep(-index, last.negative)

ReadIndex(wire, last) ==
  IF wire[1] = NegativeFollows
    THEN LET read == ReadStep(Drop(wire, 1), last.negative) IN [read EXCEPT !.value = -@]
  ELSE IF wire[1] = 0 THEN Read(INDEX_DONE, Drop(wire, 1))
  ELSE ReadStep(wire, last.positive)

(* The last indices after one more. *)
After(last, index) ==
  IF index >= 0 THEN [last EXCEPT !.positive = index]
  ELSE IF index = INDEX_DONE THEN last
  ELSE [last EXCEPT !.negative = -index]
=============================================================================
