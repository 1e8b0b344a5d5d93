-------------------------------- MODULE Delta --------------------------------
(***************************************************************************)
(* The rsync algorithm as rsync/rsync_client.cpp has it: sendChecksum cuts *)
(* an old file into blocks and describes them, sendFile looks for these    *)
(* blocks in the new file and sends a token for each one it finds and the  *)
(* plain data in between, receiveFile puts the new file together from the  *)
(* tokens and the old file.  A session pairs each of them with an rsync    *)
(* process that follows the same protocol; here they are paired with each  *)
(* other, one after the other, since each only reads what the one before   *)
(* has written.                                                            *)
(*                                                                         *)
(* The strong digest of a block (MD5 or MD4, with a seed) is taken to be   *)
(* free of collisions, that is, to be the block.  The weak one has as many *)
(* collisions as its modulus gives it: 2^16 in the code for each half.     *)
(***************************************************************************)
EXTENDS Integers, Sequences

CONSTANTS
  BlockLength,     \* what getBlockLength returns for the old file
  PlainChunk,      \* d_chunkSize when a file is sent without checksums
  Modulus,         \* of the two halves of the rolling checksum
  OldFiles,        \* the contents the old file may have
  NewFiles         \* the contents the new file may have

ASSUME DeltaAssumption ==
  /\ BlockLength \in Nat \ {0}
  /\ PlainChunk \in Nat \ {0}
  /\ Modulus \in Nat \ {0}
  /\ OldFiles \subseteq Seq(Int)
  /\ NewFiles \subseteq Seq(Int)

VARIABLES
  oldData, newData,    \* the two files
  hasOld,              \* whether there is an old file to describe
  checksums,           \* d_checksums, one record per block
  remainder,           \* the length of the last block, in the header
  pc,                  \* where sendFile is, then receiveFile
  position,            \* how much of the new file has been read
  chunk,               \* the n valid bytes of d_chunk
  i,                   \* the next byte of d_chunk to enter the checksum
  s1, s2,              \* the rolling checksum
  tokens,              \* the tokens on the wire
  logicalSent, physicalSent,    \* what sendFile adds to the counters
  newFile,             \* the file receiveFile writes
  oldPosition,         \* the file position of the old file
  previousToken,
  logicalReceived, physicalReceived,
  result               \* what receiveFile returns

input == <<oldData, newData, hasOld>>
header == <<checksums, remainder>>
scan == <<position, chunk, i, s1, s2>>
sent == <<tokens, logicalSent, physicalSent>>
receiver == <<newFile, oldPosition, previousToken, logicalReceived, physicalReceived, result>>
vars == <<input, header, pc, scan, sent, receiver>>

-----------------------------------------------------------------------------
Drop(s, k) == SubSeq(s, k + 1, Len(s))
Take(s, k) == SubSeq(s, 1, k)
Least(a, b) == IF a < b THEN a ELSE b

chunkSize == BlockLength * 2
n == Len(chunk)
count == Len(checksums)

(* getRollingChecksum *)
RollingChecksum(bytes) ==
  LET sum[k \in 0 .. Len(bytes)] ==
        IF k = 0 THEN <<0, 0>>
        ELSE <<sum[k - 1][1] + bytes[k], sum[k - 1][2] + sum[k - 1][1] + bytes[k]>>
  IN  <<sum[Len(bytes)][1] % Modulus, sum[Len(bytes)][2] % Modulus>>

Digest(bytes) == bytes

(* File::read of `size` bytes at `from`: fewer only at the end of the file. *)
ReadAt(file, from, size) == SubSeq(file, from + 1, Least(from + size, Len(file)))

(* A positive token is followed by that many bytes, a negative one names a
   block of the old file, 0 ends the file. *)
DataToken(bytes) == [token |-> Len(bytes), data |-> bytes]
BlockToken(k) == [token |-> -k, data |-> <<>>]

(* The block an old file of `size` bytes has as its last one: C's division
   gives an empty file one block, of no bytes. *)
BlockCount(size) == IF size = 0 THEN 1 ELSE (size - 1) \div BlockLength + 1

Init ==
  /\ oldData \in OldFiles /\ newData \in NewFiles /\ hasOld \in BOOLEAN
  /\ checksums = <<>> /\ remainder = 0
  /\ pc = "checksum"
  /\ position = 0 /\ chunk = <<>> /\ i = 0 /\ s1 = 0 /\ s2 = 0
  /\ tokens = <<>> /\ logicalSent = 0 /\ physicalSent = 0
  /\ newFile = <<>> /\ oldPosition = 0 /\ previousToken = 0
  /\ logicalReceived = 0 /\ physicalReceived = 0 /\ result = FALSE

-----------------------------------------------------------------------------
(* sendChecksum: four zeroes without an old file. *)
SendChecksum ==
  /\ pc = "checksum"
  /\ pc' = "start"
  /\ IF hasOld
       THEN LET blocks == BlockCount(Len(oldData))
                Block(k) == ReadAt(oldData, (k - 1) * BlockLength, BlockLength)
            IN  /\ checksums' = [k \in 1 .. blocks |->
                                   [sum1 |-> RollingChecksum(Block(k)), sum2 |-> Digest(Block(k))]]
                /\ remainder' = Len(oldData) - (blocks - 1) * BlockLength
       ELSE UNCHANGED header
  /\ UNCHANGED <<input, scan, sent, receiver>>

Send(list, logical, physical) ==
  /\ tokens' = tokens \o list
  /\ logicalSent' = logicalSent + logical
  /\ physicalSent' = physicalSent + physical

(* sendFile: the first read, and a file shorter than one block. *)
Start ==
  /\ pc = "start"
  /\ IF count = 0
       THEN pc' = "plain" /\ UNCHANGED <<scan, sent>>
       ELSE LET first == ReadAt(newData, 0, chunkSize)
            IN  /\ position' = Len(first)
                /\ chunk' = first
                /\ i' = BlockLength
                /\ IF Len(first) < BlockLength
                     THEN /\ pc' = "trailer"
                          /\ UNCHANGED <<s1, s2>>
                          /\ IF first = <<>> THEN UNCHANGED sent
                               ELSE Send(<<DataToken(first)>>, Len(first), Len(first) + 4)
                     ELSE /\ pc' = "match"
                          /\ s1' = RollingChecksum(Take(first, BlockLength))[1]
                          /\ s2' = RollingChecksum(Take(first, BlockLength))[2]
                          /\ UNCHANGED sent
  /\ UNCHANGED <<input, header, receiver>>

(* Without checksums the file is sent as it is read. *)
SendPlain ==
  /\ pc = "plain"
  /\ LET bytes == ReadAt(newData, position, PlainChunk)
     IN  IF bytes = <<>>
           THEN pc' = "trailer" /\ UNCHANGED <<scan, sent>>
           ELSE /\ position' = position + Len(bytes)
                /\ Send(<<DataToken(bytes)>>, Len(bytes), Len(bytes) + 4)
                /\ UNCHANGED <<pc, chunk, i, s1, s2>>
  /\ UNCHANGED <<input, header, receiver>>

Window == SubSeq(chunk, i - BlockLength + 1, i)

(* The blocks the hash table and the two checksums give for the window. *)
WeakOnly == {k \in 1 .. count : checksums[k].sum1 = <<s1, s2>>}
Matches ==
  {k \in 1 .. count : checksums[k].sum1 = <<s1, s2>> /\ checksums[k].sum2 = Digest(Window)}

(* A chain of the hash table runs from the last block to the first. *)
Bucket == CHOOSE k \in Matches : \A j \in Matches : j <= k

(* The bytes in front of a match are sent as data, if there are any. *)
DataBefore == IF i > BlockLength THEN <<DataToken(Take(chunk, i - BlockLength))>> ELSE <<>>

Match ==
  /\ pc = "match"
  /\ Matches # {}
  /\ Send(DataBefore \o <<BlockToken(Bucket)>>, i,
          4 + IF i > BlockLength THEN i - BlockLength + 4 ELSE 0)
  /\ chunk' = Drop(chunk, i)
  /\ i' = 0
  /\ pc' = "refill"
  /\ UNCHANGED <<input, header, position, s1, s2, receiver>>

(* No match, and the end of the chunk: all but one block of it is sent. *)
Slide ==
  /\ pc = "match"
  /\ Matches = {}
  /\ i >= chunkSize
  /\ LET bytes == i - BlockLength
     IN  /\ Send(<<DataToken(Take(chunk, bytes))>>, bytes, 4 + bytes)
         /\ chunk' = Drop(chunk, bytes)
         /\ i' = i - bytes
  /\ pc' = "refill"
  /\ UNCHANGED <<input, header, position, s1, s2, receiver>>

NoMatch ==
  /\ pc = "match"
  /\ Matches = {}
  /\ i < chunkSize
  /\ pc' = "refill"
  /\ UNCHANGED <<input, header, scan, sent, receiver>>

(* Whether a chunk of `length` bytes is too short to go on with. *)
ShortAtEnd(length) == i >= length
TooShort(length) == i >= length \/ (i = 0 /\ length < BlockLength)

(* The bytes left over at the end of the file may be the last, short block. *)
LastBlockFound(bytes) ==
  /\ Len(bytes) = remainder
  /\ checksums[count].sum1 = RollingChecksum(bytes)
  /\ checksums[count].sum2 = Digest(bytes)

RestAsWholeBlock(bytes) ==
  IF bytes = <<>> THEN UNCHANGED sent
  ELSE IF LastBlockFound(bytes) THEN Send(<<BlockToken(count)>>, BlockLength, 4)
  ELSE Send(<<DataToken(bytes)>>, Len(bytes), 4 + Len(bytes))

SendRest(bytes) ==
  IF bytes = <<>> THEN UNCHANGED sent
  ELSE IF LastBlockFound(bytes) THEN Send(<<BlockToken(count)>>, Len(bytes), 4)
  ELSE Send(<<DataToken(bytes)>>, Len(bytes), 4 + Len(bytes))

(* What a read may put behind the n bytes of d_chunk. *)
Room == chunkSize - n

Refill ==
  /\ pc = "refill"
  /\ IF ~TooShort(n)
       THEN pc' = "advance" /\ UNCHANGED <<position, chunk, sent>>
       ELSE LET bytes == ReadAt(newData, position, Room)
            IN  /\ position' = position + Len(bytes)
                /\ chunk' = chunk \o bytes
                /\ IF TooShort(Len(chunk'))
                     THEN pc' = "trailer" /\ SendRest(chunk')
                     ELSE pc' = "advance" /\ UNCHANGED sent
  /\ UNCHANGED <<input, header, i, s1, s2, receiver>>

(* The window moves on by one byte, or a new one begins after a match. *)
UnweightedSum == s2 - chunk[i - BlockLength + 1]
RolledSum == s2 - BlockLength * chunk[i - BlockLength + 1]

Advance ==
  /\ pc = "advance"
  /\ pc' = "match"
  /\ IF i = 0
       THEN /\ s1' = RollingChecksum(Take(chunk, BlockLength))[1]
            /\ s2' = RollingChecksum(Take(chunk, BlockLength))[2]
            /\ i' = BlockLength
       ELSE /\ s1' = (s1 - chunk[i - BlockLength + 1] + chunk[i + 1]) % Modulus
            /\ s2' = (RolledSum + s1') % Modulus
            /\ i' = i + 1
  /\ UNCHANGED <<input, header, position, chunk, sent, receiver>>

(* Token 0, and the digest of the whole file. *)
Trailer ==
  /\ pc = "trailer"
  /\ pc' = "receive"
  /\ Send(<<DataToken(<<>>)>>, 0, 16)
  /\ UNCHANGED <<input, header, scan, receiver>>
-----------------------------------------------------------------------------
(* receiveFile: one token. *)
ReceiveData ==
  /\ pc = "receive"
  /\ Head(tokens).token > 0
  /\ tokens' = Tail(tokens)
  /\ newFile' = newFile \o Head(tokens).data
  /\ logicalReceived' = logicalReceived + Head(tokens).token
  /\ physicalReceived' = physicalReceived + 4 + Head(tokens).token
  /\ UNCHANGED <<input, header, pc, scan, logicalSent, physicalSent, oldPosition,
                 previousToken, result>>

(* The old file is read on from where it is if the block is the next one. *)
PositionOf(block) ==
  IF previousToken = 0 \/ previousToken # block THEN block * BlockLength ELSE oldPosition

ReceiveBlock ==
  /\ pc = "receive"
  /\ Head(tokens).token < 0
  /\ tokens' = Tail(tokens)
  /\ LET block == -Head(tokens).token - 1
         bytes == ReadAt(oldData, PositionOf(block), BlockLength)
     IN  /\ newFile' = newFile \o bytes
         /\ oldPosition' = PositionOf(block) + Len(bytes)
         /\ previousToken' = block + 1
         /\ logicalReceived' = logicalReceived + Len(bytes)
         /\ physicalReceived' = physicalReceived + 4
  /\ UNCHANGED <<input, header, pc, scan, logicalSent, physicalSent, result>>

ReceiveDigest ==
  /\ pc = "receive"
  /\ Head(tokens).token = 0
  /\ pc' = "done"
  /\ tokens' = Tail(tokens)
  /\ physicalReceived' = physicalReceived + 16
  /\ result' = (newFile = newData)
  /\ UNCHANGED <<input, header, scan, logicalSent, physicalSent, newFile, oldPosition,
                 previousToken, logicalReceived>>
-----------------------------------------------------------------------------
SendFile == Start \/ SendPlain \/ Match \/ Slide \/ NoMatch \/ Refill \/ Advance \/ Trailer

ReceiveFile == ReceiveData \/ ReceiveBlock \/ ReceiveDigest

Next == SendChecksum \/ SendFile \/ ReceiveFile

Spec == Init /\ [][Next]_vars
-----------------------------------------------------------------------------
(* The asserts of sendFile (lines 1191, 1249, 1254 and 1255): the chunk is
   full when it is slid, a new window lies inside the chunk, and a window
   that moves on leaves a byte behind and finds one in front of it. *)
AssertsHold ==
  /\ pc = "match" /\ i >= chunkSize => n = chunkSize
  /\ pc = "advance" /\ i = 0 => BlockLength <= n
  /\ pc = "advance" /\ i # 0 => i < n /\ i >= BlockLength

(* Every byte read is either accounted for by the tokens sent or still in
   the chunk, and at the end all of the file is. *)
EveryByteSentOnce ==
  /\ pc \in {"match", "refill", "advance"} => position = logicalSent + n
  /\ pc \in {"receive", "done"} => logicalSent = Len(newData)

(* The checksum kept up byte by byte is that of the window it stands for. *)
RollingIsExact == pc = "match" => <<s1, s2>> = RollingChecksum(Window)

(* The file put together from the tokens is the file that was sent, whatever
   collisions the weak checksum has, and both sides have counted the same bytes
   for it. *)
Reconstructs ==
  pc = "done" =>
    /\ newFile = newData /\ result
    /\ logicalReceived = logicalSent /\ physicalReceived = physicalSent
==============================================================================
