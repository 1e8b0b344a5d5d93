---------------------------- MODULE Delta_proofs ----------------------------
(***************************************************************************)
(* Theorems about Delta: the asserts of sendFile hold, no byte of the new  *)
(* file is lost or sent twice, the file put together is the file sent and  *)
(* the rolling checksum is that of the window, for every block length and  *)
(* modulus, whatever the two files hold and whichever blocks match.        *)
(***************************************************************************)
EXTENDS Delta, SequenceTheorems, WellFoundedInduction, TLAPS

(* The states of the scan: how far i may be in the chunk at each place of
   the loop, and where the bytes that have been read are. *)
Places == {"checksum", "start", "plain", "match", "refill", "advance", "trailer",
           "receive", "done"}

ScanType ==
  /\ pc \in Places
  /\ newData \in Seq(Int) /\ chunk \in Seq(Int)
  /\ position \in Nat /\ logicalSent \in Nat /\ i \in Nat
  /\ position <= Len(newData)

Untouched == position = 0 /\ logicalSent = 0 /\ chunk = <<>>
AllSent == logicalSent = Len(newData)
Accounted == position = logicalSent + Len(chunk) /\ Len(chunk) <= 2 * BlockLength

AtMatch == BlockLength <= i /\ i <= Len(chunk)
AtRefill == i = 0 \/ (BlockLength <= i /\ i < 2 * BlockLength)
AtAdvance == IF i = 0 THEN BlockLength <= Len(chunk)
                      ELSE BlockLength <= i /\ i < Len(chunk)

ScanInv ==
  /\ ScanType
  /\ pc \in {"checksum", "start"} => Untouched
  /\ pc = "plain" => position = logicalSent
  /\ pc \in {"match", "refill", "advance"} => Accounted
  /\ pc = "match" => AtMatch
  /\ pc = "refill" => AtRefill /\ i <= Len(chunk)
  /\ pc = "advance" => AtAdvance
  /\ pc \in {"trailer", "receive", "done"} => AllSent
-----------------------------------------------------------------------------
(* File::read returns as many bytes as were asked for, or all that are left. *)
LEMMA ReadAtLength ==
  ASSUME NEW file \in Seq(Int), NEW from \in Nat, NEW size \in Nat, from <= Len(file)
  PROVE  /\ ReadAt(file, from, size) \in Seq(Int)
         /\ Len(ReadAt(file, from, size)) = Least(size, Len(file) - from)
<1>1. Len(file) \in Nat /\ \A k \in 1 .. Len(file) : file[k] \in Int
  BY LenProperties, ElementOfSeq
<1>2. Least(from + size, Len(file)) \in from .. Len(file)
  BY <1>1 DEF Least
<1>3. \A k \in from + 1 .. Least(from + size, Len(file)) : file[k] \in Int
  BY <1>1, <1>2
<1>4. /\ ReadAt(file, from, size) \in Seq(Int)
      /\ Len(ReadAt(file, from, size)) = Least(from + size, Len(file)) - from
  BY <1>1, <1>2, <1>3, SubSeqProperties DEF ReadAt
<1> QED  BY <1>1, <1>4 DEF Least

(* memmove drops the first k bytes of the chunk. *)
LEMMA DropLength ==
  ASSUME NEW s \in Seq(Int), NEW k \in 0 .. Len(s)
  PROVE  Drop(s, k) \in Seq(Int) /\ Len(Drop(s, k)) = Len(s) - k
<1>1. Len(s) \in Nat /\ \A j \in k + 1 .. Len(s) : s[j] \in Int
  BY LenProperties, ElementOfSeq
<1> QED  BY <1>1, SubSeqProperties DEF Drop

(* A token takes from the chunk what it adds to the counter. *)
LEMMA SendCounts ==
  ASSUME NEW list, NEW logical \in Nat, NEW physical, logicalSent \in Nat,
         Send(list, logical, physical)
  PROVE  logicalSent' = logicalSent + logical /\ logicalSent' \in Nat
BY DEF Send

(* Nothing has been read when sendFile begins. *)
LEMMA InitScan == Init => ScanInv
<1> SUFFICES ASSUME Init PROVE ScanInv
  OBVIOUS
<1>1. newData \in Seq(Int) /\ Len(newData) \in Nat
  BY DeltaAssumption, LenProperties DEF Init
<1> QED  BY <1>1, EmptySeq DEF Init, ScanInv, ScanType, Places, Untouched

-----------------------------------------------------------------------------
(* One lemma per part of the program: each takes the invariant from a state
   to the next one. *)

(* The first read: a window if there is a whole block, else the end. *)
LEMMA StartScan == ScanInv /\ Start => ScanInv'
<1> SUFFICES ASSUME ScanInv, Start PROVE ScanInv'
  OBVIOUS
<1> DEFINE first == ReadAt(newData, 0, chunkSize)
<1>0. /\ BlockLength \in Nat \ {0} /\ chunkSize \in Nat
      /\ chunkSize = 2 * BlockLength
  BY DeltaAssumption DEF chunkSize
<1>1. /\ Untouched /\ pc = "start" /\ newData' = newData /\ newData \in Seq(Int)
      /\ Len(newData) \in Nat
  BY LenProperties DEF ScanInv, ScanType, Start, input
<1>2. first \in Seq(Int) /\ Len(first) = Least(chunkSize, Len(newData)) /\ Len(first) \in Nat
  <2>1. 0 \in Nat /\ 0 <= Len(newData) /\ Len(newData) - 0 = Len(newData)
    BY <1>1
  <2>2. first \in Seq(Int) /\ Len(first) = Least(chunkSize, Len(newData) - 0)
    BY <1>0, <1>1, <2>1, ReadAtLength
  <2> QED  BY <2>1, <2>2, LenProperties
<1>3. CASE count = 0
  <2>1. pc' = "plain" /\ UNCHANGED <<scan, sent>>
    BY <1>3 DEF Start
  <2> QED  BY <1>1, <2>1 DEF ScanInv, ScanType, Places, Untouched, scan, sent
<1>4. CASE count # 0 /\ Len(first) < BlockLength
  <2>1. /\ pc' = "trailer" /\ position' = Len(first) /\ chunk' = first /\ i' = BlockLength
        /\ IF first = <<>> THEN UNCHANGED sent
           ELSE Send(<<DataToken(first)>>, Len(first), Len(first) + 4)
    BY <1>4 DEF Start
  <2>2. Len(first) = Len(newData)
    BY <1>0, <1>1, <1>2, <1>4 DEF Least
  <2>3. logicalSent' = Len(newData)
    <3>1. CASE first = <<>>
      BY <1>1, <2>1, <2>2, <3>1, EmptySeq DEF Untouched, sent
    <3>2. CASE first # <<>>
      BY <1>1, <1>2, <2>1, <2>2, <3>2, SendCounts DEF Untouched
    <3> QED  BY <3>1, <3>2
  <2> QED  BY <1>0, <1>1, <1>2, <2>1, <2>2, <2>3
           DEF ScanInv, ScanType, Places, AllSent
<1>5. CASE count # 0 /\ ~(Len(first) < BlockLength)
  <2>1. /\ pc' = "match" /\ position' = Len(first) /\ chunk' = first /\ i' = BlockLength
        /\ logicalSent' = logicalSent
    BY <1>5 DEF Start, sent
  <2> QED  BY <1>0, <1>1, <1>2, <1>5, <2>1
           DEF ScanInv, ScanType, Places, Untouched, Accounted, AtMatch, Least
<1> QED  BY <1>3, <1>4, <1>5

(* Without checksums each read is sent at once. *)
LEMMA SendPlainScan == ScanInv /\ SendPlain => ScanInv'
<1> SUFFICES ASSUME ScanInv, SendPlain PROVE ScanInv'
  OBVIOUS
<1> DEFINE bytes == ReadAt(newData, position, PlainChunk)
<1>1. /\ pc = "plain" /\ position = logicalSent /\ position \in Nat
      /\ newData' = newData /\ newData \in Seq(Int) /\ chunk \in Seq(Int) /\ i \in Nat
      /\ Len(newData) \in Nat /\ position <= Len(newData)
  BY LenProperties DEF ScanInv, ScanType, SendPlain, input
<1>2. bytes \in Seq(Int) /\ Len(bytes) = Least(PlainChunk, Len(newData) - position)
  BY <1>1, ReadAtLength, DeltaAssumption
<1>3. Len(bytes) \in Nat /\ position + Len(bytes) <= Len(newData)
  BY <1>1, <1>2, DeltaAssumption DEF Least
<1>4. CASE bytes = <<>>
  <2>1. pc' = "trailer" /\ UNCHANGED <<scan, sent>>
    BY <1>4 DEF SendPlain
  <2>2. position = Len(newData)
    BY <1>1, <1>2, <1>4, EmptySeq, DeltaAssumption DEF Least
  <2> QED  BY <1>1, <2>1, <2>2 DEF ScanInv, ScanType, Places, AllSent, scan, sent
<1>5. CASE bytes # <<>>
  <2>1. /\ position' = position + Len(bytes)
        /\ Send(<<DataToken(bytes)>>, Len(bytes), Len(bytes) + 4)
        /\ pc' = "plain" /\ chunk' = chunk /\ i' = i
    BY <1>1, <1>5 DEF SendPlain
  <2>2. logicalSent' = logicalSent + Len(bytes)
    BY <1>1, <1>3, <2>1, SendCounts
  <2> QED  BY <1>1, <1>3, <2>1, <2>2 DEF ScanInv, ScanType, Places
<1> QED  BY <1>4, <1>5

(* After a match the window is left behind: i is 0 and what is in the chunk
   has not been looked at. *)
LEMMA MatchScan == ScanInv /\ Match => ScanInv'
<1> SUFFICES ASSUME ScanInv, Match PROVE ScanInv'
  OBVIOUS
<1>0. BlockLength \in Nat \ {0}
  BY DeltaAssumption
<1>1. /\ AtMatch /\ Accounted /\ chunk \in Seq(Int) /\ i \in Nat /\ logicalSent \in Nat
      /\ Len(chunk) \in Nat /\ i \in 0 .. Len(chunk)
  BY LenProperties DEF ScanInv, ScanType, Match, AtMatch
<1>2. chunk' = Drop(chunk, i) /\ i' = 0 /\ pc' = "refill" /\ position' = position
      /\ newData' = newData
  BY DEF Match, input
<1>3. chunk' \in Seq(Int) /\ Len(chunk') = Len(chunk) - i
  BY <1>1, <1>2, DropLength
<1>4. logicalSent' = logicalSent + i /\ logicalSent' \in Nat
  BY <1>1, SendCounts DEF Match
<1> QED  BY <1>0, <1>1, <1>2, <1>3, <1>4
         DEF ScanInv, ScanType, Places, Accounted, AtRefill

(* A slide keeps one block of a full chunk. *)
LEMMA SlideScan == ScanInv /\ Slide => ScanInv'
<1> SUFFICES ASSUME ScanInv, Slide PROVE ScanInv'
  OBVIOUS
<1> DEFINE bytes == i - BlockLength
<1>0. BlockLength \in Nat \ {0}
  BY DeltaAssumption
<1>1. /\ AtMatch /\ Accounted /\ chunk \in Seq(Int) /\ i \in Nat /\ logicalSent \in Nat
      /\ Len(chunk) \in Nat
  BY LenProperties DEF ScanInv, ScanType, Slide
<1>2. bytes \in Nat /\ bytes \in 0 .. Len(chunk)
  BY <1>0, <1>1 DEF AtMatch
<1>3. chunk' = Drop(chunk, bytes) /\ i' = i - bytes /\ pc' = "refill" /\ position' = position
      /\ newData' = newData
  BY DEF Slide, input
<1>4. chunk' \in Seq(Int) /\ Len(chunk') = Len(chunk) - bytes
  BY <1>1, <1>2, <1>3, DropLength
<1>5. logicalSent' = logicalSent + bytes /\ logicalSent' \in Nat
  BY <1>1, <1>2, SendCounts DEF Slide
<1>6. i' = BlockLength /\ i' <= Len(chunk') /\ Len(chunk') \in Nat
  BY <1>0, <1>1, <1>2, <1>3, <1>4 DEF AtMatch
<1>7. Accounted'
  <2> HIDE DEF bytes
  <2>1. position' = position /\ bytes \in Nat
    BY <1>2, <1>3
  <2> QED  BY <1>0, <1>1, <1>4, <1>5, <2>1 DEF Accounted
<1>8. ScanType' /\ AtRefill'
  BY <1>0, <1>3, <1>4, <1>5, <1>6 DEF ScanInv, ScanType, Places, AtRefill
<1> QED  BY <1>3, <1>6, <1>7, <1>8 DEF ScanInv

(* No match in the middle of the chunk: the window stays where it is. *)
LEMMA NoMatchScan == ScanInv /\ NoMatch => ScanInv'
BY DeltaAssumption
   DEF ScanInv, ScanType, Places, NoMatch, AtMatch, AtRefill, Accounted,
       chunkSize, input, scan, sent

(* The window moves on inside the chunk. *)
LEMMA AdvanceScan == ScanInv /\ Advance => ScanInv'
<1> SUFFICES ASSUME ScanInv, Advance PROVE ScanInv'
  OBVIOUS
<1>1. /\ pc = "advance" /\ pc' = "match" /\ i' = IF i = 0 THEN BlockLength ELSE i + 1
      /\ UNCHANGED <<newData, position, chunk, logicalSent>>
  BY DEF ScanInv, Advance, input, sent
<1> QED  BY <1>1, DeltaAssumption, LenProperties
         DEF ScanInv, ScanType, Places, AtMatch, AtAdvance, Accounted

(* The trailer carries no byte of the file. *)
LEMMA TrailerScan == ScanInv /\ Trailer => ScanInv'
<1> SUFFICES ASSUME ScanInv, Trailer PROVE ScanInv'
  OBVIOUS
<1>1. logicalSent' = logicalSent + 0
  BY SendCounts DEF Trailer, ScanInv, ScanType
<1>2. pc = "trailer" /\ pc' = "receive" /\ UNCHANGED <<newData, position, chunk, i>>
  BY DEF Trailer, input, scan
<1> QED  BY <1>1, <1>2 DEF ScanInv, ScanType, Places, AllSent

(* More is read only if the chunk is too short to go on; if it still is, the
   file has been read to its end, and what is left in the chunk is sent. *)
LEMMA RefillScan == ScanInv /\ Refill => ScanInv'
<1> SUFFICES ASSUME ScanInv, Refill PROVE ScanInv'
  OBVIOUS
<1> DEFINE bytes == ReadAt(newData, position, Room)
<1>0. BlockLength \in Nat \ {0} /\ chunkSize = 2 * BlockLength /\ n = Len(chunk)
  BY DeltaAssumption DEF chunkSize, n
<1>1. /\ AtRefill /\ i <= Len(chunk) /\ Accounted /\ chunk \in Seq(Int) /\ i \in Nat
      /\ logicalSent \in Nat /\ Len(chunk) \in Nat
      /\ newData \in Seq(Int) /\ Len(newData) \in Nat
      /\ position \in Nat /\ position <= Len(newData)
      /\ i' = i /\ newData' = newData
  BY LenProperties DEF ScanInv, ScanType, Refill, input
<1>2. Room \in Nat /\ Room = 2 * BlockLength - Len(chunk)
  BY <1>0, <1>1 DEF Accounted, Room
<1>3. CASE ~TooShort(n)
  <2>1. pc' = "advance" /\ UNCHANGED <<position, chunk, sent>>
    BY <1>3 DEF Refill
  <2>2. AtAdvance
    BY <1>0, <1>1, <1>3 DEF AtRefill, AtAdvance, TooShort
  <2> QED  BY <1>1, <2>1, <2>2
           DEF ScanInv, ScanType, Places, Accounted, AtAdvance, sent
<1>4. CASE TooShort(n)
  <2>1. /\ bytes \in Seq(Int)
        /\ Len(bytes) = Least(Room, Len(newData) - position)
    BY <1>1, <1>2, ReadAtLength
  <2>2. Len(bytes) \in Nat /\ Len(bytes) <= Room /\ position + Len(bytes) <= Len(newData)
    BY <1>1, <1>2, <2>1 DEF Least
  <2>3. /\ position' = position + Len(bytes) /\ chunk' = chunk \o bytes
        /\ IF TooShort(Len(chunk')) THEN pc' = "trailer" /\ SendRest(chunk')
                                    ELSE pc' = "advance" /\ UNCHANGED sent
    BY <1>4 DEF Refill
  <2>4. chunk' \in Seq(Int) /\ Len(chunk') = Len(chunk) + Len(bytes)
    BY <1>1, <2>1, <2>3, ConcatProperties
  <2>5. /\ position' \in Nat /\ position' <= Len(newData)
        /\ position' = logicalSent + Len(chunk') /\ Len(chunk') <= 2 * BlockLength
    BY <1>0, <1>1, <1>2, <2>2, <2>3, <2>4 DEF Accounted
  <2>6. CASE ~TooShort(Len(chunk'))
    <3>1. pc' = "advance" /\ logicalSent' = logicalSent
      BY <2>3, <2>6 DEF sent
    <3>2. AtAdvance'
      BY <1>0, <1>1, <2>4, <2>6, LenProperties DEF AtRefill, AtAdvance, TooShort
    <3> QED  BY <1>1, <2>4, <2>5, <3>1, <3>2 DEF ScanInv, ScanType, Places, Accounted
  <2>7. CASE TooShort(Len(chunk'))
    <3>1. Len(bytes) # Room
      BY <1>0, <1>1, <1>2, <2>2, <2>4, <2>7 DEF AtRefill, TooShort
    <3>2. position' = Len(newData)
      BY <1>1, <1>2, <2>1, <2>3, <3>1 DEF Least
    <3>3. pc' = "trailer" /\ SendRest(chunk')
      BY <2>3, <2>7
    <3>4. logicalSent' = logicalSent + Len(chunk')
      <4>1. CASE chunk' = <<>>
        BY <1>1, <3>3, <4>1, EmptySeq DEF SendRest, sent
      <4>2. CASE chunk' # <<>>
        <5>1. \E list, physical : Send(list, Len(chunk'), physical)
          BY <3>3, <4>2 DEF SendRest
        <5>2. Len(chunk') \in Nat
          BY <2>4, LenProperties
        <5> QED  BY <1>1, <5>1, <5>2, SendCounts
      <4> QED  BY <4>1, <4>2
    <3> QED  BY <1>1, <2>2, <2>4, <2>5, <3>2, <3>3, <3>4
             DEF ScanInv, ScanType, Places, AllSent
  <2> QED  BY <2>6, <2>7
<1> QED  BY <1>3, <1>4

(* sendChecksum and receiveFile leave the scan as it is. *)
LEMMA ReceiveScan == ScanInv /\ (SendChecksum \/ ReceiveFile \/ UNCHANGED vars) => ScanInv'
<1> SUFFICES ASSUME ScanInv, SendChecksum \/ ReceiveFile \/ UNCHANGED vars
             PROVE  ScanInv'
  OBVIOUS
<1>1. /\ UNCHANGED <<newData, position, chunk, i, logicalSent>>
      /\ pc' = pc \/ (pc = "checksum" /\ pc' = "start") \/ (pc = "receive" /\ pc' = "done")
  BY DEF SendChecksum, ReceiveFile, ReceiveData, ReceiveBlock, ReceiveDigest, vars,
         input, scan, sent
<1> QED  BY <1>1 DEF ScanInv, ScanType, Places, Untouched, Accounted, AtMatch, AtRefill,
                     AtAdvance, AllSent

(* The inductive invariant. *)
THEOREM ScanIsInvariant == Spec => []ScanInv
<1>1. ScanInv /\ [Next]_vars => ScanInv'
  BY StartScan, SendPlainScan, MatchScan, SlideScan, NoMatchScan, RefillScan, AdvanceScan,
     TrailerScan, ReceiveScan DEF Next, SendFile
<1> QED  BY <1>1, InitScan, PTL DEF Spec

(* The asserts of sendFile never fail. *)
THEOREM AssertsNeverFail == Spec => []AssertsHold
<1>1. ScanInv => AssertsHold
  <2> SUFFICES ASSUME ScanInv PROVE AssertsHold
    OBVIOUS
  <2>1. /\ BlockLength \in Nat \ {0} /\ chunkSize = 2 * BlockLength /\ n = Len(chunk)
        /\ Len(chunk) \in Nat /\ i \in Nat
    BY DeltaAssumption, LenProperties DEF chunkSize, n, ScanInv, ScanType
  <2> QED  BY <2>1 DEF ScanInv, Accounted, AtMatch, AtAdvance, AssertsHold
<1> QED  BY <1>1, ScanIsInvariant, PTL

(* Every byte of the new file is accounted for by the tokens exactly once. *)
THEOREM NoByteLost == Spec => []EveryByteSentOnce
<1>1. ScanInv => EveryByteSentOnce
  BY DEF ScanInv, Accounted, AllSent, EveryByteSentOnce, n
<1> QED  BY <1>1, ScanIsInvariant, PTL

-----------------------------------------------------------------------------
(* The two sides of the wire.  Block(k) is the k-th block of the old file,
   Piece(a, b) what the new file has between two positions. *)
Block(k) == ReadAt(oldData, (k - 1) * BlockLength, BlockLength)
Piece(a, b) == SubSeq(newData, a + 1, b)

Token == [token : Int, data : Seq(Int)]

(* A token takes both counters of a side from l and p to m and q, and stands
   for the bytes of the new file in between. *)
Moves(t, l, p, m, q) ==
  /\ l <= m /\ m <= Len(newData)
  /\ t.token > 0 => /\ t.data = Piece(l, m)
                    /\ m = l + t.token /\ q = p + 4 + t.token
  /\ t.token < 0 => /\ Block(-t.token) = Piece(l, m)
                    /\ (-t.token - 1) * BlockLength <= Len(oldData)
                    /\ q = p + 4
  /\ t.token = 0 => m = l /\ q = p + 16

(* The tokens of a list do so one after the other. *)
Stops(list, at, cost) ==
  \A k \in 1 .. Len(list) : Moves(list[k], at[k - 1], cost[k - 1], at[k], cost[k])

Journey(list, l, p, m, q) ==
  \E at, cost \in [0 .. Len(list) -> Nat] :
    /\ at[0] = l /\ cost[0] = p /\ at[Len(list)] = m /\ cost[Len(list)] = q
    /\ Stops(list, at, cost)

(* What is on the wire makes up for the difference between the counters. *)
OnTheWire ==
  /\ tokens \in Seq(Token)
  /\ logicalSent \in Nat /\ physicalSent \in Nat
  /\ logicalReceived \in Nat /\ physicalReceived \in Nat
  /\ logicalReceived <= Len(newData)
  /\ Journey(tokens, logicalReceived, physicalReceived, logicalSent, physicalSent)

NoEnd == \A k \in 1 .. Len(tokens) : tokens[k].token # 0
EndIsLast ==
  /\ tokens # <<>>
  /\ \A k \in 1 .. Len(tokens) : tokens[k].token = 0 <=> k = Len(tokens)

Described ==
  /\ oldData \in Seq(Int) /\ count \in Nat
  /\ \A k \in 1 .. count : /\ checksums[k].sum2 = Block(k)
                           /\ (k - 1) * BlockLength <= Len(oldData)

InOldFile ==
  /\ previousToken \in Nat /\ oldPosition \in Nat
  /\ previousToken # 0 => oldPosition = Least(previousToken * BlockLength, Len(oldData))

Received ==
  /\ newFile = Piece(0, logicalReceived)
  /\ pc = "done" => tokens = <<>> /\ (result <=> newFile = newData)

TokenInv ==
  /\ Described /\ OnTheWire /\ InOldFile /\ Received
  /\ pc = "checksum" => count = 0
  /\ pc \in {"match", "refill", "advance"} =>
       count # 0 /\ chunk = Piece(logicalSent, position)
  /\ pc \notin {"receive", "done"} => NoEnd
  /\ pc = "receive" => EndIsLast
-----------------------------------------------------------------------------
(* Without tokens the counters stay where they are. *)
LEMMA JourneyNowhere ==
  ASSUME NEW l \in Nat, NEW p \in Nat
  PROVE  Journey(<<>>, l, p, l, p)
<1> DEFINE at == [k \in 0 .. 0 |-> l]
           cost == [k \in 0 .. 0 |-> p]
<1>1. Len(<<>>) = 0
  OBVIOUS
<1>2. at \in [0 .. 0 -> Nat] /\ cost \in [0 .. 0 -> Nat] /\ at[0] = l /\ cost[0] = p
  OBVIOUS
<1>3. Stops(<<>>, at, cost)
  BY <1>1 DEF Stops
<1> HIDE DEF at, cost
<1> QED  BY <1>1, <1>2, <1>3 DEF Journey

(* The counters are the same on both sides when nothing is on the wire. *)
LEMMA JourneyEnds ==
  ASSUME NEW l, NEW p, NEW m, NEW q, Journey(<<>>, l, p, m, q)
  PROVE  l = m /\ p = q
<1>1. Len(<<>>) = 0
  OBVIOUS
<1> QED  BY <1>1 DEF Journey

(* One more token is sent. *)
LEMMA JourneyGoesOn ==
  ASSUME NEW list \in Seq(Token), NEW t \in Token,
         NEW l \in Nat, NEW p \in Nat, NEW m \in Nat, NEW q \in Nat,
         NEW m2 \in Nat, NEW q2 \in Nat,
         Journey(list, l, p, m, q), Moves(t, m, q, m2, q2)
  PROVE  Journey(Append(list, t), l, p, m2, q2)
<1>1. PICK N \in Nat : N = Len(list)
  BY LenProperties
<1>2. PICK at \in [0 .. N -> Nat] : \E cost \in [0 .. N -> Nat] :
        /\ at[0] = l /\ cost[0] = p /\ at[N] = m /\ cost[N] = q
        /\ Stops(list, at, cost)
  BY <1>1 DEF Journey
<1>3. PICK cost \in [0 .. N -> Nat] :
        /\ at[0] = l /\ cost[0] = p /\ at[N] = m /\ cost[N] = q
        /\ Stops(list, at, cost)
  BY <1>2
<1>4. PICK long : long = Append(list, t)
  OBVIOUS
<1>5. /\ Len(long) = N + 1
      /\ \A k \in 1 .. N : long[k] = list[k]
      /\ long[N + 1] = t
  BY <1>1, <1>4, AppendProperties
<1> DEFINE at2 == [k \in 0 .. N + 1 |-> IF k = N + 1 THEN m2 ELSE at[k]]
           cost2 == [k \in 0 .. N + 1 |-> IF k = N + 1 THEN q2 ELSE cost[k]]
<1>6. /\ at2 \in [0 .. N + 1 -> Nat] /\ cost2 \in [0 .. N + 1 -> Nat]
      /\ \A k \in 0 .. N : at2[k] = at[k] /\ cost2[k] = cost[k]
      /\ at2[N + 1] = m2 /\ cost2[N + 1] = q2
  OBVIOUS
<1> HIDE DEF at2, cost2
<1>7. Stops(long, at2, cost2)
  <2> SUFFICES ASSUME NEW k \in 1 .. N + 1
               PROVE  Moves(long[k], at2[k - 1], cost2[k - 1], at2[k], cost2[k])
    BY <1>5 DEF Stops
  <2>1. CASE k \in 1 .. N
    <3>1. k - 1 \in 0 .. N /\ k \in 0 .. N
      BY <2>1
    <3>2. Moves(list[k], at[k - 1], cost[k - 1], at[k], cost[k])
      BY <1>1, <1>3, <2>1 DEF Stops
    <3> QED  BY <1>5, <1>6, <2>1, <3>1, <3>2
  <2>2. CASE k = N + 1
    <3>1. k - 1 = N /\ N \in 0 .. N
      BY <2>2
    <3>2. at2[k - 1] = m /\ cost2[k - 1] = q /\ at2[k] = m2 /\ cost2[k] = q2 /\ long[k] = t
      BY <1>3, <1>5, <1>6, <2>2, <3>1
    <3> QED  BY <3>2
  <2> QED  BY <2>1, <2>2
<1>8. at2[0] = l /\ cost2[0] = p
  <2>1. 0 \in 0 .. N
    OBVIOUS
  <2> QED  BY <1>3, <1>6, <2>1
<1>9. Journey(long, l, p, m2, q2)
  BY <1>5, <1>6, <1>7, <1>8 DEF Journey
<1> QED  BY <1>4, <1>9

(* The first token is received, and the others are left. *)
LEMMA JourneyBegins ==
  ASSUME NEW list \in Seq(Token), list # <<>>,
         NEW l \in Nat, NEW p \in Nat, NEW m \in Nat, NEW q \in Nat,
         Journey(list, l, p, m, q)
  PROVE  \E l2, p2 \in Nat :
           Moves(Head(list), l, p, l2, p2) /\ Journey(Tail(list), l2, p2, m, q)
<1>1. PICK N \in Nat : N = Len(list)
  BY LenProperties
<1>2. PICK at \in [0 .. N -> Nat] : \E cost \in [0 .. N -> Nat] :
        /\ at[0] = l /\ cost[0] = p /\ at[N] = m /\ cost[N] = q
        /\ Stops(list, at, cost)
  BY <1>1 DEF Journey
<1>3. PICK cost \in [0 .. N -> Nat] :
        /\ at[0] = l /\ cost[0] = p /\ at[N] = m /\ cost[N] = q
        /\ Stops(list, at, cost)
  BY <1>2
<1>4. N # 0
  BY <1>1, EmptySeq
<1>5. PICK tail : tail = Tail(list)
  OBVIOUS
<1>6. Len(tail) = N - 1 /\ \A k \in 1 .. N - 1 : tail[k] = list[k + 1]
  BY <1>1, <1>5, HeadTailProperties
<1> DEFINE at2 == [k \in 0 .. N - 1 |-> at[k + 1]]
           cost2 == [k \in 0 .. N - 1 |-> cost[k + 1]]
<1>7. /\ at2 \in [0 .. N - 1 -> Nat] /\ cost2 \in [0 .. N - 1 -> Nat]
      /\ \A k \in 0 .. N - 1 : at2[k] = at[k + 1] /\ cost2[k] = cost[k + 1]
  <2>1. \A k \in 0 .. N - 1 : k + 1 \in 0 .. N
    BY <1>4
  <2> QED  BY <2>1
<1> HIDE DEF at2, cost2
<1>8. Stops(tail, at2, cost2)
  <2> SUFFICES ASSUME NEW k \in 1 .. N - 1
               PROVE  Moves(tail[k], at2[k - 1], cost2[k - 1], at2[k], cost2[k])
    BY <1>6 DEF Stops
  <2>1. k + 1 \in 1 .. N /\ k - 1 \in 0 .. N - 1 /\ k \in 0 .. N - 1 /\ (k + 1) - 1 = k
        /\ (k - 1) + 1 = k
    OBVIOUS
  <2>2. Moves(list[k + 1], at[k], cost[k], at[k + 1], cost[k + 1])
    BY <1>1, <1>3, <2>1 DEF Stops
  <2> QED  BY <1>6, <1>7, <2>1, <2>2
<1>9. Moves(list[1], at[0], cost[0], at[1], cost[1])
  <2>1. 1 \in 1 .. N /\ 1 - 1 = 0
    BY <1>4
  <2> QED  BY <1>1, <1>3, <2>1 DEF Stops
<1>10. Head(list) = list[1]
  OBVIOUS
<1>11. /\ at2[0] = at[1] /\ cost2[0] = cost[1] /\ at2[N - 1] = m /\ cost2[N - 1] = q
       /\ at[1] \in Nat /\ cost[1] \in Nat
  <2>1. 0 \in 0 .. N - 1 /\ N - 1 \in 0 .. N - 1 /\ (N - 1) + 1 = N /\ 0 + 1 = 1 /\ 1 \in 0 .. N
    BY <1>4
  <2> QED  BY <1>3, <1>7, <2>1
<1>12. Journey(tail, at[1], cost[1], m, q)
  BY <1>6, <1>7, <1>8, <1>11 DEF Journey
<1> QED  BY <1>3, <1>5, <1>9, <1>10, <1>11, <1>12

-----------------------------------------------------------------------------
(* What a part of a sequence of bytes is made of. *)
LEMMA SubSeqShape ==
  ASSUME NEW s \in Seq(Int), NEW a \in Nat, NEW b \in Nat, a <= b, b <= Len(s)
  PROVE  /\ SubSeq(s, a + 1, b) \in Seq(Int) /\ Len(SubSeq(s, a + 1, b)) = b - a
         /\ \A k \in 1 .. b - a : SubSeq(s, a + 1, b)[k] = s[a + k]
<1>1. Len(s) \in Nat /\ \A k \in 1 .. Len(s) : s[k] \in Int
  BY LenProperties, ElementOfSeq
<1>2. PICK c \in Nat : c = a + 1
  OBVIOUS
<1>3. \A k \in c .. b : s[k] \in Int
  BY <1>1, <1>2
<1>4. /\ SubSeq(s, c, b) \in Seq(Int)
      /\ Len(SubSeq(s, c, b)) = IF c <= b THEN (b - c) + 1 ELSE 0
      /\ \A k \in 1 .. (b - c) + 1 : SubSeq(s, c, b)[k] = s[(c + k) - 1]
  BY <1>2, <1>3, SubSeqProperties
<1>5. PICK N \in Nat : N = b - a
  OBVIOUS
<1>6. (b - c) + 1 = N /\ (IF c <= b THEN (b - c) + 1 ELSE 0) = N
  BY <1>2, <1>5
<1>7. PICK t : t = SubSeq(s, c, b)
  OBVIOUS
<1>8. t \in Seq(Int) /\ Len(t) = N
  BY <1>4, <1>6, <1>7
<1>9. ASSUME NEW k \in 1 .. N PROVE t[k] = s[a + k]
  <2>1. (c + k) - 1 = a + k
    BY <1>2
  <2>2. t[k] = s[(c + k) - 1]
    BY <1>4, <1>6, <1>7
  <2> QED  BY <2>1, <2>2
<1> QED  BY <1>2, <1>5, <1>7, <1>8, <1>9

(* A piece of the new file has the bytes of it from a on. *)
LEMMA PieceShape ==
  ASSUME newData \in Seq(Int), NEW a \in Nat, NEW b \in Nat, a <= b, b <= Len(newData)
  PROVE  /\ Piece(a, b) \in Seq(Int) /\ Len(Piece(a, b)) = b - a
         /\ \A k \in 1 .. b - a : Piece(a, b)[k] = newData[a + k]
BY SubSeqShape DEF Piece

(* A part of a piece is a piece. *)
LEMMA PieceOfPiece ==
  ASSUME newData \in Seq(Int), NEW a \in Nat, NEW b \in Nat, a <= b, b <= Len(newData),
         NEW u \in Nat, NEW v \in Nat, u <= v, v <= b - a
  PROVE  SubSeq(Piece(a, b), u + 1, v) = Piece(a + u, a + v)
<1>1. PICK p : p = Piece(a, b)
  OBVIOUS
<1>2. p \in Seq(Int) /\ Len(p) = b - a /\ \A k \in 1 .. b - a : p[k] = newData[a + k]
  BY <1>1, PieceShape
<1>3. u <= v /\ v <= Len(p)
  BY <1>2
<1>4. PICK x : x = SubSeq(p, u + 1, v)
  OBVIOUS
<1>5. x \in Seq(Int) /\ Len(x) = v - u /\ \A k \in 1 .. v - u : x[k] = p[u + k]
  BY <1>2, <1>3, <1>4, SubSeqShape
<1>8. PICK m \in Nat : m = a + u
  OBVIOUS
<1>9. PICK q \in Nat : q = a + v
  OBVIOUS
<1>10. Len(newData) \in Nat /\ m <= q /\ q <= Len(newData) /\ q - m = v - u
  BY <1>8, <1>9, LenProperties
<1>11. /\ Piece(m, q) \in Seq(Int) /\ Len(Piece(m, q)) = v - u
       /\ \A k \in 1 .. v - u : Piece(m, q)[k] = newData[m + k]
  BY <1>10, PieceShape
<1>12. \A k \in 1 .. v - u : x[k] = Piece(m, q)[k]
  <2> SUFFICES ASSUME NEW k \in 1 .. v - u PROVE x[k] = Piece(m, q)[k]
    OBVIOUS
  <2>1. u + k \in 1 .. b - a /\ a + (u + k) = m + k
    BY <1>8
  <2> QED  BY <1>2, <1>5, <1>11, <2>1
<1>13. x = Piece(m, q)
  BY <1>5, <1>11, <1>12, SeqEqual
<1> QED  BY <1>1, <1>4, <1>8, <1>9, <1>13

(* Two pieces that meet make one. *)
LEMMA PiecesJoin ==
  ASSUME newData \in Seq(Int), NEW a \in Nat, NEW b \in Nat, NEW c \in Nat,
         a <= b, b <= c, c <= Len(newData)
  PROVE  Piece(a, b) \o Piece(b, c) = Piece(a, c)
<1>1. Len(newData) \in Nat
  BY LenProperties
<1>2. PICK p : p = Piece(a, b)
  OBVIOUS
<1>3. PICK q : q = Piece(b, c)
  OBVIOUS
<1>4. PICK r : r = Piece(a, c)
  OBVIOUS
<1>5. p \in Seq(Int) /\ Len(p) = b - a /\ \A k \in 1 .. b - a : p[k] = newData[a + k]
  <2>1. b <= Len(newData)
    BY <1>1
  <2> QED  BY <1>2, <2>1, PieceShape
<1>6. q \in Seq(Int) /\ Len(q) = c - b /\ \A k \in 1 .. c - b : q[k] = newData[b + k]
  BY <1>1, <1>3, PieceShape
<1>7. r \in Seq(Int) /\ Len(r) = c - a /\ \A k \in 1 .. c - a : r[k] = newData[a + k]
  <2>1. a <= c
    OBVIOUS
  <2> QED  BY <1>4, <2>1, PieceShape
<1>8. PICK x : x = p \o q
  OBVIOUS
<1>9. /\ x \in Seq(Int) /\ Len(x) = Len(p) + Len(q)
      /\ \A k \in 1 .. Len(p) + Len(q) : x[k] = IF k <= Len(p) THEN p[k] ELSE q[k - Len(p)]
  BY <1>5, <1>6, <1>8, ConcatProperties
<1>10. Len(p) + Len(q) = c - a
  BY <1>5, <1>6
<1>11. \A k \in 1 .. c - a : x[k] = r[k]
  <2> SUFFICES ASSUME NEW k \in 1 .. c - a PROVE x[k] = r[k]
    OBVIOUS
  <2>1. CASE k <= b - a
    <3>1. k \in 1 .. b - a
      BY <2>1
    <3> QED  BY <1>5, <1>7, <1>9, <1>10, <2>1, <3>1
  <2>2. CASE ~(k <= b - a)
    <3>1. k - (b - a) \in 1 .. c - b /\ b + (k - (b - a)) = a + k
      BY <2>2
    <3> QED  BY <1>5, <1>6, <1>7, <1>9, <1>10, <2>2, <3>1
  <2> QED  BY <2>1, <2>2
<1>12. x = r
  BY <1>7, <1>9, <1>10, <1>11, SeqEqual
<1> QED  BY <1>2, <1>3, <1>4, <1>8, <1>12

(* What File::read returns of the new file. *)
LEMMA ReadPiece ==
  ASSUME newData \in Seq(Int), NEW from \in Nat, from <= Len(newData), NEW size \in Nat
  PROVE  /\ Len(ReadAt(newData, from, size)) \in Nat
         /\ from + Len(ReadAt(newData, from, size)) <= Len(newData)
         /\ ReadAt(newData, from, size) = Piece(from, from + Len(ReadAt(newData, from, size)))
<1>1. Len(newData) \in Nat
  BY LenProperties
<1>2. /\ ReadAt(newData, from, size) \in Seq(Int)
      /\ Len(ReadAt(newData, from, size)) = Least(size, Len(newData) - from)
  BY ReadAtLength
<1>3. from + Least(size, Len(newData) - from) = Least(from + size, Len(newData))
  BY <1>1 DEF Least
<1>4. Least(size, Len(newData) - from) \in Nat /\ Least(from + size, Len(newData)) <= Len(newData)
  BY <1>1 DEF Least
<1> QED  BY <1>2, <1>3, <1>4 DEF ReadAt, Piece

-----------------------------------------------------------------------------
(* Tokens are added at the end of what is on the wire. *)
LEMMA WireGrows ==
  ASSUME OnTheWire, NEW list \in Seq(Token), NEW m \in Nat, NEW q \in Nat,
         Journey(list, logicalReceived, physicalReceived, m, q),
         tokens' = list, logicalSent' = m, physicalSent' = q, UNCHANGED <<input, receiver>>
  PROVE  OnTheWire'
<1>1. UNCHANGED <<newData, oldData, logicalReceived, physicalReceived>>
  BY DEF input, receiver
<1>2. \A u, a, c, b, d : Moves(u, a, c, b, d) => Moves(u, a, c, b, d)'
  BY <1>1 DEF Moves, Block, Piece
<1>3. \A at, cost : Stops(list, at, cost) => Stops(list, at, cost)'
  BY <1>2 DEF Stops
<1>4. Journey(list, logicalReceived, physicalReceived, m, q)
        => Journey(list, logicalReceived, physicalReceived, m, q)'
  BY <1>1, <1>3 DEF Journey
<1> QED  BY <1>1, <1>4 DEF OnTheWire

(* Only a token 0 that is added at the end is the end of the file. *)
LEMMA AppendKinds ==
  ASSUME NEW list \in Seq(Token), NEW t \in Token,
         \A k \in 1 .. Len(list) : list[k].token # 0
  PROVE  /\ Append(list, t) \in Seq(Token) /\ Append(list, t) # <<>>
         /\ t.token # 0 => \A k \in 1 .. Len(Append(list, t)) : Append(list, t)[k].token # 0
         /\ t.token = 0 => \A k \in 1 .. Len(Append(list, t)) :
                             Append(list, t)[k].token = 0 <=> k = Len(Append(list, t))
<1>1. PICK N \in Nat : N = Len(list)
  BY LenProperties
<1>2. PICK long \in Seq(Token) : long = Append(list, t)
  BY AppendProperties
<1>3. /\ Len(long) = N + 1 /\ long[N + 1] = t /\ long # <<>>
      /\ \A k \in 1 .. N : long[k] = list[k]
  BY <1>1, <1>2, AppendProperties
<1>4. \A k \in 1 .. N + 1 : k \in 1 .. N \/ k = N + 1
  OBVIOUS
<1>5. \A k \in 1 .. N : long[k].token # 0 /\ k # N + 1
  BY <1>1, <1>3
<1>6. t.token # 0 => \A k \in 1 .. N + 1 : long[k].token # 0
  BY <1>3, <1>4, <1>5
<1>7. t.token = 0 => \A k \in 1 .. N + 1 : long[k].token = 0 <=> k = N + 1
  BY <1>3, <1>4, <1>5
<1> QED  BY <1>2, <1>3, <1>6, <1>7

(* Two tokens are appended one after the other. *)
LEMMA AppendTwice ==
  ASSUME NEW S, NEW list \in Seq(S), NEW t \in S, NEW u \in S
  PROVE  list \o <<t, u>> = Append(Append(list, t), u)
<1>1. PICK N \in Nat : N = Len(list)
  BY LenProperties
<1>2. PICK two : two = <<t, u>>
  OBVIOUS
<1>3. two \in Seq(S) /\ Len(two) = 2 /\ two[1] = t /\ two[2] = u
  BY <1>2
<1>4. PICK one : one = Append(list, t)
  OBVIOUS
<1>5. one \in Seq(S) /\ Len(one) = N + 1 /\ one[N + 1] = t /\ \A k \in 1 .. N : one[k] = list[k]
  BY <1>1, <1>4, AppendProperties
<1>6. PICK long : long = Append(one, u)
  OBVIOUS
<1>7. /\ long \in Seq(S) /\ Len(long) = N + 2 /\ long[N + 2] = u
      /\ \A k \in 1 .. N + 1 : long[k] = one[k]
  <2>1. (N + 1) + 1 = N + 2
    OBVIOUS
  <2> QED  BY <1>5, <1>6, <2>1, AppendProperties
<1>8. PICK x : x = list \o two
  OBVIOUS
<1>9. /\ x \in Seq(S) /\ Len(x) = N + 2
      /\ \A k \in 1 .. N + 2 : x[k] = IF k <= N THEN list[k] ELSE two[k - N]
  <2>1. /\ list \o two \in Seq(S) /\ Len(list \o two) = Len(list) + Len(two)
        /\ \A k \in 1 .. Len(list) + Len(two) :
              (list \o two)[k] = IF k <= Len(list) THEN list[k] ELSE two[k - Len(list)]
    BY <1>3, ConcatProperties
  <2> QED  BY <1>1, <1>3, <1>8, <2>1
<1>10. ASSUME NEW k \in 1 .. N + 2 PROVE x[k] = long[k]
  <2>1. CASE k \in 1 .. N
    BY <1>5, <1>7, <1>9, <2>1
  <2>2. CASE k = N + 1
    BY <1>3, <1>5, <1>7, <1>9, <2>2
  <2>3. CASE k = N + 2
    BY <1>3, <1>7, <1>9, <2>3
  <2> QED  BY <2>1, <2>2, <2>3
<1>11. x = long
  BY <1>7, <1>9, <1>10, SeqEqual
<1> QED  BY <1>2, <1>4, <1>6, <1>8, <1>11

(* One token is sent. *)
LEMMA SendOne ==
  ASSUME OnTheWire, NoEnd, NEW t \in Token, NEW l \in Nat, NEW p \in Nat,
         Moves(t, logicalSent, physicalSent, logicalSent + l, physicalSent + p),
         Send(<<t>>, l, p), UNCHANGED <<input, receiver>>
  PROVE  OnTheWire' /\ IF t.token = 0 THEN EndIsLast' ELSE NoEnd'
<1>1. PICK m \in Nat : m = logicalSent + l
  BY DEF OnTheWire
<1>2. PICK q \in Nat : q = physicalSent + p
  BY DEF OnTheWire
<1>3. PICK list \in Seq(Token) : list = Append(tokens, t)
  BY AppendProperties DEF OnTheWire
<1>4. Journey(list, logicalReceived, physicalReceived, m, q)
  <2>1. Moves(t, logicalSent, physicalSent, m, q)
    BY <1>1, <1>2
  <2> QED  BY <1>3, <2>1, JourneyGoesOn DEF OnTheWire
<1>5. tokens' = list /\ logicalSent' = m /\ physicalSent' = q
  <2>1. tokens \o <<t>> = Append(tokens, t)
    BY AppendIsConcat DEF OnTheWire
  <2> QED  BY <1>1, <1>2, <1>3, <2>1 DEF Send
<1>6. OnTheWire'
  BY <1>4, <1>5, WireGrows
<1>7. IF t.token = 0 THEN EndIsLast' ELSE NoEnd'
  BY <1>3, <1>5, AppendKinds DEF OnTheWire, NoEnd, EndIsLast
<1> QED  BY <1>6, <1>7

(* Two tokens are sent. *)
LEMMA SendTwo ==
  ASSUME OnTheWire, NoEnd, NEW t \in Token, NEW u \in Token, t.token # 0, u.token # 0,
         NEW l \in Nat, NEW p \in Nat, NEW l2 \in Nat, NEW p2 \in Nat,
         Moves(t, logicalSent, physicalSent, logicalSent + l, physicalSent + p),
         Moves(u, logicalSent + l, physicalSent + p, logicalSent + l2, physicalSent + p2),
         Send(<<t, u>>, l2, p2), UNCHANGED <<input, receiver>>
  PROVE  OnTheWire' /\ NoEnd'
<1>1. PICK m \in Nat : m = logicalSent + l
  BY DEF OnTheWire
<1>2. PICK q \in Nat : q = physicalSent + p
  BY DEF OnTheWire
<1>3. PICK m2 \in Nat : m2 = logicalSent + l2
  BY DEF OnTheWire
<1>4. PICK q2 \in Nat : q2 = physicalSent + p2
  BY DEF OnTheWire
<1>5. PICK list \in Seq(Token) : list = Append(tokens, t)
  BY AppendProperties DEF OnTheWire
<1>6. Journey(list, logicalReceived, physicalReceived, m, q)
  <2>1. Moves(t, logicalSent, physicalSent, m, q)
    BY <1>1, <1>2
  <2> QED  BY <1>5, <2>1, JourneyGoesOn DEF OnTheWire
<1>7. PICK long \in Seq(Token) : long = Append(list, u)
  BY AppendProperties
<1>8. Journey(long, logicalReceived, physicalReceived, m2, q2)
  <2>1. Moves(u, m, q, m2, q2)
    BY <1>1, <1>2, <1>3, <1>4
  <2> QED  BY <1>6, <1>7, <2>1, JourneyGoesOn DEF OnTheWire
<1>9. tokens' = long /\ logicalSent' = m2 /\ physicalSent' = q2
  <2>1. long = tokens \o <<t, u>>
    <3>1. PICK old : old = tokens
      OBVIOUS
    <3>2. old \in Seq(Token)
      BY <3>1 DEF OnTheWire
    <3>3. old \o <<t, u>> = Append(Append(old, t), u)
      BY <3>2, AppendTwice
    <3> QED  BY <1>5, <1>7, <3>1, <3>3
  <2> QED  BY <1>3, <1>4, <2>1 DEF Send
<1>10. OnTheWire'
  BY <1>8, <1>9, WireGrows
<1>11. NoEnd'
  <2>1. \A k \in 1 .. Len(list) : list[k].token # 0
    BY <1>5, AppendKinds DEF OnTheWire, NoEnd
  <2> QED  BY <1>7, <1>9, <2>1, AppendKinds DEF NoEnd
<1> QED  BY <1>10, <1>11

(* Nothing happens on the wire. *)
LEMMA WireRests ==
  ASSUME OnTheWire, UNCHANGED <<input, sent, receiver>>
  PROVE  OnTheWire' /\ (NoEnd => NoEnd')
<1>1. PICK list \in Seq(Token) : list = tokens
  BY DEF OnTheWire
<1>2. PICK m \in Nat : m = logicalSent
  BY DEF OnTheWire
<1>3. PICK q \in Nat : q = physicalSent
  BY DEF OnTheWire
<1>4. tokens' = list /\ logicalSent' = m /\ physicalSent' = q
  BY <1>1, <1>2, <1>3 DEF sent
<1>5. Journey(list, logicalReceived, physicalReceived, m, q)
  BY <1>1, <1>2, <1>3 DEF OnTheWire
<1>6. OnTheWire'
  BY <1>4, <1>5, WireGrows
<1>7. NoEnd => NoEnd'
  BY <1>1, <1>4 DEF NoEnd
<1> QED  BY <1>6, <1>7

-----------------------------------------------------------------------------
(* A nonempty set of natural numbers has a least one. *)
LEMMA LeastNumber ==
  ASSUME NEW T, T \subseteq Nat, T # {}
  PROVE  \E x \in T : \A y \in T : x <= y
<1> DEFINE R == OpToRel(<, Nat)
<1>1. IsWellFoundedOn(R, Nat)
  BY NatLessThanWellFounded
<1>2. PICK x \in T : \A y \in T : <<y, x>> \notin R
  <2> HIDE DEF R
  <2> QED  BY <1>1, WFMin
<1>3. \A y \in T : <<y, x>> \in R <=> y < x
  BY DEF OpToRel
<1>4. \A y \in T : ~(y < x)
  <2> HIDE DEF R
  <2> QED  BY <1>2, <1>3
<1>5. \A y \in T : y \in Nat
  OBVIOUS
<1> HIDE DEF R
<1> QED  BY <1>4, <1>5

(* The search of the hash table finds a block if there is one. *)
LEMMA BucketMatches ==
  ASSUME count \in Nat, Matches # {}
  PROVE  Bucket \in Matches
<1>1. PICK c \in Nat : c = count
  OBVIOUS
<1>2. Matches \subseteq 1 .. c
  BY <1>1 DEF Matches
<1> DEFINE T == {x \in 0 .. c : c - x \in Matches}
<1>3. T \subseteq Nat /\ \A x \in T : x \in 0 .. c /\ c - x \in Matches
  OBVIOUS
<1>4. T # {}
  <2>1. PICK k : k \in Matches
    OBVIOUS
  <2>2. c - k \in 0 .. c /\ c - (c - k) = k
    BY <1>2, <2>1
  <2> QED  BY <2>1, <2>2
<1>5. PICK x \in T : \A y \in T : x <= y
  <2> HIDE DEF T
  <2> QED  BY <1>3, <1>4, LeastNumber
<1>6. ASSUME NEW j \in Matches PROVE j <= c - x
  <2>1. j \in 1 .. c /\ c - j \in 0 .. c /\ c - (c - j) = j
    BY <1>2
  <2>2. c - j \in T
    BY <2>1
  <2>3. x <= c - j /\ x \in 0 .. c
    BY <1>3, <1>5, <2>2
  <2> QED  BY <2>1, <2>3
<1>7. c - x \in Matches
  BY <1>3, <1>5
<1> QED  BY <1>6, <1>7 DEF Bucket

(* No block begins behind the end of the old file. *)
LEMMA BlockBegins ==
  ASSUME NEW size \in Nat
  PROVE  /\ BlockCount(size) \in Nat \ {0}
         /\ \A k \in 1 .. BlockCount(size) : (k - 1) * BlockLength <= size
<1>0. BlockLength \in Nat \ {0}
  BY DeltaAssumption
<1>1. CASE size = 0
  <2>1. BlockCount(size) = 1
    BY <1>1 DEF BlockCount
  <2>2. \A k \in 1 .. 1 : k - 1 = 0
    OBVIOUS
  <2>3. 0 * BlockLength = 0
    BY <1>0
  <2> QED  BY <1>1, <2>1, <2>2, <2>3
<1>2. CASE size # 0
  <2>1. PICK b \in Nat : b = size - 1
    BY <1>2
  <2>2. PICK q : q = b \div BlockLength
    OBVIOUS
  <2>3. q \in Nat /\ q * BlockLength <= b
    BY <1>0, <2>1, <2>2
  <2>4. BlockCount(size) = q + 1
    BY <1>2, <2>1, <2>2 DEF BlockCount
  <2>5. ASSUME NEW k \in 1 .. q + 1 PROVE (k - 1) * BlockLength <= size
    <3>1. k - 1 \in Nat /\ k - 1 <= q
      BY <2>3
    <3>2. (k - 1) * BlockLength <= q * BlockLength
      BY <1>0, <2>3, <3>1
    <3>3. (k - 1) * BlockLength \in Nat /\ q * BlockLength \in Nat
      BY <1>0, <2>3, <3>1
    <3> QED  BY <2>1, <2>3, <3>2, <3>3
  <2> QED  BY <2>3, <2>4, <2>5
<1> QED  BY <1>1, <1>2

(* The counters move over data by its bytes and the four of the token. *)
LEMMA DataMoves ==
  ASSUME newData \in Seq(Int), NEW a \in Nat, NEW l \in Nat, a + l <= Len(newData), NEW p \in Nat,
         NEW bytes, bytes = Piece(a, a + l), l # 0
  PROVE  /\ DataToken(bytes) \in Token /\ DataToken(bytes).token # 0
         /\ Moves(DataToken(bytes), a, p, a + l, p + (4 + l))
<1>1. bytes \in Seq(Int) /\ Len(bytes) = l
  <2>1. PICK b \in Nat : b = a + l
    OBVIOUS
  <2>2. a <= b /\ b <= Len(newData) /\ b - a = l
    BY <2>1
  <2> QED  BY <2>1, <2>2, PieceShape
<1>2. PICK t : t = DataToken(bytes)
  OBVIOUS
<1>3. t = [token |-> l, data |-> bytes]
  BY <1>1, <1>2 DEF DataToken
<1>4. t \in Token /\ t.token = l /\ t.data = bytes
  BY <1>1, <1>3 DEF Token
<1>5. l > 0 /\ p + (4 + l) = (p + 4) + l /\ a <= a + l
  OBVIOUS
<1>6. Moves(t, a, p, a + l, p + (4 + l))
  BY <1>4, <1>5 DEF Moves
<1> QED  BY <1>2, <1>4, <1>6

(* Over a block they move by its bytes on one side and by four on the other. *)
LEMMA BlockMoves ==
  ASSUME NEW a \in Nat, NEW l \in Nat, a + l <= Len(newData), NEW p \in Nat,
         NEW k \in Nat \ {0}, Block(k) = Piece(a, a + l), (k - 1) * BlockLength <= Len(oldData)
  PROVE  /\ BlockToken(k) \in Token /\ BlockToken(k).token # 0
         /\ Moves(BlockToken(k), a, p, a + l, p + 4)
<1>1. PICK t : t = BlockToken(k)
  OBVIOUS
<1>2. t = [token |-> -k, data |-> <<>>]
  BY <1>1 DEF BlockToken
<1>3. t.token = -k /\ -k \in Int /\ <<>> \in Seq(Int)
  BY <1>2
<1>4. t \in Token
  BY <1>2, <1>3 DEF Token
<1>5. -t.token = k /\ t.token < 0 /\ ~(t.token > 0) /\ t.token # 0 /\ a <= a + l
  BY <1>3
<1>6. Moves(t, a, p, a + l, p + 4)
  BY <1>5 DEF Moves
<1> QED  BY <1>1, <1>4, <1>5, <1>6

(* What no step of sendFile touches. *)
LEMMA OthersKept ==
  ASSUME TokenInv, UNCHANGED <<input, header, receiver>>, pc' # "done"
  PROVE  Described' /\ InOldFile' /\ Received'
<1>1. /\ UNCHANGED <<oldData, newData, checksums, newFile, oldPosition, previousToken,
                     logicalReceived>>
  BY DEF input, header, receiver
<1> QED  BY <1>1 DEF TokenInv, Described, InOldFile, Received, Block, Piece, count

-----------------------------------------------------------------------------
(* Nothing is on the wire, and nothing has been received. *)
LEMMA InitTokens == Init => TokenInv
<1> SUFFICES ASSUME Init PROVE TokenInv
  OBVIOUS
<1>1. oldData \in Seq(Int) /\ newData \in Seq(Int) /\ Len(newData) \in Nat
  BY DeltaAssumption, LenProperties DEF Init
<1>2. Len(<<>>) = 0 /\ count = 0
  BY DEF Init, count
<1>3. Described /\ InOldFile
  BY <1>1, <1>2 DEF Init, Described, InOldFile
<1>4. Piece(0, 0) = <<>>
  BY SubSeqEmpty DEF Piece
<1>5. Received
  BY <1>4 DEF Init, Received
<1>6. OnTheWire
  BY <1>1, JourneyNowhere DEF Init, OnTheWire
<1>7. NoEnd
  BY <1>2 DEF Init, NoEnd
<1> QED  BY <1>2, <1>3, <1>5, <1>6, <1>7 DEF Init, TokenInv

(* sendChecksum: the header describes every block of the old file. *)
LEMMA ChecksumTokens == ScanInv /\ TokenInv /\ SendChecksum => TokenInv'
<1> SUFFICES ASSUME ScanInv, TokenInv, SendChecksum PROVE TokenInv'
  OBVIOUS
<1>1. /\ pc = "checksum" /\ pc' = "start" /\ count = 0 /\ NoEnd /\ OnTheWire
      /\ UNCHANGED <<input, sent, receiver>>
  BY DEF TokenInv, SendChecksum
<1>2. /\ UNCHANGED <<oldData, newData, newFile, oldPosition, previousToken, logicalReceived>>
      /\ oldData \in Seq(Int) /\ Len(oldData) \in Nat
  BY <1>1, LenProperties DEF input, receiver, TokenInv, Described
<1>3. OnTheWire' /\ NoEnd'
  BY <1>1, WireRests
<1>4. InOldFile' /\ Received'
  BY <1>1, <1>2 DEF TokenInv, InOldFile, Received, Piece
<1>5. Described'
  <2>1. CASE ~hasOld
    <3>1. checksums' = checksums
      BY <2>1 DEF SendChecksum, header
    <3> QED  BY <1>2, <3>1 DEF TokenInv, Described, Block, count
  <2>2. CASE hasOld
    <3>1. PICK blocks : blocks = BlockCount(Len(oldData))
      OBVIOUS
    <3>2. /\ blocks \in Nat \ {0}
          /\ \A k \in 1 .. blocks : (k - 1) * BlockLength <= Len(oldData)
      BY <1>2, <3>1, BlockBegins
    <3> DEFINE record(k) == [sum1 |-> RollingChecksum(Block(k)), sum2 |-> Block(k)]
               S == {record(k) : k \in 1 .. blocks}
    <3>3. PICK f : f = [k \in 1 .. blocks |-> record(k)]
      OBVIOUS
    <3>4. checksums' = f
      BY <2>2, <3>1, <3>3 DEF SendChecksum, Block, Digest
    <3>5. \A k \in 1 .. blocks : f[k] = record(k) /\ f[k].sum2 = Block(k)
      BY <3>3
    <3>6. f \in [1 .. blocks -> S]
      BY <3>3
    <3>7. Len(f) = blocks
      <4> HIDE DEF S
      <4>1. f \in Seq(S)
        BY <3>2, <3>6, SeqDef
      <4>2. DOMAIN f = 1 .. blocks /\ DOMAIN f = 1 .. Len(f) /\ Len(f) \in Nat
        BY <3>6, <4>1, LenProperties
      <4> QED  BY <3>2, <4>2
    <3> HIDE DEF S, record
    <3>8. count' = blocks /\ \A k \in 1 .. blocks : checksums'[k].sum2 = Block(k)'
      BY <1>2, <3>4, <3>5, <3>7 DEF count, Block
    <3> QED  BY <1>2, <3>2, <3>8 DEF Described
  <2> QED  BY <2>1, <2>2
<1> QED  BY <1>1, <1>3, <1>4, <1>5 DEF TokenInv

(* The first read: either all of the file is sent, or it is in the chunk. *)
LEMMA StartTokens == ScanInv /\ TokenInv /\ Start => TokenInv'
<1> SUFFICES ASSUME ScanInv, TokenInv, Start PROVE TokenInv'
  OBVIOUS
<1>1. /\ pc = "start" /\ NoEnd /\ OnTheWire /\ UNCHANGED <<input, header, receiver>>
      /\ pc' \in {"plain", "trailer", "match"}
  BY DEF TokenInv, Start
<1>2. Described' /\ InOldFile' /\ Received'
  BY <1>1, OthersKept
<1>3. PICK size \in Nat : size = chunkSize
  BY DeltaAssumption DEF chunkSize
<1>4. PICK first : first = ReadAt(newData, 0, size)
  OBVIOUS
<1>5. /\ newData \in Seq(Int) /\ Len(newData) \in Nat /\ logicalSent = 0
      /\ newData' = newData /\ count' = count /\ physicalSent \in Nat
  BY <1>1, LenProperties DEF ScanInv, ScanType, Untouched, input, header, count, OnTheWire
<1>6. PICK l \in Nat : l = Len(first)
  BY <1>4, <1>5, ReadPiece
<1>7. 0 + l <= Len(newData) /\ first = Piece(0, 0 + l) /\ 0 + l = l
  BY <1>4, <1>5, <1>6, ReadPiece
<1>8. first = <<>> <=> l = 0
  <2>1. first \in Seq(Int)
    BY <1>4, <1>5, ReadAtLength
  <2> QED  BY <1>6, <2>1, EmptySeq
<1>9. CASE count = 0
  <2>1. pc' = "plain" /\ UNCHANGED sent
    BY <1>9 DEF Start
  <2>2. OnTheWire' /\ NoEnd'
    BY <1>1, <2>1, WireRests
  <2> QED  BY <1>2, <2>1, <2>2 DEF TokenInv
<1>10. CASE count # 0 /\ l < BlockLength
  <2>1. /\ pc' = "trailer"
        /\ IF l = 0 THEN UNCHANGED sent ELSE Send(<<DataToken(first)>>, l, l + 4)
    BY <1>3, <1>4, <1>6, <1>8, <1>10 DEF Start
  <2>2. CASE l = 0
    BY <1>1, <1>2, <2>1, <2>2, WireRests DEF TokenInv
  <2>3. CASE l # 0
    <3>1. PICK p \in Nat : p = physicalSent
      BY <1>5
    <3>2. PICK t : t = DataToken(first)
      OBVIOUS
    <3>3. t \in Token /\ t.token # 0 /\ Moves(t, 0, p, 0 + l, p + (4 + l))
      BY <1>5, <1>7, <2>3, <3>2, DataMoves
    <3>4. Moves(t, logicalSent, physicalSent, logicalSent + l, physicalSent + (4 + l))
      BY <1>5, <3>1, <3>3
    <3>5. Send(<<t>>, l, 4 + l) /\ 4 + l \in Nat
      BY <2>1, <2>3, <3>2
    <3>6. OnTheWire' /\ NoEnd'
      BY <1>1, <3>3, <3>4, <3>5, SendOne
    <3> QED  BY <1>2, <2>1, <3>6 DEF TokenInv
  <2> QED  BY <2>2, <2>3
<1>11. CASE count # 0 /\ ~(l < BlockLength)
  <2>1. pc' = "match" /\ UNCHANGED sent /\ position' = l /\ chunk' = first
    BY <1>3, <1>4, <1>6, <1>11 DEF Start
  <2>2. OnTheWire' /\ NoEnd'
    BY <1>1, <2>1, WireRests
  <2>3. chunk' = Piece(logicalSent, position)'
    BY <1>5, <1>7, <2>1 DEF Piece, sent
  <2> QED  BY <1>2, <1>5, <1>11, <2>1, <2>2, <2>3 DEF TokenInv
<1> QED  BY <1>9, <1>10, <1>11

(* Without checksums each read is sent. *)
LEMMA PlainTokens == ScanInv /\ TokenInv /\ SendPlain => TokenInv'
<1> SUFFICES ASSUME ScanInv, TokenInv, SendPlain PROVE TokenInv'
  OBVIOUS
<1>1. /\ pc = "plain" /\ NoEnd /\ OnTheWire /\ UNCHANGED <<input, header, receiver>>
      /\ pc' \in {"plain", "trailer"}
  BY DEF TokenInv, SendPlain
<1>2. Described' /\ InOldFile' /\ Received'
  BY <1>1, OthersKept
<1>3. PICK a \in Nat : a = logicalSent
  BY <1>1 DEF OnTheWire
<1>4. PICK bytes : bytes = ReadAt(newData, position, PlainChunk)
  OBVIOUS
<1>5. /\ newData \in Seq(Int) /\ Len(newData) \in Nat /\ position = a /\ a <= Len(newData)
      /\ physicalSent \in Nat
  BY <1>1, <1>3, LenProperties DEF ScanInv, ScanType, OnTheWire
<1>6. PICK l \in Nat : l = Len(bytes)
  BY <1>4, <1>5, ReadPiece, DeltaAssumption
<1>7. a + l <= Len(newData) /\ bytes = Piece(a, a + l)
  BY <1>4, <1>5, <1>6, ReadPiece, DeltaAssumption
<1>8. bytes = <<>> <=> l = 0
  <2>1. bytes \in Seq(Int)
    BY <1>4, <1>5, ReadAtLength, DeltaAssumption
  <2> QED  BY <1>6, <2>1, EmptySeq
<1>9. CASE l = 0
  <2>1. UNCHANGED sent
    BY <1>4, <1>8, <1>9 DEF SendPlain
  <2> QED  BY <1>1, <1>2, <2>1, WireRests DEF TokenInv
<1>10. CASE l # 0
  <2>1. PICK p \in Nat : p = physicalSent
    BY <1>5
  <2>2. PICK t : t = DataToken(bytes)
    OBVIOUS
  <2>3. t \in Token /\ t.token # 0 /\ Moves(t, a, p, a + l, p + (4 + l))
    BY <1>5, <1>7, <1>10, <2>2, DataMoves
  <2>4. Moves(t, logicalSent, physicalSent, logicalSent + l, physicalSent + (4 + l))
    BY <1>3, <2>1, <2>3
  <2>5. Send(<<t>>, l, l + 4) /\ 4 + l \in Nat /\ 4 + l = l + 4
    BY <1>4, <1>6, <1>8, <1>10, <2>2 DEF SendPlain
  <2>6. OnTheWire' /\ NoEnd'
    BY <1>1, <2>3, <2>4, <2>5, SendOne
  <2> QED  BY <1>1, <1>2, <2>6 DEF TokenInv
<1> QED  BY <1>9, <1>10

-----------------------------------------------------------------------------
(* The chunk of the scan, as a piece of the new file. *)
LEMMA ChunkPiece ==
  ASSUME ScanInv, TokenInv, pc \in {"match", "refill", "advance"},
         NEW u \in Nat, NEW v \in Nat, u <= v, v <= Len(chunk)
  PROVE  /\ SubSeq(chunk, u + 1, v) = Piece(logicalSent + u, logicalSent + v)
         /\ logicalSent + v <= Len(newData)
<1>1. PICK a \in Nat : a = logicalSent
  BY DEF ScanInv, ScanType
<1>2. PICK b \in Nat : b = position
  BY DEF ScanInv, ScanType
<1>3. /\ chunk = Piece(a, b) /\ b = a + Len(chunk) /\ b <= Len(newData)
      /\ newData \in Seq(Int) /\ Len(chunk) \in Nat
  BY <1>1, <1>2, LenProperties DEF TokenInv, ScanInv, ScanType, Accounted
<1>4. a <= b /\ v <= b - a /\ Len(newData) \in Nat /\ a + v <= Len(newData)
  BY <1>3, LenProperties
<1>5. SubSeq(Piece(a, b), u + 1, v) = Piece(a + u, a + v)
  <2>1. newData \in Seq(Int) /\ a <= b /\ b <= Len(newData) /\ v <= b - a
    BY <1>3, <1>4
  <2> QED  BY <2>1, PieceOfPiece
<1> QED  BY <1>1, <1>3, <1>4, <1>5

(* What is left of the chunk when its first u bytes are sent. *)
LEMMA ChunkRest ==
  ASSUME ScanInv, TokenInv, pc \in {"match", "refill", "advance"},
         NEW u \in Nat, u <= Len(chunk), chunk' = Drop(chunk, u),
         logicalSent' = logicalSent + u, position' = position, newData' = newData
  PROVE  (chunk = Piece(logicalSent, position))'
<1>1. PICK v \in Nat : v = Len(chunk)
  BY LenProperties DEF ScanInv, ScanType
<1>2. SubSeq(chunk, u + 1, v) = Piece(logicalSent + u, logicalSent + v)
  <2>1. u <= v /\ v <= Len(chunk)
    BY <1>1
  <2> QED  BY <2>1, ChunkPiece
<1>3. logicalSent + v = position
  BY <1>1 DEF ScanInv, Accounted
<1> QED  BY <1>1, <1>2, <1>3 DEF Drop, Piece

(* Data and the block behind it, as the list that Match sends. *)
LEMMA TwoInOne ==
  ASSUME NEW t, NEW u
  PROVE  <<t>> \o <<u>> = <<t, u>>
<1>1. PICK S : S = {t, u}
  OBVIOUS
<1>2. PICK a : a = <<t>>
  OBVIOUS
<1>3. PICK b : b = <<u>>
  OBVIOUS
<1>4. PICK c : c = <<t, u>>
  OBVIOUS
<1>5. /\ a \in Seq(S) /\ b \in Seq(S) /\ c \in Seq(S)
      /\ Len(a) = 1 /\ Len(b) = 1 /\ Len(c) = 2
      /\ a[1] = t /\ b[1] = u /\ c[1] = t /\ c[2] = u
  BY <1>1, <1>2, <1>3, <1>4
<1>6. /\ a \o b \in Seq(S) /\ Len(a \o b) = Len(a) + Len(b)
      /\ \A k \in 1 .. Len(a) + Len(b) : (a \o b)[k] = IF k <= Len(a) THEN a[k] ELSE b[k - Len(a)]
  BY <1>5, ConcatProperties
<1>7. PICK x : x = a \o b
  OBVIOUS
<1>8. x \in Seq(S) /\ Len(x) = 2 /\ x[1] = t /\ x[2] = u
  BY <1>5, <1>6, <1>7
<1>9. \A k \in 1 .. 2 : k = 1 \/ k = 2
  OBVIOUS
<1>10. x = c
  BY <1>5, <1>8, <1>9, SeqEqual
<1> QED  BY <1>2, <1>3, <1>4, <1>7, <1>10

(* A match is sent as the data in front of it and the name of the block. *)
LEMMA MatchTokens == ScanInv /\ TokenInv /\ Match => TokenInv'
<1> SUFFICES ASSUME ScanInv, TokenInv, Match PROVE TokenInv'
  OBVIOUS
<1>1. /\ pc = "match" /\ NoEnd /\ OnTheWire /\ UNCHANGED <<input, header, receiver>>
      /\ pc' = "refill" /\ count # 0 /\ count \in Nat
      /\ chunk' = Drop(chunk, i) /\ position' = position
  BY DEF TokenInv, Described, Match
<1>2. Described' /\ InOldFile' /\ Received'
  BY <1>1, OthersKept
<1>3. PICK B \in Nat \ {0} : B = BlockLength
  BY DeltaAssumption
<1>4. PICK a \in Nat : a = logicalSent
  BY <1>1 DEF OnTheWire
<1>5. PICK p \in Nat : p = physicalSent
  BY <1>1 DEF OnTheWire
<1>6. PICK x \in Nat : x = i
  BY DEF ScanInv, ScanType
<1>7. /\ B <= x /\ x <= Len(chunk) /\ newData \in Seq(Int) /\ newData' = newData
      /\ count' = count
  BY <1>1, <1>3, <1>6 DEF ScanInv, ScanType, AtMatch, input, header, count
<1>8. PICK d \in Nat : d = x - B
  BY <1>7
<1>9. Take(chunk, d) = Piece(a, a + d) /\ a + d <= Len(newData)
  <2>1. d <= Len(chunk) /\ 0 <= d /\ 0 + 1 = 1
    BY <1>7, <1>8, LenProperties DEF ScanInv, ScanType
  <2>2. SubSeq(chunk, 0 + 1, d) = Piece(logicalSent + 0, logicalSent + d)
        /\ logicalSent + d <= Len(newData)
    BY <1>1, <2>1, ChunkPiece
  <2>3. a + 0 = a
    OBVIOUS
  <2> QED  BY <1>4, <2>1, <2>2, <2>3 DEF Take
<1>10. Window = Piece(a + d, a + x) /\ a + x <= Len(newData) /\ (a + d) + B = a + x
  <2>1. d <= x /\ (i - BlockLength) + 1 = d + 1
    BY <1>3, <1>6, <1>8
  <2>2. SubSeq(chunk, d + 1, x) = Piece(logicalSent + d, logicalSent + x)
        /\ logicalSent + x <= Len(newData)
    BY <1>1, <1>7, <2>1, ChunkPiece
  <2> QED  BY <1>4, <1>6, <1>8, <2>1, <2>2 DEF Window
<1>11. PICK k : k = Bucket
  OBVIOUS
<1>12. k \in Nat \ {0} /\ Block(k) = Piece(a + d, (a + d) + B)
       /\ (k - 1) * BlockLength <= Len(oldData)
  <2>1. Bucket \in Matches
    BY <1>1, BucketMatches DEF Match
  <2>2. k \in 1 .. count /\ checksums[k].sum2 = Window
    BY <1>11, <2>1 DEF Matches, Digest
  <2>3. checksums[k].sum2 = Block(k) /\ (k - 1) * BlockLength <= Len(oldData)
    BY <2>2 DEF TokenInv, Described
  <2> QED  BY <1>1, <1>10, <2>2, <2>3
<1>13. PICK u : u = BlockToken(k)
  OBVIOUS
<1>14. /\ Send(DataBefore \o <<u>>, x, 4 + IF x > B THEN d + 4 ELSE 0)
       /\ DataBefore = IF x > B THEN <<DataToken(Take(chunk, d))>> ELSE <<>>
  BY <1>3, <1>6, <1>8, <1>11, <1>13 DEF Match, DataBefore
<1>15. ASSUME NEW q \in Nat
       PROVE  u \in Token /\ u.token # 0 /\ Moves(u, a + d, q, a + x, q + 4)
  <2>1. PICK b \in Nat : b = a + d
    OBVIOUS
  <2>2. Block(k) = Piece(b, b + B) /\ b + B <= Len(newData) /\ b + B = a + x
    BY <1>10, <1>12, <2>1
  <2>3. u \in Token /\ u.token # 0 /\ Moves(u, b, q, b + B, q + 4)
    BY <1>12, <1>13, <2>2, BlockMoves
  <2> QED  BY <2>1, <2>2, <2>3
<1>16. OnTheWire' /\ NoEnd' /\ logicalSent' = logicalSent + x
  <2>1. CASE x > B
    <3>1. PICK t : t = DataToken(Take(chunk, d))
      OBVIOUS
    <3>2. d # 0
      BY <1>8, <2>1
    <3>3. t \in Token /\ t.token # 0 /\ Moves(t, a, p, a + d, p + (4 + d))
      BY <1>7, <1>9, <3>1, <3>2, DataMoves
    <3>4. Send(<<t>> \o <<u>>, x, 4 + (d + 4))
      BY <1>14, <2>1, <3>1
    <3>5. <<t>> \o <<u>> = <<t, u>>
      BY <1>15, <3>3, TwoInOne
    <3>6. Moves(u, a + d, p + (4 + d), a + x, (p + (4 + d)) + 4)
      BY <1>15
    <3>7. (p + (4 + d)) + 4 = p + (4 + (d + 4)) /\ 4 + d \in Nat /\ 4 + (d + 4) \in Nat
      OBVIOUS
    <3>8. /\ Moves(t, logicalSent, physicalSent, logicalSent + d, physicalSent + (4 + d))
          /\ Moves(u, logicalSent + d, physicalSent + (4 + d),
                   logicalSent + x, physicalSent + (4 + (d + 4)))
      BY <1>4, <1>5, <3>3, <3>6, <3>7
    <3>9. Send(<<t, u>>, x, 4 + (d + 4))
      BY <3>4, <3>5
    <3>10. u \in Token /\ u.token # 0
      BY <1>15
    <3>11. OnTheWire' /\ NoEnd'
      BY <1>1, <3>3, <3>7, <3>8, <3>9, <3>10, SendTwo
    <3> QED  BY <3>9, <3>11 DEF Send
  <2>2. CASE ~(x > B)
    <3>1. d = 0 /\ x = B /\ a + d = a
      BY <1>7, <1>8, <2>2
    <3>2. Send(<<u>>, x, 4)
      <4>1. <<>> \o <<u>> = <<u>>
        OBVIOUS
      <4>2. 4 + 0 = 4
        OBVIOUS
      <4> QED  BY <1>14, <2>2, <4>1, <4>2
    <3>3. u \in Token /\ u.token # 0 /\ Moves(u, a, p, a + x, p + 4)
      BY <1>15, <3>1
    <3>4. Moves(u, logicalSent, physicalSent, logicalSent + x, physicalSent + 4)
      BY <1>4, <1>5, <3>3
    <3>5. OnTheWire' /\ NoEnd'
      BY <1>1, <3>2, <3>3, <3>4, SendOne
    <3> QED  BY <3>2, <3>5 DEF Send
  <2> QED  BY <2>1, <2>2
<1>17. (chunk = Piece(logicalSent, position))'
  BY <1>1, <1>6, <1>7, <1>16, ChunkRest
<1> QED  BY <1>1, <1>2, <1>7, <1>16, <1>17 DEF TokenInv

(* A slide sends the front of the chunk as data. *)
LEMMA SlideTokens == ScanInv /\ TokenInv /\ Slide => TokenInv'
<1> SUFFICES ASSUME ScanInv, TokenInv, Slide PROVE TokenInv'
  OBVIOUS
<1>1. /\ pc = "match" /\ NoEnd /\ OnTheWire /\ UNCHANGED <<input, header, receiver>>
      /\ pc' = "refill" /\ count # 0 /\ count \in Nat /\ position' = position
      /\ i >= chunkSize
  BY DEF TokenInv, Described, Slide
<1>2. Described' /\ InOldFile' /\ Received'
  BY <1>1, OthersKept
<1>3. PICK a \in Nat : a = logicalSent
  BY <1>1 DEF OnTheWire
<1>4. PICK p \in Nat : p = physicalSent
  BY <1>1 DEF OnTheWire
<1>5. /\ BlockLength <= i /\ i <= Len(chunk) /\ newData \in Seq(Int) /\ newData' = newData
      /\ count' = count /\ i \in Nat /\ BlockLength \in Nat \ {0} /\ Len(chunk) \in Nat
  BY <1>1, LenProperties, DeltaAssumption DEF ScanInv, ScanType, AtMatch, input, header, count
<1>6. PICK d \in Nat : d = i - BlockLength
  BY <1>5
<1>7. d # 0 /\ d <= Len(chunk)
  BY <1>1, <1>5, <1>6 DEF chunkSize
<1>8. Take(chunk, d) = Piece(a, a + d) /\ a + d <= Len(newData)
  <2>1. d <= Len(chunk) /\ 0 <= d /\ 0 + 1 = 1
    BY <1>7
  <2>2. SubSeq(chunk, 0 + 1, d) = Piece(logicalSent + 0, logicalSent + d)
        /\ logicalSent + d <= Len(newData)
    BY <1>1, <2>1, ChunkPiece
  <2>3. a + 0 = a
    OBVIOUS
  <2> QED  BY <1>3, <2>1, <2>2, <2>3 DEF Take
<1>9. PICK t : t = DataToken(Take(chunk, d))
  OBVIOUS
<1>10. t \in Token /\ t.token # 0 /\ Moves(t, a, p, a + d, p + (4 + d))
  BY <1>5, <1>7, <1>8, <1>9, DataMoves
<1>11. Moves(t, logicalSent, physicalSent, logicalSent + d, physicalSent + (4 + d))
  BY <1>3, <1>4, <1>10
<1>12. Send(<<t>>, d, 4 + d) /\ 4 + d \in Nat /\ chunk' = Drop(chunk, d)
  BY <1>6, <1>9 DEF Slide
<1>13. OnTheWire' /\ NoEnd'
  BY <1>1, <1>10, <1>11, <1>12, SendOne
<1>14. logicalSent' = logicalSent + d
  BY <1>12 DEF Send
<1>15. (chunk = Piece(logicalSent, position))'
  BY <1>1, <1>5, <1>7, <1>12, <1>14, ChunkRest
<1> QED  BY <1>1, <1>2, <1>5, <1>13, <1>15 DEF TokenInv

(* No token is sent when the window stays or moves on. *)
LEMMA QuietTokens == ScanInv /\ TokenInv /\ (NoMatch \/ Advance) => TokenInv'
<1> SUFFICES ASSUME ScanInv, TokenInv, NoMatch \/ Advance PROVE TokenInv'
  OBVIOUS
<1>1. /\ pc \in {"match", "advance"} /\ pc' \in {"match", "refill"}
      /\ UNCHANGED <<input, header, position, chunk, sent, receiver>>
  BY DEF NoMatch, Advance, scan
<1>2. NoEnd /\ OnTheWire /\ count # 0 /\ chunk = Piece(logicalSent, position)
  BY <1>1 DEF TokenInv
<1>3. Described' /\ InOldFile' /\ Received'
  BY <1>1, OthersKept
<1>4. OnTheWire' /\ NoEnd'
  BY <1>1, <1>2, WireRests
<1>5. (chunk = Piece(logicalSent, position))' /\ count' = count
  BY <1>1, <1>2 DEF input, header, sent, Piece, count
<1> QED  BY <1>1, <1>2, <1>3, <1>4, <1>5 DEF TokenInv

(* The trailer. *)
LEMMA TrailerTokens == ScanInv /\ TokenInv /\ Trailer => TokenInv'
<1> SUFFICES ASSUME ScanInv, TokenInv, Trailer PROVE TokenInv'
  OBVIOUS
<1>1. /\ pc = "trailer" /\ pc' = "receive" /\ NoEnd /\ OnTheWire
      /\ UNCHANGED <<input, header, receiver>>
  BY DEF TokenInv, Trailer
<1>2. Described' /\ InOldFile' /\ Received'
  BY <1>1, OthersKept
<1>3. PICK t : t = DataToken(<<>>)
  OBVIOUS
<1>4. t \in Token /\ t.token = 0
  <2>1. t = [token |-> 0, data |-> <<>>]
    BY <1>3 DEF DataToken
  <2> QED  BY <2>1 DEF Token
<1>5. logicalSent \in Nat /\ physicalSent \in Nat /\ logicalSent = Len(newData)
  BY <1>1 DEF OnTheWire, ScanInv, AllSent
<1>6. Moves(t, logicalSent, physicalSent, logicalSent + 0, physicalSent + 16)
  BY <1>4, <1>5 DEF Moves
<1>7. Send(<<t>>, 0, 16)
  BY <1>3 DEF Trailer
<1>8. OnTheWire' /\ EndIsLast'
  BY <1>1, <1>4, <1>6, <1>7, SendOne
<1> QED  BY <1>1, <1>2, <1>8 DEF TokenInv

-----------------------------------------------------------------------------
(* What is left at the end of the file is sent as the last block if it is
   that, else as data. *)
LEMMA RestTokens ==
  ASSUME OnTheWire, NoEnd, Described, count # 0, newData \in Seq(Int),
         UNCHANGED <<input, header, receiver>>,
         NEW bytes \in Seq(Int), bytes = Piece(logicalSent, logicalSent + Len(bytes)),
         logicalSent + Len(bytes) <= Len(newData), SendRest(bytes)
  PROVE  OnTheWire' /\ NoEnd'
<1>1. PICK a \in Nat : a = logicalSent
  BY DEF OnTheWire
<1>2. PICK p \in Nat : p = physicalSent
  BY DEF OnTheWire
<1>3. PICK l \in Nat : l = Len(bytes)
  BY LenProperties
<1>4. bytes = Piece(a, a + l) /\ a + l <= Len(newData)
  BY <1>1, <1>3
<1>5. CASE bytes = <<>>
  <2>1. UNCHANGED sent
    BY <1>5 DEF SendRest
  <2> QED  BY <2>1, WireRests
<1>6. CASE bytes # <<>> /\ LastBlockFound(bytes)
  <2>1. PICK k \in Nat \ {0} : k = count
    BY DEF Described
  <2>2. Block(k) = bytes /\ (k - 1) * BlockLength <= Len(oldData)
    BY <1>6, <2>1 DEF LastBlockFound, Described, Digest
  <2>3. PICK t : t = BlockToken(k)
    OBVIOUS
  <2>4. t \in Token /\ t.token # 0 /\ Moves(t, a, p, a + l, p + 4)
    BY <1>4, <2>2, <2>3, BlockMoves
  <2>5. Moves(t, logicalSent, physicalSent, logicalSent + l, physicalSent + 4)
    BY <1>1, <1>2, <2>4
  <2>6. Send(<<t>>, l, 4)
    BY <1>3, <1>6, <2>1, <2>3 DEF SendRest
  <2> QED  BY <2>4, <2>5, <2>6, SendOne
<1>7. CASE bytes # <<>> /\ ~LastBlockFound(bytes)
  <2>1. l # 0
    BY <1>3, <1>7, EmptySeq
  <2>2. PICK t : t = DataToken(bytes)
    OBVIOUS
  <2>3. t \in Token /\ t.token # 0 /\ Moves(t, a, p, a + l, p + (4 + l))
    BY <1>4, <2>1, <2>2, DataMoves
  <2>4. Moves(t, logicalSent, physicalSent, logicalSent + l, physicalSent + (4 + l))
    BY <1>1, <1>2, <2>3
  <2>5. Send(<<t>>, l, 4 + l) /\ 4 + l \in Nat
    BY <1>3, <1>7, <2>2 DEF SendRest
  <2> QED  BY <2>3, <2>4, <2>5, SendOne
<1> QED  BY <1>5, <1>6, <1>7

(* What is read goes behind what is in the chunk. *)
LEMMA RefillTokens == ScanInv /\ TokenInv /\ Refill => TokenInv'
<1> SUFFICES ASSUME ScanInv, TokenInv, Refill PROVE TokenInv'
  OBVIOUS
<1>1. /\ pc = "refill" /\ NoEnd /\ OnTheWire /\ UNCHANGED <<input, header, receiver>>
      /\ pc' \in {"advance", "trailer"} /\ count # 0 /\ chunk = Piece(logicalSent, position)
      /\ Described
  BY DEF TokenInv, Refill
<1>2. Described' /\ InOldFile' /\ Received'
  BY <1>1, OthersKept
<1>3. /\ newData' = newData /\ newData \in Seq(Int) /\ count' = count /\ Len(newData) \in Nat
      /\ chunk \in Seq(Int) /\ Len(chunk) \in Nat
  BY <1>1, LenProperties DEF ScanInv, ScanType, input, header, count
<1>4. CASE ~TooShort(n)
  <2>1. pc' = "advance" /\ UNCHANGED <<position, chunk, sent>>
    BY <1>4 DEF Refill
  <2>2. OnTheWire' /\ NoEnd'
    BY <1>1, <2>1, WireRests
  <2>3. (chunk = Piece(logicalSent, position))'
    BY <1>1, <1>3, <2>1 DEF sent, Piece
  <2> QED  BY <1>1, <1>2, <1>3, <2>1, <2>2, <2>3 DEF TokenInv
<1>5. CASE TooShort(n)
  <2>1. PICK a \in Nat : a = logicalSent
    BY <1>1 DEF OnTheWire
  <2>2. PICK b \in Nat : b = position
    BY DEF ScanInv, ScanType
  <2>3. b = a + Len(chunk) /\ b <= Len(newData) /\ a <= b
    BY <1>1, <1>3, <2>1, <2>2 DEF ScanInv, ScanType, Accounted
  <2>4. PICK room \in Nat : room = Room
    BY <1>1, <1>3, DeltaAssumption DEF ScanInv, Accounted, Room, chunkSize, n
  <2>5. PICK bytes : bytes = ReadAt(newData, b, room)
    OBVIOUS
  <2>6. PICK l \in Nat : l = Len(bytes)
    BY <1>3, <2>3, <2>5, ReadPiece
  <2>7. b + l <= Len(newData) /\ bytes = Piece(b, b + l)
    BY <1>3, <2>3, <2>5, <2>6, ReadPiece
  <2>8. PICK c \in Nat : c = b + l
    OBVIOUS
  <2>9. chunk \o bytes = Piece(a, c)
    <3>1. b <= c /\ c <= Len(newData)
      BY <2>7, <2>8
    <3>2. Piece(a, b) \o Piece(b, c) = Piece(a, c)
      BY <1>3, <2>3, <3>1, PiecesJoin
    <3> QED  BY <1>1, <2>1, <2>2, <2>7, <2>8, <3>2
  <2>10. PICK rest : rest = Piece(a, c)
    OBVIOUS
  <2>11. rest \in Seq(Int) /\ Len(rest) = c - a /\ a + Len(rest) = c /\ c <= Len(newData)
    <3>1. a <= c /\ c <= Len(newData)
      BY <2>3, <2>7, <2>8
    <3>2. rest \in Seq(Int) /\ Len(rest) = c - a
      BY <1>3, <2>10, <3>1, PieceShape
    <3> QED  BY <3>1, <3>2
  <2>12. /\ position' = c /\ chunk' = rest
         /\ IF TooShort(Len(chunk')) THEN pc' = "trailer" /\ SendRest(chunk')
                                    ELSE pc' = "advance" /\ UNCHANGED sent
    BY <1>5, <2>2, <2>4, <2>5, <2>6, <2>8, <2>9, <2>10 DEF Refill
  <2>13. CASE TooShort(Len(chunk'))
    <3>1. pc' = "trailer" /\ SendRest(rest)
      BY <2>12, <2>13
    <3>2. /\ rest = Piece(logicalSent, logicalSent + Len(rest))
          /\ logicalSent + Len(rest) <= Len(newData)
      BY <2>1, <2>10, <2>11
    <3>3. OnTheWire' /\ NoEnd'
      BY <1>1, <1>3, <2>11, <3>1, <3>2, RestTokens
    <3> QED  BY <1>2, <3>1, <3>3 DEF TokenInv
  <2>14. CASE ~TooShort(Len(chunk'))
    <3>1. pc' = "advance" /\ UNCHANGED sent
      BY <2>12, <2>14
    <3>2. OnTheWire' /\ NoEnd'
      BY <1>1, <3>1, WireRests
    <3>3. (chunk = Piece(logicalSent, position))'
      BY <1>3, <2>1, <2>10, <2>12, <3>1 DEF sent, Piece
    <3> QED  BY <1>1, <1>2, <1>3, <3>1, <3>2, <3>3 DEF TokenInv
  <2> QED  BY <2>13, <2>14
<1> QED  BY <1>4, <1>5

(* The first token on the wire, and what the receiver is left with. *)
LEMMA TakeToken ==
  ASSUME TokenInv, ScanInv, pc = "receive", tokens' = Tail(tokens),
         UNCHANGED <<input, header, logicalSent, physicalSent>>,
         logicalReceived' \in Nat, physicalReceived' \in Nat,
         \A l, p \in Nat :
           Moves(Head(tokens), logicalReceived, physicalReceived, l, p)
             => logicalReceived' = l /\ physicalReceived' = p
  PROVE  /\ OnTheWire'
         /\ Head(tokens).token = 0 => tokens' = <<>>
         /\ Head(tokens).token # 0 => EndIsLast'
         /\ Moves(Head(tokens), logicalReceived, physicalReceived,
                  logicalReceived', physicalReceived')
<1>1. PICK list \in Seq(Token) : list = tokens
  BY DEF TokenInv, OnTheWire
<1>2. /\ list # <<>>
      /\ \A k \in 1 .. Len(list) : list[k].token = 0 <=> k = Len(list)
  BY <1>1 DEF TokenInv, EndIsLast
<1>3. PICK l0 \in Nat : l0 = logicalReceived
  BY DEF TokenInv, OnTheWire
<1>4. PICK p0 \in Nat : p0 = physicalReceived
  BY DEF TokenInv, OnTheWire
<1>5. PICK m \in Nat : m = logicalSent
  BY DEF TokenInv, OnTheWire
<1>6. PICK q \in Nat : q = physicalSent
  BY DEF TokenInv, OnTheWire
<1>7. Journey(list, l0, p0, m, q)
  BY <1>1, <1>3, <1>4, <1>5, <1>6 DEF TokenInv, OnTheWire
<1>8. \E l2, p2 \in Nat : Moves(Head(list), l0, p0, l2, p2) /\ Journey(Tail(list), l2, p2, m, q)
  BY <1>2, <1>7, JourneyBegins
<1>9. PICK l \in Nat : \E p2 \in Nat : Moves(Head(list), l0, p0, l, p2) /\ Journey(Tail(list), l, p2, m, q)
  BY <1>8
<1>10. PICK p \in Nat : Moves(Head(list), l0, p0, l, p) /\ Journey(Tail(list), l, p, m, q)
  BY <1>9
<1>11. logicalReceived' = l /\ physicalReceived' = p
  BY <1>1, <1>3, <1>4, <1>10
<1>12. PICK N \in Nat : N = Len(list)
  BY LenProperties
<1>13. PICK tail : tail = Tail(list)
  OBVIOUS
<1>14. /\ tail \in Seq(Token) /\ Len(tail) = N - 1 /\ N # 0
       /\ \A k \in 1 .. N - 1 : tail[k] = list[k + 1]
  BY <1>2, <1>12, <1>13, HeadTailProperties, EmptySeq
<1>15. UNCHANGED <<newData, oldData, logicalSent, physicalSent>> /\ tokens' = tail
  BY <1>1, <1>13 DEF input
<1>16. OnTheWire'
  <2>1. \A u, a, c, b, d : Moves(u, a, c, b, d) => Moves(u, a, c, b, d)'
    BY <1>15 DEF Moves, Block, Piece
  <2>2. \A at, cost : Stops(tail, at, cost) => Stops(tail, at, cost)'
    BY <2>1 DEF Stops
  <2>3. Journey(tail, l, p, m, q) => Journey(tail, l, p, m, q)'
    BY <2>2 DEF Journey
  <2>4. Journey(tail, l, p, m, q)'
    BY <1>10, <1>13, <2>3
  <2>5. l <= Len(newData)
    BY <1>10 DEF Moves
  <2> QED  BY <1>5, <1>6, <1>11, <1>14, <1>15, <2>4, <2>5 DEF OnTheWire
<1>17. Head(list) = list[1]
  OBVIOUS
<1>18. Head(list).token = 0 <=> N = 1
  <2>1. 1 \in 1 .. N
    BY <1>14
  <2> QED  BY <1>2, <1>12, <1>17, <2>1
<1>19. Head(list).token = 0 => tail = <<>>
  BY <1>14, <1>18, EmptySeq
<1>20. ASSUME Head(list).token # 0 PROVE EndIsLast'
  <2>1. N - 1 \in Nat /\ N - 1 # 0
    BY <1>14, <1>18, <1>20
  <2>2. tail # <<>>
    BY <1>14, <2>1, EmptySeq
  <2>3. \A k \in 1 .. N - 1 : tail[k].token = 0 <=> k = N - 1
    <3> SUFFICES ASSUME NEW k \in 1 .. N - 1 PROVE tail[k].token = 0 <=> k = N - 1
      OBVIOUS
    <3>1. k + 1 \in 1 .. N /\ (k + 1 = N <=> k = N - 1)
      OBVIOUS
    <3> QED  BY <1>2, <1>12, <1>14, <3>1
  <2> QED  BY <1>14, <1>15, <2>2, <2>3 DEF EndIsLast
<1> QED  BY <1>1, <1>3, <1>4, <1>10, <1>11, <1>15, <1>16, <1>19, <1>20

-----------------------------------------------------------------------------
(* The first token on the wire moves the counters of the receiver. *)
LEMMA FirstMove ==
  ASSUME TokenInv, pc = "receive"
  PROVE  /\ Head(tokens) \in Token
         /\ \E l, p \in Nat : Moves(Head(tokens), logicalReceived, physicalReceived, l, p)
<1>1. PICK list \in Seq(Token) : list = tokens
  BY DEF TokenInv, OnTheWire
<1>2. list # <<>>
  BY <1>1 DEF TokenInv, EndIsLast
<1>3. PICK l0 \in Nat : l0 = logicalReceived
  BY DEF TokenInv, OnTheWire
<1>4. PICK p0 \in Nat : p0 = physicalReceived
  BY DEF TokenInv, OnTheWire
<1>5. PICK m \in Nat : m = logicalSent
  BY DEF TokenInv, OnTheWire
<1>6. PICK q \in Nat : q = physicalSent
  BY DEF TokenInv, OnTheWire
<1>7. Journey(list, l0, p0, m, q)
  BY <1>1, <1>3, <1>4, <1>5, <1>6 DEF TokenInv, OnTheWire
<1>8. \E l2, p2 \in Nat : Moves(Head(list), l0, p0, l2, p2) /\ Journey(Tail(list), l2, p2, m, q)
  BY <1>2, <1>7, JourneyBegins
<1>9. Head(list) \in Token
  BY <1>2, HeadTailProperties
<1> QED  BY <1>1, <1>3, <1>4, <1>8, <1>9

(* receiveFile: plain data goes to the end of the new file. *)
LEMMA ReceiveDataTokens == ScanInv /\ TokenInv /\ ReceiveData => TokenInv'
<1> SUFFICES ASSUME ScanInv, TokenInv, ReceiveData PROVE TokenInv'
  OBVIOUS
<1>1. /\ pc = "receive" /\ pc' = "receive" /\ tokens' = Tail(tokens)
      /\ UNCHANGED <<input, header, logicalSent, physicalSent, oldPosition, previousToken>>
  BY DEF ReceiveData
<1>2. PICK t \in Token : t = Head(tokens)
  BY <1>1, FirstMove
<1>3. PICK g \in Int : g = t.token
  BY DEF Token
<1>4. /\ g > 0 /\ newFile' = newFile \o t.data
      /\ logicalReceived' = logicalReceived + g
      /\ physicalReceived' = (physicalReceived + 4) + g
  BY <1>2, <1>3 DEF ReceiveData
<1>5. logicalReceived \in Nat /\ physicalReceived \in Nat /\ newData \in Seq(Int)
  BY DEF TokenInv, OnTheWire, ScanInv, ScanType
<1>6. logicalReceived' \in Nat /\ physicalReceived' \in Nat
  BY <1>3, <1>4, <1>5
<1>7. \A l, p \in Nat : Moves(t, logicalReceived, physicalReceived, l, p)
        => logicalReceived' = l /\ physicalReceived' = p
  BY <1>3, <1>4 DEF Moves
<1>8. /\ OnTheWire' /\ EndIsLast'
      /\ Moves(t, logicalReceived, physicalReceived, logicalReceived', physicalReceived')
  <2>1. t.token # 0
    BY <1>3, <1>4
  <2> QED  BY <1>1, <1>2, <1>6, <1>7, <2>1, TakeToken
<1>9. newFile' = Piece(0, logicalReceived')
  <2>1. PICK a \in Nat : a = logicalReceived
    BY <1>5
  <2>2. PICK b \in Nat : b = logicalReceived'
    BY <1>6
  <2>3. /\ t.data = Piece(a, b) /\ a <= b /\ b <= Len(newData) /\ newFile = Piece(0, a)
    BY <1>3, <1>4, <1>8, <2>1, <2>2 DEF Moves, TokenInv, Received
  <2>4. Piece(0, a) \o Piece(a, b) = Piece(0, b)
    <3>1. PICK zero \in Nat : zero = 0
      OBVIOUS
    <3>2. zero <= a /\ a <= b /\ b <= Len(newData)
      BY <2>3, <3>1
    <3>3. Piece(zero, a) \o Piece(a, b) = Piece(zero, b)
      BY <1>5, <3>2, PiecesJoin
    <3> QED  BY <3>1, <3>3
  <2> QED  BY <1>4, <2>2, <2>3, <2>4
<1>10. UNCHANGED <<oldData, newData, checksums, oldPosition, previousToken>>
  BY <1>1 DEF input, header
<1>11. Described' /\ InOldFile' /\ Received'
  BY <1>1, <1>9, <1>10 DEF TokenInv, Described, InOldFile, Received, Block, Piece, count
<1> QED  BY <1>1, <1>8, <1>11 DEF TokenInv

(* A block is read where it begins in the old file: there, or where the block
   before it has ended. *)
LEMMA ReadsTheBlock ==
  ASSUME TokenInv, NEW k \in Nat \ {0}, (k - 1) * BlockLength <= Len(oldData)
  PROVE  /\ ReadAt(oldData, PositionOf(k - 1), BlockLength) = Block(k)
         /\ Len(Block(k)) \in Nat
         /\ PositionOf(k - 1) + Len(Block(k)) = Least(k * BlockLength, Len(oldData))
         /\ PositionOf(k - 1) + Len(Block(k)) \in Nat
<1>1. PICK B \in Nat \ {0} : B = BlockLength
  BY DeltaAssumption
<1>2. PICK L \in Nat : L = Len(oldData)
  BY LenProperties DEF TokenInv, Described
<1>3. PICK j \in Nat : j = k - 1
  OBVIOUS
<1>4. PICK from \in Nat : from = j * B
  OBVIOUS
<1>5. from <= L /\ k * B = from + B /\ k * B \in Nat
  <2>1. k = j + 1
    BY <1>3
  <2>2. (j + 1) * B = j * B + B
    OBVIOUS
  <2> QED  BY <1>1, <1>2, <1>3, <1>4, <2>1, <2>2
<1>6. PositionOf(j) = from
  <2>1. CASE previousToken = 0 \/ previousToken # j
    BY <1>1, <1>4, <2>1 DEF PositionOf
  <2>2. CASE previousToken # 0 /\ previousToken = j
    <3>1. oldPosition = Least(j * BlockLength, Len(oldData))
      BY <2>2 DEF TokenInv, InOldFile
    <3>2. oldPosition = from
      BY <1>1, <1>2, <1>4, <1>5, <3>1 DEF Least
    <3> QED  BY <2>2, <3>2 DEF PositionOf
  <2> QED  BY <2>1, <2>2
<1>7. Block(k) = ReadAt(oldData, from, B)
  BY <1>1, <1>3, <1>4 DEF Block
<1>8. ReadAt(oldData, from, B) \in Seq(Int) /\ Len(ReadAt(oldData, from, B)) = Least(B, L - from)
  BY <1>2, <1>5, ReadAtLength DEF TokenInv, Described
<1>9. Least(B, L - from) \in Nat /\ from + Least(B, L - from) = Least(from + B, L)
  BY <1>5 DEF Least
<1>10. Len(Block(k)) = Least(B, L - from)
  BY <1>7, <1>8
<1>11. from + Len(Block(k)) = Least(k * B, L) /\ from + Len(Block(k)) \in Nat
  <2>1. Least(from + B, L) = Least(k * B, L)
    BY <1>5
  <2> QED  BY <1>9, <1>10, <2>1
<1>12. ReadAt(oldData, PositionOf(k - 1), BlockLength) = Block(k)
  BY <1>1, <1>3, <1>6, <1>7
<1> QED  BY <1>1, <1>2, <1>3, <1>6, <1>9, <1>10, <1>11, <1>12

(* receiveFile: a block is copied from the old file. *)
LEMMA ReceiveBlockTokens == ScanInv /\ TokenInv /\ ReceiveBlock => TokenInv'
<1> SUFFICES ASSUME ScanInv, TokenInv, ReceiveBlock PROVE TokenInv'
  OBVIOUS
<1>1. /\ pc = "receive" /\ pc' = "receive" /\ tokens' = Tail(tokens)
      /\ UNCHANGED <<input, header, logicalSent, physicalSent>>
  BY DEF ReceiveBlock
<1>2. PICK t \in Token : t = Head(tokens)
  BY <1>1, FirstMove
<1>3. t.token \in Int /\ t.token < 0
  BY <1>2 DEF Token, ReceiveBlock
<1>4. PICK k \in Nat \ {0} : k = -t.token
  BY <1>3
<1>5. \E l, p \in Nat : Moves(t, logicalReceived, physicalReceived, l, p)
  BY <1>1, <1>2, FirstMove
<1>6. (k - 1) * BlockLength <= Len(oldData)
  BY <1>3, <1>4, <1>5 DEF Moves
<1>7. /\ ReadAt(oldData, PositionOf(k - 1), BlockLength) = Block(k)
      /\ PositionOf(k - 1) + Len(Block(k)) = Least(k * BlockLength, Len(oldData))
      /\ PositionOf(k - 1) + Len(Block(k)) \in Nat
      /\ Len(Block(k)) \in Nat
  BY <1>6, ReadsTheBlock
<1>8. /\ newFile' = newFile \o Block(k)
      /\ oldPosition' = PositionOf(k - 1) + Len(Block(k))
      /\ previousToken' = (k - 1) + 1
      /\ logicalReceived' = logicalReceived + Len(Block(k))
      /\ physicalReceived' = physicalReceived + 4
  BY <1>2, <1>4, <1>7 DEF ReceiveBlock
<1>9. logicalReceived \in Nat /\ physicalReceived \in Nat /\ newData \in Seq(Int)
  BY DEF TokenInv, OnTheWire, ScanInv, ScanType
<1>10. logicalReceived' \in Nat /\ physicalReceived' \in Nat
  BY <1>7, <1>8, <1>9
<1>11. ASSUME NEW l \in Nat, NEW p \in Nat, Moves(t, logicalReceived, physicalReceived, l, p)
       PROVE  logicalReceived' = l /\ physicalReceived' = p
  <2>1. PICK a \in Nat : a = logicalReceived
    BY <1>9
  <2>2. Block(k) = Piece(a, l) /\ a <= l /\ l <= Len(newData) /\ p = physicalReceived + 4
    BY <1>3, <1>4, <1>11, <2>1 DEF Moves
  <2>3. Len(Piece(a, l)) = l - a
    BY <1>9, <2>2, PieceShape
  <2> QED  BY <1>8, <2>1, <2>2, <2>3
<1>12. /\ OnTheWire' /\ EndIsLast'
       /\ Moves(t, logicalReceived, physicalReceived, logicalReceived', physicalReceived')
  <2>1. t.token # 0
    BY <1>3
  <2> QED  BY <1>1, <1>2, <1>10, <1>11, <2>1, TakeToken
<1>13. newFile' = Piece(0, logicalReceived')
  <2>1. PICK a \in Nat : a = logicalReceived
    BY <1>9
  <2>2. PICK b \in Nat : b = logicalReceived'
    BY <1>10
  <2>3. /\ Block(k) = Piece(a, b) /\ a <= b /\ b <= Len(newData) /\ newFile = Piece(0, a)
    BY <1>3, <1>4, <1>12, <2>1, <2>2 DEF Moves, TokenInv, Received
  <2>4. Piece(0, a) \o Piece(a, b) = Piece(0, b)
    <3>1. PICK zero \in Nat : zero = 0
      OBVIOUS
    <3>2. zero <= a /\ a <= b /\ b <= Len(newData)
      BY <2>3, <3>1
    <3>3. Piece(zero, a) \o Piece(a, b) = Piece(zero, b)
      BY <1>9, <3>2, PiecesJoin
    <3> QED  BY <3>1, <3>3
  <2> QED  BY <1>8, <2>2, <2>3, <2>4
<1>14. UNCHANGED <<oldData, newData, checksums>> /\ previousToken' = k
  <2>1. (k - 1) + 1 = k
    OBVIOUS
  <2> QED  BY <1>1, <1>8, <2>1 DEF input, header
<1>15. InOldFile'
  BY <1>7, <1>8, <1>14 DEF InOldFile
<1>16. Described' /\ Received'
  BY <1>1, <1>13, <1>14 DEF TokenInv, Described, Received, Block, Piece, count
<1> QED  BY <1>1, <1>12, <1>15, <1>16 DEF TokenInv

(* receiveFile: the end of the file, and its digest. *)
LEMMA ReceiveDigestTokens == ScanInv /\ TokenInv /\ ReceiveDigest => TokenInv'
<1> SUFFICES ASSUME ScanInv, TokenInv, ReceiveDigest PROVE TokenInv'
  OBVIOUS
<1>1. /\ pc = "receive" /\ pc' = "done" /\ tokens' = Tail(tokens)
      /\ UNCHANGED <<input, header, logicalSent, physicalSent, oldPosition, previousToken,
                     newFile, logicalReceived>>
      /\ physicalReceived' = physicalReceived + 16 /\ result' = (newFile = newData)
  BY DEF ReceiveDigest
<1>2. PICK t \in Token : t = Head(tokens)
  BY <1>1, FirstMove
<1>3. t.token = 0
  BY <1>2 DEF ReceiveDigest
<1>4. logicalReceived \in Nat /\ physicalReceived \in Nat
  BY DEF TokenInv, OnTheWire
<1>5. logicalReceived' \in Nat /\ physicalReceived' \in Nat
  BY <1>1, <1>4
<1>6. \A l, p \in Nat : Moves(t, logicalReceived, physicalReceived, l, p)
        => logicalReceived' = l /\ physicalReceived' = p
  BY <1>1, <1>3 DEF Moves
<1>7. OnTheWire' /\ tokens' = <<>>
  BY <1>1, <1>2, <1>3, <1>5, <1>6, TakeToken
<1>8. UNCHANGED <<oldData, newData, checksums, oldPosition, previousToken, newFile,
                  logicalReceived>>
  BY <1>1 DEF input, header
<1>9. Described' /\ InOldFile'
  BY <1>8 DEF TokenInv, Described, InOldFile, Block, count
<1>10. Received'
  <2>1. result' <=> newFile' = newData'
    BY <1>1, <1>8
  <2> QED  BY <1>7, <1>8, <2>1 DEF TokenInv, Received, Piece
<1> QED  BY <1>1, <1>7, <1>9, <1>10 DEF TokenInv

(* No step at all. *)
LEMMA StutterTokens == ScanInv /\ TokenInv /\ UNCHANGED vars => TokenInv'
<1> SUFFICES ASSUME ScanInv, TokenInv, UNCHANGED vars PROVE TokenInv'
  OBVIOUS
<1>1. UNCHANGED <<input, header, pc, scan, sent, receiver>>
  BY DEF vars
<1>2. /\ UNCHANGED <<oldData, newData, checksums, position, chunk, tokens, logicalSent,
                     physicalSent, newFile, oldPosition, previousToken, logicalReceived,
                     physicalReceived, result>>
  BY <1>1 DEF input, header, scan, sent, receiver
<1>3. OnTheWire'
  BY <1>1, WireRests DEF TokenInv
<1>4. Described' /\ InOldFile' /\ Received'
  BY <1>1, <1>2 DEF TokenInv, Described, InOldFile, Received, Block, Piece, count
<1> QED  BY <1>1, <1>2, <1>3, <1>4 DEF TokenInv, NoEnd, EndIsLast, Piece, count

(* The inductive invariant of both sides. *)
THEOREM TokensAreInvariant == Spec => []TokenInv
<1>1. ScanInv /\ TokenInv /\ [Next]_vars => TokenInv'
  BY ChecksumTokens, StartTokens, PlainTokens, MatchTokens, SlideTokens, QuietTokens,
     RefillTokens, TrailerTokens, ReceiveDataTokens, ReceiveBlockTokens, ReceiveDigestTokens,
     StutterTokens DEF Next, SendFile, ReceiveFile
<1> QED  BY <1>1, InitTokens, ScanIsInvariant, PTL DEF Spec

(* The receiver ends with the file of the sender. *)
THEOREM FileIsReconstructed == Spec => []Reconstructs
<1>1. ScanInv /\ TokenInv => Reconstructs
  <2> SUFFICES ASSUME ScanInv, TokenInv, pc = "done"
               PROVE  /\ newFile = newData /\ result
                      /\ logicalReceived = logicalSent /\ physicalReceived = physicalSent
    BY DEF Reconstructs
  <2>1. /\ tokens = <<>> /\ (result <=> newFile = newData) /\ newFile = Piece(0, logicalReceived)
        /\ logicalSent = Len(newData) /\ newData \in Seq(Int)
    BY DEF TokenInv, Received, ScanInv, ScanType, AllSent
  <2>2. logicalReceived = logicalSent /\ physicalReceived = physicalSent
    BY <2>1, JourneyEnds DEF TokenInv, OnTheWire
  <2>3. Piece(0, Len(newData)) = newData
    BY <2>1, SubSeqFull DEF Piece
  <2> QED  BY <2>1, <2>2, <2>3
<1> QED  BY <1>1, ScanIsInvariant, TokensAreInvariant, PTL

-----------------------------------------------------------------------------
(* Induction up to N, over the set of the numbers for which something holds. *)
LEMMA InductionUpTo ==
  ASSUME NEW N \in Nat, NEW T, 0 \in T, \A k \in 1 .. N : k - 1 \in T => k \in T
  PROVE  0 .. N \subseteq T
<1> DEFINE D == {k \in 0 .. N : k \notin T}
<1> SUFFICES ASSUME D # {} PROVE FALSE
  OBVIOUS
<1>1. PICK x \in D : \A y \in D : x <= y
  <2>1. D \subseteq Nat
    OBVIOUS
  <2> HIDE DEF D
  <2> QED  BY <2>1, LeastNumber
<1>2. x \in 1 .. N /\ x - 1 \in 0 .. N /\ ~(x <= x - 1)
  OBVIOUS
<1>3. x - 1 \notin D
  <2> HIDE DEF D
  <2> QED  BY <1>1, <1>2
<1>4. x - 1 \in T
  BY <1>2, <1>3
<1> QED  BY <1>2, <1>4

(* f is a function on 0 .. N given by its value at 0 and by each value from the one before. *)
Stepwise(f, N, first, G) == f[0] = first /\ \A k \in 1 .. N : f[k] = G[<<f[k - 1], k>>]

(* There is such a function. *)
LEMMA StepwiseExists ==
  ASSUME NEW N \in Nat, NEW first, NEW G
  PROVE  \E f : Stepwise(f, N, first, G)
<1> DEFINE Good(f, m) == f[0] = first /\ \A k \in 1 .. m : f[k] = G[<<f[k - 1], k>>]
           T == {m \in 0 .. N : \E f : Good(f, m)}
<1>1. 0 \in T
  <2> DEFINE f == [k \in 0 .. 0 |-> first]
  <2>1. Good(f, 0)
    OBVIOUS
  <2> HIDE DEF f, Good
  <2> QED  BY <2>1
<1>2. ASSUME NEW m \in 1 .. N, m - 1 \in T PROVE m \in T
  <2>1. PICK f : Good(f, m - 1)
    BY <1>2
  <2> DEFINE new == G[<<f[m - 1], m>>]
             g == [k \in 0 .. m |-> IF k < m THEN f[k] ELSE new]
  <2>4. g[0] = first /\ g[m] = new /\ \A k \in 0 .. m - 1 : g[k] = f[k]
    BY <2>1
  <2>5. ASSUME NEW k \in 1 .. m PROVE g[k] = G[<<g[k - 1], k>>]
    <3>1. CASE k = m
      <4>1. m - 1 \in 0 .. m - 1
        OBVIOUS
      <4> HIDE DEF g
      <4> QED  BY <2>4, <3>1, <4>1
    <3>2. CASE k # m
      <4>1. k \in 1 .. m - 1 /\ k \in 0 .. m - 1 /\ k - 1 \in 0 .. m - 1
        BY <3>2
      <4>2. f[k] = G[<<f[k - 1], k>>]
        BY <2>1, <4>1
      <4> HIDE DEF g
      <4> QED  BY <2>4, <4>1, <4>2
    <3> QED  BY <3>1, <3>2
  <2>6. Good(g, m)
    <3> HIDE DEF g
    <3> QED  BY <2>4, <2>5
  <2> HIDE DEF g, Good
  <2> QED  BY <2>6
<1> HIDE DEF T
<1>3. 0 .. N \subseteq T
  BY <1>1, <1>2, InductionUpTo
<1> QED  BY <1>3 DEF T, Stepwise


(* The two sums of the rolling checksum, before they are cut to the modulus. *)
Sums(w, a, b) ==
  /\ a \in [0 .. Len(w) -> Int] /\ b \in [0 .. Len(w) -> Int]
  /\ a[0] = 0 /\ b[0] = 0
  /\ \A k \in 1 .. Len(w) : a[k] = a[k - 1] + w[k] /\ b[k] = (b[k - 1] + a[k - 1]) + w[k]

(* getRollingChecksum adds them up byte by byte. *)
LEMMA ChecksumSums ==
  ASSUME NEW w \in Seq(Int)
  PROVE  \E a, b : /\ Sums(w, a, b)
                   /\ RollingChecksum(w) = <<a[Len(w)] % Modulus, b[Len(w)] % Modulus>>
<1> DEFINE N == Len(w)
           R == [x \in (Int \X Int) \X (1 .. N) |->
                   <<x[1][1] + w[x[2]], x[1][2] + x[1][1] + w[x[2]]>>]
           Eq(f) == f = [k \in 0 .. N |->
                           IF k = 0 THEN <<0, 0>>
                           ELSE <<f[k - 1][1] + w[k], f[k - 1][2] + f[k - 1][1] + w[k]>>]
<1>1. N \in Nat /\ \A k \in 1 .. N : w[k] \in Int
  BY LenProperties, ElementOfSeq
<1>2. ASSUME NEW x \in Int \X Int, NEW k \in 1 .. N
      PROVE  /\ R[<<x, k>>] = <<x[1] + w[k], x[2] + x[1] + w[k]>>
             /\ R[<<x, k>>] \in Int \X Int
  <2>1. <<x, k>> \in (Int \X Int) \X (1 .. N)
    OBVIOUS
  <2>2. R[<<x, k>>] = <<x[1] + w[k], x[2] + x[1] + w[k]>>
    BY <2>1
  <2> HIDE DEF R
  <2> QED  BY <1>1, <2>2
<1> HIDE DEF R
<1>3. PICK h : h[0] = <<0, 0>> /\ \A k \in 1 .. N : h[k] = R[<<h[k - 1], k>>]
  <2>1. PICK m \in Nat : m = N
    BY <1>1
  <2>2. PICK e : e = <<0, 0>>
    OBVIOUS
  <2>3. PICK H : H = R
    OBVIOUS
  <2>4. \E f : Stepwise(f, m, e, H)
    BY StepwiseExists
  <2> HIDE DEF N
  <2> QED  BY <2>1, <2>2, <2>3, <2>4 DEF Stepwise
<1>4. 0 .. N \subseteq {k \in 0 .. N : h[k] \in Int \X Int}
  <2> DEFINE T == {k \in 0 .. N : h[k] \in Int \X Int}
  <2>1. 0 \in T
    <3>1. 0 \in 0 .. N /\ <<0, 0>> \in Int \X Int
      BY <1>1
    <3> QED  BY <1>3, <3>1, Zenon
  <2>2. ASSUME NEW k \in 1 .. N, k - 1 \in T PROVE k \in T
    <3>1. k \in 0 .. N /\ h[k - 1] \in Int \X Int
      BY <1>1, <2>2
    <3>2. PICK x \in Int \X Int : x = h[k - 1]
      BY <3>1, Zenon
    <3>3. R[<<x, k>>] \in Int \X Int
      BY <1>2, Zenon
    <3>4. h[k] \in Int \X Int
      BY <1>3, <3>2, <3>3, Zenon
    <3> QED  BY <3>1, <3>4, Zenon
  <2> HIDE DEF T
  <2>3. 0 .. N \subseteq T
    BY <1>1, <2>1, <2>2, InductionUpTo
  <2> QED  BY <2>3 DEF T
<1> DEFINE f == [k \in 0 .. N |-> h[k]]
<1>5. Eq(f)
  <2>1. ASSUME NEW k \in 0 .. N
        PROVE  f[k] = IF k = 0 THEN <<0, 0>>
                      ELSE <<f[k - 1][1] + w[k], f[k - 1][2] + f[k - 1][1] + w[k]>>
    <3>1. CASE k = 0
      BY <1>3, <3>1
    <3>2. CASE k # 0
      <4>1. k \in 1 .. N /\ k - 1 \in 0 .. N
        BY <1>1, <3>2
      <4>2. PICK x \in Int \X Int : x = h[k - 1]
        BY <1>4, <4>1
      <4>3. R[<<x, k>>] = <<x[1] + w[k], x[2] + x[1] + w[k]>>
        BY <1>2, <4>1
      <4>4. h[k] = <<h[k - 1][1] + w[k], h[k - 1][2] + h[k - 1][1] + w[k]>>
        BY <1>3, <4>1, <4>2, <4>3
      <4>5. f[k] = h[k] /\ f[k - 1] = h[k - 1]
        BY <4>1
      <4> HIDE DEF f
      <4> QED  BY <3>2, <4>4, <4>5
    <3> QED  BY <3>1, <3>2
  <2> QED  BY <2>1
<1> HIDE DEF f
<1>6. PICK g : Eq(g) /\ RollingChecksum(w) = <<g[N][1] % Modulus, g[N][2] % Modulus>>
  <2> DEFINE c == CHOOSE e : Eq(e)
  <2>1. Eq(c)
    BY <1>5
  <2>2. RollingChecksum(w) = <<c[N][1] % Modulus, c[N][2] % Modulus>>
    BY DEF RollingChecksum
  <2> HIDE DEF c, Eq
  <2> QED  BY <2>1, <2>2
<1>7. ASSUME NEW k \in 0 .. N
      PROVE  g[k] = IF k = 0 THEN <<0, 0>>
                    ELSE <<g[k - 1][1] + w[k], g[k - 1][2] + g[k - 1][1] + w[k]>>
  <2> DEFINE r == [j \in 0 .. N |->
                     IF j = 0 THEN <<0, 0>>
                     ELSE <<g[j - 1][1] + w[j], g[j - 1][2] + g[j - 1][1] + w[j]>>]
  <2>1. g = r
    BY <1>6
  <2>2. r[k] = IF k = 0 THEN <<0, 0>>
               ELSE <<g[k - 1][1] + w[k], g[k - 1][2] + g[k - 1][1] + w[k]>>
    BY Zenon
  <2> HIDE DEF r
  <2> QED  BY <2>1, <2>2, Zenon
<1> HIDE DEF Eq
<1>8. g[0] = <<0, 0>>
  <2>1. 0 \in 0 .. N
    BY <1>1
  <2> HIDE DEF N
  <2> QED  BY <1>7, <2>1, Zenon
<1>9. ASSUME NEW k \in 1 .. N
      PROVE  g[k] = <<g[k - 1][1] + w[k], g[k - 1][2] + g[k - 1][1] + w[k]>>
  <2>1. k \in 0 .. N /\ k # 0
    BY <1>1
  <2> QED  BY <1>7, <2>1, Zenon
<1>10. 0 .. N \subseteq {k \in 0 .. N : g[k] \in Int \X Int}
  <2> DEFINE T == {k \in 0 .. N : g[k] \in Int \X Int}
  <2>1. 0 \in T
    <3>1. 0 \in 0 .. N /\ <<0, 0>> \in Int \X Int
      BY <1>1
    <3> QED  BY <1>8, <3>1, Zenon
  <2>2. ASSUME NEW k \in 1 .. N, k - 1 \in T PROVE k \in T
    <3>1. k \in 0 .. N /\ g[k - 1] \in Int \X Int /\ w[k] \in Int
      BY <1>1, <2>2
    <3>2. PICK x \in Int \X Int : x = g[k - 1]
      BY <3>1
    <3>3. g[k] = <<x[1] + w[k], x[2] + x[1] + w[k]>>
      BY <1>9, <3>2
    <3>4. g[k] \in Int \X Int
      BY <3>1, <3>3
    <3> QED  BY <3>1, <3>4
  <2> HIDE DEF T
  <2>3. 0 .. N \subseteq T
    BY <1>1, <2>1, <2>2, InductionUpTo
  <2> QED  BY <2>3 DEF T
<1>11. PICK m \in Nat : m = N
  BY <1>1
<1> HIDE DEF N
<1> DEFINE a == [k \in 0 .. m |-> g[k][1]]
           b == [k \in 0 .. m |-> g[k][2]]
<1>12. /\ a \in [0 .. m -> Int] /\ b \in [0 .. m -> Int]
       /\ \A k \in 0 .. m : a[k] = g[k][1] /\ b[k] = g[k][2]
  BY <1>10, <1>11
<1> HIDE DEF a, b
<1>13. a[0] = 0 /\ b[0] = 0
  <2>1. 0 \in 0 .. m
    OBVIOUS
  <2> QED  BY <1>8, <1>12, <2>1
<1>14. ASSUME NEW k \in 1 .. m
       PROVE  a[k] = a[k - 1] + w[k] /\ b[k] = (b[k - 1] + a[k - 1]) + w[k]
  <2>1. k \in 0 .. m /\ k - 1 \in 0 .. m
    OBVIOUS
  <2>2. g[k][1] = g[k - 1][1] + w[k] /\ g[k][2] = (g[k - 1][2] + g[k - 1][1]) + w[k]
    BY <1>9, <1>11
  <2> QED  BY <1>12, <2>1, <2>2
<1>15. Sums(w, a, b)
  BY <1>11, <1>12, <1>13, <1>14 DEF Sums, N
<1>16. RollingChecksum(w) = <<a[Len(w)] % Modulus, b[Len(w)] % Modulus>>
  <2>1. m \in 0 .. m /\ Len(w) = m
    BY <1>11 DEF N
  <2> QED  BY <1>6, <1>11, <1>12, <2>1
<1> QED  BY <1>15, <1>16

(* v is the window w moved on by one byte. *)
MovedOn(w, v) ==
  /\ w \in Seq(Int) /\ v \in Seq(Int) /\ Len(w) = BlockLength /\ Len(v) = BlockLength
  /\ \A k \in 1 .. BlockLength - 1 : v[k] = w[k + 1]

(* A window that moves on by one byte loses the first one, which counts once in
   the one sum and as often as there are bytes in the other. *)
LEMMA SumsMoveOn ==
  ASSUME NEW w, NEW v, MovedOn(w, v),
         NEW a, NEW b, NEW c, NEW d, Sums(w, a, b), Sums(v, c, d)
  PROVE  /\ c[BlockLength] = (a[BlockLength] - w[1]) + v[BlockLength]
         /\ d[BlockLength] = (b[BlockLength] - BlockLength * w[1]) + c[BlockLength]
<1>0. PICK B \in Nat \ {0} : B = BlockLength
  BY DeltaAssumption
<1>a. /\ w \in Seq(Int) /\ v \in Seq(Int) /\ Len(w) = B /\ Len(v) = B
      /\ \A k \in 1 .. B - 1 : v[k] = w[k + 1]
  BY <1>0 DEF MovedOn
<1>1. /\ a \in [0 .. B -> Int] /\ b \in [0 .. B -> Int] /\ a[0] = 0 /\ b[0] = 0
      /\ \A k \in 1 .. B : a[k] = a[k - 1] + w[k] /\ b[k] = (b[k - 1] + a[k - 1]) + w[k]
  BY <1>a DEF Sums
<1>2. /\ c \in [0 .. B -> Int] /\ d \in [0 .. B -> Int] /\ c[0] = 0 /\ d[0] = 0
      /\ \A k \in 1 .. B : c[k] = c[k - 1] + v[k] /\ d[k] = (d[k - 1] + c[k - 1]) + v[k]
  BY <1>a DEF Sums
<1>3. \A k \in 1 .. B : w[k] \in Int /\ v[k] \in Int
  BY <1>a, ElementOfSeq
<1>4. PICK z \in Int : z = w[1]
  BY <1>3
<1> DEFINE T == {k \in 0 .. B - 1 : c[k] = a[k + 1] - z /\ d[k] = b[k + 1] - (k + 1) * z}
<1>5. 0 \in T
  <2>1. 1 \in 1 .. B /\ 1 - 1 = 0 /\ 0 + 1 = 1 /\ 0 \in 0 .. B - 1
    OBVIOUS
  <2>2. a[1] = z /\ b[1] = z
    <3>1. a[1] = a[0] + w[1] /\ b[1] = (b[0] + a[0]) + w[1]
      BY <1>1, <2>1
    <3>2. 0 + z = z /\ (0 + 0) + z = z
      OBVIOUS
    <3> QED  BY <1>1, <1>4, <3>1, <3>2
  <2>3. (0 + 1) * z = z
    OBVIOUS
  <2>4. c[0] = a[0 + 1] - z /\ d[0] = b[0 + 1] - (0 + 1) * z
    <3>1. z - z = 0
      OBVIOUS
    <3> QED  BY <1>2, <2>1, <2>2, <2>3, <3>1
  <2> QED  BY <2>1, <2>4
<1>6. ASSUME NEW k \in 1 .. B - 1, k - 1 \in T PROVE k \in T
  <2>1. /\ k \in 1 .. B /\ k + 1 \in 1 .. B /\ (k + 1) - 1 = k /\ (k - 1) + 1 = k
        /\ k \in 0 .. B - 1 /\ k - 1 \in 0 .. B /\ k \in 0 .. B /\ k + 1 \in 0 .. B
    OBVIOUS
  <2>2. c[k - 1] = a[k] - z /\ d[k - 1] = b[k] - k * z
    BY <1>6, <2>1
  <2>3. PICK x \in Int : x = w[k + 1]
    BY <1>3, <2>1
  <2>4. v[k] = x
    BY <1>a, <2>3
  <2>5. a[k + 1] = a[k] + x /\ b[k + 1] = (b[k] + a[k]) + x
    BY <1>1, <2>1, <2>3
  <2>6. c[k] = c[k - 1] + x /\ d[k] = (d[k - 1] + c[k - 1]) + x
    BY <1>2, <2>1, <2>4
  <2>7. a[k] \in Int /\ b[k] \in Int
    BY <1>1, <2>1
  <2>8. (k + 1) * z = k * z + z /\ k * z \in Int
    OBVIOUS
  <2>9. c[k] = a[k + 1] - z /\ d[k] = b[k + 1] - (k + 1) * z
    <3>1. PICK p \in Int : p = a[k]
      BY <2>7
    <3>2. PICK q \in Int : q = b[k]
      BY <2>7
    <3>3. PICK y \in Int : y = k * z
      BY <2>8
    <3>4. a[k + 1] = p + x /\ b[k + 1] = (q + p) + x /\ (k + 1) * z = y + z
      BY <2>5, <2>8, <3>1, <3>2, <3>3
    <3>5. c[k - 1] = p - z /\ d[k - 1] = q - y
      BY <2>2, <3>1, <3>2, <3>3
    <3>6. c[k] = (p - z) + x /\ d[k] = ((q - y) + (p - z)) + x
      BY <2>6, <3>5
    <3>7. (p - z) + x = (p + x) - z /\ ((q - y) + (p - z)) + x = ((q + p) + x) - (y + z)
      OBVIOUS
    <3> QED  BY <3>4, <3>6, <3>7
  <2> QED  BY <2>1, <2>9
<1>7. B - 1 \in T
  <2> HIDE DEF T
  <2>1. PICK m \in Nat : m = B - 1
    OBVIOUS
  <2>2. 0 .. m \subseteq T
    BY <1>5, <1>6, <2>1, InductionUpTo
  <2> QED  BY <2>1, <2>2
<1>8. c[B - 1] = a[B] - z /\ d[B - 1] = b[B] - B * z
  <2>1. (B - 1) + 1 = B
    OBVIOUS
  <2> QED  BY <1>7, <2>1
<1>9. B \in 1 .. B /\ B \in 0 .. B
  OBVIOUS
<1>10. c[B] = c[B - 1] + v[B] /\ d[B] = (d[B - 1] + c[B - 1]) + v[B]
  BY <1>2, <1>9
<1>11. a[B] \in Int /\ b[B] \in Int /\ v[B] \in Int /\ B * z \in Int
  BY <1>1, <1>3, <1>9
<1> QED  BY <1>0, <1>4, <1>8, <1>10, <1>11

(* A remainder is the one number below the modulus that differs by a multiple. *)
LEMMA RemainderIsOne ==
  ASSUME NEW M \in Nat \ {0}, NEW q \in Int, NEW r \in 0 .. M - 1
  PROVE  (q * M + r) % M = r
<1>1. PICK x \in Int : x = q * M + r
  OBVIOUS
<1>2. PICK p \in Int : p = x \div M
  OBVIOUS
<1>3. PICK t \in 0 .. M - 1 : t = x % M
  OBVIOUS
<1>4. x = p * M + t
  BY <1>2, <1>3
<1>5. CASE p = q
  BY <1>1, <1>3, <1>4, <1>5
<1>6. CASE p < q
  <2>1. PICK e \in Nat : q = p + 1 + e
    <3>1. q - p - 1 \in Nat /\ q = p + 1 + (q - p - 1)
      BY <1>6
    <3> QED  BY <3>1
  <2>2. q * M = p * M + M + e * M /\ e * M \in Nat /\ p * M \in Int
    BY <2>1
  <2> QED  BY <1>1, <1>4, <2>2
<1>7. CASE q < p
  <2>1. PICK e \in Nat : p = q + 1 + e
    <3>1. p - q - 1 \in Nat /\ p = q + 1 + (p - q - 1)
      BY <1>7
    <3> QED  BY <3>1
  <2>2. p * M = q * M + M + e * M /\ e * M \in Nat /\ q * M \in Int
    BY <2>1
  <2> QED  BY <1>1, <1>4, <2>2
<1> QED  BY <1>5, <1>6, <1>7

(* It does not matter when the sums are cut to the modulus. *)
LEMMA RemainderOfSum ==
  ASSUME NEW M \in Nat \ {0}, NEW x \in Int, NEW y \in Int
  PROVE  ((x % M) + y) % M = (x + y) % M
<1>1. PICK p \in Int : p = x \div M
  OBVIOUS
<1>2. PICK t \in 0 .. M - 1 : t = x % M
  OBVIOUS
<1>3. x = p * M + t
  BY <1>1, <1>2
<1>4. PICK q \in Int : q = (t + y) \div M
  OBVIOUS
<1>5. PICK r \in 0 .. M - 1 : r = (t + y) % M
  OBVIOUS
<1>6. t + y = q * M + r
  BY <1>4, <1>5
<1>7. PICK u \in Int : u = p + q
  OBVIOUS
<1>8. x + y = u * M + r
  <2>1. u * M = p * M + q * M /\ p * M \in Int /\ q * M \in Int
    BY <1>7
  <2> QED  BY <1>3, <1>6, <2>1
<1>9. (u * M + r) % M = r
  BY RemainderIsOne
<1> QED  BY <1>2, <1>5, <1>8, <1>9

-----------------------------------------------------------------------------
(* The window is a block of the chunk in front of i. *)
LEMMA WindowShape ==
  ASSUME chunk \in Seq(Int), i \in Nat, BlockLength <= i, i <= Len(chunk)
  PROVE  /\ Window \in Seq(Int) /\ Len(Window) = BlockLength
         /\ \A k \in 1 .. BlockLength : Window[k] = chunk[(i - BlockLength) + k]
<1>1. PICK a \in Nat : a = i - BlockLength
  BY DeltaAssumption
<1>2. a <= i /\ i - a = BlockLength
  BY <1>1, DeltaAssumption
<1>3. /\ SubSeq(chunk, a + 1, i) \in Seq(Int) /\ Len(SubSeq(chunk, a + 1, i)) = i - a
      /\ \A k \in 1 .. i - a : SubSeq(chunk, a + 1, i)[k] = chunk[a + k]
  BY <1>2, SubSeqShape
<1> QED  BY <1>1, <1>2, <1>3 DEF Window

(* The same bytes in front of i, wherever the chunk begins: the same window. *)
LEMMA SameWindow ==
  ASSUME chunk \in Seq(Int), i \in Nat, BlockLength <= i, i <= Len(chunk),
         chunk' \in Seq(Int), i' \in Nat, BlockLength <= i', i' <= Len(chunk'),
         \A k \in 1 .. BlockLength :
           chunk'[(i' - BlockLength) + k] = chunk[(i - BlockLength) + k]
  PROVE  Window' = Window
<1>1. PICK w : w = Window
  OBVIOUS
<1>2. PICK v : v = Window'
  OBVIOUS
<1>3. /\ w \in Seq(Int) /\ Len(w) = BlockLength
      /\ \A k \in 1 .. BlockLength : w[k] = chunk[(i - BlockLength) + k]
  BY <1>1, WindowShape
<1>4. /\ v \in Seq(Int) /\ Len(v) = BlockLength
      /\ \A k \in 1 .. BlockLength : v[k] = chunk'[(i' - BlockLength) + k]
  <2>1. /\ SubSeq(chunk', (i' - BlockLength) + 1, i') \in Seq(Int)
        /\ Len(SubSeq(chunk', (i' - BlockLength) + 1, i')) = BlockLength
        /\ \A k \in 1 .. BlockLength : SubSeq(chunk', (i' - BlockLength) + 1, i')[k]
                                         = chunk'[(i' - BlockLength) + k]
    <3>2. PICK b \in Nat : b = i'
      OBVIOUS
    <3>3. PICK s \in Seq(Int) : s = chunk'
      OBVIOUS
    <3>6. PICK B \in Nat : B = BlockLength
      BY DeltaAssumption
    <3>7. B <= b /\ b <= Len(s)
      BY <3>2, <3>3, <3>6
    <3>8. PICK a \in Nat : a = b - B
      BY <3>7
    <3>1. a = i' - BlockLength
      BY <3>2, <3>6, <3>8
    <3>4. a <= b /\ b - a = BlockLength /\ b <= Len(s)
      BY <3>6, <3>7, <3>8
    <3>5. /\ SubSeq(s, a + 1, b) \in Seq(Int) /\ Len(SubSeq(s, a + 1, b)) = b - a
          /\ \A k \in 1 .. b - a : SubSeq(s, a + 1, b)[k] = s[a + k]
      BY <3>4, SubSeqShape
    <3> QED  BY <3>1, <3>2, <3>3, <3>4, <3>5
  <2> QED  BY <1>2, <2>1 DEF Window
<1>5. v = w
  BY <1>3, <1>4, SeqEqual
<1> QED  BY <1>1, <1>2, <1>5

(* A checksum is made of two numbers. *)
LEMMA ChecksumPair ==
  ASSUME NEW w \in Seq(Int)
  PROVE  RollingChecksum(w) = <<RollingChecksum(w)[1], RollingChecksum(w)[2]>>
BY ChecksumSums

-----------------------------------------------------------------------------
(* The rolling checksum is that of the window wherever there is one. *)
RollInv ==
  pc \in {"match", "refill", "advance"} /\ i # 0 => <<s1, s2>> = RollingChecksum(Window)

(* The first window, whose checksum is computed at once: that of the first
   block of the chunk. *)
LEMMA FirstWindow ==
  ASSUME chunk' \in Seq(Int), i' = BlockLength,
         BlockLength <= Len(chunk'),
         s1' = RollingChecksum(Take(chunk', BlockLength))[1],
         s2' = RollingChecksum(Take(chunk', BlockLength))[2]
  PROVE  RollInv'
<1>1. PICK s \in Seq(Int) : s = chunk'
  OBVIOUS
<1>2. PICK B \in Nat : B = BlockLength
  BY DeltaAssumption
<1>3. PICK w : w = Take(s, B)
  OBVIOUS
<1>4. w \in Seq(Int)
  <2>1. PICK zero \in Nat : zero = 0
    OBVIOUS
  <2>2. zero <= B /\ B <= Len(s) /\ zero + 1 = 1
    BY <1>1, <1>2, <2>1
  <2>3. SubSeq(s, zero + 1, B) \in Seq(Int)
    BY <2>2, SubSeqShape
  <2> QED  BY <1>3, <2>2, <2>3 DEF Take
<1>5. Window' = w
  <2>1. (B - B) + 1 = 1
    OBVIOUS
  <2> QED  BY <1>1, <1>2, <1>3, <2>1 DEF Window, Take
<1>6. <<s1', s2'>> = RollingChecksum(w)
  BY <1>1, <1>2, <1>3, <1>4, ChecksumPair
<1>7. RollingChecksum(Window)' = RollingChecksum(w)
  BY <1>5 DEF RollingChecksum
<1> QED  BY <1>6, <1>7 DEF RollInv

(* Nothing that the window depends on changes. *)
LEMMA WindowStays ==
  ASSUME ScanInv, RollInv, pc \in {"match", "refill", "advance"}, i # 0,
         UNCHANGED <<s1, s2>>, chunk' \in Seq(Int), i' \in Nat, BlockLength <= i',
         BlockLength <= i, i <= Len(chunk), i' <= Len(chunk'),
         \A k \in 1 .. BlockLength :
           chunk'[(i' - BlockLength) + k] = chunk[(i - BlockLength) + k]
  PROVE  RollInv'
<1>1. chunk \in Seq(Int) /\ i \in Nat
  BY DEF ScanInv, ScanType
<1>2. Window' = Window
  BY <1>1, SameWindow
<1>3. RollingChecksum(Window)' = RollingChecksum(Window)
  BY <1>2 DEF RollingChecksum
<1> QED  BY <1>3 DEF RollInv

(* The first window of the file. *)
LEMMA StartRoll == ScanInv /\ Start => RollInv'
<1> SUFFICES ASSUME ScanInv, Start PROVE RollInv'
  OBVIOUS
<1>1. CASE pc' # "match"
  <2>1. pc' \notin {"match", "refill", "advance"}
    BY <1>1 DEF Start
  <2> QED  BY <2>1 DEF RollInv
<1>2. CASE pc' = "match"
  <2>1. PICK first : first = ReadAt(newData, 0, chunkSize)
    OBVIOUS
  <2>2. first \in Seq(Int)
    <3>1. chunkSize \in Nat /\ 0 \in Nat /\ newData \in Seq(Int) /\ 0 <= Len(newData)
      BY DeltaAssumption, LenProperties DEF chunkSize, ScanInv, ScanType
    <3> QED  BY <2>1, <3>1, ReadAtLength
  <2>3. /\ chunk' = first /\ i' = BlockLength /\ ~(Len(first) < BlockLength)
        /\ s1' = RollingChecksum(Take(first, BlockLength))[1]
        /\ s2' = RollingChecksum(Take(first, BlockLength))[2]
    BY <1>2, <2>1 DEF Start
  <2>4. BlockLength <= Len(first)
    BY <2>2, <2>3, LenProperties, DeltaAssumption
  <2> QED  BY <2>2, <2>3, <2>4, FirstWindow
<1> QED  BY <1>1, <1>2

(* A slide moves the window to the front of the chunk. *)
LEMMA SlideRoll == ScanInv /\ RollInv /\ Slide => RollInv'
<1> SUFFICES ASSUME ScanInv, RollInv, Slide PROVE RollInv'
  OBVIOUS
<1>1. /\ pc = "match" /\ chunk \in Seq(Int) /\ i \in Nat /\ Len(chunk) \in Nat
      /\ BlockLength <= i /\ i <= Len(chunk) /\ UNCHANGED <<s1, s2>>
      /\ chunk' = Drop(chunk, i - BlockLength) /\ i' = i - (i - BlockLength)
  BY LenProperties DEF ScanInv, ScanType, AtMatch, Slide
<1>2. PICK B \in Nat \ {0} : B = BlockLength
  BY DeltaAssumption
<1>3. PICK d \in Nat : d = i - B
  BY <1>1, <1>2
<1>4. i # 0 /\ i' = B /\ d + B = i
  BY <1>1, <1>2, <1>3
<1>5. PICK m \in Nat : m = Len(chunk)
  BY <1>1
<1>6. d <= m /\ B <= m - d
  BY <1>1, <1>2, <1>4, <1>5
<1>7. PICK s : s = chunk'
  OBVIOUS
<1>8. s \in Seq(Int) /\ Len(s) = m - d /\ \A k \in 1 .. m - d : s[k] = chunk[d + k]
  <2>1. s = SubSeq(chunk, d + 1, m)
    BY <1>1, <1>2, <1>3, <1>5, <1>7 DEF Drop
  <2>2. /\ SubSeq(chunk, d + 1, m) \in Seq(Int) /\ Len(SubSeq(chunk, d + 1, m)) = m - d
        /\ \A k \in 1 .. m - d : SubSeq(chunk, d + 1, m)[k] = chunk[d + k]
    <3>1. d <= m /\ m <= Len(chunk) /\ chunk \in Seq(Int)
      BY <1>1, <1>5, <1>6
    <3> QED  BY <3>1, SubSeqShape
  <2> QED  BY <2>1, <2>2
<1>9. \A k \in 1 .. BlockLength :
        chunk'[(i' - BlockLength) + k] = chunk[(i - BlockLength) + k]
  <2> SUFFICES ASSUME NEW k \in 1 .. B
               PROVE  chunk'[(i' - BlockLength) + k] = chunk[(i - BlockLength) + k]
    BY <1>2
  <2>1. (i' - BlockLength) + k = k /\ (i - BlockLength) + k = d + k /\ k \in 1 .. m - d
    BY <1>2, <1>3, <1>4, <1>6
  <2> QED  BY <1>7, <1>8, <2>1
<1>10. chunk' \in Seq(Int) /\ i' \in Nat /\ BlockLength <= i' /\ i' <= Len(chunk')
  BY <1>2, <1>4, <1>6, <1>7, <1>8
<1> QED  BY <1>1, <1>4, <1>9, <1>10, WindowStays

(* A read adds bytes behind the window. *)
LEMMA RefillRoll == ScanInv /\ RollInv /\ Refill => RollInv'
<1> SUFFICES ASSUME ScanInv, RollInv, Refill PROVE RollInv'
  OBVIOUS
<1>1. /\ pc = "refill" /\ AtRefill /\ i <= Len(chunk) /\ chunk \in Seq(Int) /\ i \in Nat
      /\ Len(chunk) \in Nat /\ Accounted /\ newData \in Seq(Int) /\ position \in Nat
      /\ position <= Len(newData) /\ UNCHANGED <<i, s1, s2>>
  BY LenProperties DEF ScanInv, ScanType, Refill
<1>2. CASE i = 0
  BY <1>1, <1>2 DEF RollInv
<1>3. CASE i # 0
  <2>1. BlockLength <= i
    BY <1>1, <1>3 DEF AtRefill
  <2>2. PICK room \in Nat : room = Room
    <3>1. PICK B \in Nat : B = BlockLength
      BY DeltaAssumption
    <3>2. Room = B * 2 - Len(chunk) /\ Len(chunk) <= 2 * B
      BY <1>1, <3>1 DEF Accounted, Room, chunkSize, n
    <3>3. Room \in Nat
      BY <1>1, <3>2
    <3> QED  BY <3>3
  <2>3. PICK bytes : bytes = ReadAt(newData, position, room)
    OBVIOUS
  <2>4. bytes \in Seq(Int) /\ Len(bytes) \in Nat
    <3>1. bytes \in Seq(Int)
      BY <1>1, <2>3, ReadAtLength
    <3> QED  BY <3>1, LenProperties
  <2>5. chunk' = chunk \/ chunk' = chunk \o bytes
    BY <2>2, <2>3 DEF Refill
  <2>6. /\ chunk' \in Seq(Int) /\ Len(chunk) <= Len(chunk')
        /\ \A k \in 1 .. Len(chunk) : chunk'[k] = chunk[k]
    <3>1. CASE chunk' = chunk
      BY <1>1, <3>1
    <3>2. CASE chunk' = chunk \o bytes
      <4>1. /\ chunk \o bytes \in Seq(Int) /\ Len(chunk \o bytes) = Len(chunk) + Len(bytes)
            /\ \A k \in 1 .. Len(chunk) + Len(bytes) :
                 (chunk \o bytes)[k] = IF k <= Len(chunk) THEN chunk[k] ELSE bytes[k - Len(chunk)]
        BY <1>1, <2>4, ConcatProperties
      <4>2. \A k \in 1 .. Len(chunk) : k \in 1 .. Len(chunk) + Len(bytes) /\ k <= Len(chunk)
        BY <1>1, <2>4
      <4> QED  BY <1>1, <2>4, <3>2, <4>1, <4>2
    <3> QED  BY <2>5, <3>1, <3>2
  <2>7. \A k \in 1 .. BlockLength :
          chunk'[(i' - BlockLength) + k] = chunk[(i - BlockLength) + k]
    <3> SUFFICES ASSUME NEW k \in 1 .. BlockLength
                 PROVE  chunk'[(i' - BlockLength) + k] = chunk[(i - BlockLength) + k]
      OBVIOUS
    <3>1. (i - BlockLength) + k \in 1 .. Len(chunk) /\ i' = i
      BY <1>1, <2>1, DeltaAssumption
    <3> QED  BY <2>6, <3>1
  <2>8. i' \in Nat /\ BlockLength <= i' /\ i' <= Len(chunk')
    BY <1>1, <2>1, <2>6, LenProperties, DeltaAssumption
  <2> QED  BY <1>1, <1>3, <2>1, <2>6, <2>7, <2>8, WindowStays
<1> QED  BY <1>2, <1>3

(* The window moves on by one byte: RolledSum and the byte in front of it make
   the checksum of the new window of that of the old one. *)
LEMMA AdvanceRoll == ScanInv /\ RollInv /\ Advance => RollInv'
<1> SUFFICES ASSUME ScanInv, RollInv, Advance PROVE RollInv'
  OBVIOUS
<1>1. /\ pc = "advance" /\ AtAdvance /\ chunk \in Seq(Int) /\ i \in Nat /\ chunk' = chunk
      /\ Len(chunk) \in Nat
  BY LenProperties DEF ScanInv, ScanType, Advance
<1>2. CASE i = 0
  <2>1. /\ i' = BlockLength /\ s1' = RollingChecksum(Take(chunk, BlockLength))[1]
        /\ s2' = RollingChecksum(Take(chunk, BlockLength))[2]
    BY <1>2 DEF Advance
  <2>2. BlockLength <= Len(chunk)
    BY <1>1, <1>2 DEF AtAdvance
  <2> QED  BY <1>1, <2>1, <2>2, FirstWindow
<1>3. CASE i # 0
  <2>1. PICK B \in Nat \ {0} : B = BlockLength
    BY DeltaAssumption
  <2>2. PICK M \in Nat \ {0} : M = Modulus
    BY DeltaAssumption
  <2>3. /\ B <= i /\ i < Len(chunk) /\ i' = i + 1
        /\ s1' = ((s1 - chunk[(i - B) + 1]) + chunk[i + 1]) % M
        /\ s2' = ((s2 - B * chunk[(i - B) + 1]) + s1') % M
    BY <1>1, <1>3, <2>1, <2>2 DEF AtAdvance, Advance, RolledSum
  <2>4. PICK w : w = Window
    OBVIOUS
  <2>5. PICK v : v = Window'
    OBVIOUS
  <2>6. PICK x \in Nat : x = i - B
    BY <1>1, <2>1, <2>3
  <2>7. /\ w \in Seq(Int) /\ Len(w) = B /\ \A k \in 1 .. B : w[k] = chunk[x + k]
    <3>1. BlockLength <= i /\ i <= Len(chunk)
      BY <1>1, <2>1, <2>3
    <3> QED  BY <1>1, <2>1, <2>4, <2>6, <3>1, WindowShape
  <2>8. /\ v \in Seq(Int) /\ Len(v) = B /\ \A k \in 1 .. B : v[k] = chunk[(x + 1) + k]
    <3>1. PICK y \in Nat : y = i + 1
      BY <1>1
    <3>2. x + 1 <= y /\ y <= Len(chunk) /\ y - (x + 1) = B /\ x + 1 \in Nat /\ (y - B) + 1 = (x + 1) + 1
      BY <1>1, <2>1, <2>3, <2>6, <3>1
    <3>3. PICK z \in Nat : z = x + 1
      OBVIOUS
    <3>4. v = SubSeq(chunk, z + 1, y)
      BY <1>1, <2>1, <2>3, <2>5, <3>1, <3>2, <3>3 DEF Window
    <3>5. /\ SubSeq(chunk, z + 1, y) \in Seq(Int) /\ Len(SubSeq(chunk, z + 1, y)) = y - z
          /\ \A k \in 1 .. y - z : SubSeq(chunk, z + 1, y)[k] = chunk[z + k]
      <4>1. z <= y /\ y <= Len(chunk) /\ chunk \in Seq(Int)
        BY <1>1, <3>2, <3>3
      <4> QED  BY <4>1, SubSeqShape
    <3> QED  BY <3>2, <3>3, <3>4, <3>5
  <2>9. \A k \in 1 .. B - 1 : v[k] = w[k + 1]
    <3> SUFFICES ASSUME NEW k \in 1 .. B - 1 PROVE v[k] = w[k + 1]
      OBVIOUS
    <3>1. k \in 1 .. B /\ k + 1 \in 1 .. B /\ (x + 1) + k = x + (k + 1)
      OBVIOUS
    <3> QED  BY <2>7, <2>8, <3>1
  <2>10. PICK e \in Int : e = w[1] /\ e = chunk[(i - B) + 1]
    <3>1. 1 \in 1 .. B
      OBVIOUS
    <3>2. w[1] \in Int /\ w[1] = chunk[x + 1]
      BY <2>7, <3>1, ElementOfSeq
    <3> QED  BY <2>6, <3>2
  <2>11. PICK f \in Int : f = v[B] /\ f = chunk[i + 1]
    <3>1. B \in 1 .. B /\ (x + 1) + B = i + 1
      BY <1>1, <2>1, <2>6
    <3>2. v[B] \in Int /\ v[B] = chunk[i + 1]
      BY <2>8, <3>1, ElementOfSeq
    <3> QED  BY <3>2
  <2>12. PICK a : \E b : Sums(w, a, b) /\ RollingChecksum(w) = <<a[B] % M, b[B] % M>>
    BY <2>2, <2>7, ChecksumSums
  <2>13. PICK b : Sums(w, a, b) /\ RollingChecksum(w) = <<a[B] % M, b[B] % M>>
    BY <2>12
  <2>14. PICK c : \E d : Sums(v, c, d) /\ RollingChecksum(v) = <<c[B] % M, d[B] % M>>
    BY <2>2, <2>8, ChecksumSums
  <2>15. PICK d : Sums(v, c, d) /\ RollingChecksum(v) = <<c[B] % M, d[B] % M>>
    BY <2>14
  <2>16. PICK p \in Int : p = a[B]
    BY <2>7, <2>13 DEF Sums
  <2>17. PICK q \in Int : q = b[B]
    BY <2>7, <2>13 DEF Sums
  <2>18. PICK g \in Int : g = c[B]
    BY <2>8, <2>15 DEF Sums
  <2>19. PICK h \in Int : h = d[B]
    BY <2>8, <2>15 DEF Sums
  <2>20. g = (p - e) + f /\ h = (q - B * e) + g
    <3>1. MovedOn(w, v)
      BY <2>1, <2>7, <2>8, <2>9 DEF MovedOn
    <3>2. /\ c[BlockLength] = (a[BlockLength] - w[1]) + v[BlockLength]
          /\ d[BlockLength] = (b[BlockLength] - BlockLength * w[1]) + c[BlockLength]
      BY <2>13, <2>15, <3>1, SumsMoveOn
    <3> QED  BY <2>10, <2>11, <2>16, <2>17, <2>18, <2>19, <2>1, <3>2
  <2>21. s1 = p % M /\ s2 = q % M
    BY <1>1, <1>3, <2>4, <2>13, <2>16, <2>17 DEF RollInv
  <2>22. s1' = g % M
    <3>1. s1' = (((p % M) - e) + f) % M
      BY <2>3, <2>10, <2>11, <2>21
    <3>2. PICK y \in Int : y = f - e
      OBVIOUS
    <3>3. p % M \in Int /\ ((p % M) - e) + f = (p % M) + y /\ p + y = g
      BY <2>20, <3>2
    <3>4. ((p % M) + y) % M = (p + y) % M
      BY RemainderOfSum
    <3> QED  BY <3>1, <3>3, <3>4
  <2>23. s2' = h % M
    <3>1. PICK j \in Int : j = B * e
      OBVIOUS
    <3>2. PICK r \in Int : r = g % M
      OBVIOUS
    <3>3. PICK t \in Int : t = q % M
      OBVIOUS
    <3>4. s2' = ((t - j) + r) % M
      BY <2>3, <2>10, <2>21, <2>22, <3>1, <3>2, <3>3
    <3>5. PICK y \in Int : y = t - j
      OBVIOUS
    <3>6. (r + y) % M = (g + y) % M
      BY <3>2, RemainderOfSum
    <3>7. PICK z \in Int : z = g - j
      OBVIOUS
    <3>8. (t + z) % M = (q + z) % M
      BY <3>3, RemainderOfSum
    <3>9. (t - j) + r = r + y /\ g + y = t + z /\ q + z = h
      BY <2>20, <3>1, <3>5, <3>7
    <3> QED  BY <3>4, <3>6, <3>8, <3>9
  <2>24. <<s1', s2'>> = RollingChecksum(v)
    BY <2>15, <2>18, <2>19, <2>22, <2>23
  <2>25. RollingChecksum(Window)' = RollingChecksum(v)
    BY <2>5 DEF RollingChecksum
  <2> QED  BY <2>24, <2>25 DEF RollInv
<1> QED  BY <1>2, <1>3

(* The rest of the program neither has a window nor changes it. *)
LEMMA OthersRoll ==
  ScanInv /\ RollInv /\ (\/ SendChecksum \/ SendPlain \/ Match \/ NoMatch \/ Trailer
                         \/ ReceiveFile \/ UNCHANGED vars) => RollInv'
<1> SUFFICES ASSUME ScanInv, RollInv,
                    \/ SendChecksum \/ SendPlain \/ Match \/ NoMatch \/ Trailer
                    \/ ReceiveFile \/ UNCHANGED vars
             PROVE  RollInv'
  OBVIOUS
<1>1. CASE SendChecksum \/ SendPlain \/ Trailer \/ ReceiveFile
  <2>1. pc' \notin {"match", "refill", "advance"}
    BY <1>1 DEF SendChecksum, SendPlain, Trailer, ReceiveFile, ReceiveData, ReceiveBlock,
                ReceiveDigest
  <2> QED  BY <2>1 DEF RollInv
<1>2. CASE Match
  BY <1>2 DEF Match, RollInv
<1>3. CASE NoMatch \/ UNCHANGED vars
  <2>1. /\ UNCHANGED <<chunk, i, s1, s2>>
        /\ pc' = pc \/ (pc = "match" /\ pc' = "refill")
    BY <1>3 DEF NoMatch, vars, scan
  <2>2. RollingChecksum(Window)' = RollingChecksum(Window)
    BY <2>1 DEF RollingChecksum, Window
  <2> QED  BY <2>1, <2>2 DEF RollInv
<1> QED  BY <1>1, <1>2, <1>3

(* The checksum kept up byte by byte is that of the window. *)
THEOREM ChecksumIsOfWindow == Spec => []RollingIsExact
<1>1. Init => RollInv
  BY DEF Init, RollInv
<1>2. ScanInv /\ RollInv /\ [Next]_vars => RollInv'
  BY StartRoll, SlideRoll, RefillRoll, AdvanceRoll, OthersRoll DEF Next, SendFile
<1>3. ScanInv /\ RollInv => RollingIsExact
  BY DeltaAssumption DEF ScanInv, ScanType, AtMatch, RollInv, RollingIsExact
<1> QED  BY <1>1, <1>2, <1>3, ScanIsInvariant, PTL DEF Spec
=============================================================================
