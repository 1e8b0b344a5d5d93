--------------------------- MODULE Stream_proofs ---------------------------
(***************************************************************************)
(* Theorems about Stream: for every size of the buffer, of the flag and of *)
(* the pipes, and for everything the client and the remote side may do, a  *)
(* flush that has begun is carried through unchanged, a header announces   *)
(* the bytes that follow it, no deletion is lost, and each direction is a  *)
(* byte channel.  At the end are two theorems about Throttle, the part of  *)
(* writeAll that keeps the upload limit.                                   *)
(*                                                                         *)
(* What is on its way is described by the parser at its far end: one step  *)
(* of OutStep or InStep for each byte, from where that parser is now to    *)
(* where the bytes were written.  A step of the system takes bytes off the *)
(* front of such a run or puts bytes on its back.                          *)
(***************************************************************************)
EXTENDS Stream, Throttle, SequenceTheorems, FiniteSetTheorems, WellFoundedInduction, TLAPS

(* The writing side of the stream: how far a flush may have come.  What it
   has put on the wire is part of a frame it has not completed yet. *)
FlushType ==
  /\ flushStart \in Nat
  /\ multiplexed \in BOOLEAN
  /\ writeBuffer \in Seq(Nat)
  /\ written \in Nat

FlushInv ==
  /\ FlushType
  /\ flushStart # 0 => op # "flush" /\ flushStart < Len(writeBuffer) + flagLength

-----------------------------------------------------------------------------
(* A function on 1 .. m is a sequence of length m. *)
LEMMA FunctionIsSeq ==
  ASSUME NEW m \in Nat, NEW S, NEW f \in [1 .. m -> S]
  PROVE  f \in Seq(S) /\ Len(f) = m
OBVIOUS

(* The length of two sequences put together. *)
LEMMA ConcatLength ==
  ASSUME NEW S, NEW s \in Seq(S), NEW t \in Seq(S)
  PROVE  s \o t \in Seq(S) /\ Len(s \o t) = Len(s) + Len(t)
BY ConcatProperties

(* The flag and the buffer make up the frame. *)
LEMMA FrameLength ==
  ASSUME NEW bytes \in Seq(Nat), multiplexed \in BOOLEAN
  PROVE  Len(Frame(bytes)) = Len(bytes) + flagLength /\ Len(Frame(bytes)) \in Nat
<1>0. Len(bytes) \in Nat /\ FlagLength \in Nat
  BY StreamAssumption, LenProperties
<1> DEFINE flag == Flag("data", Len(bytes))
           data == Data(bytes)
           S == {flag[k] : k \in 1 .. FlagLength} \cup {data[k] : k \in 1 .. Len(bytes)}
<1>1. flag \in Seq(S) /\ Len(flag) = FlagLength
  <2>1. flag = [k \in 1 .. FlagLength |-> flag[k]]
    BY DEF Flag
  <2>2. \A k \in 1 .. FlagLength : flag[k] \in S
    OBVIOUS
  <2> HIDE DEF flag, S
  <2>3. flag \in [1 .. FlagLength -> S]
    BY <2>1, <2>2
  <2> QED  BY <1>0, <2>3, FunctionIsSeq
<1>2. data \in Seq(S) /\ Len(data) = Len(bytes)
  <2>1. data = [k \in 1 .. Len(bytes) |-> data[k]]
    BY DEF Data
  <2>2. \A k \in 1 .. Len(bytes) : data[k] \in S
    OBVIOUS
  <2> HIDE DEF data, S
  <2>3. data \in [1 .. Len(bytes) -> S]
    BY <2>1, <2>2
  <2> QED  BY <1>0, <2>3, FunctionIsSeq
<1>3. Len(flag \o data) = FlagLength + Len(bytes)
  <2> HIDE DEF flag, data, S
  <2>1. Len(flag \o data) = Len(flag) + Len(data)
    BY <1>1, <1>2, ConcatLength
  <2> QED  BY <1>1, <1>2, <2>1
<1> QED  BY <1>0, <1>2, <1>3 DEF Frame, flagLength

(* No flush has begun when the stream is set up. *)
LEMMA InitFlush == Init => FlushInv
BY EmptySeq DEF Init, FlushInv, FlushType

(* flushWriteBuffer does nothing, or begins with no flush half done. *)
LEMMA FlushWriteBufferStep ==
  ASSUME NEW additional, FlushInv, FlushWriteBuffer(additional)
  PROVE  /\ flushStart' = flushStart
         /\ \/ writeBuffer' = writeBuffer /\ op' = op
            \/ writeBuffer' = <<>> /\ flushStart = 0
BY DEF FlushWriteBuffer

(* write, a blocking flush and disableAutomaticFlush leave a flush that has
   begun, and its buffer, alone. *)
LEMMA CallsRespectFlush ==
  FlushInv /\ (Write \/ Flush \/ DisableAutomaticFlush) =>
    /\ flushStart # 0 => UNCHANGED <<writeBuffer, flushStart>> /\ op' # "flush"
    /\ flushStart = 0 => flushStart' = 0
<1> SUFFICES ASSUME FlushInv, Write \/ Flush \/ DisableAutomaticFlush
             PROVE  /\ flushStart # 0 => UNCHANGED <<writeBuffer, flushStart>> /\ op' # "flush"
                    /\ flushStart = 0 => flushStart' = 0
  OBVIOUS
<1>1. CASE Write
  BY <1>1, FlushWriteBufferStep DEF Write, WriteForbidden, Fatal
<1>2. CASE Flush
  BY <1>2, FlushWriteBufferStep DEF Flush, Fatal
<1>3. CASE DisableAutomaticFlush
  BY <1>3, FlushWriteBufferStep DEF DisableAutomaticFlush, Fatal
<1> QED  BY <1>1, <1>2, <1>3

(* They put whole sequences of numbers into the buffer. *)
LEMMA CallsKeepType ==
  FlushInv /\ (Write \/ Flush \/ DisableAutomaticFlush) => FlushType'
<1> SUFFICES ASSUME FlushInv, Write \/ Flush \/ DisableAutomaticFlush
             PROVE  FlushType'
  OBVIOUS
<1>1. flushStart' \in Nat /\ multiplexed' \in BOOLEAN
  BY CallsRespectFlush DEF FlushInv, FlushType, Write, Flush, DisableAutomaticFlush
<1>2. writeBuffer \in Seq(Nat) /\ <<>> \in Seq(Nat) /\ written \in Nat
  BY EmptySeq DEF FlushInv, FlushType
<1>3. CASE Write
  <2> PICK size \in WriteSizes :
        /\ \/ writeBuffer' = writeBuffer
           \/ writeBuffer' = writeBuffer \o Fresh(written, size)
           \/ writeBuffer' = <<>>
        /\ written' = written \/ written' = written + size
    BY <1>3, FlushWriteBufferStep DEF Write, Fatal
  <2>1. size \in Nat
    BY StreamAssumption
  <2>2. Fresh(written, size) \in Seq(Nat)
    <3>1. Fresh(written, size) \in [1 .. size -> Nat]
      BY <1>2, <2>1 DEF Fresh
    <3> QED  BY <2>1, <3>1, FunctionIsSeq
  <2>3. writeBuffer \o Fresh(written, size) \in Seq(Nat)
    BY <1>2, <2>2, ConcatLength
  <2>4. writeBuffer' \in Seq(Nat)
    BY <1>2, <2>3
  <2>5. written' \in Nat
    BY <1>2, <2>1
  <2> QED  BY <1>1, <2>4, <2>5 DEF FlushType
<1>4. CASE Flush \/ DisableAutomaticFlush
  <2>1. writeBuffer' \in {writeBuffer, <<>>} /\ written' = written
    BY <1>4, FlushWriteBufferStep DEF Flush, DisableAutomaticFlush, Fatal
  <2> QED  BY <1>1, <1>2, <2>1 DEF FlushType
<1> QED  BY <1>3, <1>4

(* tryFlushWriteBuffer sends some more of the frame, or completes it. *)
LEMMA TryFlushStep ==
  FlushInv /\ TryFlushWriteBuffer =>
    /\ op' = op /\ op # "flush" /\ UNCHANGED <<multiplexed, written>>
    /\ \/ writeBuffer' = <<>> /\ flushStart' = 0
       \/ /\ writeBuffer' = writeBuffer
          /\ flushStart' \in Nat /\ flushStart' >= flushStart
          /\ flushStart' < Len(writeBuffer) + flagLength
<1> SUFFICES ASSUME FlushInv, TryFlushWriteBuffer
             PROVE  /\ op' = op /\ op # "flush" /\ UNCHANGED <<multiplexed, written>>
                    /\ \/ writeBuffer' = <<>> /\ flushStart' = 0
                       \/ /\ writeBuffer' = writeBuffer
                          /\ flushStart' \in Nat /\ flushStart' >= flushStart
                          /\ flushStart' < Len(writeBuffer) + flagLength
  OBVIOUS
<1> DEFINE segment == IF flushStart < flagLength THEN flagLength ELSE Len(Frame(writeBuffer))
<1>1. flushStart \in Nat /\ flagLength \in Nat /\ Len(writeBuffer) \in Nat
  BY StreamAssumption, LenProperties DEF FlushInv, FlushType, flagLength
<1>2. segment \in Nat
  BY <1>1, FrameLength DEF FlushInv, FlushType
<1>3. PICK k \in 1 .. segment - flushStart :
        IF FlushDone(flushStart + k)
          THEN writeBuffer' = <<>> /\ flushStart' = 0
          ELSE flushStart' = flushStart + k /\ UNCHANGED writeBuffer
  BY DEF TryFlushWriteBuffer
<1>4. k \in Nat
  BY <1>1, <1>2, <1>3
<1>5. CASE FlushDone(flushStart + k)
  BY <1>3, <1>5 DEF TryFlushWriteBuffer
<1>6. CASE ~FlushDone(flushStart + k)
  BY <1>1, <1>3, <1>4, <1>6 DEF TryFlushWriteBuffer, FlushDone
<1> QED  BY <1>5, <1>6

(* No other step looks at the write buffer, or begins a flush. *)
LEMMA OthersKeepBuffer ==
  Read \/ IsDataAvailable \/ Thread \/ Remote \/ UNCHANGED vars =>
    /\ UNCHANGED <<writeBuffer, flushStart, multiplexed, written>>
    /\ op' = op \/ op' # "flush"
BY DEF Read, IsDataAvailable, Thread, WriteAll, WriteAllBlocked, Poll, ReadMessage, ReadChunk,
       Remote, RemoteSend, RemoteWrite, RemoteRead, vars, writing, ReadFlag, ReadText,
       FlagComplete, EndMessage, StashChunk

(* The inductive invariant. *)
THEOREM FlushIsInvariant == Spec => []FlushInv
<1>1. ASSUME FlushInv, [Next]_vars PROVE FlushInv'
  <2>1. CASE Write \/ Flush \/ DisableAutomaticFlush
    <3>1. FlushType' /\ UNCHANGED multiplexed
      BY <1>1, <2>1, CallsKeepType DEF Write, Flush, DisableAutomaticFlush
    <3> QED  BY <1>1, <2>1, <3>1, CallsRespectFlush DEF FlushInv, flagLength
  <2>2. CASE TryFlushWriteBuffer
    <3>0. <<>> \in Seq(Nat) /\ 0 \in Nat
      BY EmptySeq
    <3>1. writeBuffer' \in Seq(Nat) /\ flushStart' \in Nat
      BY <1>1, <2>2, <3>0, TryFlushStep DEF FlushInv, FlushType
    <3>2. flagLength' = flagLength /\ op' # "flush" /\ written' = written
      BY <1>1, <2>2, TryFlushStep DEF flagLength
    <3>3. flushStart' # 0 => flushStart' < Len(writeBuffer') + flagLength
      BY <1>1, <2>2, TryFlushStep
    <3> QED  BY <1>1, <2>2, <3>1, <3>2, <3>3, TryFlushStep DEF FlushInv, FlushType
  <2>3. CASE Read \/ IsDataAvailable \/ Thread \/ Remote \/ UNCHANGED vars
    BY <1>1, <2>3, OthersKeepBuffer DEF FlushInv, FlushType, flagLength
  <2> QED  BY <1>1, <2>1, <2>2, <2>3 DEF Next, Client
<1> QED  BY <1>1, InitFlush, PTL DEF Spec

(* Once a flush has put a byte on the wire the buffer stays as it is until
   the flush is complete, whatever the client calls in between. *)
THEOREM FlushStaysFrozen == Spec => FlushFreezesBuffer
<1>1. ASSUME FlushInv, [Next]_vars, flushStart # 0
      PROVE  \/ writeBuffer' = writeBuffer /\ flushStart' >= flushStart
             \/ writeBuffer' = <<>> /\ flushStart' = 0
  <2>1. CASE Write \/ Flush \/ DisableAutomaticFlush
    BY <1>1, <2>1, CallsRespectFlush DEF FlushInv, FlushType
  <2>2. CASE TryFlushWriteBuffer
    BY <1>1, <2>2, TryFlushStep
  <2>3. CASE Read \/ IsDataAvailable \/ Thread \/ Remote \/ UNCHANGED vars
    BY <1>1, <2>3, OthersKeepBuffer DEF FlushInv, FlushType
  <2> QED  BY <1>1, <2>1, <2>2, <2>3 DEF Next, Client
<1> QED  BY <1>1, FlushIsInvariant, PTL DEF Spec, FlushFreezesBuffer

-----------------------------------------------------------------------------
(* A set of natural numbers that is not empty has a least element. *)
LEMMA LeastNumber ==
  ASSUME NEW T, T \subseteq Nat, T # {}
  PROVE  \E x \in T : \A y \in T : x <= y
<1> DEFINE R == OpToRel(<, Nat)
<1>1. IsWellFoundedOn(R, Nat)
  BY NatLessThanWellFounded
<1>2. PICK x \in T : \A y \in T : <<y, x>> \notin R
  <2> HIDE DEF R
  <2> QED  BY <1>1, WFMin
<1>3. \A y \in T : <<y, x>> \in R <=> y < x
  BY DEF OpToRel
<1>4. \A y \in T : ~(y < x)
  <2> HIDE DEF R
  <2> QED  BY <1>2, <1>3
<1>5. \A y \in T : y \in Nat
  OBVIOUS
<1> HIDE DEF R
<1> QED  BY <1>4, <1>5

(* Induction up to n, over the set of the numbers for which something holds. *)
LEMMA InductionUpTo ==
  ASSUME NEW n \in Nat, NEW T, 0 \in T, \A k \in 1 .. n : k - 1 \in T => k \in T
  PROVE  0 .. n \subseteq T
<1> DEFINE D == {k \in 0 .. n : k \notin T}
<1> SUFFICES ASSUME D # {} PROVE FALSE
  OBVIOUS
<1>1. PICK x \in D : \A y \in D : x <= y
  <2>1. D \subseteq Nat
    OBVIOUS
  <2> HIDE DEF D
  <2> QED  BY <2>1, LeastNumber
<1>2. x \in 1 .. n /\ x - 1 \in 0 .. n /\ ~(x <= x - 1)
  OBVIOUS
<1>3. x - 1 \notin D
  <2> HIDE DEF D
  <2> QED  BY <1>1, <1>2
<1>4. x - 1 \in T
  BY <1>2, <1>3
<1> QED  BY <1>2, <1>4

(* A parser with the steps R takes all of w, from state s to state t. *)
Reads(R, w, s, t) ==
  \E p : p[0] = s /\ p[Len(w)] = t /\ \A k \in 1 .. Len(w) : <<p[k - 1], w[k], p[k]>> \in R

(* Two pieces of wire that a parser takes one after the other. *)
LEMMA ReadsConcat ==
  ASSUME NEW B, NEW v \in Seq(B), NEW w \in Seq(B), NEW R, NEW s, NEW t, NEW u,
         Reads(R, v, s, t), Reads(R, w, t, u)
  PROVE  Reads(R, v \o w, s, u)
<1> DEFINE m == Len(v)
           n == Len(w)
<1>1. PICK p : p[0] = s /\ p[m] = t /\ \A k \in 1 .. m : <<p[k - 1], v[k], p[k]>> \in R
  BY DEF Reads
<1>2. PICK q : q[0] = t /\ q[n] = u /\ \A k \in 1 .. n : <<q[k - 1], w[k], q[k]>> \in R
  BY DEF Reads
<1>3. /\ m \in Nat /\ n \in Nat /\ Len(v \o w) = m + n
      /\ \A k \in 1 .. m + n : (v \o w)[k] = IF k <= m THEN v[k] ELSE w[k - m]
  BY LenProperties, ConcatProperties
<1> DEFINE r == [k \in 0 .. m + n |-> IF k <= m THEN p[k] ELSE q[k - m]]
<1> HIDE DEF m, n
<1>4. r[0] = s /\ r[m + n] = u
  <2>1. 0 \in 0 .. m + n /\ 0 <= m /\ m + n \in 0 .. m + n /\ (m + n) - m = n /\ (m + n <= m <=> n = 0)
    BY <1>3
  <2>2. r[0] = p[0] /\ r[m + n] = IF n = 0 THEN p[m + n] ELSE q[n]
    BY <2>1
  <2>3. n = 0 => m + n = m
    BY <1>3
  <2> HIDE DEF r
  <2> QED  BY <1>1, <1>2, <2>2, <2>3
<1>5. ASSUME NEW k \in 1 .. m + n PROVE <<r[k - 1], (v \o w)[k], r[k]>> \in R
  <2>1. CASE k <= m
    <3>1. k \in 1 .. m /\ k - 1 \in 0 .. m + n /\ k \in 0 .. m + n /\ k - 1 <= m
      BY <1>3, <2>1
    <3>2. r[k - 1] = p[k - 1] /\ r[k] = p[k]
      BY <2>1, <3>1
    <3>3. (v \o w)[k] = v[k] /\ <<p[k - 1], v[k], p[k]>> \in R
      BY <1>1, <1>3, <2>1, <3>1
    <3> HIDE DEF r
    <3> QED  BY <3>2, <3>3
  <2>2. CASE k = m + 1
    <3>1. k - 1 = m /\ k - m = 1 /\ ~(k <= m) /\ 1 \in 1 .. n /\ 1 - 1 = 0 /\ k - 1 \in 0 .. m + n /\ m <= m
      BY <1>3, <2>2
    <3>2. r[k - 1] = p[m] /\ r[k] = q[1]
      <4>1. r[k - 1] = p[k - 1]
        BY <3>1
      <4>2. r[k] = q[k - m]
        BY <3>1
      <4> HIDE DEF r
      <4> QED  BY <3>1, <4>1, <4>2
    <3>3. (v \o w)[k] = w[1]
      BY <1>3, <3>1
    <3>4. <<q[0], w[1], q[1]>> \in R
      BY <1>2, <3>1
    <3> HIDE DEF r
    <3> QED  BY <1>1, <1>2, <3>2, <3>3, <3>4
  <2>3. CASE k > m + 1
    <3> DEFINE j == k - m
    <3>1. j \in 1 .. n /\ (k - 1) - m = j - 1 /\ ~(k <= m) /\ ~(k - 1 <= m) /\ k - 1 \in 0 .. m + n
      BY <1>3, <2>3
    <3>2. r[k - 1] = q[j - 1] /\ r[k] = q[j]
      BY <3>1
    <3>3. (v \o w)[k] = w[j]
      BY <1>3, <3>1
    <3>4. <<q[j - 1], w[j], q[j]>> \in R
      <4> HIDE DEF j, r
      <4> QED  BY <1>2, <3>1
    <3> HIDE DEF j, r
    <3> QED  BY <3>2, <3>3, <3>4
  <2>4. k <= m \/ k = m + 1 \/ k > m + 1
    BY <1>3
  <2> QED  BY <2>1, <2>2, <2>3, <2>4
<1> HIDE DEF r
<1> QED  BY <1>3, <1>4, <1>5 DEF Reads

(* A parser that takes two pieces is somewhere between them. *)
LEMMA ReadsSplit ==
  ASSUME NEW B, NEW v \in Seq(B), NEW w \in Seq(B), NEW R, NEW s, NEW u,
         Reads(R, v \o w, s, u)
  PROVE  \E t : Reads(R, v, s, t) /\ Reads(R, w, t, u)
<1> DEFINE m == Len(v)
           n == Len(w)
<1>3. /\ m \in Nat /\ n \in Nat /\ Len(v \o w) = m + n
      /\ \A k \in 1 .. m + n : (v \o w)[k] = IF k <= m THEN v[k] ELSE w[k - m]
  BY LenProperties, ConcatProperties
<1>1. PICK p : /\ p[0] = s /\ p[m + n] = u
               /\ \A k \in 1 .. m + n : <<p[k - 1], (v \o w)[k], p[k]>> \in R
  BY <1>3 DEF Reads
<1> DEFINE q == [k \in 0 .. n |-> p[m + k]]
<1> HIDE DEF m, n
<1>4. ASSUME NEW k \in 1 .. m PROVE <<p[k - 1], v[k], p[k]>> \in R
  <2>1. k \in 1 .. m + n /\ k <= m
    BY <1>3
  <2>2. (v \o w)[k] = v[k] /\ <<p[k - 1], (v \o w)[k], p[k]>> \in R
    BY <1>1, <1>3, <2>1
  <2> QED  BY <2>2
<1>5. ASSUME NEW k \in 1 .. n PROVE <<q[k - 1], w[k], q[k]>> \in R
  <2>1. m + k \in 1 .. m + n /\ ~(m + k <= m) /\ (m + k) - m = k /\ (m + k) - 1 = m + (k - 1)
    BY <1>3
  <2>2. q[k - 1] = p[m + (k - 1)] /\ q[k] = p[m + k]
    BY <1>3
  <2>3. (v \o w)[m + k] = w[k]
    BY <1>3, <2>1
  <2>4. <<p[(m + k) - 1], (v \o w)[m + k], p[m + k]>> \in R
    <3>1. PICK j \in 1 .. m + n : j = m + k
      BY <2>1
    <3>2. <<p[j - 1], (v \o w)[j], p[j]>> \in R
      BY <1>1, Zenon
    <3> QED  BY <3>1, <3>2, Zenon
  <2> HIDE DEF q
  <2> QED  BY <2>1, <2>2, <2>3, <2>4
<1>6. q[0] = p[m] /\ q[n] = u
  BY <1>1, <1>3
<1>7. Reads(R, v, s, p[m])
  BY <1>1, <1>4 DEF Reads, m
<1>8. Reads(R, w, p[m], u)
  <2> HIDE DEF q
  <2> QED  BY <1>5, <1>6 DEF Reads, n
<1> QED  BY <1>7, <1>8

(* A parser stays where it is as long as nothing arrives. *)
LEMMA ReadsNothing ==
  ASSUME NEW R, NEW s, NEW t
  PROVE  Reads(R, <<>>, s, t) <=> s = t
<1>1. Len(<<>>) = 0
  BY EmptySeq
<1>2. ASSUME s = t PROVE Reads(R, <<>>, s, t)
  <2> DEFINE p == [k \in 0 .. 0 |-> s]
  <2>1. p[0] = s /\ 1 .. 0 = {}
    OBVIOUS
  <2> HIDE DEF p
  <2> QED  BY <1>1, <1>2, <2>1 DEF Reads
<1> QED  BY <1>1, <1>2 DEF Reads

(* One byte is one step. *)
LEMMA ReadsOne ==
  ASSUME NEW R, NEW s, NEW t, NEW b
  PROVE  Reads(R, <<b>>, s, t) <=> <<s, b, t>> \in R
<1>1. Len(<<b>>) = 1 /\ <<b>>[1] = b /\ 1 .. 1 = {1} /\ 1 - 1 = 0
  OBVIOUS
<1>2. ASSUME <<s, b, t>> \in R PROVE Reads(R, <<b>>, s, t)
  <2> DEFINE p == [k \in 0 .. 1 |-> IF k = 0 THEN s ELSE t]
  <2>1. p[0] = s /\ p[1] = t
    OBVIOUS
  <2> HIDE DEF p
  <2> QED  BY <1>1, <1>2, <2>1 DEF Reads
<1> QED  BY <1>1, <1>2 DEF Reads

-----------------------------------------------------------------------------
(* The bytes of the two pipes. *)
Kinds == {"data", "info", "deleted", "error"}
FlagByte == [type : {"flag"}, kind : Kinds, length : Nat, at : 1 .. FlagLength]
DataByte == [type : {"data"}, byte : Nat]
TextByte == [type : {"text"}]
Byte == FlagByte \cup DataByte \cup TextByte

(* No chunk is as long as the write buffer. *)
Small == \A size \in WriteSizes : size < BufferSize

(* What the remote side does with a byte: it is in a flag, or `left` bytes of a
   frame are still to come, and it has taken `count` bytes of data.  Without
   multiplexing there are no flags. *)
OutState == [flag : Nat, left : Nat, count : Nat]
At(flag, left, count) == [flag |-> flag, left |-> left, count |-> count]

OutStep(m, s, b, t) ==
  \/ /\ m /\ s.left = 0 /\ b.type = "flag" /\ b.at = s.flag + 1
     /\ t = IF b.at = FlagLength THEN At(0, b.length, s.count) ELSE At(b.at, 0, s.count)
  \/ /\ m => s.left > 0
     /\ b.type = "data" /\ (Small => b.byte = s.count + 1)
     /\ t = At(s.flag, IF m THEN s.left - 1 ELSE 0, s.count + 1)

OutSteps(m) == {x \in OutState \X Byte \X OutState : OutStep(m, x[1], x[2], x[3])}

(* How far the remote side is, and how far it will be with what is on its way
   to it, when c bytes were written before those in the write buffer. *)
RemoteAt == At(remoteFlag, remoteLeft, Len(remoteGot))

Flushed(c) ==
  IF flushStart = 0 THEN At(0, 0, c)
  ELSE IF flushStart < flagLength THEN At(flushStart, 0, c)
  ELSE At(0, IF multiplexed THEN Len(writeBuffer) + flagLength - flushStart ELSE 0,
          c + (flushStart - flagLength))

Buffered(c) ==
  /\ c + Len(writeBuffer) = written
  /\ \A k \in 1 .. Len(writeBuffer) : writeBuffer[k] = c + k

OutType ==
  /\ outPipe \in Seq(Byte) /\ pending \in Seq(Byte)
  /\ remoteFlag \in Nat /\ remoteLeft \in Nat /\ remoteGot \in Seq(Nat)
  /\ op \in {"idle", "read", "poll", "flush", "fatal"}
  /\ op \notin {"flush", "fatal"} => pending = <<>>
  /\ op = "flush" \/ pending # <<>> => writeBuffer = <<>> /\ flushStart = 0

OutInv ==
  /\ OutType
  /\ remoteInStep = TRUE
  /\ \E c \in Nat :
       /\ Reads(OutSteps(multiplexed), outPipe \o pending, RemoteAt, Flushed(c))
       /\ Small => Buffered(c)
  /\ Small => \A k \in 1 .. Len(remoteGot) : remoteGot[k] = k

-----------------------------------------------------------------------------
(* Flag: FlagLength bytes, numbered from 1. *)
LEMMA FlagShape ==
  ASSUME NEW kind \in Kinds, NEW length \in Nat
  PROVE  /\ Flag(kind, length) \in Seq(Byte) /\ Len(Flag(kind, length)) = FlagLength
         /\ FlagLength \in Nat
         /\ \A k \in 1 .. FlagLength :
              Flag(kind, length)[k] = [type |-> "flag", kind |-> kind, length |-> length, at |-> k]
<1>1. FlagLength \in Nat
  BY StreamAssumption
<1>2. \A k \in 1 .. FlagLength :
        /\ Flag(kind, length)[k] = [type |-> "flag", kind |-> kind, length |-> length, at |-> k]
        /\ Flag(kind, length)[k] \in Byte
  BY DEF Flag, Byte, FlagByte
<1>3. Flag(kind, length) = [k \in 1 .. FlagLength |-> Flag(kind, length)[k]]
  BY DEF Flag
<1>4. Flag(kind, length) \in [1 .. FlagLength -> Byte]
  BY <1>2, <1>3
<1> QED  BY <1>1, <1>2, <1>4, FunctionIsSeq

(* Data: one byte for each number. *)
LEMMA DataShape ==
  ASSUME NEW bytes \in Seq(Nat)
  PROVE  /\ Data(bytes) \in Seq(Byte) /\ Len(Data(bytes)) = Len(bytes) /\ Len(bytes) \in Nat
         /\ \A k \in 1 .. Len(bytes) : Data(bytes)[k] = [type |-> "data", byte |-> bytes[k]]
<1>1. Len(bytes) \in Nat /\ \A k \in 1 .. Len(bytes) : bytes[k] \in Nat
  BY LenProperties, ElementOfSeq
<1>2. \A k \in 1 .. Len(bytes) :
        /\ Data(bytes)[k] = [type |-> "data", byte |-> bytes[k]]
        /\ Data(bytes)[k] \in Byte
  BY <1>1 DEF Data, Byte, DataByte
<1>3. Data(bytes) = [k \in 1 .. Len(bytes) |-> Data(bytes)[k]]
  BY DEF Data
<1>4. Data(bytes) \in [1 .. Len(bytes) -> Byte]
  BY <1>2, <1>3
<1> QED  BY <1>1, <1>2, <1>4, FunctionIsSeq

(* Text: as many bytes as the message is long. *)
LEMMA TextShape ==
  ASSUME NEW length \in Nat
  PROVE  /\ Text(length) \in Seq(Byte) /\ Len(Text(length)) = length
         /\ \A k \in 1 .. length : Text(length)[k] = [type |-> "text"]
<1>1. \A k \in 1 .. length : Text(length)[k] = [type |-> "text"] /\ Text(length)[k] \in Byte
  BY DEF Text, Byte, TextByte
<1>2. Text(length) = [k \in 1 .. length |-> Text(length)[k]]
  BY DEF Text
<1>3. Text(length) \in [1 .. length -> Byte]
  BY <1>1, <1>2
<1> QED  BY <1>1, <1>3, FunctionIsSeq

(* A part of a flag. *)
LEMMA ReadsFlagPart ==
  ASSUME NEW length \in Nat, NEW c \in Nat, NEW a \in Nat, NEW v \in Seq(Byte),
         a < FlagLength, a + Len(v) <= FlagLength,
         \A k \in 1 .. Len(v) :
           v[k] = [type |-> "flag", kind |-> "data", length |-> length, at |-> a + k]
  PROVE  Reads(OutSteps(TRUE), v, At(a, 0, c),
               IF a + Len(v) = FlagLength THEN At(0, length, c) ELSE At(a + Len(v), 0, c))
<1>1. Len(v) \in Nat /\ FlagLength \in Nat /\ \A k \in 1 .. Len(v) : v[k] \in Byte
  BY StreamAssumption, LenProperties, ElementOfSeq
<1> DEFINE n == Len(v)
           p == [k \in 0 .. n |-> IF a + k = FlagLength THEN At(0, length, c) ELSE At(a + k, 0, c)]
<1>2. p[0] = At(a, 0, c)
  BY <1>1
<1>3. p[n] = IF a + n = FlagLength THEN At(0, length, c) ELSE At(a + n, 0, c)
  BY <1>1
<1>4. ASSUME NEW k \in 1 .. n PROVE <<p[k - 1], v[k], p[k]>> \in OutSteps(TRUE)
  <2>1. /\ k - 1 \in 0 .. n /\ k \in 0 .. n /\ a + (k - 1) \in Nat /\ a + k \in Nat
        /\ a + (k - 1) # FlagLength /\ a + k = a + (k - 1) + 1
    BY <1>1
  <2>2. /\ p[k - 1] = At(a + (k - 1), 0, c)
        /\ p[k] = IF a + k = FlagLength THEN At(0, length, c) ELSE At(a + k, 0, c)
    BY <2>1
  <2>3. v[k].type = "flag" /\ v[k].at = a + k /\ v[k].length = length /\ v[k] \in Byte
    <3>1. v[k] = [type |-> "flag", kind |-> "data", length |-> length, at |-> a + k] /\ v[k] \in Byte
      BY <1>1
    <3> QED  BY <3>1
  <2>4. p[k - 1] \in OutState /\ p[k] \in OutState
    <3> HIDE DEF p
    <3> QED  BY <2>1, <2>2 DEF OutState, At
  <2>5. OutStep(TRUE, p[k - 1], v[k], p[k])
    <3> HIDE DEF p
    <3> QED  BY <2>1, <2>2, <2>3 DEF OutStep, At
  <2> HIDE DEF p
  <2> QED  BY <2>3, <2>4, <2>5 DEF OutSteps
<1> HIDE DEF p
<1> QED  BY <1>2, <1>3, <1>4 DEF Reads

(* A part of the bytes behind it. *)
LEMMA ReadsDataPart ==
  ASSUME NEW m \in BOOLEAN, NEW left \in Nat, NEW c \in Nat, NEW v \in Seq(Byte),
         m => Len(v) <= left,
         \A k \in 1 .. Len(v) : v[k].type = "data" /\ (Small => v[k].byte = c + k)
  PROVE  Reads(OutSteps(m), v, At(0, IF m THEN left ELSE 0, c),
               At(0, IF m THEN left - Len(v) ELSE 0, c + Len(v)))
<1>1. Len(v) \in Nat /\ \A k \in 1 .. Len(v) : v[k] \in Byte
  BY LenProperties, ElementOfSeq
<1> DEFINE n == Len(v)
           p == [k \in 0 .. n |-> At(0, IF m THEN left - k ELSE 0, c + k)]
<1>2. p[0] = At(0, IF m THEN left ELSE 0, c)
  BY <1>1
<1>3. p[n] = At(0, IF m THEN left - n ELSE 0, c + n)
  BY <1>1
<1>4. ASSUME NEW k \in 1 .. n PROVE <<p[k - 1], v[k], p[k]>> \in OutSteps(m)
  <2>0. k - 1 \in 0 .. n /\ k \in 0 .. n /\ c + (k - 1) \in Nat /\ c + k = c + (k - 1) + 1
    BY <1>1
  <2>1. ASSUME m = TRUE
        PROVE  /\ left - k \in Nat /\ left - (k - 1) \in Nat /\ left - (k - 1) > 0
               /\ left - k = (left - (k - 1)) - 1
    <3>1. n <= left /\ n \in Nat
      BY <1>1, <2>1
    <3> HIDE DEF n
    <3> QED  BY <3>1
  <2>2. /\ p[k - 1] = At(0, IF m THEN left - (k - 1) ELSE 0, c + (k - 1))
        /\ p[k] = At(0, IF m THEN left - k ELSE 0, c + k)
    BY <2>0
  <2>4. p[k - 1] \in OutState /\ p[k] \in OutState
    <3> HIDE DEF p
    <3>1. CASE m = TRUE
      BY <2>0, <2>1, <2>2, <3>1 DEF OutState, At
    <3>2. CASE m = FALSE
      BY <2>0, <2>1, <2>2, <3>2 DEF OutState, At
    <3> QED  BY <3>1, <3>2
  <2>5. OutStep(m, p[k - 1], v[k], p[k])
    <3> HIDE DEF p
    <3>1. CASE m = TRUE
      BY <2>0, <2>1, <2>2, <3>1 DEF OutStep, At
    <3>2. CASE m = FALSE
      BY <2>0, <2>1, <2>2, <3>2 DEF OutStep, At
    <3> QED  BY <3>1, <3>2
  <2> HIDE DEF p
  <2> QED  BY <1>1, <2>4, <2>5 DEF OutSteps
<1> HIDE DEF p
<1> QED  BY <1>2, <1>3, <1>4 DEF Reads

-----------------------------------------------------------------------------
(* The bytes of a frame: a flag when multiplexed, then the buffer. *)
LEMMA FrameAt ==
  ASSUME NEW bytes \in Seq(Nat), multiplexed \in BOOLEAN
  PROVE  /\ Frame(bytes) \in Seq(Byte) /\ Len(Frame(bytes)) = flagLength + Len(bytes)
         /\ flagLength \in Nat /\ Len(bytes) \in Nat
         /\ \A k \in 1 .. flagLength : Frame(bytes)[k] =
              [type |-> "flag", kind |-> "data", length |-> Len(bytes), at |-> k]
         /\ \A k \in 1 .. Len(bytes) : Frame(bytes)[flagLength + k] =
              [type |-> "data", byte |-> bytes[k]]
<1>1. /\ Data(bytes) \in Seq(Byte) /\ Len(Data(bytes)) = Len(bytes) /\ Len(bytes) \in Nat
      /\ \A k \in 1 .. Len(bytes) : Data(bytes)[k] = [type |-> "data", byte |-> bytes[k]]
  BY DataShape
<1>2. CASE multiplexed = TRUE
  <2> DEFINE flag == Flag("data", Len(bytes))
             data == Data(bytes)
  <2>1. /\ flag \in Seq(Byte) /\ Len(flag) = FlagLength /\ FlagLength \in Nat
        /\ \A k \in 1 .. FlagLength :
             flag[k] = [type |-> "flag", kind |-> "data", length |-> Len(bytes), at |-> k]
    BY <1>1, FlagShape DEF Kinds
  <2>2. Frame(bytes) = flag \o data /\ flagLength = FlagLength
    BY <1>2 DEF Frame, flagLength
  <2> HIDE DEF flag, data
  <2>3. /\ data \in Seq(Byte) /\ Len(data) = Len(bytes)
        /\ \A k \in 1 .. Len(bytes) : data[k] = [type |-> "data", byte |-> bytes[k]]
    BY <1>1 DEF data
  <2>4. /\ flag \o data \in Seq(Byte)
        /\ Len(flag \o data) = FlagLength + Len(bytes)
        /\ \A k \in 1 .. FlagLength + Len(bytes) :
             (flag \o data)[k] = IF k <= FlagLength THEN flag[k] ELSE data[k - FlagLength]
    <3>1. /\ flag \o data \in Seq(Byte)
          /\ Len(flag \o data) = Len(flag) + Len(data)
          /\ \A k \in 1 .. Len(flag) + Len(data) :
               (flag \o data)[k] = IF k <= Len(flag) THEN flag[k] ELSE data[k - Len(flag)]
      BY <2>1, <2>3, ConcatProperties, Zenon
    <3> QED  BY <2>1, <2>3, <3>1
  <2>5. ASSUME NEW k \in 1 .. FlagLength
        PROVE  (flag \o data)[k] =
                 [type |-> "flag", kind |-> "data", length |-> Len(bytes), at |-> k]
    <3>1. k \in 1 .. FlagLength + Len(bytes) /\ k <= FlagLength
      BY <1>1, <2>1
    <3>2. (flag \o data)[k] = flag[k]
      BY <2>4, <3>1
    <3> QED  BY <2>1, <3>2
  <2>6. ASSUME NEW k \in 1 .. Len(bytes)
        PROVE  (flag \o data)[FlagLength + k] = [type |-> "data", byte |-> bytes[k]]
    <3>1. /\ FlagLength + k \in 1 .. FlagLength + Len(bytes) /\ ~(FlagLength + k <= FlagLength)
          /\ (FlagLength + k) - FlagLength = k
      BY <1>1, <2>1
    <3>2. (flag \o data)[FlagLength + k] = data[k]
      BY <2>4, <3>1
    <3> QED  BY <2>3, <3>2
  <2> QED  BY <1>1, <2>1, <2>2, <2>4, <2>5, <2>6
<1>3. CASE multiplexed = FALSE
  <2>1. Frame(bytes) = Data(bytes) /\ flagLength = 0
    BY <1>3 DEF Frame, flagLength
  <2>2. \A k \in 1 .. Len(bytes) : 0 + k = k
    BY <1>1
  <2> QED  BY <1>1, <2>1, <2>2
<1> QED  BY <1>2, <1>3

(* n more bytes of a frame of which `sent` bytes are on the wire, within its flag or behind it. *)
LEMMA ReadsFramePart ==
  ASSUME NEW bytes \in Seq(Nat), multiplexed \in BOOLEAN, NEW c \in Nat, NEW sent \in Nat, NEW n \in Nat,
         sent < flagLength => sent + n <= flagLength,
         sent + n <= flagLength + Len(bytes),
         Small => \A k \in 1 .. Len(bytes) : bytes[k] = c + k
  PROVE  /\ SubSeq(Frame(bytes), sent + 1, sent + n) \in Seq(Byte)
         /\ sent < flagLength =>
              Reads(OutSteps(multiplexed), SubSeq(Frame(bytes), sent + 1, sent + n), At(sent, 0, c),
                    IF sent + n = flagLength THEN At(0, Len(bytes), c) ELSE At(sent + n, 0, c))
         /\ sent >= flagLength =>
              Reads(OutSteps(multiplexed), SubSeq(Frame(bytes), sent + 1, sent + n),
                    At(0, IF multiplexed THEN flagLength + Len(bytes) - sent ELSE 0,
                       c + (sent - flagLength)),
                    At(0, IF multiplexed THEN flagLength + Len(bytes) - (sent + n) ELSE 0,
                       c + ((sent + n) - flagLength)))
<1> DEFINE wire == Frame(bytes)
           v == SubSeq(wire, sent + 1, sent + n)
<1>1. /\ wire \in Seq(Byte) /\ Len(wire) = flagLength + Len(bytes)
      /\ flagLength \in Nat /\ Len(bytes) \in Nat
      /\ \A k \in 1 .. flagLength : wire[k] =
           [type |-> "flag", kind |-> "data", length |-> Len(bytes), at |-> k]
      /\ \A k \in 1 .. Len(bytes) : wire[flagLength + k] = [type |-> "data", byte |-> bytes[k]]
  BY FrameAt
<1> HIDE DEF wire
<1>2. v \in Seq(Byte) /\ Len(v) = n /\ \A k \in 1 .. n : v[k] = wire[sent + k]
  <2>1. sent + 1 \in Int /\ sent + n \in Int
    OBVIOUS
  <2>2. \A i \in sent + 1 .. sent + n : wire[i] \in Byte
    <3>1. sent + 1 .. sent + n \subseteq 1 .. Len(wire)
      BY <1>1
    <3> QED  BY <1>1, <3>1, ElementOfSeq
  <2>3. /\ v \in Seq(Byte)
        /\ Len(v) = IF sent + 1 <= sent + n THEN (sent + n) - (sent + 1) + 1 ELSE 0
        /\ \A i \in 1 .. (sent + n) - (sent + 1) + 1 : v[i] = wire[(sent + 1) + i - 1]
    BY <2>1, <2>2, SubSeqProperties
  <2>4. /\ (sent + n) - (sent + 1) + 1 = n
        /\ (IF sent + 1 <= sent + n THEN n ELSE 0) = n
        /\ \A i \in 1 .. n : (sent + 1) + i - 1 = sent + i
    OBVIOUS
  <2> HIDE DEF v
  <2> QED  BY <2>3, <2>4
<1> HIDE DEF v
<1>3. ASSUME sent < flagLength
      PROVE  Reads(OutSteps(multiplexed), v, At(sent, 0, c),
                   IF sent + n = flagLength THEN At(0, Len(bytes), c) ELSE At(sent + n, 0, c))
  <2>1. multiplexed = TRUE /\ flagLength = FlagLength
    BY <1>1, <1>3 DEF flagLength
  <2>2. ASSUME NEW k \in 1 .. Len(v)
        PROVE  v[k] = [type |-> "flag", kind |-> "data", length |-> Len(bytes), at |-> sent + k]
    <3>1. k \in 1 .. n /\ sent + k \in 1 .. flagLength
      BY <1>1, <1>2, <1>3
    <3> QED  BY <1>1, <1>2, <3>1
  <2>3. sent < FlagLength /\ sent + Len(v) <= FlagLength
    BY <1>2, <1>3, <2>1
  <2>4. Reads(OutSteps(TRUE), v, At(sent, 0, c),
              IF sent + Len(v) = FlagLength THEN At(0, Len(bytes), c) ELSE At(sent + Len(v), 0, c))
    BY <1>1, <1>2, <2>2, <2>3, ReadsFlagPart
  <2> QED  BY <1>2, <2>1, <2>4
<1>4. ASSUME sent >= flagLength
      PROVE  Reads(OutSteps(multiplexed), v,
                   At(0, IF multiplexed THEN flagLength + Len(bytes) - sent ELSE 0,
                      c + (sent - flagLength)),
                   At(0, IF multiplexed THEN flagLength + Len(bytes) - (sent + n) ELSE 0,
                      c + ((sent + n) - flagLength)))
  <2> DEFINE left == flagLength + Len(bytes) - sent
             d == c + (sent - flagLength)
  <2>1. /\ left \in Nat /\ d \in Nat /\ n <= left /\ left - n = flagLength + Len(bytes) - (sent + n)
        /\ d + n = c + ((sent + n) - flagLength)
    BY <1>1, <1>4
  <2>2. ASSUME NEW k \in 1 .. Len(v)
        PROVE  v[k].type = "data" /\ (Small => v[k].byte = d + k)
    <3> DEFINE j == sent - flagLength + k
    <3>1. k \in 1 .. n /\ j \in 1 .. Len(bytes) /\ sent + k = flagLength + j /\ c + j = d + k
      BY <1>1, <1>2, <1>4
    <3> HIDE DEF j, d
    <3>2. v[k] = [type |-> "data", byte |-> bytes[j]]
      BY <1>1, <1>2, <3>1
    <3>3. Small => bytes[j] = c + j
      BY <3>1
    <3> QED  BY <3>1, <3>2, <3>3
  <2> HIDE DEF left, d
  <2>3. Reads(OutSteps(multiplexed), v, At(0, IF multiplexed THEN left ELSE 0, d),
              At(0, IF multiplexed THEN left - Len(v) ELSE 0, d + Len(v)))
    BY <1>2, <2>1, <2>2, ReadsDataPart
  <2>4. Reads(OutSteps(multiplexed), v, At(0, IF multiplexed THEN left ELSE 0, d),
              At(0, IF multiplexed THEN flagLength + Len(bytes) - (sent + n) ELSE 0,
                 c + ((sent + n) - flagLength)))
    BY <1>2, <2>1, <2>3
  <2> QED  BY <2>4 DEF left, d
<1> QED  BY <1>2, <1>3, <1>4 DEF v, wire

(* A whole frame. *)
LEMMA ReadsFrame ==
  ASSUME NEW bytes \in Seq(Nat), multiplexed \in BOOLEAN, NEW c \in Nat,
         Small => \A k \in 1 .. Len(bytes) : bytes[k] = c + k
  PROVE  /\ Frame(bytes) \in Seq(Byte) /\ Len(bytes) \in Nat
         /\ Reads(OutSteps(multiplexed), Frame(bytes), At(0, 0, c), At(0, 0, c + Len(bytes)))
<1> DEFINE n == Len(bytes)
           data == Data(bytes)
<1>1. /\ data \in Seq(Byte) /\ Len(data) = n /\ n \in Nat
      /\ \A k \in 1 .. n : data[k] = [type |-> "data", byte |-> bytes[k]]
  BY DataShape
<1> HIDE DEF data
<1>2. Reads(OutSteps(multiplexed), data, At(0, IF multiplexed THEN n ELSE 0, c), At(0, 0, c + n))
  <2>1. ASSUME NEW k \in 1 .. Len(data)
        PROVE  data[k].type = "data" /\ (Small => data[k].byte = c + k)
    <3>1. k \in 1 .. n /\ data[k] = [type |-> "data", byte |-> bytes[k]]
      BY <1>1
    <3> QED  BY <3>1
  <2>0. multiplexed => Len(data) <= n
    BY <1>1
  <2>2. Reads(OutSteps(multiplexed), data, At(0, IF multiplexed THEN n ELSE 0, c),
              At(0, IF multiplexed THEN n - Len(data) ELSE 0, c + Len(data)))
    <3> HIDE DEF n
    <3> QED  BY <1>1, <2>0, <2>1, ReadsDataPart, Zenon
  <2>3. n - Len(data) = 0
    BY <1>1
  <2> QED  BY <1>1, <2>2, <2>3
<1>3. CASE multiplexed = TRUE
  <2> DEFINE flag == Flag("data", n)
  <2>1. /\ flag \in Seq(Byte) /\ Len(flag) = FlagLength /\ FlagLength \in Nat
        /\ \A k \in 1 .. FlagLength :
             flag[k] = [type |-> "flag", kind |-> "data", length |-> n, at |-> k]
    BY <1>1, FlagShape DEF Kinds
  <2>2. Frame(bytes) = flag \o data
    BY <1>3 DEF Frame, data
  <2> HIDE DEF flag
  <2>3. Reads(OutSteps(TRUE), flag, At(0, 0, c), At(0, n, c))
    <3>1. 0 < FlagLength /\ 0 + Len(flag) <= FlagLength /\ 0 + Len(flag) = FlagLength
      BY <2>1, StreamAssumption
    <3>2. \A k \in 1 .. Len(flag) :
            flag[k] = [type |-> "flag", kind |-> "data", length |-> n, at |-> 0 + k]
      BY <2>1
    <3>3. Reads(OutSteps(TRUE), flag, At(0, 0, c),
               IF 0 + Len(flag) = FlagLength THEN At(0, n, c) ELSE At(0 + Len(flag), 0, c))
      <4> HIDE DEF n
      <4>1. 0 \in Nat /\ n \in Nat /\ flag \in Seq(Byte)
        BY <1>1, <2>1
      <4>2. PICK v \in Seq(Byte), l \in Nat : v = flag /\ l = n
        BY <4>1
      <4>3. \A k \in 1 .. Len(v) :
              v[k] = [type |-> "flag", kind |-> "data", length |-> l, at |-> 0 + k]
        BY <3>2, <4>2
      <4>4. Reads(OutSteps(TRUE), v, At(0, 0, c),
                  IF 0 + Len(v) = FlagLength THEN At(0, l, c) ELSE At(0 + Len(v), 0, c))
        BY <3>1, <4>1, <4>2, <4>3, ReadsFlagPart
      <4> QED  BY <4>2, <4>4
    <3> QED  BY <3>1, <3>3
  <2>4. Reads(OutSteps(TRUE), data, At(0, n, c), At(0, 0, c + n))
    BY <1>2, <1>3
  <2>5. Reads(OutSteps(TRUE), flag \o data, At(0, 0, c), At(0, 0, c + n)) /\ flag \o data \in Seq(Byte)
    BY <1>1, <2>1, <2>3, <2>4, ReadsConcat, ConcatProperties
  <2> QED  BY <1>1, <1>3, <2>2, <2>5
<1>4. CASE multiplexed = FALSE
  BY <1>1, <1>2, <1>4 DEF Frame, data
<1> QED  BY <1>3, <1>4

-----------------------------------------------------------------------------
(* Nothing is on its way at the start. *)
LEMMA InitOut == Init => OutInv
<1> SUFFICES ASSUME Init PROVE OutInv
  OBVIOUS
<1>1. <<>> \in Seq(Byte) /\ <<>> \in Seq(Nat) /\ Len(<<>>) = 0 /\ 1 .. 0 = {}
  BY EmptySeq
<1>2. OutType
  BY <1>1 DEF Init, OutType
<1>3. outPipe \o pending = <<>>
  BY <1>1, ConcatEmptySeq DEF Init
<1>4. RemoteAt = Flushed(0)
  BY <1>1 DEF RemoteAt, Flushed, Init
<1>5. Reads(OutSteps(multiplexed), outPipe \o pending, RemoteAt, Flushed(0))
  BY <1>3, <1>4, ReadsNothing
<1>6. Buffered(0)
  BY <1>1 DEF Init, Buffered
<1>7. remoteInStep = TRUE /\ \A k \in 1 .. Len(remoteGot) : remoteGot[k] = k
  BY <1>1 DEF Init
<1> QED  BY <1>2, <1>5, <1>6, <1>7 DEF OutInv

(* flushWriteBuffer puts the frame of the buffer, and of what is added to it, behind what is on its way. *)
LEMMA FlushWriteBufferOut ==
  ASSUME OutInv, FlushInv, op = "idle", NEW extra \in Seq(Nat), FlushWriteBuffer(extra),
         UNCHANGED <<multiplexed, outPipe, parser>>,
         Small => \A k \in 1 .. Len(extra) : extra[k] = written + k,
         written' = written + Len(extra),
         Small /\ writeBuffer = <<>> => Len(extra) = 0
  PROVE  OutInv'
<1>1. PICK c \in Nat : Reads(OutSteps(multiplexed), outPipe \o pending, RemoteAt, Flushed(c))
                       /\ (Small => Buffered(c))
  BY DEF OutInv
<1>2. /\ OutType /\ pending = <<>> /\ outPipe \in Seq(Byte) /\ outPipe \o pending = outPipe
      /\ writeBuffer \in Seq(Nat) /\ multiplexed \in BOOLEAN /\ written \in Nat
      /\ Len(extra) \in Nat /\ Len(writeBuffer) \in Nat /\ RemoteAt' = RemoteAt
      /\ OutSteps(multiplexed)' = OutSteps(multiplexed)
  BY ConcatEmptySeq, LenProperties DEF OutInv, OutType, FlushInv, FlushType, parser, RemoteAt
<1>3. remoteInStep' = TRUE /\ (Small => \A k \in 1 .. Len(remoteGot') : remoteGot'[k] = k)
  BY DEF OutInv, parser
<1>4. CASE writeBuffer = <<>>
  <2>1. UNCHANGED <<op, writeBuffer, flushStart, pending>>
    BY <1>4 DEF FlushWriteBuffer
  <2>2. Flushed(c)' = Flushed(c) /\ (outPipe \o pending)' = outPipe \o pending
    BY <2>1 DEF Flushed, flagLength
  <2>3. Small => written' = written
    BY <1>2, <1>4
  <2>4. Small => Buffered(c)'
    BY <1>1, <2>1, <2>3 DEF Buffered
  <2>5. OutType'
    BY <1>2, <2>1 DEF OutType, parser
  <2>6. Reads(OutSteps(multiplexed), outPipe \o pending, RemoteAt, Flushed(c))'
    BY <1>1, <1>2, <2>2
  <2> QED  BY <1>3, <2>4, <2>5, <2>6 DEF OutInv
<1>5. CASE writeBuffer # <<>>
  <2>0. PICK all \in Seq(Nat) : all = writeBuffer \o extra
    BY <1>2, ConcatProperties
  <2>1. /\ flushStart = 0 /\ op' = "flush" /\ pending' = Frame(all) /\ writeBuffer' = <<>> /\ flushStart' = 0
    BY <1>5, <2>0 DEF FlushWriteBuffer
  <2>2. /\ all \in Seq(Nat) /\ Len(all) = Len(writeBuffer) + Len(extra)
        /\ \A k \in 1 .. Len(writeBuffer) + Len(extra) :
             all[k] = IF k <= Len(writeBuffer) THEN writeBuffer[k] ELSE extra[k - Len(writeBuffer)]
    BY <1>2, <2>0, ConcatProperties
  <2>3. ASSUME Small, NEW k \in 1 .. Len(all) PROVE all[k] = c + k
    <3>1. CASE k <= Len(writeBuffer)
      <4>1. k \in 1 .. Len(writeBuffer)
        BY <1>2, <2>2, <3>1
      <4>2. writeBuffer[k] = c + k
        BY <1>1, <2>3, <4>1 DEF Buffered
      <4> QED  BY <2>2, <3>1, <4>2
    <3>2. CASE ~(k <= Len(writeBuffer))
      <4>1. k - Len(writeBuffer) \in 1 .. Len(extra) /\ all[k] = extra[k - Len(writeBuffer)]
        BY <1>2, <2>2, <3>2
      <4>2. extra[k - Len(writeBuffer)] = written + (k - Len(writeBuffer))
        BY <2>3, <4>1
      <4>3. c + Len(writeBuffer) = written
        BY <1>1, <2>3 DEF Buffered
      <4>4. written + (k - Len(writeBuffer)) = c + k
        <5>1. k \in Int /\ Len(writeBuffer) \in Int /\ c \in Int
          BY <1>2, <2>2
        <5> QED  BY <4>3, <5>1
      <4> QED  BY <4>1, <4>2, <4>4
    <3> QED  BY <3>1, <3>2
  <2>5. PICK d \in Nat : d = c + Len(all)
    BY <1>2, <2>2
  <2>4. Frame(all) \in Seq(Byte) /\ Reads(OutSteps(multiplexed), Frame(all), At(0, 0, c), At(0, 0, d))
    BY <1>2, <2>2, <2>3, <2>5, ReadsFrame
  <2>6. Flushed(c) = At(0, 0, c) /\ Flushed(d)' = At(0, 0, d)
    BY <2>1 DEF Flushed
  <2>7. Reads(OutSteps(multiplexed), outPipe \o Frame(all), RemoteAt, At(0, 0, d))
    BY <1>1, <1>2, <2>4, <2>6, ReadsConcat
  <2>8. Small => Buffered(d)'
    <3> SUFFICES ASSUME Small PROVE Buffered(d)'
      OBVIOUS
    <3>1. c + Len(writeBuffer) = written
      BY <1>1 DEF Buffered
    <3>2. d + 0 = written'
      BY <1>2, <2>2, <2>5, <3>1
    <3>3. Len(writeBuffer') = 0 /\ 1 .. 0 = {}
      BY <2>1, EmptySeq
    <3> QED  BY <3>2, <3>3 DEF Buffered
  <2>9. OutType'
    BY <1>2, <2>1, <2>4 DEF OutType, parser
  <2>10. Reads(OutSteps(multiplexed), outPipe \o pending, RemoteAt, Flushed(d))'
    BY <1>2, <2>1, <2>6, <2>7
  <2> QED  BY <1>3, <2>5, <2>8, <2>9, <2>10 DEF OutInv
<1> QED  BY <1>4, <1>5

(* The calls that stop with an error. *)
LEMMA FatalOut ==
  ASSUME OutInv, Fatal, UNCHANGED <<multiplexed, outPipe, written, parser>>
  PROVE  OutInv'
<1>1. PICK c \in Nat : Reads(OutSteps(multiplexed), outPipe \o pending, RemoteAt, Flushed(c))
                       /\ (Small => Buffered(c))
  BY DEF OutInv
<1>2. UNCHANGED <<RemoteAt, Flushed(c), OutSteps(multiplexed), outPipe \o pending>>
  BY DEF RemoteAt, Flushed, flagLength, Fatal, parser
<1>3. Small => Buffered(c)'
  BY <1>1 DEF Buffered, Fatal
<1>4. OutType'
  BY DEF OutInv, OutType, Fatal, parser
<1>5. Reads(OutSteps(multiplexed), outPipe \o pending, RemoteAt, Flushed(c))'
  BY <1>1, <1>2
<1> QED  BY <1>3, <1>4, <1>5 DEF OutInv, parser

(* Fresh: the n numbers after `last`. *)
LEMMA FreshShape ==
  ASSUME NEW last \in Nat, NEW n \in Nat
  PROVE  /\ Fresh(last, n) \in Seq(Nat) /\ Len(Fresh(last, n)) = n
         /\ \A k \in 1 .. n : Fresh(last, n)[k] = last + k
<1>1. Fresh(last, n) \in [1 .. n -> Nat] /\ \A k \in 1 .. n : Fresh(last, n)[k] = last + k
  BY DEF Fresh
<1> QED  BY <1>1, FunctionIsSeq

(* Stream::write keeps OutInv: it appends to the buffer, or flushes buffer and chunk. *)
LEMMA WriteOut == OutInv /\ FlushInv /\ Write => OutInv'
<1> SUFFICES ASSUME OutInv, FlushInv, Write PROVE OutInv'
  OBVIOUS
<1>1. PICK size \in WriteSizes :
        LET bytes == Fresh(written, size)
            fits  == ~autoFlush \/ size < BufferSize - Len(writeBuffer)
        IN  \/ WriteForbidden /\ Fatal /\ UNCHANGED written
            \/ /\ ~WriteForbidden
               /\ fits
               /\ writeBuffer' = writeBuffer \o bytes
               /\ written' = written + size
               /\ UNCHANGED <<op, autoFlush, flushStart, pending>>
            \/ /\ ~WriteForbidden
               /\ ~fits
               /\ FlushWriteBuffer(bytes)
               /\ written' = written + size
               /\ UNCHANGED autoFlush
  BY DEF Write
<1>2. /\ size \in Nat /\ op = "idle" /\ UNCHANGED <<multiplexed, outPipe, parser>>
      /\ written \in Nat /\ writeBuffer \in Seq(Nat) /\ Len(writeBuffer) \in Nat
  BY StreamAssumption, LenProperties DEF Write, FlushInv, FlushType
<1> DEFINE bytes == Fresh(written, size)
<1>3. /\ bytes \in Seq(Nat) /\ Len(bytes) = size
      /\ \A k \in 1 .. size : bytes[k] = written + k
  BY <1>2, FreshShape
<1> HIDE DEF bytes
<1>4. CASE Fatal /\ UNCHANGED written
  BY <1>2, <1>4, FatalOut
<1>5. CASE ~WriteForbidden /\ writeBuffer' = writeBuffer \o bytes /\ written' = written + size
           /\ UNCHANGED <<op, autoFlush, flushStart, pending>>
  <2>0. flushStart = 0
    BY <1>5 DEF WriteForbidden
  <2>1. PICK c \in Nat : Reads(OutSteps(multiplexed), outPipe \o pending, RemoteAt, Flushed(c))
                         /\ (Small => Buffered(c))
    BY DEF OutInv
  <2>2. UNCHANGED <<RemoteAt, OutSteps(multiplexed), outPipe \o pending>>
    BY <1>2, <1>5 DEF RemoteAt, parser
  <2>3. Flushed(c)' = Flushed(c)
    BY <1>5, <2>0 DEF Flushed
  <2>4. Reads(OutSteps(multiplexed), outPipe \o pending, RemoteAt, Flushed(c))'
    BY <2>1, <2>2, <2>3
  <2> DEFINE n == Len(writeBuffer)
  <2>5. /\ Len(writeBuffer') = n + size
        /\ \A k \in 1 .. n + size : writeBuffer'[k] = IF k <= n THEN writeBuffer[k] ELSE bytes[k - n]
    BY <1>2, <1>3, <1>5, ConcatProperties
  <2>6. ASSUME Small PROVE Buffered(c)'
    <3>1. c + n = written /\ \A k \in 1 .. n : writeBuffer[k] = c + k
      BY <2>1, <2>6 DEF Buffered
    <3>2. ASSUME NEW k \in 1 .. n + size PROVE writeBuffer'[k] = c + k
      <4>1. CASE k <= n
        <5>1. k \in 1 .. n
          BY <1>2, <4>1
        <5> QED  BY <2>5, <3>1, <4>1, <5>1
      <4>2. CASE ~(k <= n)
        <5>1. k - n \in 1 .. size /\ written + (k - n) = c + k
          BY <1>2, <3>1, <4>2
        <5>2. bytes[k - n] = written + (k - n)
          BY <1>3, <5>1
        <5> QED  BY <2>5, <4>2, <5>1, <5>2
      <4> QED  BY <4>1, <4>2
    <3>3. c + (n + size) = written'
      <4>1. n \in Int /\ size \in Int /\ c \in Int /\ written' = written + size
        BY <1>2, <1>5
      <4>2. c + n = written
        BY <3>1
      <4> HIDE DEF n
      <4> QED  BY <4>1, <4>2
    <3>4. Len(writeBuffer') = n + size
      BY <2>5
    <3> HIDE DEF n
    <3> QED  BY <2>5, <3>2, <3>3 DEF Buffered
  <2>7. OutType'
    <3>1. pending = <<>> /\ op = "idle"
      BY <1>2 DEF OutInv, OutType
    <3> QED  BY <1>2, <1>5, <3>1 DEF OutInv, OutType, parser
  <2> QED  BY <1>2, <2>4, <2>6, <2>7 DEF OutInv, parser
<1>6. CASE /\ ~(~autoFlush \/ size < BufferSize - Len(writeBuffer)) /\ FlushWriteBuffer(bytes)
           /\ written' = written + size
  <2>1. ASSUME Small, writeBuffer = <<>> PROVE Len(bytes) = 0
    <3>1. Len(writeBuffer) = 0 /\ size < BufferSize /\ BufferSize \in Nat
      BY <2>1, EmptySeq, StreamAssumption DEF Small
    <3> QED  BY <1>2, <1>6, <3>1
  <2>2. Small => \A k \in 1 .. Len(bytes) : bytes[k] = written + k
    BY <1>3
  <2>3. written' = written + Len(bytes)
    BY <1>3, <1>6
  <2> QED  BY <1>2, <1>3, <1>6, <2>1, <2>2, <2>3, FlushWriteBufferOut
<1> QED  BY <1>1, <1>4, <1>5, <1>6 DEF bytes

(* So do flushWriteBuffer and disableAutomaticFlush. *)
LEMMA FlushOut == OutInv /\ FlushInv /\ (Flush \/ DisableAutomaticFlush) => OutInv'
<1> SUFFICES ASSUME OutInv, FlushInv, Flush \/ DisableAutomaticFlush PROVE OutInv'
  OBVIOUS
<1>1. /\ op = "idle" /\ UNCHANGED <<multiplexed, written, outPipe, parser>>
      /\ Fatal \/ FlushWriteBuffer(<<>>)
  BY DEF Flush, DisableAutomaticFlush
<1>2. /\ <<>> \in Seq(Nat) /\ Len(<<>>) = 0 /\ written \in Nat /\ written + 0 = written
      /\ \A k \in 1 .. Len(<<>>) : <<>>[k] = written + k
  BY EmptySeq DEF FlushInv, FlushType
<1>3. CASE Fatal
  BY <1>1, <1>3, FatalOut
<1>4. CASE FlushWriteBuffer(<<>>)
  <2>1. written' = written + Len(<<>>)
    BY <1>1, <1>2
  <2> QED  BY <1>1, <1>2, <1>4, <2>1, FlushWriteBufferOut
<1> QED  BY <1>1, <1>3, <1>4

-----------------------------------------------------------------------------
(* And one io->write of tryFlushWriteBuffer: the next part of the same frame. *)
LEMMA TryFlushOut == OutInv /\ FlushInv /\ TryFlushWriteBuffer => OutInv'
<1> SUFFICES ASSUME OutInv, FlushInv, TryFlushWriteBuffer PROVE OutInv'
  OBVIOUS
<1>1. PICK c \in Nat : Reads(OutSteps(multiplexed), outPipe \o pending, RemoteAt, Flushed(c))
                       /\ (Small => Buffered(c))
  BY DEF OutInv
<1>2. /\ op = "idle" /\ pending = <<>> /\ outPipe \in Seq(Byte)
      /\ writeBuffer # <<>>
      /\ UNCHANGED <<op, multiplexed, autoFlush, pending, written, parser>>
  BY DEF TryFlushWriteBuffer, OutInv, OutType
<1>3. outPipe \o pending = outPipe
  BY <1>2, ConcatEmptySeq
<1> DEFINE len == Len(writeBuffer)
           segment == IF flushStart < flagLength THEN flagLength ELSE Len(Frame(writeBuffer))
<1>4. /\ writeBuffer \in Seq(Nat) /\ len \in Nat \ {0} /\ flagLength \in Nat /\ flushStart \in Nat
      /\ multiplexed \in BOOLEAN /\ Len(Frame(writeBuffer)) = flagLength + len
      /\ flushStart # 0 => flushStart < len + flagLength
      /\ Small => \A k \in 1 .. len : writeBuffer[k] = c + k
  BY <1>1, <1>2, EmptySeq, FrameAt DEF FlushInv, FlushType, Buffered
<1>5. PICK n \in 1 .. segment - flushStart :
        /\ outPipe' = outPipe \o SubSeq(Frame(writeBuffer), flushStart + 1, flushStart + n)
        /\ IF FlushDone(flushStart + n)
             THEN writeBuffer' = <<>> /\ flushStart' = 0
             ELSE flushStart' = flushStart + n /\ UNCHANGED writeBuffer
  BY DEF TryFlushWriteBuffer
<1>6. /\ n \in Nat \ {0} /\ flushStart + n \in Nat
      /\ flushStart < flagLength => flushStart + n <= flagLength
      /\ flushStart + n <= flagLength + len
  BY <1>4, <1>5
<1>7. PICK v \in Seq(Byte) : v = SubSeq(Frame(writeBuffer), flushStart + 1, flushStart + n)
  BY <1>4, <1>6, ReadsFramePart
<1>8. /\ flushStart < flagLength =>
              Reads(OutSteps(multiplexed), v, At(flushStart, 0, c),
                    IF flushStart + n = flagLength THEN At(0, len, c) ELSE At(flushStart + n, 0, c))
      /\ flushStart >= flagLength =>
              Reads(OutSteps(multiplexed), v,
                    At(0, IF multiplexed THEN flagLength + len - flushStart ELSE 0,
                       c + (flushStart - flagLength)),
                    At(0, IF multiplexed THEN flagLength + len - (flushStart + n) ELSE 0,
                       c + ((flushStart + n) - flagLength)))
  BY <1>4, <1>6, <1>7, ReadsFramePart
<1>9. multiplexed = TRUE => flagLength # 0
  BY StreamAssumption DEF flagLength
<1>10. multiplexed = FALSE => flagLength = 0
  BY DEF flagLength
<1> HIDE DEF segment
<1>11. UNCHANGED <<RemoteAt, OutSteps(multiplexed), flagLength>>
  BY <1>2 DEF RemoteAt, parser, flagLength
<1>12. \E d \in Nat :
         /\ Reads(OutSteps(multiplexed), v, Flushed(c), Flushed(d)')
         /\ Small => Buffered(d)'
  <2>1. CASE FlushDone(flushStart + n)
    <3>1. flushStart + n = flagLength + len /\ flushStart' = 0 /\ writeBuffer' = <<>>
      <4>1. flushStart + n >= len + flagLength
        BY <2>1 DEF FlushDone
      <4>2. flushStart' = 0 /\ writeBuffer' = <<>>
        BY <1>5, <2>1
      <4> HIDE DEF len
      <4> QED  BY <1>4, <1>6, <4>1, <4>2
    <3>2. flushStart >= flagLength
      BY <1>4, <1>6, <3>1
    <3>3. PICK d \in Nat : d = c + len
      BY <1>4
    <3>4. Flushed(d)' = At(0, 0, d)
      BY <3>1 DEF Flushed
    <3>5. Flushed(c) = At(0, IF multiplexed THEN flagLength + len - flushStart ELSE 0,
                          c + (flushStart - flagLength))
      <4>1. CASE flushStart = 0
        <5>1. multiplexed = FALSE /\ c + (flushStart - flagLength) = c
          BY <1>4, <1>9, <3>2, <4>1
        <5> QED  BY <4>1, <5>1 DEF Flushed
      <4>2. CASE flushStart # 0
        <5>1. len + flagLength - flushStart = flagLength + len - flushStart /\ ~(flushStart < flagLength)
          BY <1>4, <3>2
        <5> QED  BY <4>2, <5>1 DEF Flushed
      <4> QED  BY <4>1, <4>2
    <3>6. At(0, IF multiplexed THEN flagLength + len - (flushStart + n) ELSE 0,
                       c + ((flushStart + n) - flagLength)) = At(0, 0, d)
      <4>1. flagLength + len - (flushStart + n) = 0 /\ c + ((flushStart + n) - flagLength) = d
        BY <1>4, <3>1, <3>3
      <4> QED  BY <4>1
    <3>7. Reads(OutSteps(multiplexed), v, Flushed(c), Flushed(d)')
      BY <1>8, <3>2, <3>4, <3>5, <3>6
    <3>8. ASSUME Small PROVE Buffered(d)'
      <4>1. c + len = written
        BY <1>1, <3>8 DEF Buffered
      <4>2. Len(writeBuffer') = 0 /\ 1 .. 0 = {} /\ d + 0 = written'
        BY <1>2, <3>1, <3>3, <4>1, EmptySeq
      <4> QED  BY <4>2 DEF Buffered
    <3> QED  BY <3>7, <3>8
  <2>2. CASE ~FlushDone(flushStart + n)
    <3>1. flushStart' = flushStart + n /\ writeBuffer' = writeBuffer /\ flushStart' # 0
          /\ flushStart' < flagLength + len
      BY <1>4, <1>5, <1>6, <2>2 DEF FlushDone
    <3>2. Small => Buffered(c)'
      BY <1>1, <1>2, <3>1 DEF Buffered
    <3>3. CASE flushStart < flagLength
      <4>1. multiplexed = TRUE
        BY <1>4, <1>10, <3>3
      <4>2. Flushed(c) = At(flushStart, 0, c)
        BY <3>3 DEF Flushed
      <4>3. Flushed(c)' = IF flushStart + n = flagLength THEN At(0, len, c) ELSE At(flushStart + n, 0, c)
        <5>1. CASE flushStart + n = flagLength
          <6>1. len + flagLength - flushStart' = len /\ c + (flushStart' - flagLength) = c
                /\ ~(flushStart' < flagLength)
            BY <1>4, <3>1, <5>1
          <6>2. multiplexed' = TRUE
            BY <1>2, <4>1
          <6> QED  BY <1>11, <3>1, <5>1, <6>1, <6>2 DEF Flushed
        <5>2. CASE flushStart + n # flagLength
          <6>1. flushStart' < flagLength
            BY <1>4, <1>6, <3>1, <3>3, <5>2
          <6> QED  BY <1>11, <3>1, <5>2, <6>1 DEF Flushed
        <5> QED  BY <5>1, <5>2
      <4> QED  BY <1>8, <3>2, <3>3, <4>2, <4>3
    <3>4. CASE flushStart >= flagLength
      <4>1. Flushed(c) = At(0, IF multiplexed THEN flagLength + len - flushStart ELSE 0,
                          c + (flushStart - flagLength))
        <5>1. CASE flushStart = 0
          <6>1. multiplexed = FALSE /\ c + (flushStart - flagLength) = c
            BY <1>4, <1>9, <3>4, <5>1
          <6> QED  BY <5>1, <6>1 DEF Flushed
        <5>2. CASE flushStart # 0
          <6>1. len + flagLength - flushStart = flagLength + len - flushStart /\ ~(flushStart < flagLength)
            BY <1>4, <3>4
          <6> QED  BY <5>2, <6>1 DEF Flushed
        <5> QED  BY <5>1, <5>2
      <4>2. Flushed(c)' = At(0, IF multiplexed THEN flagLength + len - (flushStart + n) ELSE 0,
                       c + ((flushStart + n) - flagLength))
        <5>1. len + flagLength - flushStart' = flagLength + len - (flushStart + n)
              /\ ~(flushStart' < flagLength)
          BY <1>4, <1>6, <3>1, <3>4
        <5> QED  BY <1>2, <1>11, <3>1, <5>1 DEF Flushed
      <4> QED  BY <1>8, <3>2, <3>4, <4>1, <4>2
    <3> QED  BY <1>4, <3>3, <3>4
  <2> QED  BY <2>1, <2>2
<1>13. PICK d \in Nat :
         /\ Reads(OutSteps(multiplexed), v, Flushed(c), Flushed(d)')
         /\ Small => Buffered(d)'
  BY <1>12
<1>14. outPipe' = outPipe \o v /\ outPipe \o v \in Seq(Byte)
  BY <1>2, <1>5, <1>7, ConcatProperties
<1>15. Reads(OutSteps(multiplexed), outPipe \o v, RemoteAt, Flushed(d)')
  BY <1>1, <1>2, <1>3, <1>13, ReadsConcat
<1>16. (outPipe \o pending)' = outPipe \o v
  BY <1>2, <1>14, ConcatEmptySeq
<1>17. Reads(OutSteps(multiplexed), outPipe \o pending, RemoteAt, Flushed(d))'
  BY <1>11, <1>15, <1>16
<1>18. OutType'
  BY <1>2, <1>14 DEF OutInv, OutType, parser
<1> QED  BY <1>2, <1>13, <1>17, <1>18 DEF OutInv, parser

-----------------------------------------------------------------------------
(* A pipe and what is taken from its front. *)
LEMMA TakeDrop ==
  ASSUME NEW S, NEW s \in Seq(S), NEW n \in 0 .. Len(s)
  PROVE  /\ Take(s, n) \in Seq(S) /\ Drop(s, n) \in Seq(S)
         /\ Len(Take(s, n)) = n /\ Len(Drop(s, n)) = Len(s) - n /\ Len(s) \in Nat
         /\ \A k \in 1 .. n : Take(s, n)[k] = s[k]
         /\ s = Take(s, n) \o Drop(s, n)
<1>1. Len(s) \in Nat /\ \A k \in 1 .. Len(s) : s[k] \in S
  BY LenProperties, ElementOfSeq
<1>2. /\ Take(s, n) \in Seq(S) /\ Len(Take(s, n)) = n
      /\ \A k \in 1 .. n : Take(s, n)[k] = s[k]
  <2>1. \A i \in 1 .. n : s[i] \in S
    BY <1>1
  <2>2. /\ SubSeq(s, 1, n) \in Seq(S) /\ Len(SubSeq(s, 1, n)) = IF 1 <= n THEN n - 1 + 1 ELSE 0
        /\ \A i \in 1 .. n - 1 + 1 : SubSeq(s, 1, n)[i] = s[1 + i - 1]
    BY <1>1, <2>1, SubSeqProperties
  <2>3. n - 1 + 1 = n /\ (IF 1 <= n THEN n ELSE 0) = n /\ \A i \in 1 .. n : 1 + i - 1 = i
    BY <1>1
  <2> QED  BY <2>2, <2>3 DEF Take
<1>3. Drop(s, n) \in Seq(S) /\ Len(Drop(s, n)) = Len(s) - n
  <2>1. \A i \in n + 1 .. Len(s) : s[i] \in S
    BY <1>1
  <2>2. /\ SubSeq(s, n + 1, Len(s)) \in Seq(S)
        /\ Len(SubSeq(s, n + 1, Len(s))) = IF n + 1 <= Len(s) THEN Len(s) - (n + 1) + 1 ELSE 0
    BY <1>1, <2>1, SubSeqProperties
  <2>3. (IF n + 1 <= Len(s) THEN Len(s) - (n + 1) + 1 ELSE 0) = Len(s) - n
    BY <1>1
  <2> QED  BY <2>2, <2>3 DEF Drop
<1>4. SubSeq(s, 1, n) \o SubSeq(s, n + 1, Len(s)) = SubSeq(s, 1, Len(s))
  <2>1. 1 \in 1 .. Len(s) + 1 /\ n \in 1 - 1 .. Len(s) /\ Len(s) \in n .. Len(s)
    BY <1>1
  <2> QED  BY <2>1, ConcatAdjacentSubSeq
<1>5. SubSeq(s, 1, Len(s)) = s
  BY SubSeqFull
<1> QED  BY <1>1, <1>2, <1>3, <1>4, <1>5 DEF Take, Drop

(* And one io->write of writeAll. *)
LEMMA WriteAllOut == OutInv /\ FlushInv /\ WriteAll => OutInv'
<1> SUFFICES ASSUME OutInv, FlushInv, WriteAll PROVE OutInv'
  OBVIOUS
<1>1. PICK c \in Nat : Reads(OutSteps(multiplexed), outPipe \o pending, RemoteAt, Flushed(c))
                       /\ (Small => Buffered(c))
  BY DEF OutInv
<1>2. /\ op = "flush" /\ outPipe \in Seq(Byte) /\ pending \in Seq(Byte)
      /\ UNCHANGED <<multiplexed, autoFlush, writeBuffer, flushStart, written, parser>>
  BY DEF WriteAll, OutInv, OutType
<1>3. PICK n \in 1 .. Len(pending) :
        /\ outPipe' = outPipe \o Take(pending, n)
        /\ pending' = Drop(pending, n)
        /\ op' = IF n = Len(pending) THEN "idle" ELSE op
  BY DEF WriteAll
<1>4. PICK v \in Seq(Byte), w \in Seq(Byte) :
        v = Take(pending, n) /\ w = Drop(pending, n) /\ pending = v \o w /\ Len(w) = Len(pending) - n
  <2>1. PICK u \in Seq(Byte) : u = pending
    BY <1>2
  <2>2. n \in 0 .. Len(u)
    BY <2>1
  <2>3. /\ Take(u, n) \in Seq(Byte) /\ Drop(u, n) \in Seq(Byte)
        /\ Len(Drop(u, n)) = Len(u) - n /\ u = Take(u, n) \o Drop(u, n)
    BY <2>2, TakeDrop
  <2> QED  BY <2>1, <2>3
<1>5. outPipe' = outPipe \o v /\ pending' = w
  BY <1>3, <1>4
<1>6. (outPipe \o v) \o w = outPipe \o (v \o w)
  BY <1>2, ConcatAssociative
<1>7. (outPipe \o pending)' = outPipe \o pending
  BY <1>4, <1>5, <1>6
<1>8. UNCHANGED <<RemoteAt, Flushed(c), OutSteps(multiplexed)>>
  BY <1>2 DEF RemoteAt, Flushed, flagLength, parser
<1>9. Small => Buffered(c)'
  BY <1>1, <1>2 DEF Buffered
<1>10. OutType'
  <2>1. outPipe' \in Seq(Byte) /\ pending' \in Seq(Byte)
    BY <1>2, <1>5, ConcatProperties
  <2>2. op' # "flush" => pending' = <<>>
    <3>1. n = Len(pending) => Len(w) = 0
      BY <1>2, <1>4, LenProperties
    <3>2. Len(w) = 0 => w = <<>>
      BY EmptySeq
    <3> QED  BY <1>2, <1>3, <1>5, <3>1, <3>2
  <2>3. op' \in {"idle", "flush"}
    BY <1>2, <1>3
  <2>4. writeBuffer' = <<>> /\ flushStart' = 0
    BY <1>2 DEF OutInv, OutType
  <2>5. remoteFlag' \in Nat /\ remoteLeft' \in Nat /\ remoteGot' \in Seq(Nat)
    BY <1>2 DEF OutInv, OutType, parser
  <2> QED  BY <2>1, <2>2, <2>3, <2>4, <2>5 DEF OutType
<1>11. Reads(OutSteps(multiplexed), outPipe \o pending, RemoteAt, Flushed(c))'
  BY <1>1, <1>7, <1>8
<1> QED  BY <1>2, <1>9, <1>10, <1>11 DEF OutInv, parser

(* The position in a flag after one of its bytes. *)
LEMMA Modulo == \A k \in 1 .. FlagLength : k % FlagLength = IF k = FlagLength THEN 0 ELSE k
<1>1. FlagLength \in Nat \ {0}
  BY StreamAssumption
<1>2. \A f \in Nat \ {0} : \A k \in 1 .. f : k % f = IF k = f THEN 0 ELSE k
  OBVIOUS
<1> QED  BY <1>1, <1>2

(* The remote side takes a byte: it is one step of its parser. *)
LEMMA RemoteReadOut == OutInv /\ FlushInv /\ RemoteRead => OutInv'
<1> SUFFICES ASSUME OutInv, FlushInv, RemoteRead PROVE OutInv'
  OBVIOUS
<1>1. PICK c \in Nat : Reads(OutSteps(multiplexed), outPipe \o pending, RemoteAt, Flushed(c))
                       /\ (Small => Buffered(c))
  BY DEF OutInv
<1>2. /\ outPipe # <<>> /\ outPipe \in Seq(Byte) /\ pending \in Seq(Byte) /\ outPipe' = Tail(outPipe)
      /\ remoteInStep = TRUE /\ multiplexed \in BOOLEAN
      /\ remoteFlag \in Nat /\ remoteLeft \in Nat /\ remoteGot \in Seq(Nat) /\ Len(remoteGot) \in Nat
      /\ UNCHANGED <<op, multiplexed, autoFlush, writeBuffer, flushStart, pending, written>>
  BY LenProperties DEF RemoteRead, OutInv, OutType, FlushInv, FlushType
<1>3. PICK b \in Byte, rest \in Seq(Byte) : b = Head(outPipe) /\ rest = Tail(outPipe)
  BY <1>2, HeadTailProperties
<1>4. outPipe \o pending = <<b>> \o (rest \o pending) /\ <<b>> \in Seq(Byte) /\ rest \o pending \in Seq(Byte)
  <2>1. outPipe = <<b>> \o rest
    BY <1>2, <1>3
  <2>2. <<b>> \in Seq(Byte)
    OBVIOUS
  <2> QED  BY <1>2, <2>1, <2>2, ConcatAssociative, ConcatProperties
<1>5. PICK t : Reads(OutSteps(multiplexed), <<b>>, RemoteAt, t)
               /\ Reads(OutSteps(multiplexed), rest \o pending, t, Flushed(c))
  BY <1>1, <1>4, ReadsSplit
<1>6. OutStep(multiplexed, RemoteAt, b, t) /\ t \in OutState
  <2>1. <<RemoteAt, b, t>> \in OutSteps(multiplexed)
    BY <1>5, ReadsOne
  <2> QED  BY <2>1 DEF OutSteps
<1>7. /\ RemoteAt.flag = remoteFlag /\ RemoteAt.left = remoteLeft /\ RemoteAt.count = Len(remoteGot)
  BY DEF RemoteAt, At
<1>8. /\ t = RemoteAt' /\ remoteInStep' = TRUE
      /\ remoteFlag' \in Nat /\ remoteLeft' \in Nat /\ remoteGot' \in Seq(Nat)
      /\ (Small => \A k \in 1 .. Len(remoteGot') : remoteGot'[k] = k)
  <2>0. Small => \A k \in 1 .. Len(remoteGot) : remoteGot[k] = k
    BY DEF OutInv
  <2>1. CASE multiplexed /\ remoteLeft = 0 /\ b.type = "flag" /\ b.at = remoteFlag + 1
             /\ t = IF b.at = FlagLength THEN At(0, b.length, Len(remoteGot)) ELSE At(b.at, 0, Len(remoteGot))
    <3>1. b.at \in 1 .. FlagLength /\ b.length \in Nat
      BY <2>1 DEF Byte, FlagByte, DataByte, TextByte
    <3>2. /\ remoteFlag' = b.at % FlagLength
          /\ remoteLeft' = IF b.at = FlagLength THEN b.length ELSE 0
          /\ UNCHANGED <<remoteGot, remoteInStep>>
      BY <1>3, <2>1 DEF RemoteRead
    <3>3. remoteFlag' = IF b.at = FlagLength THEN 0 ELSE b.at
      BY <3>1, <3>2, Modulo
    <3>4. t = RemoteAt'
      BY <2>1, <3>2, <3>3 DEF RemoteAt
    <3>5. remoteFlag' \in Nat /\ remoteLeft' \in Nat
      BY <3>1, <3>2, <3>3
    <3> QED  BY <1>2, <2>0, <3>2, <3>4, <3>5
  <2>2. CASE /\ multiplexed => remoteLeft > 0
             /\ b.type = "data" /\ (Small => b.byte = Len(remoteGot) + 1)
             /\ t = At(remoteFlag, IF multiplexed THEN remoteLeft - 1 ELSE 0, Len(remoteGot) + 1)
    <3>1. ~(multiplexed /\ remoteLeft = 0)
      BY <1>2, <2>2
    <3>2. b.byte \in Nat
      BY <2>2 DEF Byte, FlagByte, DataByte, TextByte
    <3>3. /\ remoteGot' = Append(remoteGot, b.byte)
          /\ remoteLeft' = IF multiplexed THEN remoteLeft - 1 ELSE 0
          /\ UNCHANGED <<remoteFlag, remoteInStep>>
      BY <1>3, <2>2, <3>1 DEF RemoteRead
    <3>4. /\ remoteGot' \in Seq(Nat) /\ Len(remoteGot') = Len(remoteGot) + 1
          /\ \A i \in 1 .. Len(remoteGot) : remoteGot'[i] = remoteGot[i]
          /\ remoteGot'[Len(remoteGot) + 1] = b.byte
      BY <1>2, <3>2, <3>3, AppendProperties
    <3>5. t = RemoteAt'
      BY <2>2, <3>3, <3>4 DEF RemoteAt
    <3>6. remoteLeft' \in Nat
      BY <1>2, <2>2, <3>3
    <3>7. ASSUME Small, NEW k \in 1 .. Len(remoteGot') PROVE remoteGot'[k] = k
      <4>1. CASE k = Len(remoteGot) + 1
        BY <2>2, <3>4, <3>7, <4>1
      <4>2. CASE k # Len(remoteGot) + 1
        <5>1. k \in 1 .. Len(remoteGot)
          BY <1>2, <3>4, <4>2
        <5> QED  BY <2>0, <3>4, <3>7, <5>1
      <4> QED  BY <4>1, <4>2
    <3> QED  BY <1>2, <3>3, <3>4, <3>5, <3>6, <3>7
  <2> QED  BY <1>6, <1>7, <2>1, <2>2 DEF OutStep
<1>9. UNCHANGED <<Flushed(c), OutSteps(multiplexed)>> /\ (outPipe \o pending)' = rest \o pending
  BY <1>2, <1>3 DEF Flushed, flagLength
<1>10. Small => Buffered(c)'
  BY <1>1, <1>2 DEF Buffered
<1>11. Reads(OutSteps(multiplexed), outPipe \o pending, RemoteAt, Flushed(c))'
  BY <1>5, <1>8, <1>9
<1>12. OutType'
  BY <1>2, <1>3, <1>8 DEF OutInv, OutType
<1> QED  BY <1>8, <1>10, <1>11, <1>12 DEF OutInv

(* The other steps write nothing. *)
OutIdle ==
  /\ UNCHANGED <<multiplexed, autoFlush, writeBuffer, flushStart, pending, written, outPipe, parser>>
  /\ op' \in {"idle", "read", "poll", "flush", "fatal"}
  /\ op' = op \/ op' = "fatal" \/ (op \in {"idle", "read", "poll"} /\ op' # "flush")

(* Reading a message neither begins nor ends a flush. *)
LEMMA MessageOp ==
  ASSUME op \in {"idle", "read", "poll", "flush", "fatal"}, ReadFlag \/ ReadText \/ StashChunk
  PROVE  /\ op' \in {"idle", "read", "poll", "flush", "fatal"}
         /\ op' = op \/ op' = "fatal" \/ (op \in {"idle", "read", "poll"} /\ op' # "flush")
<1>1. CASE ReadFlag
  <2>1. PICK n \in 1 .. FlagLength - flagRead :
          \/ UNCHANGED op
          \/ FlagComplete(inPipe[n].kind, inPipe[n].length)
    BY <1>1 DEF ReadFlag
  <2> QED  BY <2>1 DEF FlagComplete, EndMessage
<1>2. CASE ReadText
  <2>1. UNCHANGED op \/ EndMessage(messageFlag)
    BY <1>2 DEF ReadText
  <2> QED  BY <2>1 DEF EndMessage
<1>3. CASE StashChunk
  BY <1>3 DEF StashChunk
<1> QED  BY <1>1, <1>2, <1>3

(* The other steps leave the writing side alone ... *)
LEMMA OthersOut ==
  OutInv /\ (Read \/ IsDataAvailable \/ WriteAllBlocked \/ Poll \/ ReadMessage \/ ReadChunk
              \/ RemoteSend \/ RemoteWrite \/ UNCHANGED vars) => OutIdle
<1> SUFFICES ASSUME OutInv,
                    Read \/ IsDataAvailable \/ WriteAllBlocked \/ Poll \/ ReadMessage \/ ReadChunk
                      \/ RemoteSend \/ RemoteWrite \/ UNCHANGED vars
             PROVE  OutIdle
  OBVIOUS
<1>1. op \in {"idle", "read", "poll", "flush", "fatal"}
  BY DEF OutInv, OutType
<1>2. UNCHANGED <<multiplexed, autoFlush, writeBuffer, flushStart, pending, written, outPipe, parser>>
  BY DEF Read, IsDataAvailable, WriteAllBlocked, Poll, ReadMessage, ReadChunk,
         RemoteSend, RemoteWrite, vars, writing, parser
<1>3. CASE Read
  <2>1. op = "idle" /\ op' \in {"idle", "read"}
    BY <1>3 DEF Read
  <2> QED  BY <1>2, <2>1 DEF OutIdle
<1>4. CASE IsDataAvailable
  BY <1>2, <1>4 DEF OutIdle, IsDataAvailable
<1>5. CASE WriteAllBlocked \/ Poll \/ ReadMessage
  <2>1. ReadFlag \/ ReadText \/ StashChunk
    BY <1>5 DEF WriteAllBlocked, Poll, ReadMessage
  <2> QED  BY <1>1, <1>2, <2>1, MessageOp DEF OutIdle
<1>6. CASE ReadChunk
  <2>1. ReadFlag \/ (op = "read" /\ op' \in {"idle", "read"})
    BY <1>6 DEF ReadChunk
  <2> QED  BY <1>1, <1>2, <2>1, MessageOp DEF OutIdle
<1>7. CASE RemoteSend \/ RemoteWrite \/ UNCHANGED vars
  BY <1>1, <1>2, <1>7 DEF OutIdle, RemoteSend, RemoteWrite, vars
<1> QED  BY <1>3, <1>4, <1>5, <1>6, <1>7

(* ... and then OutInv stands. *)
LEMMA IdleOut == OutInv /\ OutIdle => OutInv'
<1> SUFFICES ASSUME OutInv, OutIdle PROVE OutInv'
  OBVIOUS
<1>1. PICK c \in Nat : Reads(OutSteps(multiplexed), outPipe \o pending, RemoteAt, Flushed(c))
                       /\ (Small => Buffered(c))
  BY DEF OutInv
<1>2. UNCHANGED <<RemoteAt, Flushed(c), OutSteps(multiplexed), outPipe \o pending>>
  BY DEF RemoteAt, Flushed, flagLength, OutIdle, parser
<1>3. Small => Buffered(c)'
  BY <1>1 DEF Buffered, OutIdle
<1>4. OutType'
  BY DEF OutInv, OutType, OutIdle, parser
<1>5. Reads(OutSteps(multiplexed), outPipe \o pending, RemoteAt, Flushed(c))'
  BY <1>1, <1>2
<1> QED  BY <1>3, <1>4, <1>5 DEF OutInv, OutIdle, parser

(* The writing side: the remote side can take all that is on its way to it,
   and is then at the place of its frame that flushStart says. *)
THEOREM OutIsInvariant == Spec => []OutInv
<1>1. ASSUME OutInv, FlushInv, [Next]_vars PROVE OutInv'
  <2>1. CASE Write
    BY <1>1, <2>1, WriteOut
  <2>2. CASE Flush \/ DisableAutomaticFlush
    BY <1>1, <2>2, FlushOut
  <2>3. CASE TryFlushWriteBuffer
    BY <1>1, <2>3, TryFlushOut
  <2>4. CASE WriteAll
    BY <1>1, <2>4, WriteAllOut
  <2>5. CASE RemoteRead
    BY <1>1, <2>5, RemoteReadOut
  <2>6. CASE Read \/ IsDataAvailable \/ WriteAllBlocked \/ Poll \/ ReadMessage \/ ReadChunk
              \/ RemoteSend \/ RemoteWrite \/ UNCHANGED vars
    BY <1>1, <2>6, OthersOut, IdleOut
  <2> QED  BY <1>1, <2>1, <2>2, <2>3, <2>4, <2>5, <2>6 DEF Next, Client, Thread, Remote
<1> QED  BY <1>1, InitOut, FlushIsInvariant, PTL DEF Spec

(* The header of a frame announces exactly the bytes that follow it, whatever
   write, flushWriteBuffer and tryFlushWriteBuffer did in between. *)
THEOREM FramesStayWhole == Spec => []FrameIntegrity
<1>1. OutInv => FrameIntegrity
  BY DEF OutInv, FrameIntegrity
<1> QED  BY <1>1, OutIsInvariant, PTL

-----------------------------------------------------------------------------
(* f is a function on 0 .. n given by its value at 0 and by each value from the one before. *)
Stepwise(f, n, first, G) == f[0] = first /\ \A k \in 1 .. n : f[k] = G[<<f[k - 1], k>>]

(* There is such a function. *)
LEMMA StepwiseExists ==
  ASSUME NEW n \in Nat, NEW first, NEW G
  PROVE  \E f : Stepwise(f, n, first, G)
<1> DEFINE Good(f, m) == f[0] = first /\ \A k \in 1 .. m : f[k] = G[<<f[k - 1], k>>]
           T == {m \in 0 .. n : \E f : Good(f, m)}
<1>1. 0 \in T
  <2> DEFINE f == [k \in 0 .. 0 |-> first]
  <2>1. Good(f, 0)
    OBVIOUS
  <2> HIDE DEF f, Good
  <2> QED  BY <2>1
<1>2. ASSUME NEW m \in 1 .. n, m - 1 \in T PROVE m \in T
  <2>1. PICK f : Good(f, m - 1)
    BY <1>2
  <2> DEFINE new == G[<<f[m - 1], m>>]
             g == [k \in 0 .. m |-> IF k < m THEN f[k] ELSE new]
  <2>4. g[0] = first /\ g[m] = new /\ \A k \in 0 .. m - 1 : g[k] = f[k]
    BY <2>1
  <2>5. ASSUME NEW k \in 1 .. m PROVE g[k] = G[<<g[k - 1], k>>]
    <3>1. CASE k = m
      <4>1. m - 1 \in 0 .. m - 1
        OBVIOUS
      <4> HIDE DEF g
      <4> QED  BY <2>4, <3>1, <4>1
    <3>2. CASE k # m
      <4>1. k \in 1 .. m - 1 /\ k \in 0 .. m - 1 /\ k - 1 \in 0 .. m - 1
        BY <3>2
      <4>2. f[k] = G[<<f[k - 1], k>>]
        BY <2>1, <4>1
      <4> HIDE DEF g
      <4> QED  BY <2>4, <4>1, <4>2
    <3> QED  BY <3>1, <3>2
  <2>6. Good(g, m)
    <3> HIDE DEF g
    <3> QED  BY <2>4, <2>5
  <2> HIDE DEF g, Good
  <2> QED  BY <2>6
<1> HIDE DEF T
<1>3. 0 .. n \subseteq T
  BY <1>1, <1>2, InductionUpTo
<1> QED  BY <1>3 DEF T, Stepwise

(* DataOf, step by step. *)
LEMMA DataOfDef ==
  ASSUME NEW wire \in Seq(Byte)
  PROVE  \E f : /\ f[0] = <<>> /\ DataOf(wire) = f[Len(wire)]
                /\ \A k \in 1 .. Len(wire) :
                     f[k] = IF wire[k].type = "data" THEN Append(f[k - 1], wire[k].byte) ELSE f[k - 1]
<1> DEFINE n == Len(wire)
           R == [x \in Seq(Nat) \X (1 .. n) |->
                   IF wire[x[2]].type = "data" THEN Append(x[1], wire[x[2]].byte) ELSE x[1]]
           Eq(f) == f = [k \in 0 .. n |->
                           IF k = 0 THEN <<>>
                           ELSE IF wire[k].type = "data" THEN Append(f[k - 1], wire[k].byte) ELSE f[k - 1]]
<1>1. n \in Nat /\ <<>> \in Seq(Nat) /\ \A k \in 1 .. n : wire[k] \in Byte
  BY LenProperties, ElementOfSeq, EmptySeq
<1>2. ASSUME NEW x \in Seq(Nat), NEW k \in 1 .. n
      PROVE  /\ R[<<x, k>>] = IF wire[k].type = "data" THEN Append(x, wire[k].byte) ELSE x
             /\ R[<<x, k>>] \in Seq(Nat)
  <2>1. R[<<x, k>>] = IF wire[k].type = "data" THEN Append(x, wire[k].byte) ELSE x
    OBVIOUS
  <2>2. wire[k].type = "data" => wire[k].byte \in Nat
    BY <1>1 DEF Byte, FlagByte, DataByte, TextByte
  <2> HIDE DEF R
  <2> QED  BY <2>1, <2>2, AppendProperties
<1> HIDE DEF R
<1>3. PICK h : h[0] = <<>> /\ \A k \in 1 .. n : h[k] = R[<<h[k - 1], k>>]
  <2>1. PICK m \in Nat : m = n
    BY <1>1
  <2>2. PICK e : e = <<>>
    OBVIOUS
  <2>3. PICK H : H = R
    OBVIOUS
  <2>4. \E f : Stepwise(f, m, e, H)
    BY StepwiseExists
  <2> HIDE DEF n
  <2> QED  BY <2>1, <2>2, <2>3, <2>4 DEF Stepwise
<1>4. 0 .. n \subseteq {k \in 0 .. n : h[k] \in Seq(Nat)}
  <2> DEFINE T == {k \in 0 .. n : h[k] \in Seq(Nat)}
  <2>1. 0 \in T
    <3>1. 0 \in 0 .. n
      BY <1>1
    <3> QED  BY <1>1, <1>3, <3>1, Zenon
  <2>2. ASSUME NEW k \in 1 .. n, k - 1 \in T PROVE k \in T
    <3>1. k \in 0 .. n /\ h[k - 1] \in Seq(Nat)
      BY <1>1, <2>2
    <3>2. PICK x \in Seq(Nat) : x = h[k - 1]
      BY <3>1, Zenon
    <3>3. R[<<x, k>>] \in Seq(Nat)
      BY <1>2, Zenon
    <3>4. h[k] \in Seq(Nat)
      BY <1>3, <3>2, <3>3, Zenon
    <3> QED  BY <3>1, <3>4, Zenon
  <2> HIDE DEF T
  <2>3. 0 .. n \subseteq T
    BY <1>1, <2>1, <2>2, InductionUpTo
  <2> QED  BY <2>3 DEF T
<1> DEFINE f == [k \in 0 .. n |-> h[k]]
<1>9. Eq(f)
  <2>1. ASSUME NEW k \in 0 .. n
        PROVE  f[k] = IF k = 0 THEN <<>>
                      ELSE IF wire[k].type = "data" THEN Append(f[k - 1], wire[k].byte) ELSE f[k - 1]
    <3>1. CASE k = 0
      BY <1>3, <3>1
    <3>2. CASE k # 0
      <4>1. k \in 1 .. n /\ k - 1 \in 0 .. n
        BY <1>1, <3>2
      <4>2. h[k - 1] \in Seq(Nat)
        BY <1>4, <4>1
      <4>3. h[k] = IF wire[k].type = "data" THEN Append(h[k - 1], wire[k].byte) ELSE h[k - 1]
        BY <1>2, <1>3, <4>1, <4>2
      <4>4. f[k] = h[k] /\ f[k - 1] = h[k - 1]
        BY <4>1
      <4> HIDE DEF f
      <4> QED  BY <3>2, <4>3, <4>4
    <3> QED  BY <3>1, <3>2
  <2> QED  BY <2>1
<1> HIDE DEF f
<1>5. PICK g : Eq(g) /\ DataOf(wire) = g[n]
  <2> DEFINE c == CHOOSE e : Eq(e)
  <2>1. Eq(c)
    BY <1>9
  <2>2. DataOf(wire) = c[n]
    BY DEF DataOf
  <2> HIDE DEF c, Eq
  <2> QED  BY <2>1, <2>2
<1>6. ASSUME NEW k \in 0 .. n
      PROVE  g[k] = IF k = 0 THEN <<>>
                    ELSE IF wire[k].type = "data" THEN Append(g[k - 1], wire[k].byte) ELSE g[k - 1]
  <2> DEFINE r == [j \in 0 .. n |->
                     IF j = 0 THEN <<>>
                     ELSE IF wire[j].type = "data" THEN Append(g[j - 1], wire[j].byte) ELSE g[j - 1]]
  <2>1. g = r
    BY <1>5
  <2>2. r[k] = IF k = 0 THEN <<>>
               ELSE IF wire[k].type = "data" THEN Append(g[k - 1], wire[k].byte) ELSE g[k - 1]
    BY Zenon
  <2> HIDE DEF r
  <2> QED  BY <2>1, <2>2, Zenon
<1> HIDE DEF Eq
<1>7. g[0] = <<>>
  BY <1>1, <1>6
<1>8. ASSUME NEW k \in 1 .. n
      PROVE  g[k] = IF wire[k].type = "data" THEN Append(g[k - 1], wire[k].byte) ELSE g[k - 1]
  <2>1. k \in 0 .. n /\ k # 0
    BY <1>1
  <2> QED  BY <1>6, <2>1, Zenon
<1> QED  BY <1>5, <1>7, <1>8

-----------------------------------------------------------------------------
(* One more number. *)
LEMMA FreshAppend ==
  ASSUME NEW a \in Nat, NEW d \in Nat
  PROVE  Append(Fresh(a, d), a + d + 1) = Fresh(a, d + 1)
<1>1. /\ Fresh(a, d) \in Seq(Nat) /\ Len(Fresh(a, d)) = d /\ \A k \in 1 .. d : Fresh(a, d)[k] = a + k
      /\ Fresh(a, d + 1) \in Seq(Nat) /\ Len(Fresh(a, d + 1)) = d + 1
      /\ \A k \in 1 .. d + 1 : Fresh(a, d + 1)[k] = a + k
  <2>1. PICK e \in Nat : e = d + 1
    OBVIOUS
  <2>2. Fresh(a, e) \in Seq(Nat) /\ Len(Fresh(a, e)) = e /\ \A k \in 1 .. e : Fresh(a, e)[k] = a + k
    BY FreshShape
  <2> QED  BY <2>1, <2>2, FreshShape
<1> DEFINE w == Append(Fresh(a, d), a + d + 1)
<1>2. w \in Seq(Nat) /\ Len(w) = d + 1 /\ w[d + 1] = a + d + 1 /\ \A k \in 1 .. d : w[k] = Fresh(a, d)[k]
  <2>1. a + d + 1 \in Nat
    OBVIOUS
  <2> QED  BY <1>1, <2>1, AppendProperties
<1>3. \A k \in 1 .. d + 1 : w[k] = Fresh(a, d + 1)[k]
  <2> TAKE k \in 1 .. d + 1
  <2>1. CASE k = d + 1
    <3> HIDE DEF w
    <3> QED  BY <1>1, <1>2, <2>1
  <2>2. CASE k # d + 1
    <3>1. k \in 1 .. d
      BY <2>2
    <3> HIDE DEF w
    <3> QED  BY <1>1, <1>2, <3>1
  <2> QED  BY <2>1, <2>2
<1> HIDE DEF w
<1> QED  BY <1>1, <1>2, <1>3, SeqEqual DEF w

(* The data bytes of a wire on which they are numbered in order. *)
LEMMA DataOfNumbered ==
  ASSUME NEW wire \in Seq(Byte), NEW c,
         \A k \in 0 .. Len(wire) : c[k] \in Nat,
         \A k \in 1 .. Len(wire) :
           c[k] = IF wire[k].type = "data" THEN c[k - 1] + 1 ELSE c[k - 1],
         \A k \in 1 .. Len(wire) : wire[k].type = "data" => wire[k].byte = c[k]
  PROVE  c[0] <= c[Len(wire)] /\ DataOf(wire) = Fresh(c[0], c[Len(wire)] - c[0])
<1>1. PICK f : /\ f[0] = <<>> /\ DataOf(wire) = f[Len(wire)]
               /\ \A k \in 1 .. Len(wire) :
                    f[k] = IF wire[k].type = "data" THEN Append(f[k - 1], wire[k].byte) ELSE f[k - 1]
  BY DataOfDef
<1> DEFINE n == Len(wire)
           T == {k \in 0 .. n : c[0] <= c[k] /\ f[k] = Fresh(c[0], c[k] - c[0])}
<1>2. n \in Nat
  BY LenProperties
<1>3. 0 \in T
  <2>1. 0 \in 0 .. n /\ c[0] \in Nat
    BY <1>2
  <2>2. c[0] <= c[0] /\ c[0] - c[0] = 0
    BY <2>1
  <2>3. Fresh(c[0], 0) = <<>>
    <3>1. PICK a \in Nat : a = c[0]
      BY <2>1
    <3>2. Fresh(a, 0) \in Seq(Nat) /\ Len(Fresh(a, 0)) = 0
      BY FreshShape
    <3>3. Fresh(a, 0) = <<>>
      BY <3>2, EmptySeq
    <3> QED  BY <3>1, <3>3
  <2> QED  BY <1>1, <2>1, <2>2, <2>3
<1>4. ASSUME NEW k \in 1 .. n, k - 1 \in T PROVE k \in T
  <2>1. k \in 0 .. n /\ k - 1 \in 0 .. n /\ 0 \in 0 .. n
    BY <1>2
  <2>2. c[k] \in Nat /\ c[k - 1] \in Nat /\ c[0] \in Nat
    BY <2>1
  <2>3. c[0] <= c[k - 1] /\ f[k - 1] = Fresh(c[0], c[k - 1] - c[0])
    BY <1>4
  <2>4. CASE wire[k].type = "data"
    <3>1. c[k] = c[k - 1] + 1 /\ f[k] = Append(f[k - 1], c[k])
      BY <1>1, <2>4
    <3>2. PICK d \in Nat : d = c[k - 1] - c[0]
      BY <2>2, <2>3
    <3>3. c[k] = c[0] + d + 1 /\ c[k] - c[0] = d + 1 /\ c[0] <= c[k]
      <4>1. \A x \in Nat, y \in Nat, z \in Nat :
              x = y + 1 /\ d = y - z => x = z + d + 1 /\ x - z = d + 1 /\ z <= x
        OBVIOUS
      <4> QED BY <2>2, <3>1, <3>2, <4>1, Zenon
    <3>4. PICK a \in Nat : a = c[0]
      BY <2>2
    <3>5. Append(Fresh(a, d), a + d + 1) = Fresh(a, d + 1)
      BY FreshAppend
    <3>6. f[k] = Fresh(c[0], c[k] - c[0])
      BY <2>3, <3>1, <3>2, <3>3, <3>4, <3>5, Zenon
    <3> QED  BY <2>1, <3>3, <3>6
  <2>5. CASE wire[k].type # "data"
    <3>1. c[k] = c[k - 1] /\ f[k] = f[k - 1]
      BY <1>1, <2>5
    <3> QED  BY <2>1, <2>3, <3>1
  <2> QED  BY <2>4, <2>5
<1> HIDE DEF T
<1>5. 0 .. n \subseteq T
  BY <1>2, <1>3, <1>4, InductionUpTo
<1>6. n \in T
  BY <1>2, <1>5
<1> QED  BY <1>1, <1>6 DEF T

(* A parser of S that counts the data bytes it takes, and takes each where it
   belongs, takes them in order. *)
LEMMA ReadsNumbered ==
  ASSUME NEW R, NEW S, NEW wire \in Seq(Byte), NEW s \in S, NEW t, Reads(R, wire, s, t),
         \A u \in S : u.count \in Nat,
         \A u, b, v : <<u, b, v>> \in R =>
           /\ u \in S /\ v \in S
           /\ v.count = IF b.type = "data" THEN u.count + 1 ELSE u.count
           /\ b.type = "data" => b.byte = v.count
  PROVE  /\ t \in S /\ s.count <= t.count
         /\ DataOf(wire) = Fresh(s.count, t.count - s.count)
<1>1. PICK p : /\ p[0] = s /\ p[Len(wire)] = t
               /\ \A k \in 1 .. Len(wire) : <<p[k - 1], wire[k], p[k]>> \in R
  BY DEF Reads
<1>2. Len(wire) \in Nat
  BY LenProperties
<1>3. ASSUME NEW k \in 1 .. Len(wire)
      PROVE  /\ p[k - 1] \in S /\ p[k] \in S
             /\ p[k].count = IF wire[k].type = "data" THEN p[k - 1].count + 1 ELSE p[k - 1].count
             /\ wire[k].type = "data" => wire[k].byte = p[k].count
  <2>1. PICK u : u = p[k - 1]
    OBVIOUS
  <2>2. PICK v : v = p[k]
    OBVIOUS
  <2>3. PICK b : b = wire[k]
    OBVIOUS
  <2>4. <<u, b, v>> \in R
    BY <1>1, <2>1, <2>2, <2>3
  <2>5. /\ u \in S /\ v \in S
        /\ v.count = IF b.type = "data" THEN u.count + 1 ELSE u.count
        /\ b.type = "data" => b.byte = v.count
    BY <2>4
  <2> QED  BY <2>1, <2>2, <2>3, <2>5
<1>4. ASSUME NEW k \in 0 .. Len(wire) PROVE p[k] \in S
  <2>1. CASE k = 0
    BY <1>1, <2>1
  <2>2. CASE k # 0
    <3>1. k \in 1 .. Len(wire)
      BY <1>2, <2>2
    <3> QED  BY <1>3, <3>1
  <2> QED  BY <2>1, <2>2
<1> DEFINE cc == [k \in 0 .. Len(wire) |-> p[k].count]
<1>5. \A k \in 0 .. Len(wire) : cc[k] = p[k].count /\ cc[k] \in Nat
  BY <1>4
<1>6. PICK c : c = cc
  OBVIOUS
<1> HIDE DEF cc
<1>7. \A k \in 0 .. Len(wire) : c[k] \in Nat
  BY <1>5, <1>6
<1>8. ASSUME NEW k \in 1 .. Len(wire)
      PROVE  /\ c[k] = IF wire[k].type = "data" THEN c[k - 1] + 1 ELSE c[k - 1]
             /\ wire[k].type = "data" => wire[k].byte = c[k]
  <2>1. k \in 0 .. Len(wire) /\ k - 1 \in 0 .. Len(wire)
    BY <1>2
  <2>2. c[k] = p[k].count /\ c[k - 1] = p[k - 1].count
    BY <1>5, <1>6, <2>1
  <2> QED  BY <1>3, <2>2
<1>9. c[0] <= c[Len(wire)] /\ DataOf(wire) = Fresh(c[0], c[Len(wire)] - c[0])
  BY <1>7, <1>8, DataOfNumbered
<1>10. c[0] = s.count /\ c[Len(wire)] = t.count /\ t \in S
  <2>1. 0 \in 0 .. Len(wire) /\ Len(wire) \in 0 .. Len(wire)
    BY <1>2
  <2> QED  BY <1>1, <1>4, <1>5, <1>6, <2>1
<1> QED  BY <1>9, <1>10

(* What the remote side has still to take is numbered from its count on. *)
LEMMA OutData ==
  ASSUME Small, NEW m \in BOOLEAN, NEW wire \in Seq(Byte), NEW s \in OutState, NEW t,
         Reads(OutSteps(m), wire, s, t)
  PROVE  /\ t \in OutState /\ s.count <= t.count
         /\ DataOf(wire) = Fresh(s.count, t.count - s.count)
<1>1. \A u \in OutState : u.count \in Nat
  BY DEF OutState
<1>2. ASSUME NEW u, NEW b, NEW v, <<u, b, v>> \in OutSteps(m)
      PROVE  /\ u \in OutState /\ v \in OutState
             /\ v.count = IF b.type = "data" THEN u.count + 1 ELSE u.count
             /\ b.type = "data" => b.byte = v.count
  <2>1. u \in OutState /\ v \in OutState /\ OutStep(m, u, b, v)
    BY <1>2 DEF OutSteps
  <2> QED  BY <2>1 DEF OutStep, OutState, At
<1>3. PICK S : S = OutState
  OBVIOUS
<1>4. PICK R : R = OutSteps(m)
  OBVIOUS
<1>5. t \in S /\ s.count <= t.count /\ DataOf(wire) = Fresh(s.count, t.count - s.count)
  <2>1. s \in S /\ Reads(R, wire, s, t) /\ \A u \in S : u.count \in Nat
    BY <1>1, <1>3, <1>4
  <2>2. \A u, b, v : <<u, b, v>> \in R =>
          /\ u \in S /\ v \in S
          /\ v.count = IF b.type = "data" THEN u.count + 1 ELSE u.count
          /\ b.type = "data" => b.byte = v.count
    BY <1>2, <1>3, <1>4
  <2> QED  BY <2>1, <2>2, ReadsNumbered
<1> QED  BY <1>3, <1>5

(* Numbers and those after them. *)
LEMMA FreshConcat ==
  ASSUME NEW a \in Nat, NEW b \in Nat, NEW c \in Nat, a <= b, b <= c
  PROVE  Fresh(a, b - a) \o Fresh(b, c - b) = Fresh(a, c - a)
<1>1. PICK d \in Nat : d = b - a
  OBVIOUS
<1>2. PICK e \in Nat : e = c - b
  OBVIOUS
<1>3. PICK g \in Nat : g = c - a
  OBVIOUS
<1>4. g = d + e /\ b = a + d
  BY <1>1, <1>2, <1>3
<1> DEFINE v == Fresh(a, d)
           w == Fresh(b, e)
           u == Fresh(a, g)
<1>5. v \in Seq(Nat) /\ Len(v) = d /\ \A k \in 1 .. d : v[k] = a + k
  BY FreshShape
<1>6. w \in Seq(Nat) /\ Len(w) = e /\ \A k \in 1 .. e : w[k] = b + k
  BY FreshShape
<1>7. u \in Seq(Nat) /\ Len(u) = g /\ \A k \in 1 .. g : u[k] = a + k
  BY FreshShape
<1> HIDE DEF v, w, u
<1>8. /\ v \o w \in Seq(Nat) /\ Len(v \o w) = Len(v) + Len(w)
      /\ \A k \in 1 .. Len(v) + Len(w) : (v \o w)[k] = IF k <= Len(v) THEN v[k] ELSE w[k - Len(v)]
  BY <1>5, <1>6, ConcatProperties
<1>9. ASSUME NEW k \in 1 .. g PROVE (v \o w)[k] = u[k]
  <2>1. k \in 1 .. Len(v) + Len(w)
    BY <1>4, <1>5, <1>6
  <2>2. CASE k <= d
    <3>1. k \in 1 .. d
      BY <2>2
    <3> QED  BY <1>5, <1>7, <1>8, <2>1, <2>2, <3>1
  <2>3. CASE ~(k <= d)
    <3>1. k - d \in 1 .. e /\ b + (k - d) = a + k
      BY <1>4, <2>3
    <3>2. w[k - d] = b + (k - d)
      BY <1>6, <3>1
    <3> QED  BY <1>5, <1>7, <1>8, <2>1, <2>3, <3>1, <3>2
  <2> QED  BY <2>2, <2>3
<1>10. v \o w = u
  <2>1. Len(v \o w) = g
    BY <1>4, <1>5, <1>6, <1>8
  <2>2. PICK x : x = v \o w
    OBVIOUS
  <2>3. x \in Seq(Nat) /\ u \in Seq(Nat) /\ Len(x) = Len(u)
    BY <1>7, <1>8, <2>1, <2>2, Zenon
  <2>4. \A k \in 1 .. Len(x) : x[k] = u[k]
    BY <1>9, <2>1, <2>2, Zenon
  <2>5. x = u
    BY <2>3, <2>4, SeqEqual
  <2> QED  BY <2>2, <2>5, Zenon
<1> QED  BY <1>1, <1>2, <1>3, <1>10 DEF v, w, u

(* Where the remote side is, as long as no chunk is as long as the write buffer. *)
LEMMA OutOrder ==
  ASSUME Small, OutInv, FlushInv
  PROVE  OutFIFO /\ Len(remoteGot) <= written /\ remoteGot = Fresh(0, Len(remoteGot))
<1>1. PICK c \in Nat : /\ Reads(OutSteps(multiplexed), outPipe \o pending, RemoteAt, Flushed(c))
                       /\ Buffered(c)
  BY DEF OutInv
<1>2. /\ outPipe \in Seq(Byte) /\ pending \in Seq(Byte) /\ remoteGot \in Seq(Nat)
      /\ RemoteAt \in OutState /\ RemoteAt.count = Len(remoteGot) /\ Len(remoteGot) \in Nat
      /\ \A k \in 1 .. Len(remoteGot) : remoteGot[k] = k
  <2>1. Len(remoteGot) \in Nat
    BY LenProperties DEF OutInv, OutType
  <2> QED  BY <2>1 DEF OutInv, OutType, RemoteAt, At, OutState
<1>3. multiplexed \in BOOLEAN /\ writeBuffer \in Seq(Nat) /\ flushStart \in Nat /\ written \in Nat
      /\ flagLength \in Nat /\ Len(writeBuffer) \in Nat
  BY StreamAssumption, LenProperties DEF FlushInv, FlushType, flagLength
<1>4. PICK t : Reads(OutSteps(multiplexed), outPipe, RemoteAt, t)
               /\ Reads(OutSteps(multiplexed), pending, t, Flushed(c))
  BY <1>1, <1>2, ReadsSplit
<1>5. /\ t \in OutState /\ RemoteAt.count <= t.count
      /\ DataOf(outPipe) = Fresh(RemoteAt.count, t.count - RemoteAt.count)
  <2>1. PICK m \in BOOLEAN : m = multiplexed
    BY <1>3
  <2> QED  BY <1>2, <1>4, <2>1, OutData
<1>6. /\ Flushed(c) \in OutState /\ t.count <= Flushed(c).count
      /\ DataOf(pending) = Fresh(t.count, Flushed(c).count - t.count)
  BY <1>2, <1>3, <1>4, <1>5, OutData
<1>7. Flushed(c).count <= written /\ Unflushed = Fresh(Flushed(c).count, written - Flushed(c).count)
  <2>1. PICK d \in Nat : d = IF flushStart > flagLength THEN flushStart - flagLength ELSE 0
    <3>1. (IF flushStart > flagLength THEN flushStart - flagLength ELSE 0) \in Nat
      BY <1>3
    <3> QED  BY <3>1
  <2>2. d <= Len(writeBuffer)
    BY <1>3, <2>1 DEF FlushInv
  <2>3. Flushed(c).count = c + d
    BY <1>3, <2>1 DEF Flushed, At
  <2>4. c + Len(writeBuffer) = written /\ \A k \in 1 .. Len(writeBuffer) : writeBuffer[k] = c + k
    BY <1>1 DEF Buffered
  <2>5. PICK L \in Nat : L = Len(writeBuffer)
    BY <1>3
  <2>6. \A k \in d + 1 .. L : writeBuffer[k] \in Nat
    BY <2>4, <2>5
  <2>7. /\ SubSeq(writeBuffer, d + 1, L) \in Seq(Nat)
        /\ Len(SubSeq(writeBuffer, d + 1, L)) = IF d + 1 <= L THEN L - (d + 1) + 1 ELSE 0
        /\ \A k \in 1 .. L - (d + 1) + 1 : SubSeq(writeBuffer, d + 1, L)[k] = writeBuffer[d + 1 + k - 1]
    BY <2>6, SubSeqProperties
  <2>8. PICK e \in Nat : e = L - d
    <3>1. d <= L
      BY <2>2, <2>5
    <3>2. L - d \in Nat
      BY <3>1
    <3> QED  BY <3>2
  <2>9. PICK a \in Nat : a = c + d
    OBVIOUS
  <2>10. Len(SubSeq(writeBuffer, d + 1, L)) = e
    BY <2>2, <2>5, <2>7, <2>8
  <2>11. Fresh(a, e) \in Seq(Nat) /\ Len(Fresh(a, e)) = e /\ \A k \in 1 .. e : Fresh(a, e)[k] = a + k
    BY FreshShape
  <2>12. ASSUME NEW k \in 1 .. e PROVE SubSeq(writeBuffer, d + 1, L)[k] = Fresh(a, e)[k]
    <3>1. /\ k \in 1 .. L - (d + 1) + 1 /\ d + 1 + k - 1 = d + k /\ d + k \in 1 .. L
          /\ c + (d + k) = a + k
      BY <2>8, <2>9
    <3>2. SubSeq(writeBuffer, d + 1, L)[k] = writeBuffer[d + k]
      BY <2>7, <3>1
    <3>3. writeBuffer[d + k] = c + (d + k)
      BY <2>4, <2>5, <3>1
    <3> QED  BY <2>11, <3>1, <3>2, <3>3
  <2>13. SubSeq(writeBuffer, d + 1, L) = Fresh(a, e)
    BY <2>7, <2>10, <2>11, <2>12, SeqEqual
  <2>14. written - a = e /\ a <= written
    BY <2>2, <2>4, <2>5, <2>8, <2>9
  <2>15. Unflushed = SubSeq(writeBuffer, d + 1, L)
    BY <2>1, <2>5 DEF Unflushed, Drop
  <2> QED  BY <2>3, <2>9, <2>13, <2>14, <2>15
<1>8. remoteGot = Fresh(0, Len(remoteGot))
  <2>1. PICK n \in Nat : n = Len(remoteGot)
    BY <1>2
  <2>2. Fresh(0, n) \in Seq(Nat) /\ Len(Fresh(0, n)) = n /\ \A k \in 1 .. n : Fresh(0, n)[k] = 0 + k
    BY FreshShape
  <2>3. \A k \in 1 .. n : Fresh(0, n)[k] = remoteGot[k]
    BY <1>2, <2>1, <2>2
  <2> QED  BY <1>2, <2>1, <2>2, <2>3, SeqEqual
<1>9. PICK g \in Nat : g = Len(remoteGot)
  BY <1>2
<1>10. PICK h \in Nat : h = t.count
  BY <1>5 DEF OutState
<1>11. PICK i \in Nat : i = Flushed(c).count
  BY <1>6 DEF OutState
<1>12. PICK j \in Nat : j = written
  BY <1>3
<1>13. 0 <= g /\ g <= h /\ h <= i /\ i <= j /\ 0 <= h /\ 0 <= i /\ g - 0 = g /\ h - 0 = h /\ i - 0 = i /\ j - 0 = j
  BY <1>2, <1>5, <1>6, <1>7, <1>9, <1>10, <1>11, <1>12
<1>14. /\ Fresh(0, g - 0) \o Fresh(g, h - g) = Fresh(0, h - 0)
       /\ Fresh(0, h - 0) \o Fresh(h, i - h) = Fresh(0, i - 0)
       /\ Fresh(0, i - 0) \o Fresh(i, j - i) = Fresh(0, j - 0)
  BY <1>13, FreshConcat
<1>15. ((remoteGot \o DataOf(outPipe)) \o DataOf(pending)) \o Unflushed = Fresh(0, written)
  <2>1. remoteGot = Fresh(0, g - 0) /\ Fresh(0, written) = Fresh(0, j - 0)
    BY <1>8, <1>9, <1>12, <1>13
  <2>2. /\ DataOf(outPipe) = Fresh(g, h - g) /\ DataOf(pending) = Fresh(h, i - h)
        /\ Unflushed = Fresh(i, j - i)
    BY <1>2, <1>5, <1>6, <1>7, <1>9, <1>10, <1>11, <1>12
  <2> QED  BY <1>14, <2>1, <2>2, Zenon
<1>16. Len(remoteGot) <= written
  BY <1>9, <1>12, <1>13
<1> QED  BY <1>8, <1>15, <1>16 DEF OutFIFO

(* No byte passed to write() is lost, repeated or reordered, as long as no
   chunk is as long as the write buffer. *)
THEOREM WrittenBytesInOrder == ASSUME Small PROVE Spec => []OutFIFO
<1>1. ASSUME OutInv, FlushInv PROVE OutFIFO
  BY <1>1, OutOrder
<1> QED  BY <1>1, OutIsInvariant, FlushIsInvariant, PTL

(* write() and the remote side are the two ends of a byte channel, as long as
   no chunk is as long as the write buffer. *)
THEOREM OutboundIsChannel == ASSUME Small PROVE Spec => OutboundChannel
<1>1. Init => Outbound!Init
  BY DEF Init, Outbound!Init
<1> DEFINE Ordered == /\ remoteGot \in Seq(Nat) /\ written \in Nat
                      /\ Len(remoteGot) <= written /\ remoteGot = [k \in 1 .. Len(remoteGot) |-> k]
<1>2. ASSUME OutInv, FlushInv PROVE Ordered
  <2>1. Len(remoteGot) <= written /\ remoteGot = Fresh(0, Len(remoteGot))
    BY <1>2, OutOrder
  <2>2. remoteGot \in Seq(Nat) /\ written \in Nat /\ Len(remoteGot) \in Nat
    BY <1>2, LenProperties DEF OutInv, OutType, FlushInv, FlushType
  <2>3. PICK n \in Nat : n = Len(remoteGot)
    BY <2>2
  <2>4. Fresh(0, n) = [k \in 1 .. n |-> k]
    BY DEF Fresh
  <2> QED  BY <2>1, <2>2, <2>3, <2>4
<1>3. ASSUME Ordered, Ordered', [Next]_vars PROVE [Outbound!Next]_(Outbound!vars)
  <2>1. CASE Write
    <3>1. remoteGot' = remoteGot /\ (written' = written \/ \E size \in WriteSizes : written' = written + size)
      BY <2>1 DEF Write, parser
    <3>2. written' = written \/ written' > written
      BY <1>3, <3>1, StreamAssumption
    <3> QED  BY <1>3, <3>1, <3>2 DEF Outbound!Next, Outbound!vars, Outbound!Accept
  <2>2. CASE RemoteRead
    <3>1. written' = written /\ (remoteGot' = remoteGot \/ remoteGot' = Append(remoteGot, Head(outPipe).byte))
      BY <2>2 DEF RemoteRead
    <3>2. CASE remoteGot' = remoteGot
      BY <3>1, <3>2 DEF Outbound!vars
    <3>3. CASE remoteGot' = Append(remoteGot, Head(outPipe).byte)
      <4>1. Len(remoteGot') = Len(remoteGot) + 1 /\ Len(remoteGot) \in Nat
        BY <1>3, <3>3, LenProperties
      <4>2. Len(remoteGot') > Len(remoteGot)
        BY <4>1
      <4> QED  BY <1>3, <3>1, <4>2 DEF Outbound!Next, Outbound!Deliver
    <3> QED  BY <3>1, <3>2, <3>3
  <2>3. CASE ~Write /\ ~RemoteRead
    <3>1. UNCHANGED <<written, remoteGot>>
      BY <1>3, <2>3 DEF Next, Client, Thread, Remote, Flush, DisableAutomaticFlush, TryFlushWriteBuffer,
           Read, IsDataAvailable, WriteAll, WriteAllBlocked, Poll, ReadMessage, ReadChunk,
           RemoteSend, RemoteWrite, vars, writing, parser
    <3> QED  BY <3>1 DEF Outbound!vars
  <2> QED  BY <2>1, <2>2, <2>3
<1>4. ASSUME OutInv, FlushInv, OutInv', FlushInv', [Next]_vars PROVE [Outbound!Next]_(Outbound!vars)
  <2>1. Ordered
    BY <1>2, <1>4
  <2>2. OutInv' /\ FlushInv' => Ordered'
    BY <1>2, PTL
  <2> HIDE DEF Ordered
  <2> QED  BY <1>3, <1>4, <2>1, <2>2
<1> HIDE DEF Ordered
<1> QED  BY <1>1, <1>4, OutIsInvariant, FlushIsInvariant, PTL DEF Spec, OutboundChannel, Outbound!Spec

-----------------------------------------------------------------------------
(* What the client does with a byte: it is in a flag, or `left` bytes of a message
   of the given kind are still to come; `count` bytes of data and `deleted`
   deletions have been taken. *)
InState == [flag : Nat, kind : Kinds \cup {"none"}, left : Nat, count : Nat, deleted : Nat]
InAt(flag, kind, left, count, deleted) ==
  [flag |-> flag, kind |-> IF left = 0 THEN "none" ELSE kind, left |-> left,
   count |-> count, deleted |-> deleted]

One(condition) == IF condition THEN 1 ELSE 0

InStep(s, b, t) ==
  \/ /\ s.left = 0 /\ b.type = "flag" /\ b.at = s.flag + 1 /\ b.at < FlagLength
     /\ t = InAt(b.at, "none", 0, s.count, s.deleted)
  \/ /\ s.left = 0 /\ b.type = "flag" /\ b.at = s.flag + 1 /\ b.at = FlagLength
     /\ t = InAt(0, b.kind, b.length, s.count, s.deleted + One(b.kind = "deleted"))
  \/ /\ s.left > 0 /\ s.kind = "data" /\ b.type = "data" /\ b.byte = s.count + 1
     /\ t = InAt(s.flag, s.kind, s.left - 1, s.count + 1, s.deleted)
  \/ /\ s.left > 0 /\ s.kind # "data" /\ b.type = "text"
     /\ t = InAt(s.flag, s.kind, s.left - 1, s.count, s.deleted)

InSteps == {x \in InState \X Byte \X InState : InStep(x[1], x[2], x[3])}

(* The parts of a step. *)
LEMMA InStepsShape ==
  ASSUME NEW s, NEW b, NEW t, <<s, b, t>> \in InSteps
  PROVE  s \in InState /\ b \in Byte /\ t \in InState /\ InStep(s, b, t)
BY DEF InSteps

(* A data byte is the one after those counted, and it is counted. *)
LEMMA InNumbers ==
  ASSUME NEW s, NEW b, NEW t, <<s, b, t>> \in InSteps
  PROVE  /\ s \in InState /\ t \in InState
         /\ t.count = IF b.type = "data" THEN s.count + 1 ELSE s.count
         /\ b.type = "data" => b.byte = t.count
<1>1. s \in InState /\ t \in InState /\ InStep(s, b, t)
  BY InStepsShape
<1>2. CASE /\ s.left = 0 /\ b.type = "flag" /\ b.at = s.flag + 1 /\ b.at < FlagLength
           /\ t = InAt(b.at, "none", 0, s.count, s.deleted)
  BY <1>1, <1>2 DEF InAt
<1>3. CASE /\ s.left = 0 /\ b.type = "flag" /\ b.at = s.flag + 1 /\ b.at = FlagLength
           /\ t = InAt(0, b.kind, b.length, s.count, s.deleted + One(b.kind = "deleted"))
  BY <1>1, <1>3 DEF InAt
<1>4. CASE /\ s.left > 0 /\ s.kind = "data" /\ b.type = "data" /\ b.byte = s.count + 1
           /\ t = InAt(s.flag, s.kind, s.left - 1, s.count + 1, s.deleted)
  BY <1>1, <1>4 DEF InAt
<1>5. CASE /\ s.left > 0 /\ s.kind # "data" /\ b.type = "text"
           /\ t = InAt(s.flag, s.kind, s.left - 1, s.count, s.deleted)
  BY <1>1, <1>5 DEF InAt
<1> QED  BY <1>1, <1>2, <1>3, <1>4, <1>5 DEF InStep

(* What the client has still to take is numbered from its count on. *)
LEMMA InData ==
  ASSUME NEW wire \in Seq(Byte), NEW s \in InState, NEW t, Reads(InSteps, wire, s, t)
  PROVE  /\ t \in InState /\ s.count <= t.count
         /\ DataOf(wire) = Fresh(s.count, t.count - s.count)
<1>1. \A u \in InState : u.count \in Nat
  BY DEF InState
<1>2. ASSUME NEW u, NEW b, NEW v, <<u, b, v>> \in InSteps
      PROVE  /\ u \in InState /\ v \in InState
             /\ v.count = IF b.type = "data" THEN u.count + 1 ELSE u.count
             /\ b.type = "data" => b.byte = v.count
  BY <1>2, InNumbers
<1>3. PICK S : S = InState
  OBVIOUS
<1>4. PICK R : R = InSteps
  OBVIOUS
<1>5. t \in S /\ s.count <= t.count /\ DataOf(wire) = Fresh(s.count, t.count - s.count)
  <2>1. s \in S /\ Reads(R, wire, s, t) /\ \A u \in S : u.count \in Nat
    BY <1>1, <1>3, <1>4
  <2>2. \A u, b, v : <<u, b, v>> \in R =>
          /\ u \in S /\ v \in S
          /\ v.count = IF b.type = "data" THEN u.count + 1 ELSE u.count
          /\ b.type = "data" => b.byte = v.count
    BY <1>2, <1>3, <1>4
  <2> QED  BY <2>1, <2>2, ReadsNumbered
<1> QED  BY <1>3, <1>5

-----------------------------------------------------------------------------
(* A run of bytes of a flag, not to its end or to its end. *)
LEMMA InFlagRun ==
  ASSUME NEW v \in Seq(Byte), NEW s \in InState, NEW t, Reads(InSteps, v, s, t),
         s.left = 0, s.kind = "none", Len(v) # 0, s.flag + Len(v) <= FlagLength
  PROVE  /\ t \in InState /\ v[Len(v)] \in FlagByte
         /\ t = IF s.flag + Len(v) < FlagLength
                  THEN InAt(s.flag + Len(v), "none", 0, s.count, s.deleted)
                  ELSE InAt(0, v[Len(v)].kind, v[Len(v)].length, s.count,
                            s.deleted + One(v[Len(v)].kind = "deleted"))
<1>1. PICK p : /\ p[0] = s /\ p[Len(v)] = t
               /\ \A k \in 1 .. Len(v) : <<p[k - 1], v[k], p[k]>> \in InSteps
  BY DEF Reads
<1>2. PICK n \in Nat : n = Len(v)
  BY LenProperties
<1>3. FlagLength \in Nat /\ n # 0 /\ s.flag + n <= FlagLength
      /\ s.flag \in Nat /\ s.count \in Nat /\ s.deleted \in Nat
  BY <1>2, StreamAssumption DEF InState
<1>4. s = InAt(s.flag, "none", 0, s.count, s.deleted)
  BY DEF InState, InAt
<1> DEFINE T == {k \in 0 .. n : k < n => p[k] = InAt(s.flag + k, "none", 0, s.count, s.deleted)}
<1>5. ASSUME NEW k \in 1 .. n, p[k - 1] = InAt(s.flag + (k - 1), "none", 0, s.count, s.deleted)
      PROVE  /\ p[k] \in InState /\ v[k] \in FlagByte
             /\ p[k] = IF s.flag + k < FlagLength
                         THEN InAt(s.flag + k, "none", 0, s.count, s.deleted)
                         ELSE InAt(0, v[k].kind, v[k].length, s.count,
                                   s.deleted + One(v[k].kind = "deleted"))
  <2>1. p[k - 1] \in InState /\ v[k] \in Byte /\ p[k] \in InState /\ InStep(p[k - 1], v[k], p[k])
    BY <1>1, <1>2, InStepsShape
  <2>2. PICK u : u = p[k - 1]
    OBVIOUS
  <2>3. u.left = 0 /\ u.flag = s.flag + (k - 1) /\ u.count = s.count /\ u.deleted = s.deleted
    BY <1>5, <2>2 DEF InAt
  <2>4. s.flag + (k - 1) + 1 = s.flag + k /\ s.flag + k \in Nat
    BY <1>3
  <2>5. \/ /\ v[k].type = "flag" /\ v[k].at = s.flag + k /\ v[k].at < FlagLength
           /\ p[k] = InAt(v[k].at, "none", 0, s.count, s.deleted)
        \/ /\ v[k].type = "flag" /\ v[k].at = s.flag + k /\ v[k].at = FlagLength
           /\ p[k] = InAt(0, v[k].kind, v[k].length, s.count, s.deleted + One(v[k].kind = "deleted"))
    BY <2>1, <2>2, <2>3, <2>4 DEF InStep
  <2>6. v[k] \in FlagByte
    BY <2>1, <2>5 DEF Byte, FlagByte, DataByte, TextByte
  <2>7. p[k] = IF s.flag + k < FlagLength
                 THEN InAt(s.flag + k, "none", 0, s.count, s.deleted)
                 ELSE InAt(0, v[k].kind, v[k].length, s.count,
                           s.deleted + One(v[k].kind = "deleted"))
    <3>1. CASE v[k].at < FlagLength
      BY <1>3, <2>4, <2>5, <3>1
    <3>2. CASE v[k].at = FlagLength
      BY <1>3, <2>4, <2>5, <3>2
    <3> QED  BY <2>5, <3>1, <3>2
  <2> QED  BY <2>1, <2>6, <2>7
<1>6. 0 \in T
  <2>1. s.flag + 0 = s.flag
    BY <1>3
  <2> QED  BY <1>1, <1>4, <2>1
<1>7. ASSUME NEW k \in 1 .. n, k - 1 \in T PROVE k \in T
  <2>1. k - 1 < n /\ k \in 0 .. n
    OBVIOUS
  <2>2. p[k - 1] = InAt(s.flag + (k - 1), "none", 0, s.count, s.deleted)
    BY <1>7, <2>1
  <2>3. ASSUME k < n PROVE s.flag + k < FlagLength
    BY <1>3, <2>3
  <2>4. k < n => p[k] = InAt(s.flag + k, "none", 0, s.count, s.deleted)
    BY <1>5, <2>2, <2>3
  <2> QED  BY <2>1, <2>4
<1> HIDE DEF T
<1>8. 0 .. n \subseteq T
  BY <1>6, <1>7, InductionUpTo
<1>9. n - 1 \in 0 .. n /\ n - 1 < n /\ n \in 1 .. n
  BY <1>3
<1>10. p[n - 1] = InAt(s.flag + (n - 1), "none", 0, s.count, s.deleted)
  <2>1. n - 1 \in T
    BY <1>8, <1>9
  <2> QED  BY <1>9, <2>1 DEF T
<1>11. /\ p[n] \in InState /\ v[n] \in FlagByte
       /\ p[n] = IF s.flag + n < FlagLength
                   THEN InAt(s.flag + n, "none", 0, s.count, s.deleted)
                   ELSE InAt(0, v[n].kind, v[n].length, s.count,
                             s.deleted + One(v[n].kind = "deleted"))
  BY <1>5, <1>9, <1>10
<1> QED  BY <1>1, <1>2, <1>11

(* A run of bytes of a message. *)
LEMMA InMessageRun ==
  ASSUME NEW v \in Seq(Byte), NEW s \in InState, NEW t, Reads(InSteps, v, s, t),
         Len(v) <= s.left, s.flag = 0, s.left # 0, s.kind # "none"
  PROVE  /\ t \in InState
         /\ t = InAt(0, s.kind, s.left - Len(v),
                     s.count + (IF s.kind = "data" THEN Len(v) ELSE 0), s.deleted)
<1>1. PICK p : /\ p[0] = s /\ p[Len(v)] = t
               /\ \A k \in 1 .. Len(v) : <<p[k - 1], v[k], p[k]>> \in InSteps
  BY DEF Reads
<1>2. PICK n \in Nat : n = Len(v)
  BY LenProperties
<1>3. n <= s.left /\ s.left \in Nat /\ s.flag = 0 /\ s.count \in Nat /\ s.deleted \in Nat
  BY <1>2 DEF InState
<1> DEFINE C(k) == s.count + (IF s.kind = "data" THEN k ELSE 0)
           T == {k \in 0 .. n : p[k] \in InState /\ p[k] = InAt(0, s.kind, s.left - k, C(k), s.deleted)}
<1>4. 0 \in T
  <2>1. s.left - 0 = s.left /\ C(0) = s.count
    BY <1>3
  <2>2. s = InAt(0, s.kind, s.left, s.count, s.deleted)
    BY DEF InState, InAt
  <2> QED  BY <1>1, <2>1, <2>2
<1>5. ASSUME NEW k \in 1 .. n, k - 1 \in T PROVE k \in T
  <2>1. p[k - 1] \in InState /\ v[k] \in Byte /\ p[k] \in InState /\ InStep(p[k - 1], v[k], p[k])
    BY <1>1, <1>2, InStepsShape
  <2>2. PICK u : u = p[k - 1]
    OBVIOUS
  <2>3. k \in 0 .. n /\ s.left - (k - 1) # 0 /\ (s.left - (k - 1)) - 1 = s.left - k
    BY <1>3
  <2>4. /\ u.left = s.left - (k - 1) /\ u.flag = 0 /\ u.kind = s.kind /\ u.count = C(k - 1)
        /\ u.deleted = s.deleted
    <3>1. u = InAt(0, s.kind, s.left - (k - 1), C(k - 1), s.deleted)
      BY <1>5, <2>2
    <3> HIDE DEF C
    <3> QED  BY <2>3, <3>1 DEF InAt
  <2>5. C(k) = IF s.kind = "data" THEN C(k - 1) + 1 ELSE C(k - 1)
    BY <1>3
  <2>6. p[k] = InAt(0, s.kind, s.left - k, C(k), s.deleted)
    <3> HIDE DEF C
    <3> QED  BY <2>1, <2>2, <2>3, <2>4, <2>5 DEF InStep
  <2> QED  BY <2>1, <2>3, <2>6
<1> HIDE DEF T
<1>6. 0 .. n \subseteq T
  BY <1>4, <1>5, InductionUpTo
<1>7. n \in T
  BY <1>6
<1> QED  BY <1>1, <1>2, <1>7 DEF T

-----------------------------------------------------------------------------
(* Between two messages. *)
Between(count, deleted) == InAt(0, "none", 0, count, deleted)

(* The fields of a state between two bytes. *)
LEMMA InAtShape ==
  ASSUME NEW flag \in Nat, NEW kind \in Kinds \cup {"none"}, NEW left \in Nat,
         NEW count \in Nat, NEW deleted \in Nat
  PROVE  /\ InAt(flag, kind, left, count, deleted) \in InState
         /\ InAt(flag, kind, left, count, deleted).flag = flag
         /\ InAt(flag, kind, left, count, deleted).kind = IF left = 0 THEN "none" ELSE kind
         /\ InAt(flag, kind, left, count, deleted).left = left
         /\ InAt(flag, kind, left, count, deleted).count = count
         /\ InAt(flag, kind, left, count, deleted).deleted = deleted
BY DEF InAt, InState, Kinds

(* A flag is read from between two messages into its message. *)
LEMMA ReadsFlag ==
  ASSUME NEW kind \in Kinds, NEW length \in Nat, NEW count \in Nat, NEW deleted \in Nat
  PROVE  Reads(InSteps, Flag(kind, length), Between(count, deleted),
               InAt(0, kind, length, count, deleted + One(kind = "deleted")))
<1> DEFINE n == FlagLength
           end == InAt(0, kind, length, count, deleted + One(kind = "deleted"))
           p == [k \in 0 .. n |-> IF k < n THEN InAt(k, "none", 0, count, deleted) ELSE end]
           w == Flag(kind, length)
<1>1. n \in Nat \ {0}
  BY StreamAssumption
<1>2. /\ w \in Seq(Byte) /\ Len(w) = n
      /\ \A k \in 1 .. n : w[k] = [type |-> "flag", kind |-> kind, length |-> length, at |-> k]
  BY FlagShape
<1>3. p[0] = Between(count, deleted) /\ p[n] = end
  <2>1. 0 \in 0 .. n /\ 0 < n /\ n \in 0 .. n /\ ~(n < n)
    BY <1>1
  <2> HIDE DEF end, n
  <2> QED  BY <2>1 DEF Between
<1>4. end \in InState
  <2>1. deleted + One(kind = "deleted") \in Nat
    BY DEF One
  <2> QED  BY <2>1, InAtShape
<1>5. ASSUME NEW k \in 1 .. n PROVE <<p[k - 1], w[k], p[k]>> \in InSteps
  <2>1. k - 1 \in 0 .. n /\ k \in 0 .. n /\ k - 1 < n /\ k - 1 + 1 = k /\ (k < n \/ k = n) /\ k - 1 \in Nat /\ k \in Nat
    BY <1>1
  <2>2. p[k - 1] = InAt(k - 1, "none", 0, count, deleted)
    <3> HIDE DEF end
    <3> QED  BY <2>1
  <2>3. p[k] = IF k < n THEN InAt(k, "none", 0, count, deleted) ELSE end
    <3> HIDE DEF end
    <3> QED  BY <2>1
  <2>4. PICK b \in Byte : b = w[k]
    BY <1>1, <1>2, ElementOfSeq
  <2>5. b = [type |-> "flag", kind |-> kind, length |-> length, at |-> k]
    BY <1>2, <2>4
  <2>6. b.type = "flag" /\ b.at = k /\ b.kind = kind /\ b.length = length
    BY <2>5
  <2> HIDE DEF p, w, end
  <2>7. /\ p[k - 1] \in InState /\ p[k - 1].left = 0 /\ p[k - 1].flag = k - 1
        /\ p[k - 1].count = count /\ p[k - 1].deleted = deleted
    BY <2>1, <2>2 DEF InAt, InState
  <2>8. p[k] \in InState
    BY <1>4, <2>1, <2>3 DEF InAt, InState
  <2>9. InStep(p[k - 1], b, p[k])
    <3>1. CASE k < n
      BY <2>1, <2>3, <2>6, <2>7, <3>1 DEF InStep
    <3>2. CASE k = n
      <4>1. p[k] = end
        BY <1>1, <2>3, <3>2
      <4> QED  BY <2>1, <2>6, <2>7, <3>2, <4>1 DEF InStep, end
    <3> QED  BY <2>1, <3>1, <3>2
  <2> QED  BY <2>4, <2>7, <2>8, <2>9 DEF InSteps
<1> HIDE DEF p
<1>6. \A k \in 1 .. Len(w) : <<p[k - 1], w[k], p[k]>> \in InSteps
  BY <1>2, <1>5
<1> QED  BY <1>2, <1>3, <1>6 DEF Reads

(* The data or the text of a message. *)
LEMMA ReadsBody ==
  ASSUME NEW kind \in Kinds, NEW length \in Nat, NEW count \in Nat, NEW deleted \in Nat,
         NEW w \in Seq(Byte), Len(w) = length,
         \A k \in 1 .. length :
           IF kind = "data" THEN w[k].type = "data" /\ w[k].byte = count + k ELSE w[k].type = "text"
  PROVE  Reads(InSteps, w, InAt(0, kind, length, count, deleted),
               Between(IF kind = "data" THEN count + length ELSE count, deleted))
<1> DEFINE C(k) == IF kind = "data" THEN count + k ELSE count
           p == [k \in 0 .. length |-> InAt(0, kind, length - k, C(k), deleted)]
<1>1. p[0] = InAt(0, kind, length, count, deleted)
  <2>1. 0 \in 0 .. length /\ length - 0 = length /\ C(0) = count
    OBVIOUS
  <2>2. p[0] = InAt(0, kind, length - 0, C(0), deleted)
    <3> HIDE DEF C
    <3> QED  BY <2>1
  <2> QED  BY <2>1, <2>2
<1>2. p[length] = Between(C(length), deleted)
  <2>1. length \in 0 .. length /\ length - length = 0
    OBVIOUS
  <2>2. p[length] = InAt(0, kind, length - length, C(length), deleted)
    <3> HIDE DEF C
    <3> QED  BY <2>1
  <2> HIDE DEF C, p
  <2> QED  BY <2>1, <2>2 DEF Between, InAt
<1>3. ASSUME NEW k \in 1 .. length PROVE <<p[k - 1], w[k], p[k]>> \in InSteps
  <2>1. /\ k - 1 \in 0 .. length /\ k \in 0 .. length /\ length - (k - 1) > 0 /\ length - k \in Nat
        /\ length - (k - 1) \in Nat /\ (length - (k - 1)) - 1 = length - k
    OBVIOUS
  <2>2. C(k) \in Nat /\ C(k - 1) \in Nat /\ C(k) = IF kind = "data" THEN C(k - 1) + 1 ELSE C(k - 1)
    OBVIOUS
  <2>3. p[k - 1] = InAt(0, kind, length - (k - 1), C(k - 1), deleted) /\ p[k] = InAt(0, kind, length - k, C(k), deleted)
    <3> HIDE DEF C
    <3> QED  BY <2>1
  <2>4. PICK b \in Byte : b = w[k]
    BY ElementOfSeq
  <2>5. IF kind = "data" THEN b.type = "data" /\ b.byte = C(k) ELSE b.type = "text"
    BY <2>4
  <2>6. PICK x \in Nat : x = length - (k - 1)
    BY <2>1
  <2>7. PICK y \in Nat : y = length - k
    BY <2>1
  <2>8. x # 0 /\ x > 0 /\ x - 1 = y
    BY <2>1, <2>6, <2>7
  <2>9. PICK d \in Nat : d = C(k - 1)
    BY <2>2
  <2>10. PICK e \in Nat : e = C(k)
    BY <2>2
  <2> HIDE DEF p, C
  <2>11. /\ p[k - 1] \in InState /\ p[k - 1].left = x /\ p[k - 1].flag = 0 /\ p[k - 1].kind = kind
         /\ p[k - 1].count = d /\ p[k - 1].deleted = deleted
    BY <2>3, <2>6, <2>8, <2>9 DEF InAt, InState
  <2>12. p[k] \in InState /\ p[k] = InAt(0, kind, y, e, deleted)
    BY <2>3, <2>7, <2>10 DEF InAt, InState
  <2>13. e = IF kind = "data" THEN d + 1 ELSE d
    BY <2>2, <2>9, <2>10
  <2>14. InStep(p[k - 1], b, p[k])
    BY <2>5, <2>8, <2>10, <2>11, <2>12, <2>13 DEF InStep
  <2> QED  BY <2>4, <2>11, <2>12, <2>14 DEF InSteps
<1> HIDE DEF p
<1> QED  BY <1>1, <1>2, <1>3 DEF Reads

(* A whole message, of data or of text. *)
LEMMA ReadsMessage ==
  ASSUME NEW kind \in Kinds, NEW length \in Nat, NEW count \in Nat, NEW deleted \in Nat
  PROVE  /\ LET whole == Flag(kind, length) \o Data(Fresh(count, length))
            IN  /\ whole \in Seq(Byte)
                /\ kind = "data" =>
                     Reads(InSteps, whole, Between(count, deleted), Between(count + length, deleted))
         /\ LET whole == Flag(kind, length) \o Text(length)
            IN  /\ whole \in Seq(Byte)
                /\ kind # "data" =>
                     Reads(InSteps, whole, Between(count, deleted),
                           Between(count, deleted + One(kind = "deleted")))
<1>1. Flag(kind, length) \in Seq(Byte)
  BY FlagShape
<1>2. PICK d \in Nat : d = deleted + One(kind = "deleted")
  BY DEF One
<1>3. Reads(InSteps, Flag(kind, length), Between(count, deleted), InAt(0, kind, length, count, d))
  BY <1>2, ReadsFlag
<1>4. PICK numbers \in Seq(Nat) : numbers = Fresh(count, length)
  BY FreshShape
<1>5. Len(numbers) = length /\ \A k \in 1 .. length : numbers[k] = count + k
  BY <1>4, FreshShape
<1>6. PICK w \in Seq(Byte) : w = Data(Fresh(count, length))
  BY <1>4, DataShape
<1>7. PICK v \in Seq(Byte) : v = Text(length)
  BY TextShape
<1>8. Flag(kind, length) \o w \in Seq(Byte) /\ Flag(kind, length) \o v \in Seq(Byte)
  BY <1>1, ConcatProperties
<1>9. ASSUME kind = "data"
      PROVE  Reads(InSteps, Flag(kind, length) \o w, Between(count, deleted), Between(count + length, deleted))
  <2>1. Len(w) = length /\ \A k \in 1 .. length : w[k] = [type |-> "data", byte |-> numbers[k]]
    BY <1>4, <1>5, <1>6, DataShape
  <2>2. \A k \in 1 .. length : w[k].type = "data" /\ w[k].byte = count + k
    BY <1>5, <2>1
  <2>3. Reads(InSteps, w, InAt(0, kind, length, count, d),
              Between(IF kind = "data" THEN count + length ELSE count, d))
    BY <1>9, <2>1, <2>2, ReadsBody
  <2>4. d = deleted
    BY <1>2, <1>9 DEF One
  <2>5. Reads(InSteps, w, InAt(0, kind, length, count, d), Between(count + length, deleted))
    BY <1>9, <2>3, <2>4
  <2> QED  BY <1>1, <1>3, <2>5, ReadsConcat
<1>10. ASSUME kind # "data"
       PROVE  Reads(InSteps, Flag(kind, length) \o v, Between(count, deleted), Between(count, d))
  <2>1. Len(v) = length /\ \A k \in 1 .. length : v[k] = [type |-> "text"]
    BY <1>7, TextShape
  <2>2. \A k \in 1 .. length : v[k].type = "text"
    BY <2>1
  <2>3. Reads(InSteps, v, InAt(0, kind, length, count, d),
              Between(IF kind = "data" THEN count + length ELSE count, d))
    BY <1>10, <2>1, <2>2, ReadsBody
  <2>4. Reads(InSteps, v, InAt(0, kind, length, count, d), Between(count, d))
    BY <1>10, <2>3
  <2> QED  BY <1>1, <1>3, <2>4, ReadsConcat
<1> QED  BY <1>2, <1>6, <1>7, <1>8, <1>9, <1>10

-----------------------------------------------------------------------------
(* How many of the first k bytes end the flag of a deletion. *)
EndsUpTo(wire, k) == {j \in 1 .. k : Deletion(wire[j])}

(* One more byte ends the flag of one more deletion, or of none. *)
LEMMA EndsCounted ==
  ASSUME NEW wire \in Seq(Byte), NEW k \in 1 .. Len(wire)
  PROVE  /\ IsFiniteSet(EndsUpTo(wire, k - 1)) /\ Cardinality(EndsUpTo(wire, k - 1)) \in Nat
         /\ Cardinality(EndsUpTo(wire, k)) = Cardinality(EndsUpTo(wire, k - 1)) + One(Deletion(wire[k]))
<1>1. k \in Nat /\ k - 1 \in Nat /\ k \notin 1 .. k - 1
  BY LenProperties
<1>2. IsFiniteSet(1 .. k - 1)
  <2>1. PICK m \in Nat : m = k - 1
    BY <1>1
  <2>2. IsFiniteSet(1 .. m)
    BY FS_Interval
  <2> QED  BY <2>1, <2>2
<1>3. IsFiniteSet(EndsUpTo(wire, k - 1))
  <2>1. EndsUpTo(wire, k - 1) \subseteq 1 .. k - 1
    BY DEF EndsUpTo
  <2> QED  BY <1>2, <2>1, FS_Subset
<1>4. k \notin EndsUpTo(wire, k - 1)
  BY <1>1 DEF EndsUpTo
<1>5. Cardinality(EndsUpTo(wire, k - 1)) \in Nat
  BY <1>3, FS_CardinalityType
<1>6. CASE Deletion(wire[k])
  <2>1. EndsUpTo(wire, k) = EndsUpTo(wire, k - 1) \cup {k}
    BY <1>1, <1>6 DEF EndsUpTo
  <2>2. Cardinality(EndsUpTo(wire, k - 1) \cup {k}) = Cardinality(EndsUpTo(wire, k - 1)) + 1
    BY <1>3, <1>4, FS_AddElement
  <2> QED  BY <1>3, <1>5, <1>6, <2>1, <2>2 DEF One
<1>7. CASE ~Deletion(wire[k])
  <2>1. EndsUpTo(wire, k) = EndsUpTo(wire, k - 1)
    BY <1>1, <1>7 DEF EndsUpTo
  <2> QED  BY <1>3, <1>5, <1>7, <2>1 DEF One
<1> QED  BY <1>6, <1>7

(* The end of the flag of a deletion is counted. *)
LEMMA InDeleted ==
  ASSUME NEW s, NEW b, NEW t, <<s, b, t>> \in InSteps
  PROVE  s.deleted \in Nat /\ t.deleted = s.deleted + One(Deletion(b))
<1>1. s \in InState /\ t \in InState /\ b \in Byte /\ InStep(s, b, t)
  BY InStepsShape
<1>2. CASE /\ s.left = 0 /\ b.type = "flag" /\ b.at = s.flag + 1 /\ b.at < FlagLength
           /\ t = InAt(b.at, "none", 0, s.count, s.deleted)
  <2>1. FlagLength \in Nat
    BY StreamAssumption
  <2> QED  BY <1>1, <1>2, <2>1 DEF InAt, InState, One, Deletion
<1>3. CASE /\ s.left = 0 /\ b.type = "flag" /\ b.at = s.flag + 1 /\ b.at = FlagLength
           /\ t = InAt(0, b.kind, b.length, s.count, s.deleted + One(b.kind = "deleted"))
  BY <1>1, <1>3 DEF InAt, InState, One, Deletion
<1>4. CASE /\ s.left > 0 /\ s.kind = "data" /\ b.type = "data" /\ b.byte = s.count + 1
           /\ t = InAt(s.flag, s.kind, s.left - 1, s.count + 1, s.deleted)
  BY <1>1, <1>4 DEF InAt, InState, One, Deletion
<1>5. CASE /\ s.left > 0 /\ s.kind # "data" /\ b.type = "text"
           /\ t = InAt(s.flag, s.kind, s.left - 1, s.count, s.deleted)
  BY <1>1, <1>5 DEF InAt, InState, One, Deletion
<1> QED  BY <1>1, <1>2, <1>3, <1>4, <1>5 DEF InStep

(* What the client has still to take holds the deletions it has still to count. *)
LEMMA InDeletions ==
  ASSUME NEW wire \in Seq(Byte), NEW s \in InState, NEW t, Reads(InSteps, wire, s, t)
  PROVE  t.deleted = s.deleted + DeletionsOf(wire) /\ DeletionsOf(wire) \in Nat
<1>1. PICK p : /\ p[0] = s /\ p[Len(wire)] = t
               /\ \A k \in 1 .. Len(wire) : <<p[k - 1], wire[k], p[k]>> \in InSteps
  BY DEF Reads
<1>2. PICK n \in Nat : n = Len(wire)
  BY LenProperties
<1> DEFINE T == {k \in 0 .. n : /\ Cardinality(EndsUpTo(wire, k)) \in Nat
                               /\ p[k].deleted = s.deleted + Cardinality(EndsUpTo(wire, k))}
<1>3. 0 \in T
  <2>1. EndsUpTo(wire, 0) = {}
    BY DEF EndsUpTo
  <2>2. Cardinality(EndsUpTo(wire, 0)) = 0
    BY <2>1, FS_EmptySet
  <2>3. s.deleted \in Nat
    BY DEF InState
  <2>4. p[0].deleted = s.deleted + 0
    BY <1>1, <2>3
  <2> QED  BY <2>2, <2>4
<1>4. ASSUME NEW k \in 1 .. n, k - 1 \in T PROVE k \in T
  <2>1. p[k - 1].deleted \in Nat /\ p[k].deleted = p[k - 1].deleted + One(Deletion(wire[k]))
    <3>1. PICK u : u = p[k - 1]
      OBVIOUS
    <3>2. PICK v : v = p[k]
      OBVIOUS
    <3>3. PICK b : b = wire[k]
      OBVIOUS
    <3>4. <<u, b, v>> \in InSteps
      BY <1>1, <1>2, <3>1, <3>2, <3>3
    <3>5. u.deleted \in Nat /\ v.deleted = u.deleted + One(Deletion(b))
      BY <3>4, InDeleted
    <3> QED  BY <3>1, <3>2, <3>3, <3>5
  <2>2. PICK c \in Nat : c = Cardinality(EndsUpTo(wire, k - 1))
    BY <1>2, EndsCounted
  <2>3. Cardinality(EndsUpTo(wire, k)) = c + One(Deletion(wire[k]))
    BY <1>2, <2>2, EndsCounted
  <2>4. p[k - 1].deleted = s.deleted + c
    BY <1>4, <2>2
  <2>5. PICK o \in Nat : o = One(Deletion(wire[k]))
    BY DEF One
  <2>6. s.deleted \in Nat
    BY DEF InState
  <2>7. (s.deleted + c) + o = s.deleted + (c + o) /\ c + o \in Nat
    BY <2>6
  <2> HIDE DEF Deletion
  <2>8. p[k].deleted = s.deleted + Cardinality(EndsUpTo(wire, k)) /\ Cardinality(EndsUpTo(wire, k)) \in Nat
    BY <2>1, <2>3, <2>4, <2>5, <2>7
  <2>9. k \in 0 .. n
    OBVIOUS
  <2> QED  BY <2>8, <2>9
<1> HIDE DEF T
<1>5. 0 .. n \subseteq T
  BY <1>3, <1>4, InductionUpTo
<1>6. n \in T
  BY <1>5
<1>7. EndsUpTo(wire, n) = {k \in DOMAIN wire : Deletion(wire[k])}
  BY <1>2, LenProperties DEF EndsUpTo
<1>8. DeletionsOf(wire) = Cardinality(EndsUpTo(wire, n))
  BY <1>7 DEF DeletionsOf
<1> QED  BY <1>1, <1>2, <1>6, <1>8 DEF T

-----------------------------------------------------------------------------
InType ==
  /\ inPipe \in Seq(Byte) /\ remoteOut \in Seq(Byte)
  /\ flagRead \in Nat /\ messageFlag \in Kinds \cup {"none"} /\ messageLeft \in Nat
  /\ deletedFiles \in Nat /\ readDataLength \in Nat
  /\ received \in Seq(Nat) /\ readBuffer \in Seq(Nat) /\ need \in Nat
  /\ remoteSent \in Nat /\ remoteDeleted \in Nat

(* The client is inside at most one of a flag, a message and a chunk; it polls
   with no chunk open, and reads the channel with an empty read buffer. *)
InMode ==
  /\ messageFlag = "none" <=> messageLeft = 0
  /\ messageFlag # "data"
  /\ readDataLength # 0 => flagRead = 0 /\ messageLeft = 0
  /\ messageLeft # 0 => flagRead = 0
  /\ op = "poll" => readDataLength = 0
  /\ op = "read" => readBuffer = <<>>

ClientAt ==
  InAt(flagRead, IF readDataLength # 0 THEN "data" ELSE messageFlag, readDataLength + messageLeft,
       Len(received) + Len(readBuffer), deletedFiles + One(messageFlag = "deleted"))

InInv ==
  /\ InType
  /\ InMode
  /\ Reads(InSteps, inPipe \o remoteOut, ClientAt, Between(remoteSent, remoteDeleted))
  /\ received \o readBuffer = Fresh(0, Len(received) + Len(readBuffer))

-----------------------------------------------------------------------------
(* Nothing is on its way at the start. *)
LEMMA InitIn == Init => InInv
<1> SUFFICES ASSUME Init PROVE InInv
  OBVIOUS
<1>1. /\ <<>> \in Seq(Byte) /\ <<>> \in Seq(Nat) /\ Len(<<>>) = 0 /\ <<>> \o <<>> = <<>>
  <2>1. <<>> \in Seq(Nat) /\ Len(<<>>) = 0
    BY EmptySeq
  <2> QED  BY <2>1, EmptySeq, ConcatEmptySeq
<1>2. InType /\ InMode
  BY <1>1 DEF Init, InType, InMode
<1>3. ClientAt = Between(0, 0)
  BY <1>1 DEF Init, ClientAt, Between, InAt, One
<1>4. Reads(InSteps, <<>>, Between(0, 0), Between(0, 0))
  BY ReadsNothing
<1>5. Reads(InSteps, inPipe \o remoteOut, ClientAt, Between(remoteSent, remoteDeleted))
  BY <1>1, <1>3, <1>4 DEF Init
<1>6. Fresh(0, 0) = <<>>
  <2>1. Fresh(0, 0) \in Seq(Nat) /\ Len(Fresh(0, 0)) = 0
    BY FreshShape
  <2> QED  BY <2>1, EmptySeq
<1>7. received \o readBuffer = Fresh(0, Len(received) + Len(readBuffer))
  BY <1>1, <1>6 DEF Init
<1> QED  BY <1>2, <1>5, <1>7 DEF InInv

(* Where the client's parser is. *)
LEMMA ClientShape ==
  ASSUME InInv
  PROVE  /\ ClientAt \in InState
         /\ ClientAt.flag = flagRead /\ ClientAt.left = readDataLength + messageLeft
         /\ ClientAt.kind = IF readDataLength # 0 THEN "data" ELSE messageFlag
         /\ ClientAt.count = Len(received) + Len(readBuffer)
         /\ ClientAt.deleted = deletedFiles + One(messageFlag = "deleted")
         /\ Len(received) \in Nat /\ Len(readBuffer) \in Nat
         /\ Len(received) + Len(readBuffer) \in Nat
         /\ deletedFiles + One(messageFlag = "deleted") \in Nat
<1>1. /\ Len(received) \in Nat /\ Len(readBuffer) \in Nat
      /\ Len(received) + Len(readBuffer) \in Nat
  <2>1. Len(received) \in Nat /\ Len(readBuffer) \in Nat
    BY LenProperties DEF InInv, InType
  <2> QED  BY <2>1
<1>2. deletedFiles + One(messageFlag = "deleted") \in Nat
  BY DEF InInv, InType, One
<1>3. readDataLength + messageLeft \in Nat
      /\ (readDataLength + messageLeft = 0 <=> readDataLength = 0 /\ messageLeft = 0)
  BY DEF InInv, InType
<1>4. (IF readDataLength # 0 THEN "data" ELSE messageFlag) \in Kinds \cup {"none"}
  BY DEF InInv, InType, Kinds
<1>5. /\ ClientAt \in InState
      /\ ClientAt.flag = flagRead /\ ClientAt.left = readDataLength + messageLeft
      /\ ClientAt.kind = IF readDataLength + messageLeft = 0 THEN "none"
                         ELSE IF readDataLength # 0 THEN "data" ELSE messageFlag
      /\ ClientAt.count = Len(received) + Len(readBuffer)
      /\ ClientAt.deleted = deletedFiles + One(messageFlag = "deleted")
  BY <1>1, <1>2, <1>3, <1>4 DEF ClientAt, InAt, InState, InInv, InType
<1>6. (IF readDataLength + messageLeft = 0 THEN "none"
       ELSE IF readDataLength # 0 THEN "data" ELSE messageFlag)
        = IF readDataLength # 0 THEN "data" ELSE messageFlag
  BY <1>3 DEF InInv, InMode
<1> QED  BY <1>1, <1>2, <1>5, <1>6

(* The client takes the first n bytes off the pipe. *)
LEMMA InTake ==
  ASSUME InInv, NEW n \in Nat, n <= Len(inPipe)
  PROVE  /\ Take(inPipe, n) \in Seq(Byte) /\ Drop(inPipe, n) \in Seq(Byte) /\ Len(Take(inPipe, n)) = n
         /\ n # 0 => Take(inPipe, n)[n] = inPipe[n]
         /\ \E t : /\ Reads(InSteps, Take(inPipe, n), ClientAt, t)
                   /\ Reads(InSteps, Drop(inPipe, n) \o remoteOut, t, Between(remoteSent, remoteDeleted))
<1>1. inPipe \in Seq(Byte) /\ remoteOut \in Seq(Byte) /\ n \in 0 .. Len(inPipe)
  BY LenProperties DEF InInv, InType
<1>2. /\ Take(inPipe, n) \in Seq(Byte) /\ Drop(inPipe, n) \in Seq(Byte) /\ Len(Take(inPipe, n)) = n
      /\ \A k \in 1 .. n : Take(inPipe, n)[k] = inPipe[k]
      /\ inPipe = Take(inPipe, n) \o Drop(inPipe, n)
  BY <1>1, TakeDrop
<1>3. PICK v \in Seq(Byte) : v = Take(inPipe, n)
  BY <1>2
<1>4. PICK w \in Seq(Byte) : w = Drop(inPipe, n)
  BY <1>2
<1>5. inPipe \o remoteOut = v \o (w \o remoteOut) /\ w \o remoteOut \in Seq(Byte)
  <2>1. (v \o w) \o remoteOut = v \o (w \o remoteOut) /\ w \o remoteOut \in Seq(Byte)
    BY <1>1, ConcatAssociative, ConcatProperties
  <2> QED  BY <1>2, <1>3, <1>4, <2>1
<1>6. Reads(InSteps, v \o (w \o remoteOut), ClientAt, Between(remoteSent, remoteDeleted))
  BY <1>5 DEF InInv
<1>7. \E t : Reads(InSteps, v, ClientAt, t)
             /\ Reads(InSteps, w \o remoteOut, t, Between(remoteSent, remoteDeleted))
  BY <1>5, <1>6, ReadsSplit
<1>8. n # 0 => Take(inPipe, n)[n] = inPipe[n]
  BY <1>2
<1> QED  BY <1>2, <1>3, <1>4, <1>7, <1>8

(* The steps that read nothing. *)
InIdle ==
  /\ UNCHANGED <<reading, sender>>
  /\ op' = "poll" => op = "poll" \/ readDataLength = 0
  /\ op' = "read" => op = "read"

(* A step that reads nothing keeps InInv ... *)
LEMMA IdleIn == InInv /\ InIdle => InInv'
<1> SUFFICES ASSUME InInv, InIdle PROVE InInv'
  OBVIOUS
<1>1. UNCHANGED <<flagRead, messageFlag, messageLeft, deletedFiles, readDataLength, readBuffer, need,
                  received, inPipe, remoteOut, remoteSent, remoteDeleted>>
  BY DEF InIdle, reading, message, sender
<1>2. UNCHANGED ClientAt
  BY <1>1 DEF ClientAt
<1>3. InType' /\ InMode'
  BY <1>1 DEF InInv, InType, InMode, InIdle
<1> QED  BY <1>1, <1>2, <1>3 DEF InInv

(* ... and these read nothing. *)
LEMMA OthersIn ==
  Write \/ Flush \/ DisableAutomaticFlush \/ TryFlushWriteBuffer \/ IsDataAvailable \/ WriteAll
    \/ RemoteRead \/ UNCHANGED vars => InIdle
<1>1. CASE Write
  BY <1>1 DEF Write, FlushWriteBuffer, Fatal, InIdle
<1>2. CASE Flush
  BY <1>2 DEF Flush, FlushWriteBuffer, Fatal, InIdle
<1>3. CASE DisableAutomaticFlush
  BY <1>3 DEF DisableAutomaticFlush, FlushWriteBuffer, Fatal, InIdle
<1>4. CASE TryFlushWriteBuffer \/ RemoteRead \/ UNCHANGED vars
  BY <1>4 DEF TryFlushWriteBuffer, RemoteRead, vars, InIdle
<1>5. CASE IsDataAvailable
  BY <1>5 DEF IsDataAvailable, InIdle
<1>6. CASE WriteAll
  BY <1>6 DEF WriteAll, InIdle
<1> QED  BY <1>1, <1>2, <1>3, <1>4, <1>5, <1>6

(* readMessageFlag, one io->read: a part of the flag, or its end and what
   the kind of the message makes of it. *)
LEMMA ReadFlagIn ==
  ASSUME InInv, ReadFlag, UNCHANGED sender, readDataLength = 0, messageLeft = 0
  PROVE  InInv'
<1>1. PICK n \in 1 .. FlagLength - flagRead :
        /\ n <= Len(inPipe)
        /\ inPipe' = Drop(inPipe, n)
        /\ \/ /\ flagRead + n < FlagLength
              /\ flagRead' = flagRead + n
              /\ UNCHANGED <<op, messageFlag, messageLeft, deletedFiles, readDataLength>>
           \/ /\ flagRead + n = FlagLength
              /\ flagRead' = 0
              /\ FlagComplete(inPipe[n].kind, inPipe[n].length)
        /\ UNCHANGED <<readBuffer, need, received>>
  BY DEF ReadFlag
<1>2. flagRead \in Nat /\ FlagLength \in Nat /\ n \in Nat /\ n # 0 /\ flagRead + n <= FlagLength
  BY StreamAssumption DEF InInv, InType
<1>3. PICK t : /\ Reads(InSteps, Take(inPipe, n), ClientAt, t)
               /\ Reads(InSteps, Drop(inPipe, n) \o remoteOut, t, Between(remoteSent, remoteDeleted))
  BY <1>1, <1>2, InTake
<1>4. PICK v \in Seq(Byte) : v = Take(inPipe, n)
  BY <1>1, <1>2, InTake
<1>5. Len(v) = n /\ v[n] = inPipe[n] /\ Drop(inPipe, n) \in Seq(Byte)
  BY <1>1, <1>2, <1>4, InTake
<1>6. PICK s \in InState : s = ClientAt
  BY ClientShape
<1>7. /\ messageFlag = "none" /\ One(messageFlag = "deleted") = 0 /\ deletedFiles \in Nat
      /\ deletedFiles + 0 = deletedFiles
  BY DEF InInv, InType, InMode, One
<1>8. /\ s.flag = flagRead /\ s.left = 0 /\ s.kind = "none"
      /\ s.count = Len(received) + Len(readBuffer) /\ s.deleted = deletedFiles
  BY <1>6, <1>7, ClientShape
<1>9. /\ t \in InState /\ v[n] \in FlagByte
      /\ t = IF s.flag + n < FlagLength
               THEN InAt(s.flag + n, "none", 0, s.count, s.deleted)
               ELSE InAt(0, v[n].kind, v[n].length, s.count, s.deleted + One(v[n].kind = "deleted"))
  <2>1. Reads(InSteps, v, s, t) /\ Len(v) # 0 /\ s.flag + Len(v) <= FlagLength
    BY <1>2, <1>3, <1>4, <1>5, <1>6, <1>8
  <2> QED  BY <1>5, <1>8, <2>1, InFlagRun
<1>10. InType' /\ InMode' /\ t = ClientAt'
  <2>1. CASE flagRead + n < FlagLength /\ flagRead' = flagRead + n
             /\ UNCHANGED <<op, messageFlag, messageLeft, deletedFiles, readDataLength>>
    <3>1. InType' /\ InMode'
      BY <1>1, <1>2, <1>5, <2>1 DEF InInv, InType, InMode, sender
    <3>2. t = InAt(flagRead + n, "none", 0, Len(received) + Len(readBuffer), deletedFiles)
      BY <1>8, <1>9, <2>1
    <3>3. ClientAt' = InAt(flagRead + n, messageFlag, readDataLength + messageLeft,
                           Len(received) + Len(readBuffer), deletedFiles + One(messageFlag = "deleted"))
      BY <1>1, <2>1 DEF ClientAt
    <3> QED  BY <1>7, <3>1, <3>2, <3>3
  <2>2. CASE flagRead + n = FlagLength /\ flagRead' = 0 /\ FlagComplete(inPipe[n].kind, inPipe[n].length)
    <3>1. PICK kind \in Kinds : kind = v[n].kind
      BY <1>9 DEF FlagByte
    <3>2. PICK length \in Nat : length = v[n].length
      BY <1>9 DEF FlagByte
    <3>3. FlagComplete(kind, length)
      BY <1>5, <2>2, <3>1, <3>2
    <3>4. t = InAt(0, kind, length, s.count, s.deleted + One(kind = "deleted"))
      BY <1>2, <1>8, <1>9, <2>2, <3>1, <3>2
    <3>5. UNCHANGED <<readBuffer, need, received, remoteOut, remoteSent, remoteDeleted>> /\ inPipe' \in Seq(Byte)
      BY <1>1, <1>5 DEF sender
    <3>6. CASE kind = "data" /\ readDataLength' = length /\ EndMessage(kind)
      <4>1. /\ messageFlag' = "none" /\ messageLeft' = 0 /\ deletedFiles' = deletedFiles
            /\ op' = IF op = "poll" THEN "idle" ELSE op
        BY <3>6 DEF EndMessage
      <4>2. InType' /\ InMode'
        BY <2>2, <3>5, <3>6, <4>1 DEF InInv, InType, InMode
      <4>3. ClientAt' = InAt(0, IF length # 0 THEN "data" ELSE "none", length + 0, s.count, deletedFiles + 0)
        BY <1>8, <2>2, <3>5, <3>6, <4>1 DEF ClientAt, One
      <4>4. t = InAt(0, "data", length, s.count, s.deleted + 0)
        BY <3>4, <3>6 DEF One
      <4> QED  BY <1>8, <4>2, <4>3, <4>4 DEF InAt
    <3>7. CASE kind # "data" /\ length = 0 /\ EndMessage(kind) /\ UNCHANGED readDataLength
      <4>1. /\ messageFlag' = "none" /\ messageLeft' = 0
            /\ deletedFiles' = deletedFiles + One(kind = "deleted")
            /\ op' \in {"fatal", "idle", op} /\ op' # "poll"
        BY <1>7, <3>7 DEF EndMessage, One
      <4>2. deletedFiles + One(kind = "deleted") \in Nat
        BY <1>7 DEF One
      <4>3. InType' /\ InMode'
        BY <2>2, <3>5, <3>7, <4>1, <4>2 DEF InInv, InType, InMode
      <4>4. ClientAt' = InAt(0, "none", 0, s.count, (deletedFiles + One(kind = "deleted")) + 0)
        <5>1. One(messageFlag' = "deleted") = 0
          BY <4>1 DEF One
        <5>2. readDataLength' = 0 /\ readDataLength' + messageLeft' = 0 /\ flagRead' = 0
          BY <2>2, <3>7, <4>1
        <5> QED  BY <1>8, <3>5, <4>1, <5>1, <5>2 DEF ClientAt
      <4>5. t = InAt(0, kind, 0, s.count, deletedFiles + One(kind = "deleted"))
        BY <1>8, <3>4, <3>7
      <4> QED  BY <4>2, <4>3, <4>4, <4>5 DEF InAt
    <3>8. CASE /\ kind # "data" /\ length > 0 /\ messageFlag' = kind /\ messageLeft' = length
               /\ UNCHANGED <<op, deletedFiles, readDataLength>>
      <4>1. InType' /\ InMode'
        BY <2>2, <3>5, <3>8 DEF InInv, InType, InMode, Kinds
      <4>2. ClientAt' = InAt(0, kind, 0 + length, s.count, deletedFiles + One(kind = "deleted"))
        BY <1>8, <2>2, <3>5, <3>8 DEF ClientAt
      <4> QED  BY <1>8, <3>4, <4>1, <4>2
    <3> QED  BY <3>3, <3>6, <3>7, <3>8 DEF FlagComplete
  <2> QED  BY <1>1, <2>1, <2>2
<1>11. Reads(InSteps, inPipe \o remoteOut, ClientAt, Between(remoteSent, remoteDeleted))'
  BY <1>1, <1>3, <1>10 DEF sender
<1>12. (received \o readBuffer = Fresh(0, Len(received) + Len(readBuffer)))'
  BY <1>1 DEF InInv
<1> QED  BY <1>10, <1>11, <1>12 DEF InInv

-----------------------------------------------------------------------------
(* readMessageContent, one io->read. *)
LEMMA ReadTextIn ==
  ASSUME InInv, ReadText, UNCHANGED sender
  PROVE  InInv'
<1>1. PICK n \in 1 .. messageLeft :
        /\ n <= Len(inPipe)
        /\ inPipe' = Drop(inPipe, n)
        /\ \/ n = messageLeft /\ EndMessage(messageFlag)
           \/ /\ n < messageLeft
              /\ messageLeft' = messageLeft - n
              /\ UNCHANGED <<op, messageFlag, deletedFiles>>
  BY DEF ReadText
<1>2. /\ messageLeft > 0 /\ messageLeft \in Nat /\ n \in Nat /\ n # 0 /\ n <= messageLeft
      /\ readDataLength = 0 /\ flagRead = 0 /\ messageFlag # "none" /\ messageFlag # "data"
      /\ UNCHANGED <<flagRead, readDataLength, readBuffer, need, received>>
  BY DEF InInv, InType, InMode, ReadText
<1>3. PICK t : /\ Reads(InSteps, Take(inPipe, n), ClientAt, t)
               /\ Reads(InSteps, Drop(inPipe, n) \o remoteOut, t, Between(remoteSent, remoteDeleted))
  BY <1>1, <1>2, InTake
<1>4. PICK v \in Seq(Byte) : v = Take(inPipe, n)
  BY <1>1, <1>2, InTake
<1>5. Len(v) = n /\ Drop(inPipe, n) \in Seq(Byte)
  BY <1>1, <1>2, <1>4, InTake
<1>6. PICK s \in InState : s = ClientAt
  BY ClientShape
<1>7. /\ s.flag = 0 /\ s.left = messageLeft /\ s.kind = messageFlag
      /\ s.count = Len(received) + Len(readBuffer)
      /\ s.deleted = deletedFiles + One(messageFlag = "deleted")
      /\ s.count \in Nat /\ deletedFiles + One(messageFlag = "deleted") \in Nat
  <2>1. 0 + messageLeft = messageLeft
    BY <1>2
  <2> QED  BY <1>2, <1>6, <2>1, ClientShape
<1>8. t = InAt(0, messageFlag, messageLeft - n, s.count + 0, s.deleted)
  <2>1. Reads(InSteps, v, s, t) /\ Len(v) <= s.left /\ s.flag = 0 /\ s.left # 0 /\ s.kind # "none"
    BY <1>2, <1>3, <1>4, <1>5, <1>6, <1>7
  <2>2. t = InAt(0, s.kind, s.left - Len(v),
                 s.count + (IF s.kind = "data" THEN Len(v) ELSE 0), s.deleted)
    BY <2>1, InMessageRun
  <2> QED  BY <1>2, <1>5, <1>7, <2>2
<1>9. InType' /\ InMode' /\ t = ClientAt'
  <2>1. CASE n = messageLeft /\ EndMessage(messageFlag)
    <3>1. /\ messageFlag' = "none" /\ messageLeft' = 0
          /\ deletedFiles' = deletedFiles + One(messageFlag = "deleted")
          /\ op' \in {"fatal", "idle", op} /\ op' # "poll"
      <4>1. deletedFiles \in Nat
        BY DEF InInv, InType
      <4> QED  BY <2>1, <4>1 DEF EndMessage, One
    <3>2. InType' /\ InMode'
      BY <1>1, <1>2, <1>5, <1>7, <3>1 DEF InInv, InType, InMode, sender
    <3>3. ClientAt' = InAt(0, "none", 0 + 0, s.count, s.deleted + 0)
      <4>1. One(messageFlag' = "deleted") = 0
        BY <3>1 DEF One
      <4> QED  BY <1>2, <1>7, <3>1, <4>1 DEF ClientAt
    <3>4. t = InAt(0, messageFlag, 0, s.count, s.deleted)
      BY <1>2, <1>7, <1>8, <2>1
    <3> QED  BY <1>7, <3>2, <3>3, <3>4 DEF InAt
  <2>2. CASE n < messageLeft /\ messageLeft' = messageLeft - n /\ UNCHANGED <<op, messageFlag, deletedFiles>>
    <3>1. messageLeft' \in Nat /\ messageLeft' # 0
      BY <1>2, <2>2
    <3>2. InType' /\ InMode'
      BY <1>1, <1>2, <1>5, <2>2, <3>1 DEF InInv, InType, InMode, sender
    <3>3. ClientAt' = InAt(0, messageFlag, 0 + messageLeft', s.count, s.deleted)
      BY <1>2, <1>7, <2>2 DEF ClientAt
    <3> QED  BY <1>7, <1>8, <2>2, <3>1, <3>2, <3>3
  <2> QED  BY <1>1, <2>1, <2>2
<1>10. Reads(InSteps, inPipe \o remoteOut, ClientAt, Between(remoteSent, remoteDeleted))'
  BY <1>1, <1>3, <1>9 DEF sender
<1>11. (received \o readBuffer = Fresh(0, Len(received) + Len(readBuffer)))'
  BY <1>2 DEF InInv
<1> QED  BY <1>9, <1>10, <1>11 DEF InInv

(* Sequences of numbers put together. *)
LEMMA NumbersAssociative ==
  ASSUME NEW a \in Seq(Nat), NEW b \in Seq(Nat), NEW c \in Seq(Nat)
  PROVE  a \o (b \o c) = (a \o b) \o c
<1>1. PICK S : S = Nat
  OBVIOUS
<1>2. a \in Seq(S) /\ b \in Seq(S) /\ c \in Seq(S)
  BY <1>1
<1> QED  BY <1>2, ConcatAssociative

(* n bytes of the open chunk go to the end of what the client has of it. *)
LEMMA ChunkIn ==
  ASSUME InInv, NEW n \in Nat, n # 0, n <= Len(inPipe), n <= readDataLength,
         inPipe' = Drop(inPipe, n), readDataLength' = readDataLength - n,
         UNCHANGED <<message, sender>>, need' \in Nat, op' # "poll", op' = "read" => op = "read",
         \/ UNCHANGED received /\ readBuffer' = readBuffer \o DataOf(Take(inPipe, n)) /\ op' # "read"
         \/ /\ UNCHANGED readBuffer /\ readBuffer = <<>>
            /\ received' = received \o DataOf(Take(inPipe, n))
  PROVE  InInv'
<1>1. PICK t : /\ Reads(InSteps, Take(inPipe, n), ClientAt, t)
               /\ Reads(InSteps, Drop(inPipe, n) \o remoteOut, t, Between(remoteSent, remoteDeleted))
  BY InTake
<1>2. PICK v \in Seq(Byte) : v = Take(inPipe, n)
  BY InTake
<1>3. Len(v) = n /\ Drop(inPipe, n) \in Seq(Byte)
  BY <1>2, InTake
<1>4. PICK s \in InState : s = ClientAt
  BY ClientShape
<1>5. /\ readDataLength \in Nat /\ readDataLength # 0
      /\ messageLeft = 0 /\ flagRead = 0 /\ messageFlag = "none" /\ One(messageFlag = "deleted") = 0
      /\ deletedFiles \in Nat /\ deletedFiles + 0 = deletedFiles
  BY DEF InInv, InType, InMode, One
<1>6. /\ s.flag = 0 /\ s.left = readDataLength /\ s.kind = "data"
      /\ s.count = Len(received) + Len(readBuffer) /\ s.deleted = deletedFiles
  <2>1. readDataLength + 0 = readDataLength
    BY <1>5
  <2> QED  BY <1>4, <1>5, <2>1, ClientShape
<1>7. t \in InState /\ t = InAt(0, "data", readDataLength - n, s.count + n, deletedFiles)
  <2>1. Reads(InSteps, v, s, t) /\ Len(v) <= s.left /\ s.flag = 0 /\ s.left # 0 /\ s.kind # "none"
    BY <1>1, <1>2, <1>3, <1>4, <1>5, <1>6
  <2>2. t \in InState
        /\ t = InAt(0, s.kind, s.left - Len(v),
                    s.count + (IF s.kind = "data" THEN Len(v) ELSE 0), s.deleted)
    BY <2>1, InMessageRun
  <2> QED  BY <1>3, <1>6, <2>2
<1>8. PICK c \in Nat : c = s.count
  BY DEF InState
<1>9. DataOf(v) = Fresh(c, n)
  <2>1. t.count = c + n
    BY <1>7, <1>8 DEF InAt
  <2>2. DataOf(v) = Fresh(s.count, t.count - s.count)
    BY <1>1, <1>2, <1>4, InData
  <2>3. (c + n) - c = n
    OBVIOUS
  <2> QED  BY <1>8, <2>1, <2>2, <2>3
<1>10. DataOf(v) \in Seq(Nat) /\ Len(DataOf(v)) = n
  BY <1>9, FreshShape
<1>11. received \in Seq(Nat) /\ readBuffer \in Seq(Nat) /\ received \o readBuffer = Fresh(0, c)
  BY <1>6, <1>8 DEF InInv, InType
<1>12. (received \o readBuffer) \o DataOf(v) = Fresh(0, c + n)
  <2>1. PICK e \in Nat : e = c + n
    OBVIOUS
  <2>2. c - 0 = c /\ e - c = n /\ e - 0 = e /\ 0 <= c /\ c <= e
    BY <2>1
  <2>3. Fresh(0, c - 0) \o Fresh(c, e - c) = Fresh(0, e - 0)
    BY <2>2, FreshConcat
  <2> QED  BY <1>9, <1>11, <2>1, <2>2, <2>3
<1>13. /\ received' \in Seq(Nat) /\ readBuffer' \in Seq(Nat)
       /\ received' \o readBuffer' = (received \o readBuffer) \o DataOf(v)
       /\ Len(received') + Len(readBuffer') = c + n
       /\ op' = "read" => readBuffer' = <<>>
  <2>0. Len(received) \in Nat /\ Len(readBuffer) \in Nat /\ c = Len(received) + Len(readBuffer)
    BY <1>6, <1>8, ClientShape
  <2>1. CASE UNCHANGED received /\ readBuffer' = readBuffer \o DataOf(v) /\ op' # "read"
    <3>1. readBuffer' \in Seq(Nat) /\ Len(readBuffer') = Len(readBuffer) + n
      BY <1>10, <1>11, <2>1, ConcatProperties
    <3>2. received \o (readBuffer \o DataOf(v)) = (received \o readBuffer) \o DataOf(v)
      <4> QED  BY <1>10, <1>11, NumbersAssociative
    <3>3. Len(received') + Len(readBuffer') = c + n
      BY <2>0, <2>1, <3>1
    <3> QED  BY <1>11, <2>1, <3>1, <3>2, <3>3
  <2>2. CASE UNCHANGED readBuffer /\ readBuffer = <<>> /\ received' = received \o DataOf(v)
    <3>1. received' \in Seq(Nat) /\ Len(received') = Len(received) + n
      BY <1>10, <1>11, <2>2, ConcatProperties
    <3>2. received' \o <<>> = received' /\ received \o <<>> = received
      BY <1>11, <3>1, ConcatEmptySeq
    <3>3. received' \o readBuffer' = (received \o readBuffer) \o DataOf(v)
      BY <2>2, <3>2
    <3>4. Len(readBuffer) = 0
      BY <1>11, <2>2, EmptySeq
    <3>5. Len(received') + Len(readBuffer') = c + n
      BY <2>0, <2>2, <3>1, <3>4
    <3> QED  BY <1>11, <2>2, <3>1, <3>3, <3>5
  <2> QED  BY <1>2, <2>1, <2>2
<1>14. InType' /\ InMode'
  <2>1. readDataLength' \in Nat
    BY <1>5
  <2> QED  BY <1>3, <1>5, <1>13, <2>1 DEF InInv, InType, InMode, message, sender
<1>15. t = ClientAt'
  <2>1. ClientAt' = InAt(0, IF readDataLength' # 0 THEN "data" ELSE "none", readDataLength' + 0,
                         Len(received') + Len(readBuffer'), deletedFiles + One("none" = "deleted"))
    BY <1>5 DEF ClientAt, message
  <2>2. readDataLength' + 0 = readDataLength - n
    BY <1>5
  <2>3. One("none" = "deleted") = 0
    BY DEF One
  <2> QED  BY <1>5, <1>7, <1>8, <1>13, <2>1, <2>2, <2>3 DEF InAt
<1>16. Reads(InSteps, inPipe \o remoteOut, ClientAt, Between(remoteSent, remoteDeleted))'
  BY <1>1, <1>15 DEF sender
<1>17. (received \o readBuffer = Fresh(0, Len(received) + Len(readBuffer)))'
  BY <1>12, <1>13
<1> QED  BY <1>14, <1>16, <1>17 DEF InInv

(* A blocked writeAll puts the open chunk aside, or reads a flag. *)
LEMMA BlockedIn == InInv /\ WriteAllBlocked => InInv'
<1> SUFFICES ASSUME InInv, WriteAllBlocked PROVE InInv'
  OBVIOUS
<1>1. op = "flush" /\ ~MidMessage /\ UNCHANGED sender /\ (StashChunk \/ (readDataLength = 0 /\ ReadFlag))
  BY DEF WriteAllBlocked
<1>2. CASE StashChunk
  <2>1. PICK n \in 1 .. readDataLength :
          /\ n <= Len(inPipe)
          /\ readBuffer' = readBuffer \o DataOf(Take(inPipe, n))
          /\ inPipe' = Drop(inPipe, n)
          /\ readDataLength' = readDataLength - n
    BY <1>2 DEF StashChunk
  <2>2. readDataLength \in Nat /\ need \in Nat
    BY DEF InInv, InType
  <2>3. n \in Nat /\ n # 0 /\ n <= readDataLength
    BY <2>2
  <2>4. UNCHANGED <<op, message, need, received>>
    BY <1>2 DEF StashChunk
  <2> QED  BY <1>1, <2>1, <2>2, <2>3, <2>4, ChunkIn
<1>3. CASE readDataLength = 0 /\ ReadFlag
  <2>1. messageLeft = 0
    BY <1>1 DEF MidMessage, InInv, InMode
  <2> QED  BY <1>1, <1>3, <2>1, ReadFlagIn
<1> QED  BY <1>1, <1>2, <1>3

(* read(), from the channel. *)
LEMMA ReadChunkIn == InInv /\ ReadChunk => InInv'
<1> SUFFICES ASSUME InInv, ReadChunk PROVE InInv'
  OBVIOUS
<1>1. op = "read" /\ ~MidMessage /\ UNCHANGED sender
  BY DEF ReadChunk
<1>2. CASE readDataLength = 0 /\ ReadFlag
  <2>1. messageLeft = 0
    BY <1>1 DEF MidMessage, InInv, InMode
  <2> QED  BY <1>1, <1>2, <2>1, ReadFlagIn
<1>3. CASE ~(readDataLength = 0 /\ ReadFlag)
  <2>1. PICK n \in 1 .. need :
          /\ n <= readDataLength
          /\ n <= Len(inPipe)
          /\ received' = received \o DataOf(Take(inPipe, n))
          /\ inPipe' = Drop(inPipe, n)
          /\ readDataLength' = readDataLength - n
          /\ need' = need - n
          /\ op' = IF n = need THEN "idle" ELSE op
    BY <1>3 DEF ReadChunk, WithinChunk
  <2>2. readDataLength \in Nat /\ need \in Nat /\ readBuffer = <<>>
    BY <1>1 DEF InInv, InType, InMode
  <2>3. n \in Nat /\ n # 0 /\ need' \in Nat
    BY <2>1, <2>2
  <2>4. UNCHANGED <<message, readBuffer>>
    BY <1>3 DEF ReadChunk
  <2>5. op' # "poll" /\ (op' = "read" => op = "read")
    BY <1>1, <2>1
  <2> QED  BY <1>1, <2>1, <2>2, <2>3, <2>4, <2>5, ChunkIn
<1> QED  BY <1>2, <1>3

-----------------------------------------------------------------------------
(* read(), from the read buffer. *)
LEMMA ReadIn == InInv /\ Read => InInv'
<1> SUFFICES ASSUME InInv, Read PROVE InInv'
  OBVIOUS
<1>1. PICK size \in ReadSizes :
        LET k == FromReadBuffer(size)
        IN  /\ received' = received \o Take(readBuffer, k)
            /\ readBuffer' = Drop(readBuffer, k)
            /\ need' = size - k
            /\ op' = IF k = size THEN "idle" ELSE "read"
  BY DEF Read
<1>2. /\ UNCHANGED <<flagRead, messageFlag, messageLeft, deletedFiles, readDataLength, inPipe,
                     remoteOut, remoteSent, remoteDeleted>>
  BY DEF Read, message, sender
<1>3. /\ received \in Seq(Nat) /\ readBuffer \in Seq(Nat)
      /\ Len(received) \in Nat /\ Len(readBuffer) \in Nat /\ size \in Nat
  BY LenProperties, StreamAssumption DEF InInv, InType
<1>4. PICK k \in 0 .. Len(readBuffer) : k = FromReadBuffer(size)
  BY <1>3 DEF FromReadBuffer
<1>5. k <= size /\ (k # size => k = Len(readBuffer)) /\ k \in Nat /\ size - k \in Nat
  BY <1>3, <1>4 DEF FromReadBuffer
<1>6. /\ received' = received \o Take(readBuffer, k) /\ readBuffer' = Drop(readBuffer, k)
      /\ need' = size - k /\ op' = IF k = size THEN "idle" ELSE "read"
  BY <1>1, <1>4
<1>7. /\ Take(readBuffer, k) \in Seq(Nat) /\ Drop(readBuffer, k) \in Seq(Nat)
      /\ Len(Take(readBuffer, k)) = k /\ Len(Drop(readBuffer, k)) = Len(readBuffer) - k
      /\ readBuffer = Take(readBuffer, k) \o Drop(readBuffer, k)
  <2>1. PICK b \in Seq(Nat) : b = readBuffer
    BY <1>3
  <2>2. k \in 0 .. Len(b)
    BY <2>1
  <2> QED  BY <2>1, <2>2, TakeDrop
<1>8. PICK v \in Seq(Nat) : v = Take(readBuffer, k)
  BY <1>7
<1>9. PICK w \in Seq(Nat) : w = Drop(readBuffer, k)
  BY <1>7
<1>10. PICK r \in Seq(Nat) : r = received
  BY <1>3
<1>11. r \o v \in Seq(Nat) /\ Len(r \o v) = Len(r) + k /\ (r \o v) \o w = r \o (v \o w)
  <2>1. Len(v) = k
    BY <1>7, <1>8
  <2>2. (r \o v) \o w = r \o (v \o w)
    BY NumbersAssociative
  <2> QED  BY <2>1, <2>2, ConcatProperties
<1>12. /\ received' = r \o v /\ received' \in Seq(Nat) /\ readBuffer' \in Seq(Nat)
       /\ received' \o readBuffer' = received \o readBuffer
       /\ Len(received') + Len(readBuffer') = Len(received) + Len(readBuffer)
  <2>1. Len(received') = Len(received) + k /\ Len(readBuffer') = Len(readBuffer) - k
    BY <1>6, <1>7, <1>8, <1>10, <1>11
  <2>2. (Len(received) + k) + (Len(readBuffer) - k) = Len(received) + Len(readBuffer)
    BY <1>3
  <2> QED  BY <1>6, <1>7, <1>8, <1>9, <1>10, <1>11, <2>1, <2>2
<1>13. op' = "read" => readBuffer' = <<>>
  <2>1. ASSUME op' = "read" PROVE Len(readBuffer') = 0
    BY <1>3, <1>5, <1>6, <1>7, <2>1
  <2> QED  BY <1>12, <2>1, EmptySeq
<1>14. InType' /\ InMode'
  BY <1>2, <1>5, <1>6, <1>12, <1>13 DEF InInv, InType, InMode
<1>15. UNCHANGED ClientAt
  BY <1>2, <1>12 DEF ClientAt
<1>16. (received \o readBuffer = Fresh(0, Len(received) + Len(readBuffer)))'
  BY <1>12 DEF InInv
<1> QED  BY <1>2, <1>14, <1>15, <1>16 DEF InInv

(* The remote side puts bytes on the wire. *)
LEMMA RemoteWriteIn == InInv /\ RemoteWrite => InInv'
<1> SUFFICES ASSUME InInv, RemoteWrite PROVE InInv'
  OBVIOUS
<1>1. PICK n \in 1 .. Len(remoteOut) :
        inPipe' = inPipe \o Take(remoteOut, n) /\ remoteOut' = Drop(remoteOut, n)
  BY DEF RemoteWrite
<1>2. UNCHANGED <<op, remoteSent, remoteDeleted, flagRead, messageFlag, messageLeft, deletedFiles,
                  readDataLength, readBuffer, need, received>>
  BY DEF RemoteWrite, message
<1>3. PICK a \in Seq(Byte) : a = inPipe
  BY DEF InInv, InType
<1>4. PICK b \in Seq(Byte) : b = remoteOut
  BY DEF InInv, InType
<1>5. n \in 0 .. Len(b)
  BY <1>4
<1>6. Take(b, n) \in Seq(Byte) /\ Drop(b, n) \in Seq(Byte) /\ b = Take(b, n) \o Drop(b, n)
  BY <1>5, TakeDrop
<1>7. PICK v \in Seq(Byte) : v = Take(b, n)
  BY <1>6
<1>8. PICK w \in Seq(Byte) : w = Drop(b, n)
  BY <1>6
<1>9. a \o v \in Seq(Byte) /\ (a \o v) \o w = a \o (v \o w)
  BY ConcatProperties, ConcatAssociative
<1>10. inPipe' \in Seq(Byte) /\ remoteOut' \in Seq(Byte) /\ inPipe' \o remoteOut' = inPipe \o remoteOut
  BY <1>1, <1>3, <1>4, <1>6, <1>7, <1>8, <1>9
<1>11. InType' /\ InMode'
  BY <1>2, <1>10 DEF InInv, InType, InMode
<1>12. UNCHANGED ClientAt
  BY <1>2 DEF ClientAt
<1> QED  BY <1>2, <1>10, <1>11, <1>12 DEF InInv

(* The remote side begins a message. *)
LEMMA RemoteSendIn == InInv /\ RemoteSend => InInv'
<1> SUFFICES ASSUME InInv, RemoteSend PROVE InInv'
  OBVIOUS
<1>1. PICK m \in Messages :
        \/ /\ m[1] = "data"
           /\ remoteOut' = Flag(m[1], m[2]) \o Data(Fresh(remoteSent, m[2]))
           /\ remoteSent' = remoteSent + m[2]
           /\ UNCHANGED remoteDeleted
        \/ /\ m[1] # "data"
           /\ remoteOut' = Flag(m[1], m[2]) \o Text(m[2])
           /\ remoteDeleted' = IF m[1] = "deleted" THEN remoteDeleted + 1 ELSE remoteDeleted
           /\ UNCHANGED remoteSent
  BY DEF RemoteSend
<1>2. /\ remoteOut = <<>>
      /\ UNCHANGED <<op, flagRead, messageFlag, messageLeft, deletedFiles,
                     readDataLength, readBuffer, need, received, inPipe>>
  BY DEF RemoteSend, reading, message
<1>3. m \in Kinds \X Nat
  BY StreamAssumption DEF Kinds
<1>4. PICK kind \in Kinds : kind = m[1]
  BY <1>3
<1>5. PICK length \in Nat : length = m[2]
  BY <1>3
<1>6. PICK count \in Nat : count = remoteSent
  BY DEF InInv, InType
<1>7. PICK deleted \in Nat : deleted = remoteDeleted
  BY DEF InInv, InType
<1>8. PICK a \in Seq(Byte) : a = inPipe
  BY DEF InInv, InType
<1>9. Reads(InSteps, a, ClientAt, Between(count, deleted))
  <2>1. a \o <<>> = a
    BY ConcatEmptySeq
  <2> QED  BY <1>2, <1>6, <1>7, <1>8, <2>1 DEF InInv
<1>10. /\ remoteSent' \in Nat /\ remoteDeleted' \in Nat /\ remoteOut' \in Seq(Byte)
       /\ Reads(InSteps, remoteOut', Between(count, deleted), Between(remoteSent', remoteDeleted'))
  <2>1. CASE kind = "data"
    <3>1. PICK w : w = Flag(kind, length) \o Data(Fresh(count, length))
      OBVIOUS
    <3>2. w \in Seq(Byte) /\ Reads(InSteps, w, Between(count, deleted), Between(count + length, deleted))
      BY <2>1, <3>1, ReadsMessage
    <3>3. remoteOut' = w /\ remoteSent' = count + length /\ remoteDeleted' = deleted
      BY <1>1, <1>4, <1>5, <1>6, <1>7, <2>1, <3>1
    <3>4. count + length \in Nat
      OBVIOUS
    <3> QED  BY <3>2, <3>3, <3>4
  <2>2. CASE kind # "data"
    <3>1. PICK w : w = Flag(kind, length) \o Text(length)
      OBVIOUS
    <3>2. w \in Seq(Byte)
          /\ Reads(InSteps, w, Between(count, deleted), Between(count, deleted + One(kind = "deleted")))
      BY <2>2, <3>1, ReadsMessage
    <3>3. deleted + One(kind = "deleted") = IF kind = "deleted" THEN deleted + 1 ELSE deleted
      BY DEF One
    <3>4. remoteOut' = w /\ remoteSent' = count /\ remoteDeleted' = deleted + One(kind = "deleted")
      BY <1>1, <1>4, <1>5, <1>6, <1>7, <2>2, <3>1, <3>3
    <3>5. deleted + One(kind = "deleted") \in Nat
      BY DEF One
    <3> QED  BY <3>2, <3>4, <3>5
  <2> QED  BY <2>1, <2>2
<1>11. Reads(InSteps, a \o remoteOut', ClientAt, Between(remoteSent', remoteDeleted'))
  <2>1. PICK w \in Seq(Byte) : w = remoteOut'
    BY <1>10
  <2>2. PICK s : s = ClientAt
    OBVIOUS
  <2>3. PICK t : t = Between(count, deleted)
    OBVIOUS
  <2>4. PICK u : u = Between(remoteSent', remoteDeleted')
    OBVIOUS
  <2>5. Reads(InSteps, a, s, t) /\ Reads(InSteps, w, t, u)
    BY <1>9, <1>10, <2>1, <2>2, <2>3, <2>4
  <2>6. Reads(InSteps, a \o w, s, u)
    BY <2>5, ReadsConcat
  <2> QED  BY <2>1, <2>2, <2>4, <2>6
<1>12. UNCHANGED ClientAt
  BY <1>2 DEF ClientAt
<1>13. Reads(InSteps, inPipe \o remoteOut, ClientAt, Between(remoteSent, remoteDeleted))'
  BY <1>2, <1>8, <1>11, <1>12
<1>14. InType' /\ InMode'
  BY <1>2, <1>10 DEF InInv, InType, InMode
<1>15. (received \o readBuffer = Fresh(0, Len(received) + Len(readBuffer)))'
  BY <1>2 DEF InInv
<1> QED  BY <1>13, <1>14, <1>15 DEF InInv

(* isDataAvailable reads a flag. *)
LEMMA PollIn == InInv /\ Poll => InInv'
<1> SUFFICES ASSUME InInv, Poll PROVE InInv'
  OBVIOUS
<1>1. readDataLength = 0 /\ messageLeft = 0 /\ ReadFlag /\ UNCHANGED sender
  BY DEF Poll, MidMessage, InInv, InMode
<1> QED  BY <1>1, ReadFlagIn

(* Whatever call it is part of, a message is read on. *)
LEMMA ReadMessageIn == InInv /\ ReadMessage => InInv'
<1> SUFFICES ASSUME InInv, ReadMessage PROVE InInv'
  OBVIOUS
<1>1. UNCHANGED sender /\ ((flagRead > 0 /\ ReadFlag) \/ ReadText)
  BY DEF ReadMessage
<1>2. CASE flagRead > 0 /\ ReadFlag
  <2>1. readDataLength = 0 /\ messageLeft = 0
    BY <1>2 DEF InInv, InType, InMode
  <2> QED  BY <1>1, <1>2, <2>1, ReadFlagIn
<1>3. CASE ReadText
  BY <1>1, <1>3, ReadTextIn
<1> QED  BY <1>1, <1>2, <1>3

(* The reading side: what is on its way is what the remote side sent, and the
   client is in the middle of it where its parser says. *)
THEOREM InIsInvariant == Spec => []InInv
<1>1. ASSUME InInv, [Next]_vars PROVE InInv'
  <2>1. CASE Write \/ Flush \/ DisableAutomaticFlush \/ TryFlushWriteBuffer \/ IsDataAvailable
               \/ WriteAll \/ RemoteRead \/ UNCHANGED vars
    BY <1>1, <2>1, OthersIn, IdleIn
  <2>2. CASE Read
    BY <1>1, <2>2, ReadIn
  <2>3. CASE WriteAllBlocked
    BY <1>1, <2>3, BlockedIn
  <2>4. CASE Poll
    BY <1>1, <2>4, PollIn
  <2>5. CASE ReadMessage
    BY <1>1, <2>5, ReadMessageIn
  <2>6. CASE ReadChunk
    BY <1>1, <2>6, ReadChunkIn
  <2>7. CASE RemoteSend
    BY <1>1, <2>7, RemoteSendIn
  <2>8. CASE RemoteWrite
    BY <1>1, <2>8, RemoteWriteIn
  <2> QED  BY <1>1, <2>1, <2>2, <2>3, <2>4, <2>5, <2>6, <2>7, <2>8 DEF Next, Client, Thread, Remote
<1> QED  BY <1>1, InitIn, PTL DEF Spec

(* Every deletion the remote side reports reaches d_deletedFiles once. *)
THEOREM DeletionsReachTheList == Spec => []DeletionsRecorded
<1>1. ASSUME InInv PROVE DeletionsRecorded
  <2>1. inPipe \in Seq(Byte) /\ remoteOut \in Seq(Byte)
        /\ Reads(InSteps, inPipe \o remoteOut, ClientAt, Between(remoteSent, remoteDeleted))
    BY <1>1 DEF InInv, InType
  <2>2. PICK t : /\ Reads(InSteps, inPipe, ClientAt, t)
                 /\ Reads(InSteps, remoteOut, t, Between(remoteSent, remoteDeleted))
    BY <2>1, ReadsSplit
  <2>3. ClientAt \in InState /\ ClientAt.deleted = deletedFiles + One(messageFlag = "deleted")
    BY <1>1, ClientShape
  <2>4. t \in InState
    BY <2>1, <2>2, <2>3, InData
  <2>5. t.deleted = ClientAt.deleted + DeletionsOf(inPipe) /\ DeletionsOf(inPipe) \in Nat
    BY <2>1, <2>2, <2>3, InDeletions
  <2>6. Between(remoteSent, remoteDeleted).deleted = t.deleted + DeletionsOf(remoteOut)
        /\ DeletionsOf(remoteOut) \in Nat
    BY <2>1, <2>2, <2>4, InDeletions
  <2>7. Between(remoteSent, remoteDeleted).deleted = remoteDeleted
    BY DEF Between, InAt
  <2> QED  BY <2>3, <2>5, <2>6, <2>7 DEF DeletionsRecorded, One
<1> QED  BY <1>1, InIsInvariant, PTL

(* What the client has been given is the beginning of what the remote side sent. *)
LEMMA InOrder ==
  ASSUME InInv
  PROVE  /\ received \in Seq(Nat) /\ remoteSent \in Nat /\ Len(received) <= remoteSent
         /\ received = [k \in 1 .. Len(received) |-> k]
<1>1. /\ received \in Seq(Nat) /\ readBuffer \in Seq(Nat) /\ remoteSent \in Nat
      /\ remoteDeleted \in Nat
      /\ inPipe \o remoteOut \in Seq(Byte)
      /\ Reads(InSteps, inPipe \o remoteOut, ClientAt, Between(remoteSent, remoteDeleted))
      /\ received \o readBuffer = Fresh(0, Len(received) + Len(readBuffer))
  BY ConcatProperties DEF InInv, InType
<1>2. ClientAt \in InState /\ ClientAt.count = Len(received) + Len(readBuffer)
      /\ Len(received) \in Nat /\ Len(readBuffer) \in Nat
  BY ClientShape
<1>3. ClientAt.count <= Between(remoteSent, remoteDeleted).count
  <2>1. PICK w \in Seq(Byte) : w = inPipe \o remoteOut
    BY <1>1
  <2>2. Reads(InSteps, w, ClientAt, Between(remoteSent, remoteDeleted))
    BY <1>1, <2>1
  <2> QED  BY <1>2, <2>2, InData
<1>4. Between(remoteSent, remoteDeleted).count = remoteSent
  BY DEF Between, InAt
<1>5. Len(received) <= remoteSent
  BY <1>1, <1>2, <1>3, <1>4
<1>6. PICK n \in Nat : n = Len(received) + Len(readBuffer)
  BY <1>2
<1>7. ASSUME NEW k \in 1 .. Len(received) PROVE received[k] = k
  <2>1. k \in 1 .. Len(received) + Len(readBuffer) /\ k <= Len(received) /\ k \in 1 .. n
    BY <1>2, <1>6
  <2>2. (received \o readBuffer)[k] = received[k]
    BY <1>1, <2>1, ConcatProperties
  <2>3. Fresh(0, n)[k] = 0 + k
    BY <2>1, FreshShape
  <2> QED  BY <1>1, <1>6, <2>1, <2>2, <2>3
<1>8. received = [k \in 1 .. Len(received) |-> received[k]]
  BY <1>1
<1> QED  BY <1>1, <1>5, <1>7, <1>8

(* What read() has handed over is never taken back. *)
LEMMA ReceivedGrows ==
  ASSUME InInv, Read \/ ReadChunk
  PROVE  \E v \in Seq(Nat) : received' = received \o v \/ received' = received
<1>1. CASE Read
  <2>1. PICK size \in ReadSizes : received' = received \o Take(readBuffer, FromReadBuffer(size))
    BY <1>1 DEF Read
  <2>2. readBuffer \in Seq(Nat) /\ Len(readBuffer) \in Nat /\ size \in Nat
    BY LenProperties, StreamAssumption DEF InInv, InType
  <2>3. PICK k \in 0 .. Len(readBuffer) : k = FromReadBuffer(size)
    BY <2>2 DEF FromReadBuffer
  <2>4. PICK b \in Seq(Nat) : b = readBuffer
    BY <2>2
  <2>5. k \in 0 .. Len(b)
    BY <2>4
  <2>6. Take(b, k) \in Seq(Nat)
    BY <2>5, TakeDrop
  <2> QED  BY <2>1, <2>3, <2>4, <2>6
<1>2. CASE ReadChunk
  <2>1. CASE ReadFlag
    <3>1. received' = received
      BY <2>1 DEF ReadFlag
    <3>2. <<>> \in Seq(Nat)
      BY EmptySeq
    <3> QED  BY <3>1, <3>2
  <2>2. CASE ~ReadFlag
    <3>1. PICK n \in 1 .. need :
            n <= Len(inPipe) /\ received' = received \o DataOf(Take(inPipe, n))
      BY <1>2, <2>2 DEF ReadChunk
    <3>2. n \in Nat
      BY DEF InInv, InType
    <3>3. PICK t : Reads(InSteps, Take(inPipe, n), ClientAt, t)
      BY <3>1, <3>2, InTake
    <3>4. PICK v \in Seq(Byte) : v = Take(inPipe, n)
      BY <3>1, <3>2, InTake
    <3>5. PICK s \in InState : s = ClientAt
      BY ClientShape
    <3>6. t \in InState /\ s.count <= t.count /\ DataOf(v) = Fresh(s.count, t.count - s.count)
      BY <3>3, <3>4, <3>5, InData
    <3>7. s.count \in Nat /\ t.count \in Nat
      BY <3>6 DEF InState
    <3>8. PICK c \in Nat : c = t.count - s.count
      <4>1. t.count - s.count \in Nat
        BY <3>6, <3>7
      <4> QED  BY <4>1
    <3>9. Fresh(s.count, c) \in Seq(Nat)
      BY <3>7, FreshShape
    <3> QED  BY <3>1, <3>4, <3>6, <3>8, <3>9
  <2> QED  BY <2>1, <2>2
<1> QED  BY <1>1, <1>2

(* The remote side and read() are the two ends of a byte channel. *)
THEOREM InboundIsChannel == Spec => InboundChannel
<1>1. Init => Inbound!Init
  BY DEF Init, Inbound!Init
<1> DEFINE Ordered == /\ received \in Seq(Nat) /\ remoteSent \in Nat /\ Len(received) <= remoteSent
                      /\ received = [k \in 1 .. Len(received) |-> k]
<1>2. ASSUME InInv PROVE Ordered
  BY <1>2, InOrder
<1>3. ASSUME InInv, Ordered, Ordered', [Next]_vars PROVE [Inbound!Next]_(Inbound!vars)
  <2>1. CASE RemoteSend
    <3>1. received' = received
      BY <2>1 DEF RemoteSend, reading
    <3>2. PICK m \in Messages : remoteSent' = remoteSent \/ remoteSent' = remoteSent + m[2]
      BY <2>1 DEF RemoteSend
    <3>3. m[2] \in Nat
      BY StreamAssumption
    <3>4. remoteSent' = remoteSent \/ remoteSent' > remoteSent
      BY <1>3, <3>2, <3>3
    <3> QED  BY <1>3, <3>1, <3>4 DEF Inbound!Next, Inbound!vars, Inbound!Accept
  <2>2. CASE Read \/ ReadChunk
    <3>1. remoteSent' = remoteSent
      BY <2>2 DEF Read, ReadChunk, sender
    <3>2. \E v \in Seq(Nat) : received' = received \o v \/ received' = received
      BY <1>3, <2>2, ReceivedGrows
    <3>3. Len(received') = Len(received) \/ Len(received') > Len(received)
      <4>1. PICK v \in Seq(Nat) : received' = received \o v \/ received' = received
        BY <3>2
      <4>2. Len(received \o v) = Len(received) + Len(v) /\ Len(v) \in Nat /\ Len(received) \in Nat
        BY <1>3, ConcatProperties, LenProperties
      <4> QED  BY <4>1, <4>2
    <3>4. CASE Len(received') = Len(received)
      BY <1>3, <3>1, <3>4 DEF Inbound!vars
    <3>5. CASE Len(received') > Len(received)
      BY <1>3, <3>1, <3>5 DEF Inbound!Next, Inbound!Deliver
    <3> QED  BY <3>3, <3>4, <3>5
  <2>3. CASE ~RemoteSend /\ ~Read /\ ~ReadChunk
    <3>1. UNCHANGED <<remoteSent, received>>
      BY <1>3, <2>3 DEF Next, Client, Thread, Remote, Write, Flush, DisableAutomaticFlush, TryFlushWriteBuffer,
           IsDataAvailable, WriteAll, WriteAllBlocked, Poll, ReadMessage, ReadFlag, ReadText, StashChunk,
           RemoteRead, RemoteWrite, vars, reading, sender
    <3> QED  BY <3>1 DEF Inbound!vars
  <2> QED  BY <2>1, <2>2, <2>3
<1>4. ASSUME InInv, InInv', [Next]_vars PROVE [Inbound!Next]_(Inbound!vars)
  <2>1. Ordered
    BY <1>2, <1>4
  <2>2. InInv' => Ordered'
    BY <1>2, PTL
  <2> HIDE DEF Ordered
  <2> QED  BY <1>3, <1>4, <2>1, <2>2
<1> HIDE DEF Ordered
<1> QED  BY <1>1, <1>4, InIsInvariant, PTL DEF Spec, InboundChannel, Inbound!Spec
-----------------------------------------------------------------------------
(* The upload limit: what writeAll does before it writes. *)

(* What is known of the buckets between two calls. *)
BucketInv ==
  /\ uploadLimit \in Nat
  /\ buckets \in Seq(Nat) /\ Len(buckets) <= 5
  /\ elapsed \in Nat /\ at \in Nat /\ ~runaway
  /\ buckets = <<>> => elapsed = 0
  /\ buckets # <<>> => at < Len(buckets) * Second

(* What division of natural numbers leaves. *)
LEMMA Quotient ==
  ASSUME NEW a \in Nat, NEW b \in Nat \ {0}
  PROVE  a \div b \in Nat /\ (a \div b) * b <= a /\ a < (a \div b) * b + b
OBVIOUS

(* A sum is made up of one number after the other. *)
LEMMA SumRuns ==
  ASSUME NEW list \in Seq(Nat)
  PROVE  \E s : /\ Sum(list) = s[Len(list)] /\ s[0] = 0
                /\ \A k \in 0 .. Len(list) : s[k] \in Nat
                /\ \A k \in 1 .. Len(list) : s[k] = s[k - 1] + list[k]
<1>1. PICK n \in Nat : n = Len(list) /\ \A k \in 1 .. n : list[k] \in Nat
  OBVIOUS
<1> DEFINE Eq(s) == s = [k \in 0 .. n |-> IF k = 0 THEN 0 ELSE s[k - 1] + list[k]]
<1> DEFINE G == [x \in Nat \X (1 .. n) |-> x[1] + list[x[2]]]
<1>2. PICK h : Stepwise(h, n, 0, G)
  BY <1>1, StepwiseExists
<1> HIDE DEF G
<1>3. h[0] = 0
  BY <1>2, Zenon DEF Stepwise
<1>4. \A k \in 1 .. n : h[k] = G[<<h[k - 1], k>>]
  BY <1>2, Zenon DEF Stepwise
<1> USE DEF G
<1> DEFINE T == {m \in 0 .. n : h[m] \in Nat}
<1>5. 0 .. n \subseteq T
  <2>1. 0 \in T
    BY <1>3
  <2>2. ASSUME NEW m \in 1 .. n, m - 1 \in T PROVE m \in T
    <3>1. h[m] = G[<<h[m - 1], m>>] /\ h[m - 1] \in Nat
      BY <1>4, <2>2
    <3>2. h[m] = h[m - 1] + list[m]
      BY <3>1
    <3> QED BY <1>1, <3>1, <3>2
  <2> HIDE DEF T
  <2> QED BY <1>1, <2>1, <2>2, InductionUpTo
<1>6. \A k \in 1 .. n : h[k] = h[k - 1] + list[k]
  <2> TAKE k \in 1 .. n
  <2>1. k - 1 \in 0 .. n
    OBVIOUS
  <2>2. h[k - 1] \in Nat
    BY <1>5, <2>1
  <2>3. G[<<h[k - 1], k>>] = h[k - 1] + list[k]
    BY <2>2
  <2> HIDE DEF G
  <2> QED BY <1>4, <2>3
<1> DEFINE f == [k \in 0 .. n |-> h[k]]
<1>7. Eq(f)
  <2>1. ASSUME NEW k \in 0 .. n
        PROVE  f[k] = IF k = 0 THEN 0 ELSE f[k - 1] + list[k]
    <3>1. CASE k = 0
      BY <1>3, <3>1
    <3>2. CASE k # 0
      <4>1. k \in 1 .. n /\ k - 1 \in 0 .. n
        BY <3>2
      <4> QED BY <1>6, <3>2, <4>1
    <3> QED BY <3>1, <3>2
  <2> QED BY <2>1
<1> DEFINE total == CHOOSE s : Eq(s)
<1>8. Eq(total)
  <2> HIDE DEF Eq, f
  <2> QED BY <1>7
<1>9. Sum(list) = total[n]
  BY <1>1 DEF Sum
<1>10. PICK s : s = total
  OBVIOUS
<1>11. s = [k \in 0 .. n |-> IF k = 0 THEN 0 ELSE s[k - 1] + list[k]]
  <2> HIDE DEF total
  <2> QED BY <1>8, <1>10
<1>12. s[0] = 0 /\ \A k \in 1 .. n : s[k] = s[k - 1] + list[k]
  <2> DEFINE F == [k \in 0 .. n |-> IF k = 0 THEN 0 ELSE s[k - 1] + list[k]]
  <2>1. F[0] = 0 /\ \A k \in 1 .. n : F[k] = s[k - 1] + list[k]
    BY <1>1
  <2> HIDE DEF F
  <2> QED BY <1>11, <2>1 DEF F
<1> DEFINE U == {m \in 0 .. n : s[m] \in Nat}
<1>13. 0 .. n \subseteq U
  <2>1. 0 \in U
    BY <1>1, <1>12
  <2>2. ASSUME NEW m \in 1 .. n, m - 1 \in U PROVE m \in U
    BY <1>1, <1>12, <2>2
  <2> HIDE DEF U
  <2> QED BY <1>1, <2>1, <2>2, InductionUpTo
<1>14. \A k \in 0 .. n : s[k] \in Nat
  BY <1>13
<1> HIDE DEF total
<1> QED BY <1>1, <1>9, <1>10, <1>12, <1>14, Zenon

(* A sum of natural numbers is one. *)
LEMMA SumIsNat ==
  ASSUME NEW list \in Seq(Nat)
  PROVE  Sum(list) \in Nat
<1>1. Len(list) \in 0 .. Len(list)
  OBVIOUS
<1> QED BY <1>1, SumRuns, Zenon

(* A sleep is no shorter than nothing. *)
LEMMA DelayIsNat ==
  ASSUME NEW sum \in Nat, NEW list, NEW time \in Nat,
         uploadLimit \in Nat \ {0}
  PROVE  DelayOf(sum, list, time) \in Nat
<1>1. Second \in Nat
  BY ThrottleAssumption
<1>2. sum * Second \in Nat
  BY <1>1
<1>3. (sum * Second) \div uploadLimit \in Nat
  BY <1>2, Quotient
<1> DEFINE q == (sum * Second) \div uploadLimit
<1> HIDE DEF q
<1>4. DelayOf(sum, list, time) =
        IF sum <= uploadLimit * Len(list) THEN 0 ELSE Higher(0, Lower(Second, q - time))
  BY DEF DelayOf, q
<1>5. Higher(0, Lower(Second, q - time)) \in Nat
  BY <1>1, <1>3 DEF Higher, Lower, q
<1> QED BY <1>4, <1>5

(* The two loops leave at most five buckets, the last of which reaches to the
   clock. *)
LEMMA LoopsEnd ==
  ASSUME BucketInv,
         NEW time, time = elapsed - Shifts * Second,
         NEW list, list = IF Started THEN Extended(Shifted(Shifts), time) ELSE FirstBucket
  PROVE  /\ time \in Nat
         /\ list \in Seq(Nat) /\ Len(list) \in 1 .. 5 /\ time < Len(list) * Second
<1>1. Second \in Nat \ {0} /\ elapsed \in Nat
  BY ThrottleAssumption DEF BucketInv
<1>2. PICK q \in Nat : q = elapsed \div Second
  BY <1>1, Quotient
<1>3. q * Second <= elapsed /\ elapsed < q * Second + Second
  BY <1>1, <1>2, Quotient
<1>4. time \in Nat /\ time < 5 * Second
  <2>1. CASE elapsed >= 5 * Second
    <3>1. Shifts = q - 4
      BY <1>2, <2>1 DEF Shifts, N
    <3>2. (q - 4) * Second = q * Second - 4 * Second
      BY <1>1
    <3>3. time = elapsed - (q * Second - 4 * Second)
      BY <3>1, <3>2
    <3>4. q * Second \in Nat
      BY <1>1
    <3> QED BY <1>1, <1>3, <3>3, <3>4
  <2>2. CASE ~(elapsed >= 5 * Second)
    <3>1. Shifts = 0
      BY <2>2 DEF Shifts, N
    <3> QED BY <1>1, <2>2, <3>1
  <2> QED BY <2>1, <2>2
<1>5. CASE ~Started
  <2>1. elapsed = 0 /\ list = FirstBucket
    BY <1>5 DEF BucketInv, Started
  <2>2. Shifts = 0
    BY <1>1, <2>1 DEF Shifts, N
  <2>3. time = 0
    BY <1>1, <2>1, <2>2
  <2>4. list \in Seq(Nat) /\ Len(list) = 1
    <3>1. \A k : k = FirstBucket => k \in Seq(Nat) /\ Len(k) = 1
      BY DEF FirstBucket
    <3> QED BY <2>1, <3>1, Zenon
  <2>5. Len(list) \in 1 .. 5 /\ time \in Nat /\ time < Len(list) * Second
    <3>1. time \in Nat /\ time < 1 * Second /\ 1 \in 1 .. 5
      BY <1>1, <2>3
    <3> QED BY <2>4, <3>1, Zenon
  <2> QED BY <2>4, <2>5, Zenon
<1>6. CASE Started
  <2>1. PICK m : m = Shifts
    OBVIOUS
  <2>2. PICK moved : moved = Shifted(m)
    OBVIOUS
  <2>3. buckets \in Seq(Nat) /\ Len(buckets) \in 1 .. 5 /\ DOMAIN buckets = 1 .. Len(buckets)
    <3>1. buckets \in Seq(Nat) /\ buckets # <<>> /\ Len(buckets) <= 5
      BY <1>6 DEF BucketInv, Started
    <3>2. \A s \in Seq(Nat) : /\ Len(s) \in Nat /\ DOMAIN s = 1 .. Len(s)
                              /\ Len(s) = 0 => s = <<>>
      BY EmptySeq, LenProperties
    <3>3. PICK l \in Nat : l = Len(buckets)
      BY <3>1, <3>2
    <3>4. l # 0 /\ l <= 5 /\ DOMAIN buckets = 1 .. l
      BY <3>1, <3>2, <3>3
    <3>5. l \in 1 .. 5
      BY <3>4
    <3> QED BY <3>1, <3>3, <3>4, <3>5, Zenon
  <2>4. moved \in [1 .. Len(buckets) -> Nat]
    BY <2>2, <2>3 DEF Shifted
  <2>5. Len(moved) = Len(buckets) /\ DOMAIN moved = 1 .. Len(buckets)
    BY <2>3, <2>4
  <2>6. PICK p \in Nat : p = time \div Second
    BY <1>1, <1>4, Quotient
  <2>7. p * Second <= time /\ time < p * Second + Second
    BY <1>1, <1>4, <2>6, Quotient
  <2>8. p <= 4
    <3> SUFFICES ASSUME p >= 5 PROVE FALSE
      OBVIOUS
    <3>1. p * Second >= 5 * Second
      BY <1>1
    <3> QED BY <1>1, <1>4, <2>7, <3>1
  <2>9. PICK n : n = Higher(Len(moved), p + 1)
    OBVIOUS
  <2>10. n \in 1 .. 5 /\ n >= p + 1
    <3>1. PICK l \in 1 .. 5 : l = Len(moved)
      BY <2>3, <2>5
    <3>2. n = Higher(l, p + 1)
      BY <2>9, <3>1
    <3>3. n = IF l < p + 1 THEN p + 1 ELSE l
      BY <3>2 DEF Higher
    <3> QED BY <2>8, <3>3
  <2>11. list = [k \in 1 .. n |-> IF k \in DOMAIN moved THEN moved[k] ELSE 0]
    BY <1>6, <2>1, <2>2, <2>6, <2>9 DEF Extended
  <2>12. list \in [1 .. n -> Nat]
    BY <2>4, <2>5, <2>11
  <2>13. list \in Seq(Nat) /\ Len(list) = n
    BY <2>10, <2>12
  <2>14. n * Second >= (p + 1) * Second
    BY <1>1, <2>10
  <2>15. (p + 1) * Second = p * Second + Second
    BY <1>1
  <2>16. time < n * Second
    <3>1. PICK a \in Nat, b \in Nat : a = p * Second /\ b = n * Second
      BY <1>1, <2>10
    <3> QED BY <1>1, <1>4, <2>7, <2>14, <2>15, <3>1
  <2> QED BY <1>4, <2>10, <2>13, <2>16
<1> QED BY <1>5, <1>6

(* A write keeps what is known of the buckets. *)
LEMMA WriteLimitedStep ==
  ASSUME BucketInv, uploadLimit # 0,
         NEW units \in Nat, WriteLimited(units), uploadLimit' \in Nat
  PROVE  BucketInv'
<1>1. PICK time : time = elapsed - Shifts * Second
  OBVIOUS
<1>2. PICK list : list = IF Started THEN Extended(Shifted(Shifts), time) ELSE FirstBucket
  OBVIOUS
<1>3. PICK kilobytes \in Nat : kilobytes = units \div Kilobyte
  BY Quotient, ThrottleAssumption
<1>4. PICK wait : wait = DelayOf(Sum(list) + kilobytes, list, time)
  OBVIOUS
<1>5. /\ at' = time
      /\ buckets' = [list EXCEPT ![Len(list)] = @ + kilobytes]
      /\ elapsed' = time + wait
      /\ UNCHANGED runaway
  BY <1>1, <1>2, <1>3, <1>4 DEF WriteLimited
<1>6. /\ time \in Nat
      /\ list \in Seq(Nat) /\ Len(list) \in 1 .. 5 /\ time < Len(list) * Second
  BY <1>1, <1>2, LoopsEnd
<1>7. wait \in Nat
  <2>1. PICK sum \in Nat : sum = Sum(list)
    BY <1>6, SumIsNat
  <2>2. sum + kilobytes \in Nat
    OBVIOUS
  <2>3. uploadLimit \in Nat \ {0}
    BY DEF BucketInv
  <2> QED BY <1>4, <1>6, <2>1, <2>2, <2>3, DelayIsNat
<1>8. buckets' \in Seq(Nat) /\ Len(buckets') = Len(list)
  <2>1. \A l \in 1 .. 5, s \in Seq(Nat) : Len(s) = l =>
          /\ [s EXCEPT ![l] = @ + kilobytes] \in Seq(Nat)
          /\ Len([s EXCEPT ![l] = @ + kilobytes]) = l
    OBVIOUS
  <2> QED BY <1>5, <1>6, <2>1, Zenon
<1>9. buckets' # <<>>
  BY <1>6, <1>8
<1>10. elapsed' \in Nat /\ at' \in Nat
  BY <1>5, <1>6, <1>7
<1>11. at' < Len(buckets') * Second
  BY <1>5, <1>6, <1>8
<1>12. ~runaway'
  BY <1>5 DEF BucketInv
<1>13. Len(buckets') <= 5
  <2>1. \A l \in 1 .. 5 : l <= 5
    OBVIOUS
  <2> QED BY <1>6, <1>8, <2>1, Zenon
<1> QED BY <1>8, <1>9, <1>10, <1>11, <1>12, <1>13 DEF BucketInv

(* What is known of the buckets stays known unless the clock is set back. *)
LEMMA BucketStep ==
  ASSUME BucketInv, Pause \/ SetUploadLimit \/ LimitedWriteAll \/ UNCHANGED throttleVars
  PROVE  BucketInv'
<1>1. CASE Pause
  BY <1>1, ThrottleAssumption DEF Pause, Started, BucketInv
<1>2. CASE SetUploadLimit
  BY <1>2, ThrottleAssumption DEF SetUploadLimit, BucketInv
<1>3. CASE LimitedWriteAll
  <2>1. PICK units \in LimitedWrites : IF elapsed < 0 THEN NeverCatchesUp ELSE WriteLimited(units)
    BY <1>3 DEF LimitedWriteAll
  <2>2. WriteLimited(units) /\ units \in Nat
    BY <2>1, ThrottleAssumption DEF BucketInv
  <2>3. uploadLimit # 0 /\ uploadLimit' \in Nat
    BY <1>3 DEF LimitedWriteAll, BucketInv
  <2> QED BY <2>2, <2>3, WriteLimitedStep
<1>4. CASE UNCHANGED throttleVars
  BY <1>4 DEF throttleVars, BucketInv
<1> QED BY <1>1, <1>2, <1>3, <1>4

(* Adding buckets comes to an end before every write, at five at most, and
   however long the pause was, what is counted is counted for a second that has
   not gone by, unless the clock is set back before the first bucket. *)
THEOREM BucketsStayFit ==
  ASSUME MaxBehind = 0
  PROVE  ThrottleSpec => []BucketsFit
<1>1. ThrottleInit => BucketInv
  BY ThrottleAssumption DEF ThrottleInit, BucketInv
<1>2. BucketInv /\ [ThrottleNext]_throttleVars => BucketInv'
  <2> SUFFICES ASSUME BucketInv, [ThrottleNext]_throttleVars PROVE BucketInv'
    OBVIOUS
  <2>1. CASE ClockStepsBack
    BY <2>1, ThrottleAssumption DEF ClockStepsBack, Started, BucketInv
  <2> QED BY <2>1, BucketStep DEF ThrottleNext
<1>3. BucketInv => BucketsFit
  BY DEF BucketInv, BucketsFit, N, Started
<1> QED BY <1>1, <1>2, <1>3, PTL DEF ThrottleSpec
-----------------------------------------------------------------------------
(* Why the upload limit is kept.

   What is paid back in some time, what is owed for some kilobytes, a number of
   seconds in ticks, and what the rate allows in a second, in units and ticks. *)
Back(ticks) == N * Rate * Kilobyte * ticks
Due(kilobytes) == 4 * Second * Kilobyte * kilobytes
Secs(k) == Second * k
Allowed == Rate * Kilobyte * Second

(* The rate is the limit or more. *)
LEMMA RateIs == ASSUME uploadLimit \in Nat PROVE Rate \in Nat /\ uploadLimit <= Rate
BY ThrottleAssumption DEF Rate, Higher

(* Products of numbers, as far as they are needed. *)
LEMMA Products ==
  ASSUME NEW f \in Nat
  PROVE  /\ f * 0 = 0
         /\ \A a, b \in Int : /\ f * a \in Int
                              /\ f * (a + b) = f * a + f * b /\ f * (a - b) = f * a - f * b
                              /\ a <= b => f * a <= f * b
OBVIOUS

(* What is paid back is in proportion to the time, *)
LEMMA BackIs ==
  ASSUME uploadLimit \in Nat
  PROVE  /\ Allowed \in Nat /\ Back(0) = 0 /\ Back(Second) = 5 * Allowed
         /\ \A a, b \in Int : /\ Back(a) \in Int
                              /\ Back(a + b) = Back(a) + Back(b) /\ Back(a - b) = Back(a) - Back(b)
                              /\ a <= b => Back(a) <= Back(b)
<1>1. Second \in Nat /\ Kilobyte \in Nat /\ Rate \in Nat
  BY ThrottleAssumption, RateIs
<1>2. PICK f \in Nat : f = N * Rate * Kilobyte
  BY <1>1 DEF N
<1>3. \A a : Back(a) = f * a
  BY <1>2, Zenon DEF Back
<1>4. Allowed \in Nat /\ f * Second = 5 * Allowed
  BY <1>1, <1>2 DEF Allowed, N
<1> QED BY <1>3, <1>4, Products, Zenon

(* what is owed to the kilobytes, *)
LEMMA DueIs ==
  ASSUME uploadLimit \in Nat
  PROVE  /\ Due(0) = 0 /\ Due(Rate) = 4 * Allowed
         /\ \A a, b \in Int : /\ Due(a) \in Int
                              /\ Due(a + b) = Due(a) + Due(b)
                              /\ a <= b => Due(a) <= Due(b)
<1>1. Second \in Nat /\ Kilobyte \in Nat /\ Rate \in Nat
  BY ThrottleAssumption, RateIs
<1>2. PICK f \in Nat : f = 4 * Second * Kilobyte
  BY <1>1
<1>3. \A a : Due(a) = f * a
  BY <1>2, Zenon DEF Due
<1>4. f * Rate = 4 * Allowed
  BY <1>1, <1>2 DEF Allowed
<1> QED BY <1>3, <1>4, Products, Zenon

(* and the ticks to the seconds. *)
LEMMA SecsIs ==
  /\ Secs(0) = 0 /\ Secs(1) = Second /\ Second \in Nat \ {0}
  /\ \A a, b \in Int : /\ Secs(a) \in Int
                       /\ Secs(a + b) = Secs(a) + Secs(b) /\ Secs(a - b) = Secs(a) - Secs(b)
                       /\ a <= b => Secs(a) <= Secs(b)
<1>1. Second \in Nat \ {0}
  BY ThrottleAssumption
<1>2. PICK f \in Nat \ {0} : f = Second
  BY <1>1
<1>3. \A a : Secs(a) = f * a
  BY <1>2, Zenon DEF Secs
<1>4. f * 1 = f /\ f \in Nat
  OBVIOUS
<1> QED BY <1>1, <1>2, <1>3, <1>4, Products, Zenon
-----------------------------------------------------------------------------
(* What is in a bucket, and in the buckets from one on. *)
Held(list, k) == IF k \in DOMAIN list THEN list[k] ELSE 0

From(list, j) ==
  (IF j <= 1 THEN Held(list, 1) ELSE 0) + (IF j <= 2 THEN Held(list, 2) ELSE 0)
    + (IF j <= 3 THEN Held(list, 3) ELSE 0) + (IF j <= 4 THEN Held(list, 4) ELSE 0)
    + (IF j <= 5 THEN Held(list, 5) ELSE 0)

(* What is left after some time of the most that may be owed. *)
Line(ticks) == 24 * Allowed - Back(ticks)

(* Why the limit is kept, when e ticks have gone by since the first bucket began
   and d is owed.  At the beginning of every bucket the most was owed that ever
   may be, or nothing, and since then it has grown by what is in the buckets and
   has been paid back.  Where the last bucket is past, it is as if another had
   begun at its end, although the write that waited until then is counted before. *)
Bounds(list, e, d) ==
  LET n == Len(list) IN
  /\ Secs(n - 1) <= e
  /\ n < 5 => d <= Due(From(list, 1))
  /\ \A j \in 1 .. n : \/ d <= Due(From(list, j))
                       \/ d <= Line(e - Secs(j - 1)) + Due(From(list, j))
  /\ Secs(n) <= e => d <= 0 \/ d <= Line(e - Secs(n))
  /\ e < Secs(n) => d <= 20 * Allowed \/ d <= Line(e - Secs(n - 1))

(* A bucket holds a number. *)
LEMMA HeldIsNat ==
  ASSUME NEW list \in Seq(Nat), NEW k
  PROVE  Held(list, k) \in Nat
BY DEF Held

(* So do all from one on. *)
LEMMA FromIsNat ==
  ASSUME NEW list \in Seq(Nat), NEW j \in Int
  PROVE  From(list, j) \in Nat
<1>1. PICK a, b, c, d, e \in Nat :
        /\ a = Held(list, 1) /\ b = Held(list, 2) /\ c = Held(list, 3) /\ d = Held(list, 4)
        /\ e = Held(list, 5)
  BY HeldIsNat
<1>2. From(list, j) = (IF j <= 1 THEN a ELSE 0) + (IF j <= 2 THEN b ELSE 0)
                        + (IF j <= 3 THEN c ELSE 0) + (IF j <= 4 THEN d ELSE 0)
                        + (IF j <= 5 THEN e ELSE 0)
  BY <1>1, Zenon DEF From
<1> QED BY <1>2

(* Buckets that are added last hold nothing. *)
LEMMA FromBehind ==
  ASSUME NEW list \in Seq(Nat), NEW j \in Int, Len(list) < j
  PROVE  From(list, j) = 0
<1>1. PICK a, b, c, d, e \in Nat :
        /\ a = Held(list, 1) /\ b = Held(list, 2) /\ c = Held(list, 3) /\ d = Held(list, 4)
        /\ e = Held(list, 5)
  BY HeldIsNat
<1>2. From(list, j) = (IF j <= 1 THEN a ELSE 0) + (IF j <= 2 THEN b ELSE 0)
                        + (IF j <= 3 THEN c ELSE 0) + (IF j <= 4 THEN d ELSE 0)
                        + (IF j <= 5 THEN e ELSE 0)
  BY <1>1, Zenon DEF From
<1>3. \A k \in Nat : Len(list) < k => Held(list, k) = 0
  BY DEF Held
<1>4. /\ j <= 1 => a = 0
      /\ j <= 2 => b = 0
      /\ j <= 3 => c = 0
      /\ j <= 4 => d = 0
      /\ j <= 5 => e = 0
  BY <1>1, <1>3
<1> QED BY <1>2, <1>4

(* The sum is of the buckets from the first one on. *)
LEMMA SumIsFromFirst ==
  ASSUME NEW list \in Seq(Nat), Len(list) \in 1 .. 5
  PROVE  Sum(list) = From(list, 1)
<1> DEFINE Runs(s, n) == /\ Sum(list) = s[n] /\ s[0] = 0
                         /\ \A k \in 0 .. n : s[k] \in Nat
                         /\ \A k \in 1 .. n : s[k] = s[k - 1] + list[k]
<1>1. PICK s : Runs(s, Len(list))
  BY SumRuns
<1> HIDE DEF Runs
<1>2. PICK n \in 1 .. 5 : n = Len(list)
  OBVIOUS
<1>3. Runs(s, n)
  BY <1>1, <1>2, Zenon
<1>4. /\ Sum(list) = s[n] /\ s[0] = 0
      /\ \A k \in 0 .. n : s[k] \in Nat
      /\ \A k \in 1 .. n : s[k] = s[k - 1] + list[k]
  BY <1>3, Zenon DEF Runs
<1>5. \A k \in 1 .. n : list[k] \in Nat /\ Held(list, k) = list[k]
  BY <1>2 DEF Held
<1>6. \A k \in 1 .. 5 : k > n => Held(list, k) = 0
  BY <1>2 DEF Held
<1>7. PICK a, b, c, d, e \in Nat :
        /\ a = Held(list, 1) /\ b = Held(list, 2) /\ c = Held(list, 3) /\ d = Held(list, 4)
        /\ e = Held(list, 5)
  BY HeldIsNat
<1>8. From(list, 1) = a + b + c + d + e
  <2>1. From(list, 1) = (IF 1 <= 1 THEN a ELSE 0) + (IF 1 <= 2 THEN b ELSE 0)
                        + (IF 1 <= 3 THEN c ELSE 0) + (IF 1 <= 4 THEN d ELSE 0)
                        + (IF 1 <= 5 THEN e ELSE 0)
    BY <1>7, Zenon DEF From
  <2> QED BY <2>1
<1>9. /\ s[1] = a
      /\ n >= 2 => s[2] = s[1] + b
      /\ n >= 3 => s[3] = s[2] + c
      /\ n >= 4 => s[4] = s[3] + d
      /\ n >= 5 => s[5] = s[4] + e
  <2>1. \A k \in 1 .. n : s[k] = s[k - 1] + Held(list, k)
    BY <1>4, <1>5, Zenon
  <2>2. s[1] = s[0] + a
    <3>1. 1 \in 1 .. n /\ 1 - 1 = 0
      OBVIOUS
    <3> QED BY <1>7, <2>1, <3>1, Zenon
  <2>3. s[1] = a
    BY <1>4, <2>2
  <2>4. ASSUME NEW k \in 2 .. 5, n >= k PROVE s[k] = s[k - 1] + Held(list, k)
    <3>1. k \in 1 .. n
      BY <2>4
    <3> QED BY <2>1, <3>1, Zenon
  <2>5. \A k \in 2 .. 5 : n >= k => s[k] = s[k - 1] + Held(list, k)
    BY <2>4, Zenon
  <2>6. /\ 2 \in 2 .. 5 /\ 3 \in 2 .. 5 /\ 4 \in 2 .. 5 /\ 5 \in 2 .. 5
        /\ 2 - 1 = 1 /\ 3 - 1 = 2 /\ 4 - 1 = 3 /\ 5 - 1 = 4
    OBVIOUS
  <2> QED BY <1>7, <2>3, <2>5, <2>6, Zenon
<1>10. (n < 2 => b = 0) /\ (n < 3 => c = 0) /\ (n < 4 => d = 0) /\ (n < 5 => e = 0)
  BY <1>6, <1>7
<1>11. s[n] = a + b + c + d + e
  <2>1. CASE n = 1
    BY <1>9, <1>10, <2>1
  <2>2. CASE n = 2
    BY <1>9, <1>10, <2>2
  <2>3. CASE n = 3
    BY <1>9, <1>10, <2>3
  <2>4. CASE n = 4
    BY <1>9, <1>10, <2>4
  <2>5. CASE n = 5
    BY <1>9, <1>10, <2>5
  <2> QED BY <2>1, <2>2, <2>3, <2>4, <2>5
<1> QED BY <1>4, <1>8, <1>11

(* Five numbers, added up from one on. *)
Added(h, j) ==
  (IF j <= 1 THEN h[1] ELSE 0) + (IF j <= 2 THEN h[2] ELSE 0) + (IF j <= 3 THEN h[3] ELSE 0)
    + (IF j <= 4 THEN h[4] ELSE 0) + (IF j <= 5 THEN h[5] ELSE 0)

(* The last of them grows. *)
LEMMA LastGrows ==
  ASSUME NEW h \in [1 .. 5 -> Nat], NEW g, NEW n \in 1 .. 5, NEW f \in Nat, NEW j \in 1 .. n,
         \A k \in 1 .. 5 : g[k] = h[k] + (IF k = n THEN f ELSE 0)
  PROVE  Added(g, j) = Added(h, j) + f
<1>1. PICK a, b, c, d, e \in Nat : a = h[1] /\ b = h[2] /\ c = h[3] /\ d = h[4] /\ e = h[5]
  OBVIOUS
<1>2. /\ g[1] = a + (IF 1 = n THEN f ELSE 0) /\ g[2] = b + (IF 2 = n THEN f ELSE 0)
      /\ g[3] = c + (IF 3 = n THEN f ELSE 0) /\ g[4] = d + (IF 4 = n THEN f ELSE 0)
      /\ g[5] = e + (IF 5 = n THEN f ELSE 0)
  BY <1>1
<1>3. CASE n = 1
  BY <1>1, <1>2, <1>3 DEF Added
<1>4. CASE n = 2
  BY <1>1, <1>2, <1>4 DEF Added
<1>5. CASE n = 3
  BY <1>1, <1>2, <1>5 DEF Added
<1>6. CASE n = 4
  BY <1>1, <1>2, <1>6 DEF Added
<1>7. CASE n = 5
  BY <1>1, <1>2, <1>7 DEF Added
<1> QED BY <1>3, <1>4, <1>5, <1>6, <1>7

(* A bucket that counts more. *)
Grown(list, n, f) == [list EXCEPT ![n] = @ + f]

(* What is counted in the last bucket is in all from any one on. *)
LEMMA FromGrows ==
  ASSUME NEW list \in Seq(Nat), NEW n \in 1 .. 5, n = Len(list), NEW f \in Nat
  PROVE  /\ Grown(list, n, f) \in Seq(Nat) /\ Len(Grown(list, n, f)) = n
         /\ \A j \in 1 .. n : From(Grown(list, n, f), j) = From(list, j) + f
<1>0. PICK more : more = [list EXCEPT ![n] = @ + f]
  OBVIOUS
<1>1. more \in Seq(Nat) /\ Len(more) = n
  BY <1>0
<1>2. \A k \in 1 .. 5 : Held(more, k) = Held(list, k) + (IF k = n THEN f ELSE 0)
  <2>1. DOMAIN list = 1 .. n /\ DOMAIN more = 1 .. n
    BY <1>1
  <2>2. \A k \in 1 .. n : more[k] = IF k = n THEN list[k] + f ELSE list[k]
    BY <1>0, <2>1
  <2>3. \A k \in 1 .. n : list[k] \in Nat
    BY <2>1
  <2>4. ASSUME NEW k \in 1 .. 5 PROVE Held(more, k) = Held(list, k) + (IF k = n THEN f ELSE 0)
    <3>1. CASE k \in 1 .. n
      BY <2>1, <2>2, <2>3, <3>1 DEF Held
    <3>2. CASE k \notin 1 .. n
      <4>1. Held(more, k) = 0 /\ Held(list, k) = 0
        BY <2>1, <3>2, Zenon DEF Held
      <4>2. k # n
        BY <3>2
      <4> QED BY <4>1, <4>2
    <3> QED BY <3>1, <3>2
  <2> QED BY <2>4, Zenon
<1>3. 1 \in 1 .. 5 /\ 2 \in 1 .. 5 /\ 3 \in 1 .. 5 /\ 4 \in 1 .. 5 /\ 5 \in 1 .. 5
  OBVIOUS
<1>4. ASSUME NEW j \in 1 .. n PROVE From(more, j) = From(list, j) + f
  <2> DEFINE h == [k \in 1 .. 5 |-> Held(list, k)]
             g == [k \in 1 .. 5 |-> Held(more, k)]
  <2>1. \A k \in 1 .. 5 : h[k] = Held(list, k) /\ g[k] = Held(more, k)
    OBVIOUS
  <2>2. h \in [1 .. 5 -> Nat]
    BY HeldIsNat
  <2> HIDE DEF h, g
  <2>3. \A k \in 1 .. 5 : g[k] = h[k] + (IF k = n THEN f ELSE 0)
    BY <1>2, <2>1, Zenon
  <2>4. Added(g, j) = Added(h, j) + f
    BY <2>2, <2>3, LastGrows, Zenon
  <2>5. Added(g, j) = From(more, j) /\ Added(h, j) = From(list, j)
    BY <1>3, <2>1, Zenon DEF Added, From
  <2> QED BY <2>4, <2>5, Zenon
<1> QED BY <1>0, <1>1, <1>4, Zenon DEF Grown

(* Dropping the oldest buckets leaves the others. *)
LEMMA FromShifted ==
  ASSUME NEW old \in Seq(Nat), Len(old) <= 5, NEW m \in Nat, NEW list \in Seq(Nat),
         \A k \in Nat \ {0} : Held(list, k) = Held(old, k + m),
         NEW j \in 1 .. 5
  PROVE  From(list, j) = From(old, j + m)
<1>1. \A k \in Nat : k > 5 => Held(old, k) = 0
  BY DEF Held
<1>2. PICK a, b, c, d, e \in Nat :
        /\ a = Held(old, 1) /\ b = Held(old, 2) /\ c = Held(old, 3) /\ d = Held(old, 4)
        /\ e = Held(old, 5)
  BY HeldIsNat
<1>3. PICK v, w, x, y, z \in Nat :
        /\ v = Held(list, 1) /\ w = Held(list, 2) /\ x = Held(list, 3) /\ y = Held(list, 4)
        /\ z = Held(list, 5)
  BY HeldIsNat
<1>4. PICK k \in Nat : k = j + m
  OBVIOUS
<1>5. From(old, k) = (IF k <= 1 THEN a ELSE 0) + (IF k <= 2 THEN b ELSE 0)
                        + (IF k <= 3 THEN c ELSE 0) + (IF k <= 4 THEN d ELSE 0)
                        + (IF k <= 5 THEN e ELSE 0)
  BY <1>2, Zenon DEF From
<1>6. From(list, j) = (IF j <= 1 THEN v ELSE 0) + (IF j <= 2 THEN w ELSE 0)
                        + (IF j <= 3 THEN x ELSE 0) + (IF j <= 4 THEN y ELSE 0)
                        + (IF j <= 5 THEN z ELSE 0)
  BY <1>3, Zenon DEF From
<1>7. /\ v = Held(old, 1 + m) /\ w = Held(old, 2 + m) /\ x = Held(old, 3 + m)
      /\ y = Held(old, 4 + m) /\ z = Held(old, 5 + m)
  BY <1>3
<1>8. CASE m = 0
  <2>1. v = a /\ w = b /\ x = c /\ y = d /\ z = e
    BY <1>2, <1>7, <1>8
  <2> QED BY <1>4, <1>5, <1>6, <1>8, <2>1
<1>9. CASE m = 1
  <2>1. v = b /\ w = c /\ x = d /\ y = e /\ z = 0
    BY <1>1, <1>2, <1>7, <1>9
  <2> QED BY <1>4, <1>5, <1>6, <1>9, <2>1
<1>10. CASE m = 2
  <2>1. v = c /\ w = d /\ x = e /\ y = 0 /\ z = 0
    BY <1>1, <1>2, <1>7, <1>10
  <2> QED BY SMTT(60), <1>4, <1>5, <1>6, <1>10, <2>1
<1>11. CASE m = 3
  <2>1. v = d /\ w = e /\ x = 0 /\ y = 0 /\ z = 0
    BY <1>1, <1>2, <1>7, <1>11
  <2> QED BY SMTT(60), <1>4, <1>5, <1>6, <1>11, <2>1
<1>12. CASE m = 4
  <2>1. v = e /\ w = 0 /\ x = 0 /\ y = 0 /\ z = 0
    BY <1>1, <1>2, <1>7, <1>12
  <2>2. CASE j = 1
    BY <1>4, <1>5, <1>6, <1>12, <2>1, <2>2
  <2>3. CASE j > 1
    BY <1>4, <1>5, <1>6, <1>12, <2>1, <2>3
  <2> QED BY <2>2, <2>3
<1>13. CASE m > 4
  <2>1. v = 0 /\ w = 0 /\ x = 0 /\ y = 0 /\ z = 0
    BY <1>1, <1>7, <1>13
  <2> QED BY SMTT(60), <1>4, <1>5, <1>6, <1>13, <2>1
<1> QED BY <1>8, <1>9, <1>10, <1>11, <1>12, <1>13

(* The two loops drop m of the oldest buckets, so that the last of five is the one
   the clock is in, and then extend the others to the clock. *)
LEMMA LoopsMove ==
  ASSUME BucketInv, Started,
         NEW time, time = elapsed - Shifts * Second,
         NEW list, list = Extended(Shifted(Shifts), time)
  PROVE  \E m \in Nat :
           /\ time = elapsed - Secs(m)
           /\ m = 0 \/ Secs(4) <= time
           /\ Len(list) = Len(buckets) \/ Secs(Len(list) - 1) <= time
           /\ Len(list) >= Len(buckets)
           /\ \A k \in Nat \ {0} : Held(list, k) = Held(buckets, k + m)
<1>1. Second \in Nat \ {0} /\ elapsed \in Nat
  BY ThrottleAssumption DEF BucketInv
<1>2. PICK q \in Nat : q = elapsed \div Second
  BY <1>1, Quotient
<1>3. q * Second <= elapsed /\ elapsed < q * Second + Second
  BY <1>1, <1>2, Quotient
<1>4. PICK m \in Nat : m = Shifts
  <2>1. CASE elapsed >= 5 * Second
    <3>1. Shifts = q - 4
      BY <1>2, <2>1 DEF Shifts, N
    <3>2. q >= 4
      <4> SUFFICES ASSUME q <= 3 PROVE FALSE
        OBVIOUS
      <4>1. q * Second <= 3 * Second
        BY <1>1
      <4> QED BY <1>1, <1>3, <2>1, <4>1
    <3> QED BY <3>1, <3>2
  <2>2. CASE ~(elapsed >= 5 * Second)
    <3>1. Shifts = 0
      BY <2>2 DEF Shifts, N
    <3> QED BY <3>1
  <2> QED BY <2>1, <2>2
<1>5. /\ time \in Nat /\ list \in Seq(Nat) /\ Len(list) \in 1 .. 5
  <2>1. list = IF Started THEN Extended(Shifted(Shifts), time) ELSE FirstBucket
    OBVIOUS
  <2> QED BY <2>1, LoopsEnd
<1>6. time = elapsed - Secs(m)
  BY <1>1, <1>4 DEF Secs
<1>7. m = 0 \/ Secs(4) <= time
  <2>1. CASE elapsed >= 5 * Second
    <3>1. m = q - 4
      BY <1>2, <1>4, <2>1 DEF Shifts, N
    <3>2. Secs(m) = Secs(q) - Secs(4)
      <4>1. q \in Int /\ 4 \in Int
        BY <1>2
      <4> QED BY <3>1, <4>1, SecsIs, Zenon
    <3>3. Secs(q) = q * Second
      BY <1>1 DEF Secs
    <3>4. Secs(q) \in Int /\ Secs(4) \in Int /\ Secs(m) \in Int
      <4>1. q \in Int /\ 4 \in Int /\ m \in Int
        BY <1>2, <1>4
      <4> QED BY <4>1, SecsIs, Zenon
    <3> QED BY <1>1, <1>3, <1>6, <3>2, <3>3, <3>4
  <2>2. CASE ~(elapsed >= 5 * Second)
    BY <1>4, <2>2 DEF Shifts, N
  <2> QED BY <2>1, <2>2
<1>8. PICK l \in 1 .. 5 : l = Len(buckets) /\ DOMAIN buckets = 1 .. l /\ buckets \in [1 .. l -> Nat]
  <2>1. buckets \in Seq(Nat) /\ buckets # <<>> /\ Len(buckets) <= 5
    BY DEF BucketInv, Started
  <2>2. \A s \in Seq(Nat) : /\ Len(s) \in Nat /\ DOMAIN s = 1 .. Len(s) /\ s \in [1 .. Len(s) -> Nat]
                            /\ Len(s) = 0 => s = <<>>
    BY EmptySeq, LenProperties
  <2>3. PICK l \in Nat : l = Len(buckets)
    BY <2>1, <2>2
  <2>4. l # 0 /\ l <= 5 /\ DOMAIN buckets = 1 .. l /\ buckets \in [1 .. l -> Nat]
    BY <2>1, <2>2, <2>3
  <2>5. l \in 1 .. 5
    BY <2>4
  <2> QED BY <2>3, <2>4, <2>5, Zenon
<1>9. PICK moved : moved = Shifted(m)
  OBVIOUS
<1>10. moved = [k \in 1 .. l |-> IF k + m \in 1 .. l THEN buckets[k + m] ELSE 0]
  BY <1>8, <1>9, Zenon DEF Shifted
<1>11. Len(moved) = l /\ DOMAIN moved = 1 .. l
  <2>1. moved \in [1 .. l -> Nat]
    BY <1>8, <1>10
  <2> QED BY <1>8, <2>1
<1>12. PICK p \in Nat : p = time \div Second
  BY <1>1, <1>5, Quotient
<1>13. Secs(p) <= time
  <2>1. p * Second <= time
    BY <1>1, <1>5, <1>12, Quotient
  <2>2. Secs(p) = p * Second
    BY <1>1 DEF Secs
  <2> QED BY <2>1, <2>2
<1>14. PICK n \in Nat : n = Higher(l, p + 1) /\ n >= l /\ (n = l \/ n = p + 1)
  <2>1. \A a, b \in Nat : /\ Higher(a, b + 1) \in Nat /\ Higher(a, b + 1) >= a
                          /\ Higher(a, b + 1) = a \/ Higher(a, b + 1) = b + 1
    BY DEF Higher
  <2>2. l \in Nat
    OBVIOUS
  <2> QED BY <1>12, <2>1, <2>2, Zenon
<1>15. n >= l /\ (n = l \/ n = p + 1)
  BY <1>14, Zenon
<1>16. list = [k \in 1 .. n |-> IF k \in 1 .. l THEN moved[k] ELSE 0]
  BY <1>4, <1>9, <1>11, <1>12, <1>14, Zenon DEF Extended
<1>17. Len(list) = n /\ DOMAIN list = 1 .. n
  <2>1. DOMAIN list = 1 .. n
    BY <1>16
  <2>2. \A s \in Seq(Nat) : Len(s) \in Nat /\ DOMAIN s = 1 .. Len(s)
    BY LenProperties
  <2>3. PICK o \in Nat : o = Len(list) /\ 1 .. o = 1 .. n
    BY <1>5, <2>1, <2>2
  <2>4. o = n
    <3>1. o \in 1 .. o <=> o \in 1 .. n
      BY <2>3
    <3>2. n \in 1 .. o <=> n \in 1 .. n
      BY <2>3
    <3> QED BY <3>1, <3>2
  <2> QED BY <2>1, <2>3, <2>4
<1>18. ASSUME NEW k \in Nat \ {0} PROVE Held(list, k) = Held(buckets, k + m)
  <2>1. k + m \in Nat \ {0}
    OBVIOUS
  <2>2. CASE k \in 1 .. l
    <3>1. k \in 1 .. n
      BY <1>15, <2>2
    <3>2. list[k] = IF k + m \in 1 .. l THEN buckets[k + m] ELSE 0
      BY <1>10, <1>16, <2>2, <3>1
    <3> QED BY <1>8, <1>17, <3>1, <3>2, Zenon DEF Held
  <2>3. CASE k \notin 1 .. l
    <3>1. k + m \notin 1 .. l
      BY <2>3
    <3>2. Held(buckets, k + m) = 0
      BY <1>8, <3>1, Zenon DEF Held
    <3>3. k \in 1 .. n => list[k] = 0
      BY <1>16, <2>3
    <3> QED BY <1>17, <3>2, <3>3, Zenon DEF Held
  <2> QED BY <2>2, <2>3
<1>19. Len(list) = Len(buckets) \/ Secs(Len(list) - 1) <= time
  <2>1. CASE n = l
    BY <1>8, <1>17, <2>1, Zenon
  <2>2. CASE n = p + 1
    <3>1. n - 1 = p
      BY <2>2
    <3> QED BY <1>13, <1>17, <3>1, Zenon
  <2> QED BY <1>15, <2>1, <2>2
<1>20. Len(list) >= Len(buckets)
  BY <1>8, <1>15, <1>17, Zenon
<1> QED BY <1>6, <1>7, <1>18, <1>19, <1>20, Zenon

(* The line falls. *)
LEMMA LineIs ==
  ASSUME uploadLimit \in Nat
  PROVE  /\ Line(0) = 24 * Allowed /\ 24 * Allowed \in Nat /\ 20 * Allowed \in Nat
         /\ \A a, b \in Int : /\ Line(a) \in Int
                              /\ Line(a + b) = Line(a) - Back(b)
                              /\ a <= b => Line(b) <= Line(a)
<1>1. Allowed \in Nat
  BY BackIs
<1>2. \A q \in Nat : 24 * q \in Nat /\ 24 * q - 0 = 24 * q /\ 20 * q \in Nat
  OBVIOUS
<1>3. \A f, u, v \in Int : /\ f - u \in Int /\ f - (u + v) = (f - u) - v
                           /\ u <= v => f - v <= f - u
  OBVIOUS
<1>4. \A q \in Nat : q \in Int
  OBVIOUS
<1>5. 24 * Allowed \in Nat /\ 20 * Allowed \in Nat /\ 24 * Allowed \in Int
  BY <1>1, <1>2, <1>4, Zenon
<1>6. Line(0) = 24 * Allowed
  BY <1>1, <1>2, BackIs, Zenon DEF Line
<1>7. \A a, b \in Int : /\ Back(a) \in Int /\ Back(b) \in Int /\ Back(a + b) = Back(a) + Back(b)
                        /\ a <= b => Back(a) <= Back(b)
  BY BackIs, Zenon
<1>8. ASSUME NEW a \in Int, NEW b \in Int
      PROVE  Line(a) \in Int /\ Line(a + b) = Line(a) - Back(b) /\ (a <= b => Line(b) <= Line(a))
  <2>1. Back(a) \in Int /\ Back(b) \in Int /\ Back(a + b) = Back(a) + Back(b)
    BY <1>7, Zenon
  <2>2. Line(a) \in Int
    BY <1>3, <1>5, <2>1, Zenon DEF Line
  <2>3. 24 * Allowed - (Back(a) + Back(b)) = (24 * Allowed - Back(a)) - Back(b)
    <3>1. \A f, u, v \in Int : f - (u + v) = (f - u) - v
      OBVIOUS
    <3> QED BY <1>5, <2>1, <3>1, Zenon
  <2>4. Line(a + b) = Line(a) - Back(b)
    BY <2>1, <2>3, Zenon DEF Line
  <2>5. a <= b => Line(b) <= Line(a)
    BY <1>3, <1>5, <1>7, <2>1, Zenon DEF Line
  <2> QED BY <2>2, <2>4, <2>5, Zenon
<1> QED BY <1>5, <1>6, <1>8, Zenon

(* The parts of Bounds. *)
Reached(n, e) == Secs(n - 1) <= e
Filling(list, n, d) == n < 5 => d <= Due(From(list, 1))
Since(list, j, e, d) == \/ d <= Due(From(list, j))
                        \/ d <= Line(e - Secs(j - 1)) + Due(From(list, j))
Past(n, e, d) == Secs(n) <= e => d <= 0 \/ d <= Line(e - Secs(n))
Current(n, e, d) == e < Secs(n) => d <= 20 * Allowed \/ d <= Line(e - Secs(n - 1))

(* They are the whole. *)
LEMMA PartsOfBounds ==
  ASSUME NEW list, NEW n, n = Len(list), NEW e, NEW d
  PROVE  Bounds(list, e, d) <=> /\ Reached(n, e) /\ Filling(list, n, d)
                                /\ \A j \in 1 .. n : Since(list, j, e, d)
                                /\ Past(n, e, d) /\ Current(n, e, d)
BY Zenon DEF Bounds, Reached, Filling, Since, Past, Current

(* n buckets have become r, the first m of them dropped. *)
Moves(old, n, e, list, r, time, m) ==
  /\ old \in Seq(Nat) /\ n = Len(old) /\ list \in Seq(Nat) /\ r = Len(list)
  /\ r >= n
  /\ time = e - Secs(m) /\ time < Secs(r)
  /\ m = 0 \/ Secs(4) <= time
  /\ r = n \/ Secs(r - 1) <= time
  /\ \A k \in Nat \ {0} : Held(list, k) = Held(old, k + m)

(* What follows from it for the times. *)
LEMMA MovesTimes ==
  ASSUME uploadLimit \in Nat, NEW old, NEW list, NEW n \in 1 .. 5, NEW r \in 1 .. 5,
         NEW e \in Int, NEW m \in Nat, NEW time \in Int,
         Moves(old, n, e, list, r, time, m), Reached(n, e)
  PROVE  /\ m # 0 => r = 5
         /\ Reached(r, time)
         /\ \A k \in Int : time - Secs(k) = e - Secs(k + m)
         /\ m # 0 \/ r # n => n <= m + r - 1
<1>1. /\ time = e - Secs(m) /\ r >= n /\ time < Secs(r)
      /\ m = 0 \/ Secs(4) <= time
      /\ r = n \/ Secs(r - 1) <= time
  BY Zenon DEF Moves
<1>2. /\ n \in Int /\ m \in Int /\ 4 \in Int /\ r \in Int /\ r - 1 \in Int
  OBVIOUS
<1>3. Secs(m) \in Int /\ Secs(4) \in Int /\ Secs(r) \in Int /\ Secs(r - 1) \in Int
  BY <1>2, SecsIs, Zenon
<1>4. m # 0 => r = 5
  <2> SUFFICES ASSUME Secs(4) <= time, r <= 4 PROVE FALSE
    BY <1>1
  <2>1. Secs(r) <= Secs(4)
    BY <1>2, SecsIs, Zenon
  <2> QED BY <1>1, <1>3, <2>1
<1>5. Reached(r, time)
  <2>1. CASE r = n /\ m = 0
    <3>1. time = e
      <4>1. Secs(m) = 0
        BY <2>1, SecsIs, Zenon
      <4> QED BY <1>1, <4>1
    <3> QED BY <2>1, <3>1, Zenon
  <2>2. CASE m # 0
    <3>1. Secs(4) <= time /\ r = 5 /\ r - 1 = 4
      BY <1>1, <1>4, <2>2
    <3> QED BY <3>1, Zenon DEF Reached
  <2>3. CASE r # n
    BY <1>1, <2>3, Zenon DEF Reached
  <2> QED BY <2>1, <2>2, <2>3, Zenon
<1>6. ASSUME NEW k \in Int PROVE time - Secs(k) = e - Secs(k + m)
  <2>1. Secs(k + m) = Secs(k) + Secs(m) /\ Secs(k) \in Int
    BY <1>2, SecsIs, Zenon
  <2>2. \A a, b, c \in Int : (c - b) - a = c - (a + b)
    OBVIOUS
  <2>3. (e - Secs(m)) - Secs(k) = e - (Secs(k) + Secs(m))
    BY <1>3, <2>1, <2>2, Zenon
  <2> QED BY <1>1, <2>1, <2>3, Zenon
<1>7. m # 0 \/ r # n => n <= m + r - 1
  BY <1>1
<1> QED BY <1>4, <1>5, <1>6, <1>7, Zenon

(* Moving the buckets changes nothing of what is known of the debt. *)
LEMMA BoundsMoved ==
  ASSUME uploadLimit \in Nat, NEW old, NEW list, NEW n \in 1 .. 5, NEW r \in 1 .. 5,
         NEW e \in Int, NEW m \in Nat, NEW time \in Int, NEW d \in Int,
         Moves(old, n, e, list, r, time, m), Bounds(old, e, d)
  PROVE  Bounds(list, time, d)
<1>1. n = Len(old) /\ r = Len(list) /\ r >= n /\ time < Secs(r) /\ list \in Seq(Nat)
  BY Zenon DEF Moves
<1>2. /\ Reached(n, e) /\ Filling(old, n, d) /\ \A j \in 1 .. n : Since(old, j, e, d)
      /\ Past(n, e, d) /\ Current(n, e, d)
  BY <1>1, PartsOfBounds, Zenon
<1>3. /\ m # 0 => r = 5
      /\ Reached(r, time)
      /\ \A k \in Int : time - Secs(k) = e - Secs(k + m)
      /\ m # 0 \/ r # n => n <= m + r - 1
  BY <1>2, MovesTimes, Zenon
<1>4. \A j \in 1 .. 5 : /\ From(list, j) = From(old, j + m)
                        /\ n < j + m => From(list, j) = 0
  <2>1. old \in Seq(Nat) /\ list \in Seq(Nat) /\ n = Len(old)
        /\ \A k \in Nat \ {0} : Held(list, k) = Held(old, k + m)
    BY Zenon DEF Moves
  <2>2. Len(old) <= 5
    <3>1. \A k \in 1 .. 5 : k <= 5
      OBVIOUS
    <3> QED BY <2>1, <3>1, Zenon
  <2>3. ASSUME NEW j \in 1 .. 5 PROVE From(list, j) = From(old, j + m) /\ (n < j + m => From(list, j) = 0)
    <3>1. From(list, j) = From(old, j + m)
      BY <2>1, <2>2, FromShifted, Zenon
    <3>2. j + m \in Int
      OBVIOUS
    <3> QED BY <2>1, <3>1, <3>2, FromBehind, Zenon
  <2> QED BY <2>3, Zenon
<1>5. n \in Int /\ r - 1 \in Int /\ m \in Int /\ 0 \in Int /\ r \in Int
  OBVIOUS
(* Where the clock is past the old buckets, what is known of their end is known of
   every end after it. *)
<1>6. ASSUME NEW k \in Int, n <= k + m, Secs(k) <= time PROVE d <= 0 \/ d <= Line(time - Secs(k))
  <2>1. k + m \in Int
    BY <1>5
  <2>2. Secs(n) <= Secs(k + m) /\ Secs(k) \in Int /\ Secs(k + m) \in Int /\ Secs(n) \in Int
    BY <1>5, <1>6, <2>1, SecsIs, Zenon
  <2>3. time - Secs(k) = e - Secs(k + m)
    BY <1>3, Zenon
  <2>4. Secs(n) <= e /\ e - Secs(k + m) <= e - Secs(n) /\ e - Secs(k + m) \in Int /\ e - Secs(n) \in Int
    BY <1>6, <2>2, <2>3
  <2>5. CASE d <= 0
    BY <2>5
  <2>6. CASE d <= Line(e - Secs(n))
    <3>1. /\ Line(e - Secs(n)) <= Line(e - Secs(k + m))
          /\ Line(e - Secs(n)) \in Int /\ Line(e - Secs(k + m)) \in Int
      BY <2>4, LineIs, Zenon
    <3>2. d <= Line(e - Secs(k + m))
      BY <2>6, <3>1
    <3> QED BY <2>3, <3>2, Zenon
  <2> QED BY <1>2, <2>4, <2>5, <2>6, Zenon DEF Past
<1>7. Filling(list, r, d)
  <2> SUFFICES ASSUME r < 5 PROVE d <= Due(From(list, 1))
    BY Zenon DEF Filling
  <2>1. m = 0 /\ n < 5 /\ 1 + m = 1 /\ 1 \in 1 .. 5
    <3>1. r >= n /\ (m # 0 => r = 5)
      BY <1>1, <1>3, Zenon
    <3> QED BY <3>1
  <2>2. From(list, 1) = From(old, 1)
    <3>1. From(list, 1) = From(old, 1 + m)
      BY <1>4, <2>1, Zenon
    <3> QED BY <2>1, <3>1, Zenon
  <2> QED BY <1>2, <2>1, <2>2, Zenon DEF Filling
<1>8. ASSUME NEW j \in 1 .. r PROVE Since(list, j, time, d)
  <2>1. j \in 1 .. 5 /\ j + m \in Int /\ j - 1 \in Int /\ (j + m) - 1 = (j - 1) + m /\ j - 1 <= r - 1
    OBVIOUS
  <2>2. From(list, j) = From(old, j + m) /\ (n < j + m => From(list, j) = 0)
    BY <1>4, <2>1, Zenon
  <2>3. CASE j + m <= n
    <3>1. j + m \in 1 .. n
      BY <2>1, <2>3
    <3>2. Since(old, j + m, e, d)
      BY <1>2, <3>1, Zenon
    <3>3. time - Secs(j - 1) = e - Secs((j + m) - 1)
      BY <1>3, <2>1, Zenon
    <3> QED BY <2>2, <3>2, <3>3, Zenon DEF Since
  <2>4. CASE n < j + m
    <3>1. n <= (j - 1) + m
      BY <2>1, <2>4
    <3>2. Secs(j - 1) <= time
      <4>1. Secs(j - 1) <= Secs(r - 1) /\ Secs(j - 1) \in Int /\ Secs(r - 1) \in Int
        BY <1>5, <2>1, SecsIs, Zenon
      <4>2. Secs(r - 1) <= time
        BY <1>3, Zenon DEF Reached
      <4> QED BY <4>1, <4>2
    <3>3. d <= 0 \/ d <= Line(time - Secs(j - 1))
      BY <1>6, <2>1, <3>1, <3>2, Zenon
    <3>4. From(list, j) = 0 /\ Due(0) = 0
      BY <2>2, <2>4, DueIs, Zenon
    <3>5. time - Secs(j - 1) \in Int
      <4>1. Secs(j - 1) \in Int
        BY <2>1, SecsIs, Zenon
      <4> QED BY <4>1
    <3>6. Line(time - Secs(j - 1)) \in Int
      BY <3>5, LineIs, Zenon
    <3>7. Line(time - Secs(j - 1)) + 0 = Line(time - Secs(j - 1))
      BY <3>6
    <3> QED BY <3>3, <3>4, <3>7, Zenon DEF Since
  <2>5. j + m <= n \/ n < j + m
    BY <1>5, <2>1
  <2> QED BY <2>3, <2>4, <2>5, Zenon
<1>9. Past(r, time, d)
  <2>1. Secs(r) \in Int
    BY <1>5, SecsIs, Zenon
  <2>2. ~(Secs(r) <= time)
    BY <1>1, <2>1
  <2> QED BY <2>2, Zenon DEF Past
<1>10. Current(r, time, d)
  <2>1. CASE m = 0 /\ r = n
    <3>1. time - Secs(0) = e - Secs(0 + m) /\ 0 + m = 0
      BY <1>3, <1>5, <2>1
    <3>2. time = e
      <4>1. Secs(0) = 0 /\ time - 0 = time /\ e - 0 = e
        BY SecsIs
      <4> QED BY <3>1, <4>1, Zenon
    <3> QED BY <1>2, <2>1, <3>2, Zenon
  <2>2. CASE m # 0 \/ r # n
    <3>1. n <= (r - 1) + m
      BY <1>3, <2>2
    <3>2. Secs(r - 1) <= time
      BY <1>3, Zenon DEF Reached
    <3>3. d <= 0 \/ d <= Line(time - Secs(r - 1))
      BY <1>5, <1>6, <3>1, <3>2, Zenon
    <3>4. 20 * Allowed \in Nat
      BY LineIs, Zenon
    <3>5. d <= 0 => d <= 20 * Allowed
      BY <3>4
    <3> QED BY <3>3, <3>5, Zenon DEF Current
  <2> QED BY <2>1, <2>2, Zenon
<1> QED BY <1>1, <1>3, <1>7, <1>8, <1>9, <1>10, PartsOfBounds, Zenon

(* What writeAll sleeps for when a kilobytes are in n buckets: not at all, because
   they are within the limit; or until their average is at the limit, but for a
   tick; or for a second.  Both sleeps are past the last bucket. *)
Sleeps(a, n, time, w) ==
  \/ w = 0 /\ Due(a) <= 20 * Allowed
  \/ w = Second /\ Secs(n) <= time + w
  \/ w \in 1 .. Second /\ w < Second /\ Secs(n) <= time + w /\ 5 * Due(a) <= 4 * Back(time + w + 1)

(* Some products. *)
LEMMA Mult == \A a, b, f \in Nat : /\ a * f \in Nat /\ f * a = a * f /\ (a + 1) * f = a * f + f
                                   /\ a <= b => a * f <= b * f
OBVIOUS

(* A quotient is not below what its dividend has room for. *)
LEMMA QuotientReaches ==
  ASSUME NEW l \in Nat \ {0}, NEW s \in Nat, NEW n \in Nat, NEW a \in Nat, l * n < a
  PROVE  s * n <= (a * s) \div l
<1>1. PICK p \in Nat : p = a * s
  OBVIOUS
<1>2. PICK x \in Nat : x = p \div l
  BY Quotient
<1>3. p < x * l + l
  BY <1>2, Quotient
<1>4. (l * n) * s <= p
  <2>1. l * n \in Nat /\ l * n <= a
    OBVIOUS
  <2> QED BY <1>1, <2>1, Mult
<1>5. PICK k \in Nat : k = s * n
  OBVIOUS
<1>6. (l * n) * s = k * l
  BY <1>5
<1>7. ~(x < k)
  <2> SUFFICES ASSUME x + 1 <= k PROVE FALSE
    OBVIOUS
  <2>1. (x + 1) * l <= k * l /\ (x + 1) * l = x * l + l
    <3>1. x + 1 \in Nat /\ l \in Nat
      OBVIOUS
    <3> QED BY <3>1, Mult, Zenon
  <2>2. x * l \in Nat /\ k * l \in Nat
    OBVIOUS
  <2> QED BY <1>3, <1>4, <1>6, <2>1, <2>2
<1> QED BY <1>1, <1>2, <1>5, <1>7

(* What is within the limit, in five seconds. *)
LEMMA DueWithin ==
  ASSUME uploadLimit \in Nat, NEW n \in 1 .. 5, NEW a \in Nat, a <= uploadLimit * n
  PROVE  Due(a) <= 20 * Allowed
<1>1. PICK l \in Nat : l = Rate
  BY RateIs
<1>2. a <= 5 * l
  <2>1. PICK u \in Nat : u = uploadLimit /\ u <= l
    BY <1>1, RateIs
  <2>2. u * n <= u * 5 /\ a <= u * n
    BY <2>1
  <2>3. u * 5 <= l * 5
    BY <2>1
  <2> QED BY <2>1, <2>2, <2>3
<1>3. /\ a \in Int /\ l \in Int /\ 2 * l \in Int /\ 4 * l \in Int /\ 5 * l \in Int
      /\ 2 * l = l + l /\ 4 * l = 2 * l + 2 * l /\ 5 * l = 4 * l + l
  OBVIOUS
<1>4. /\ Due(a) <= Due(5 * l) /\ Due(5 * l) = Due(4 * l) + Due(l)
      /\ Due(4 * l) = Due(2 * l) + Due(2 * l) /\ Due(2 * l) = Due(l) + Due(l)
      /\ Due(l) = 4 * Allowed
  <2>1. Due(a) <= Due(5 * l)
    BY <1>2, <1>3, DueIs, Zenon
  <2>2. Due(5 * l) = Due(4 * l) + Due(l)
    <3>1. Due(4 * l + l) = Due(4 * l) + Due(l)
      BY <1>3, DueIs, Zenon
    <3> QED BY <1>3, <3>1, Zenon
  <2>3. Due(4 * l) = Due(2 * l) + Due(2 * l)
    BY <1>3, DueIs, Zenon
  <2>4. Due(2 * l) = Due(l) + Due(l)
    BY <1>3, DueIs, Zenon
  <2> QED BY <1>1, <2>1, <2>2, <2>3, <2>4, DueIs, Zenon
<1>5. Allowed \in Nat /\ Due(a) \in Int
  BY <1>3, BackIs, DueIs, Zenon
<1> QED BY <1>4, <1>5

(* What the average at the limit says of what is owed. *)
LEMMA DueAtLimit ==
  ASSUME uploadLimit \in Nat, NEW a \in Nat, NEW x \in Nat, a * Second <= (x + 1) * uploadLimit
  PROVE  5 * Due(a) <= 4 * Back(x + 1)
<1>1. PICK l \in Nat, s \in Nat, k \in Nat : l = Rate /\ s = Second /\ k = Kilobyte
  BY ThrottleAssumption, RateIs
<1>2. PICK u \in Nat, v \in Nat : u = a * s /\ v = (x + 1) * l
  BY <1>1
<1>3. (20 * k) * u <= (20 * k) * v
  <2>1. u <= v
    <3>1. PICK m \in Nat : m = uploadLimit /\ m <= l
      BY <1>1, RateIs
    <3>2. (x + 1) * m <= (x + 1) * l
      BY <3>1
    <3> QED BY <1>1, <1>2, <3>1, <3>2
  <2>2. \A f \in Nat : f * u <= f * v
    BY <2>1
  <2> QED BY <2>2
<1>4. 5 * Due(a) = (20 * k) * u
  <2>1. Due(a) = 4 * s * k * a
    BY <1>1, Zenon DEF Due
  <2>2. 5 * (4 * s * k * a) = (20 * k) * (a * s)
    OBVIOUS
  <2> QED BY <1>2, <2>1, <2>2, Zenon
<1>5. 4 * Back(x + 1) = (20 * k) * v
  <2>1. Back(x + 1) = 5 * l * k * (x + 1)
    BY <1>1, Zenon DEF Back, N
  <2>2. 4 * (5 * l * k * (x + 1)) = (20 * k) * ((x + 1) * l)
    OBVIOUS
  <2> QED BY <1>2, <2>1, <2>2, Zenon
<1> QED BY <1>3, <1>4, <1>5, Zenon

(* That is what it sleeps for. *)
LEMMA DelaySleeps ==
  ASSUME uploadLimit \in Nat \ {0}, NEW list, NEW n \in 1 .. 5, n = Len(list),
         NEW a \in Nat, NEW time \in Nat, Reached(n, time), time < Secs(n),
         NEW w, w = DelayOf(a, list, time)
  PROVE  Sleeps(a, n, time, w)
<1>1. CASE a <= uploadLimit * n
  <2>1. w = 0
    BY <1>1, Zenon DEF DelayOf
  <2>2. Due(a) <= 20 * Allowed
    BY <1>1, DueWithin
  <2> QED BY <2>1, <2>2, Zenon DEF Sleeps
<1>2. CASE ~(a <= uploadLimit * n)
  <2>1. PICK l \in Nat \ {0}, s \in Nat \ {0} : l = uploadLimit /\ s = Second
    BY ThrottleAssumption
  <2>2. PICK x \in Nat : x = (a * s) \div l
    <3>1. a * s \in Nat
      OBVIOUS
    <3> QED BY <3>1, Quotient, Zenon
  <2>3. w = Higher(0, Lower(s, x - time))
    BY <1>2, <2>1, <2>2, Zenon DEF DelayOf
  <2>4. s * n <= x
    <3>1. l * n < a
      BY <1>2, <2>1
    <3>2. s \in Nat /\ n \in Nat
      OBVIOUS
    <3> QED BY <2>2, <3>1, <3>2, QuotientReaches, Zenon
  <2>5. Secs(n) = s * n /\ Secs(n - 1) = s * n - s
    BY <2>1 DEF Secs
  <2>6. time < s * n /\ s * n - s <= time
    BY <2>5, Zenon DEF Reached
  <2>7. PICK y \in Nat : y = s * n
    OBVIOUS
  <2>8. w \in 1 .. s /\ y <= time + w /\ (w = s \/ time + w = x)
    <3>1. y <= x /\ time < y /\ y - s <= time
      BY <2>4, <2>6, <2>7, Zenon
    <3>2. \A v : v = Higher(0, Lower(s, x - time)) => v \in 1 .. s /\ y <= time + v /\ (v = s \/ time + v = x)
      BY <3>1 DEF Higher, Lower
    <3> QED BY <2>3, <3>2, Zenon
  <2>9. CASE w = s
    BY <2>1, <2>5, <2>7, <2>8, <2>9, Zenon DEF Sleeps
  <2>10. CASE w # s
    <3>1. time + w = x /\ w < s
      BY <2>8, <2>10
    <3>2. a * s <= (x + 1) * l
      <4>1. \A p \in Nat : x = p \div l => p <= (x + 1) * l
        BY Quotient
      <4>2. a * s \in Nat
        OBVIOUS
      <4> QED BY <2>2, <4>1, <4>2, Zenon
    <3>3. 5 * Due(a) <= 4 * Back(x + 1)
      BY <2>1, <3>2, DueAtLimit
    <3> QED BY <2>1, <2>5, <2>7, <2>8, <3>1, <3>3, Zenon DEF Sleeps
  <2> QED BY <2>9, <2>10, Zenon
<1> QED BY <1>1, <1>2, Zenon

(* What is owed after a sleep in which b is paid back and a write that adds v. *)
Owes(d, b, v) == Higher(0, d - b) + v

(* It is what was written, or less than before. *)
LEMMA OwesEither ==
  ASSUME NEW d \in Int, NEW b \in Nat, NEW v \in Nat
  PROVE  Owes(d, b, v) \in Int /\ (Owes(d, b, v) = v \/ Owes(d, b, v) = d - b + v)
BY DEF Owes, Higher

(* A write that is followed by another n buckets long. *)
Counts(list, n, c, more) ==
  /\ list \in Seq(Nat) /\ n = Len(list) /\ more \in Seq(Nat) /\ n = Len(more)
  /\ \A j \in 1 .. n : From(more, j) = From(list, j) + c

(* What is in the buckets is owed for. *)
LEMMA DueFrom ==
  ASSUME uploadLimit \in Nat, NEW list, NEW n \in 1 .. 5, NEW c \in Nat, NEW more,
         Counts(list, n, c, more), NEW j \in 1 .. n
  PROVE  /\ Due(From(list, j)) \in Nat
         /\ Due(From(more, j)) = Due(From(list, j)) + Due(c)
<1>1. list \in Seq(Nat) /\ From(more, j) = From(list, j) + c
  BY Zenon DEF Counts
<1>2. j \in Int
  OBVIOUS
<1>3. PICK x \in Nat : x = From(list, j)
  BY <1>1, <1>2, FromIsNat, Zenon
<1>4. x \in Int /\ c \in Int /\ 0 \in Int /\ 0 <= x
  OBVIOUS
<1>5. Due(x) \in Int /\ Due(0) = 0 /\ Due(0) <= Due(x) /\ Due(x + c) = Due(x) + Due(c)
  BY <1>4, DueIs, Zenon
<1>6. Due(x) \in Nat
  BY <1>5
<1> QED BY <1>1, <1>3, <1>5, <1>6, Zenon

(* How long the sleep is, and what is paid back and owed. *)
LEMMA SleepsFor ==
  ASSUME uploadLimit \in Nat, NEW c \in Nat, c <= Rate,
         NEW a, NEW n, NEW time, NEW w, Sleeps(a, n, time, w)
  PROVE  /\ w \in 0 .. Second
         /\ Back(w) \in Nat /\ Back(w) <= 5 * Allowed
         /\ Due(c) \in Nat /\ Due(c) <= 4 * Allowed
         /\ Allowed \in Nat
<1>1. Second \in Nat /\ Rate \in Nat
  BY ThrottleAssumption, RateIs
<1>2. w \in 0 .. Second
  BY <1>1 DEF Sleeps
<1>3. /\ w \in Int /\ Second \in Int /\ 0 \in Int /\ c \in Int /\ Rate \in Int
      /\ 0 <= w /\ w <= Second /\ 0 <= c
  BY <1>1, <1>2
<1>4. Back(0) = 0 /\ Back(Second) = 5 * Allowed /\ Back(w) \in Int
  BY <1>3, BackIs, Zenon
<1>5. Back(0) <= Back(w) /\ Back(w) <= Back(Second)
  BY <1>3, BackIs, Zenon
<1>6. Due(0) = 0 /\ Due(Rate) = 4 * Allowed /\ Due(c) \in Int
  BY <1>3, DueIs, Zenon
<1>7. Due(0) <= Due(c) /\ Due(c) <= Due(Rate)
  BY <1>3, DueIs, Zenon
<1>8. Back(w) \in Nat /\ Back(w) <= 5 * Allowed
  <2>1. \A b, f \in Int : b = 0 /\ b <= f => f \in Nat
    OBVIOUS
  <2>2. Back(w) \in Nat
    BY <1>4, <1>5
  <2> QED BY <1>4, <1>5, <2>2, Zenon
<1>9. Due(c) \in Nat /\ Due(c) <= 4 * Allowed
  <2>1. Due(c) \in Nat
    BY <1>6, <1>7
  <2> QED BY <1>6, <1>7, <2>1, Zenon
<1> QED BY <1>2, <1>8, <1>9, BackIs, Zenon

(* What is known of each bucket stays known. *)
LEMMA SinceKept ==
  ASSUME uploadLimit \in Nat, NEW list, NEW n \in 1 .. 5, NEW c \in Nat, NEW more,
         Counts(list, n, c, more), NEW j \in 1 .. n,
         NEW time \in Int, NEW w \in Nat, Back(w) \in Nat, Due(c) \in Nat,
         NEW d \in Int, Since(list, j, time, d)
  PROVE  Since(more, j, time + w, Owes(d, Back(w), Due(c)))
<1>1. PICK x \in Nat, b \in Nat, v \in Nat : x = Due(From(list, j)) /\ b = Back(w) /\ v = Due(c)
  BY SMT, DueFrom
<1>2. Due(From(more, j)) = x + v
  <2>1. /\ Due(From(list, j)) \in Nat
        /\ Due(From(more, j)) = Due(From(list, j)) + Due(c)
    BY SMT, DueFrom
  <2> QED BY <1>1, <2>1, Zenon
<1>3. PICK s \in Int : s = Secs(j - 1)
  <2>1. j - 1 \in Int
    OBVIOUS
  <2> QED BY <2>1, SecsIs, Zenon
<1>4. PICK y \in Int : y = Line(time - s)
  <2>1. time - s \in Int
    OBVIOUS
  <2> QED BY <2>1, LineIs, Zenon
<1>5. Line((time + w) - s) = y - b
  <2>1. (time + w) - s = (time - s) + w /\ time - s \in Int /\ w \in Int
    OBVIOUS
  <2> QED BY <1>1, <1>4, <2>1, LineIs, Zenon
<1>6. d <= x \/ d <= y + x
  BY <1>1, <1>3, <1>4, Zenon DEF Since
<1>7. PICK o \in Int : o = Owes(d, b, v) /\ (o = v \/ o = d - b + v)
  <2>1. Owes(d, b, v) \in Int /\ (Owes(d, b, v) = v \/ Owes(d, b, v) = d - b + v)
    BY OwesEither
  <2> QED BY <2>1, Zenon
<1>8. o <= x + v \/ o <= (y - b) + (x + v)
  BY <1>6, <1>7
<1> QED BY <1>1, <1>2, <1>3, <1>5, <1>7, <1>8, Zenon DEF Since

(* So does what is known while there are few of them. *)
LEMMA FillingKept ==
  ASSUME uploadLimit \in Nat, NEW list, NEW n \in 1 .. 5, NEW c \in Nat, NEW more,
         Counts(list, n, c, more),
         NEW w \in Nat, Back(w) \in Nat, Due(c) \in Nat,
         NEW d \in Int, Filling(list, n, d)
  PROVE  Filling(more, n, Owes(d, Back(w), Due(c)))
<1> SUFFICES ASSUME n < 5 PROVE Owes(d, Back(w), Due(c)) <= Due(From(more, 1))
  BY Zenon DEF Filling
<1>1. 1 \in 1 .. n
  OBVIOUS
<1>2. PICK x \in Nat, b \in Nat, v \in Nat : x = Due(From(list, 1)) /\ b = Back(w) /\ v = Due(c)
  BY SMT, <1>1, DueFrom
<1>3. Due(From(more, 1)) = x + v
  <2>1. /\ Due(From(list, 1)) \in Nat
        /\ Due(From(more, 1)) = Due(From(list, 1)) + Due(c)
    BY SMT, <1>1, DueFrom
  <2> QED BY <1>2, <2>1, Zenon
<1>4. d <= x
  BY <1>2, Zenon DEF Filling
<1>5. PICK o \in Int : o = Owes(d, b, v) /\ (o = v \/ o = d - b + v)
  <2>1. Owes(d, b, v) \in Int /\ (Owes(d, b, v) = v \/ Owes(d, b, v) = d - b + v)
    BY OwesEither
  <2> QED BY <2>1, Zenon
<1>6. o <= x + v
  BY <1>4, <1>5
<1> QED BY <1>2, <1>3, <1>5, <1>6, Zenon

(* What is paid back in some seconds. *)
LEMMA BackSecs ==
  ASSUME uploadLimit \in Nat
  PROVE  /\ Back(Secs(4)) = 20 * Allowed /\ Back(Secs(5)) = 25 * Allowed
         /\ \A n \in 1 .. 5 : Back(Secs(n)) \in Int /\ Back(Secs(n)) <= 25 * Allowed
<1>1. PICK l \in Nat, s \in Nat, k \in Nat : l = Rate /\ s = Second /\ k = Kilobyte
  BY ThrottleAssumption, RateIs
<1>2. Allowed = l * k * s
  BY <1>1, Zenon DEF Allowed
<1>3. \A n : Back(Secs(n)) = 5 * l * k * (s * n)
  BY <1>1, Zenon DEF Back, Secs, N
<1>4. 5 * l * k * (s * 4) = 20 * (l * k * s) /\ 5 * l * k * (s * 5) = 25 * (l * k * s)
  OBVIOUS
<1>5. ASSUME NEW n \in 1 .. 5 PROVE Back(Secs(n)) \in Int /\ Back(Secs(n)) <= Back(Secs(5))
  <2>1. n \in Int /\ 5 \in Int /\ n <= 5
    OBVIOUS
  <2>2. Secs(n) \in Int /\ Secs(5) \in Int /\ Secs(n) <= Secs(5)
    BY <2>1, SecsIs, Zenon
  <2> QED BY <2>2, BackIs, Zenon
<1>6. Back(Secs(4)) = 20 * Allowed /\ Back(Secs(5)) = 25 * Allowed
  BY <1>2, <1>3, <1>4, Zenon
<1> QED BY <1>5, <1>6, Zenon

(* What is owed for the buckets and one write more, and what is owed before it. *)
LEMMA OwedBefore ==
  ASSUME uploadLimit \in Nat, NEW list, NEW n \in 1 .. 5, NEW c \in Nat, NEW more,
         Counts(list, n, c, more), NEW time \in Nat, NEW d \in Int,
         Filling(list, n, d), Since(list, 1, time, d)
  PROVE  /\ Due(From(list, 1)) \in Nat
         /\ Due(From(list, 1) + c) = Due(From(list, 1)) + Due(c)
         /\ \/ d <= Due(From(list, 1))
            \/ n = 5 /\ d <= (24 * Allowed - Back(time)) + Due(From(list, 1))
<1>1. 1 \in 1 .. n /\ 1 \in Int /\ 1 - 1 = 0 /\ time - 0 = time /\ c \in Int
  OBVIOUS
<1>2. PICK x \in Nat : x = Due(From(list, 1))
  BY SMT, <1>1, DueFrom
<1>3. list \in Seq(Nat)
  BY Zenon DEF Counts
<1>4. Due(From(list, 1) + c) = Due(From(list, 1)) + Due(c)
  <2>1. PICK f \in Nat : f = From(list, 1)
    BY <1>1, <1>3, FromIsNat, Zenon
  <2>2. f \in Int
    OBVIOUS
  <2>3. Due(f + c) = Due(f) + Due(c)
    BY <1>1, <2>2, DueIs, Zenon
  <2> QED BY <2>1, <2>3, Zenon
<1>5. d <= x \/ d <= (24 * Allowed - Back(time)) + x
  <2>1. time - Secs(1 - 1) = time
    BY <1>1, SecsIs, Zenon
  <2> QED BY <1>2, <2>1, Zenon DEF Since, Line
<1>6. CASE n < 5
  BY <1>2, <1>4, <1>6, Zenon DEF Filling
<1>7. CASE ~(n < 5)
  <2>1. n = 5
    BY <1>7
  <2> QED BY <1>2, <1>4, <1>5, <2>1, Zenon
<1> QED BY <1>6, <1>7, Zenon

(* A sleep past the end of the last bucket pays for the write before it. *)
LEMMA PastKept ==
  ASSUME uploadLimit \in Nat, NEW list, NEW n \in 1 .. 5, NEW c \in Nat, c <= Rate,
         NEW more, Counts(list, n, c, more), NEW time \in Nat, Reached(n, time), time < Secs(n),
         NEW w, Sleeps(From(list, 1) + c, n, time, w), NEW d \in Int,
         Filling(list, n, d), Since(list, 1, time, d), Current(n, time, d)
  PROVE  Past(n, time + w, Owes(d, Back(w), Due(c)))
<1>1. /\ w \in 0 .. Second
      /\ Back(w) \in Nat /\ Back(w) <= 5 * Allowed
      /\ Due(c) \in Nat /\ Due(c) <= 4 * Allowed
      /\ Allowed \in Nat
  BY SleepsFor, Zenon
<1>2. PICK q \in Nat, b \in Nat, v \in Nat : q = Allowed /\ b = Back(w) /\ v = Due(c)
  BY <1>1, Zenon
<1>3. b <= 5 * q /\ v <= 4 * q
  BY <1>1, <1>2, Zenon
<1>4. PICK o \in Int : o = Owes(d, b, v) /\ (o = v \/ o = d - b + v)
  <2>1. Owes(d, b, v) \in Int /\ (Owes(d, b, v) = v \/ Owes(d, b, v) = d - b + v)
    BY OwesEither
  <2> QED BY <2>1, Zenon
<1>5. PICK s \in Int : s = Secs(n) /\ Secs(n - 1) = s - Second
  <2>1. n \in Int /\ 1 \in Int
    OBVIOUS
  <2> QED BY <2>1, SecsIs, Zenon
<1>6. time < s /\ s - Second <= time /\ Second \in Nat \ {0} /\ w \in Nat /\ w <= Second
  BY <1>1, <1>5, ThrottleAssumption DEF Reached
<1> SUFFICES ASSUME s <= time + w PROVE o <= 24 * q - Back((time + w) - s)
  BY <1>2, <1>4, <1>5, Zenon DEF Past, Line
<1>7. PICK t \in Nat : t = (time + w) - s /\ t < w /\ t < Second
  BY <1>6
<1>8. PICK f \in Int : f = Back(t) /\ f <= b /\ f <= 5 * q
  <2>1. t \in Int /\ w \in Int /\ t <= w
    BY <1>6, <1>7
  <2>2. Back(t) \in Int /\ Back(t) <= Back(w)
    BY <2>1, BackIs, Zenon
  <2>3. PICK f \in Int : f = Back(t) /\ f <= b
    BY <1>2, <2>2, Zenon
  <2>4. f <= 5 * q
    BY <1>3, <2>3
  <2> QED BY <2>3, <2>4, Zenon
<1> SUFFICES o <= 24 * q - f
  BY <1>7, <1>8, Zenon
<1>9. CASE o = v
  BY <1>3, <1>8, <1>9
<1>10. CASE o = d - b + v /\ w = Second
  <2>1. b = 5 * q
    BY <1>2, <1>10, BackIs, Zenon
  <2>2. time - Secs(n - 1) = t
    BY <1>5, <1>6, <1>7, <1>10
  <2>3. d <= 20 * q \/ d <= 24 * q - f
    BY <1>2, <1>5, <1>6, <1>8, <2>2, Zenon DEF Current, Line
  <2>4. d - 5 * q + v <= 24 * q - f
    BY <1>3, <1>8, <2>3
  <2> QED BY <1>10, <2>1, <2>4, Zenon
<1>11. CASE o = d - b + v /\ w # Second
  <2>1. w < Second /\ 5 * Due(From(list, 1) + c) <= 4 * Back(time + w + 1)
    BY <1>5, <1>6, <1>11 DEF Sleeps
  <2>2. PICK x \in Nat : /\ Due(From(list, 1) + c) = x + Due(c)
                         /\ d <= x \/ (n = 5 /\ d <= (24 * Allowed - Back(time)) + x)
    <3>1. /\ Due(From(list, 1)) \in Nat
          /\ Due(From(list, 1) + c) = Due(From(list, 1)) + Due(c)
          /\ \/ d <= Due(From(list, 1))
             \/ n = 5 /\ d <= (24 * Allowed - Back(time)) + Due(From(list, 1))
      BY OwedBefore, Zenon
    <3>2. PICK x \in Nat : x = Due(From(list, 1))
      BY <3>1, Zenon
    <3>3. d <= x \/ (n = 5 /\ d <= (24 * Allowed - Back(time)) + x)
      BY <3>1, <3>2, Zenon
    <3>4. Due(From(list, 1) + c) = x + Due(c)
      BY <3>1, <3>2, Zenon
    <3> QED BY <3>3, <3>4, Zenon
  <2>3. PICK g \in Int : g = Back(s) /\ g <= 25 * q /\ (n = 5 => g = 25 * q)
    BY <1>2, <1>5, BackSecs, Zenon
  <2>4. Back(time + w + 1) <= g + 5 * q /\ Back(time + w + 1) \in Int
    <3>1. time + w + 1 = s + (t + 1) /\ t + 1 \in Int /\ Second \in Int /\ t + 1 <= Second
      BY <1>6, <1>7
    <3>2. Back(s + (t + 1)) = Back(s) + Back(t + 1) /\ Back(t + 1) \in Int
      BY <3>1, BackIs, Zenon
    <3>3. Back(t + 1) <= Back(Second)
      BY <3>1, BackIs, Zenon
    <3>4. PICK h \in Int : h = Back(t + 1) /\ h <= 5 * q
      BY <1>2, <3>2, <3>3, BackIs, Zenon
    <3>5. Back(time + w + 1) = g + h
      BY <2>3, <3>1, <3>2, <3>4, Zenon
    <3>6. g + h <= g + 5 * q /\ g + h \in Int
      BY <3>4
    <3> QED BY <3>5, <3>6, Zenon
  <2>5. x + v <= 24 * q
    <3>1. 5 * (x + v) <= 4 * Back(time + w + 1)
      BY <1>2, <2>1, <2>2, Zenon
    <3>2. PICK h \in Int : h = Back(time + w + 1)
      BY <2>4, Zenon
    <3>3. 5 * (x + v) <= 4 * h /\ h <= g + 5 * q
      BY <2>4, <3>1, <3>2, Zenon
    <3> QED BY <2>3, <3>3
  <2>6. CASE d <= x
    BY <1>8, <1>11, <2>5, <2>6
  <2>7. CASE n = 5 /\ d <= (24 * Allowed - Back(time)) + x
    <3>1. PICK h \in Int : h = Back(time) /\ h + b = g + f
      <4>1. time \in Int /\ w \in Int /\ s \in Int /\ t \in Int /\ time + w = s + t
        BY <1>6, <1>7
      <4>2. Back(time + w) = Back(time) + Back(w) /\ Back(s + t) = Back(s) + Back(t) /\ Back(time) \in Int
        BY <4>1, BackIs, Zenon
      <4> QED BY <1>2, <1>8, <2>3, <4>1, <4>2, Zenon
    <3>2. d <= (24 * q - h) + x /\ g = 25 * q
      BY <1>2, <2>3, <2>7, <3>1, Zenon
    <3> QED BY <1>11, <2>5, <3>1, <3>2
  <2> QED BY <2>2, <2>6, <2>7, Zenon
<1> QED BY <1>4, <1>9, <1>10, <1>11, Zenon

(* While the last bucket is not past, nothing was slept. *)
LEMMA CurrentKept ==
  ASSUME uploadLimit \in Nat, NEW list, NEW n \in 1 .. 5, NEW c \in Nat, c <= Rate,
         NEW more, Counts(list, n, c, more), NEW time \in Nat, Reached(n, time), time < Secs(n),
         NEW w, Sleeps(From(list, 1) + c, n, time, w), NEW d \in Int,
         Filling(list, n, d), Since(list, 1, time, d)
  PROVE  Current(n, time + w, Owes(d, Back(w), Due(c)))
<1>1. /\ w \in 0 .. Second
      /\ Back(w) \in Nat /\ Back(w) <= 5 * Allowed
      /\ Due(c) \in Nat /\ Due(c) <= 4 * Allowed
      /\ Allowed \in Nat
  BY SleepsFor, Zenon
<1> SUFFICES ASSUME time + w < Secs(n)
             PROVE  \/ Owes(d, Back(w), Due(c)) <= 20 * Allowed
                    \/ Owes(d, Back(w), Due(c)) <= Line((time + w) - Secs(n - 1))
  BY Zenon DEF Current
<1>2. PICK q \in Nat, v \in Nat : q = Allowed /\ v = Due(c)
  BY <1>1, Zenon
<1>3. v <= 4 * q
  BY <1>1, <1>2, Zenon
<1>4. w = 0 /\ Due(From(list, 1) + c) <= 20 * q
  <2>1. PICK s \in Int : s = Secs(n)
    <3>1. n \in Int
      OBVIOUS
    <3> QED BY <3>1, SecsIs, Zenon
  <2>2. ~(s <= time + w)
    <3>1. time + w < s
      BY <2>1, Zenon
    <3>2. w \in Nat
      BY <1>1
    <3> QED BY <3>1, <3>2
  <2>3. \/ w = 0 /\ Due(From(list, 1) + c) <= 20 * Allowed
        \/ s <= time + w
    BY <2>1, Zenon DEF Sleeps
  <2> QED BY <1>2, <2>2, <2>3, Zenon
<1>5. Back(w) = 0 /\ time + w = time
  BY <1>4, BackIs
<1>6. PICK o \in Int : o = Owes(d, 0, v) /\ (o = v \/ o = d + v)
  <2>1. Owes(d, 0, v) \in Int /\ (Owes(d, 0, v) = v \/ Owes(d, 0, v) = d - 0 + v)
    BY OwesEither
  <2>2. d - 0 + v = d + v
    OBVIOUS
  <2> QED BY <2>1, <2>2, Zenon
<1>7. PICK x \in Nat : /\ Due(From(list, 1) + c) = x + Due(c)
                       /\ d <= x \/ (n = 5 /\ d <= (24 * Allowed - Back(time)) + x)
  <2>1. /\ Due(From(list, 1)) \in Nat
        /\ Due(From(list, 1) + c) = Due(From(list, 1)) + Due(c)
        /\ \/ d <= Due(From(list, 1))
           \/ n = 5 /\ d <= (24 * Allowed - Back(time)) + Due(From(list, 1))
    BY OwedBefore, Zenon
  <2>2. PICK x \in Nat : x = Due(From(list, 1))
    BY <2>1, Zenon
  <2>3. d <= x \/ (n = 5 /\ d <= (24 * Allowed - Back(time)) + x)
    BY <2>1, <2>2, Zenon
  <2>4. Due(From(list, 1) + c) = x + Due(c)
    BY <2>1, <2>2, Zenon
  <2> QED BY <2>3, <2>4, Zenon
<1>8. x + v <= 20 * q
  BY <1>2, <1>4, <1>7, Zenon
<1>9. CASE o = v
  <2>1. o <= 20 * q
    BY <1>3, <1>9
  <2> QED BY <1>2, <1>5, <1>6, <2>1, Zenon
<1>10. CASE o = d + v /\ d <= x
  <2>1. o <= 20 * q
    BY <1>8, <1>10
  <2> QED BY <1>2, <1>5, <1>6, <2>1, Zenon
<1>11. CASE o = d + v /\ n = 5 /\ d <= (24 * Allowed - Back(time)) + x
  <2>1. n - 1 = 4 /\ time \in Int /\ 4 \in Int
    BY <1>11
  <2>2. PICK s \in Int : s = Secs(4)
    BY <2>1, SecsIs, Zenon
  <2>3. PICK h \in Int : h = Back(time) /\ Back(time - s) = h - 20 * q
    <3>1. Back(time - s) = Back(time) - Back(s) /\ Back(time) \in Int
      BY <2>1, BackIs, Zenon
    <3> QED BY <1>2, <2>2, <3>1, BackSecs, Zenon
  <2>4. d <= (24 * q - h) + x
    BY <1>2, <1>11, <2>3, Zenon
  <2>5. o <= 24 * q - (h - 20 * q)
    BY <1>8, <1>11, <2>4
  <2>6. o <= Line(time - Secs(n - 1))
    BY <1>2, <2>1, <2>2, <2>3, <2>5, Zenon DEF Line
  <2> QED BY <1>2, <1>5, <1>6, <2>6, Zenon
<1> QED BY <1>6, <1>7, <1>9, <1>10, <1>11, Zenon

(* Where nothing is owed, nothing is to be shown. *)
LEMMA NothingOwed ==
  ASSUME uploadLimit \in Nat, NEW list \in Seq(Nat), NEW n \in 1 .. 5, n = Len(list),
         NEW e \in Int, Reached(n, e), NEW d \in Int, d <= 0
  PROVE  Bounds(list, e, d)
<1>1. \A j \in Int : 0 <= Due(From(list, j))
  <2> TAKE j \in Int
  <2>1. PICK f \in Nat : f = From(list, j)
    BY FromIsNat, Zenon
  <2>2. f \in Int /\ 0 \in Int /\ 0 <= f
    OBVIOUS
  <2>3. Due(0) <= Due(f) /\ Due(0) = 0
    BY <2>2, DueIs, Zenon
  <2> QED BY <2>1, <2>3, Zenon
<1>2. \A j \in Int : Due(From(list, j)) \in Int
  <2> TAKE j \in Int
  <2>1. PICK f \in Nat : f = From(list, j)
    BY FromIsNat, Zenon
  <2>2. f \in Int
    OBVIOUS
  <2> QED BY <2>1, <2>2, DueIs, Zenon
<1>3. \A j \in Int : d <= Due(From(list, j))
  <2> TAKE j \in Int
  <2>1. PICK x \in Int : x = Due(From(list, j)) /\ 0 <= x
    BY <1>1, <1>2, Zenon
  <2>2. d <= x
    BY <2>1
  <2> QED BY <2>1, <2>2, Zenon
<1>4. Filling(list, n, d)
  <2>1. 1 \in Int
    OBVIOUS
  <2> QED BY <1>3, <2>1, Zenon DEF Filling
<1>5. ASSUME NEW j \in 1 .. n PROVE Since(list, j, e, d)
  <2>1. j \in Int
    OBVIOUS
  <2> QED BY <1>3, <2>1, Zenon DEF Since
<1>6. Past(n, e, d)
  BY Zenon DEF Past
<1>7. d <= 20 * Allowed
  <2>1. PICK q \in Nat : q = 20 * Allowed
    BY LineIs, Zenon
  <2>2. d <= q
    BY <2>1
  <2> QED BY <2>1, <2>2, Zenon
<1>8. Current(n, e, d)
  BY <1>7, Zenon DEF Current
<1> QED BY <1>4, <1>5, <1>6, <1>8, PartsOfBounds, Zenon

(* Nor is it where less is owed than may be. *)
LEMMA LessOwed ==
  ASSUME uploadLimit \in Nat, NEW list \in Seq(Nat), NEW n \in 1 .. 5, n = Len(list),
         NEW e \in Int, NEW d \in Int, Bounds(list, e, d), NEW less \in Int, less <= d
  PROVE  Bounds(list, e, less)
<1>1. \A x \in Int : d <= x => less <= x
  OBVIOUS
<1>2. /\ Reached(n, e) /\ Filling(list, n, d) /\ \A j \in 1 .. n : Since(list, j, e, d)
      /\ Past(n, e, d) /\ Current(n, e, d)
  BY PartsOfBounds, Zenon
<1>3. \A j \in Int : Due(From(list, j)) \in Int
  <2> TAKE j \in Int
  <2>1. PICK f \in Nat : f = From(list, j)
    BY FromIsNat, Zenon
  <2>2. f \in Int
    OBVIOUS
  <2> QED BY <2>1, <2>2, DueIs, Zenon
<1>4. \A k \in Int : Line(e - Secs(k)) \in Int
  <2> TAKE k \in Int
  <2>1. PICK s \in Int : s = Secs(k)
    BY SecsIs, Zenon
  <2>2. e - s \in Int
    OBVIOUS
  <2> QED BY <2>1, <2>2, LineIs, Zenon
<1>5. Filling(list, n, less)
  <2>1. 1 \in Int
    OBVIOUS
  <2> QED BY <1>1, <1>2, <1>3, <2>1, Zenon DEF Filling
<1>6. ASSUME NEW j \in 1 .. n PROVE Since(list, j, e, less)
  <2>1. j \in Int /\ j - 1 \in Int
    OBVIOUS
  <2>2. PICK x \in Int, y \in Int : x = Due(From(list, j)) /\ y = Line(e - Secs(j - 1))
    BY <1>3, <1>4, <2>1, Zenon
  <2>3. d <= x \/ d <= y + x
    BY <1>2, <2>2, Zenon DEF Since
  <2>4. less <= x \/ less <= y + x
    BY <2>3
  <2> QED BY <2>2, <2>4, Zenon DEF Since
<1>7. Past(n, e, less)
  <2>1. n \in Int /\ 0 \in Int
    OBVIOUS
  <2> QED BY <1>1, <1>2, <1>4, <2>1, Zenon DEF Past
<1>8. Current(n, e, less)
  <2>1. n - 1 \in Int /\ 20 * Allowed \in Int
    BY LineIs
  <2> QED BY <1>1, <1>2, <1>4, <2>1, Zenon DEF Current
<1> QED BY <1>2, <1>5, <1>6, <1>7, <1>8, PartsOfBounds, Zenon

(* The sleep before a write. *)
Delay(list, c, time) == DelayOf(Sum(list) + c, list, time)

(* A write that is counted in the last bucket, and the sleep before it. *)
LEMMA WriteKept ==
  ASSUME uploadLimit \in Nat \ {0}, NEW list \in Seq(Nat), NEW n \in 1 .. 5, n = Len(list),
         NEW time \in Nat, time < Secs(n), NEW d \in Int, Bounds(list, time, d),
         NEW c \in Nat, c <= Rate
  PROVE  /\ Delay(list, c, time) \in Nat
         /\ Grown(list, n, c) \in Seq(Nat) /\ Len(Grown(list, n, c)) = n
         /\ Bounds(Grown(list, n, c), time + Delay(list, c, time),
                   Owes(d, Back(Delay(list, c, time)), Due(c)))
<1>0. PICK w, more : w = Delay(list, c, time) /\ more = Grown(list, n, c)
  OBVIOUS
<1>1. /\ Reached(n, time) /\ Filling(list, n, d) /\ \A j \in 1 .. n : Since(list, j, time, d)
      /\ Past(n, time, d) /\ Current(n, time, d)
  <2>1. time \in Int
    OBVIOUS
  <2> QED BY <2>1, PartsOfBounds, Zenon
<1>2. /\ more \in Seq(Nat) /\ Len(more) = n
      /\ \A j \in 1 .. n : From(more, j) = From(list, j) + c
  <2>1. /\ Grown(list, n, c) \in Seq(Nat) /\ Len(Grown(list, n, c)) = n
        /\ \A j \in 1 .. n : From(Grown(list, n, c), j) = From(list, j) + c
    BY FromGrows, Zenon
  <2> QED BY <1>0, <2>1, Zenon
<1>3. Counts(list, n, c, more)
  BY <1>2, Zenon DEF Counts
<1>4. PICK a \in Nat : a = From(list, 1) + c
  <2>1. 1 \in Int
    OBVIOUS
  <2>2. PICK f \in Nat : f = From(list, 1)
    BY <2>1, FromIsNat, Zenon
  <2>3. f + c \in Nat
    OBVIOUS
  <2> QED BY <2>2, <2>3, Zenon
<1>5. w = DelayOf(a, list, time)
  <2>1. Sum(list) = From(list, 1)
    BY SumIsFromFirst, Zenon
  <2> QED BY <1>0, <1>4, <2>1, Zenon DEF Delay
<1>6. Sleeps(From(list, 1) + c, n, time, w)
  BY <1>1, <1>4, <1>5, DelaySleeps, Zenon
<1>7. uploadLimit \in Nat /\ time \in Int /\ 1 \in 1 .. n
  OBVIOUS
<1>8. /\ w \in 0 .. Second
      /\ Back(w) \in Nat /\ Back(w) <= 5 * Allowed
      /\ Due(c) \in Nat /\ Due(c) <= 4 * Allowed
      /\ Allowed \in Nat
  BY <1>6, <1>7, SleepsFor, Zenon
<1>9. w \in Nat
  BY <1>8, ThrottleAssumption
<1>10. Since(list, 1, time, d)
  BY <1>1, <1>7, Zenon
<1> HIDE DEF Bounds
<1>11. PICK o \in Int : o = Owes(d, Back(w), Due(c))
  <2>1. PICK b \in Nat, v \in Nat : b = Back(w) /\ v = Due(c)
    BY <1>8, Zenon
  <2>2. Owes(d, b, v) \in Int
    BY OwesEither
  <2> QED BY <2>1, <2>2, Zenon
<1>12. Reached(n, time + w)
  <2>1. PICK s \in Int : s = Secs(n - 1) /\ s <= time
    <3>1. n - 1 \in Int
      OBVIOUS
    <3> QED BY <1>1, <3>1, SecsIs, Zenon DEF Reached
  <2>2. s <= time + w
    BY <1>9, <2>1
  <2> QED BY <2>1, <2>2, Zenon DEF Reached
<1>13. Filling(more, n, Owes(d, Back(w), Due(c)))
  BY <1>1, <1>3, <1>7, <1>8, <1>9, FillingKept, Zenon
<1>14. ASSUME NEW j \in 1 .. n PROVE Since(more, j, time + w, Owes(d, Back(w), Due(c)))
  <2>1. Since(list, j, time, d)
    BY <1>1, Zenon
  <2> QED BY <1>3, <1>7, <1>8, <1>9, <2>1, SinceKept, Zenon
<1>15. Past(n, time + w, Owes(d, Back(w), Due(c)))
  BY <1>1, <1>3, <1>6, <1>7, <1>10, PastKept, Zenon
<1>16. Current(n, time + w, Owes(d, Back(w), Due(c)))
  BY <1>1, <1>3, <1>6, <1>7, <1>10, CurrentKept, Zenon
<1>17. Bounds(more, time + w, Owes(d, Back(w), Due(c)))
  BY <1>2, <1>12, <1>13, <1>14, <1>15, <1>16, PartsOfBounds, Zenon
<1> QED BY <1>0, <1>2, <1>9, <1>17, Zenon

(* Time goes by. *)
LEMMA PauseKept ==
  ASSUME uploadLimit \in Nat, NEW list \in Seq(Nat), NEW n \in 1 .. 5, n = Len(list),
         NEW e \in Int, NEW d \in Int, Bounds(list, e, d), NEW t \in Nat
  PROVE  Bounds(list, e + t, Owes(d, Back(t), 0))
<1>1. /\ Reached(n, e) /\ Filling(list, n, d) /\ \A j \in 1 .. n : Since(list, j, e, d)
      /\ Past(n, e, d) /\ Current(n, e, d)
  BY PartsOfBounds, Zenon
<1>2. Due(0) = 0 /\ 0 \in Nat
  BY DueIs
<1>3. Counts(list, n, 0, list)
  <2>1. ASSUME NEW j \in 1 .. n PROVE From(list, j) = From(list, j) + 0
    <3>1. j \in Int
      OBVIOUS
    <3>2. PICK f \in Nat : f = From(list, j)
      BY <3>1, FromIsNat, Zenon
    <3>3. f = f + 0
      OBVIOUS
    <3> QED BY <3>2, <3>3, Zenon
  <2> QED BY <2>1, Zenon DEF Counts
<1>4. t \in Int /\ 0 \in Int /\ 0 <= t /\ n - 1 \in Int /\ n \in Int
  OBVIOUS
<1>5. PICK b \in Nat : b = Back(t)
  <2>1. Back(0) = 0 /\ Back(t) \in Int /\ Back(0) <= Back(t)
    BY <1>4, BackIs, Zenon
  <2> QED BY <2>1
<1>6. Back(t) \in Nat /\ Due(0) \in Nat
  BY <1>2, <1>5, Zenon
<1>7. Filling(list, n, Owes(d, Back(t), 0))
  <2>1. Filling(list, n, Owes(d, Back(t), Due(0)))
    BY <1>1, <1>2, <1>3, <1>6, FillingKept, Zenon
  <2> QED BY <1>2, <2>1, Zenon
<1>8. ASSUME NEW j \in 1 .. n PROVE Since(list, j, e + t, Owes(d, Back(t), 0))
  <2>1. Since(list, j, e, d)
    BY <1>1, Zenon
  <2>2. Since(list, j, e + t, Owes(d, Back(t), Due(0)))
    BY <1>2, <1>3, <1>6, <2>1, SinceKept, Zenon
  <2> QED BY <1>2, <2>2, Zenon
<1>9. PICK o \in Int : o = Owes(d, b, 0) /\ (o = 0 \/ o = d - b)
  <2>1. Owes(d, b, 0) \in Int /\ (Owes(d, b, 0) = 0 \/ Owes(d, b, 0) = d - b + 0)
    BY <1>2, OwesEither
  <2>2. d - b + 0 = d - b
    OBVIOUS
  <2> QED BY <2>1, <2>2, Zenon
<1>10. PICK s \in Int, m \in Int : s = Secs(n) /\ m = Secs(n - 1) /\ m = s - Second
  <2>1. n \in Int /\ 1 \in Int
    OBVIOUS
  <2>2. Secs(n) \in Int /\ Secs(n - 1) \in Int /\ Secs(n - 1) = Secs(n) - Second
    BY <1>4, <2>1, SecsIs, Zenon
  <2> QED BY <2>2, Zenon
<1>11. PICK q \in Nat : q = Allowed
  BY BackIs, Zenon
<1>12. Second \in Nat \ {0}
  BY ThrottleAssumption
<1>13. Reached(n, e + t)
  <2>1. m <= e
    BY <1>1, <1>10, Zenon DEF Reached
  <2>2. m <= e + t
    BY <2>1
  <2> QED BY <1>10, <2>2, Zenon DEF Reached
<1>14. ASSUME NEW u \in Int, d <= Line(e - u) PROVE o <= 0 \/ o <= Line((e + t) - u)
  <2>1. (e + t) - u = (e - u) + t /\ e - u \in Int
    OBVIOUS
  <2>2. PICK y \in Int : y = Line(e - u) /\ Line((e + t) - u) = y - b
    <3>1. Line(e - u) \in Int /\ Line((e - u) + t) = Line(e - u) - Back(t)
      BY <1>4, <2>1, LineIs, Zenon
    <3> QED BY <1>5, <2>1, <3>1, Zenon
  <2>3. d <= y
    BY <1>14, <2>2, Zenon
  <2>4. o <= 0 \/ o <= y - b
    BY <1>9, <2>3
  <2> QED BY <2>2, <2>4, Zenon
<1>15. Past(n, e + t, o)
  <2> SUFFICES ASSUME s <= e + t PROVE o <= 0 \/ o <= Line((e + t) - s)
    BY <1>10, Zenon DEF Past
  <2>1. CASE s <= e
    <3>1. CASE d <= 0
      BY <1>9, <3>1
    <3>2. CASE d <= Line(e - s)
      BY <1>14, <3>2, Zenon
    <3> QED BY <1>1, <1>10, <2>1, <3>1, <3>2, Zenon DEF Past
  <2>2. CASE e < s
    <3>1. PICK f \in Int : f = Back((e + t) - s) /\ f <= b
      <4>1. (e + t) - s \in Int /\ (e + t) - s <= t
        BY <2>2
      <4> QED BY <1>4, <1>5, <4>1, BackIs, Zenon
    <3>2. CASE d <= 20 * Allowed
      <4>1. d <= 20 * q
        BY <1>11, <3>2, Zenon
      <4>2. o <= 0 \/ o <= 24 * q - f
        BY <1>9, <3>1, <4>1
      <4> QED BY <1>11, <3>1, <4>2, Zenon DEF Line
    <3>3. CASE d <= Line(e - m)
      <4>1. o <= 0 \/ o <= Line((e + t) - m)
        BY <1>14, <3>3, Zenon
      <4>2. (e + t) - s <= (e + t) - m /\ (e + t) - s \in Int /\ (e + t) - m \in Int
        BY <1>10, <1>12
      <4>3. PICK y \in Int, z \in Int : y = Line((e + t) - m) /\ z = Line((e + t) - s) /\ y <= z
        BY <4>2, LineIs, Zenon
      <4>4. o <= 0 \/ o <= y
        BY <4>1, <4>3, Zenon
      <4>5. o <= 0 \/ o <= z
        BY <4>3, <4>4
      <4> QED BY <4>3, <4>5, Zenon
    <3> QED BY <1>1, <1>10, <2>2, <3>2, <3>3, Zenon DEF Current
  <2>3. s <= e \/ e < s
    OBVIOUS
  <2> QED BY <2>1, <2>2, <2>3, Zenon
<1>16. Current(n, e + t, o)
  <2> SUFFICES ASSUME e + t < s PROVE o <= 20 * Allowed \/ o <= Line((e + t) - m)
    BY <1>10, Zenon DEF Current
  <2>1. o <= 0 => o <= 20 * Allowed
    <3>1. o <= 0 => o <= 20 * q
      OBVIOUS
    <3> QED BY <1>11, <3>1, Zenon
  <2>2. CASE d <= 20 * Allowed
    <3>1. d <= 20 * q
      BY <1>11, <2>2, Zenon
    <3>2. o <= 20 * q
      BY <1>9, <3>1
    <3> QED BY <1>11, <3>2, Zenon
  <2>3. CASE d <= Line(e - m)
    BY <1>14, <2>1, <2>3, Zenon
  <2>4. e < s
    OBVIOUS
  <2> QED BY <1>1, <1>10, <2>2, <2>3, <2>4, Zenon DEF Current
<1>17. o = Owes(d, Back(t), 0)
  BY <1>5, <1>9, Zenon
<1>18. Past(n, e + t, Owes(d, Back(t), 0)) /\ Current(n, e + t, Owes(d, Back(t), 0))
  BY <1>15, <1>16, <1>17, Zenon
<1> QED BY <1>7, <1>8, <1>13, <1>18, PartsOfBounds, Zenon

(* No write is counted for more than the limit or the allowance allows in a
   second. *)
CountedWrites ==
  \A units \in LimitedWrites, l \in Limits \ {0} : units \div Kilobyte <= Higher(l, Allowance)

(* They are counted for their whole kilobytes. *)
LEMMA WholeKilobytes ==
  ASSUME CountedWrites, NEW units \in LimitedWrites, uploadLimit \in Limits \ {0}
  PROVE  /\ units \div Kilobyte \in Nat /\ units \div Kilobyte <= Rate
         /\ (N - 1) * Second * Weight(units) = Due(units \div Kilobyte)
<1>1. PICK u \in Nat, k \in Nat \ {0}, s \in Nat : u = units /\ k = Kilobyte /\ s = Second
  BY ThrottleAssumption
<1>2. PICK c \in Nat : c = u \div k
  BY Quotient, Zenon
<1>3. c <= Rate
  BY <1>1, <1>2, Zenon DEF CountedWrites, Rate
<1>4. Weight(units) = k * c
  BY <1>1, <1>2 DEF Weight
<1>5. (N - 1) * Second * Weight(units) = Due(c)
  <2>1. (5 - 1) * s * (k * c) = 4 * s * k * c
    OBVIOUS
  <2> QED BY <1>1, <1>4, <2>1, Zenon DEF Due, N
<1> QED BY <1>1, <1>2, <1>3, <1>5, Zenon

(* Why the limit is kept: the bounds on what is owed, while the clock has not been
   set back. *)
LimitInv ==
  /\ steps \in Nat
  /\ steps = 0 => /\ BucketInv /\ uploadLimit \in Limits /\ debt \in Int
                  /\ ~Started => debt <= 0
                  /\ Started => Bounds(buckets, elapsed, debt)

(* What is paid back in a sleep or a pause. *)
LEMMA RepaidIs ==
  ASSUME uploadLimit \in Nat, debt \in Int, NEW t \in Nat
  PROVE  /\ Back(t) \in Nat
         /\ Repaid(t) = Owes(debt, Back(t), 0)
         /\ \A v \in Nat : Repaid(t) + v = Owes(debt, Back(t), v)
         /\ Repaid(t) \in Nat
<1>1. t \in Int /\ 0 \in Int /\ 0 <= t
  OBVIOUS
<1>2. Back(0) = 0 /\ Back(t) \in Int /\ Back(0) <= Back(t)
  BY <1>1, BackIs, Zenon
<1>3. PICK b \in Nat : b = Back(t)
  BY <1>2
<1>4. Repaid(t) = Higher(0, debt - b)
  BY <1>3, Zenon DEF Repaid, Back
<1>5. Higher(0, debt - b) \in Nat /\ Higher(0, debt - b) + 0 = Higher(0, debt - b)
  BY DEF Higher
<1> QED BY <1>3, <1>4, <1>5, Zenon DEF Owes

(* The buckets that are moved to the clock. *)
AtClock(list, time) ==
  /\ time = elapsed - Shifts * Second
  /\ list = IF Started THEN Extended(Shifted(Shifts), time) ELSE FirstBucket

(* A write keeps the bounds when the buckets have been moved to the clock. *)
LEMMA WriteStep ==
  ASSUME CountedWrites, BucketInv, uploadLimit \in Limits \ {0}, debt \in Int,
         NEW units \in LimitedWrites, WriteLimited(units), UNCHANGED uploadLimit,
         NEW time, NEW list, AtClock(list, time), Bounds(list, time, debt)
  PROVE  debt' \in Int /\ Bounds(buckets, elapsed, debt)' /\ Started'
<1>1. PICK c \in Nat : c = units \div Kilobyte /\ c <= Rate
                         /\ (N - 1) * Second * Weight(units) = Due(c)
  BY WholeKilobytes, Zenon
<1>2. PICK w : w = Delay(list, c, time)
  OBVIOUS
<1>3. /\ buckets' = [list EXCEPT ![Len(list)] = @ + c]
      /\ elapsed' = time + w
      /\ debt' = Lower(MaxDebt, Repaid(w) + Due(c))
  BY <1>1, <1>2, Zenon DEF WriteLimited, Delay, AtClock
<1>4. time \in Nat /\ list \in Seq(Nat) /\ Len(list) \in 1 .. 5 /\ time < Len(list) * Second
  <2>1. /\ time = elapsed - Shifts * Second
        /\ list = IF Started THEN Extended(Shifted(Shifts), time) ELSE FirstBucket
    BY Zenon DEF AtClock
  <2> QED BY <2>1, LoopsEnd
<1>5. PICK n \in 1 .. 5 : n = Len(list)
  BY <1>4, Zenon
<1>6. time < Secs(n)
  <2>1. Secs(n) = n * Second
    BY ThrottleAssumption DEF Secs
  <2> QED BY <1>4, <1>5, <2>1, Zenon
<1>7. uploadLimit \in Nat \ {0} /\ uploadLimit \in Nat
  BY ThrottleAssumption
<1>8. PICK more : more = Grown(list, n, c)
  OBVIOUS
<1>9. /\ w \in Nat /\ more \in Seq(Nat) /\ Len(more) = n
      /\ Bounds(more, time + w, Owes(debt, Back(w), Due(c)))
  <2>1. debt \in Int /\ c \in Nat /\ c <= Rate
    BY <1>1
  <2>2. PICK d \in Int : d = debt
    OBVIOUS
  <2>3. Bounds(list, time, d)
    BY <2>2, Zenon
  <2>4. /\ Delay(list, c, time) \in Nat
        /\ Grown(list, n, c) \in Seq(Nat) /\ Len(Grown(list, n, c)) = n
        /\ Bounds(Grown(list, n, c), time + Delay(list, c, time),
                  Owes(d, Back(Delay(list, c, time)), Due(c)))
    BY <1>4, <1>5, <1>6, <1>7, <2>1, <2>3, WriteKept, Zenon
  <2> QED BY <1>2, <1>8, <2>2, <2>4, Zenon
<1>10. buckets' = more
  BY <1>3, <1>5, <1>8, Zenon DEF Grown
<1>11. Due(c) \in Nat
  <2>1. c \in Int /\ 0 \in Int /\ 0 <= c
    OBVIOUS
  <2>2. Due(0) = 0 /\ Due(c) \in Int /\ Due(0) <= Due(c)
    BY <1>7, <2>1, DueIs, Zenon
  <2> QED BY <2>2
<1>12. Owes(debt, Back(w), Due(c)) = Repaid(w) + Due(c) /\ Repaid(w) \in Nat
  BY <1>7, <1>9, <1>11, RepaidIs, Zenon
<1>13. PICK o \in Int : o = Owes(debt, Back(w), Due(c)) /\ debt' = Lower(MaxDebt, o)
  <2>1. Repaid(w) + Due(c) \in Int
    BY <1>11, <1>12
  <2> QED BY <1>3, <1>12, <2>1, Zenon
<1>14. Lower(MaxDebt, o) \in Int /\ Lower(MaxDebt, o) <= o
  BY ThrottleAssumption DEF Lower
<1>15. PICK e \in Int : e = time + w
  BY <1>4, <1>9
<1>16. Bounds(more, e, o)
  BY <1>9, <1>13, <1>15, Zenon
<1>17. Bounds(more, e, debt')
  BY <1>7, <1>9, <1>13, <1>14, <1>16, LessOwed, Zenon
<1>18. Bounds(buckets', elapsed', debt')
  BY <1>3, <1>10, <1>15, <1>17, Zenon
<1>19. Bounds(buckets, elapsed, debt)'
  BY <1>18 DEF Bounds, Line, Back, Due, Allowed, Rate, Secs, From, Held
<1>20. Started'
  <2>1. \A r \in Seq(Nat) : Len(r) # 0 => r # <<>>
    OBVIOUS
  <2>2. n # 0
    OBVIOUS
  <2> QED BY <1>9, <1>10, <2>1, <2>2, Zenon DEF Started
<1> QED BY <1>13, <1>14, <1>19, <1>20, Zenon

(* How many buckets there are. *)
LEMMA HowMany ==
  ASSUME BucketInv, Started
  PROVE  buckets \in Seq(Nat) /\ Len(buckets) \in 1 .. 5
<1>1. buckets \in Seq(Nat) /\ buckets # <<>> /\ Len(buckets) <= 5
  BY DEF BucketInv, Started
<1>2. \A s \in Seq(Nat) : Len(s) \in Nat /\ (Len(s) = 0 => s = <<>>)
  BY EmptySeq, LenProperties
<1>3. PICK l \in Nat : l = Len(buckets)
  BY <1>1, <1>2
<1>4. l # 0 /\ l <= 5
  BY <1>1, <1>2, <1>3
<1>5. l \in 1 .. 5
  BY <1>4
<1> QED BY <1>1, <1>3, <1>5, Zenon

(* Moving the buckets to the clock keeps the bounds, and the first write has them. *)
LEMMA BoundsAtClock ==
  ASSUME LimitInv, steps = 0, NEW time, NEW list, AtClock(list, time)
  PROVE  Bounds(list, time, debt)
<1>1. /\ BucketInv /\ uploadLimit \in Limits /\ debt \in Int
      /\ ~Started => debt <= 0
      /\ Started => Bounds(buckets, elapsed, debt)
  BY Zenon DEF LimitInv
<1>2. /\ time = elapsed - Shifts * Second
      /\ list = IF Started THEN Extended(Shifted(Shifts), time) ELSE FirstBucket
  BY Zenon DEF AtClock
<1>3. time \in Nat /\ list \in Seq(Nat) /\ Len(list) \in 1 .. 5 /\ time < Len(list) * Second
  BY <1>1, <1>2, LoopsEnd
<1>4. PICK r \in 1 .. 5 : r = Len(list)
  BY <1>3, Zenon
<1>5. time < Secs(r)
  <2>1. Secs(r) = r * Second
    BY ThrottleAssumption DEF Secs
  <2> QED BY <1>3, <1>4, <2>1, Zenon
<1>6. PICK d \in Int : d = debt
  BY <1>1, Zenon
<1>7. time \in Int /\ uploadLimit \in Nat
  BY <1>1, <1>3 DEF BucketInv
<1>8. CASE ~Started
  <2>1. Reached(r, time)
    <3>1. r = 1
      <4>1. \A k : k = FirstBucket => Len(k) = 1
        BY DEF FirstBucket
      <4> QED BY <1>2, <1>4, <1>8, <4>1, Zenon
    <3>2. Secs(r - 1) = 0
      <4>1. r - 1 = 0
        BY <3>1
      <4> QED BY <4>1, SecsIs, Zenon
    <3>3. 0 <= time
      BY <1>3
    <3> QED BY <3>2, <3>3, Zenon DEF Reached
  <2>2. d <= 0
    BY <1>1, <1>6, <1>8, Zenon
  <2>3. Bounds(list, time, d)
    BY <1>3, <1>4, <1>7, <2>1, <2>2, NothingOwed, Zenon
  <2> QED BY <1>6, <2>3, Zenon
<1>9. CASE Started
  <2>1. list = Extended(Shifted(Shifts), time)
    BY <1>2, <1>9, Zenon
  <2>2. PICK m \in Nat :
           /\ time = elapsed - Secs(m)
           /\ m = 0 \/ Secs(4) <= time
           /\ Len(list) = Len(buckets) \/ Secs(Len(list) - 1) <= time
           /\ Len(list) >= Len(buckets)
           /\ \A k \in Nat \ {0} : Held(list, k) = Held(buckets, k + m)
    BY <1>1, <1>2, <1>9, <2>1, LoopsMove
  <2>3. PICK old, n : old = buckets /\ old \in Seq(Nat) /\ n = Len(old) /\ n \in 1 .. 5
    BY <1>1, <1>9, HowMany, Zenon
  <2>4. PICK e \in Int : e = elapsed
    BY <1>1 DEF BucketInv
  <2>5. Moves(old, n, e, list, r, time, m)
    BY <1>3, <1>4, <1>5, <2>2, <2>3, <2>4, Zenon DEF Moves
  <2>6. Bounds(old, e, d)
    BY <1>1, <1>6, <1>9, <2>3, <2>4, Zenon
  <2>7. Bounds(list, time, d)
    BY <1>7, <2>3, <2>5, <2>6, BoundsMoved, Zenon
  <2> QED BY <1>6, <2>7, Zenon
<1> QED BY <1>8, <1>9, Zenon

(* A second's worth of debt is a number. *)
LEMMA LimitFollows == ASSUME LimitInv PROVE LimitKept
<1> SUFFICES ASSUME steps = 0 PROVE debt <= (N + 1) * (N - 1) * Rate * Kilobyte * Second
  BY Zenon DEF LimitKept
<1>1. /\ BucketInv /\ debt \in Int /\ uploadLimit \in Nat
      /\ ~Started => debt <= 0
      /\ Started => Bounds(buckets, elapsed, debt)
  BY Zenon DEF LimitInv, BucketInv
<1>2. (N + 1) * (N - 1) * Rate * Kilobyte * Second = 24 * Allowed
  <2>1. PICK l \in Nat, k \in Nat, s \in Nat : l = Rate /\ k = Kilobyte /\ s = Second
    BY <1>1, RateIs, ThrottleAssumption
  <2>2. (5 + 1) * (5 - 1) * l * k * s = 24 * (l * k * s)
    OBVIOUS
  <2> QED BY <2>1, <2>2, Zenon DEF Allowed, N
<1>3. PICK q \in Nat : q = Allowed
  BY <1>1, BackIs, Zenon
<1>4. PICK d \in Int : d = debt
  BY <1>1, Zenon
<1>5. d <= 24 * q
  <2>1. CASE ~Started
    <3>1. d <= 0
      BY <1>1, <1>4, <2>1, Zenon
    <3> QED BY <3>1
  <2>2. CASE Started
    <3>1. PICK n \in 1 .. 5 : n = Len(buckets)
      BY <1>1, <2>2, HowMany, Zenon
    <3>2. PICK e \in Int : e = elapsed
      BY <1>1 DEF BucketInv
    <3>3. Reached(n, e) /\ Past(n, e, d) /\ Current(n, e, d)
      <4>1. Bounds(buckets, e, d)
        BY <1>1, <1>4, <2>2, <3>2, Zenon
      <4> QED BY <3>1, <4>1, PartsOfBounds, Zenon
    <3>4. PICK s \in Int, m \in Int : s = Secs(n) /\ m = Secs(n - 1)
      <4>1. n \in Int /\ n - 1 \in Int
        OBVIOUS
      <4> QED BY <4>1, SecsIs, Zenon
    <3>5. ASSUME NEW u \in Int, 0 <= u, d <= Line(u) PROVE d <= 24 * q
      <4>1. 0 \in Int
        OBVIOUS
      <4>2. Line(0) = 24 * Allowed /\ Line(u) \in Int /\ Line(0) \in Int
        BY <1>1, <4>1, LineIs, Zenon
      <4>3. Line(u) <= Line(0)
        BY <1>1, <3>5, <4>1, LineIs, Zenon
      <4>4. PICK y \in Int : y = Line(u) /\ y <= 24 * q
        BY <1>3, <4>2, <4>3, Zenon
      <4>5. d <= y
        BY <3>5, <4>4, Zenon
      <4> QED BY <4>4, <4>5
    <3>6. CASE s <= e
      <4>1. d <= 0 \/ d <= Line(e - s)
        BY <3>3, <3>4, <3>6, Zenon DEF Past
      <4>2. e - s \in Int /\ 0 <= e - s /\ (d <= 0 => d <= 24 * q)
        BY <3>6
      <4> QED BY <3>5, <4>1, <4>2, Zenon
    <3>7. CASE e < s
      <4>1. d <= 20 * q \/ d <= Line(e - m)
        BY <1>3, <3>3, <3>4, <3>7, Zenon DEF Current
      <4>2. m <= e
        BY <3>3, <3>4, Zenon DEF Reached
      <4>3. e - m \in Int /\ 0 <= e - m /\ (d <= 20 * q => d <= 24 * q)
        BY <4>2
      <4> QED BY <3>5, <4>1, <4>3, Zenon
    <3>8. s <= e \/ e < s
      OBVIOUS
    <3> QED BY <3>6, <3>7, <3>8, Zenon
  <2> QED BY <2>1, <2>2, Zenon
<1> QED BY <1>2, <1>3, <1>4, <1>5, Zenon

(* Where nothing is owed now, nothing is to be shown now. *)
NothingIsOwed == BucketInv /\ Started /\ Reached(Len(buckets), elapsed) /\ debt = 0

(* It has the bounds. *)
LEMMA NothingOwedNow == NothingIsOwed => Bounds(buckets, elapsed, debt)
<1> SUFFICES ASSUME NothingIsOwed PROVE Bounds(buckets, elapsed, debt)
  OBVIOUS
<1>1. BucketInv /\ Started /\ Reached(Len(buckets), elapsed) /\ debt = 0
  BY Zenon DEF NothingIsOwed
<1>2. PICK list, n, e : /\ list = buckets /\ list \in Seq(Nat) /\ n = Len(list) /\ n \in 1 .. 5
                        /\ e = elapsed
  BY <1>1, HowMany, Zenon
<1>3. uploadLimit \in Nat /\ e \in Int
  BY <1>1, <1>2 DEF BucketInv
<1>4. Reached(n, e)
  BY <1>1, <1>2, Zenon
<1>5. 0 \in Int /\ 0 <= 0
  OBVIOUS
<1>6. Bounds(list, e, 0)
  BY <1>2, <1>3, <1>4, <1>5, NothingOwed, Zenon
<1> QED BY <1>1, <1>2, <1>6, Zenon

(* A pause keeps the bounds. *)
LEMMA PauseStep ==
  ASSUME BucketInv, debt \in Int, ~Started => debt <= 0,
         Started => Bounds(buckets, elapsed, debt), Pause
  PROVE  debt' \in Int /\ (~Started => debt <= 0)' /\ (Started => Bounds(buckets, elapsed, debt))'
<1>1. PICK t \in Nat : /\ elapsed' = IF Started THEN elapsed + t ELSE elapsed
                       /\ debt' = Repaid(t)
  BY ThrottleAssumption DEF Pause
<1>2. uploadLimit' = uploadLimit /\ buckets' = buckets
  BY DEF Pause
<1>3. uploadLimit \in Nat
  BY DEF BucketInv
<1>4. Repaid(t) \in Nat /\ Repaid(t) = Owes(debt, Back(t), 0) /\ Back(t) \in Nat
  BY <1>3, RepaidIs, Zenon
<1>5. debt' \in Int
  BY <1>1, <1>4
<1>6. ASSUME ~Started PROVE debt' <= 0
  <2>1. PICK b \in Nat, d \in Int : b = Back(t) /\ d = debt /\ d <= 0
    BY <1>4, <1>6, Zenon
  <2>2. Owes(d, b, 0) <= 0
    BY <2>1 DEF Owes, Higher
  <2> QED BY <1>1, <1>4, <2>1, <2>2, Zenon
<1>7. ASSUME Started PROVE Bounds(buckets, elapsed, debt)'
  <2>1. PICK list, n, e, d : /\ list = buckets /\ list \in Seq(Nat) /\ n = Len(list) /\ n \in 1 .. 5
                             /\ e = elapsed /\ d = debt
    BY <1>7, HowMany, Zenon
  <2>2. d \in Int /\ e \in Int
    BY <2>1 DEF BucketInv
  <2>3. Bounds(list, e, d)
    BY <1>7, <2>1, Zenon
  <2>4. Bounds(list, e + t, Owes(d, Back(t), 0))
    BY <1>3, <2>1, <2>2, <2>3, PauseKept, Zenon
  <2>5. Bounds(buckets', elapsed', debt')
    BY <1>1, <1>2, <1>4, <1>7, <2>1, <2>4, Zenon
  <2> QED BY <1>2, <2>5 DEF Bounds, Line, Back, Due, Allowed, Rate, Secs, From, Held
<1> QED BY <1>2, <1>5, <1>6, <1>7, Zenon DEF Started

(* Every step keeps the invariant. *)
LEMMA LimitInvKept == ASSUME CountedWrites, LimitInv, [ThrottleNext]_throttleVars PROVE LimitInv'
<1>1. CASE ClockStepsBack
  <2>1. steps' \in Nat /\ steps' # 0
    BY <1>1 DEF ClockStepsBack, LimitInv
  <2> QED BY <2>1, Zenon DEF LimitInv
<1>2. CASE Pause \/ SetUploadLimit \/ LimitedWriteAll \/ UNCHANGED throttleVars
  <2>1. steps' = steps /\ steps \in Nat
    BY <1>2 DEF Pause, SetUploadLimit, LimitedWriteAll, NeverCatchesUp, WriteLimited, throttleVars,
                LimitInv
  <2> SUFFICES ASSUME steps = 0
               PROVE  /\ BucketInv' /\ uploadLimit' \in Limits /\ debt' \in Int
                      /\ (~Started => debt <= 0)'
                      /\ (Started => Bounds(buckets, elapsed, debt))'
    BY <2>1, Zenon DEF LimitInv
  <2>2. /\ BucketInv /\ uploadLimit \in Limits /\ debt \in Int
        /\ ~Started => debt <= 0
        /\ Started => Bounds(buckets, elapsed, debt)
    BY Zenon DEF LimitInv
  <2>3. BucketInv'
    BY <1>2, <2>2, BucketStep, Zenon
  <2>4. CASE Pause
    <3>1. debt' \in Int /\ (~Started => debt <= 0)' /\ (Started => Bounds(buckets, elapsed, debt))'
      BY <2>2, <2>4, PauseStep, Zenon
    <3>2. uploadLimit' = uploadLimit
      BY <2>4 DEF Pause
    <3> QED BY <2>2, <2>3, <3>1, <3>2, Zenon
  <2>5. CASE SetUploadLimit
    <3>1. /\ uploadLimit' \in Limits /\ debt' = 0 /\ buckets' = buckets /\ elapsed' = elapsed
      BY <2>5 DEF SetUploadLimit
    <3>2. debt' \in Int /\ debt' <= 0
      BY <3>1
    <3>3. ASSUME Started' PROVE Bounds(buckets, elapsed, debt)'
      <4>1. Started
        BY <3>1, <3>3, Zenon DEF Started
      <4>2. Reached(Len(buckets), elapsed)
        BY <2>2, <4>1, Zenon DEF Bounds, Reached
      <4>3. Reached(Len(buckets), elapsed)'
        BY <3>1, <4>2, Zenon DEF Reached, Secs
      <4>4. NothingIsOwed'
        BY <2>3, <3>1, <3>3, <4>3, Zenon DEF NothingIsOwed
      <4>5. NothingIsOwed' => Bounds(buckets, elapsed, debt)'
        BY NothingOwedNow, PTL
      <4> QED BY <4>4, <4>5, Zenon
    <3> QED BY <2>3, <3>1, <3>2, <3>3, Zenon
  <2>6. CASE LimitedWriteAll
    <3>1. PICK units \in LimitedWrites : IF elapsed < 0 THEN NeverCatchesUp ELSE WriteLimited(units)
      BY <2>6 DEF LimitedWriteAll
    <3>2. WriteLimited(units)
      BY <2>2, <3>1 DEF BucketInv
    <3>3. uploadLimit \in Limits \ {0} /\ uploadLimit' = uploadLimit
      BY <2>2, <2>6 DEF LimitedWriteAll
    <3>4. PICK time, list : AtClock(list, time)
      BY Zenon DEF AtClock
    <3>5. Bounds(list, time, debt)
      BY <3>4, BoundsAtClock, Zenon
    <3>6. debt' \in Int /\ Bounds(buckets, elapsed, debt)' /\ Started'
      BY <2>2, <3>2, <3>3, <3>4, <3>5, WriteStep, Zenon
    <3> QED BY <2>2, <2>3, <3>3, <3>6, Zenon
  <2>7. CASE UNCHANGED throttleVars
    <3>1. /\ uploadLimit' = uploadLimit /\ debt' = debt /\ buckets' = buckets /\ elapsed' = elapsed
      BY <2>7 DEF throttleVars
    <3>2. ASSUME Started' PROVE Bounds(buckets, elapsed, debt)'
      <4>1. Bounds(buckets', elapsed', debt')
        BY <2>2, <3>1, <3>2, Zenon DEF Started
      <4> QED BY <3>1, <4>1 DEF Bounds, Line, Back, Due, Allowed, Rate, Secs, From, Held
    <3> QED BY <2>2, <2>3, <3>1, <3>2, Zenon DEF Started
  <2> QED BY <1>2, <2>4, <2>5, <2>6, <2>7, Zenon
<1> QED BY <1>1, <1>2 DEF ThrottleNext

(* While the clock is not set back, in no stretch of time is more counted as written
   than five fourths of what the limit allows for it, or what the largest write in
   every second comes to if that is more, and a burst of six seconds of that. *)
THEOREM LimitIsKept ==
  ASSUME CountedWrites
  PROVE  ThrottleSpec => []LimitKept
<1>1. ThrottleInit => LimitInv
  <2>1. ThrottleInit => BucketInv
    BY ThrottleAssumption DEF ThrottleInit, BucketInv
  <2> QED BY <2>1 DEF ThrottleInit, LimitInv, Started
<1>2. LimitInv /\ [ThrottleNext]_throttleVars => LimitInv'
  BY LimitInvKept
<1>3. LimitInv => LimitKept
  BY LimitFollows
<1> QED BY <1>1, <1>2, <1>3, PTL DEF ThrottleSpec
=============================================================================
