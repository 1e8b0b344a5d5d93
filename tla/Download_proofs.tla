-------------------------- MODULE Download_proofs --------------------------
(***************************************************************************)
(* Theorems about Download, for every list of files and every size of the  *)
(* requests, of the replies and of the pipes.  In this order:              *)
(*                                                                         *)
(* - TypeInv: the types, and what the units of the wire are.               *)
(*                                                                         *)
(* - FlushInv: the thread never writes into the middle of a flush.         *)
(*   bufferFlushed is set to true at the end of a phase whatever           *)
(*   tryFlushWriteBuffer said last, and Stream::write throws if it had not *)
(*   finished.  The argument is that the INDEX_DONE that ends a phase is   *)
(*   the answer to the last thing the thread has put into the buffer, so   *)
(*   it cannot come before the buffer is empty.                            *)
(*                                                                         *)
(* - LeftoversAreStale and LocalFileKept, from what PartialFileKeeper      *)
(*   leaves behind.                                                        *)
(*                                                                         *)
(* - ReplyInv and CountInv: replies come whole and in order, so that       *)
(*   receiveFile reads the header, the tokens and the digest of one file,  *)
(*   and *d_logicalBytes counts as many tokens as the reply has.           *)
(*                                                                         *)
(* - AttemptInv: a file of the queue is in one place at a time - waiting,  *)
(*   asked for, answered, in hand, to be retried or updated - and has      *)
(*   failed once for each phase that is over.                              *)
(*                                                                         *)
(* - SettleInv: no file gets lost on the way, hence Accounted.             *)
(*                                                                         *)
(* - UpdatedIsCurrent: an updated file is in no other place, so nothing    *)
(*   takes its place on the disk.                                          *)
(***************************************************************************)
EXTENDS Download, SequenceTheorems, FiniteSetTheorems, TLAPS

(* What the units of the wire are. *)
Unit ==
  [type : {"request"}, file : Files, base : Contents, part : Nat]
    \cup [type : {"done", "end"}]
    \cup [type : {"index"}, file : Files]
    \cup [type : {"header"}, base : Contents]
    \cup [type : {"token"}, from : Contents \cup {"wire"}]
    \cup [type : {"digest"}, good : BOOLEAN]

InLoop == pc \in {"generate", "flush", "poll", "index", "header", "token", "digest"}

TypeInv ==
  /\ TypeOK
  /\ \A s \in {buffer, outPipe, inPipe, remoteOut} : s \in Seq(Unit)
  /\ InLoop => phase < 2

(* Where the INDEX_DONE of the current phase is. *)
IsDone(s, k) == s[k].type = "done"
NoDone(s) == \A k \in 1 .. Len(s) : ~IsDone(s, k)
DoneAtEnd(s) == \A k \in 1 .. Len(s) : IsDone(s, k) => k = Len(s)
DoneOnWire == ~NoDone(outPipe) \/ ~NoDone(remoteOut) \/ ~NoDone(inPipe)

(* There is at most one of it, it is behind everything else that is on its
   way, and once it is on the wire nothing is left to flush. *)
OneDone ==
  /\ \A s \in {buffer, outPipe, remoteOut, inPipe} : DoneAtEnd(s)
  /\ ~NoDone(remoteOut) => outPipe = <<>>
  /\ ~NoDone(inPipe) => outPipe = <<>> /\ remoteOut = <<>>
  /\ DoneOnWire => buffer = <<>>
  /\ i < Len(queue) => NoDone(buffer) /\ ~DoneOnWire

FlushInv ==
  /\ pc # "write failed"
  /\ pc = "finish" => ~flushStart
  /\ InLoop => /\ buffer = <<>> \/ bufferFlushed => ~flushStart
               /\ OneDone
-----------------------------------------------------------------------------
(* Sequences of units: what becomes of an INDEX_DONE when they are put
   together, cut in two, or read from. *)

(* A function on 1 .. m is a sequence of length m. *)
LEMMA FunctionIsSeq ==
  ASSUME NEW m \in Nat, NEW S, NEW f \in [1 .. m -> S]
  PROVE  f \in Seq(S) /\ Len(f) = m
OBVIOUS

(* The empty wire. *)
LEMMA EmptyUnits == <<>> \in Seq(Unit) /\ NoDone(<<>>) /\ DoneAtEnd(<<>>)
BY EmptySeq DEF NoDone, DoneAtEnd

(* Units put behind other units: the INDEX_DONE stays last if only the second
   part has one. *)
LEMMA ConcatUnits ==
  ASSUME NEW s \in Seq(Unit), NEW t \in Seq(Unit)
  PROVE  /\ s \o t \in Seq(Unit)
         /\ NoDone(s) /\ NoDone(t) => NoDone(s \o t)
         /\ NoDone(s) /\ DoneAtEnd(t) => DoneAtEnd(s \o t)
         /\ Len(s \o t) = Len(s) + Len(t)
<1>1. Len(s) \in Nat /\ Len(t) \in Nat
  BY LenProperties
<1>2. /\ s \o t \in Seq(Unit) /\ Len(s \o t) = Len(s) + Len(t)
      /\ \A k \in 1 .. Len(s) + Len(t) :
           (s \o t)[k] = IF k <= Len(s) THEN s[k] ELSE t[k - Len(s)]
  BY ConcatProperties
<1>3. ASSUME NoDone(s), NEW k \in 1 .. Len(s \o t), IsDone(s \o t, k)
      PROVE  /\ k - Len(s) \in 1 .. Len(t)
             /\ IsDone(t, k - Len(s))
  BY <1>1, <1>2, <1>3 DEF NoDone, IsDone
<1>4. NoDone(s) /\ NoDone(t) => NoDone(s \o t)
  BY <1>3 DEF NoDone
<1>5. ASSUME NoDone(s), DoneAtEnd(t), NEW k \in 1 .. Len(s \o t), IsDone(s \o t, k)
      PROVE  k = Len(s \o t)
  <2>1. k - Len(s) = Len(t)
    BY <1>3, <1>5 DEF DoneAtEnd
  <2> QED  BY <1>1, <1>2, <2>1
<1> QED  BY <1>2, <1>4, <1>5 DEF DoneAtEnd

(* The oldest units of a wire. *)
LEMMA TakeUnits ==
  ASSUME NEW s \in Seq(Unit), NEW m \in 1 .. Len(s)
  PROVE  /\ Take(s, m) \in Seq(Unit) /\ Len(Take(s, m)) = m
         /\ NoDone(s) => NoDone(Take(s, m))
         /\ DoneAtEnd(s) => DoneAtEnd(Take(s, m))
         /\ DoneAtEnd(s) /\ m < Len(s) => NoDone(Take(s, m))
<1>1. Len(s) \in Nat /\ \A k \in 1 .. m : s[k] \in Unit
  BY LenProperties, ElementOfSeq
<1>2. /\ Take(s, m) \in Seq(Unit) /\ Len(Take(s, m)) = m
      /\ \A k \in 1 .. m : Take(s, m)[k] = s[k]
  BY <1>1, SubSeqProperties DEF Take
<1> QED  BY <1>1, <1>2 DEF NoDone, DoneAtEnd, IsDone

(* What stays on a wire after the oldest units have left. *)
LEMMA DropUnits ==
  ASSUME NEW s \in Seq(Unit), NEW m \in 1 .. Len(s)
  PROVE  /\ Drop(s, m) \in Seq(Unit) /\ Len(Drop(s, m)) = Len(s) - m
         /\ NoDone(s) => NoDone(Drop(s, m))
         /\ DoneAtEnd(s) => DoneAtEnd(Drop(s, m))
         /\ m = Len(s) => Drop(s, m) = <<>>
<1>1. Len(s) \in Nat /\ \A k \in m + 1 .. Len(s) : s[k] \in Unit
  BY LenProperties, ElementOfSeq
<1>2. /\ Drop(s, m) \in Seq(Unit) /\ Len(Drop(s, m)) = Len(s) - m
      /\ \A k \in 1 .. Len(s) - m : Drop(s, m)[k] = s[k + m]
  BY <1>1, SubSeqProperties DEF Drop
<1>3. m = Len(s) => Drop(s, m) = <<>>
  BY <1>1, SubSeqEmpty DEF Drop
<1>4. ASSUME NEW k \in 1 .. Len(Drop(s, m)), IsDone(Drop(s, m), k)
      PROVE  k + m \in 1 .. Len(s) /\ IsDone(s, k + m)
  BY <1>1, <1>2, <1>4 DEF IsDone
<1>5. NoDone(s) => NoDone(Drop(s, m))
  BY <1>4 DEF NoDone
<1>6. ASSUME DoneAtEnd(s), NEW k \in 1 .. Len(Drop(s, m)), IsDone(Drop(s, m), k)
      PROVE  k = Len(Drop(s, m))
  <2>1. k + m = Len(s)
    BY <1>4, <1>6 DEF DoneAtEnd
  <2>2. Len(s) \in Nat /\ k \in Int /\ m \in Int /\ Len(Drop(s, m)) = Len(s) - m
    BY <1>1, <1>2
  <2> QED  BY <2>1, <2>2
<1> QED  BY <1>2, <1>3, <1>5, <1>6 DEF DoneAtEnd

(* What stays on a wire after one unit has left. *)
LEMMA TailUnits ==
  ASSUME NEW s \in Seq(Unit), s # <<>>
  PROVE  /\ Head(s) \in Unit /\ Tail(s) \in Seq(Unit)
         /\ NoDone(s) => NoDone(Tail(s)) /\ Head(s).type # "done"
         /\ DoneAtEnd(s) => DoneAtEnd(Tail(s))
         /\ DoneAtEnd(s) /\ Head(s).type = "done" => Tail(s) = <<>>
         /\ Head(s).type = "done" => ~NoDone(s)
<1>1. Len(s) \in Nat \ {0}
  BY EmptySeq
<1>2. /\ Head(s) \in Unit /\ Tail(s) \in Seq(Unit) /\ Len(Tail(s)) = Len(s) - 1
      /\ \A k \in 1 .. Len(Tail(s)) : Tail(s)[k] = s[k + 1]
  BY HeadTailProperties
<1>3. Head(s) = s[1] /\ 1 \in 1 .. Len(s)
  BY <1>1
<1>4. ASSUME NEW k \in 1 .. Len(Tail(s)), IsDone(Tail(s), k)
      PROVE  k + 1 \in 1 .. Len(s) /\ IsDone(s, k + 1)
  BY <1>1, <1>2, <1>4 DEF IsDone
<1>5. NoDone(s) => NoDone(Tail(s))
  BY <1>4 DEF NoDone
<1>6. ASSUME DoneAtEnd(s), NEW k \in 1 .. Len(Tail(s)), IsDone(Tail(s), k)
      PROVE  k = Len(Tail(s))
  <2>1. k + 1 = Len(s)
    BY <1>4, <1>6 DEF DoneAtEnd
  <2>2. Len(s) \in Nat /\ k \in Int /\ Len(Tail(s)) = Len(s) - 1
    BY <1>1, <1>2
  <2> QED  BY <2>1, <2>2
<1>7. DoneAtEnd(s) /\ Head(s).type = "done" => Len(s) = 1
  BY <1>3 DEF DoneAtEnd, IsDone
<1>8. Len(s) = 1 => Tail(s) = <<>>
  <2>1. Len(s) = 1 => Len(Tail(s)) = 0
    BY <1>2
  <2>2. \A t \in Seq(Unit) : Len(t) = 0 => t = <<>>
    BY EmptySeq
  <2> QED  BY <1>2, <2>1, <2>2, Zenon
<1>9. Head(s).type = "done" => ~NoDone(s)
  BY <1>3 DEF NoDone, IsDone
<1> QED  BY <1>2, <1>5, <1>6, <1>7, <1>8, <1>9 DEF DoneAtEnd

(* What the two sides put on the wire consists of units. *)
LEMMA UnitFields ==
  ASSUME NEW u \in Unit
  PROVE  /\ u.type = "request" => u.file \in Files /\ u.base \in Contents
         /\ u.type = "index" => u.file \in Files
BY DEF Unit

(* An INDEX_DONE is a unit. *)
LEMMA DoneUnits == Done \in Unit /\ Done.type = "done" /\ <<Done>> \in Seq(Unit) /\ DoneAtEnd(<<Done>>)
<1>1. Done \in Unit /\ Done.type = "done"
  BY DEF Done, Unit
<1>2. <<Done>> \in [1 .. 1 -> Unit]
  BY <1>1
<1> QED  BY <1>1, <1>2, FunctionIsSeq DEF DoneAtEnd

(* A request is made of units, none of them an INDEX_DONE. *)
LEMMA RequestUnits ==
  ASSUME NEW f \in Files, NEW base \in Contents
  PROVE  Request(f, base) \in Seq(Unit) /\ NoDone(Request(f, base))
<1>1. RequestLength \in Nat
  BY DownloadAssumption
<1>2. \A k \in 1 .. RequestLength :
        /\ [type |-> "request", file |-> f, base |-> base, part |-> k] \in Unit
        /\ [type |-> "request", file |-> f, base |-> base, part |-> k].type # "done"
  BY DEF Unit
<1>3. Request(f, base) \in [1 .. RequestLength -> Unit]
  BY <1>2 DEF Request
<1>4. Request(f, base) \in Seq(Unit) /\ Len(Request(f, base)) = RequestLength
  BY <1>1, <1>3, FunctionIsSeq
<1>5. \A k \in 1 .. RequestLength : Request(f, base)[k].type # "done"
  BY <1>2 DEF Request
<1> QED  BY <1>4, <1>5 DEF NoDone, IsDone

(* A reply is made of units, none of them an INDEX_DONE. *)
LEMMA ReplyUnits ==
  ASSUME NEW f \in Files, NEW from \in Contents \cup {"wire"}, NEW of \in Contents,
         NEW good \in BOOLEAN
  PROVE  Reply(f, from, of, good) \in Seq(Unit) /\ NoDone(Reply(f, from, of, good))
<1> DEFINE first == <<[type |-> "index", file |-> f], [type |-> "header", base |-> of]>>
           middle == [k \in 1 .. ReplyLength |-> [type |-> "token", from |-> from]]
           last == <<[type |-> "end"], [type |-> "digest", good |-> good]>>
<1>1. first \in Seq(Unit) /\ NoDone(first)
  <2>1. first \in [1 .. 2 -> Unit] /\ \A k \in 1 .. 2 : first[k].type # "done"
    BY DEF Unit
  <2> QED  BY <2>1, FunctionIsSeq DEF NoDone, IsDone
<1>2. middle \in Seq(Unit) /\ NoDone(middle)
  <2>1. ReplyLength \in Nat
    BY DownloadAssumption
  <2>2. /\ middle \in [1 .. ReplyLength -> Unit]
        /\ \A k \in 1 .. ReplyLength : middle[k].type # "done"
    BY DEF Unit
  <2> HIDE DEF middle
  <2> QED  BY <2>1, <2>2, FunctionIsSeq DEF NoDone, IsDone
<1>3. last \in Seq(Unit) /\ NoDone(last)
  <2>1. last \in [1 .. 2 -> Unit] /\ \A k \in 1 .. 2 : last[k].type # "done"
    BY DEF Unit
  <2> QED  BY <2>1, FunctionIsSeq DEF NoDone, IsDone
<1>4. Reply(f, from, of, good) = first \o middle \o last
  BY DEF Reply
<1> HIDE DEF first, middle, last
<1>5. first \o middle \in Seq(Unit) /\ NoDone(first \o middle)
  BY <1>1, <1>2, ConcatUnits
<1> QED  BY <1>3, <1>4, <1>5, ConcatUnits

(* One turn of the loop adds units, with an INDEX_DONE only behind the last
   request of the queue. *)
LEMMA NextRequestUnits ==
  ASSUME TypeInv, i < Len(queue)
  PROVE  /\ NextRequest \in Seq(Unit) /\ DoneAtEnd(NextRequest)
         /\ i + 1 < Len(queue) => NoDone(NextRequest)
<1> DEFINE f == queue[i + 1]
           request == IF isReadable[f] THEN Request(f, BaseOf(f)) ELSE <<>>
           done == IF i + 1 = Len(queue) THEN <<Done>> ELSE <<>>
<1>1. f \in Files
  BY LenProperties, ElementOfSeq DEF TypeInv, TypeOK
<1>2. BaseOf(f) \in Contents
  BY <1>1 DEF TypeInv, TypeOK, BaseOf, Contents
<1>3. request \in Seq(Unit) /\ NoDone(request)
  BY <1>1, <1>2, RequestUnits, EmptyUnits
<1>4. done \in Seq(Unit) /\ DoneAtEnd(done) /\ (i + 1 # Len(queue) => NoDone(done))
  BY DoneUnits, EmptyUnits
<1>5. NextRequest = request \o done
  BY DEF NextRequest
<1>6. i + 1 < Len(queue) => i + 1 # Len(queue)
  BY LenProperties DEF TypeInv, TypeOK
<1> HIDE DEF request, done
<1> QED  BY <1>3, <1>4, <1>5, <1>6, ConcatUnits

-----------------------------------------------------------------------------
(* Type correctness, one lemma per action. *)

(* The types hold when download() begins. *)
LEMMA InitType == Init => TypeInv
<1> SUFFICES ASSUME Init PROVE TypeInv
  OBVIOUS
<1>1. Queue \in Seq(Files) /\ Queue[1] \in Files
  <2>1. 1 \in 1 .. Len(Queue)
    BY DownloadAssumption, EmptySeq
  <2> QED  BY <2>1, DownloadAssumption, ElementOfSeq
<1>2. <<>> \in Seq(Files)
  BY EmptySeq
<1>3. /\ local \in [Files -> Contents] /\ mtime \in [Files -> {"older", "current", "unset"}]
      /\ failures \in [Files -> Nat] /\ isReadable \in [Files -> BOOLEAN]
      /\ oldFile \in Contents /\ temporary \in Contents
  BY DEF Init, Contents
<1>4. \A b \in {bufferFlushed, flushStart, sound, written} : b \in BOOLEAN
  BY DEF Init
<1>5. TypeOK
  BY <1>1, <1>2, <1>3, <1>4 DEF Init, TypeOK
<1> QED  BY <1>5, EmptyUnits DEF Init, TypeInv

(* A turn of the request loop keeps the types. *)
LEMMA GenerateType == TypeInv /\ Generate => TypeInv'
<1> SUFFICES ASSUME TypeInv, Generate PROVE TypeInv'
  OBVIOUS
<1>1. i < Len(queue) => buffer \o NextRequest \in Seq(Unit)
  BY NextRequestUnits, ConcatUnits DEF TypeInv
<1>2. ~(i >= Len(queue)) => i < Len(queue)
  BY LenProperties DEF TypeInv, TypeOK
<1>3. /\ pc' \in {"flush", "write failed"} /\ pc = "generate"
      /\ i' = i \/ i' = i + 1
      /\ buffer' = buffer \/ (i < Len(queue) /\ buffer' = buffer \o NextRequest)
  BY <1>2 DEF Generate
<1>4. TypeOK'
  <2>1. i' \in Nat /\ phase' = phase
    <3>1. i \in Nat
      BY DEF TypeInv, TypeOK
    <3>2. phase' = phase
      BY DEF Generate
    <3>3. i' = i \/ i' = i + 1
      BY <1>3
    <3> QED  BY <3>1, <3>2, <3>3
  <2>2. pc' \in {"flush", "write failed"}
    BY <1>3
  <2> QED  BY <2>1, <2>2 DEF TypeInv, TypeOK, Generate, disk, receiving, results, remote, Ended
<1>5. buffer' \in Seq(Unit) /\ (InLoop' => phase' < 2)
  BY <1>1, <1>3 DEF TypeInv, Generate, InLoop
<1> QED  BY <1>4, <1>5 DEF TypeInv, Generate

(* tryFlushWriteBuffer keeps the types. *)
LEMMA TryFlushType == TypeInv /\ TryFlush => TypeInv'
<1> SUFFICES ASSUME TypeInv, TryFlush PROVE TypeInv'
  OBVIOUS
<1>1. bufferFlushed' \in BOOLEAN /\ flushStart' \in BOOLEAN
  <2>1. flushStart \in BOOLEAN
    BY DEF TypeInv, TypeOK
  <2>2. CASE buffer = <<>> /\ bufferFlushed' = TRUE /\ UNCHANGED flushStart
    BY <2>1, <2>2
  <2>3. CASE bufferFlushed' = FALSE /\ flushStart' = (flushStart \/ Len(outPipe) < PipeCapacity)
    BY <2>3, Zenon
  <2>4. ASSUME NEW m \in 1 .. Len(buffer), bufferFlushed' = (m = Len(buffer)),
               flushStart' = (m < Len(buffer))
        PROVE  bufferFlushed' \in BOOLEAN /\ flushStart' \in BOOLEAN
    <3>1. CASE m < Len(buffer)
      BY <2>4, <3>1, Zenon
    <3>2. CASE ~(m < Len(buffer))
      <4>1. (m < Len(buffer)) = FALSE
        BY <3>2
      <4> QED  BY <2>4, <4>1, Zenon
    <3> QED  BY <3>1, <3>2
  <2> QED  BY <2>2, <2>3, <2>4 DEF TryFlush
<1>2. TypeOK'
  BY <1>1 DEF TypeInv, TypeOK, TryFlush, disk, receiving, results, remote
<1>3. buffer' \in Seq(Unit) /\ outPipe' \in Seq(Unit)
  <2>1. buffer \in Seq(Unit) /\ outPipe \in Seq(Unit)
    BY DEF TypeInv
  <2>2. \A m \in 1 .. Len(buffer) :
          outPipe \o Take(buffer, m) \in Seq(Unit) /\ Drop(buffer, m) \in Seq(Unit)
    BY <2>1, TakeUnits, DropUnits, ConcatUnits
  <2> QED  BY <2>1, <2>2 DEF TryFlush
<1> QED  BY <1>2, <1>3 DEF TypeInv, TryFlush, InLoop

(* isDataAvailable keeps the types. *)
LEMMA PollType == TypeInv /\ Poll => TypeInv'
BY DEF TypeInv, TypeOK, Poll, loop, disk, receiving, results, remote, InLoop

(* An index or the end of a phase keeps the types. *)
LEMMA ReadIndexType == TypeInv /\ ReadIndex => TypeInv'
<1> SUFFICES ASSUME TypeInv, ReadIndex PROVE TypeInv'
  OBVIOUS
<1>1. Head(inPipe) \in Unit /\ inPipe' \in Seq(Unit)
  BY TailUnits DEF TypeInv, ReadIndex
<1>2. CASE Head(inPipe).type = "done" /\ EndPhase /\ UNCHANGED receiving
  <2>1. phase \in 0 .. 1
    BY DEF TypeInv, TypeOK, ReadIndex, InLoop
  <2>2. TypeOK'
    BY <1>2, <2>1, EmptySeq
       DEF TypeInv, TypeOK, ReadIndex, EndPhase, MorePhases, disk, receiving, results, remote
  <2>3. InLoop' => phase' < 2
    BY <1>2 DEF EndPhase, MorePhases, InLoop
  <2> QED  BY <1>1, <2>2, <2>3 DEF TypeInv, ReadIndex
<1>3. CASE Head(inPipe).type = "index"
  <2>1. /\ current' \in Files /\ startBytes' \in Nat /\ pc' = "header"
        /\ UNCHANGED <<loop, oldFile, temporary, sound, written>>
    BY <1>1, <1>3, UnitFields DEF TypeInv, TypeOK, ReadIndex
  <2>2. TypeOK'
    BY <2>1 DEF TypeInv, TypeOK, ReadIndex, loop, disk, results, remote
  <2>3. InLoop' => phase' < 2
    BY <2>1 DEF TypeInv, InLoop, ReadIndex, loop
  <2> QED  BY <1>1, <2>2, <2>3 DEF TypeInv, ReadIndex
<1> QED  BY <1>2, <1>3 DEF ReadIndex

(* The PartialFileKeeper keeps the types of what is on the disk. *)
LEMMA KeepType ==
  ASSUME TypeInv, NEW f \in Files, NEW complete \in BOOLEAN, NEW content \in Contents,
         Keep(f, complete, content)
  PROVE  /\ temporary' \in Contents
         /\ local' \in [Files -> Contents]
         /\ mtime' \in [Files -> {"older", "current", "unset"}]
         /\ unmoved' \subseteq Files /\ unstamped' \subseteq Files
<1> DEFINE stamp == IF complete THEN "current" ELSE "unset"
<1>1. /\ local \in [Files -> Contents] /\ mtime \in [Files -> {"older", "current", "unset"}]
      /\ temporary \in Contents /\ unmoved \subseteq Files /\ unstamped \subseteq Files
      /\ {"absent", "wrong"} \subseteq Contents
  BY DEF TypeInv, TypeOK, Contents
<1>2. Renamed(f, content, stamp) \/ NotRenamed(f, content, stamp) \/ Discarded(f)
  BY DEF Keep
<1>3. CASE Renamed(f, content, stamp)
  BY <1>1, <1>3 DEF Renamed
<1>4. CASE NotRenamed(f, content, stamp)
  BY <1>1, <1>4 DEF NotRenamed
<1>5. CASE Discarded(f)
  BY <1>1, <1>5 DEF Discarded, disk
<1> QED  BY <1>2, <1>3, <1>4, <1>5

(* The beginning of receiveFile keeps the types. *)
LEMMA ReceiveHeaderType == TypeInv /\ ReceiveHeader => TypeInv'
<1> SUFFICES ASSUME TypeInv, ReceiveHeader PROVE TypeInv'
  OBVIOUS
<1>1. inPipe' \in Seq(Unit)
  BY TailUnits DEF TypeInv, ReceiveHeader
<1>2. current \in Files /\ "partial" \in Contents /\ "absent" \in Contents
  BY DEF TypeInv, TypeOK, Contents
<1>3. /\ pc' \in {"failed", "token"} /\ pc = "header"
      /\ oldFile' \in Contents /\ temporary' \in Contents
      /\ local' \in [Files -> Contents]
      /\ mtime' \in [Files -> {"older", "current", "unset"}]
      /\ unmoved' \subseteq Files /\ unstamped' \subseteq Files
  BY <1>2, KeepType DEF TypeInv, TypeOK, ReceiveHeader, disk
<1>4. TypeOK'
  BY <1>3 DEF TypeInv, TypeOK, ReceiveHeader, loop, results, remote, Ended
<1> QED  BY <1>1, <1>3, <1>4 DEF TypeInv, ReceiveHeader, InLoop, loop

(* A token keeps the types. *)
LEMMA ReceiveTokenType == TypeInv /\ ReceiveToken => TypeInv'
<1> SUFFICES ASSUME TypeInv, ReceiveToken PROVE TypeInv'
  OBVIOUS
<1>1. inPipe' \in Seq(Unit)
  BY TailUnits DEF TypeInv, ReceiveToken
<1>2. /\ pc' \in {"token", "digest"} /\ pc = "token"
      /\ logicalBytes' \in Nat /\ sound' \in BOOLEAN /\ written' \in BOOLEAN
  <2>1. sound \in BOOLEAN /\ written \in BOOLEAN /\ logicalBytes \in Nat
    BY DEF TypeInv, TypeOK
  <2>2. sound' \in BOOLEAN /\ written' \in BOOLEAN
    BY <2>1, Zenon DEF ReceiveToken
  <2> QED  BY <2>1, <2>2 DEF ReceiveToken
<1>3. TypeOK'
  BY <1>2 DEF TypeInv, TypeOK, ReceiveToken, loop, disk, remote
<1> QED  BY <1>1, <1>2, <1>3 DEF TypeInv, ReceiveToken, InLoop, loop

(* receiveFile ends in one of two ways. *)
LEMMA ReceiveDigestEnds ==
  ASSUME ReceiveDigest
  PROVE  \E passes \in BOOLEAN, content \in {"partial", "new", "wrong"} :
           /\ IF passes
                THEN /\ updated' = Append(updated, current)
                     /\ UNCHANGED <<retries, logicalBytes, failures>>
                ELSE /\ retries' = Append(retries, current)
                     /\ failures' = [failures EXCEPT ![current] = @ + 1]
                     /\ logicalBytes' = CountedBefore(startBytes)
                     /\ UNCHANGED updated
           /\ unnoticed' \in {unnoticed, unnoticed \cup {current}}
           /\ Keep(current, passes, content)
<1> DEFINE same == sound /\ Head(inPipe).good
<1>1. PICK a \in Digests, b \in Digests :
        /\ IF DigestsAgree(a, b)
             THEN /\ updated' = Append(updated, current)
                  /\ unnoticed' = IF ~written \/ (~same /\ HasZero(a))
                                    THEN unnoticed \cup {current} ELSE unnoticed
                  /\ UNCHANGED <<retries, logicalBytes, failures>>
             ELSE /\ retries' = Append(retries, current)
                  /\ failures' = [failures EXCEPT ![current] = @ + 1]
                  /\ logicalBytes' = CountedBefore(startBytes)
                  /\ UNCHANGED <<updated, unnoticed>>
        /\ Keep(current, DigestsAgree(a, b),
                IF ~written THEN "partial" ELSE IF same THEN "new" ELSE "wrong")
  BY DEF ReceiveDigest
<1>2. DigestsAgree(a, b) \in BOOLEAN
  BY DEF DigestsAgree, StrncmpEqual
<1> DEFINE agree == DigestsAgree(a, b)
<1> HIDE DEF same, agree
<1>3. (IF ~written THEN "partial" ELSE IF same THEN "new" ELSE "wrong")
        \in {"partial", "new", "wrong"}
  OBVIOUS
<1>4. unnoticed' \in {unnoticed, unnoticed \cup {current}}
  BY <1>1
<1> QED  BY <1>1, <1>2, <1>3, <1>4, Zenon

(* The end of receiveFile keeps the types. *)
LEMMA ReceiveDigestType == TypeInv /\ ReceiveDigest => TypeInv'
<1> SUFFICES ASSUME TypeInv, ReceiveDigest PROVE TypeInv'
  OBVIOUS
<1>1. inPipe' \in Seq(Unit)
  BY TailUnits DEF TypeInv, ReceiveDigest
<1>2. PICK passes \in BOOLEAN, content \in {"partial", "new", "wrong"} :
        /\ IF passes
             THEN /\ updated' = Append(updated, current)
                  /\ UNCHANGED <<retries, logicalBytes, failures>>
             ELSE /\ retries' = Append(retries, current)
                  /\ failures' = [failures EXCEPT ![current] = @ + 1]
                  /\ logicalBytes' = CountedBefore(startBytes)
                  /\ UNCHANGED updated
        /\ unnoticed' \in {unnoticed, unnoticed \cup {current}}
        /\ Keep(current, passes, content)
  BY ReceiveDigestEnds
<1>3. current \in Files /\ content \in Contents
  BY DEF TypeInv, TypeOK, Contents
<1>4. /\ temporary' \in Contents
      /\ local' \in [Files -> Contents]
      /\ mtime' \in [Files -> {"older", "current", "unset"}]
      /\ unmoved' \subseteq Files /\ unstamped' \subseteq Files /\ unnoticed' \subseteq Files
  <2>1. unnoticed' \subseteq Files
    BY <1>2, <1>3 DEF TypeInv, TypeOK
  <2> QED  BY <1>2, <1>3, <2>1, KeepType
<1>5. /\ updated' \in Seq(Files) /\ retries' \in Seq(Files)
      /\ failures' \in [Files -> Nat] /\ logicalBytes' \in Nat
  <2>1. /\ updated \in Seq(Files) /\ retries \in Seq(Files)
        /\ failures \in [Files -> Nat] /\ logicalBytes \in Nat /\ startBytes \in Nat
    BY DEF TypeInv, TypeOK
  <2>2. /\ Append(updated, current) \in Seq(Files) /\ Append(retries, current) \in Seq(Files)
        /\ [failures EXCEPT ![current] = @ + 1] \in [Files -> Nat]
    BY <1>3, <2>1
  <2>3. CASE passes
    BY <1>2, <2>1, <2>2, <2>3, Zenon
  <2>4. CASE ~passes
    BY <1>2, <2>1, <2>2, <2>4, Zenon DEF CountedBefore
  <2> QED  BY <2>3, <2>4
<1>6. TypeOK'
  <2>1. /\ pc' = "generate"
        /\ UNCHANGED <<phase, i, queue, bufferFlushed, buffer, flushStart, outPipe, remoteOut,
                       isReadable, current, oldFile, sound, written, startBytes, skipped, faults>>
    BY DEF ReceiveDigest, remote
  <2>2. \A files \in {skipped, faults, unmoved, unstamped, unnoticed}' : files \subseteq Files
    BY <1>4, <2>1 DEF TypeInv, TypeOK
  <2> QED  BY <1>4, <1>5, <2>1, <2>2 DEF TypeInv, TypeOK
<1> QED  BY <1>1, <1>6 DEF TypeInv, ReceiveDigest, InLoop

(* An exception keeps the types. *)
LEMMA AbortType == TypeInv /\ Abort => TypeInv'
<1> SUFFICES ASSUME TypeInv, Abort PROVE TypeInv'
  OBVIOUS
<1>1. current \in Files /\ temporary \in Contents
  BY DEF TypeInv, TypeOK
<1>2. /\ temporary' \in Contents
      /\ local' \in [Files -> Contents]
      /\ mtime' \in [Files -> {"older", "current", "unset"}]
      /\ unmoved' \subseteq Files /\ unstamped' \subseteq Files
  BY <1>1, KeepType DEF TypeInv, TypeOK, Abort, disk
<1>3. pc' = "failed"
  BY DEF Abort
<1>4. TypeOK'
  BY <1>2, <1>3 DEF TypeInv, TypeOK, Abort, loop, results, remote, Ended
<1> QED  BY <1>3, <1>4 DEF TypeInv, Abort, InLoop

(* The final INDEX_DONEs keep the types. *)
LEMMA FinishType == TypeInv /\ Finish => TypeInv'
<1> SUFFICES ASSUME TypeInv, Finish PROVE TypeInv'
  OBVIOUS
<1>1. [k \in 1 .. 4 |-> Done] \in Seq(Unit)
  <2>1. [k \in 1 .. 4 |-> Done] \in [1 .. 4 -> Unit]
    BY DoneUnits
  <2> QED  BY <2>1, FunctionIsSeq
<1>2. buffer' \in Seq(Unit) /\ pc' \in {"write failed", "final"}
  BY <1>1, ConcatUnits DEF TypeInv, Finish
<1>3. TypeOK'
  BY <1>2 DEF TypeInv, TypeOK, Finish, loop, disk, receiving, results, remote, Ended
<1> QED  BY <1>2, <1>3 DEF TypeInv, Finish, InLoop

(* The final flush keeps the types. *)
LEMMA FinalFlushType == TypeInv /\ FinalFlush => TypeInv'
<1> SUFFICES ASSUME TypeInv, FinalFlush PROVE TypeInv'
  OBVIOUS
<1>1. buffer \in Seq(Unit) /\ outPipe \in Seq(Unit) /\ inPipe \in Seq(Unit)
  BY DEF TypeInv
<1>2. \A m \in 1 .. Len(buffer) :
        outPipe \o Take(buffer, m) \in Seq(Unit) /\ Drop(buffer, m) \in Seq(Unit)
  BY <1>1, TakeUnits, DropUnits, ConcatUnits
<1>3. /\ buffer' \in Seq(Unit) /\ outPipe' \in Seq(Unit) /\ inPipe' \in Seq(Unit)
      /\ pc' \in {"final", "stopped"}
  BY <1>1, <1>2, TailUnits DEF FinalFlush
<1>4. TypeOK'
  BY <1>3 DEF TypeInv, TypeOK, FinalFlush, loop, disk, receiving, results, remote, Ended
<1> QED  BY <1>3, <1>4 DEF TypeInv, FinalFlush, InLoop

(* The remote sender answers with a reply, an INDEX_DONE, or nothing. *)
LEMMA RemoteReadStep ==
  ASSUME TypeInv, RemoteRead
  PROVE  /\ outPipe # <<>> /\ outPipe' = Tail(outPipe) /\ remoteOut = <<>>
         /\ remoteOut' \in Seq(Unit)
         /\ \/ NoDone(remoteOut')
            \/ remoteOut' = <<Done>> /\ Head(outPipe).type = "done"
         /\ skipped' \subseteq Files /\ faults' \subseteq Files
<1> DEFINE unit == Head(outPipe)
<1>1. unit \in Unit
  BY TailUnits DEF TypeInv, RemoteRead
<1>2. skipped \subseteq Files /\ faults \subseteq Files
  BY DEF TypeInv, TypeOK
<1>3. CASE unit.type = "done" /\ remoteOut' = <<Done>> /\ UNCHANGED remote
  BY <1>2, <1>3, DoneUnits DEF RemoteRead, remote
<1>4. CASE remoteOut' = remoteOut /\ UNCHANGED remote
  BY <1>2, <1>4, EmptyUnits DEF RemoteRead, remote
<1>5. CASE /\ unit.type = "request" /\ unit.part = RequestLength
           /\ \/ skipped' = skipped \cup {unit.file} /\ UNCHANGED <<remoteOut, faults>>
              \/ \E from \in {"wire", unit.base} \ {"absent"}, good \in BOOLEAN :
                   /\ remoteOut' = Reply(unit.file, from, unit.base, good)
                   /\ faults' = IF good THEN faults ELSE faults \cup {unit.file}
                   /\ UNCHANGED skipped
  <2>1. unit.file \in Files /\ unit.base \in Contents
    BY <1>1, <1>5, UnitFields
  <2>2. CASE skipped' = skipped \cup {unit.file} /\ UNCHANGED <<remoteOut, faults>>
    BY <1>2, <2>1, <2>2, EmptyUnits DEF RemoteRead
  <2>3. ASSUME NEW from \in {"wire", unit.base} \ {"absent"}, NEW good \in BOOLEAN,
               remoteOut' = Reply(unit.file, from, unit.base, good),
               faults' = IF good THEN faults ELSE faults \cup {unit.file},
               UNCHANGED skipped
        PROVE  /\ remoteOut' \in Seq(Unit) /\ NoDone(remoteOut')
               /\ skipped' \subseteq Files /\ faults' \subseteq Files
    <3>1. from \in Contents \cup {"wire"}
      BY <2>1
    <3> QED  BY <1>2, <2>1, <2>3, <3>1, ReplyUnits
  <2> QED  BY <1>5, <2>2, <2>3 DEF RemoteRead
<1> QED  BY <1>3, <1>4, <1>5 DEF RemoteRead

(* The remote sender reading keeps the types. *)
LEMMA RemoteReadType == TypeInv /\ RemoteRead => TypeInv'
<1> SUFFICES ASSUME TypeInv, RemoteRead PROVE TypeInv'
  OBVIOUS
<1>1. outPipe' \in Seq(Unit)
  BY RemoteReadStep, TailUnits DEF TypeInv
<1>2. TypeOK'
  BY RemoteReadStep DEF TypeInv, TypeOK, RemoteRead, loop, disk, receiving, results
<1> QED  BY <1>1, <1>2, RemoteReadStep DEF TypeInv, RemoteRead, InLoop, loop

(* The remote sender writing keeps the types. *)
LEMMA RemoteWriteType == TypeInv /\ RemoteWrite => TypeInv'
<1> SUFFICES ASSUME TypeInv, RemoteWrite PROVE TypeInv'
  OBVIOUS
<1>1. Head(remoteOut) \in Unit /\ remoteOut' \in Seq(Unit) /\ inPipe \in Seq(Unit)
  BY TailUnits DEF TypeInv, RemoteWrite
<1>2. inPipe' \in Seq(Unit)
  BY <1>1 DEF RemoteWrite
<1>3. TypeOK'
  BY DEF TypeInv, TypeOK, RemoteWrite, loop, disk, receiving, results, remote
<1> QED  BY <1>1, <1>2, <1>3 DEF TypeInv, RemoteWrite, InLoop, loop

(* Another program at the local files keeps the types. *)
LEMMA UserChangeType == TypeInv /\ UserChange => TypeInv'
<1> SUFFICES ASSUME TypeInv, UserChange PROVE TypeInv'
  OBVIOUS
<1>1. \A c \in Contents : Edited(c) \in Contents
  BY DEF Edited, Contents
<1>2. "absent" \in Contents
  BY DEF Contents
<1>3. /\ local' \in [Files -> Contents] /\ oldFile' \in Contents
      /\ mtime' \in [Files -> {"older", "current", "unset"}]
  <2> PICK f \in Files :
        \/ /\ local' = [local EXCEPT ![f] = Edited(local[f])]
           /\ mtime' = [mtime EXCEPT ![f] = "current"]
           /\ oldFile' \in {oldFile, Edited(oldFile)}
        \/ local' = [local EXCEPT ![f] = "absent"] /\ UNCHANGED <<mtime, oldFile>>
    BY DEF UserChange
  <2>1. /\ local \in [Files -> Contents] /\ oldFile \in Contents
        /\ mtime \in [Files -> {"older", "current", "unset"}]
    BY DEF TypeInv, TypeOK
  <2>2. local[f] \in Contents /\ Edited(local[f]) \in Contents /\ Edited(oldFile) \in Contents
    BY <1>1, <2>1
  <2> QED  BY <1>2, <2>1, <2>2
<1>4. TypeOK'
  BY <1>3 DEF TypeInv, TypeOK, UserChange, loop, results, remote
<1> QED  BY <1>4 DEF TypeInv, UserChange, InLoop, loop

(* Every step keeps the types, of the units on the wire too: by cases. *)
THEOREM TypeIsInvariant == Spec => []TypeInv
<1>1. TypeInv /\ UNCHANGED vars => TypeInv'
  BY DEF TypeInv, TypeOK, vars, loop, disk, receiving, results, remote, InLoop
<1>2. TypeInv /\ [Next]_vars => TypeInv'
  BY <1>1, GenerateType, TryFlushType, PollType, ReadIndexType, ReceiveHeaderType,
     ReceiveTokenType, ReceiveDigestType, FinishType, FinalFlushType, AbortType,
     RemoteReadType, RemoteWriteType, UserChangeType DEF Next, Thread
<1> QED  BY <1>2, InitType, PTL DEF Spec

-----------------------------------------------------------------------------
(* No write meets an incomplete flush. *)

(* No flush has begun and there is no INDEX_DONE when download() begins. *)
LEMMA InitFlush == Init => FlushInv
<1> SUFFICES ASSUME Init PROVE FlushInv
  OBVIOUS
<1>1. \A s \in {buffer, outPipe, remoteOut, inPipe} : NoDone(s) /\ DoneAtEnd(s)
  BY EmptyUnits DEF Init
<1> QED  BY <1>1 DEF Init, FlushInv, OneDone, DoneOnWire

(* A write happens only when the flush is complete; with the last request
   the INDEX_DONE of the phase goes into the buffer. *)
LEMMA GenerateFlush == TypeInv /\ FlushInv /\ Generate => FlushInv'
<1> SUFFICES ASSUME TypeInv, FlushInv, Generate PROVE FlushInv'
  OBVIOUS
<1>1. /\ pc = "generate" /\ InLoop /\ OneDone
      /\ buffer = <<>> \/ bufferFlushed => ~flushStart
      /\ UNCHANGED <<queue, bufferFlushed, flushStart, outPipe, inPipe, remoteOut>>
  BY DEF FlushInv, InLoop, Generate
<1>2. CASE MustWait \/ i >= Len(queue)
  <2>1. pc' = "flush" /\ UNCHANGED <<i, buffer>>
    BY <1>2 DEF Generate
  <2> QED  BY <1>1, <2>1 DEF FlushInv, OneDone, DoneOnWire
<1>3. CASE ~(MustWait \/ i >= Len(queue))
  <2>1. i \in Nat /\ Len(queue) \in Nat /\ i < Len(queue) /\ ~flushStart
    BY <1>1, <1>3, LenProperties DEF MustWait, TypeInv, TypeOK
  <2>2. pc' = "flush" /\ i' = i + 1 /\ buffer' = buffer \o NextRequest
    BY <1>3, <2>1 DEF Generate
  <2>3. NoDone(buffer) /\ ~DoneOnWire /\ buffer \in Seq(Unit)
    BY <1>1, <2>1 DEF OneDone, TypeInv
  <2>4. DoneAtEnd(buffer')
    BY <2>1, <2>2, <2>3, NextRequestUnits, ConcatUnits
  <2>5. i' < Len(queue') => NoDone(buffer')
    BY <1>1, <2>1, <2>2, <2>3, NextRequestUnits, ConcatUnits
  <2>6. ~DoneOnWire'
    BY <1>1, <2>3 DEF DoneOnWire
  <2>7. OneDone'
    BY <1>1, <2>3, <2>4, <2>5, <2>6 DEF OneDone, DoneOnWire
  <2> QED  BY <1>1, <2>1, <2>2, <2>7 DEF FlushInv
<1> QED  BY <1>2, <1>3

(* The INDEX_DONE leaves the buffer last. *)
LEMMA TryFlushFlush == TypeInv /\ FlushInv /\ TryFlush => FlushInv'
<1> SUFFICES ASSUME TypeInv, FlushInv, TryFlush PROVE FlushInv'
  OBVIOUS
<1>1. /\ pc = "flush" /\ pc' = "poll" /\ OneDone
      /\ buffer = <<>> => ~flushStart
      /\ UNCHANGED <<i, queue, inPipe, remoteOut>>
      /\ buffer \in Seq(Unit) /\ outPipe \in Seq(Unit)
  BY DEF FlushInv, InLoop, TryFlush, TypeInv
<1>2. CASE buffer = <<>> /\ UNCHANGED <<buffer, flushStart, outPipe>>
  BY <1>1, <1>2 DEF FlushInv, OneDone, DoneOnWire
<1>3. CASE buffer # <<>> /\ bufferFlushed' = FALSE /\ UNCHANGED <<buffer, outPipe>>
  BY <1>1, <1>3 DEF FlushInv, OneDone, DoneOnWire
<1>4. ASSUME NEW m \in 1 .. Len(buffer),
             outPipe' = outPipe \o Take(buffer, m),
             buffer' = Drop(buffer, m),
             bufferFlushed' = (m = Len(buffer)),
             flushStart' = (m < Len(buffer))
      PROVE  FlushInv'
  <2>1. ~DoneOnWire
    <3>1. Len(buffer) \in Nat
      BY <1>1, LenProperties
    <3>2. buffer # <<>>
      BY <3>1, EmptySeq, <1>4
    <3> QED  BY <1>1, <3>2 DEF OneDone
  <2>2. DoneAtEnd(buffer) /\ DoneAtEnd(buffer') /\ DoneAtEnd(outPipe')
    BY <1>1, <1>4, <2>1, TakeUnits, DropUnits, ConcatUnits DEF OneDone, DoneOnWire
  <2>3. CASE m = Len(buffer)
    <3>1. buffer' = <<>> /\ ~flushStart'
      <4>1. Len(buffer) \in Nat
        BY <1>1, LenProperties
      <4>2. ~(m < Len(buffer)) /\ Drop(buffer, m) = <<>>
        BY <1>1, <2>3, <4>1, DropUnits
      <4> QED  BY <1>4, <4>2, Zenon
    <3>2. i < Len(queue) => NoDone(outPipe')
      BY <1>1, <1>4, <2>1, TakeUnits, ConcatUnits DEF OneDone, DoneOnWire
    <3>3. OneDone'
      BY <1>1, <2>1, <2>2, <3>1, <3>2, EmptyUnits DEF OneDone, DoneOnWire
    <3> QED  BY <1>1, <3>1, <3>3 DEF FlushInv
  <2>4. CASE m # Len(buffer)
    <3>1. m < Len(buffer) /\ ~bufferFlushed'
      <4>1. Len(buffer) \in Nat
        BY <1>1, LenProperties
      <4>2. m < Len(buffer)
        BY <2>4, <4>1
      <4> QED  BY <1>4, <2>4, <4>2, Zenon
    <3>2. NoDone(outPipe')
      BY <1>1, <1>4, <2>1, <2>2, <3>1, TakeUnits, ConcatUnits DEF DoneOnWire
    <3>3. Len(buffer') # 0
      BY <1>1, <1>4, <3>1, DropUnits, LenProperties
    <3>4. i < Len(queue) => NoDone(buffer')
      BY <1>1, <1>4, DropUnits DEF OneDone
    <3>5. OneDone'
      BY <1>1, <2>1, <2>2, <3>2, <3>4 DEF OneDone, DoneOnWire
    <3>6. buffer' # <<>>
      BY <3>3, EmptySeq
    <3> QED  BY <1>1, <3>1, <3>5, <3>6 DEF FlushInv
  <2> QED  BY <2>3, <2>4
<1> QED  BY <1>2, <1>3, <1>4 DEF TryFlush

(* The INDEX_DONE that ends a phase was the last of everything. *)
LEMMA ReadIndexFlush == TypeInv /\ FlushInv /\ ReadIndex => FlushInv'
<1> SUFFICES ASSUME TypeInv, FlushInv, ReadIndex PROVE FlushInv'
  OBVIOUS
<1>1. /\ pc = "index" /\ OneDone /\ inPipe # <<>> /\ inPipe' = Tail(inPipe)
      /\ buffer = <<>> \/ bufferFlushed => ~flushStart
      /\ UNCHANGED <<buffer, flushStart, outPipe, remoteOut>>
      /\ inPipe \in Seq(Unit)
  BY DEF FlushInv, InLoop, ReadIndex, TypeInv
<1>2. DoneAtEnd(inPipe') /\ (NoDone(inPipe) => NoDone(inPipe'))
  BY <1>1, TailUnits DEF OneDone
<1>3. CASE Head(inPipe).type = "done" /\ EndPhase
  <2>1. ~NoDone(inPipe) /\ inPipe' = <<>>
    BY <1>1, <1>3, TailUnits DEF OneDone
  <2>2. buffer' = <<>> /\ ~flushStart' /\ outPipe' = <<>> /\ remoteOut' = <<>>
    BY <1>1, <2>1 DEF OneDone, DoneOnWire
  <2>3. OneDone'
    BY <2>1, <2>2, EmptyUnits DEF OneDone, DoneOnWire
  <2>4. pc' \in {"generate", "finish"}
    BY <1>3 DEF EndPhase
  <2> QED  BY <2>2, <2>3, <2>4 DEF FlushInv
<1>4. CASE pc' = "header" /\ UNCHANGED loop
  <2>1. OneDone'
    BY <1>1, <1>2, <1>4 DEF OneDone, DoneOnWire, loop
  <2> QED  BY <1>1, <1>4, <2>1 DEF FlushInv, loop
<1> QED  BY <1>3, <1>4 DEF ReadIndex

(* receiveFile takes units off the pipe and does nothing else to the loop. *)
LEMMA ReceiveFlush ==
  TypeInv /\ FlushInv /\ (ReceiveHeader \/ ReceiveToken \/ ReceiveDigest) => FlushInv'
<1> SUFFICES ASSUME TypeInv, FlushInv, ReceiveHeader \/ ReceiveToken \/ ReceiveDigest
             PROVE  FlushInv'
  OBVIOUS
<1>1. /\ pc \in {"header", "token", "digest"} /\ inPipe # <<>> /\ inPipe' = Tail(inPipe)
      /\ pc' \in {"token", "digest", "generate", "failed"}
      /\ UNCHANGED <<i, queue, bufferFlushed, buffer, flushStart, outPipe, remoteOut>>
  BY DEF ReceiveHeader, ReceiveToken, ReceiveDigest, loop
<1>2. OneDone /\ (buffer = <<>> \/ bufferFlushed => ~flushStart) /\ inPipe \in Seq(Unit)
  BY <1>1 DEF FlushInv, InLoop, TypeInv
<1>3. DoneAtEnd(inPipe') /\ (NoDone(inPipe) => NoDone(inPipe'))
  BY <1>1, <1>2, TailUnits DEF OneDone
<1>4. OneDone'
  BY <1>1, <1>2, <1>3 DEF OneDone, DoneOnWire
<1> QED  BY <1>1, <1>2, <1>4 DEF FlushInv

(* After the last phase nothing is half flushed either. *)
LEMMA EndFlush == TypeInv /\ FlushInv /\ (Finish \/ FinalFlush \/ Abort) => FlushInv'
<1> SUFFICES ASSUME TypeInv, FlushInv, Finish \/ FinalFlush \/ Abort PROVE FlushInv'
  OBVIOUS
<1>1. pc' \in {"final", "stopped", "failed"}
  BY DEF FlushInv, Finish, FinalFlush, Abort
<1> QED  BY <1>1 DEF FlushInv, InLoop

(* The remote sender passes the INDEX_DONE on, and makes none of its own. *)
LEMMA RemoteReadFlush == TypeInv /\ FlushInv /\ RemoteRead => FlushInv'
<1> SUFFICES ASSUME TypeInv, FlushInv, RemoteRead PROVE FlushInv'
  OBVIOUS
<1>1. /\ UNCHANGED <<pc, bufferFlushed, flushStart, buffer, inPipe, i, queue>>
      /\ outPipe \in Seq(Unit) /\ outPipe # <<>> /\ outPipe' = Tail(outPipe)
      /\ remoteOut = <<>>
  BY RemoteReadStep DEF RemoteRead, loop, TypeInv
<1>2. ASSUME OneDone PROVE OneDone'
  <2>1. DoneAtEnd(outPipe') /\ (NoDone(outPipe) => NoDone(outPipe'))
    BY <1>1, <1>2, TailUnits DEF OneDone
  <2>2. NoDone(inPipe')
    BY <1>1, <1>2 DEF OneDone
  <2>3. CASE NoDone(remoteOut')
    <3>1. DoneAtEnd(remoteOut')
      BY <2>3 DEF NoDone, DoneAtEnd
    <3> QED  BY <1>1, <1>2, <2>1, <2>2, <2>3, <3>1 DEF OneDone, DoneOnWire
  <2>4. CASE remoteOut' = <<Done>> /\ Head(outPipe).type = "done"
    <3>1. ~NoDone(outPipe) /\ outPipe' = <<>>
      BY <1>1, <1>2, <2>4, TailUnits DEF OneDone
    <3>2. DoneAtEnd(remoteOut')
      BY <2>4, DoneUnits
    <3>3. buffer' = <<>> /\ ~(i' < Len(queue'))
      BY <1>1, <1>2, <3>1 DEF OneDone, DoneOnWire
    <3> QED  BY <1>1, <1>2, <2>1, <2>2, <3>1, <3>2, <3>3 DEF OneDone, DoneOnWire
  <2> QED  BY <2>3, <2>4, RemoteReadStep
<1> QED  BY <1>1, <1>2 DEF FlushInv, InLoop

(* The remote sender puts its units on the pipe in order. *)
LEMMA RemoteWriteFlush == TypeInv /\ FlushInv /\ RemoteWrite => FlushInv'
<1> SUFFICES ASSUME TypeInv, FlushInv, RemoteWrite PROVE FlushInv'
  OBVIOUS
<1>1. /\ UNCHANGED <<pc, bufferFlushed, flushStart, buffer, outPipe, i, queue>>
      /\ remoteOut \in Seq(Unit) /\ inPipe \in Seq(Unit)
      /\ remoteOut # <<>> /\ remoteOut' = Tail(remoteOut)
      /\ inPipe' = Append(inPipe, Head(remoteOut))
  BY DEF RemoteWrite, loop, TypeInv
<1>2. ASSUME OneDone PROVE OneDone'
  <2>1. /\ Head(remoteOut) \in Unit
        /\ DoneAtEnd(remoteOut') /\ (NoDone(remoteOut) => NoDone(remoteOut'))
        /\ NoDone(inPipe)
    BY <1>1, <1>2, TailUnits DEF OneDone
  <2>2. /\ DoneAtEnd(inPipe')
        /\ Head(remoteOut).type # "done" => NoDone(inPipe')
    BY <1>1, <2>1, LenProperties DEF NoDone, DoneAtEnd, IsDone
  <2>3. CASE Head(remoteOut).type = "done"
    <3>1. ~NoDone(remoteOut) /\ remoteOut' = <<>>
      BY <1>1, <1>2, <2>3, TailUnits DEF OneDone
    <3>2. outPipe' = <<>> /\ buffer' = <<>> /\ ~(i' < Len(queue'))
      BY <1>1, <1>2, <3>1 DEF OneDone, DoneOnWire
    <3> QED  BY <2>1, <2>2, <3>1, <3>2, EmptyUnits DEF OneDone, DoneOnWire
  <2>4. CASE Head(remoteOut).type # "done"
    <3>1. NoDone(inPipe')
      BY <2>2, <2>4
    <3> QED  BY <1>1, <1>2, <2>1, <2>2, <3>1 DEF OneDone, DoneOnWire
  <2> QED  BY <2>3, <2>4
<1> QED  BY <1>1, <1>2 DEF FlushInv, InLoop

(* The inductive invariant. *)
THEOREM FlushIsInvariant == Spec => []FlushInv
<1>1. ASSUME FlushInv, UserChange \/ UNCHANGED vars PROVE FlushInv'
  <2>1. UNCHANGED <<pc, i, queue, bufferFlushed, buffer, flushStart, outPipe, inPipe, remoteOut>>
    BY <1>1 DEF UserChange, vars, loop
  <2> QED  BY <1>1, <2>1 DEF FlushInv, InLoop, OneDone, DoneOnWire
<1>2. FlushInv /\ Poll => FlushInv'
  BY DEF Poll, loop, FlushInv, InLoop, OneDone, DoneOnWire
<1>3. TypeInv /\ FlushInv /\ [Next]_vars => FlushInv'
  BY <1>1, <1>2, GenerateFlush, TryFlushFlush, ReadIndexFlush, ReceiveFlush, EndFlush,
     RemoteReadFlush, RemoteWriteFlush DEF Next, Thread
<1> QED  BY <1>3, InitFlush, TypeIsInvariant, PTL DEF Spec

(* Stream::write never finds an incomplete flush: not when a request is made,
   not in the phase of the retries, and not for the final INDEX_DONEs. *)
THEOREM NoWriteIntoFlush == Spec => []NeverWritesIntoFlush
<1>1. FlushInv => NeverWritesIntoFlush
  BY DEF FlushInv, NeverWritesIntoFlush
<1> QED  BY <1>1, FlushIsInvariant, PTL
-----------------------------------------------------------------------------
(* Digests that are equal agree, and two that agree are equal or have a zero
   byte. *)
LEMMA DigestsCompared ==
  ASSUME NEW a \in Digests, NEW b \in Digests
  PROVE  /\ a = b => DigestsAgree(a, b)
         /\ DigestsAgree(a, b) => a = b \/ HasZero(a)
<1>1. /\ a \in Seq(Nat) /\ b \in Seq(Nat) /\ Len(a) = Len(b)
      /\ Len(a) \in Nat /\ DOMAIN a = 1 .. Len(a)
  BY DownloadAssumption, LenProperties
<1>2. a = b => DigestsAgree(a, b)
  <2>1. Len(a) \in 0 .. Len(a)
    BY <1>1
  <2> QED  BY <2>1 DEF DigestsAgree, StrncmpEqual
<1>3. ASSUME DigestsAgree(a, b), ~HasZero(a) PROVE a = b
  <2>1. PICK n \in 0 .. Len(a) :
          /\ \A k \in 1 .. n : a[k] = b[k]
          /\ n = Len(a) \/ (n > 0 /\ a[n] = 0)
    BY <1>3 DEF DigestsAgree, StrncmpEqual
  <2>2. n = Len(a)
    <3>1. n > 0 => n \in DOMAIN a
      <4> DEFINE m == Len(a)
      <4>1. m \in Nat /\ n \in 0 .. m
        BY <1>1, <2>1
      <4> HIDE DEF m
      <4>2. n > 0 => n \in 1 .. m
        BY <4>1
      <4> QED  BY <1>1, <4>2 DEF m
    <3> QED  BY <1>3, <2>1, <3>1 DEF HasZero
  <2>3. \A k \in 1 .. Len(a) : a[k] = b[k]
    BY <2>1, <2>2
  <2> QED  BY <1>1, <2>3, SeqEqual
<1> QED  BY <1>2, <1>3

(* What the PartialFileKeeper leaves: nothing new, or what was received, with
   its time if that could be set, or a file that could not be renamed. *)
LEMMA KeepLeaves ==
  ASSUME TypeInv, NEW f \in Files, NEW complete \in BOOLEAN, NEW content,
         Keep(f, complete, content)
  PROVE  /\ \A g \in Files \ {f} : local'[g] = local[g] /\ mtime'[g] = mtime[g]
         /\ unmoved \subseteq unmoved' /\ unstamped \subseteq unstamped'
         /\ \/ local'[f] = local[f] /\ mtime'[f] = mtime[f] /\ (complete => f \in PreEpoch)
            \/ /\ local'[f] = content
               /\ \/ mtime'[f] = IF complete THEN "current" ELSE "unset"
                  \/ mtime'[f] = "current" /\ f \in unstamped'
            \/ f \in unmoved'
<1> DEFINE stamp == IF complete THEN "current" ELSE "unset"
<1>1. /\ local \in [Files -> Contents] /\ mtime \in [Files -> {"older", "current", "unset"}]
  BY DEF TypeInv, TypeOK
<1>2. \/ Renamed(f, content, stamp) \/ NotRenamed(f, content, stamp)
      \/ Discarded(f) /\ (complete => f \in PreEpoch)
  BY DEF Keep
<1>3. CASE Renamed(f, content, stamp)
  BY <1>1, <1>3 DEF Renamed
<1>4. CASE NotRenamed(f, content, stamp)
  <2>1. /\ f \in unmoved' /\ unmoved \subseteq unmoved' /\ unstamped' = unstamped
        /\ local' = local \/ local' = [local EXCEPT ![f] = "absent"]
        /\ mtime' = mtime \/ mtime' = [mtime EXCEPT ![f] = stamp]
    BY <1>4 DEF NotRenamed
  <2> QED  BY <1>1, <2>1
<1>5. CASE Discarded(f) /\ (complete => f \in PreEpoch)
  BY <1>1, <1>5 DEF Discarded, disk
<1> QED  BY <1>2, <1>3, <1>4, <1>5

(* The PartialFileKeeper removes nothing but a file it could not rename, and
   then what was received stays where it was. *)
LEMMA KeepRemoves ==
  ASSUME TypeInv, NEW f \in Files, NEW complete, NEW content, Keep(f, complete, content),
         NEW g \in Files, local[g] # "absent", local'[g] = "absent"
  PROVE  g = f /\ f \in unmoved' /\ (content # "absent" => temporary' # "absent")
<1> DEFINE stamp == IF complete THEN "current" ELSE "unset"
<1>1. local \in [Files -> Contents]
  BY DEF TypeInv, TypeOK
<1>2. Renamed(f, content, stamp) \/ NotRenamed(f, content, stamp) \/ Discarded(f)
  BY DEF Keep
<1>3. ~Discarded(f)
  BY DEF Discarded, disk
<1>4. ~Renamed(f, content, stamp)
  BY <1>1 DEF Renamed
<1>5. NotRenamed(f, content, stamp)
  BY <1>2, <1>3, <1>4
<1>6. /\ f \in unmoved' /\ (content # "absent" => temporary' = "wrong")
      /\ local' = local \/ local' = [local EXCEPT ![f] = "absent"]
  BY <1>5 DEF NotRenamed
<1> QED  BY <1>1, <1>6

(* The end of receiveFile keeps the file as the remote one if the digests
   agree, unless a write was lost or a digest has a zero byte. *)
LEMMA ReceiveDigestKeeps ==
  ASSUME TypeInv, ReceiveDigest
  PROVE  \E passes \in BOOLEAN, content \in {"partial", "new", "wrong"} :
           /\ updated' = IF passes THEN Append(updated, current) ELSE updated
           /\ unnoticed \subseteq unnoticed'
           /\ passes => content = "new" \/ current \in unnoticed'
           /\ Keep(current, passes, content)
<1> DEFINE same == sound /\ Head(inPipe).good
           content == IF ~written THEN "partial" ELSE IF same THEN "new" ELSE "wrong"
<1>1. PICK a \in Digests, b \in Digests :
        /\ same <=> a = b
        /\ IF DigestsAgree(a, b)
             THEN /\ updated' = Append(updated, current)
                  /\ unnoticed' = IF ~written \/ (~same /\ HasZero(a))
                                    THEN unnoticed \cup {current} ELSE unnoticed
             ELSE UNCHANGED <<updated, unnoticed>>
        /\ Keep(current, DigestsAgree(a, b), content)
  BY DEF ReceiveDigest
<1>2. DigestsAgree(a, b) \in BOOLEAN
  BY DEF DigestsAgree, StrncmpEqual
<1>3. DigestsAgree(a, b) => a = b \/ HasZero(a)
  BY DigestsCompared
<1> DEFINE agree == DigestsAgree(a, b)
<1>4. Keep(current, agree, content)
  BY <1>1
<1>5. /\ updated' = IF agree THEN Append(updated, current) ELSE updated
      /\ unnoticed \subseteq unnoticed'
  BY <1>1
<1>6. agree => content = "new" \/ current \in unnoticed'
  BY <1>1, <1>3
<1>7. agree \in BOOLEAN /\ content \in {"partial", "new", "wrong"}
  BY <1>2
<1> HIDE DEF agree, content
<1> QED  BY <1>4, <1>5, <1>6, <1>7

(* Only receiveFile and another program touch the local files. *)
LEMMA OthersKeepDisk ==
  ASSUME TypeInv,
         \/ Generate \/ TryFlush \/ Poll \/ ReadIndex \/ ReceiveToken \/ Finish \/ FinalFlush
         \/ RemoteRead \/ RemoteWrite \/ UNCHANGED vars
  PROVE  UNCHANGED <<local, mtime, unmoved, unstamped, unnoticed>>
BY DEF Generate, TryFlush, Poll, ReadIndex, ReceiveToken, Finish, FinalFlush, RemoteRead,
       RemoteWrite, vars, disk, results

(* A file that only the transfer can have left looks up to date only if a call
   on it has failed without being looked at. *)
Excused == unmoved \cup unstamped \cup unnoticed
Stale(f) == local[f] \in {"old", "partial", "wrong"} /\ mtime[f] = "current" => f \in Excused

(* What a keeper leaves that has not completed its file is stale. *)
LEMMA KeepLeavesStale ==
  ASSUME TypeInv, NEW f \in Files \ PreEpoch, Stale(f), NEW complete \in BOOLEAN, NEW content,
         Keep(current, complete, content), unnoticed \subseteq unnoticed',
         complete => content = "new" \/ current \in unnoticed'
  PROVE  Stale(f)'
<1>1. current \in Files
  BY DEF TypeInv, TypeOK
<1>2. /\ \A g \in Files \ {current} : local'[g] = local[g] /\ mtime'[g] = mtime[g]
      /\ unmoved \subseteq unmoved' /\ unstamped \subseteq unstamped'
      /\ \/ local'[current] = local[current] /\ mtime'[current] = mtime[current]
         \/ /\ local'[current] = content
            /\ \/ mtime'[current] = IF complete THEN "current" ELSE "unset"
               \/ mtime'[current] = "current" /\ current \in unstamped'
         \/ current \in unmoved'
  BY <1>1, KeepLeaves
<1>3. Excused \subseteq Excused'
  BY <1>2 DEF Excused
<1>4. CASE f # current
  BY <1>2, <1>3, <1>4 DEF Stale
<1>5. CASE f = current
  BY <1>2, <1>3, <1>5 DEF Stale, Excused
<1> QED  BY <1>4, <1>5

(* What is left of a transfer looks up to date only if a rename, a write, the
   stamping or a digest with a zero byte went wrong on that file. *)
THEOREM LeftoversStayStale == Spec => []LeftoversAreStale
<1> DEFINE I == \A f \in Files \ PreEpoch : Stale(f)
<1>1. Init => I
  BY DEF Init, Stale
<1>2. ASSUME TypeInv, I, [Next]_vars, NEW f \in Files \ PreEpoch
      PROVE  Stale(f)'
  <2>1. Stale(f)
    BY <1>2
  <2> HIDE DEF I
  <2>2. ASSUME UNCHANGED <<local, mtime, unmoved, unstamped, unnoticed>> PROVE Stale(f)'
    BY <2>1, <2>2 DEF Stale, Excused
  <2>3. CASE ReceiveHeader
    <3>1. UNCHANGED disk \/ Keep(current, FALSE, "partial")
      BY <2>3 DEF ReceiveHeader
    <3>2. UNCHANGED unnoticed
      BY <2>3 DEF ReceiveHeader, results
    <3> QED  BY <1>2, <2>1, <2>2, <3>1, <3>2, KeepLeavesStale DEF disk
  <2>4. CASE ReceiveDigest
    <3>1. PICK passes \in BOOLEAN, content \in {"partial", "new", "wrong"} :
            /\ unnoticed \subseteq unnoticed'
            /\ passes => content = "new" \/ current \in unnoticed'
            /\ Keep(current, passes, content)
      BY <1>2, <2>4, ReceiveDigestKeeps
    <3> QED  BY <1>2, <2>1, <3>1, KeepLeavesStale
  <2>5. CASE Abort
    <3>1. UNCHANGED disk \/ Keep(current, FALSE, temporary)
      BY <2>5 DEF Abort
    <3>2. UNCHANGED unnoticed
      BY <2>5 DEF Abort, results
    <3> QED  BY <1>2, <2>1, <2>2, <3>1, <3>2, KeepLeavesStale DEF disk
  <2>6. CASE UserChange
    <3>1. PICK g \in Files :
            /\ local[g] \in {"old", "edited"}
            /\ \/ /\ local' = [local EXCEPT ![g] = Edited(local[g])]
                  /\ mtime' = [mtime EXCEPT ![g] = "current"]
               \/ local' = [local EXCEPT ![g] = "absent"] /\ UNCHANGED <<mtime, oldFile>>
      BY <2>6 DEF UserChange
    <3>2. local'[g] \notin {"old", "partial", "wrong"}
      BY <1>2, <3>1 DEF TypeInv, TypeOK, Edited
    <3>3. \A h \in Files \ {g} : local'[h] = local[h] /\ mtime'[h] = mtime[h]
      BY <1>2, <3>1 DEF TypeInv, TypeOK
    <3>4. UNCHANGED <<unmoved, unstamped, unnoticed>>
      BY <2>6 DEF UserChange, results
    <3> QED  BY <2>1, <3>2, <3>3, <3>4 DEF Stale, Excused
  <2>7. CASE \/ Generate \/ TryFlush \/ Poll \/ ReadIndex \/ ReceiveToken \/ Finish \/ FinalFlush
             \/ RemoteRead \/ RemoteWrite \/ UNCHANGED vars
    BY <1>2, <2>2, <2>7, OthersKeepDisk
  <2> QED  BY <1>2, <2>3, <2>4, <2>5, <2>6, <2>7 DEF Next, Thread
<1>3. TypeInv /\ I /\ [Next]_vars => I'
  BY <1>2
<1>4. I => LeftoversAreStale
  BY DEF Stale, Excused, LeftoversAreStale
<1> HIDE DEF I
<1> QED  BY <1>1, <1>3, <1>4, TypeIsInvariant, PTL DEF Spec

(* No step of the thread makes a local file vanish, but where the file in hand
   could not be renamed, and what was received of it is then still there. *)
THEOREM LocalFilesAreKept == Spec => LocalFileKept
<1>1. ASSUME TypeInv, Next, pc' # pc, NEW f \in Files, local[f] # "absent", local'[f] = "absent"
      PROVE  /\ f = current /\ f \in unmoved'
             /\ temporary # "absent" => temporary' # "absent"
  <2> current \in Files
    BY <1>1 DEF TypeInv, TypeOK
  <2>1. CASE ReceiveHeader
    <3>1. UNCHANGED disk \/ Keep(current, FALSE, "partial")
      BY <2>1 DEF ReceiveHeader
    <3>2. Keep(current, FALSE, "partial")
      BY <1>1, <3>1 DEF disk
    <3> QED  BY <1>1, <3>2, KeepRemoves
  <2>2. CASE ReceiveDigest
    <3>1. PICK passes \in BOOLEAN, content \in {"partial", "new", "wrong"} :
            Keep(current, passes, content)
      BY <2>2, ReceiveDigestEnds
    <3> QED  BY <1>1, <3>1, KeepRemoves
  <2>3. CASE Abort
    <3>1. UNCHANGED disk \/ Keep(current, FALSE, temporary)
      BY <2>3 DEF Abort
    <3>2. Keep(current, FALSE, temporary)
      BY <1>1, <3>1 DEF disk
    <3> QED  BY <1>1, <3>2, KeepRemoves
  <2>4. ~UserChange
    BY <1>1 DEF UserChange
  <2>5. UNCHANGED local => FALSE
    BY <1>1
  <2> QED  BY <1>1, <2>1, <2>2, <2>3, <2>4, <2>5, OthersKeepDisk DEF Next, Thread
<1>2. TypeInv /\ [Next]_vars =>
        [pc' # pc => \A f \in Files : local[f] # "absent" /\ local'[f] = "absent"
                        => /\ f = current /\ f \in unmoved'
                           /\ temporary # "absent" => temporary' # "absent"]_vars
  BY <1>1
<1> QED  BY <1>2, TypeIsInvariant, PTL DEF Spec, LocalFileKept
-----------------------------------------------------------------------------
(* All that is on its way from the remote sender, and to it. *)
incoming == inPipe \o remoteOut
outgoing == outPipe \o buffer

Receiving == pc \in {"header", "token", "digest"}

(* From position k on, s holds the units of a reply from its n-th on. *)
Rest(s, k, n, f, from, of, good) ==
  /\ k + ReplyLength + 4 - n <= Len(s)
  /\ \A j \in n .. ReplyLength + 4 : s[k + j - n] = Reply(f, from, of, good)[j]

(* A reply that can be: the remote sender reports the read errors it has had,
   and in the second phase it has no old file to refer to. *)
RestOf(s, k, n, f, bad, p) ==
  \E from \in Contents \cup {"wire"}, of \in Contents, good \in BOOLEAN :
    /\ good = TRUE \/ f \in bad
    /\ p = 1 => from = "wire"
    /\ Rest(s, k, n, f, from, of, good)

(* Replies are whole, and nothing is between them. *)
Starts(u) == u.type \in {"index", "done"}
Whole(s, bad, p) ==
  \A k \in 1 .. Len(s) :
    /\ s[k].type = "index" => RestOf(s, k, 1, s[k].file, bad, p)
    /\ s[k].type \in {"digest", "done"} /\ k < Len(s) => Starts(s[k + 1])

(* How many units of the reply receiveFile has read. *)
UnitsRead ==
  IF pc = "header" THEN 1
  ELSE IF pc = "token" THEN 2 + (logicalBytes - startBytes)
  ELSE ReplyLength + 3

WithoutBase(s) == \A k \in 1 .. Len(s) : s[k].type = "request" => s[k].base = "absent"

ReplyInv ==
  InLoop =>
    /\ Whole(incoming, faults, phase)
    /\ Receiving => RestOf(incoming, 1, UnitsRead + 1, current, faults, phase)
    /\ ~Receiving => incoming = <<>> \/ Starts(incoming[1])
    /\ phase = 1 => WithoutBase(outgoing)

(* *d_logicalBytes is what the updated files count and what the file that is
   being received has counted so far. *)
CountInv ==
  /\ Receiving => startBytes = ReplyLength * Len(updated)
  /\ pc = "token" => logicalBytes \in startBytes .. startBytes + ReplyLength
  /\ pc = "digest" => logicalBytes = startBytes + ReplyLength
  /\ pc \notin {"token", "digest", "failed"} => logicalBytes = ReplyLength * Len(updated)
-----------------------------------------------------------------------------
(* The units of two sequences put together, by position. *)
LEMMA ConcatAt ==
  ASSUME NEW s \in Seq(Unit), NEW t \in Seq(Unit)
  PROVE  /\ s \o t \in Seq(Unit)
         /\ Len(s) \in Nat /\ Len(t) \in Nat /\ Len(s \o t) = Len(s) + Len(t)
         /\ \A k \in 1 .. Len(s) : (s \o t)[k] = s[k]
         /\ \A k \in 1 .. Len(t) : (s \o t)[Len(s) + k] = t[k]
<1>1. Len(s) \in Nat /\ Len(t) \in Nat
  BY LenProperties
<1>2. /\ s \o t \in Seq(Unit) /\ Len(s \o t) = Len(s) + Len(t)
      /\ \A k \in 1 .. Len(s) + Len(t) :
           (s \o t)[k] = IF k <= Len(s) THEN s[k] ELSE t[k - Len(s)]
  BY ConcatProperties
<1>3. ASSUME NEW k \in 1 .. Len(s) PROVE (s \o t)[k] = s[k]
  <2>1. k \in 1 .. Len(s) + Len(t) /\ k <= Len(s)
    BY <1>1
  <2> QED  BY <1>2, <2>1
<1>4. ASSUME NEW k \in 1 .. Len(t) PROVE (s \o t)[Len(s) + k] = t[k]
  <2>1. Len(s) + k \in 1 .. Len(s) + Len(t) /\ ~(Len(s) + k <= Len(s)) /\ Len(s) + k - Len(s) = k
    BY <1>1
  <2> QED  BY <1>2, <2>1
<1> QED  BY <1>1, <1>2, <1>3, <1>4

(* The units of three sequences put together, by position. *)
LEMMA ConcatThree ==
  ASSUME NEW a \in Seq(Unit), NEW b \in Seq(Unit), NEW c \in Seq(Unit)
  PROVE  /\ (a \o b) \o c \in Seq(Unit)
         /\ Len(a) \in Nat /\ Len(b) \in Nat /\ Len(c) \in Nat
         /\ Len((a \o b) \o c) = Len(a) + Len(b) + Len(c)
         /\ \A k \in 1 .. Len(a) : ((a \o b) \o c)[k] = a[k]
         /\ \A k \in 1 .. Len(b) : ((a \o b) \o c)[Len(a) + k] = b[k]
         /\ \A k \in 1 .. Len(c) : ((a \o b) \o c)[Len(a) + Len(b) + k] = c[k]
<1>1. PICK ab \in Seq(Unit) : ab = a \o b
  BY ConcatAt
<1>2. /\ Len(a) \in Nat /\ Len(b) \in Nat /\ Len(ab) = Len(a) + Len(b)
      /\ \A k \in 1 .. Len(a) : ab[k] = a[k]
      /\ \A k \in 1 .. Len(b) : ab[Len(a) + k] = b[k]
  BY <1>1, ConcatAt
<1>3. /\ ab \o c \in Seq(Unit) /\ Len(c) \in Nat /\ Len(ab \o c) = Len(ab) + Len(c)
      /\ \A k \in 1 .. Len(ab) : (ab \o c)[k] = ab[k]
      /\ \A k \in 1 .. Len(c) : (ab \o c)[Len(ab) + k] = c[k]
  BY ConcatAt
<1>4. /\ \A k \in 1 .. Len(a) : k \in 1 .. Len(ab)
      /\ \A k \in 1 .. Len(b) : Len(a) + k \in 1 .. Len(ab)
  BY <1>2
<1> QED  BY <1>1, <1>2, <1>3, <1>4

(* The units of a reply, by position. *)
LEMMA ReplyShape ==
  ASSUME NEW f \in Files, NEW from \in Contents \cup {"wire"}, NEW of \in Contents,
         NEW good \in BOOLEAN
  PROVE  /\ Reply(f, from, of, good) \in Seq(Unit)
         /\ Len(Reply(f, from, of, good)) = ReplyLength + 4
         /\ Reply(f, from, of, good)[1] = [type |-> "index", file |-> f]
         /\ Reply(f, from, of, good)[2] = [type |-> "header", base |-> of]
         /\ \A k \in 3 .. ReplyLength + 2 :
              Reply(f, from, of, good)[k] = [type |-> "token", from |-> from]
         /\ Reply(f, from, of, good)[ReplyLength + 3] = [type |-> "end"]
         /\ Reply(f, from, of, good)[ReplyLength + 4] = [type |-> "digest", good |-> good]
<1>1. ReplyLength \in Nat
  BY DownloadAssumption
<1>2. PICK first \in Seq(Unit) :
        /\ first = <<[type |-> "index", file |-> f], [type |-> "header", base |-> of]>>
        /\ Len(first) = 2
        /\ first[1] = [type |-> "index", file |-> f]
        /\ first[2] = [type |-> "header", base |-> of]
  <2> DEFINE s == <<[type |-> "index", file |-> f], [type |-> "header", base |-> of]>>
  <2>1. s \in [1 .. 2 -> Unit]
    BY DEF Unit
  <2>2. s \in Seq(Unit) /\ Len(s) = 2
    BY <2>1, FunctionIsSeq
  <2> QED  BY <2>2
<1>3. PICK middle \in Seq(Unit) :
        /\ middle = [k \in 1 .. ReplyLength |-> [type |-> "token", from |-> from]]
        /\ Len(middle) = ReplyLength
        /\ \A k \in 1 .. ReplyLength : middle[k] = [type |-> "token", from |-> from]
  <2> DEFINE s == [k \in 1 .. ReplyLength |-> [type |-> "token", from |-> from]]
  <2>1. /\ s \in [1 .. ReplyLength -> Unit]
        /\ \A k \in 1 .. ReplyLength : s[k] = [type |-> "token", from |-> from]
    BY DEF Unit
  <2> HIDE DEF s
  <2>2. s \in Seq(Unit) /\ Len(s) = ReplyLength
    BY <1>1, <2>1, FunctionIsSeq
  <2> QED  BY <2>1, <2>2 DEF s
<1>4. PICK last \in Seq(Unit) :
        /\ last = <<[type |-> "end"], [type |-> "digest", good |-> good]>>
        /\ Len(last) = 2
        /\ last[1] = [type |-> "end"]
        /\ last[2] = [type |-> "digest", good |-> good]
  <2> DEFINE s == <<[type |-> "end"], [type |-> "digest", good |-> good]>>
  <2>1. s \in [1 .. 2 -> Unit]
    BY DEF Unit
  <2>2. s \in Seq(Unit) /\ Len(s) = 2
    BY <2>1, FunctionIsSeq
  <2> QED  BY <2>2
<1>5. Reply(f, from, of, good) = (first \o middle) \o last
  BY <1>2, <1>3, <1>4 DEF Reply
<1>6. /\ (first \o middle) \o last \in Seq(Unit)
      /\ Len((first \o middle) \o last) = Len(first) + Len(middle) + Len(last)
      /\ \A k \in 1 .. Len(first) : ((first \o middle) \o last)[k] = first[k]
      /\ \A k \in 1 .. Len(middle) : ((first \o middle) \o last)[Len(first) + k] = middle[k]
      /\ \A k \in 1 .. Len(last) : ((first \o middle) \o last)[Len(first) + Len(middle) + k] = last[k]
  BY ConcatThree, Zenon
<1>7. /\ Reply(f, from, of, good) \in Seq(Unit)
      /\ Len(Reply(f, from, of, good)) = 2 + ReplyLength + 2
      /\ \A k \in 1 .. 2 : Reply(f, from, of, good)[k] = first[k]
      /\ \A k \in 1 .. ReplyLength : Reply(f, from, of, good)[2 + k] = middle[k]
      /\ \A k \in 1 .. 2 : Reply(f, from, of, good)[2 + ReplyLength + k] = last[k]
  <2>1. Len(first) = 2 /\ Len(middle) = ReplyLength /\ Len(last) = 2
    BY <1>2, <1>3, <1>4
  <2> QED  BY <1>5, <1>6, <2>1, Zenon
<1>8. ASSUME NEW k \in 3 .. ReplyLength + 2
      PROVE  Reply(f, from, of, good)[k] = [type |-> "token", from |-> from]
  <2>1. k - 2 \in 1 .. ReplyLength /\ 2 + (k - 2) = k
    BY <1>1
  <2> QED  BY <1>3, <1>4, <1>7, <2>1
<1>9. /\ Reply(f, from, of, good)[1] = [type |-> "index", file |-> f]
      /\ Reply(f, from, of, good)[2] = [type |-> "header", base |-> of]
  BY <1>2, <1>7
<1>10. /\ Reply(f, from, of, good)[ReplyLength + 3] = [type |-> "end"]
       /\ Reply(f, from, of, good)[ReplyLength + 4] = [type |-> "digest", good |-> good]
  <2>1. 2 + ReplyLength + 1 = ReplyLength + 3 /\ 2 + ReplyLength + 2 = ReplyLength + 4
    BY <1>1
  <2> QED  BY <1>3, <1>4, <1>7, <2>1
<1>11. Len(Reply(f, from, of, good)) = ReplyLength + 4
  BY <1>1, <1>7
<1> QED  BY <1>7, <1>8, <1>9, <1>10, <1>11

(* t is s without its first unit. *)
Follows(s, t) ==
  /\ s \in Seq(Unit) /\ t \in Seq(Unit) /\ Len(s) = Len(t) + 1
  /\ \A k \in 1 .. Len(t) : t[k] = s[k + 1]

(* One unit of a reply has been read. *)
LEMMA RestRead ==
  ASSUME NEW s, NEW t, Follows(s, t), NEW n \in 1 .. ReplyLength + 4,
         NEW f \in Files, NEW from \in Contents \cup {"wire"}, NEW of \in Contents, NEW good \in BOOLEAN,
         Rest(s, 1, n, f, from, of, good)
  PROVE  /\ s[1] = Reply(f, from, of, good)[n]
         /\ n < ReplyLength + 4 => Rest(t, 1, n + 1, f, from, of, good)
<1>1. ReplyLength \in Nat /\ Len(s) \in Nat /\ Len(t) \in Nat
  BY DownloadAssumption, LenProperties DEF Follows
<1>2. \A j \in n .. ReplyLength + 4 : s[1 + j - n] = Reply(f, from, of, good)[j]
  BY DEF Rest
<1>3. s[1] = Reply(f, from, of, good)[n]
  <2>1. n \in n .. ReplyLength + 4 /\ 1 + n - n = 1
    BY <1>1
  <2> QED  BY <1>2, <2>1
<1>4. ASSUME n < ReplyLength + 4 PROVE Rest(t, 1, n + 1, f, from, of, good)
  <2>1. 1 + ReplyLength + 4 - (n + 1) <= Len(t)
    BY <1>1 DEF Rest, Follows
  <2>2. ASSUME NEW j \in n + 1 .. ReplyLength + 4
        PROVE  t[1 + j - (n + 1)] = Reply(f, from, of, good)[j]
    <3>1. 1 + j - (n + 1) \in 1 .. Len(t) /\ (1 + j - (n + 1)) + 1 = 1 + j - n
      BY <1>1, <2>1
    <3>2. t[1 + j - (n + 1)] = s[1 + j - n]
      BY <3>1 DEF Follows
    <3>3. j \in n .. ReplyLength + 4
      BY <1>1
    <3> QED  BY <1>2, <3>2, <3>3
  <2> QED  BY <2>1, <2>2 DEF Rest
<1> QED  BY <1>3, <1>4

(* What is behind the first unit moves up. *)
LEMMA RestMovesUp ==
  ASSUME NEW s, NEW t, Follows(s, t), NEW k \in 1 .. Len(t), NEW f, NEW bad, NEW p,
         RestOf(s, k + 1, 1, f, bad, p)
  PROVE  RestOf(t, k, 1, f, bad, p)
<1>1. ReplyLength \in Nat /\ Len(s) \in Nat /\ Len(t) \in Nat
  BY DownloadAssumption, LenProperties DEF Follows
<1>2. PICK from \in Contents \cup {"wire"}, of \in Contents, good \in BOOLEAN :
        /\ good = TRUE \/ f \in bad
        /\ p = 1 => from = "wire"
        /\ Rest(s, k + 1, 1, f, from, of, good)
  BY DEF RestOf
<1>3. k + ReplyLength + 4 - 1 <= Len(t)
  BY <1>1, <1>2 DEF Rest, Follows
<1>4. ASSUME NEW j \in 1 .. ReplyLength + 4
      PROVE  t[k + j - 1] = Reply(f, from, of, good)[j]
  <2>1. k + j - 1 \in 1 .. Len(t) /\ (k + j - 1) + 1 = k + 1 + j - 1
    BY <1>1, <1>3
  <2>2. t[k + j - 1] = s[k + 1 + j - 1]
    BY <2>1 DEF Follows
  <2> QED  BY <1>2, <2>2 DEF Rest
<1>5. Rest(t, k, 1, f, from, of, good)
  BY <1>3, <1>4 DEF Rest
<1> QED  BY <1>2, <1>5 DEF RestOf

(* Replies stay whole when one is read, and after the end of one comes the
   beginning of another. *)
LEMMA WholeMovesUp ==
  ASSUME NEW s, NEW t, Follows(s, t), NEW bad, NEW p, Whole(s, bad, p)
  PROVE  /\ Whole(t, bad, p)
         /\ s[1].type \in {"digest", "done"} => t = <<>> \/ Starts(t[1])
<1>1. Len(s) \in Nat /\ Len(t) \in Nat /\ Len(s) = Len(t) + 1
  BY LenProperties DEF Follows
<1>2. ASSUME NEW k \in 1 .. Len(t)
      PROVE  /\ t[k].type = "index" => RestOf(t, k, 1, t[k].file, bad, p)
             /\ t[k].type \in {"digest", "done"} /\ k < Len(t) => Starts(t[k + 1])
  <2>1. k + 1 \in 1 .. Len(s) /\ t[k] = s[k + 1]
    BY <1>1 DEF Follows
  <2>2. t[k].type = "index" => RestOf(s, k + 1, 1, t[k].file, bad, p)
    BY <2>1 DEF Whole
  <2>3. t[k].type \in {"digest", "done"} /\ k < Len(t) => Starts(s[k + 1 + 1])
    BY <1>1, <2>1 DEF Whole
  <2>4. k < Len(t) => k + 1 \in 1 .. Len(t)
    BY <1>1
  <2>5. k < Len(t) => t[k + 1] = s[k + 1 + 1]
    BY <2>4 DEF Follows
  <2> QED  BY <2>2, <2>3, <2>5, RestMovesUp
<1>3. ASSUME s[1].type \in {"digest", "done"}, t # <<>> PROVE Starts(t[1])
  <2>1. Len(t) # 0
    BY <1>3, EmptySeq DEF Follows
  <2>2. t[1] = s[2] /\ 1 \in 1 .. Len(s) /\ 1 < Len(s)
    BY <1>1, <2>1 DEF Follows
  <2> QED  BY <1>3, <2>2 DEF Whole
<1> QED  BY <1>2, <1>3 DEF Whole

(* What is behind a reply does not change it. *)
LEMMA RestGrows ==
  ASSUME NEW s \in Seq(Unit), NEW t \in Seq(Unit), NEW k \in Nat \ {0},
         NEW n \in 1 .. ReplyLength + 4, NEW f, NEW bad, NEW more, bad \subseteq more, NEW p,
         RestOf(s, k, n, f, bad, p)
  PROVE  RestOf(s \o t, k, n, f, more, p)
<1>1. ReplyLength \in Nat
  BY DownloadAssumption
<1>2. /\ Len(s) \in Nat /\ Len(t) \in Nat /\ Len(s \o t) = Len(s) + Len(t)
      /\ \A j \in 1 .. Len(s) : (s \o t)[j] = s[j]
  BY ConcatAt, Zenon
<1>3. PICK from \in Contents \cup {"wire"}, of \in Contents, good \in BOOLEAN :
        /\ good = TRUE \/ f \in bad
        /\ p = 1 => from = "wire"
        /\ Rest(s, k, n, f, from, of, good)
  BY DEF RestOf
<1>4. k + ReplyLength + 4 - n <= Len(s)
  BY <1>3 DEF Rest
<1>5. k + ReplyLength + 4 - n <= Len(s \o t)
  BY <1>1, <1>2, <1>4
<1>6. ASSUME NEW j \in n .. ReplyLength + 4
      PROVE  (s \o t)[k + j - n] = Reply(f, from, of, good)[j]
  <2>1. k + j - n \in 1 .. Len(s)
    BY <1>1, <1>2, <1>4
  <2>2. (s \o t)[k + j - n] = s[k + j - n]
    BY <1>2, <2>1
  <2> QED  BY <1>3, <2>2 DEF Rest
<1>7. Rest(s \o t, k, n, f, from, of, good)
  BY <1>5, <1>6 DEF Rest
<1> QED  BY <1>3, <1>7 DEF RestOf

(* Nor does what is in front of it. *)
LEMMA RestMovesBack ==
  ASSUME NEW s \in Seq(Unit), NEW t \in Seq(Unit), NEW k \in Nat \ {0}, NEW f, NEW bad, NEW p,
         RestOf(t, k, 1, f, bad, p)
  PROVE  RestOf(s \o t, Len(s) + k, 1, f, bad, p)
<1>1. ReplyLength \in Nat
  BY DownloadAssumption
<1>2. /\ Len(s) \in Nat /\ Len(t) \in Nat /\ Len(s \o t) = Len(s) + Len(t)
      /\ \A j \in 1 .. Len(t) : (s \o t)[Len(s) + j] = t[j]
  BY ConcatAt, Zenon
<1>3. PICK from \in Contents \cup {"wire"}, of \in Contents, good \in BOOLEAN :
        /\ good = TRUE \/ f \in bad
        /\ p = 1 => from = "wire"
        /\ Rest(t, k, 1, f, from, of, good)
  BY DEF RestOf
<1>4. k + ReplyLength + 4 - 1 <= Len(t)
  BY <1>3 DEF Rest
<1>5. Len(s) + k + ReplyLength + 4 - 1 <= Len(s \o t)
  BY <1>1, <1>2, <1>4
<1>6. ASSUME NEW j \in 1 .. ReplyLength + 4
      PROVE  (s \o t)[Len(s) + k + j - 1] = Reply(f, from, of, good)[j]
  <2>1. k + j - 1 \in 1 .. Len(t) /\ Len(s) + (k + j - 1) = Len(s) + k + j - 1
    BY <1>1, <1>2, <1>4
  <2>2. (s \o t)[Len(s) + (k + j - 1)] = t[k + j - 1]
    BY <1>2, <2>1
  <2>3. (s \o t)[Len(s) + k + j - 1] = t[k + j - 1]
    BY <2>1, <2>2, Zenon
  <2> QED  BY <1>3, <2>3 DEF Rest
<1>7. Rest(s \o t, Len(s) + k, 1, f, from, of, good)
  BY <1>5, <1>6 DEF Rest
<1> QED  BY <1>3, <1>7 DEF RestOf

(* Whole replies put behind whole replies are whole replies. *)
LEMMA WholeGrows ==
  ASSUME NEW s \in Seq(Unit), NEW t \in Seq(Unit), NEW bad, NEW more, bad \subseteq more, NEW p,
         Whole(s, bad, p), Whole(t, more, p), t = <<>> \/ Starts(t[1])
  PROVE  Whole(s \o t, more, p)
<1>1. /\ s \o t \in Seq(Unit)
      /\ Len(s) \in Nat /\ Len(t) \in Nat /\ Len(s \o t) = Len(s) + Len(t)
      /\ \A j \in 1 .. Len(s) : (s \o t)[j] = s[j]
      /\ \A j \in 1 .. Len(t) : (s \o t)[Len(s) + j] = t[j]
  BY ConcatAt, Zenon
<1>2. Len(t) > 0 => Starts(t[1])
  BY EmptySeq
<1>3. ReplyLength \in Nat
  BY DownloadAssumption
<1> DEFINE st == s \o t
<1> HIDE DEF st
<1>4. ASSUME NEW k \in 1 .. Len(s)
      PROVE  /\ st[k].type = "index" => RestOf(st, k, 1, st[k].file, more, p)
             /\ st[k].type \in {"digest", "done"} /\ k < Len(st) => Starts(st[k + 1])
  <2>1. st[k] = s[k]
    BY <1>1 DEF st
  <2>2. st[k].type = "index" => RestOf(st, k, 1, st[k].file, more, p)
    <3>1. s[k].type = "index" => RestOf(s, k, 1, s[k].file, bad, p)
      BY DEF Whole
    <3>2. 1 \in 1 .. ReplyLength + 4 /\ k \in Nat \ {0}
      BY <1>1, <1>3
    <3> QED  BY <2>1, <3>1, <3>2, RestGrows DEF st
  <2>3. CASE k < Len(s)
    <3>1. k + 1 \in 1 .. Len(s)
      BY <1>1, <2>3
    <3>2. st[k + 1] = s[k + 1]
      BY <1>1, <3>1 DEF st
    <3> QED  BY <2>1, <2>2, <2>3, <3>2 DEF Whole
  <2>4. CASE k = Len(s)
    <3>1. k < Len(st) => Len(t) > 0 /\ 1 \in 1 .. Len(t)
      BY <1>1, <2>4 DEF st
    <3>2. k < Len(st) => st[k + 1] = t[1]
      BY <1>1, <2>4, <3>1 DEF st
    <3> QED  BY <1>2, <2>2, <3>1, <3>2
  <2> QED  BY <1>1, <2>3, <2>4
<1>5. ASSUME NEW k \in 1 .. Len(t)
      PROVE  /\ st[Len(s) + k].type = "index" =>
                  RestOf(st, Len(s) + k, 1, st[Len(s) + k].file, more, p)
             /\ st[Len(s) + k].type \in {"digest", "done"} /\ Len(s) + k < Len(st) =>
                  Starts(st[Len(s) + k + 1])
  <2>1. st[Len(s) + k] = t[k]
    BY <1>1 DEF st
  <2>2. t[k].type = "index" => RestOf(st, Len(s) + k, 1, t[k].file, more, p)
    <3>1. t[k].type = "index" => RestOf(t, k, 1, t[k].file, more, p)
      BY DEF Whole
    <3>2. k \in Nat \ {0}
      BY <1>1
    <3> QED  BY <3>1, <3>2, RestMovesBack DEF st
  <2>3. ASSUME Len(s) + k < Len(st) PROVE k < Len(t) /\ st[Len(s) + k + 1] = t[k + 1]
    <3>1. k < Len(t) /\ k + 1 \in 1 .. Len(t) /\ Len(s) + (k + 1) = Len(s) + k + 1
      BY <1>1, <2>3 DEF st
    <3>2. st[Len(s) + (k + 1)] = t[k + 1]
      BY <1>1, <3>1 DEF st
    <3> QED  BY <3>1, <3>2
  <2> QED  BY <2>1, <2>2, <2>3 DEF Whole
<1>6. ASSUME NEW k \in 1 .. Len(st)
      PROVE  /\ st[k].type = "index" => RestOf(st, k, 1, st[k].file, more, p)
             /\ st[k].type \in {"digest", "done"} /\ k < Len(st) => Starts(st[k + 1])
  <2>1. CASE k <= Len(s)
    <3>1. k \in 1 .. Len(s)
      BY <1>1, <2>1
    <3> QED  BY <1>4, <3>1
  <2>2. CASE ~(k <= Len(s))
    <3>1. k - Len(s) \in 1 .. Len(t) /\ Len(s) + (k - Len(s)) = k
      BY <1>1, <2>2 DEF st
    <3> QED  BY <1>5, <3>1
  <2> QED  BY <2>1, <2>2
<1> QED  BY <1>6 DEF Whole, st

(* What the remote sender adds at once is whole. *)
LEMMA EmptyWhole ==
  ASSUME NEW bad, NEW p
  PROVE  Whole(<<>>, bad, p) /\ Whole(<<Done>>, bad, p) /\ Starts(<<Done>>[1])
<1>1. Done.type = "done" /\ Len(<<Done>>) = 1
  BY DoneUnits
<1> QED  BY <1>1 DEF Whole, Starts

(* A reply is whole, and begins with its index. *)
LEMMA ReplyWhole ==
  ASSUME NEW f \in Files, NEW from \in Contents \cup {"wire"}, NEW of \in Contents,
         NEW good \in BOOLEAN, NEW bad, NEW p,
         good = TRUE \/ f \in bad, p = 1 => from = "wire"
  PROVE  /\ Whole(Reply(f, from, of, good), bad, p)
         /\ Starts(Reply(f, from, of, good)[1])
<1> DEFINE r == Reply(f, from, of, good)
<1>1. r \in Seq(Unit)
  BY ReplyShape
<1>2. /\ Len(r) = ReplyLength + 4
      /\ r[1] = [type |-> "index", file |-> f]
      /\ r[2] = [type |-> "header", base |-> of]
      /\ \A k \in 3 .. ReplyLength + 2 : r[k] = [type |-> "token", from |-> from]
      /\ r[ReplyLength + 3] = [type |-> "end"]
      /\ r[ReplyLength + 4] = [type |-> "digest", good |-> good]
  BY ReplyShape
<1> HIDE DEF r
<1>3. ReplyLength \in Nat
  BY DownloadAssumption
<1>4. RestOf(r, 1, 1, f, bad, p)
  <2>1. Rest(r, 1, 1, f, from, of, good)
    BY <1>2, <1>3 DEF Rest, r
  <2> QED  BY <2>1 DEF RestOf
<1>5. \A k \in 2 .. ReplyLength + 3 : r[k].type \notin {"index", "digest", "done"}
  <2> TAKE k \in 2 .. ReplyLength + 3
  <2>1. k = 2 \/ k \in 3 .. ReplyLength + 2 \/ k = ReplyLength + 3
    BY <1>3
  <2> QED  BY <1>2, <2>1
<1>6. r[Len(r)].type = "digest"
  BY <1>2
<1>7. \A k \in 1 .. Len(r) : k = 1 \/ k \in 2 .. ReplyLength + 3 \/ k = Len(r)
  BY <1>2, <1>3
<1>8. Whole(r, bad, p)
  <2> SUFFICES ASSUME NEW k \in 1 .. Len(r)
               PROVE  /\ r[k].type = "index" => RestOf(r, k, 1, r[k].file, bad, p)
                      /\ ~(r[k].type \in {"digest", "done"} /\ k < Len(r))
    BY DEF Whole
  <2> QED  BY <1>2, <1>3, <1>4, <1>5, <1>6, <1>7
<1> QED  BY <1>2, <1>8 DEF Starts, r

(* A wire is its oldest unit and the rest. *)
LEMMA HeadAndTail ==
  ASSUME NEW s \in Seq(Unit), s # <<>>
  PROVE  /\ Head(s) \in Unit /\ <<Head(s)>> \in Seq(Unit) /\ Tail(s) \in Seq(Unit)
         /\ s = <<Head(s)>> \o Tail(s)
<1>1. /\ Len(s) \in Nat /\ Len(s) # 0
      /\ Head(s) = s[1]
  BY EmptySeq
<1>2. 1 \in 1 .. Len(s) /\ Len(s) \in 1 .. Len(s)
  BY <1>1
<1>3. SubSeq(s, 1, Len(s)) = <<s[1]>> \o SubSeq(s, 1 + 1, Len(s))
  BY <1>2, SubSeqRecursiveFirst
<1>4. SubSeq(s, 1, Len(s)) = s /\ Tail(s) = SubSeq(s, 2, Len(s))
  BY SubSeqFull, TailIsSubSeq
<1>5. Head(s) \in Unit /\ Tail(s) \in Seq(Unit)
  BY HeadTailProperties
<1> QED  BY <1>1, <1>3, <1>4, <1>5

(* One unit leaves a wire that is in two parts. *)
LEMMA FirstLeaves ==
  ASSUME NEW s \in Seq(Unit), s # <<>>, NEW t \in Seq(Unit)
  PROVE  Follows(s \o t, Tail(s) \o t) /\ (s \o t)[1] = Head(s)
<1>1. PICK h \in Unit, u \in Seq(Unit) :
        h = Head(s) /\ <<h>> \in Seq(Unit) /\ u = Tail(s) /\ s = <<h>> \o u
  BY HeadAndTail, Zenon
<1>2. PICK ut \in Seq(Unit) : ut = u \o t
  BY ConcatAt, Zenon
<1>3. s \o t = <<h>> \o ut
  BY <1>1, <1>2, ConcatAssociative
<1>4. /\ <<h>> \o ut \in Seq(Unit) /\ Len(ut) \in Nat /\ Len(<<h>> \o ut) = 1 + Len(ut)
      /\ (<<h>> \o ut)[1] = h
      /\ \A k \in 1 .. Len(ut) : (<<h>> \o ut)[1 + k] = ut[k]
  <2>1. Len(<<h>>) = 1 /\ <<h>>[1] = h
    OBVIOUS
  <2>2. /\ <<h>> \o ut \in Seq(Unit) /\ Len(ut) \in Nat
        /\ Len(<<h>> \o ut) = Len(<<h>>) + Len(ut)
        /\ \A k \in 1 .. Len(<<h>>) : (<<h>> \o ut)[k] = <<h>>[k]
        /\ \A k \in 1 .. Len(ut) : (<<h>> \o ut)[Len(<<h>>) + k] = ut[k]
    BY <1>1, ConcatAt, Zenon
  <2>3. 1 \in 1 .. Len(<<h>>)
    BY <2>1
  <2> QED  BY <2>1, <2>2, <2>3, Zenon
<1>5. Follows(<<h>> \o ut, ut)
  BY <1>4 DEF Follows
<1> QED  BY <1>1, <1>2, <1>3, <1>4, <1>5

(* A unit that goes from the second part of a wire to the first stays in its place. *)
LEMMA UnitMoves ==
  ASSUME NEW s \in Seq(Unit), NEW t \in Seq(Unit), t # <<>>
  PROVE  Append(s, Head(t)) \o Tail(t) = s \o t
<1>1. PICK h \in Unit, u \in Seq(Unit) :
        h = Head(t) /\ <<h>> \in Seq(Unit) /\ u = Tail(t) /\ t = <<h>> \o u
  BY HeadAndTail, Zenon
<1>2. Append(s, h) = s \o <<h>>
  BY AppendIsConcat
<1>3. (s \o <<h>>) \o u = s \o (<<h>> \o u)
  BY <1>1, ConcatAssociative
<1> QED  BY <1>1, <1>2, <1>3

(* So do units that go from the write buffer to the network. *)
LEMMA UnitsMove ==
  ASSUME NEW s \in Seq(Unit), NEW t \in Seq(Unit), NEW m \in 1 .. Len(t)
  PROVE  (s \o Take(t, m)) \o Drop(t, m) = s \o t
<1>1. Take(t, m) \in Seq(Unit) /\ Drop(t, m) \in Seq(Unit)
  BY TakeUnits, DropUnits
<1>2. Take(t, m) \o Drop(t, m) = t
  <2>1. Len(t) \in Nat
    BY LenProperties
  <2>2. 1 \in 1 .. Len(t) + 1 /\ m \in 1 - 1 .. Len(t) /\ Len(t) \in m .. Len(t)
    BY <2>1
  <2>3. SubSeq(t, 1, m) \o SubSeq(t, m + 1, Len(t)) = SubSeq(t, 1, Len(t))
    BY <2>2, ConcatAdjacentSubSeq
  <2> QED  BY <2>3, SubSeqFull DEF Take, Drop
<1>3. PICK a \in Seq(Unit), b \in Seq(Unit) : a = Take(t, m) /\ b = Drop(t, m)
  BY <1>1, Zenon
<1>4. (s \o a) \o b = s \o (a \o b)
  <2>1. s \in Seq(Unit) /\ a \in Seq(Unit) /\ b \in Seq(Unit)
    OBVIOUS
  <2> QED  BY <2>1, ConcatAssociative DEF Unit
<1> QED  BY <1>2, <1>3, <1>4, Zenon

-----------------------------------------------------------------------------
(* What the actions do to the two directions. *)

(* The thread takes the oldest unit off the wire. *)
LEMMA Reads ==
  ASSUME TypeInv, inPipe # <<>>, inPipe' = Tail(inPipe), remoteOut' = remoteOut
  PROVE  Follows(incoming, incoming') /\ incoming[1] = Head(inPipe)
BY FirstLeaves DEF TypeInv, incoming

(* The remote sender takes the oldest unit of a request and adds its answer. *)
LEMMA RemoteReads ==
  ASSUME TypeInv, RemoteRead
  PROVE  /\ Follows(outgoing, outgoing') /\ outgoing[1] = Head(outPipe)
         /\ incoming \in Seq(Unit) /\ remoteOut' \in Seq(Unit)
         /\ incoming' = incoming \o remoteOut'
<1>1. Follows(outgoing, outgoing') /\ outgoing[1] = Head(outPipe)
  BY RemoteReadStep, FirstLeaves DEF TypeInv, RemoteRead, outgoing
<1>2. incoming \in Seq(Unit) /\ incoming = inPipe
  BY RemoteReadStep, ConcatEmptySeq DEF TypeInv, incoming
<1>3. incoming' = inPipe \o remoteOut'
  BY DEF incoming, RemoteRead
<1> QED  BY <1>1, <1>2, <1>3, RemoteReadStep

(* What the remote sender puts on the pipe was on its way already. *)
LEMMA RemoteWrites ==
  ASSUME TypeInv, RemoteWrite
  PROVE  incoming' = incoming /\ outgoing' = outgoing
BY UnitMoves DEF TypeInv, RemoteWrite, incoming, outgoing

(* So was what the thread flushes. *)
LEMMA Flushes ==
  ASSUME TypeInv, TryFlush
  PROVE  outgoing' = outgoing /\ incoming' = incoming
<1>1. outgoing' = outgoing
  <2>1. CASE UNCHANGED <<buffer, outPipe>>
    BY <2>1 DEF outgoing
  <2>2. ASSUME NEW m \in 1 .. Len(buffer),
               outPipe' = outPipe \o Take(buffer, m), buffer' = Drop(buffer, m)
        PROVE  outgoing' = outgoing
    BY <2>2, UnitsMove DEF TypeInv, outgoing
  <2> QED  BY <2>1, <2>2 DEF TryFlush
<1> QED  BY <1>1 DEF TryFlush, incoming

(* What receiveFile reads is the next unit of the reply for its file. *)
LEMMA NextUnit ==
  ASSUME TypeInv, CountInv, ReplyInv, Receiving,
         inPipe # <<>>, inPipe' = Tail(inPipe), remoteOut' = remoteOut
  PROVE  \E from \in Contents \cup {"wire"}, of \in Contents, good \in BOOLEAN :
           /\ good = TRUE \/ current \in faults
           /\ phase = 1 => from = "wire"
           /\ UnitsRead \in 1 .. ReplyLength + 3
           /\ Head(inPipe) = Reply(current, from, of, good)[UnitsRead + 1]
           /\ UnitsRead + 1 < ReplyLength + 4 =>
                Rest(incoming', 1, UnitsRead + 2, current, from, of, good)
<1>1. UnitsRead \in 1 .. ReplyLength + 3
  <2>1. ReplyLength \in Nat \ {0} /\ startBytes \in Nat /\ logicalBytes \in Nat
    BY DownloadAssumption DEF TypeInv, TypeOK
  <2> QED  BY <2>1 DEF UnitsRead, Receiving, CountInv
<1>2. PICK from \in Contents \cup {"wire"}, of \in Contents, good \in BOOLEAN :
        /\ good = TRUE \/ current \in faults
        /\ phase = 1 => from = "wire"
        /\ Rest(incoming, 1, UnitsRead + 1, current, from, of, good)
  BY DEF ReplyInv, InLoop, Receiving, RestOf
<1>3. Follows(incoming, incoming') /\ incoming[1] = Head(inPipe)
  BY Reads
<1>4. ReplyLength \in Nat /\ UnitsRead + 1 \in 1 .. ReplyLength + 4
      /\ (UnitsRead + 1) + 1 = UnitsRead + 2
  BY <1>1, DownloadAssumption
<1>5. current \in Files
  BY DEF TypeInv, TypeOK
<1>6. /\ incoming[1] = Reply(current, from, of, good)[UnitsRead + 1]
      /\ UnitsRead + 1 < ReplyLength + 4 =>
           Rest(incoming', 1, (UnitsRead + 1) + 1, current, from, of, good)
  BY <1>2, <1>3, <1>4, <1>5, RestRead
<1> QED  BY <1>1, <1>2, <1>3, <1>4, <1>6

(* The header, the tokens, the end and the digest come one after the other. *)
LEMMA NextUnitType ==
  ASSUME TypeInv, CountInv, ReplyInv, Receiving,
         inPipe # <<>>, inPipe' = Tail(inPipe), remoteOut' = remoteOut
  PROVE  /\ pc = "header" => Head(inPipe).type = "header"
         /\ pc = "token" /\ Head(inPipe).type = "token" => logicalBytes - startBytes < ReplyLength
         /\ pc = "token" /\ Head(inPipe).type = "end" => logicalBytes - startBytes = ReplyLength
         /\ pc = "digest" => /\ Head(inPipe).type = "digest"
                             /\ Head(inPipe).good = TRUE \/ current \in faults
         /\ phase = 1 /\ pc = "token" /\ Head(inPipe).type = "token" => Head(inPipe).from = "wire"
<1>1. PICK from \in Contents \cup {"wire"}, of \in Contents, good \in BOOLEAN :
        /\ good = TRUE \/ current \in faults
        /\ phase = 1 => from = "wire"
        /\ UnitsRead \in 1 .. ReplyLength + 3
        /\ Head(inPipe) = Reply(current, from, of, good)[UnitsRead + 1]
  BY NextUnit
<1>2. current \in Files
  BY DEF TypeInv, TypeOK
<1> DEFINE r == Reply(current, from, of, good)
<1>3. /\ Len(r) = ReplyLength + 4
      /\ r[1] = [type |-> "index", file |-> current]
      /\ r[2] = [type |-> "header", base |-> of]
      /\ \A k \in 3 .. ReplyLength + 2 : r[k] = [type |-> "token", from |-> from]
      /\ r[ReplyLength + 3] = [type |-> "end"]
      /\ r[ReplyLength + 4] = [type |-> "digest", good |-> good]
  BY <1>2, ReplyShape
<1> HIDE DEF r
<1>4. ReplyLength \in Nat \ {0} /\ startBytes \in Nat /\ logicalBytes \in Nat
  BY DownloadAssumption DEF TypeInv, TypeOK
<1>5. CASE pc = "token"
  <2>1. UnitsRead = 2 + (logicalBytes - startBytes)
    BY <1>5 DEF UnitsRead
  <2>2. logicalBytes - startBytes \in 0 .. ReplyLength
    BY <1>4, <1>5 DEF CountInv
  <2>3. CASE logicalBytes - startBytes = ReplyLength
    <3>1. UnitsRead + 1 = ReplyLength + 3
      BY <1>4, <2>1, <2>3
    <3>2. Head(inPipe) = [type |-> "end"]
      BY <1>1, <1>3, <3>1 DEF r
    <3> QED  BY <1>5, <2>3, <3>2
  <2>4. CASE logicalBytes - startBytes < ReplyLength
    <3>1. UnitsRead + 1 \in 3 .. ReplyLength + 2
      BY <1>4, <2>1, <2>2, <2>4
    <3>2. Head(inPipe) = [type |-> "token", from |-> from]
      BY <1>1, <1>3, <3>1 DEF r
    <3>3. Head(inPipe).type = "token" /\ Head(inPipe).from = from
      BY <3>2
    <3>4. phase = 1 => Head(inPipe).from = "wire"
      BY <1>1, <3>3
    <3> QED  BY <1>5, <2>4, <3>3, <3>4
  <2>5. logicalBytes - startBytes = ReplyLength \/ logicalBytes - startBytes < ReplyLength
    BY <1>4, <2>2
  <2> QED  BY <2>3, <2>4, <2>5, Zenon
<1>6. CASE pc = "digest"
  <2>1. UnitsRead + 1 = ReplyLength + 4
    BY <1>4, <1>6 DEF UnitsRead
  <2>2. Head(inPipe) = [type |-> "digest", good |-> good]
    BY <1>1, <1>3, <2>1 DEF r
  <2>3. Head(inPipe).type = "digest" /\ Head(inPipe).good = good
    BY <2>2
  <2> QED  BY <1>1, <1>6, <2>3
<1>7. CASE pc = "header"
  <2>1. UnitsRead + 1 = 2
    BY <1>7 DEF UnitsRead
  <2>2. Head(inPipe) = [type |-> "header", base |-> of]
    BY <1>1, <1>3, <2>1 DEF r
  <2> QED  BY <1>7, <2>2
<1> QED  BY <1>5, <1>6, <1>7 DEF Receiving

-----------------------------------------------------------------------------
(* The counters. *)

(* A new file is counted from where the last one ended. *)
LEMMA ReadIndexCount == TypeInv /\ CountInv /\ ReadIndex => CountInv'
BY DEF TypeInv, TypeOK, CountInv, ReadIndex, EndPhase, Receiving, receiving, results

(* As many tokens are counted as a reply has, when the end comes. *)
LEMMA ReceiveTokenCount == TypeInv /\ CountInv /\ ReplyInv /\ ReceiveToken => CountInv'
<1> SUFFICES ASSUME TypeInv, CountInv, ReplyInv, ReceiveToken PROVE CountInv'
  OBVIOUS
<1>1. /\ pc = "token" /\ startBytes' = startBytes /\ updated' = updated
      /\ startBytes = ReplyLength * Len(updated)
      /\ logicalBytes \in startBytes .. startBytes + ReplyLength
      /\ ReplyLength \in Nat /\ startBytes \in Nat /\ logicalBytes \in Nat
  BY DownloadAssumption DEF ReceiveToken, CountInv, Receiving, TypeInv, TypeOK
<1>2. /\ Head(inPipe).type = "token" => logicalBytes - startBytes < ReplyLength
      /\ Head(inPipe).type = "end" => logicalBytes - startBytes = ReplyLength
  <2>1. remoteOut' = remoteOut /\ Receiving
    BY DEF ReceiveToken, Receiving
  <2> QED  BY <1>1, <2>1, NextUnitType DEF ReceiveToken
<1>3. CASE Head(inPipe).type = "end" /\ pc' = "digest" /\ logicalBytes' = logicalBytes
  BY <1>1, <1>2, <1>3 DEF CountInv, Receiving
<1>4. CASE Head(inPipe).type = "token" /\ pc' = pc /\ logicalBytes' = logicalBytes + 1
  BY <1>1, <1>2, <1>4 DEF CountInv, Receiving
<1> QED  BY <1>3, <1>4 DEF ReceiveToken

(* A file that has to be sent again is not counted. *)
LEMMA ReceiveDigestCount == TypeInv /\ CountInv /\ ReceiveDigest => CountInv'
<1> SUFFICES ASSUME TypeInv, CountInv, ReceiveDigest PROVE CountInv'
  OBVIOUS
<1>1. /\ pc = "digest" /\ pc' = "generate"
      /\ startBytes = ReplyLength * Len(updated)
      /\ logicalBytes = startBytes + ReplyLength
      /\ updated \in Seq(Files) /\ current \in Files
  BY DEF ReceiveDigest, CountInv, Receiving, TypeInv, TypeOK
<1>2. CASE updated' = Append(updated, current) /\ logicalBytes' = logicalBytes
  <2>1. Len(updated') = Len(updated) + 1 /\ Len(updated) \in Nat
    BY <1>1, <1>2, AppendProperties, LenProperties
  <2>2. ReplyLength * (Len(updated) + 1) = ReplyLength * Len(updated) + ReplyLength
    BY <2>1, DownloadAssumption
  <2> QED  BY <1>1, <1>2, <2>1, <2>2 DEF CountInv, Receiving
<1>3. CASE updated' = updated /\ logicalBytes' = startBytes
  BY <1>1, <1>3 DEF CountInv, Receiving
<1> QED  BY <1>2, <1>3 DEF ReceiveDigest, CountedBefore

(* Nothing else counts. *)
LEMMA OthersCount ==
  ASSUME TypeInv, CountInv,
         \/ Generate \/ TryFlush \/ Poll \/ ReceiveHeader \/ Abort \/ Finish \/ FinalFlush
         \/ RemoteRead \/ RemoteWrite \/ UserChange \/ UNCHANGED vars
  PROVE  CountInv'
<1>1. UNCHANGED <<startBytes, logicalBytes, updated>>
  BY DEF Generate, TryFlush, Poll, ReceiveHeader, Abort, Finish, FinalFlush, RemoteRead,
         RemoteWrite, UserChange, vars, receiving, results
<1>2. \/ pc' = pc
      \/ pc = "header" /\ pc' = "token"
      \/ pc' = "failed"
      \/ pc \notin {"header", "token", "digest", "failed"}
         /\ pc' \notin {"header", "token", "digest"}
  BY DEF Generate, TryFlush, Poll, ReceiveHeader, Abort, Finish, FinalFlush, RemoteRead,
         RemoteWrite, UserChange, vars
<1>3. startBytes \in Nat /\ ReplyLength \in Nat
  BY DownloadAssumption DEF TypeInv, TypeOK
<1>4. CASE pc' = pc
  BY <1>1, <1>4 DEF CountInv, Receiving
<1>5. CASE pc = "header" /\ pc' = "token"
  BY <1>1, <1>3, <1>5 DEF CountInv, Receiving
<1>6. CASE pc' = "failed"
  BY <1>6 DEF CountInv, Receiving
<1>7. CASE /\ pc \notin {"header", "token", "digest", "failed"}
           /\ pc' \notin {"header", "token", "digest"}
  BY <1>1, <1>7 DEF CountInv, Receiving
<1> QED  BY <1>2, <1>4, <1>5, <1>6, <1>7

(* Requests without a base, put together and taken apart. *)
LEMMA WithoutBaseConcat ==
  ASSUME NEW s \in Seq(Unit), NEW t \in Seq(Unit)
  PROVE  /\ WithoutBase(s) /\ WithoutBase(t) => WithoutBase(s \o t)
         /\ WithoutBase(s \o t) => WithoutBase(s)
<1>1. /\ Len(s) \in Nat /\ Len(t) \in Nat /\ Len(s \o t) = Len(s) + Len(t)
      /\ \A k \in 1 .. Len(s) : (s \o t)[k] = s[k]
      /\ \A k \in 1 .. Len(t) : (s \o t)[Len(s) + k] = t[k]
  BY ConcatAt, Zenon
<1>2. ASSUME WithoutBase(s), WithoutBase(t), NEW k \in 1 .. Len(s \o t), (s \o t)[k].type = "request"
      PROVE  (s \o t)[k].base = "absent"
  <2>1. CASE k <= Len(s)
    <3>1. k \in 1 .. Len(s)
      BY <1>1, <2>1
    <3> QED  BY <1>1, <1>2, <3>1 DEF WithoutBase
  <2>2. CASE ~(k <= Len(s))
    <3>1. k - Len(s) \in 1 .. Len(t) /\ Len(s) + (k - Len(s)) = k
      BY <1>1, <2>2
    <3>2. (s \o t)[k] = t[k - Len(s)]
      BY <1>1, <3>1
    <3> QED  BY <1>2, <3>1, <3>2 DEF WithoutBase
  <2> QED  BY <2>1, <2>2
<1>3. ASSUME WithoutBase(s \o t), NEW k \in 1 .. Len(s), s[k].type = "request"
      PROVE  s[k].base = "absent"
  <2>1. k \in 1 .. Len(s \o t)
    BY <1>1
  <2> QED  BY <1>1, <1>3, <2>1 DEF WithoutBase
<1> QED  BY <1>2, <1>3 DEF WithoutBase

(* What is behind a request without a base has none either. *)
LEMMA WithoutBaseMovesUp ==
  ASSUME NEW s, NEW t, Follows(s, t), WithoutBase(s)
  PROVE  WithoutBase(t)
<1>1. Len(s) \in Nat /\ Len(t) \in Nat /\ Len(s) = Len(t) + 1
  BY LenProperties DEF Follows
<1>2. ASSUME NEW k \in 1 .. Len(t), t[k].type = "request" PROVE t[k].base = "absent"
  <2>1. k + 1 \in 1 .. Len(s) /\ t[k] = s[k + 1]
    BY <1>1 DEF Follows
  <2> QED  BY <1>2, <2>1 DEF WithoutBase
<1> QED  BY <1>2 DEF WithoutBase

(* In the second phase the requests describe no local file. *)
LEMMA NextRequestWithoutBase ==
  ASSUME TypeInv, i < Len(queue), phase = 1
  PROVE  NextRequest \in Seq(Unit) /\ WithoutBase(NextRequest)
<1> DEFINE f == queue[i + 1]
           request == IF isReadable[f] THEN Request(f, BaseOf(f)) ELSE <<>>
           done == IF i + 1 = Len(queue) THEN <<Done>> ELSE <<>>
<1>1. f \in Files
  BY LenProperties, ElementOfSeq DEF TypeInv, TypeOK
<1>2. BaseOf(f) = "absent" /\ "absent" \in Contents
  BY DEF BaseOf, Contents
<1>3. <<>> \in Seq(Unit) /\ WithoutBase(<<>>)
  BY EmptyUnits, EmptySeq DEF WithoutBase
<1>4. Request(f, "absent") \in Seq(Unit) /\ WithoutBase(Request(f, "absent"))
  <2>1. RequestLength \in Nat
    BY DownloadAssumption
  <2>2. Request(f, "absent") \in Seq(Unit)
    BY <1>1, <1>2, RequestUnits
  <2>3. \A k \in 1 .. RequestLength : Request(f, "absent")[k].base = "absent"
    BY DEF Request
  <2>4. Len(Request(f, "absent")) = RequestLength
    BY <2>1 DEF Request
  <2> QED  BY <2>2, <2>3, <2>4 DEF WithoutBase
<1>5. <<Done>> \in Seq(Unit) /\ WithoutBase(<<Done>>)
  BY DoneUnits DEF WithoutBase
<1>6. NextRequest = request \o done
  BY DEF NextRequest
<1>7. request \in Seq(Unit) /\ WithoutBase(request)
  BY <1>2, <1>3, <1>4
<1>8. done \in Seq(Unit) /\ WithoutBase(done)
  BY <1>3, <1>5
<1> HIDE DEF request, done
<1> QED  BY <1>6, <1>7, <1>8, ConcatUnits, WithoutBaseConcat

-----------------------------------------------------------------------------
(* Replies come whole and in order, one lemma per action. *)

(* Nothing is on its way when download() begins. *)
LEMMA InitReply == Init => ReplyInv /\ CountInv
<1> SUFFICES ASSUME Init PROVE ReplyInv /\ CountInv
  OBVIOUS
<1>1. incoming = <<>> /\ outgoing = <<>> /\ phase = 0 /\ ~Receiving
  BY EmptyUnits, ConcatEmptySeq DEF Init, incoming, outgoing, Receiving
<1>2. ReplyInv
  BY <1>1, EmptyWhole DEF ReplyInv
<1>3. CountInv
  <2>1. ReplyLength \in Nat /\ Len(updated) = 0
    BY DownloadAssumption, EmptySeq DEF Init
  <2> QED  BY <1>1, <2>1 DEF CountInv, Init
<1> QED  BY <1>2, <1>3

(* A request of the second phase has no base. *)
LEMMA GenerateReply == TypeInv /\ ReplyInv /\ Generate => ReplyInv'
<1> SUFFICES ASSUME TypeInv, ReplyInv, Generate PROVE ReplyInv'
  OBVIOUS
<1>1. /\ pc = "generate" /\ pc' \in {"flush", "write failed"}
      /\ UNCHANGED <<phase, inPipe, remoteOut, outPipe, faults>>
  BY DEF Generate, remote
<1>2. /\ InLoop /\ ~Receiving /\ ~Receiving'
      /\ incoming' = incoming
  BY <1>1 DEF InLoop, Receiving, incoming
<1>3. phase = 1 => WithoutBase(outgoing)
  BY <1>2 DEF ReplyInv
<1>4. phase = 1 => WithoutBase(outgoing')
  <2>1. CASE UNCHANGED buffer
    BY <1>1, <1>3, <2>1 DEF outgoing
  <2>2. CASE i < Len(queue) /\ buffer' = buffer \o NextRequest
    <3> SUFFICES ASSUME phase = 1 PROVE WithoutBase(outgoing')
      OBVIOUS
    <3>1. PICK more \in Seq(Unit) : more = NextRequest /\ WithoutBase(more)
      BY <2>2, NextRequestWithoutBase
    <3>2. outPipe \in Seq(Unit) /\ buffer \in Seq(Unit)
      BY DEF TypeInv
    <3>3. outgoing \in Seq(Unit)
      BY <3>2, ConcatUnits DEF outgoing
    <3>4. WithoutBase(outgoing \o more)
      BY <1>3, <3>1, <3>3, WithoutBaseConcat
    <3>5. outgoing' = outPipe \o (buffer \o more)
      BY <1>1, <2>2, <3>1 DEF outgoing
    <3>6. (outPipe \o buffer) \o more = outPipe \o (buffer \o more)
      BY <3>1, <3>2, ConcatAssociative DEF Unit
    <3> QED  BY <3>4, <3>5, <3>6 DEF outgoing
  <2>3. i \in Nat /\ Len(queue) \in Nat
    BY LenProperties DEF TypeInv, TypeOK
  <2>4. ~(i >= Len(queue)) => i < Len(queue)
    BY <2>3
  <2>5. UNCHANGED buffer \/ (~(i >= Len(queue)) /\ buffer' = buffer \o NextRequest)
    BY Zenon DEF Generate
  <2> QED  BY <2>1, <2>2, <2>4, <2>5, Zenon
<1> QED  BY <1>1, <1>2, <1>4 DEF ReplyInv

(* An index is followed by the rest of its reply; after an INDEX_DONE the
   wire is empty. *)
LEMMA ReadIndexReply == TypeInv /\ FlushInv /\ ReplyInv /\ ReadIndex => ReplyInv'
<1> SUFFICES ASSUME TypeInv, FlushInv, ReplyInv, ReadIndex PROVE ReplyInv'
  OBVIOUS
<1>1. /\ pc = "index" /\ InLoop /\ ~Receiving
      /\ inPipe # <<>> /\ inPipe' = Tail(inPipe)
      /\ UNCHANGED <<remoteOut, outPipe, buffer, faults>>
  BY DEF ReadIndex, InLoop, Receiving, remote
<1>2. Whole(incoming, faults, phase) /\ (phase = 1 => WithoutBase(outgoing))
  BY <1>1 DEF ReplyInv
<1>3. CASE Head(inPipe).type = "done" /\ EndPhase
  <2>1. OneDone /\ inPipe \in Seq(Unit)
    BY <1>1 DEF FlushInv, TypeInv
  <2>2. ~NoDone(inPipe) /\ inPipe' = <<>>
    BY <1>1, <1>3, <2>1, TailUnits DEF OneDone
  <2>3. buffer' = <<>> /\ outPipe' = <<>> /\ remoteOut' = <<>>
    BY <1>1, <2>1, <2>2 DEF OneDone, DoneOnWire
  <2>4. incoming' = <<>> /\ outgoing' = <<>>
    BY <2>2, <2>3, EmptyUnits, ConcatEmptySeq DEF incoming, outgoing
  <2>5. ~Receiving'
    BY <1>3 DEF EndPhase, Receiving
  <2>6. WithoutBase(outgoing')
    BY <2>4, EmptySeq DEF WithoutBase
  <2> QED  BY <2>4, <2>5, <2>6, EmptyWhole DEF ReplyInv
<1>4. CASE /\ Head(inPipe).type = "index" /\ current' = Head(inPipe).file
           /\ pc' = "header" /\ UNCHANGED loop
  <2>1. Follows(incoming, incoming') /\ incoming[1] = Head(inPipe)
    BY <1>1, Reads
  <2>2. Whole(incoming', faults, phase)
    BY <1>2, <2>1, WholeMovesUp
  <2>3. 1 \in 1 .. Len(incoming)
    BY <2>1, LenProperties DEF Follows
  <2>4. RestOf(incoming, 1, 1, current', faults, phase)
    BY <1>2, <1>4, <2>1, <2>3 DEF Whole
  <2>5. PICK from \in Contents \cup {"wire"}, of \in Contents, good \in BOOLEAN :
          /\ good = TRUE \/ current' \in faults
          /\ phase = 1 => from = "wire"
          /\ Rest(incoming, 1, 1, current', from, of, good)
    BY <2>4 DEF RestOf
  <2>6. current' \in Files
    BY <1>1, <1>4, TailUnits, UnitFields DEF TypeInv
  <2>7. ReplyLength \in Nat
    BY DownloadAssumption
  <2>8. 1 \in 1 .. ReplyLength + 4 /\ 1 < ReplyLength + 4
    BY <2>7
  <2>9. PICK f \in Files : f = current'
    BY <2>6
  <2>10. Rest(incoming', 1, 1 + 1, current', from, of, good)
    BY <2>1, <2>5, <2>8, <2>9, RestRead
  <2>11. UnitsRead' = 1 /\ Receiving'
    BY <1>4 DEF UnitsRead, Receiving
  <2>12. RestOf(incoming', 1, UnitsRead' + 1, current', faults, phase)
    BY <2>5, <2>10, <2>11 DEF RestOf
  <2>13. UNCHANGED <<phase, outgoing>>
    BY <1>1, <1>4 DEF loop, outgoing
  <2> QED  BY <1>1, <1>2, <2>2, <2>11, <2>12, <2>13 DEF ReplyInv
<1> QED  BY <1>3, <1>4 DEF ReadIndex

(* receiveFile reads one unit of the reply and more are to come. *)
LEMMA UnitReadReply ==
  ASSUME TypeInv, CountInv, ReplyInv, Receiving, Receiving',
         inPipe # <<>>, inPipe' = Tail(inPipe),
         UnitsRead' = UnitsRead + 1, UnitsRead + 1 < ReplyLength + 4,
         UNCHANGED <<remoteOut, outPipe, buffer, faults, phase, current>>
  PROVE  ReplyInv'
<1>1. PICK from \in Contents \cup {"wire"}, of \in Contents, good \in BOOLEAN :
        /\ good = TRUE \/ current \in faults
        /\ phase = 1 => from = "wire"
        /\ UnitsRead \in 1 .. ReplyLength + 3
        /\ UnitsRead + 1 < ReplyLength + 4 =>
             Rest(incoming', 1, UnitsRead + 2, current, from, of, good)
  BY NextUnit
<1>2. UnitsRead' + 1 = UnitsRead + 2
  BY <1>1, DownloadAssumption
<1>3. RestOf(incoming', 1, UnitsRead' + 1, current, faults, phase)
  BY <1>1, <1>2 DEF RestOf
<1>4. InLoop /\ InLoop'
  BY DEF InLoop, Receiving
<1>5. Whole(incoming, faults, phase) /\ (phase = 1 => WithoutBase(outgoing))
  BY <1>4 DEF ReplyInv
<1>6. Whole(incoming', faults, phase)
  BY <1>5, Reads, WholeMovesUp
<1>7. outgoing' = outgoing
  BY DEF outgoing
<1> QED  BY <1>3, <1>4, <1>5, <1>6, <1>7 DEF ReplyInv

(* The header is followed by the tokens. *)
LEMMA ReceiveHeaderReply == TypeInv /\ CountInv /\ ReplyInv /\ ReceiveHeader => ReplyInv'
<1> SUFFICES ASSUME TypeInv, CountInv, ReplyInv, ReceiveHeader PROVE ReplyInv'
  OBVIOUS
<1>1. /\ pc = "header" /\ Receiving /\ inPipe # <<>> /\ inPipe' = Tail(inPipe)
      /\ UNCHANGED <<remoteOut, outPipe, buffer, faults, phase, current, startBytes, logicalBytes>>
      /\ pc' \in {"failed", "token"}
  BY DEF ReceiveHeader, Receiving, loop, results, remote
<1>2. CASE pc' = "failed"
  BY <1>2 DEF ReplyInv, InLoop
<1>3. CASE pc' = "token"
  <2>1. startBytes = logicalBytes /\ startBytes \in Nat /\ ReplyLength \in Nat
    BY <1>1, DownloadAssumption DEF CountInv, TypeInv, TypeOK
  <2>2. UnitsRead = 1 /\ UnitsRead' = 2 + (logicalBytes - startBytes)
    BY <1>1, <1>3 DEF UnitsRead
  <2>3. UnitsRead' = UnitsRead + 1 /\ UnitsRead + 1 < ReplyLength + 4
    BY <2>1, <2>2
  <2>4. Receiving'
    BY <1>3 DEF Receiving
  <2> QED  BY <1>1, <2>3, <2>4, UnitReadReply
<1> QED  BY <1>1, <1>2, <1>3

(* The tokens are followed by the end, and that by the digest. *)
LEMMA ReceiveTokenReply == TypeInv /\ CountInv /\ ReplyInv /\ ReceiveToken => ReplyInv'
<1> SUFFICES ASSUME TypeInv, CountInv, ReplyInv, ReceiveToken PROVE ReplyInv'
  OBVIOUS
<1>1. /\ pc = "token" /\ Receiving /\ inPipe # <<>> /\ inPipe' = Tail(inPipe)
      /\ UNCHANGED <<remoteOut, outPipe, buffer, faults, phase, current, startBytes>>
  BY DEF ReceiveToken, Receiving, loop, remote
<1>2. /\ Head(inPipe).type = "token" => logicalBytes - startBytes < ReplyLength
      /\ Head(inPipe).type = "end" => logicalBytes - startBytes = ReplyLength
  BY <1>1, NextUnitType
<1>3. startBytes \in Nat /\ logicalBytes \in Nat /\ ReplyLength \in Nat
  BY DownloadAssumption DEF TypeInv, TypeOK
<1>4. UnitsRead = 2 + (logicalBytes - startBytes)
  BY <1>1 DEF UnitsRead
<1>5. CASE Head(inPipe).type = "end" /\ pc' = "digest" /\ logicalBytes' = logicalBytes
  <2>1. UnitsRead' = ReplyLength + 3 /\ Receiving'
    BY <1>5 DEF UnitsRead, Receiving
  <2> QED  BY <1>1, <1>2, <1>3, <1>4, <1>5, <2>1, UnitReadReply
<1>6. CASE Head(inPipe).type = "token" /\ pc' = pc /\ logicalBytes' = logicalBytes + 1
  <2>1. Receiving' /\ pc' = "token" /\ startBytes' = startBytes
    BY <1>1, <1>6 DEF Receiving
  <2>2. UnitsRead' = 2 + (logicalBytes' - startBytes')
    BY <2>1 DEF UnitsRead
  <2>3. UnitsRead' = UnitsRead + 1 /\ UnitsRead + 1 < ReplyLength + 4
    BY <1>2, <1>3, <1>4, <1>6, <2>1, <2>2
  <2> QED  BY <1>1, <2>1, <2>3, UnitReadReply
<1> QED  BY <1>5, <1>6 DEF ReceiveToken

(* The digest is followed by another reply, or nothing. *)
LEMMA ReceiveDigestReply == TypeInv /\ CountInv /\ ReplyInv /\ ReceiveDigest => ReplyInv'
<1> SUFFICES ASSUME TypeInv, CountInv, ReplyInv, ReceiveDigest PROVE ReplyInv'
  OBVIOUS
<1>1. /\ pc = "digest" /\ Receiving /\ inPipe # <<>> /\ inPipe' = Tail(inPipe)
      /\ UNCHANGED <<remoteOut, outPipe, buffer, faults, phase>>
      /\ pc' = "generate"
  BY DEF ReceiveDigest, Receiving, remote
<1>2. InLoop /\ ~Receiving'
  BY <1>1 DEF InLoop, Receiving
<1>3. Head(inPipe).type = "digest"
  BY <1>1, NextUnitType
<1>4. Whole(incoming, faults, phase) /\ (phase = 1 => WithoutBase(outgoing))
  BY <1>2 DEF ReplyInv
<1>5. Follows(incoming, incoming') /\ incoming[1] = Head(inPipe)
  BY <1>1, Reads
<1>6. /\ Whole(incoming', faults, phase)
      /\ incoming' = <<>> \/ Starts(incoming'[1])
  BY <1>3, <1>4, <1>5, WholeMovesUp
<1>7. outgoing' = outgoing
  BY <1>1 DEF outgoing
<1> QED  BY <1>1, <1>2, <1>4, <1>6, <1>7 DEF ReplyInv

(* Whatever the remote sender adds is whole; in the second phase it answers
   requests without a base. *)
LEMMA RemoteReadReply == TypeInv /\ CountInv /\ ReplyInv /\ RemoteRead => ReplyInv'
<1> SUFFICES ASSUME TypeInv, CountInv, ReplyInv, RemoteRead PROVE ReplyInv'
  OBVIOUS
<1>1. /\ UNCHANGED <<pc, phase, current, startBytes, logicalBytes, updated>>
      /\ InLoop' = InLoop /\ Receiving' = Receiving /\ UnitsRead' = UnitsRead
  BY DEF RemoteRead, loop, receiving, results, InLoop, Receiving, UnitsRead
<1> SUFFICES ASSUME InLoop PROVE ReplyInv'
  BY <1>1 DEF ReplyInv
<1>2. /\ Follows(outgoing, outgoing') /\ outgoing[1] = Head(outPipe)
      /\ incoming \in Seq(Unit) /\ remoteOut' \in Seq(Unit)
      /\ incoming' = incoming \o remoteOut'
  BY RemoteReads
<1>3. phase = 1 => WithoutBase(outgoing) /\ WithoutBase(outgoing')
  BY <1>2, WithoutBaseMovesUp DEF ReplyInv
<1>4. /\ faults \subseteq faults'
      /\ Whole(remoteOut', faults', phase)
      /\ remoteOut' = <<>> \/ Starts(remoteOut'[1])
  <2> DEFINE unit == Head(outPipe)
  <2>1. unit \in Unit /\ remoteOut = <<>>
    BY TailUnits DEF TypeInv, RemoteRead
  <2>2. CASE remoteOut' = <<Done>> /\ UNCHANGED remote
    BY <2>2, EmptyWhole DEF remote
  <2>3. CASE UNCHANGED <<remoteOut, faults>>
    BY <2>1, <2>3, EmptyWhole
  <2>4. ASSUME NEW from \in {"wire", unit.base} \ {"absent"}, NEW good \in BOOLEAN,
               unit.type = "request",
               remoteOut' = Reply(unit.file, from, unit.base, good),
               faults' = IF good THEN faults ELSE faults \cup {unit.file}
        PROVE  /\ faults \subseteq faults'
               /\ Whole(remoteOut', faults', phase)
               /\ remoteOut' = <<>> \/ Starts(remoteOut'[1])
    <3>1. unit.file \in Files /\ unit.base \in Contents
      BY <2>1, <2>4, UnitFields
    <3>2. from \in Contents \cup {"wire"}
      BY <3>1
    <3>3. phase = 1 => from = "wire"
      <4>1. 1 \in 1 .. Len(outgoing)
        BY <1>2, LenProperties DEF Follows
      <4>2. phase = 1 => unit.base = "absent"
        BY <1>2, <1>3, <2>4, <4>1 DEF WithoutBase
      <4> QED  BY <4>2
    <3>4. good = TRUE \/ unit.file \in faults'
      BY <2>4
    <3>5. faults \subseteq faults'
      BY <2>4
    <3>6. Whole(remoteOut', faults', phase) /\ Starts(remoteOut'[1])
      BY <2>4, <3>1, <3>2, <3>3, <3>4, ReplyWhole
    <3> QED  BY <3>5, <3>6
  <2>5. \/ remoteOut' = <<Done>> /\ UNCHANGED remote
        \/ UNCHANGED <<remoteOut, faults>>
        \/ /\ unit.type = "request"
           /\ \E from \in {"wire", unit.base} \ {"absent"}, good \in BOOLEAN :
                /\ remoteOut' = Reply(unit.file, from, unit.base, good)
                /\ faults' = IF good THEN faults ELSE faults \cup {unit.file}
    BY DEF RemoteRead, remote
  <2> QED  BY <2>2, <2>3, <2>4, <2>5
<1>5. Whole(incoming', faults', phase)
  BY <1>2, <1>4, WholeGrows DEF ReplyInv
<1>6. ASSUME Receiving PROVE RestOf(incoming', 1, UnitsRead + 1, current, faults', phase)
  <2>1. UnitsRead + 1 \in 1 .. ReplyLength + 4
    <3>1. ReplyLength \in Nat /\ startBytes \in Nat /\ logicalBytes \in Nat
      BY DownloadAssumption DEF TypeInv, TypeOK
    <3> QED  BY <1>6, <3>1 DEF UnitsRead, CountInv, Receiving
  <2>2. RestOf(incoming, 1, UnitsRead + 1, current, faults, phase)
    BY <1>6 DEF ReplyInv
  <2> QED  BY <1>2, <1>4, <2>1, <2>2, RestGrows
<1>7. ASSUME ~Receiving PROVE incoming' = <<>> \/ Starts(incoming'[1])
  <2>1. incoming = <<>> \/ Starts(incoming[1])
    BY <1>7 DEF ReplyInv
  <2>2. CASE incoming = <<>>
    BY <1>2, <1>4, <2>2, ConcatEmptySeq
  <2>3. CASE incoming # <<>> /\ Starts(incoming[1])
    <3>1. 1 \in 1 .. Len(incoming)
      BY <1>2, <2>3, EmptySeq
    <3>2. \A k \in 1 .. Len(incoming) : (incoming \o remoteOut')[k] = incoming[k]
      BY <1>2, ConcatAt
    <3> QED  BY <1>2, <2>3, <3>1, <3>2
  <2> QED  BY <2>1, <2>2, <2>3
<1> QED  BY <1>1, <1>3, <1>5, <1>6, <1>7 DEF ReplyInv

(* The other steps put nothing on the way, or are the last of the loop. *)
LEMMA OthersReply ==
  ASSUME TypeInv, ReplyInv,
         \/ TryFlush \/ Poll \/ Abort \/ Finish \/ FinalFlush \/ RemoteWrite \/ UserChange
         \/ UNCHANGED vars
  PROVE  ReplyInv'
<1>1. CASE TryFlush \/ Poll
  <2>1. /\ InLoop /\ ~Receiving /\ InLoop' /\ ~Receiving'
        /\ UNCHANGED <<phase, faults>>
    BY <1>1 DEF TryFlush, Poll, InLoop, Receiving, loop, remote
  <2>2. UNCHANGED <<incoming, outgoing>>
    <3>1. Poll => UNCHANGED <<incoming, outgoing>>
      BY DEF Poll, incoming, outgoing
    <3> QED  BY <1>1, <3>1, Flushes
  <2> QED  BY <2>1, <2>2 DEF ReplyInv
<1>2. CASE Abort \/ Finish \/ FinalFlush
  <2>1. ~InLoop'
    BY <1>2 DEF Abort, Finish, FinalFlush, InLoop
  <2> QED  BY <2>1 DEF ReplyInv
<1>3. CASE RemoteWrite \/ UserChange \/ UNCHANGED vars
  <2>1. UNCHANGED <<pc, phase, faults, current, startBytes, logicalBytes>>
    BY <1>3 DEF RemoteWrite, UserChange, vars, loop, receiving, results, remote
  <2>2. UNCHANGED <<incoming, outgoing>>
    <3>1. UserChange \/ UNCHANGED vars => UNCHANGED <<incoming, outgoing>>
      BY DEF UserChange, vars, incoming, outgoing
    <3> QED  BY <1>3, <3>1, RemoteWrites
  <2>3. InLoop' = InLoop /\ Receiving' = Receiving /\ UnitsRead' = UnitsRead
    BY <2>1 DEF InLoop, Receiving, UnitsRead
  <2> QED  BY <2>1, <2>2, <2>3 DEF ReplyInv
<1> QED  BY <1>1, <1>2, <1>3

(* The replies and the counters, together: the length of a reply tells what is
   read next, and what has been read tells how much was counted. *)
THEOREM ReplyIsInvariant == Spec => [](ReplyInv /\ CountInv)
<1>1. TypeInv /\ FlushInv /\ ReplyInv /\ CountInv /\ [Next]_vars => ReplyInv'
  BY GenerateReply, ReadIndexReply, ReceiveHeaderReply, ReceiveTokenReply, ReceiveDigestReply,
     RemoteReadReply, OthersReply DEF Next, Thread
<1>2. TypeInv /\ FlushInv /\ ReplyInv /\ CountInv /\ [Next]_vars => CountInv'
  BY ReadIndexCount, ReceiveTokenCount, ReceiveDigestCount, OthersCount DEF Next, Thread
<1> QED  BY <1>1, <1>2, InitReply, TypeIsInvariant, FlushIsInvariant, PTL DEF Spec

(* When the transfer is over, *d_logicalBytes is what the updated files count. *)
THEOREM LogicalBytesAreExact == Spec => []LogicalBytesMatch
<1>1. CountInv => LogicalBytesMatch
  BY DEF CountInv, LogicalBytesMatch
<1> QED  BY <1>1, ReplyIsInvariant, PTL
-----------------------------------------------------------------------------
(* The files a sequence of indices names, and that it names each once. *)
Members(s) == {s[k] : k \in 1 .. Len(s)}
Distinct(s) == \A j, k \in 1 .. Len(s) : s[j] = s[k] => j = k

(* The last unit of a request and the first of a reply say which file is on
   its way. *)
Carries(u) == u.type = "index" \/ (u.type = "request" /\ u.part = RequestLength)
Carried(s) == {s[k].file : k \in {j \in 1 .. Len(s) : Carries(s[j])}}
CarriedOnce(s) ==
  \A j, k \in 1 .. Len(s) : Carries(s[j]) /\ Carries(s[k]) /\ s[j].file = s[k].file => j = k

(* Where a file of the queue is in the current phase. *)
Waiting == {queue[k] : k \in i + 1 .. Len(queue)}
Asked == Carried(outgoing)
Answered == Carried(incoming)
InHand == IF Receiving THEN {current} ELSE {}
Pending == Waiting \cup Asked \cup Answered \cup InHand

(* In one place at most. *)
Apart ==
  /\ Waiting \cap (Asked \cup Answered \cup InHand \cup Members(retries) \cup Members(updated)) = {}
  /\ Asked \cap (Answered \cup InHand \cup Members(retries) \cup Members(updated)) = {}
  /\ Answered \cap (InHand \cup Members(retries) \cup Members(updated)) = {}
  /\ InHand \cap (Members(retries) \cup Members(updated)) = {}
  /\ Members(retries) \cap Members(updated) = {}

(* A file has failed once in each phase before, and fails for good only after
   a read error of the remote sender. *)
Attempts ==
  /\ \A f \in Pending : failures[f] = phase
  /\ \A f \in Members(retries) : failures[f] = phase + 1 /\ (phase = 1 => f \in faults)

AttemptInv ==
  /\ Distinct(queue) /\ Distinct(retries) /\ Distinct(updated)
  /\ InLoop => CarriedOnce(outgoing) /\ CarriedOnce(incoming) /\ Apart /\ Attempts

(* In the second phase all data comes from the wire. *)
SoundInv == phase = 1 /\ pc \in {"token", "digest"} => sound = TRUE
-----------------------------------------------------------------------------
(* What sequences of indices and of units name. *)

(* An index put at the end of a list that does not name it. *)
LEMMA MembersAppend ==
  ASSUME NEW s \in Seq(Files), NEW f \in Files
  PROVE  /\ Members(Append(s, f)) = Members(s) \cup {f}
         /\ Distinct(s) /\ f \notin Members(s) => Distinct(Append(s, f))
<1>1. Len(s) \in Nat
  BY LenProperties
<1>2. /\ Len(Append(s, f)) = Len(s) + 1
      /\ Append(s, f)[Len(s) + 1] = f
      /\ \A k \in 1 .. Len(s) : Append(s, f)[k] = s[k]
  BY AppendProperties
<1> DEFINE sf == Append(s, f)
<1> HIDE DEF sf
<1>3. \A k \in 1 .. Len(s) + 1 : k \in 1 .. Len(s) \/ k = Len(s) + 1
  BY <1>1
<1>4. \A k \in 1 .. Len(s) : k \in 1 .. Len(s) + 1
  BY <1>1
<1>5. Len(s) + 1 \in 1 .. Len(s) + 1
  BY <1>1
<1>6. Members(sf) = Members(s) \cup {f}
  BY <1>2, <1>3, <1>4, <1>5 DEF Members, sf
<1>7. Distinct(s) /\ f \notin Members(s) => Distinct(sf)
  BY <1>2, <1>3, <1>4, <1>5 DEF Members, Distinct, sf
<1> QED  BY <1>6, <1>7 DEF sf

(* The files two parts of a wire name are those the whole names. *)
LEMMA CarriedConcat ==
  ASSUME NEW s \in Seq(Unit), NEW t \in Seq(Unit)
  PROVE  /\ Carried(s \o t) = Carried(s) \cup Carried(t)
         /\ CarriedOnce(s) /\ CarriedOnce(t) /\ Carried(s) \cap Carried(t) = {}
              => CarriedOnce(s \o t)
<1>1. /\ Len(s) \in Nat /\ Len(t) \in Nat /\ Len(s \o t) = Len(s) + Len(t)
      /\ \A k \in 1 .. Len(s) : (s \o t)[k] = s[k]
      /\ \A k \in 1 .. Len(t) : (s \o t)[Len(s) + k] = t[k]
  BY ConcatAt, Zenon
<1> DEFINE st == s \o t
<1> HIDE DEF st
<1>2. \A k \in 1 .. Len(st) : \/ k \in 1 .. Len(s)
                              \/ k - Len(s) \in 1 .. Len(t) /\ k = Len(s) + (k - Len(s))
  BY <1>1 DEF st
<1>3. /\ \A k \in 1 .. Len(s) : k \in 1 .. Len(st)
      /\ \A k \in 1 .. Len(t) : Len(s) + k \in 1 .. Len(st)
  BY <1>1 DEF st
<1>4. /\ \A k \in 1 .. Len(s) : st[k] = s[k]
      /\ \A k \in 1 .. Len(t) : st[Len(s) + k] = t[k]
  BY <1>1 DEF st
<1>5. \A k \in 1 .. Len(st) :
        \/ \E j \in 1 .. Len(s) : k = j /\ st[k] = s[j]
        \/ \E j \in 1 .. Len(t) : k = Len(s) + j /\ st[k] = t[j]
  BY <1>2, <1>4
<1>6. Carried(st) = Carried(s) \cup Carried(t)
  <2>1. ASSUME NEW k \in 1 .. Len(st), Carries(st[k])
        PROVE  st[k].file \in Carried(s) \cup Carried(t)
    BY <1>5, <2>1 DEF Carried
  <2>2. ASSUME NEW k \in 1 .. Len(s), Carries(s[k]) PROVE s[k].file \in Carried(st)
    BY <1>3, <1>4, <2>2 DEF Carried
  <2>3. ASSUME NEW k \in 1 .. Len(t), Carries(t[k]) PROVE t[k].file \in Carried(st)
    BY <1>3, <1>4, <2>3 DEF Carried
  <2> QED  BY <2>1, <2>2, <2>3 DEF Carried
<1>7. ASSUME CarriedOnce(s), CarriedOnce(t), Carried(s) \cap Carried(t) = {},
             NEW j \in 1 .. Len(st), NEW k \in 1 .. Len(st),
             Carries(st[j]), Carries(st[k]), st[j].file = st[k].file
      PROVE  j = k
  <2>1. CASE \E a, b \in 1 .. Len(s) : j = a /\ k = b /\ st[j] = s[a] /\ st[k] = s[b]
    BY <1>7, <2>1 DEF CarriedOnce
  <2>2. CASE \E a, b \in 1 .. Len(t) : j = Len(s) + a /\ k = Len(s) + b /\ st[j] = t[a] /\ st[k] = t[b]
    BY <1>7, <2>2 DEF CarriedOnce
  <2>3. ASSUME NEW a \in 1 .. Len(s), NEW b \in 1 .. Len(t),
               Carries(s[a]), Carries(t[b]), s[a].file = t[b].file
        PROVE  FALSE
    <3>1. s[a].file \in Carried(s) /\ t[b].file \in Carried(t)
      BY <2>3 DEF Carried
    <3> QED  BY <1>7, <2>3, <3>1
  <2> QED  BY <1>5, <1>7, <2>1, <2>2, <2>3, Zenon
<1> QED  BY <1>6, <1>7 DEF CarriedOnce, st

(* A file is off the wire when the unit that names it has been read. *)
LEMMA CarriedMovesUp ==
  ASSUME NEW s, NEW t, Follows(s, t)
  PROVE  /\ Carried(s) = Carried(t) \cup IF Carries(s[1]) THEN {s[1].file} ELSE {}
         /\ CarriedOnce(s) => /\ CarriedOnce(t)
                              /\ Carries(s[1]) => s[1].file \notin Carried(t)
<1>1. Len(s) \in Nat /\ Len(t) \in Nat /\ Len(s) = Len(t) + 1
  BY LenProperties DEF Follows
<1>2. \A k \in 1 .. Len(t) : k + 1 \in 1 .. Len(s) /\ k + 1 # 1 /\ t[k] = s[k + 1]
  BY <1>1 DEF Follows
<1>3. 1 \in 1 .. Len(s)
  BY <1>1
<1>4. \A k \in 1 .. Len(s) : k = 1 \/ \E j \in 1 .. Len(t) : k = j + 1 /\ s[k] = t[j]
  <2> TAKE k \in 1 .. Len(s)
  <2>1. k # 1 => k - 1 \in 1 .. Len(t) /\ k = (k - 1) + 1
    BY <1>1
  <2> QED  BY <1>2, <2>1
<1>5. Carried(s) = Carried(t) \cup IF Carries(s[1]) THEN {s[1].file} ELSE {}
  <2>1. ASSUME NEW k \in 1 .. Len(s), Carries(s[k])
        PROVE  s[k].file \in Carried(t) \/ (Carries(s[1]) /\ s[k].file = s[1].file)
    BY <1>4, <2>1 DEF Carried
  <2>2. ASSUME NEW k \in 1 .. Len(t), Carries(t[k]) PROVE t[k].file \in Carried(s)
    BY <1>2, <2>2 DEF Carried
  <2>3. Carries(s[1]) => s[1].file \in Carried(s)
    BY <1>3 DEF Carried
  <2> QED  BY <2>1, <2>2, <2>3 DEF Carried
<1>6. ASSUME CarriedOnce(s) PROVE CarriedOnce(t)
  <2> SUFFICES ASSUME NEW j \in 1 .. Len(t), NEW k \in 1 .. Len(t),
                      Carries(t[j]), Carries(t[k]), t[j].file = t[k].file
               PROVE  j = k
    BY DEF CarriedOnce
  <2>1. j + 1 = k + 1
    BY <1>2, <1>6 DEF CarriedOnce
  <2> QED  BY <1>1, <2>1
<1>7. ASSUME CarriedOnce(s), Carries(s[1]) PROVE s[1].file \notin Carried(t)
  <2> SUFFICES ASSUME NEW k \in 1 .. Len(t), Carries(t[k]), t[k].file = s[1].file
               PROVE  FALSE
    BY DEF Carried
  <2> QED  BY <1>2, <1>3, <1>7 DEF CarriedOnce
<1> QED  BY <1>5, <1>6, <1>7

(* An empty wire names no file. *)
LEMMA EmptyCarried == Carried(<<>>) = {} /\ CarriedOnce(<<>>)
BY EmptySeq DEF Carried, CarriedOnce

(* An INDEX_DONE names no file. *)
LEMMA DoneCarried == Carried(<<Done>>) = {} /\ CarriedOnce(<<Done>>)
<1>1. Len(<<Done>>) = 1 /\ <<Done>>[1] = Done /\ ~Carries(Done)
  BY DoneUnits DEF Carries
<1> QED  BY <1>1 DEF Carried, CarriedOnce

(* A request names its file once, with its last unit. *)
LEMMA RequestCarried ==
  ASSUME NEW f \in Files, NEW base \in Contents
  PROVE  Carried(Request(f, base)) = {f} /\ CarriedOnce(Request(f, base))
<1> DEFINE s == Request(f, base)
<1>1. RequestLength \in Nat \ {0}
  BY DownloadAssumption
<1>2. Len(s) = RequestLength
  BY <1>1 DEF Request
<1>3. \A k \in 1 .. RequestLength : s[k].type = "request" /\ s[k].file = f /\ s[k].part = k
  BY DEF Request
<1> HIDE DEF s
<1>4. \A k \in 1 .. RequestLength : Carries(s[k]) <=> k = RequestLength
  BY <1>3 DEF Carries
<1>5. RequestLength \in 1 .. RequestLength
  BY <1>1
<1>6. Carried(s) = {f}
  BY <1>2, <1>3, <1>4, <1>5 DEF Carried
<1>7. CarriedOnce(s)
  BY <1>2, <1>4 DEF CarriedOnce
<1> QED  BY <1>6, <1>7 DEF s

(* A reply names its file once, with its first unit. *)
LEMMA ReplyCarried ==
  ASSUME NEW f \in Files, NEW from \in Contents \cup {"wire"}, NEW of \in Contents,
         NEW good \in BOOLEAN
  PROVE  Carried(Reply(f, from, of, good)) = {f} /\ CarriedOnce(Reply(f, from, of, good))
<1> DEFINE r == Reply(f, from, of, good)
<1>1. /\ Len(r) = ReplyLength + 4
      /\ r[1] = [type |-> "index", file |-> f]
      /\ r[2] = [type |-> "header", base |-> of]
      /\ \A k \in 3 .. ReplyLength + 2 : r[k] = [type |-> "token", from |-> from]
      /\ r[ReplyLength + 3] = [type |-> "end"]
      /\ r[ReplyLength + 4] = [type |-> "digest", good |-> good]
  BY ReplyShape
<1> HIDE DEF r
<1>2. ReplyLength \in Nat
  BY DownloadAssumption
<1>3. \A k \in 1 .. ReplyLength + 4 : ~(k = 1) => ~Carries(r[k])
  <2> TAKE k \in 1 .. ReplyLength + 4
  <2>1. k = 1 \/ k = 2 \/ k \in 3 .. ReplyLength + 2 \/ k = ReplyLength + 3 \/ k = ReplyLength + 4
    BY <1>2
  <2> QED  BY <1>1, <2>1 DEF Carries
<1>4. Carries(r[1]) /\ r[1].file = f /\ 1 \in 1 .. Len(r)
  BY <1>1, <1>2 DEF Carries
<1>5. Carried(r) = {f}
  BY <1>1, <1>3, <1>4 DEF Carried
<1>6. CarriedOnce(r)
  BY <1>1, <1>3 DEF CarriedOnce
<1> QED  BY <1>5, <1>6 DEF r

(* Where the steps take a file, one lemma per action. *)

(* The next file of the queue is asked for, if it can be read. *)
Asks(taken, given) ==
  /\ Waiting = Waiting' \cup taken /\ Waiting' \cap taken = {}
  /\ Asked' = Asked \cup given /\ given \subseteq taken
  /\ \A f \in taken \ given : ~isReadable[f]
  /\ CarriedOnce(outgoing')

(* The remote sender answers a request or passes its file over. *)
Answers(taken, given) ==
  /\ Asked = Asked' \cup taken /\ Asked' \cap taken = {}
  /\ Answered' = Answered \cup given /\ given \subseteq taken
  /\ taken \ given \subseteq skipped'
  /\ skipped \subseteq skipped' /\ faults \subseteq faults'
  /\ CarriedOnce(outgoing') /\ CarriedOnce(incoming')

(* A turn of the loop takes a file off the queue, and asks for it or not. *)
LEMMA GenerateMoves ==
  ASSUME TypeInv, AttemptInv, Generate
  PROVE  \E taken, given \in SUBSET Files : Asks(taken, given)
<1>1. /\ InLoop /\ i \in Nat /\ queue \in Seq(Files) /\ Len(queue) \in Nat
      /\ UNCHANGED <<queue, outPipe>>
  BY LenProperties DEF Generate, InLoop, TypeInv, TypeOK
<1>2. CarriedOnce(outgoing) /\ Apart /\ Distinct(queue)
  BY <1>1 DEF AttemptInv
<1>3. CASE UNCHANGED <<i, buffer>>
  <2>1. UNCHANGED <<Waiting, outgoing>>
    BY <1>1, <1>3 DEF Waiting, outgoing
  <2>2. Asks({}, {})
    BY <1>2, <2>1 DEF Asks, Asked
  <2> QED  BY <2>2
<1>4. CASE ~(i >= Len(queue)) /\ i' = i + 1 /\ buffer' = buffer \o NextRequest
  <2> DEFINE f == queue[i + 1]
             request == IF isReadable[f] THEN Request(f, BaseOf(f)) ELSE <<>>
             done == IF i + 1 = Len(queue) THEN <<Done>> ELSE <<>>
             given == IF isReadable[f] THEN {f} ELSE {}
  <2>1. i + 1 \in 1 .. Len(queue)
    BY <1>1, <1>4
  <2>2. f \in Files
    BY <1>1, <2>1, ElementOfSeq
  <2>3. Waiting = Waiting' \cup {f} /\ f \notin Waiting'
    <3>1. \A k \in i + 1 .. Len(queue) : k = i + 1 \/ k \in (i + 1) + 1 .. Len(queue)
      BY <1>1
    <3>2. \A k \in (i + 1) + 1 .. Len(queue) : k \in i + 1 .. Len(queue) /\ k \in 1 .. Len(queue) /\ k # i + 1
      BY <1>1
    <3>3. i + 1 \in i + 1 .. Len(queue)
      BY <1>1, <2>1
    <3>4. Waiting' = {queue[k] : k \in (i + 1) + 1 .. Len(queue)}
      BY <1>1, <1>4 DEF Waiting
    <3>5. Waiting = Waiting' \cup {f}
      BY <3>1, <3>2, <3>3, <3>4 DEF Waiting
    <3>6. f \notin Waiting'
      BY <1>2, <2>1, <3>2, <3>4 DEF Distinct
    <3> QED  BY <3>5, <3>6
  <2>4. f \in Waiting /\ f \notin Asked
    BY <1>2, <2>3 DEF Apart
  <2>5. BaseOf(f) \in Contents
    BY <2>2 DEF BaseOf, TypeInv, TypeOK, Contents
  <2>6. request \in Seq(Unit) /\ Carried(request) = given /\ CarriedOnce(request)
    BY <2>2, <2>5, RequestUnits, RequestCarried, EmptyUnits, EmptyCarried
  <2>7. done \in Seq(Unit) /\ Carried(done) = {} /\ CarriedOnce(done)
    BY DoneUnits, DoneCarried, EmptyUnits, EmptyCarried
  <2>8. NextRequest = request \o done
    BY DEF NextRequest
  <2>9. given \subseteq {f}
    OBVIOUS
  <2>10. f \notin given => ~isReadable[f]
    OBVIOUS
  <2> HIDE DEF f, request, done, given
  <2>11. PICK more \in Seq(Unit) :
           more = NextRequest /\ Carried(more) = given /\ CarriedOnce(more)
    <3>1. request \o done \in Seq(Unit)
      BY <2>6, <2>7, ConcatUnits
    <3>2. Carried(request) \cap Carried(done) = {} /\ given \cup {} = given
      BY <2>7
    <3>3. /\ Carried(request \o done) = Carried(request) \cup Carried(done)
          /\ CarriedOnce(request \o done)
      BY <2>6, <2>7, <3>2, CarriedConcat
    <3> QED  BY <2>6, <2>7, <2>8, <3>1, <3>2, <3>3
  <2>12. outPipe \in Seq(Unit) /\ buffer \in Seq(Unit)
    BY DEF TypeInv
  <2>13. PICK out \in Seq(Unit) : out = outgoing
    <3>1. outPipe \o buffer \in Seq(Unit)
      BY <2>12, ConcatUnits
    <3> QED  BY <3>1 DEF outgoing
  <2>14. outgoing' = out \o more
    <3>1. outgoing' = outPipe \o (buffer \o more)
      BY <1>1, <1>4, <2>11 DEF outgoing
    <3>2. (outPipe \o buffer) \o more = outPipe \o (buffer \o more)
      BY <2>12, ConcatAssociative DEF Unit
    <3> QED  BY <2>13, <3>1, <3>2 DEF outgoing
  <2>15. Carried(out) \cap Carried(more) = {}
    BY <2>4, <2>9, <2>11, <2>13 DEF Asked
  <2>16. Carried(out \o more) = Carried(out) \cup given /\ CarriedOnce(out \o more)
    BY <1>2, <2>11, <2>13, <2>15, CarriedConcat
  <2>17. Asked' = Asked \cup given
    BY <2>13, <2>14, <2>16 DEF Asked
  <2>18. Asks({f}, given)
    BY <2>3, <2>9, <2>10, <2>14, <2>16, <2>17 DEF Asks
  <2> QED  BY <2>2, <2>9, <2>18
<1>5. UNCHANGED <<i, buffer>> \/ (~(i >= Len(queue)) /\ i' = i + 1 /\ buffer' = buffer \o NextRequest)
  BY Zenon DEF Generate
<1> QED  BY <1>3, <1>4, <1>5

(* A file that was asked for is answered or passed over. *)
LEMMA RemoteReadMoves ==
  ASSUME TypeInv, AttemptInv, InLoop, RemoteRead
  PROVE  \E taken, given \in SUBSET Files : Answers(taken, given)
<1> DEFINE unit == Head(outPipe)
<1>1. /\ Follows(outgoing, outgoing') /\ outgoing[1] = unit
      /\ incoming \in Seq(Unit) /\ remoteOut' \in Seq(Unit)
      /\ incoming' = incoming \o remoteOut'
  BY RemoteReads
<1>2. CarriedOnce(outgoing) /\ CarriedOnce(incoming) /\ Apart
  BY DEF AttemptInv
<1>3. unit \in Unit /\ remoteOut = <<>>
  BY TailUnits DEF TypeInv, RemoteRead
<1>4. /\ Asked = Asked' \cup (IF Carries(unit) THEN {unit.file} ELSE {})
      /\ CarriedOnce(outgoing')
      /\ Carries(unit) => unit.file \notin Asked'
  BY <1>1, <1>2, CarriedMovesUp DEF Asked
<1>5. ASSUME NEW given, Carried(remoteOut') = given, CarriedOnce(remoteOut'),
             given \cap Answered = {}
      PROVE  Answered' = Answered \cup given /\ CarriedOnce(incoming')
  BY <1>1, <1>2, <1>5, CarriedConcat DEF Answered
<1>6. CASE remoteOut' \in {<<>>, <<Done>>} /\ ~Carries(unit) /\ UNCHANGED remote
  <2>1. Carried(remoteOut') = {} /\ CarriedOnce(remoteOut')
    BY <1>6, EmptyCarried, DoneCarried
  <2>2. Answered' = Answered /\ CarriedOnce(incoming')
    BY <1>5, <2>1
  <2>3. Asked' = Asked
    BY <1>4, <1>6
  <2>4. Answers({}, {})
    BY <1>4, <1>6, <2>2, <2>3 DEF Answers, remote
  <2> QED  BY <2>4
<1>7. CASE Carries(unit) /\ unit.type = "request" /\ skipped' = skipped \cup {unit.file} /\ UNCHANGED <<remoteOut, faults>>
  <2>1. Carried(remoteOut') = {} /\ CarriedOnce(remoteOut')
    BY <1>3, <1>7, EmptyCarried
  <2>2. Answered' = Answered /\ CarriedOnce(incoming')
    BY <1>5, <2>1
  <2>3. unit.file \in Files
    BY <1>3, <1>7, UnitFields
  <2>4. Answers({unit.file}, {})
    BY <1>4, <1>7, <2>2 DEF Answers
  <2> QED  BY <2>3, <2>4
<1>8. ASSUME NEW from \in {"wire", unit.base} \ {"absent"}, NEW good \in BOOLEAN,
             Carries(unit), unit.type = "request",
             remoteOut' = Reply(unit.file, from, unit.base, good),
             faults \subseteq faults', UNCHANGED skipped
      PROVE  \E taken, given \in SUBSET Files : Answers(taken, given)
  <2>1. unit.file \in Files /\ unit.base \in Contents
    BY <1>3, <1>8, UnitFields
  <2>2. from \in Contents \cup {"wire"}
    BY <2>1
  <2>3. Carried(remoteOut') = {unit.file} /\ CarriedOnce(remoteOut')
    BY <1>8, <2>1, <2>2, ReplyCarried
  <2>4. unit.file \notin Answered
    BY <1>2, <1>4, <1>8 DEF Apart
  <2>5. Answered' = Answered \cup {unit.file} /\ CarriedOnce(incoming')
    BY <1>5, <2>3, <2>4
  <2>6. Answers({unit.file}, {unit.file})
    BY <1>4, <1>8, <2>5 DEF Answers
  <2> QED  BY <2>1, <2>6
<1>9. \/ remoteOut' \in {<<>>, <<Done>>} /\ ~Carries(unit) /\ UNCHANGED remote
      \/ Carries(unit) /\ unit.type = "request" /\ skipped' = skipped \cup {unit.file} /\ UNCHANGED <<remoteOut, faults>>
      \/ \E from \in {"wire", unit.base} \ {"absent"}, good \in BOOLEAN :
           /\ Carries(unit) /\ unit.type = "request"
           /\ remoteOut' = Reply(unit.file, from, unit.base, good)
           /\ faults \subseteq faults' /\ UNCHANGED skipped
  <2>1. CASE unit.type = "done" /\ remoteOut' = <<Done>> /\ UNCHANGED remote
    BY <2>1 DEF Carries
  <2>2. CASE unit.type = "request" /\ unit.part < RequestLength /\ UNCHANGED <<remoteOut, remote>>
    <3>1. ~(unit.part = RequestLength)
      BY <2>2, DownloadAssumption
    <3> QED  BY <1>3, <2>2, <3>1 DEF Carries
  <2>3. CASE /\ unit.type = "request" /\ unit.part = RequestLength
             /\ skipped' = skipped \cup {unit.file} /\ UNCHANGED <<remoteOut, faults>>
    BY <2>3 DEF Carries
  <2>4. CASE /\ unit.type = "request" /\ unit.part = RequestLength
             /\ \E from \in {"wire", unit.base} \ {"absent"}, good \in BOOLEAN :
                  /\ remoteOut' = Reply(unit.file, from, unit.base, good)
                  /\ faults' = IF good THEN faults ELSE faults \cup {unit.file}
                  /\ UNCHANGED skipped
    BY <2>4 DEF Carries
  <2> QED  BY <2>1, <2>2, <2>3, <2>4 DEF RemoteRead
<1> QED  BY <1>6, <1>7, <1>8, <1>9

(* receiveFile begins with the next reply. *)
LEMMA ReadIndexMoves ==
  ASSUME TypeInv, AttemptInv, ReadIndex, Head(inPipe).type = "index"
  PROVE  /\ Answered = Answered' \cup {current'} /\ current' \notin Answered'
         /\ InHand = {} /\ InHand' = {current'} /\ current' \in Files
         /\ CarriedOnce(incoming') /\ outgoing' = outgoing /\ UNCHANGED loop
         /\ pc = "index" /\ pc' = "header"
<1>1. /\ pc = "index" /\ inPipe # <<>> /\ inPipe' = Tail(inPipe)
      /\ UNCHANGED <<remoteOut, outPipe, buffer, loop>>
      /\ current' = Head(inPipe).file /\ pc' = "header"
  BY DEF ReadIndex
<1>2. CarriedOnce(incoming)
  BY <1>1 DEF AttemptInv, InLoop
<1>3. Follows(incoming, incoming') /\ incoming[1] = Head(inPipe)
  BY <1>1, Reads
<1>4. Carries(incoming[1]) /\ incoming[1].file = current'
  BY <1>1, <1>3 DEF Carries
<1>5. /\ Answered = Answered' \cup {current'} /\ current' \notin Answered'
      /\ CarriedOnce(incoming')
  BY <1>2, <1>3, <1>4, CarriedMovesUp DEF Answered
<1>6. current' \in Files
  BY <1>1, TailUnits, UnitFields DEF TypeInv
<1>7. InHand = {} /\ InHand' = {current'}
  BY <1>1 DEF InHand, Receiving
<1>8. outgoing' = outgoing
  BY <1>1 DEF outgoing
<1> QED  BY <1>1, <1>5, <1>6, <1>7, <1>8

(* When a phase ends no file of its queue is on its way, and the next one is
   about the files that failed. *)
LEMMA EndPhaseMoves ==
  ASSUME TypeInv, FlushInv, ReadIndex, Head(inPipe).type = "done"
  PROVE  /\ pc = "index" /\ EndPhase
         /\ Pending = {} /\ incoming' = <<>> /\ outgoing' = <<>>
         /\ InHand' = {} /\ Waiting' = Members(retries)
<1>1. /\ pc = "index" /\ InLoop /\ inPipe # <<>> /\ inPipe' = Tail(inPipe)
      /\ UNCHANGED <<remoteOut, outPipe, buffer>> /\ EndPhase
  BY DEF ReadIndex, InLoop
<1>2. OneDone /\ inPipe \in Seq(Unit) /\ i \in Nat /\ Len(queue) \in Nat /\ Len(retries) \in Nat
  BY <1>1, LenProperties DEF FlushInv, TypeInv, TypeOK
<1>3. ~NoDone(inPipe) /\ inPipe' = <<>>
  BY <1>1, <1>2, TailUnits DEF OneDone
<1>4. buffer = <<>> /\ outPipe = <<>> /\ remoteOut = <<>> /\ ~(i < Len(queue))
  BY <1>1, <1>2, <1>3 DEF OneDone, DoneOnWire
<1>5. outgoing = <<>> /\ outgoing' = <<>> /\ incoming' = <<>>
  BY <1>1, <1>3, <1>4, EmptyUnits, ConcatEmptySeq DEF incoming, outgoing
<1>6. Follows(incoming, incoming') /\ incoming[1] = Head(inPipe)
  BY <1>1, Reads
<1>7. Asked = {} /\ Answered = {}
  <2>1. ~Carries(incoming[1])
    BY <1>6 DEF Carries
  <2> QED  BY <1>5, <1>6, <2>1, CarriedMovesUp, EmptyCarried DEF Asked, Answered
<1>8. Waiting = {} /\ InHand = {} /\ InHand' = {}
  <2>1. i + 1 .. Len(queue) = {}
    BY <1>2, <1>4
  <2>2. pc' \in {"generate", "finish"}
    BY <1>1 DEF EndPhase
  <2> QED  BY <1>1, <2>1, <2>2 DEF Waiting, InHand, Receiving
<1>9. Waiting' = Members(retries)
  <2>1. queue' = retries /\ i' + 1 = 1
    BY <1>1 DEF EndPhase
  <2> QED  BY <2>1 DEF Waiting, Members
<1> QED  BY <1>1, <1>5, <1>7, <1>8, <1>9 DEF Pending

(* While receiveFile reads, nothing else moves. *)
LEMMA ReceiveMoves ==
  ASSUME TypeInv, CountInv, ReplyInv, AttemptInv,
         ReceiveHeader \/ ReceiveToken \/ ReceiveDigest
  PROVE  /\ Answered' = Answered /\ CarriedOnce(incoming') /\ outgoing' = outgoing
         /\ Waiting' = Waiting /\ InHand = {current} /\ current' = current
         /\ UNCHANGED <<phase, queue, faults>>
<1>1. /\ Receiving /\ inPipe # <<>> /\ inPipe' = Tail(inPipe)
      /\ UNCHANGED <<remoteOut, outPipe, buffer, queue, i, phase, current, faults>>
  BY DEF ReceiveHeader, ReceiveToken, ReceiveDigest, Receiving, loop, remote
<1>2. CarriedOnce(incoming)
  BY <1>1 DEF AttemptInv, InLoop, Receiving
<1>3. Follows(incoming, incoming') /\ incoming[1] = Head(inPipe)
  BY <1>1, Reads
<1>4. Head(inPipe).type \in {"header", "token", "end", "digest"}
  <2>1. pc = "header" => Head(inPipe).type = "header"
    BY <1>1, NextUnitType
  <2>2. pc = "digest" => Head(inPipe).type = "digest"
    BY <1>1, NextUnitType
  <2>3. /\ ReceiveHeader => pc = "header"
        /\ ReceiveDigest => pc = "digest"
        /\ ReceiveToken => Head(inPipe).type \in {"token", "end"}
    BY DEF ReceiveHeader, ReceiveToken, ReceiveDigest
  <2> QED  BY <2>1, <2>2, <2>3
<1>5. ~Carries(incoming[1])
  BY <1>3, <1>4 DEF Carries
<1>6. Answered' = Answered /\ CarriedOnce(incoming')
  <2>1. Carried(incoming) = Carried(incoming') \cup {} /\ CarriedOnce(incoming')
    BY <1>2, <1>3, <1>5, CarriedMovesUp
  <2> QED  BY <2>1 DEF Answered
<1> QED  BY <1>1, <1>6 DEF outgoing, Waiting, InHand

(* The end of receiveFile: the file has been updated, or has failed once more,
   in the second phase because the remote sender had a read error. *)
Succeeds ==
  /\ updated' = Append(updated, current)
  /\ UNCHANGED <<retries, failures>>

Fails ==
  /\ retries' = Append(retries, current)
  /\ failures' = [failures EXCEPT ![current] = @ + 1]
  /\ UNCHANGED updated
  /\ phase = 1 => current \in faults

(* receiveFile ends in one of the two ways. *)
LEMMA ReceiveDigestMoves ==
  ASSUME TypeInv, CountInv, ReplyInv, SoundInv, ReceiveDigest
  PROVE  /\ pc = "digest" /\ pc' = "generate" /\ InHand' = {}
         /\ Succeeds \/ Fails
<1> DEFINE same == sound /\ Head(inPipe).good
<1>1. /\ pc = "digest" /\ pc' = "generate" /\ inPipe # <<>> /\ inPipe' = Tail(inPipe)
      /\ remoteOut' = remoteOut
  BY DEF ReceiveDigest
<1>2. PICK a \in Digests, b \in Digests :
        /\ same <=> a = b
        /\ IF DigestsAgree(a, b)
             THEN /\ updated' = Append(updated, current)
                  /\ UNCHANGED <<retries, logicalBytes, failures>>
             ELSE /\ retries' = Append(retries, current)
                  /\ failures' = [failures EXCEPT ![current] = @ + 1]
                  /\ UNCHANGED updated
  BY DEF ReceiveDigest
<1>3. Head(inPipe).good = TRUE \/ current \in faults
  BY <1>1, NextUnitType DEF Receiving
<1>4. phase = 1 => sound = TRUE
  BY <1>1 DEF SoundInv
<1>5. CASE DigestsAgree(a, b)
  BY <1>1, <1>2, <1>5 DEF InHand, Receiving, Succeeds
<1>6. CASE ~DigestsAgree(a, b)
  <2>1. ~same
    BY <1>2, <1>6, DigestsCompared
  <2>2. phase = 1 => current \in faults
    BY <1>3, <1>4, <2>1
  <2> QED  BY <1>1, <1>2, <1>6, <2>2 DEF InHand, Receiving, Fails
<1> QED  BY <1>5, <1>6

(* The other steps leave every file where it is, or are the last of the loop. *)
LEMMA OthersMoves ==
  ASSUME TypeInv,
         \/ TryFlush \/ Poll \/ Abort \/ Finish \/ FinalFlush \/ RemoteWrite \/ UserChange
         \/ UNCHANGED vars
  PROVE  /\ UNCHANGED <<phase, i, queue, retries, updated, failures, skipped, faults, isReadable>>
         /\ \/ UNCHANGED <<incoming, outgoing, Waiting, InHand>> /\ InLoop' = InLoop
            \/ pc' = "failed"
            \/ ~InLoop /\ ~InLoop'
<1>1. UNCHANGED <<phase, i, queue, retries, updated, failures, skipped, faults, isReadable>>
  BY DEF TryFlush, Poll, Abort, Finish, FinalFlush, RemoteWrite, UserChange, vars, loop,
         results, remote
<1>2. Waiting' = Waiting
  BY <1>1 DEF Waiting
<1>3. Abort => pc' = "failed"
  BY DEF Abort
<1>4. Finish \/ FinalFlush => ~InLoop /\ ~InLoop'
  BY DEF Finish, FinalFlush, InLoop
<1>5. Poll \/ TryFlush => InLoop' = InLoop /\ UNCHANGED <<incoming, outgoing, InHand>>
  <2>1. Poll => UNCHANGED <<incoming, outgoing>>
    BY DEF Poll, incoming, outgoing
  <2>2. TryFlush => UNCHANGED <<incoming, outgoing>>
    BY Flushes
  <2>3. Poll \/ TryFlush => /\ pc \in {"flush", "poll"}
                            /\ pc' \in {"poll", "index", "generate"}
    BY DEF Poll, TryFlush
  <2>4. Poll \/ TryFlush => InLoop' /\ InLoop /\ ~Receiving /\ ~Receiving'
    BY <2>3 DEF InLoop, Receiving
  <2>5. Poll \/ TryFlush => InHand = {} /\ InHand' = {}
    BY <2>4 DEF InHand
  <2> QED  BY <2>1, <2>2, <2>4, <2>5 DEF InLoop
<1>6. RemoteWrite \/ UserChange \/ UNCHANGED vars
        => InLoop' = InLoop /\ UNCHANGED <<incoming, outgoing, InHand>>
  <2>1. UserChange \/ UNCHANGED vars => UNCHANGED <<incoming, outgoing>>
    BY DEF UserChange, vars, incoming, outgoing
  <2>2. RemoteWrite => UNCHANGED <<incoming, outgoing>>
    BY RemoteWrites
  <2>3. RemoteWrite \/ UserChange \/ UNCHANGED vars => UNCHANGED <<pc, current>>
    BY DEF RemoteWrite, UserChange, vars, receiving
  <2> QED  BY <2>1, <2>2, <2>3 DEF InHand, InLoop, Receiving
<1> QED  BY <1>1, <1>2, <1>3, <1>4, <1>5, <1>6
-----------------------------------------------------------------------------
(* A file is in one place at most, one lemma per action. *)

(* Every file is waiting in the queue when download() begins. *)
LEMMA InitAttempt == Init => AttemptInv /\ SoundInv
<1> SUFFICES ASSUME Init PROVE AttemptInv /\ SoundInv
  OBVIOUS
<1>1. SoundInv
  BY DEF Init, SoundInv
<1>2. Queue \in Seq(Files) /\ Len(Queue) \in Nat
  BY DownloadAssumption, LenProperties
<1>3. Distinct(queue)
  BY <1>2, DownloadAssumption DEF Init, Distinct
<1>4. Distinct(<<>>) /\ Members(<<>>) = {}
  BY EmptySeq DEF Distinct, Members
<1>5. incoming = <<>> /\ outgoing = <<>>
  BY EmptyUnits, ConcatEmptySeq DEF Init, incoming, outgoing
<1>6. Asked = {} /\ Answered = {} /\ InHand = {}
  BY <1>5, EmptyCarried DEF Asked, Answered, InHand, Receiving, Init
<1>7. Waiting \subseteq Files
  <2>1. \A k \in i + 1 .. Len(queue) : k \in 1 .. Len(Queue) /\ queue[k] = Queue[k]
    BY <1>2 DEF Init
  <2>2. \A k \in 1 .. Len(Queue) : Queue[k] \in Files
    BY <1>2, ElementOfSeq
  <2> QED  BY <2>1, <2>2 DEF Waiting
<1>8. Apart
  BY <1>4, <1>6 DEF Apart, Init
<1>9. Attempts
  BY <1>4, <1>6, <1>7 DEF Attempts, Pending, Init
<1> QED  BY <1>1, <1>3, <1>4, <1>5, <1>8, <1>9, EmptyCarried DEF AttemptInv, Init

(* A file that is asked for does not wait any more. *)
LEMMA GenerateAttempt == TypeInv /\ AttemptInv /\ Generate => AttemptInv'
<1> SUFFICES ASSUME TypeInv, AttemptInv, Generate PROVE AttemptInv'
  OBVIOUS
<1>1. /\ UNCHANGED <<queue, retries, updated, failures, phase, faults, incoming>>
      /\ InLoop /\ InHand = {} /\ InHand' = {}
  BY DEF Generate, results, remote, incoming, InLoop, InHand, Receiving
<1>2. PICK taken \in SUBSET Files, given \in SUBSET Files : Asks(taken, given)
  BY GenerateMoves
<1>3. CarriedOnce(incoming) /\ Apart /\ Attempts
  BY <1>1 DEF AttemptInv
<1>4. Answered' = Answered
  BY <1>1 DEF Answered
<1>5. UNCHANGED <<Members(retries), Members(updated)>>
  BY <1>1
<1>6. Apart'
  BY <1>1, <1>2, <1>3, <1>4, <1>5 DEF Apart, Asks
<1>7. Pending' \subseteq Pending
  BY <1>1, <1>2, <1>4 DEF Pending, Asks
<1>8. Attempts'
  BY <1>1, <1>3, <1>5, <1>7 DEF Attempts
<1> QED  BY <1>1, <1>2, <1>3, <1>6, <1>8 DEF AttemptInv, Asks

(* A file that is answered is not asked for any more. *)
LEMMA RemoteReadAttempt == TypeInv /\ AttemptInv /\ RemoteRead => AttemptInv'
<1> SUFFICES ASSUME TypeInv, AttemptInv, RemoteRead PROVE AttemptInv'
  OBVIOUS
<1>1. UNCHANGED <<pc, current, queue, i, retries, updated, failures, phase>>
  BY DEF RemoteRead, loop, receiving, results
<1>2. UNCHANGED <<Waiting, InHand, Members(retries), Members(updated)>> /\ InLoop' = InLoop
  BY <1>1 DEF Waiting, InHand, InLoop, Receiving
<1>3. ASSUME InLoop
      PROVE  CarriedOnce(outgoing') /\ CarriedOnce(incoming') /\ Apart' /\ Attempts'
  <2>1. PICK taken \in SUBSET Files, given \in SUBSET Files : Answers(taken, given)
    BY <1>3, RemoteReadMoves
  <2>2. Apart /\ Attempts
    BY <1>3 DEF AttemptInv
  <2>3. Apart'
    BY <1>2, <2>1, <2>2 DEF Apart, Answers
  <2>4. Pending' \subseteq Pending
    BY <1>2, <2>1 DEF Pending, Answers
  <2>5. Attempts'
    BY <1>1, <1>2, <2>1, <2>2, <2>4 DEF Attempts, Answers
  <2> QED  BY <2>1, <2>3, <2>5 DEF Answers
<1> QED  BY <1>1, <1>2, <1>3 DEF AttemptInv

(* A file that is being received is not on the wire; a new phase has the files
   that failed in its queue, and nowhere else. *)
LEMMA ReadIndexAttempt == TypeInv /\ FlushInv /\ AttemptInv /\ ReadIndex => AttemptInv'
<1> SUFFICES ASSUME TypeInv, FlushInv, AttemptInv, ReadIndex PROVE AttemptInv'
  OBVIOUS
<1>1. UNCHANGED <<updated, failures, faults>> /\ InLoop
  BY DEF ReadIndex, results, remote, InLoop
<1>2. /\ Distinct(queue) /\ Distinct(retries) /\ Distinct(updated)
      /\ CarriedOnce(outgoing) /\ CarriedOnce(incoming) /\ Apart /\ Attempts
  BY <1>1 DEF AttemptInv
<1>3. CASE Head(inPipe).type = "done"
  <2>1. /\ EndPhase /\ incoming' = <<>> /\ outgoing' = <<>>
        /\ InHand' = {} /\ Waiting' = Members(retries)
    BY <1>3, EndPhaseMoves
  <2>2. Asked' = {} /\ Answered' = {}
    BY <2>1, EmptyCarried DEF Asked, Answered
  <2>3. queue' = retries /\ retries' = <<>> /\ phase' = phase + 1
    BY <2>1 DEF EndPhase
  <2>4. Members(retries') = {} /\ Distinct(retries')
    BY <2>3, EmptySeq DEF Members, Distinct
  <2>5. Members(updated') = Members(updated)
    BY <1>1
  <2>6. Apart'
    BY <1>2, <2>1, <2>2, <2>4, <2>5 DEF Apart
  <2>7. Attempts'
    <3>1. Pending' = Members(retries)
      BY <2>1, <2>2 DEF Pending
    <3> QED  BY <1>1, <1>2, <2>3, <2>4, <3>1 DEF Attempts
  <2> QED  BY <1>1, <1>2, <2>1, <2>3, <2>4, <2>6, <2>7, EmptyCarried DEF AttemptInv
<1>4. CASE Head(inPipe).type = "index"
  <2>1. /\ Answered = Answered' \cup {current'} /\ current' \notin Answered'
        /\ InHand = {} /\ InHand' = {current'}
        /\ CarriedOnce(incoming') /\ outgoing' = outgoing /\ UNCHANGED <<queue, i, retries, phase>>
    BY <1>4, ReadIndexMoves DEF loop
  <2>2. UNCHANGED <<Waiting, Asked, Members(retries), Members(updated)>>
    BY <1>1, <2>1 DEF Waiting, Asked
  <2>3. Apart'
    BY <1>2, <2>1, <2>2 DEF Apart
  <2>4. Pending' = Pending
    BY <2>1, <2>2 DEF Pending
  <2>5. Attempts'
    BY <1>1, <1>2, <2>1, <2>2, <2>4 DEF Attempts
  <2> QED  BY <1>1, <1>2, <2>1, <2>3, <2>5 DEF AttemptInv
<1> QED  BY <1>3, <1>4 DEF ReadIndex

(* A file stays in hand while receiveFile reads. *)
LEMMA ReceiveAttempt ==
  ASSUME TypeInv, CountInv, ReplyInv, AttemptInv, ReceiveHeader \/ ReceiveToken
  PROVE  AttemptInv'
<1>1. /\ Answered' = Answered /\ CarriedOnce(incoming') /\ outgoing' = outgoing
      /\ Waiting' = Waiting /\ InHand = {current} /\ current' = current
      /\ UNCHANGED <<phase, queue, faults>>
  BY ReceiveMoves
<1>2. /\ UNCHANGED <<retries, updated, failures>>
      /\ InLoop /\ (InLoop' => InHand' = InHand)
  BY DEF ReceiveHeader, ReceiveToken, loop, results, InLoop, InHand, Receiving
<1>3. UNCHANGED <<Asked, Members(retries), Members(updated)>>
  BY <1>1, <1>2 DEF Asked
<1>4. CarriedOnce(outgoing) /\ Apart /\ Attempts
  BY <1>2 DEF AttemptInv
<1>5. InLoop' => Apart' /\ Pending' = Pending
  BY <1>1, <1>2, <1>3, <1>4 DEF Apart, Pending
<1>6. InLoop' => Attempts'
  BY <1>1, <1>2, <1>3, <1>4, <1>5 DEF Attempts
<1> QED  BY <1>1, <1>2, <1>4, <1>5, <1>6 DEF AttemptInv

(* A file that has been received is updated or to be retried, for the first
   time in this phase. *)
LEMMA ReceiveDigestAttempt ==
  ASSUME TypeInv, CountInv, ReplyInv, SoundInv, AttemptInv, ReceiveDigest
  PROVE  AttemptInv'
<1>1. /\ Answered' = Answered /\ CarriedOnce(incoming') /\ outgoing' = outgoing
      /\ Waiting' = Waiting /\ InHand = {current}
      /\ UNCHANGED <<phase, queue, faults>>
  BY ReceiveMoves
<1>2. InLoop /\ InHand' = {} /\ (Succeeds \/ Fails)
  BY ReceiveDigestMoves DEF InLoop
<1>3. /\ Distinct(queue) /\ Distinct(retries) /\ Distinct(updated)
      /\ CarriedOnce(outgoing) /\ Apart /\ Attempts
  BY <1>2 DEF AttemptInv
<1>4. /\ retries \in Seq(Files) /\ updated \in Seq(Files) /\ current \in Files
      /\ failures \in [Files -> Nat]
  BY DEF TypeInv, TypeOK
<1>5. current \notin Members(retries) /\ current \notin Members(updated)
  BY <1>1, <1>3 DEF Apart
<1>6. UNCHANGED Asked
  BY <1>1 DEF Asked
<1>7. Pending' = Waiting \cup Asked \cup Answered /\ current \notin Pending'
  BY <1>1, <1>2, <1>3, <1>6 DEF Pending, Apart
<1>8. \A f \in Pending' : failures[f] = phase
  BY <1>1, <1>3, <1>7 DEF Attempts, Pending
<1>9. failures[current] = phase
  BY <1>1, <1>3 DEF Attempts, Pending
<1>10. CASE Succeeds
  <2>1. /\ Members(updated') = Members(updated) \cup {current} /\ Distinct(updated')
        /\ UNCHANGED <<retries, failures, Members(retries)>>
    BY <1>3, <1>4, <1>5, <1>10, MembersAppend DEF Succeeds
  <2>2. Apart'
    BY <1>1, <1>2, <1>3, <1>6, <2>1 DEF Apart
  <2>3. Attempts'
    BY <1>1, <1>3, <1>8, <2>1 DEF Attempts
  <2> QED  BY <1>1, <1>3, <2>1, <2>2, <2>3 DEF AttemptInv
<1>11. CASE Fails
  <2>1. /\ Members(retries') = Members(retries) \cup {current} /\ Distinct(retries')
        /\ UNCHANGED <<updated, Members(updated)>>
    BY <1>3, <1>4, <1>5, <1>11, MembersAppend DEF Fails
  <2>2. /\ failures'[current] = phase + 1
        /\ \A f \in Files : f # current => failures'[f] = failures[f]
        /\ phase = 1 => current \in faults
    BY <1>4, <1>9, <1>11 DEF Fails
  <2>3. Apart'
    BY <1>1, <1>2, <1>3, <1>6, <2>1 DEF Apart
  <2>4. Members(retries) \subseteq Files
    BY <1>4, ElementOfSeq DEF Members
  <2>5. \A f \in Pending' : failures'[f] = phase
    BY <1>7, <1>8, <1>11 DEF Fails
  <2>6. \A f \in Members(retries) : failures'[f] = phase + 1 /\ (phase = 1 => f \in faults)
    BY <1>3, <1>5, <2>2, <2>4 DEF Attempts
  <2>7. Attempts'
    BY <1>1, <2>1, <2>2, <2>5, <2>6 DEF Attempts
  <2> QED  BY <1>1, <1>3, <2>1, <2>3, <2>7 DEF AttemptInv
<1> QED  BY <1>2, <1>10, <1>11

(* The other steps leave the files where they are. *)
LEMMA OthersAttempt ==
  ASSUME TypeInv, AttemptInv,
         \/ TryFlush \/ Poll \/ Abort \/ Finish \/ FinalFlush \/ RemoteWrite \/ UserChange
         \/ UNCHANGED vars
  PROVE  AttemptInv'
<1>1. UNCHANGED <<phase, i, queue, retries, updated, failures, faults>>
  BY OthersMoves
<1>2. \/ UNCHANGED <<incoming, outgoing, Waiting, InHand>> /\ InLoop' = InLoop
      \/ ~InLoop'
  <2>1. pc' = "failed" => ~InLoop'
    BY DEF InLoop
  <2> QED  BY <2>1, OthersMoves
<1>3. CASE UNCHANGED <<incoming, outgoing, Waiting, InHand>> /\ InLoop' = InLoop
  <2>1. UNCHANGED <<Asked, Answered, Members(retries), Members(updated)>>
    BY <1>1, <1>3 DEF Asked, Answered
  <2>2. Apart' = Apart /\ Pending' = Pending
    BY <1>3, <2>1 DEF Apart, Pending
  <2>3. Attempts' = Attempts
    BY <1>1, <2>1, <2>2 DEF Attempts
  <2> QED  BY <1>1, <1>3, <2>2, <2>3 DEF AttemptInv
<1>4. CASE ~InLoop'
  BY <1>1, <1>4 DEF AttemptInv
<1> QED  BY <1>2, <1>3, <1>4

(* In the second phase nothing comes out of an old file. *)
LEMMA NextSound ==
  TypeInv /\ FlushInv /\ CountInv /\ ReplyInv /\ SoundInv /\ [Next]_vars => SoundInv'
<1> SUFFICES ASSUME TypeInv, CountInv, ReplyInv, SoundInv, [Next]_vars PROVE SoundInv'
  OBVIOUS
<1>1. CASE ReceiveToken
  <2>1. /\ pc = "token" /\ Receiving /\ inPipe # <<>> /\ inPipe' = Tail(inPipe)
        /\ UNCHANGED <<remoteOut, phase>>
        /\ \/ Head(inPipe).type = "end" /\ sound' = sound
           \/ Head(inPipe).type = "token" /\ sound' = (sound /\ Head(inPipe).from \in {"wire", oldFile})
    BY <1>1 DEF ReceiveToken, Receiving, loop
  <2>2. phase = 1 /\ Head(inPipe).type = "token" => Head(inPipe).from = "wire"
    BY <2>1, NextUnitType
  <2>3. phase = 1 => sound = TRUE
    BY <2>1 DEF SoundInv
  <2>4. phase = 1 => sound' = TRUE
    BY <2>1, <2>2, <2>3
  <2> QED  BY <2>1, <2>4 DEF SoundInv
<1>2. CASE ReceiveHeader
  BY <1>2 DEF ReceiveHeader, SoundInv
<1>3. CASE ReadIndex \/ ReceiveDigest \/ Abort \/ Generate \/ TryFlush \/ Poll \/ Finish \/ FinalFlush
  <2>1. pc' \notin {"token", "digest"}
    BY <1>3 DEF ReadIndex, EndPhase, ReceiveDigest, Abort, Generate, TryFlush, Poll, Finish, FinalFlush
  <2> QED  BY <2>1 DEF SoundInv
<1>4. CASE RemoteRead \/ RemoteWrite \/ UserChange \/ UNCHANGED vars
  BY <1>4 DEF RemoteRead, RemoteWrite, UserChange, vars, loop, receiving, SoundInv
<1> QED  BY <1>1, <1>2, <1>3, <1>4 DEF Next, Thread

(* The files of the queue are asked for once in each phase at most, and in the
   second phase only if they have failed in the first. *)
THEOREM AttemptIsInvariant == Spec => [](AttemptInv /\ SoundInv)
<1>1. TypeInv /\ FlushInv /\ CountInv /\ ReplyInv /\ SoundInv /\ AttemptInv /\ [Next]_vars
        => AttemptInv'
  BY GenerateAttempt, RemoteReadAttempt, ReadIndexAttempt, ReceiveAttempt, ReceiveDigestAttempt,
     OthersAttempt DEF Next, Thread
<1> QED  BY <1>1, InitAttempt, NextSound, TypeIsInvariant, FlushIsInvariant, ReplyIsInvariant,
            PTL DEF Spec
-----------------------------------------------------------------------------
(* What has become of a file, or will. *)
Settled(f) ==
  \/ f \in skipped
  \/ failures[f] = 2 /\ f \in faults
  \/ f \in Members(updated)

SettleInv ==
  pc # "failed" =>
    \A f \in Members(Queue) :
      isReadable[f] => Settled(f) \/ (InLoop /\ f \in Pending \cup Members(retries))

(* Every file of the queue is pending when download() begins. *)
LEMMA InitSettle == Init => SettleInv
<1> SUFFICES ASSUME Init PROVE SettleInv
  OBVIOUS
<1>1. InLoop
  BY DEF Init, InLoop
<1>2. Members(Queue) \subseteq Pending
  BY DEF Init, Members, Waiting, Pending
<1> QED  BY <1>1, <1>2 DEF SettleInv

(* A file that is not asked for cannot be read. *)
LEMMA GenerateSettle == TypeInv /\ FlushInv' /\ AttemptInv /\ SettleInv /\ Generate => SettleInv'
<1> SUFFICES ASSUME TypeInv, FlushInv', AttemptInv, SettleInv, Generate PROVE SettleInv'
  OBVIOUS
<1>1. /\ UNCHANGED <<retries, updated, failures, skipped, faults, incoming, isReadable>>
      /\ pc # "failed" /\ InLoop /\ InLoop' /\ InHand = {} /\ InHand' = {}
  BY DEF Generate, FlushInv, results, remote, incoming, InLoop, InHand, Receiving
<1>2. PICK taken \in SUBSET Files, given \in SUBSET Files : Asks(taken, given)
  BY GenerateMoves
<1>3. \A f \in Pending : f \in Pending' \/ ~isReadable[f]
  BY <1>1, <1>2 DEF Pending, Asks, Answered
<1>4. \A f : Settled(f)' = Settled(f) /\ Members(retries') = Members(retries)
  BY <1>1 DEF Settled
<1> QED  BY <1>1, <1>3, <1>4 DEF SettleInv

(* A file that is not answered is passed over. *)
LEMMA RemoteReadSettle == TypeInv /\ AttemptInv /\ SettleInv /\ RemoteRead => SettleInv'
<1> SUFFICES ASSUME TypeInv, AttemptInv, SettleInv, RemoteRead PROVE SettleInv'
  OBVIOUS
<1>1. UNCHANGED <<pc, current, queue, i, retries, updated, failures, isReadable>>
  BY DEF RemoteRead, loop, receiving, results
<1>2. UNCHANGED <<Waiting, InHand, Members(retries), Members(updated)>> /\ InLoop' = InLoop
  BY <1>1 DEF Waiting, InHand, InLoop, Receiving
<1>3. skipped \subseteq skipped' /\ faults \subseteq faults'
  BY DEF RemoteRead, remote
<1>4. \A f : Settled(f) => Settled(f)'
  BY <1>1, <1>3 DEF Settled
<1>5. ASSUME InLoop PROVE \A f \in Pending : f \in Pending' \/ Settled(f)'
  <2>1. PICK taken \in SUBSET Files, given \in SUBSET Files : Answers(taken, given)
    BY <1>5, RemoteReadMoves
  <2> QED  BY <1>2, <2>1 DEF Pending, Answers, Settled
<1> QED  BY <1>1, <1>2, <1>4, <1>5 DEF SettleInv

(* When a phase ends, what is not settled has failed, and is pending again or
   has failed twice. *)
LEMMA ReadIndexSettle == TypeInv /\ FlushInv /\ AttemptInv /\ SettleInv /\ ReadIndex => SettleInv'
<1> SUFFICES ASSUME TypeInv, FlushInv, AttemptInv, SettleInv, ReadIndex PROVE SettleInv'
  OBVIOUS
<1>1. UNCHANGED <<updated, failures, skipped, faults, isReadable>> /\ InLoop /\ pc # "failed"
  BY DEF ReadIndex, results, remote, InLoop
<1>2. \A f : Settled(f)' = Settled(f)
  BY <1>1 DEF Settled
<1>3. CASE Head(inPipe).type = "done"
  <2>1. EndPhase /\ Pending = {} /\ Waiting' = Members(retries)
    BY <1>3, EndPhaseMoves
  <2>2. Attempts /\ phase \in {0, 1} /\ retries \in Seq(Files)
    BY <1>1 DEF AttemptInv, TypeInv, TypeOK
  <2>3. ASSUME NEW f \in Members(retries) PROVE Settled(f) \/ (InLoop' /\ f \in Waiting')
    <3>1. CASE phase = 0
      <4>1. retries # <<>>
        BY <2>3, EmptySeq DEF Members
      <4>2. pc' = "generate"
        BY <2>1, <3>1, <4>1 DEF EndPhase, MorePhases
      <4> QED  BY <2>1, <4>2 DEF InLoop
    <3>2. CASE phase = 1
      BY <2>2, <3>2 DEF Attempts, Settled
    <3> QED  BY <2>2, <3>1, <3>2
  <2> QED  BY <1>1, <1>2, <2>1, <2>3 DEF SettleInv, Pending
<1>4. CASE Head(inPipe).type = "index"
  <2>1. /\ Answered = Answered' \cup {current'}
        /\ InHand = {} /\ InHand' = {current'} /\ outgoing' = outgoing
        /\ UNCHANGED <<queue, i, retries>> /\ pc' = "header"
    BY <1>4, ReadIndexMoves DEF loop
  <2>2. UNCHANGED <<Waiting, Asked, Members(retries)>> /\ InLoop'
    BY <2>1 DEF Waiting, Asked, InLoop
  <2>3. Pending' = Pending
    BY <2>1, <2>2 DEF Pending
  <2> QED  BY <1>1, <1>2, <2>2, <2>3 DEF SettleInv
<1> QED  BY <1>3, <1>4 DEF ReadIndex

(* A file that has been received is updated or has failed. *)
LEMMA ReceiveSettle ==
  ASSUME TypeInv, CountInv, ReplyInv, SoundInv, AttemptInv, SettleInv,
         ReceiveHeader \/ ReceiveToken \/ ReceiveDigest
  PROVE  SettleInv'
<1>1. /\ Answered' = Answered /\ outgoing' = outgoing
      /\ Waiting' = Waiting /\ InHand = {current}
      /\ UNCHANGED <<phase, faults>>
  BY ReceiveMoves
<1>2. UNCHANGED <<skipped, isReadable>> /\ InLoop /\ pc # "failed"
  BY DEF ReceiveHeader, ReceiveToken, ReceiveDigest, remote, InLoop
<1>3. Asked' = Asked
  BY <1>1 DEF Asked
<1>4. CASE ReceiveHeader \/ ReceiveToken
  <2>1. /\ UNCHANGED <<retries, updated, failures>>
        /\ pc' = "failed" \/ (InLoop' /\ InHand' = InHand)
    BY <1>4 DEF ReceiveHeader, ReceiveToken, loop, results, InLoop, InHand, Receiving
  <2>2. pc' # "failed" => Pending' = Pending
    BY <1>1, <1>3, <2>1 DEF Pending
  <2>3. \A f : Settled(f)' = Settled(f)
    BY <1>1, <1>2, <2>1 DEF Settled
  <2> QED  BY <1>2, <2>1, <2>2, <2>3 DEF SettleInv
<1>5. CASE ReceiveDigest
  <2>1. pc' = "generate" /\ (Succeeds \/ Fails)
    BY <1>5, ReceiveDigestMoves
  <2>2. /\ retries \in Seq(Files) /\ updated \in Seq(Files) /\ current \in Files
        /\ failures \in [Files -> Nat]
    BY DEF TypeInv, TypeOK
  <2>3. InLoop'
    BY <2>1 DEF InLoop
  <2>4. Pending \subseteq Pending' \cup {current}
    BY <1>1, <1>3 DEF Pending
  <2>5. Attempts /\ Apart
    BY <1>2 DEF AttemptInv
  <2>6. CASE Succeeds
    <3>1. Members(updated') = Members(updated) \cup {current} /\ UNCHANGED <<retries, failures>>
      BY <2>2, <2>6, MembersAppend DEF Succeeds
    <3>2. \A f : (Settled(f) \/ f = current) => Settled(f)'
      BY <1>1, <1>2, <3>1 DEF Settled
    <3> QED  BY <1>2, <2>3, <2>4, <3>1, <3>2 DEF SettleInv
  <2>7. CASE Fails
    <3>1. Members(retries') = Members(retries) \cup {current} /\ updated' = updated
      BY <2>2, <2>7, MembersAppend DEF Fails
    <3>2. ASSUME NEW f \in Files, Settled(f) PROVE Settled(f)' \/ f \in Members(retries')
      <4>1. CASE f = current
        BY <3>1, <4>1
      <4>2. CASE f # current
        <5>1. failures'[f] = failures[f]
          BY <2>2, <2>7, <4>2 DEF Fails
        <5> QED  BY <1>1, <1>2, <3>1, <3>2, <5>1 DEF Settled
      <4> QED  BY <4>1, <4>2
    <3>3. Members(Queue) \subseteq Files
      BY DownloadAssumption, ElementOfSeq DEF Members
    <3> QED  BY <1>2, <2>3, <2>4, <3>1, <3>2, <3>3 DEF SettleInv
  <2> QED  BY <2>1, <2>6, <2>7
<1> QED  BY <1>4, <1>5

(* The other steps settle nothing, and lose no file either. *)
LEMMA OthersSettle ==
  ASSUME TypeInv, SettleInv,
         \/ TryFlush \/ Poll \/ Abort \/ Finish \/ FinalFlush \/ RemoteWrite \/ UserChange
         \/ UNCHANGED vars
  PROVE  SettleInv'
<1>1. /\ UNCHANGED <<retries, updated, failures, skipped, faults, isReadable>>
      /\ \/ UNCHANGED <<incoming, outgoing, Waiting, InHand>> /\ InLoop' = InLoop
         \/ pc' = "failed"
         \/ ~InLoop /\ ~InLoop'
  BY OthersMoves
<1>2. \A f : Settled(f)' = Settled(f)
  BY <1>1 DEF Settled
<1>3. pc = "failed" => pc' = "failed"
  BY DEF TryFlush, Poll, Abort, Finish, FinalFlush, RemoteWrite, UserChange, vars,
         DownloadAssumption
<1>4. CASE UNCHANGED <<incoming, outgoing, Waiting, InHand>> /\ InLoop' = InLoop
  <2>1. Pending' = Pending
    BY <1>4 DEF Pending, Asked, Answered
  <2> QED  BY <1>1, <1>2, <1>3, <1>4, <2>1 DEF SettleInv
<1>5. CASE pc' = "failed"
  BY <1>5 DEF SettleInv
<1>6. CASE ~InLoop /\ ~InLoop'
  BY <1>1, <1>2, <1>3, <1>6 DEF SettleInv
<1> QED  BY <1>1, <1>4, <1>5, <1>6

(* No file of the queue is lost. *)
LEMMA SettleIsInvariant == Spec => []SettleInv
<1>1. ASSUME TypeInv, FlushInv, FlushInv', CountInv, ReplyInv, SoundInv, AttemptInv, SettleInv,
             [Next]_vars
      PROVE  SettleInv'
  <2>1. CASE Generate
    BY <1>1, <2>1, GenerateSettle
  <2>2. CASE RemoteRead
    BY <1>1, <2>2, RemoteReadSettle
  <2>3. CASE ReadIndex
    BY <1>1, <2>3, ReadIndexSettle
  <2>4. CASE ReceiveHeader \/ ReceiveToken \/ ReceiveDigest
    BY <1>1, <2>4, ReceiveSettle
  <2>5. CASE \/ TryFlush \/ Poll \/ Abort \/ Finish \/ FinalFlush \/ RemoteWrite \/ UserChange
             \/ UNCHANGED vars
    BY <1>1, <2>5, OthersSettle
  <2> QED  BY <1>1, <2>1, <2>2, <2>3, <2>4, <2>5 DEF Next, Thread
<1> QED  BY <1>1, InitSettle, TypeIsInvariant, FlushIsInvariant, ReplyIsInvariant, AttemptIsInvariant,
            PTL DEF Spec

(* When the transfer is over every readable file of the queue has been updated,
   once, or was passed over, or has failed twice because the remote sender had a
   read error. *)
THEOREM EveryFileAccounted == Spec => []Accounted
<1>1. ASSUME TypeInv, AttemptInv, SettleInv PROVE Accounted
  <2>1. updated \in Seq(Files) /\ Len(updated) \in Nat /\ Distinct(updated)
    BY <1>1, LenProperties DEF TypeInv, TypeOK, AttemptInv
  <2>2. ASSUME NEW f \in Files
        PROVE  Cardinality({k \in DOMAIN updated : updated[k] = f}) <= 1
    <3> DEFINE places == {k \in DOMAIN updated : updated[k] = f}
    <3>1. \A j, k \in places : j = k
      BY <2>1 DEF Distinct
    <3>2. CASE places = {}
      BY <3>2, FS_EmptySet
    <3>3. CASE places # {}
      <4>1. PICK k : k \in places
        BY <3>3
      <4>2. places = {k}
        BY <3>1, <4>1
      <4> QED  BY <4>2, FS_Singleton
    <3> QED  BY <3>2, <3>3
  <2>3. ASSUME pc = "stopped", NEW k \in DOMAIN Queue, isReadable[Queue[k]]
        PROVE  \/ Queue[k] \in skipped
               \/ failures[Queue[k]] = 2 /\ Queue[k] \in faults
               \/ \E j \in DOMAIN updated : updated[j] = Queue[k]
    <3>1. Queue[k] \in Members(Queue)
      BY <2>3, DownloadAssumption, LenProperties DEF Members
    <3>2. ~InLoop /\ pc # "failed"
      BY <2>3 DEF InLoop
    <3>3. Settled(Queue[k])
      BY <1>1, <2>3, <3>1, <3>2 DEF SettleInv
    <3> QED  BY <2>1, <3>3 DEF Settled, Members
  <2> QED  BY <2>2, <2>3 DEF Accounted
<1> QED  BY <1>1, TypeIsInvariant, AttemptIsInvariant, SettleIsInvariant, PTL

(* A file that is reported as updated, and one that is the remote one with its
   time, or is excused. *)
Updated(f) == f \in Members(updated)
Current(f) ==
  \/ f \in PreEpoch \cup unmoved \cup unnoticed
  \/ local[f] = "new" /\ mtime[f] = "current"

(* A file that is current when it is reported stays so: nothing is received
   into it again, and no failed attempt takes its place. *)
LEMMA NextUpdated ==
  ASSUME TypeInv, CountInv, ReplyInv, AttemptInv, [Next]_vars,
         NEW f \in Files, Updated(f) => Current(f)
  PROVE  (Updated(f) => Current(f))'
<1>1. /\ local \in [Files -> Contents] /\ mtime \in [Files -> {"older", "current", "unset"}]
      /\ updated \in Seq(Files) /\ current \in Files
  BY DEF TypeInv, TypeOK
<1>2. ASSUME Receiving PROVE ~Updated(current)
  <2>1. Apart /\ current \in InHand
    BY <1>2 DEF AttemptInv, InLoop, Receiving, InHand
  <2> QED  BY <2>1 DEF Apart, Updated
<1>3. ASSUME UNCHANGED <<updated, local, mtime, unmoved, unnoticed>>
      PROVE  (Updated(f) => Current(f))'
  BY <1>3 DEF Updated, Current
<1>4. ASSUME UNCHANGED updated, Receiving, unnoticed \subseteq unnoticed',
             NEW complete \in BOOLEAN, NEW content, Keep(current, complete, content)
      PROVE  (Updated(f) => Current(f))'
  <2>1. Updated(f)' = Updated(f)
    BY <1>4 DEF Updated
  <2>2. /\ f # current => local'[f] = local[f] /\ mtime'[f] = mtime[f]
        /\ unmoved \subseteq unmoved'
    BY <1>1, <1>4, KeepLeaves
  <2> QED  BY <1>2, <1>4, <2>1, <2>2 DEF Current
<1>5. CASE ReceiveHeader
  <2>1. /\ UNCHANGED disk \/ Keep(current, FALSE, "partial")
        /\ UNCHANGED <<updated, unnoticed>> /\ Receiving
    BY <1>5 DEF ReceiveHeader, Receiving, results
  <2> QED  BY <1>3, <1>4, <2>1 DEF disk
<1>6. CASE Abort
  <2>1. UNCHANGED <<updated, unnoticed>>
    BY <1>6 DEF Abort, results
  <2>2. UNCHANGED disk \/ (Receiving /\ Keep(current, FALSE, temporary))
    BY <1>6 DEF Abort, Receiving
  <2> QED  BY <1>3, <1>4, <2>1, <2>2 DEF disk
<1>7. CASE ReceiveDigest
  <2>1. PICK passes \in BOOLEAN, content \in {"partial", "new", "wrong"} :
          /\ updated' = IF passes THEN Append(updated, current) ELSE updated
          /\ unnoticed \subseteq unnoticed'
          /\ passes => content = "new" \/ current \in unnoticed'
          /\ Keep(current, passes, content)
    BY <1>7, ReceiveDigestKeeps
  <2>2. Receiving
    BY <1>7 DEF ReceiveDigest, Receiving
  <2>3. CASE ~passes
    BY <1>4, <2>1, <2>2, <2>3
  <2>4. CASE passes
    <3>1. Updated(f)' => Updated(f) \/ f = current
      BY <1>1, <2>1, <2>4, MembersAppend DEF Updated
    <3>2. Keep(current, TRUE, content)
      BY <2>1, <2>4
    <3>3. /\ \A g \in Files \ {current} : local'[g] = local[g] /\ mtime'[g] = mtime[g]
          /\ unmoved \subseteq unmoved'
          /\ \/ current \in PreEpoch \cup unmoved'
             \/ local'[current] = content /\ mtime'[current] = "current"
      BY <1>1, <3>2, KeepLeaves
    <3>4. CASE f = current
      BY <2>1, <2>4, <3>3, <3>4 DEF Current
    <3>5. CASE f # current
      BY <2>1, <3>1, <3>3, <3>5 DEF Current
    <3> QED  BY <3>4, <3>5
  <2> QED  BY <2>3, <2>4
<1>8. CASE UserChange
  <2>1. PICK g \in Files :
          /\ local[g] \in {"old", "edited"}
          /\ \/ /\ local' = [local EXCEPT ![g] = Edited(local[g])]
                /\ mtime' = [mtime EXCEPT ![g] = "current"]
             \/ local' = [local EXCEPT ![g] = "absent"] /\ UNCHANGED <<mtime, oldFile>>
    BY <1>8 DEF UserChange
  <2>2. UNCHANGED <<updated, unmoved, unnoticed>>
    BY <1>8 DEF UserChange, results
  <2>3. local[f] = "new" => f # g
    BY <2>1
  <2>4. f # g => local'[f] = local[f] /\ mtime'[f] = mtime[f]
    BY <1>1, <2>1
  <2> QED  BY <2>2, <2>3, <2>4 DEF Updated, Current
<1>9. CASE \/ Generate \/ TryFlush \/ Poll \/ ReadIndex \/ ReceiveToken \/ Finish \/ FinalFlush
           \/ RemoteRead \/ RemoteWrite \/ UNCHANGED vars
  <2>1. UNCHANGED <<local, mtime, unmoved, unstamped, unnoticed>>
    BY <1>9, OthersKeepDisk
  <2>2. UNCHANGED updated
    BY <1>9 DEF Generate, TryFlush, Poll, ReadIndex, ReceiveToken, Finish, FinalFlush,
                RemoteRead, RemoteWrite, vars, results
  <2> QED  BY <1>3, <2>1, <2>2
<1> QED  BY <1>5, <1>6, <1>7, <1>8, <1>9 DEF Next, Thread

(* Every file that is reported as updated is the remote one, with its time,
   whatever may fail, unless it is excused. *)
THEOREM UpdatedStaysCurrent == Spec => []UpdatedIsCurrent
<1> DEFINE I == \A f \in Files : Updated(f) => Current(f)
<1>1. Init => I
  BY EmptySeq DEF Init, Updated, Members
<1>2. TypeInv /\ CountInv /\ ReplyInv /\ AttemptInv /\ I /\ [Next]_vars => I'
  BY NextUpdated
<1>3. TypeInv /\ I => UpdatedIsCurrent
  <2> SUFFICES ASSUME TypeInv, I, NEW k \in DOMAIN updated
               PROVE  Current(updated[k])
    BY DEF UpdatedIsCurrent, Current
  <2>1. updated \in Seq(Files) /\ Len(updated) \in Nat
    BY LenProperties DEF TypeInv, TypeOK
  <2>2. k \in 1 .. Len(updated)
    BY <2>1
  <2>3. updated[k] \in Files
    BY <2>1, <2>2, ElementOfSeq
  <2> QED  BY <2>2, <2>3 DEF Updated, Members
<1> HIDE DEF I
<1> QED  BY <1>1, <1>2, <1>3, TypeIsInvariant, ReplyIsInvariant, AttemptIsInvariant, PTL DEF Spec
=============================================================================
