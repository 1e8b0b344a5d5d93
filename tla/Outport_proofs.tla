--------------------------- MODULE Outport_proofs ---------------------------
(***************************************************************************)
(* For any number of slots and any capacity a delegate begins with, an      *)
(* emission calls every slot once and in order, and follows no bad pointer, *)
(* as long as the application is not careless.                              *)
(***************************************************************************)
EXTENDS Outport, TLAPS

Careful == "careless" \notin Disciplines

(* d_invoker fits what d_inport points to whenever that is anything, and the
   array of a delegate holds the slots in the order they were connected. *)
Fits ==
  /\ connected \in Seq(Slots)
  /\ inport \in Slots \cup {"none", "delegate"}
  /\ inport = "none" => connected = <<>>
  /\ inport \in Slots => connected = <<inport>> /\ invoker = "single"
  /\ inport = "delegate" => invoker = "multi"
  /\ discipline \in {"asks first", "stays connected"}
  /\ invoker \in {"default", "single", "multi"}
  /\ discipline = "stays connected" /\ inport = "none" => invoker = "default"

InOrder ==
  inport = "delegate" =>
    /\ size = Len(connected) /\ size >= 2
    /\ capacity \in Nat /\ size <= capacity
    /\ \A k \in 0 .. size - 1 : elements[k] = connected[k + 1]

(* The loop of an emission is where the slots called so far say. *)
Loop ==
  /\ called \in Seq(Slots) /\ expected \in Seq(Slots)
  /\ running \in {"none", "single", "multi"}
  /\ running # "multi" => called = expected
  /\ running = "multi" =>
       /\ inport = "delegate" /\ expected = connected
       /\ at \in Nat /\ at < size /\ Len(called) = at + 1
       /\ \A k \in 1 .. at + 1 : called[k] = expected[k]

OutportInv == Fits /\ InOrder /\ Loop /\ ~crashed

LEMMA InitInv == Careful /\ Init => OutportInv
<1> SUFFICES ASSUME Careful, Init PROVE OutportInv
  OBVIOUS
<1>1. /\ inport = "none" /\ invoker = "default" /\ connected = <<>>
      /\ running = "none" /\ called = <<>> /\ expected = <<>>
  BY DEF Init
<1>2. discipline \in {"asks first", "stays connected"}
  BY OutportAssumption DEF Init, Careful
<1>3. "none" \notin Slots
  BY OutportAssumption
<1>4. Fits
  <2>1. connected \in Seq(Slots)
    BY <1>1
  <2>2. inport \notin Slots /\ inport \in Slots \cup {"none", "delegate"}
    BY <1>1, <1>3
  <2>3. invoker \in {"default", "single", "multi"} /\ inport # "delegate"
    BY <1>1
  <2> QED BY <1>1, <1>2, <2>1, <2>2, <2>3, Zenon DEF Fits
<1>5. InOrder
  BY <1>1 DEF InOrder
<1>6. Loop
  BY <1>1 DEF Loop
<1>7. ~crashed
  BY Zenon DEF Init
<1> QED BY <1>4, <1>5, <1>6, <1>7 DEF OutportInv

(* push_back keeps what is there and adds the slot behind it. *)
LEMMA PushBack ==
  ASSUME NEW list, NEW room, NEW n, NEW slot, room \in Nat \ {0}, n \in 0 .. room
  PROVE  /\ PushedBack(list, n, room, slot)[n] = slot
         /\ \A k \in 0 .. n - 1 : PushedBack(list, n, room, slot)[k] = list[k]
         /\ RoomFor(n, room) \in Nat /\ n + 1 <= RoomFor(n, room)
<1>1. RoomFor(n, room) \in Nat /\ n + 1 <= RoomFor(n, room)
  BY DEF RoomFor
<1>2. n \in 0 .. RoomFor(n, room) - 1 /\ \A k \in 0 .. n - 1 : k \in 0 .. RoomFor(n, room) - 1 /\ k # n
  BY <1>1
<1>3. \A k \in 0 .. n - 1 : k < room
  OBVIOUS
<1> QED BY <1>1, <1>2, <1>3 DEF PushedBack, Moved, Indices

LEMMA Appended ==
  ASSUME NEW S, NEW s \in Seq(S), NEW e \in S
  PROVE  /\ Append(s, e) \in Seq(S) /\ Len(Append(s, e)) = Len(s) + 1
         /\ Append(s, e)[Len(s) + 1] = e
         /\ \A k \in 1 .. Len(s) : Append(s, e)[k] = s[k]
  OBVIOUS

LEMMA ConnectInv ==
  ASSUME OutportInv, NEW slot \in Slots, Connect(slot)
  PROVE  OutportInv'
<1>1. Fits /\ InOrder /\ Loop /\ ~crashed
  BY DEF OutportInv
<1>2. /\ connected' = Append(connected, slot)
      /\ expected' = IF running = "multi" THEN Append(expected, slot) ELSE expected
      /\ running' = running /\ at' = at /\ called' = called /\ discipline' = discipline
  BY DEF Connect
<1>3. ~crashed'
  BY <1>1, Zenon DEF Connect
<1>4. connected \in Seq(Slots)
  BY <1>1 DEF Fits
<1>5. /\ connected' \in Seq(Slots) /\ Len(connected') = Len(connected) + 1
      /\ connected'[Len(connected) + 1] = slot
      /\ \A k \in 1 .. Len(connected) : connected'[k] = connected[k]
  BY <1>2, <1>4, Appended
<1>6. CASE ConnectFirst(slot)
  <2>1. inport = "none" /\ inport' = slot /\ invoker' = "single"
    BY <1>6 DEF ConnectFirst
  <2>2. slot # "none" /\ slot # "delegate"
    BY OutportAssumption
  <2>3. connected' = <<slot>>
    <3>1. connected = <<>>
      BY <1>1, <2>1 DEF Fits
    <3> QED BY <1>2, <3>1
  <2>4. Fits'
    BY <1>1, <1>2, <1>5, <2>1, <2>2, <2>3 DEF Fits
  <2>5. InOrder'
    BY <2>1, <2>2 DEF InOrder
  <2>6. Loop'
    BY <1>1, <1>2, <2>1 DEF Loop
  <2> QED BY <1>3, <2>4, <2>5, <2>6 DEF OutportInv
<1>7. CASE ConnectSecond(slot)
  <2> DEFINE first == PushedBack(Garbage(FirstCapacity), 0, FirstCapacity, inport)
  <2> HIDE DEF first
  <2>1. /\ inport \in Slots /\ inport' = "delegate" /\ invoker' = "multi"
        /\ elements' = PushedBack(first, 1, FirstCapacity, slot)
        /\ size' = 2 /\ capacity' = FirstCapacity
    BY <1>7 DEF ConnectSecond, first
  <2>2. FirstCapacity \in Nat \ {0, 1} /\ inport # "none" /\ inport # "delegate"
        /\ "delegate" \notin Slots
    BY <2>1, OutportAssumption
  <2>3. first[0] = inport
    <3>1. FirstCapacity \in Nat \ {0} /\ 0 \in 0 .. FirstCapacity
      BY <2>2
    <3>2. PushedBack(Garbage(FirstCapacity), 0, FirstCapacity, inport)[0] = inport
      BY <3>1, PushBack
    <3> QED BY <3>2 DEF first
  <2>4. 0 \in 0 .. 1 - 1 /\ 1 \in 0 .. FirstCapacity /\ FirstCapacity \in Nat \ {0}
    BY <2>2
  <2>5. elements'[1] = slot /\ elements'[0] = inport
    BY <2>1, <2>3, <2>4, PushBack
  <2>6. connected = <<inport>>
    BY <1>1, <2>1 DEF Fits
  <2>7. Len(connected') = 2 /\ connected'[1] = inport /\ connected'[2] = slot
    BY <2>6, <1>5
  <2>8. \A k \in 0 .. 1 : elements'[k] = connected'[k + 1]
    BY <2>5, <2>7
  <2>9. InOrder'
    BY <2>1, <2>2, <2>7, <2>8 DEF InOrder
  <2>10. Fits'
    BY <1>1, <1>2, <1>5, <2>1, <2>2 DEF Fits
  <2>11. Loop'
    BY <1>1, <1>2, <2>1, <2>2 DEF Loop
  <2> QED BY <1>3, <2>9, <2>10, <2>11 DEF OutportInv
<1>8. CASE ConnectMore(slot)
  <2>1. /\ inport = "delegate" /\ inport' = "delegate" /\ invoker' = "multi"
        /\ elements' = PushedBack(elements, size, capacity, slot)
        /\ size' = size + 1 /\ capacity' = RoomFor(size, capacity)
    BY <1>8 DEF ConnectMore
  <2>2. "delegate" \notin Slots
    BY OutportAssumption
  <2>3. /\ size \in Nat /\ size = Len(connected) /\ size >= 2
        /\ capacity \in Nat \ {0} /\ size \in 0 .. capacity
    BY <1>1, <1>4, <2>1 DEF InOrder
  <2>4. \A k \in 0 .. size - 1 : elements[k] = connected[k + 1]
    BY <1>1, <2>1 DEF InOrder
  <2>5. /\ elements'[size] = slot /\ \A k \in 0 .. size - 1 : elements'[k] = elements[k]
        /\ capacity' \in Nat /\ size' <= capacity'
    <3>1. capacity \in Nat \ {0} /\ size \in 0 .. capacity
      BY <2>3
    <3>2. PushedBack(elements, size, capacity, slot)[size] = slot
      BY <3>1, PushBack
    <3>3. \A k \in 0 .. size - 1 : PushedBack(elements, size, capacity, slot)[k] = elements[k]
      BY <3>1, PushBack
    <3>4. RoomFor(size, capacity) \in Nat /\ size + 1 <= RoomFor(size, capacity)
      BY <3>1, PushBack
    <3> QED BY <2>1, <3>2, <3>3, <3>4
  <2>6. \A k \in 0 .. size' - 1 : elements'[k] = connected'[k + 1]
    <3> SUFFICES ASSUME NEW k \in 0 .. size PROVE elements'[k] = connected'[k + 1]
      BY <2>1, <2>3
    <3>1. CASE k = size
      BY <3>1, <1>5, <2>3, <2>5
    <3>2. CASE k # size
      <4>1. k \in 0 .. size - 1 /\ k + 1 \in 1 .. Len(connected)
        BY <3>2, <2>3
      <4> QED BY <4>1, <1>5, <2>4, <2>5
    <3> QED BY <3>1, <3>2
  <2>7. InOrder'
    BY <1>5, <2>1, <2>3, <2>5, <2>6 DEF InOrder
  <2>8. Fits'
    BY <1>1, <1>2, <1>5, <2>1, <2>2 DEF Fits
  <2>9. Loop'
    <3>1. CASE running = "multi"
      <4>1. /\ expected = connected /\ expected' = connected' /\ at \in Nat /\ at < size /\ Len(called) = at + 1
            /\ \A k \in 1 .. at + 1 : called[k] = connected[k]
        BY <3>1, <1>1, <1>2 DEF Loop
      <4>2. \A k \in 1 .. at + 1 : called'[k] = expected'[k]
        BY <4>1, <1>2, <1>5, <2>3
      <4>3. at' \in Nat /\ at' < size' /\ Len(called') = at' + 1
        BY <4>1, <1>2, <2>1, <2>3
      <4> QED BY <3>1, <4>1, <4>2, <4>3, <1>1, <1>2, <1>5, <2>1 DEF Loop
    <3>2. CASE running # "multi"
      BY <3>2, <1>1, <1>2 DEF Loop
    <3> QED BY <3>1, <3>2
  <2> QED BY <1>3, <2>7, <2>8, <2>9 DEF OutportInv
<1> QED BY <1>6, <1>7, <1>8 DEF Connect

LEMMA DisconnectInv == ASSUME OutportInv, Disconnect PROVE OutportInv'
<1>1. Fits /\ InOrder /\ Loop /\ ~crashed
  BY DEF OutportInv
<1>2. discipline = "asks first" /\ running # "multi"
  BY <1>1 DEF Fits, Disconnect, MayDisconnect
<1>3. /\ inport' = "none" /\ connected' = <<>> /\ invoker' = invoker /\ discipline' = discipline
      /\ running' = running /\ called' = called /\ expected' = expected
  BY <1>2 DEF Disconnect
<1>4. ~crashed'
  BY <1>1, Zenon DEF Disconnect
<1>5. Fits'
  <2>1. "none" \notin Slots
    BY OutportAssumption
  <2>2. connected' \in Seq(Slots)
    BY <1>3
  <2>3. inport' \notin Slots /\ inport' \in Slots \cup {"none", "delegate"} /\ inport' # "delegate"
    BY <1>3, <2>1
  <2>4. discipline' = "asks first" /\ "asks first" # "stays connected"
    BY <1>2, <1>3
  <2>5. invoker' \in {"default", "single", "multi"}
    BY <1>1, <1>3 DEF Fits
  <2> QED BY <1>3, <2>2, <2>3, <2>4, <2>5, Zenon DEF Fits
<1>6. InOrder'
  BY <1>3 DEF InOrder
<1>7. Loop'
  BY <1>1, <1>2, <1>3 DEF Loop
<1> QED BY <1>4, <1>5, <1>6, <1>7 DEF OutportInv

(* What leaves the list of the slots alone keeps what is said of it. *)
LEMMA SameList ==
  ASSUME Fits, InOrder, UNCHANGED <<inport, invoker, delegate, connected, discipline>>
  PROVE  Fits' /\ InOrder'
  BY DEF Fits, InOrder, delegate

LEMMA EmitInv == ASSUME OutportInv, Emit PROVE OutportInv'
<1>1. Fits /\ InOrder /\ Loop /\ ~crashed
  BY DEF OutportInv
<1>2. /\ inport' = inport /\ connected' = connected /\ size' = size
      /\ UNCHANGED <<inport, invoker, delegate, connected, discipline>>
  BY DEF Emit, delegate
<1>3. Fits' /\ InOrder'
  BY <1>1, <1>2, SameList
<1>4. running = "none"
  BY DEF Emit
<1>5. invoker # "default" => inport # "none"
  BY <1>1 DEF Fits, Emit, Asks
<1>6. CASE EmitToNobody
  <2>1. running' = "none" /\ called' = <<>> /\ expected' = <<>>
    BY <1>4, <1>6 DEF EmitToNobody
  <2>2. ~crashed'
    BY <1>1, <1>6, Zenon DEF EmitToNobody
  <2> QED BY <1>3, <2>1, <2>2 DEF OutportInv, Loop
<1>7. CASE EmitToOne
  <2>1. inport \in Slots /\ connected = <<inport>>
    BY <1>1, <1>5, <1>7 DEF EmitToOne, Fits
  <2>2. running' = "single" /\ called' = <<inport>> /\ expected' = <<inport>>
    BY <2>1, <1>7 DEF EmitToOne, Call
  <2>3. ~crashed'
    BY <1>1, <1>7, <2>1, Zenon DEF EmitToOne
  <2> QED BY <1>3, <2>1, <2>2, <2>3 DEF OutportInv, Loop
<1>8. CASE EmitToMany
  <2>1. inport = "delegate"
    BY <1>1, <1>5, <1>8 DEF EmitToMany, Fits
  <2>2. connected \in Seq(Slots)
    BY <1>1 DEF Fits
  <2>3. size = Len(connected) /\ size >= 2 /\ elements[0] = connected[1]
    BY <1>1, <2>1, <2>2 DEF InOrder
  <2>4. connected[1] \in Slots
    BY <2>2, <2>3
  <2>5. running' = "multi" /\ at' = 0 /\ called' = <<connected[1]>> /\ expected' = connected
    BY <2>1, <2>3, <1>8 DEF EmitToMany, Call
  <2>6. ~crashed'
    BY <1>1, <1>8, <2>1, Zenon DEF EmitToMany
  <2>7. Loop'
    BY <1>2, <2>1, <2>2, <2>3, <2>4, <2>5 DEF Loop
  <2> QED BY <1>3, <2>6, <2>7 DEF OutportInv
<1> QED BY <1>6, <1>7, <1>8 DEF Emit

LEMMA SlotReturnsInv == ASSUME OutportInv, SlotReturns PROVE OutportInv'
<1>1. Fits /\ InOrder /\ Loop /\ ~crashed
  BY DEF OutportInv
<1>2. /\ inport' = inport /\ connected' = connected /\ size' = size /\ expected' = expected
      /\ UNCHANGED <<inport, invoker, delegate, connected, discipline>>
  BY DEF SlotReturns, delegate
<1>3. Fits' /\ InOrder'
  BY <1>1, <1>2, SameList
<1>4. CASE SingleReturns
  <2>1. running = "single" /\ running' = "none" /\ called' = called
    BY <1>4 DEF SingleReturns
  <2>2. ~crashed'
    BY <1>1, <1>4, Zenon DEF SingleReturns
  <2>3. Loop'
    BY <1>1, <1>2, <2>1 DEF Loop
  <2> QED BY <1>3, <2>2, <2>3 DEF OutportInv
<1>5. CASE MultiReturns
  <2>1. running = "multi"
    BY <1>1, <1>5 DEF MultiReturns, Loop
  <2>2. ~crashed'
    <3>1. crashed' <=> running = "dangling"
      BY <1>5, Zenon DEF MultiReturns
    <3>2. running # "dangling"
      BY <2>1
    <3> QED BY <3>1, <3>2, Zenon
  <2>3. connected \in Seq(Slots) /\ called \in Seq(Slots) /\ expected \in Seq(Slots)
    BY <1>1 DEF Fits, Loop
  <2>4. /\ inport = "delegate" /\ expected = connected /\ at \in Nat /\ at < size /\ Len(called) = at + 1
        /\ \A k \in 1 .. at + 1 : called[k] = connected[k]
    BY <1>1, <2>1 DEF Loop
  <2>5. size = Len(connected) /\ \A k \in 0 .. size - 1 : elements[k] = connected[k + 1]
    BY <1>1, <2>4 DEF InOrder
  <2>6. CASE at + 1 < size
    <3>1. at + 1 \in 0 .. size - 1 /\ at + 2 \in 1 .. Len(connected)
      BY <2>3, <2>4, <2>5, <2>6
    <3>2. elements[at + 1] = connected[at + 2] /\ connected[at + 2] \in Slots
      BY <2>3, <2>4, <2>5, <3>1
    <3>3. running' = "multi" /\ at' = at + 1 /\ called' = Append(called, connected[at + 2])
      BY <2>1, <2>6, <3>2, <1>5 DEF MultiReturns, Call
    <3>4. /\ called' \in Seq(Slots) /\ Len(called') = at + 2
          /\ called'[at + 2] = connected[at + 2] /\ \A k \in 1 .. at + 1 : called'[k] = called[k]
      BY <2>3, <2>4, <3>2, <3>3, Appended
    <3>5. \A k \in 1 .. at + 2 : called'[k] = connected[k]
      BY <2>4, <3>4
    <3>6. Loop'
      BY <1>2, <2>3, <2>4, <2>6, <3>3, <3>4, <3>5 DEF Loop
    <3> QED BY <1>3, <2>2, <3>6 DEF OutportInv
  <2>7. CASE ~(at + 1 < size)
    <3>1. running' = "none" /\ called' = called
      BY <2>7, <1>5 DEF MultiReturns
    <3>2. Len(called) = Len(expected) /\ \A k \in 1 .. Len(called) : called[k] = expected[k]
      BY <2>3, <2>4, <2>5, <2>7
    <3>3. called = expected
      BY <2>3, <3>2
    <3>4. Loop'
      BY <1>2, <2>3, <3>1, <3>3 DEF Loop
    <3> QED BY <1>3, <2>2, <3>4 DEF OutportInv
  <2> QED BY <2>6, <2>7
<1> QED BY <1>4, <1>5 DEF SlotReturns

LEMMA SlotThrowsInv == ASSUME OutportInv, SlotThrows PROVE OutportInv'
<1>1. Fits /\ InOrder /\ Loop /\ ~crashed
  BY DEF OutportInv
<1>2. /\ running' = "none" /\ expected' = called /\ called' = called
      /\ UNCHANGED <<inport, invoker, delegate, connected, discipline>>
  BY DEF SlotThrows
<1>3. ~crashed'
  BY <1>1, Zenon DEF SlotThrows
<1>4. Loop'
  BY <1>1, <1>2 DEF Loop
<1> QED BY <1>1, <1>2, <1>3, <1>4, SameList DEF OutportInv

LEMMA NextInv == OutportInv /\ [Next]_vars => OutportInv'
<1> SUFFICES ASSUME OutportInv, [Next]_vars PROVE OutportInv'
  OBVIOUS
<1>1. CASE UNCHANGED vars
  <2>1. Fits /\ InOrder /\ Loop /\ ~crashed
    BY DEF OutportInv
  <2>2. UNCHANGED <<inport, invoker, delegate, connected, discipline>> /\ UNCHANGED emission
        /\ inport' = inport /\ connected' = connected /\ size' = size
    BY <1>1 DEF vars, delegate
  <2>3. ~crashed'
    BY <1>1, <2>1, Zenon DEF vars
  <2>4. Loop'
    BY <2>1, <2>2 DEF Loop, emission
  <2> QED BY <2>1, <2>2, <2>3, <2>4, SameList DEF OutportInv
<1> QED BY <1>1, ConnectInv, DisconnectInv, EmitInv, SlotReturnsInv, SlotThrowsInv, Zenon DEF Next

THEOREM OutportIsInvariant == Careful /\ Spec => []OutportInv
BY InitInv, NextInv, PTL DEF Spec

(* An emission calls the slots that are connected, each once and in order,
   whatever they connect meanwhile and however often the array moves. *)
THEOREM EmissionCallsEverySlot == Careful /\ Spec => []EmissionIsExact
<1>1. OutportInv => EmissionIsExact
  <2> SUFFICES ASSUME OutportInv PROVE EmissionIsExact
    OBVIOUS
  <2>1. CASE running = "multi"
    BY <2>1 DEF OutportInv, InOrder, Loop, EmissionIsExact
  <2>2. CASE running # "multi"
    BY <2>2 DEF OutportInv, Loop, EmissionIsExact
  <2> QED BY <2>1, <2>2
<1> QED BY <1>1, OutportIsInvariant, PTL

(* No null or deleted pointer is followed. *)
THEOREM PointersAreGood == Careful /\ Spec => []NoBadUse
<1>1. OutportInv => NoBadUse
  BY DEF OutportInv, NoBadUse
<1> QED BY <1>1, OutportIsInvariant, PTL
=============================================================================
