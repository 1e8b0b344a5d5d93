------------------------------- MODULE Outport -------------------------------
(***************************************************************************)
(* block::out (block/block_out.h): the signals by which the library calls   *)
(* the application back.  Slots are connected to an outport one by one; an  *)
(* emission calls them.  The header spells every operation out for up to    *)
(* eight arguments; here they are one, and arguments and values are left    *)
(* out.                                                                     *)
(*                                                                          *)
(* A slot is code of the application and may itself connect or disconnect.  *)
(***************************************************************************)
EXTENDS Integers, Sequences

CONSTANTS
  Slots,          \* member functions of the application's objects
  FirstCapacity,  \* of an InportDelegate
  MaxConnected,   \* bound: connections made before the next disconnect
  Disciplines     \* how an application goes about an outport, see Init

ASSUME OutportAssumption ==
  /\ FirstCapacity \in Nat \ {0, 1} /\ MaxConnected \in Nat
  /\ Disciplines \subseteq {"asks first", "stays connected", "careless"}
  /\ {"none", "delegate", "nothing"} \cap Slots = {}

VARIABLES
  inport,      \* what d_inport points to: nothing, an inport, or a delegate
  invoker,     \* d_invoker: "default", "single" or "multi"
  elements, size, capacity,  \* d_elements, d_size and d_capacity of the delegate
  running,     \* the loop of the emission under way: "none", "single", "multi",
               \* or "dangling" when its delegate has been deleted
  at,          \* which element it calls
  called,      \* the slots called by the last emission, in order
  expected,    \* those that it has to call (read by properties only)
  connected,   \* slots in the order they were connected (likewise)
  crashed,     \* whether a null or deleted pointer was used
  discipline

delegate == <<elements, size, capacity>>
emission == <<running, at, called, expected>>
vars == <<inport, invoker, delegate, emission, connected, crashed, discipline>>
-----------------------------------------------------------------------------
Nothing == "nothing"

(* The library asks isConnected() before an emission, but for listModules
   (client 1583), which relies on an outport that was never connected doing
   nothing. *)
Init ==
  /\ inport = "none" /\ invoker = "default"
  /\ elements = <<>> /\ size = 0 /\ capacity = 0
  /\ running = "none" /\ at = 0 /\ called = <<>> /\ expected = <<>>
  /\ connected = <<>> /\ crashed = FALSE
  /\ discipline \in Disciplines
-----------------------------------------------------------------------------
(* InportDelegate *)
Indices(n) == 0 .. n - 1

Garbage(n) == [k \in Indices(n) |-> Nothing]

(* push_back: the new array, twice as long, takes the old one's elements. *)
RoomFor(n, room) == IF n >= room THEN 2 * room ELSE room

MovedShort(list, from, to) == [k \in Indices(to) |-> IF k < from - 1 THEN list[k] ELSE Nothing]
Moved(list, from, to) == [k \in Indices(to) |-> IF k < from THEN list[k] ELSE Nothing]

PushedBack(list, n, room, slot) == [Moved(list, room, RoomFor(n, room)) EXCEPT ![n] = slot]

(* Outport::connect *)
ConnectAgain(slot) ==
  /\ inport = "none"
  /\ inport' = slot /\ invoker' = IF invoker = "default" THEN "single" ELSE invoker
  /\ UNCHANGED delegate

ConnectFirst(slot) ==
  /\ inport = "none"
  /\ inport' = slot /\ invoker' = "single"
  /\ UNCHANGED delegate

ConnectSecond(slot) ==
  /\ inport \in Slots /\ invoker # "multi"
  /\ elements' = PushedBack(PushedBack(Garbage(FirstCapacity), 0, FirstCapacity, inport),
                            1, FirstCapacity, slot)
  /\ size' = 2 /\ capacity' = FirstCapacity
  /\ inport' = "delegate" /\ invoker' = "multi"

ConnectMore(slot) ==
  /\ inport = "delegate" /\ invoker = "multi"
  /\ elements' = PushedBack(elements, size, capacity, slot)
  /\ size' = size + 1 /\ capacity' = RoomFor(size, capacity)
  /\ UNCHANGED <<inport, invoker>>

Connect(slot) ==
  /\ ~crashed /\ Len(connected) < MaxConnected
  /\ ConnectFirst(slot) \/ ConnectSecond(slot) \/ ConnectMore(slot)
  /\ connected' = Append(connected, slot)
  /\ expected' = IF running = "multi" THEN Append(expected, slot) ELSE expected
  /\ UNCHANGED <<running, at, called, crashed, discipline>>

(* Outport::disconnect leaves d_invoker as it is.  Unless it is careless, the
   application does not disconnect the outport from within one of several slots
   that are being called. *)
MayDisconnect ==
  \/ discipline = "asks first" /\ running # "multi"
  \/ discipline = "careless"

Disconnect ==
  /\ ~crashed /\ inport # "none" /\ MayDisconnect
  /\ inport' = "none"
  /\ elements' = <<>> /\ size' = 0 /\ capacity' = 0
  /\ connected' = <<>>
  /\ running' = IF running = "multi" THEN "dangling" ELSE running
  /\ UNCHANGED <<invoker, at, called, expected, crashed, discipline>>
-----------------------------------------------------------------------------
(* operator(): calls what d_invoker says with what d_inport is.  An inport
   calls its slot by an invoker of its own.  Where no slot is connected an
   outport does nothing, or throws if it is to return a value. *)
Call(slots, slot) == Append(slots, slot)

Asks == discipline = "asks first" => inport # "none"

EmitToNobody ==
  /\ invoker = "default"
  /\ called' = <<>> /\ expected' = <<>>
  /\ UNCHANGED <<running, at, crashed>>

EmitToOne ==
  /\ invoker = "single"
  /\ IF inport \in Slots
       THEN /\ running' = "single" /\ called' = Call(<<>>, inport) /\ expected' = connected
            /\ UNCHANGED <<at, crashed>>
       ELSE crashed' = TRUE /\ UNCHANGED emission

EmitToMany ==
  /\ invoker = "multi"
  /\ IF inport = "delegate"
       THEN /\ running' = "multi" /\ at' = 0 /\ called' = Call(<<>>, elements[0]) /\ expected' = connected
            /\ UNCHANGED crashed
       ELSE crashed' = TRUE /\ UNCHANGED emission

Emit ==
  /\ ~crashed /\ running = "none" /\ Asks
  /\ EmitToNobody \/ EmitToOne \/ EmitToMany
  /\ UNCHANGED <<inport, invoker, delegate, connected, discipline>>

(* The slot returns.  The loop of multiInvoker looks at the size anew, and at
   the elements, which may have moved. *)
SingleReturns ==
  /\ running = "single"
  /\ running' = "none"
  /\ UNCHANGED <<at, called, crashed>>

MultiReturns ==
  /\ running \in {"multi", "dangling"}
  /\ crashed' = (running = "dangling")
  /\ IF running = "multi" /\ at + 1 < size
       THEN at' = at + 1 /\ called' = Call(called, elements[at + 1]) /\ UNCHANGED running
       ELSE running' = "none" /\ UNCHANGED <<at, called>>

SlotReturns ==
  /\ ~crashed
  /\ SingleReturns \/ MultiReturns
  /\ UNCHANGED <<inport, invoker, delegate, expected, connected, discipline>>

(* The slot throws, which ends the emission. *)
SlotThrows ==
  /\ ~crashed /\ running # "none"
  /\ running' = "none"
  /\ expected' = called
  /\ UNCHANGED <<inport, invoker, delegate, at, called, connected, crashed, discipline>>
-----------------------------------------------------------------------------
Next ==
  \/ \E slot \in Slots : Connect(slot)
  \/ Disconnect
  \/ Emit \/ SlotReturns \/ SlotThrows

Spec == Init /\ [][Next]_vars
-----------------------------------------------------------------------------
(* An emission calls every slot that was connected when it began, once and in
   the order of the connections; slots that are connected by the slots it calls
   it calls too, provided there was more than one to begin with.  The array may
   move under the loop of multiInvoker meanwhile. *)
EmissionIsExact ==
  /\ Len(called) <= Len(expected)
  /\ \A k \in DOMAIN called : called[k] = expected[k]
  /\ running = "none" => called = expected

(* No null or deleted pointer is followed, although disconnect() leaves
   d_invoker behind, which no longer fits d_inport. *)
NoBadUse == ~crashed
=============================================================================
