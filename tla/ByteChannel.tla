---------------------------- MODULE ByteChannel ----------------------------
(***************************************************************************)
(* What a byte stream promises to the two ends of an rsync connection,     *)
(* said without buffers, frames or pipes: the bytes that were accepted are *)
(* delivered once each and in order.  Bytes are numbered in the order in   *)
(* which they are accepted, so the number of a byte is its identity.       *)
(* Stream is shown to implement one such channel in each direction.        *)
(***************************************************************************)
EXTENDS Naturals, Sequences

VARIABLES
  accepted,    \* how many bytes the sending side has handed over
  delivered    \* the bytes the receiving side has been given, in order

vars == <<accepted, delivered>>

Init == accepted = 0 /\ delivered = <<>>

Accept ==
  /\ accepted' \in Nat
  /\ accepted' > accepted
  /\ UNCHANGED delivered

(* Any number of the oldest bytes still under way arrive together. *)
Deliver ==
  /\ Len(delivered') > Len(delivered)
  /\ Len(delivered') <= accepted
  /\ delivered' = [k \in 1 .. Len(delivered') |-> k]
  /\ UNCHANGED accepted

Next == Accept \/ Deliver

Spec == Init /\ [][Next]_vars
============================================================================
