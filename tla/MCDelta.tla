------------------------------- MODULE MCDelta -------------------------------
(* Blocks of two bytes.  Modulo 2 the bytes 0 and 2 are the same for the weak
   checksum; files of up to seven bytes make the chunk slide and refill. *)
EXTENDS Delta

Upto(S, k) == UNION {[1 .. m -> S] : m \in 0 .. k}

mcOldFiles == Upto({0, 1}, 4) \cup [1 .. 2 -> {0, 1, 2}] \cup [1 .. 5 -> {0, 1}]
mcNewFiles == Upto({0, 1, 2}, 4) \cup Upto({0, 1}, 7)
==============================================================================
