----------------------------- MODULE MCEntries -----------------------------
(* A byte that holds lengths up to 2, so that short paths are long names and
   their common prefixes reach the limit; integers at the edges of the forms
   they are written in. *)
EXTENDS Entries

N(a, b, c, d, e, f, g, h) == <<a, b, c, d, e, f, g, h>>

mcPaths == {<<1>>, <<1, 1, 1, 1>>, <<1, 1, 1, 2>>, <<2, 1>>}
(* 0, 2^23 - 1, 2^23 and 2^47: the least form, its last value, the first with a
   byte more and one with three more. *)
mcSizes == {N(0,0,0,0,0,0,0,0), N(255,255,127,0,0,0,0,0), N(0,0,128,0,0,0,0,0),
            N(0,0,0,0,0,128,0,0)}
(* 1 and 2^31 - 1. *)
mcTimes == {N(1,0,0,0,0,0,0,0), N(255,255,255,127,0,0,0,0)}
mcTargets == {<<1, 2>>}
mcIndices == {0, 1, 253, 254, 32767, 33021, 16777217, INDEX_DONE, -2, -101, -300}
=============================================================================
