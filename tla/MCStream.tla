------------------------------ MODULE MCStream ------------------------------
(* Stream on small numbers: a flag of two bytes, a write buffer of three and
   pipes that hold less than one whole message. *)
EXTENDS Stream

mcMessages == {<<"data", 2>>, <<"info", 0>>, <<"deleted", 1>>, <<"error", 0>>}
=============================================================================
