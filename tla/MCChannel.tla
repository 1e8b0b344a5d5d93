----------------------------- MODULE MCChannel -----------------------------
(* Calls that do not fit into the channel, and a timeout that the third failed
   wait in a row runs into. *)
EXTENDS Channel
=============================================================================
