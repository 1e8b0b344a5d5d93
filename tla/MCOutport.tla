------------------------------ MODULE MCOutport ------------------------------
(* Two slots, and a delegate that begins with room for two, so that it grows
   twice within the five connections that are allowed. *)
EXTENDS Outport

mcDisciplines == {"asks first", "stays connected"}
=============================================================================
