----------------------------- MODULE MCThrottle -----------------------------
(* Ticks of half a second and kilobytes of two units.  Writes of half a kilobyte
   and of two and a half, under a limit of one kilobyte in a second, of two, or
   none. *)
EXTENDS Throttle
=============================================================================
