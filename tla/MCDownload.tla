----------------------------- MODULE MCDownload -----------------------------
(* Two files, requests of two units and pipes of one: neither a request nor a
   reply fits into the network.  The calls on the first file may fail at any
   time, and the process may be killed there; the second file has a negative
   time. *)
EXTENDS Download

mcQueue == <<1, 2>>
mcCanFail == {"write", "rename", "utime", "kill"} \X {1}
(* Digests of which some have a zero byte, where strncmp stops. *)
mcDigests == {<<1, 1>>, <<1, 2>>, <<0, 1>>, <<0, 2>>}
=============================================================================
