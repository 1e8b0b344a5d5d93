------------------------------ MODULE MCClient ------------------------------
(* Three operations over lists of one and two servers, with room for two
   sockets besides descriptor 0, so that a number that was closed is given to
   another thread and one is wanted when none is left. *)
EXTENDS Client

mcServerLists == {<<"up">>, <<"silent", "up">>, <<"refusing", "up">>, <<"silent", "silent">>}
=============================================================================
