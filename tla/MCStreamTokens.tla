--------------------------- MODULE MCStreamTokens ---------------------------
(***************************************************************************)
(* Stream under the writes of Client::sendFile: the length of a chunk      *)
(* (rsync_client.cpp:1086, 1185, 1194, 1241), an integer of size 1 here,   *)
(* and then the chunk, which may be as long as the write buffer.           *)
(***************************************************************************)
EXTENDS Stream

VARIABLE chunkNext    \* the length of a chunk was the last thing written

TokenInit == Init /\ chunkNext = FALSE

TokenNext ==
  /\ Write \/ WriteAll \/ WriteAllBlocked \/ Remote
  /\ chunkNext' = IF written' = written THEN chunkNext ELSE ~chunkNext
  /\ written' # written /\ ~chunkNext => written' = written + 1

TokenSpec == TokenInit /\ [][TokenNext]_<<vars, chunkNext>>

mcMessages == {<<"data", 1>>}
=============================================================================
