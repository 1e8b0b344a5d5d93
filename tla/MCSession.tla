----------------------------- MODULE MCSession -----------------------------
(* Three files whose sizes tell every set of them by its sum, one that may have
   grown when it is read and one that may have been emptied; all operations, the
   daemon's and ssh's negotiation, and remote sides that are too old, the same,
   or newer. *)
EXTENDS Session

mcSizes == <<1, 2, 4>>
mcLengths == <<{1, 9}, {2}, {4, 0}>>
mcOperations ==
  [op : {"upload", "list", "download"}, deletion : BOOLEAN]
    \cup [op : {"remove", "mkdir", "link", "listModules"}, deletion : {FALSE}]
mcConnections ==
  [daemon : {FALSE}, preferred : {29, 30}, version : 28 .. 31]
    \cup [daemon : {TRUE}, preferred : {30}, version : 28 .. 31]
=============================================================================
