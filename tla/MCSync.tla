------------------------------- MODULE MCSync -------------------------------
(* A name, the same name with a character below the slash, files in either of
   them as a directory, one of them a directory too, with a file in it; and the
   directory of the program itself (4 is .acrosync), with a file in it.  One of
   the files in the first directory has a name that listDirectory passes over,
   too. *)
EXTENDS Sync

File(t) == [kind |-> "file", time |-> t]
Node(k) == [kind |-> k, time |-> 0]

mcTop == {<<3>>, <<3, 1>>}
mcDeep == {<<3, 1, 2, 3, 2, 1>>}
mcNamed == mcTop \cup {<<3, 2, 3>>, <<3, 2, 1>>, <<3, 1, 2, 3>>} \cup mcDeep
mcInternal == {<<4, 2, 3>>}
mcUnlisted == {<<3, 2, 1>>, <<4>>} \cup mcInternal
mcPaths == mcNamed \cup {<<4>>} \cup mcInternal

mcNamedTrees(top, inside, deep) ==
  {tree \in [mcNamed -> {None, Node("dir")} \cup top \cup inside] :
     \A p \in mcNamed :
       tree[p] \in {None} \cup (IF p \in mcTop THEN top
                                ELSE IF tree[Parent(p)].kind # "dir" THEN {}
                                ELSE IF p \in mcDeep THEN deep
                                ELSE inside \cup IF p = <<3, 1, 2, 3>> THEN {Node("dir")} ELSE {})}

mcWith(tree, program, file) ==
  [p \in mcPaths |-> IF p = <<4>> THEN program ELSE IF p \in mcInternal THEN file ELSE tree[p]]

(* The program's directory only beside trees without the second name. *)
mcTrees(named, file) ==
  {mcWith(tree, None, None) : tree \in named} \cup
  {mcWith(tree, Node("dir"), f) : tree \in {t \in named : t[<<3, 1>>] = None}, f \in {None, file}}

mcRemoteTrees ==
  mcTrees(mcNamedTrees({File(2), Node("dir"), Node("link")}, {File(2), Node("special")}, {File(2)}),
          File(2))
mcLocalTrees ==
  mcTrees(mcNamedTrees({File(0), File(1), Node("dir"), Node("link")}, {File(0), File(1)}, {File(0)}),
          File(0))

mcInvalid == mcDeep
mcSelections == {Everything, {<<3>>, <<3, 2, 1>>}}
=============================================================================
