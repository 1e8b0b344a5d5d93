----------------------------- MODULE EntryOrder -----------------------------
(***************************************************************************)
(* The two orders of file list entries in rsync/rsync_entry.cpp.  A path is *)
(* a sequence of characters, which are positive numbers; an entry is a      *)
(* record with a path and a kind, and the path of a directory ends with a   *)
(* slash.                                                                   *)
(***************************************************************************)
EXTENDS Naturals, Sequences, FiniteSets

CONSTANT Slash      \* '/'

ASSUME SlashAssumption == Slash \in Nat \ {0}

(* A string, read past its end: the zero that terminates it. *)
CharAt(path, k) == IF k <= Len(path) THEN path[k] ELSE 0

DiffersAt(l, r, k) ==
  /\ CharAt(l, k) # CharAt(r, k)
  /\ \A j \in 1 .. k - 1 : CharAt(l, j) = CharAt(r, j)

FirstDifference(l, r) ==
  CHOOSE k \in 1 .. Len(l) + Len(r) + 1 : DiffersAt(l, r, k)

(* std::string's operator < *)
StringLess(l, r) ==
  /\ l # r
  /\ CharAt(l, FirstDifference(l, r)) < CharAt(r, FirstDifference(l, r))

(* A slash from position k on: something inside a directory, or a directory. *)
Deeper(path, k) == \E j \in k .. Len(path) : path[j] = Slash

(* The path is a directory that ends just before position k. *)
EndsBefore(path, k) == k = Len(path) + 1 /\ k > 1 /\ path[k - 1] = Slash

CompareGlobally(l, r) ==
  /\ l # r
  /\ LET k == FirstDifference(l, r)
     IN  IF CharAt(l, k) < CharAt(r, k)
           THEN EndsBefore(l, k) \/ ~Deeper(l, k) \/ Deeper(r, k)
           ELSE ~EndsBefore(r, k) /\ Deeper(r, k) /\ ~Deeper(l, k)

GloballyLess(l, r) == CompareGlobally(l.path, r.path)

(* In one directory, files come before directories. *)
CompareLocally(l, r) ==
  \/ l.kind # "dir" /\ r.kind = "dir"
  \/ (l.kind = "dir" <=> r.kind = "dir") /\ StringLess(l.path, r.path)

(* std::sort of different entries. *)
Sorted(S, Less(_, _)) ==
  [k \in 1 .. Cardinality(S) |->
     CHOOSE e \in S : Cardinality({f \in S : Less(f, e)}) = k - 1]

IsSorted(list) == \A j, k \in DOMAIN list : j < k => GloballyLess(list[j], list[k])
=============================================================================
