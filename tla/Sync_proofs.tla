---------------------------- MODULE Sync_proofs ----------------------------
(***************************************************************************)
(* Theorems about Sync, for any two trees, any selection and any choice of *)
(* the transfers that fail: the walk lists once and in order what          *)
(* listDirectory does not pass over, the queue is what is needed, the      *)
(* deletion takes what only this side has, the two sides agree at the end  *)
(* but for what is passed over or skipped, and addSizes is exact.  Below   *)
(* them is the theorem that compareGlobally is a strict total order of all *)
(* paths, which is what std::sort and the merge of two lists require.      *)
(*                                                                         *)
(* The walk is an invariant over its stack: whatever a directory on it     *)
(* contains lies behind everything listed so far, and before everything    *)
(* that the directories under it contain.  The merge passes an entry of    *)
(* either list once everything less has been passed, and an entry that is  *)
(* passed is handled: nothing that comes later can undo it.                *)
(*                                                                         *)
(* The last part is about Entries, how such a list and the indices into it *)
(* are sent: every entry and every index is read as it was written, for    *)
(* all values that the protocol can carry.  Each encoding has a lemma that *)
(* says what a reader gets of it, whatever comes after it on the wire      *)
(* (Gives), and WireInv says that what is under way leads from what the    *)
(* reader remembers to what the writer does.                               *)
(***************************************************************************)
EXTENDS Sync, Entries, SequenceTheorems, FiniteSetTheorems, WellFoundedInduction, TLAPS

Path == Seq(Nat \ {0})

(* A path reads as a number at every position, and as zero past its end only. *)
LEMMA CharIsNat ==
  ASSUME NEW p \in Path, NEW k \in Nat \ {0}
  PROVE  CharAt(p, k) \in Nat /\ (CharAt(p, k) = 0 <=> k > Len(p))
BY DEF Path, CharAt

(* Two different paths have a first difference, which FirstDifference finds. *)
LEMMA DifferenceExists ==
  ASSUME NEW l \in Path, NEW r \in Path, l # r
  PROVE  /\ FirstDifference(l, r) \in 1 .. Len(l) + Len(r) + 1
         /\ DiffersAt(l, r, FirstDifference(l, r))
<1> DEFINE N == Len(l) + Len(r) + 1
           P(k) == CharAt(l, k) # CharAt(r, k)
<1>1. \E k \in 1 .. N : P(k)
  <2>1. CASE Len(l) # Len(r)
    <3>1. CASE Len(l) < Len(r)
      <4>1. Len(l) + 1 \in 1 .. N
        BY DEF Path
      <4>2. P(Len(l) + 1)
        BY <3>1, CharIsNat DEF Path
      <4> QED BY <4>1, <4>2
    <3>2. CASE Len(r) < Len(l)
      <4>1. Len(r) + 1 \in 1 .. N
        BY DEF Path
      <4>2. P(Len(r) + 1)
        BY <3>2, CharIsNat DEF Path
      <4> QED BY <4>1, <4>2
    <3> QED BY <2>1, <3>1, <3>2 DEF Path
  <2>2. CASE Len(l) = Len(r)
    <3>1. PICK k \in 1 .. Len(l) : l[k] # r[k]
      BY <2>2 DEF Path
    <3>2. k \in 1 .. N /\ P(k)
      BY <2>2, <3>1 DEF Path, CharAt
    <3> QED BY <3>2
  <2> QED BY <2>1, <2>2
<1>2. PICK k \in 1 .. N : P(k) /\ \A j \in 1 .. k - 1 : ~P(j)
  <2> DEFINE S == {k \in 1 .. N : P(k)}
  <2>1. S \subseteq Nat /\ S # {}
    BY <1>1 DEF Path
  <2>2. PICK k \in S : \A j \in S : ~(<<j, k>> \in OpToRel(<, Nat))
    <3> HIDE DEF S
    <3> QED BY <2>1, WFMin, NatLessThanWellFounded
  <2>4. \A j \in S : ~(j < k)
    <3> TAKE j \in S
    <3>1. j \in Nat /\ k \in Nat
      BY <2>1
    <3> QED BY <2>2, <3>1 DEF OpToRel
  <2>3. \A j \in 1 .. k - 1 : ~P(j)
    BY <2>4 DEF Path
  <2> QED BY <2>2, <2>3
<1> QED BY <1>2 DEF FirstDifference, DiffersAt

(* A first difference is the first difference, whichever way round. *)
LEMMA DifferenceIsUnique ==
  ASSUME NEW l \in Path, NEW r \in Path, NEW k \in Nat \ {0}, DiffersAt(l, r, k)
  PROVE  l # r /\ FirstDifference(l, r) = k
<1>1. l # r
  BY DEF DiffersAt
<1> DEFINE f == FirstDifference(l, r)
<1>2. f \in Nat \ {0} /\ DiffersAt(l, r, f)
  BY <1>1, DifferenceExists DEF Path
<1> HIDE DEF f
<1>3. ~(f < k) /\ ~(k < f)
  BY <1>2 DEF DiffersAt
<1>4. f = k
  BY <1>2, <1>3
<1> QED BY <1>1, <1>4 DEF f

(* What CompareGlobally says of paths that differ first at k. *)
Before(l, r, k) ==
  IF CharAt(l, k) < CharAt(r, k)
    THEN EndsBefore(l, k) \/ ~Deeper(l, k) \/ Deeper(r, k)
    ELSE ~EndsBefore(r, k) /\ Deeper(r, k) /\ ~Deeper(l, k)

(* What the order says of two paths is what Before says of their first
   difference. *)
LEMMA ComparedAtDifference ==
  ASSUME NEW l \in Path, NEW r \in Path, NEW k \in Nat \ {0}, DiffersAt(l, r, k)
  PROVE  CompareGlobally(l, r) <=> Before(l, r, k)
<1>1. l # r /\ FirstDifference(l, r) = k
  BY DifferenceIsUnique
<1> QED BY <1>1 DEF CompareGlobally, Before

(* Neither path ends before the position before their first difference. *)
LEMMA DifferenceIsWithin ==
  ASSUME NEW l \in Path, NEW r \in Path, NEW k \in Nat \ {0}, DiffersAt(l, r, k)
  PROVE  k <= Len(l) + 1 /\ k <= Len(r) + 1
<1> DEFINE j == k - 1
<1>1. CASE k = 1
  BY <1>1 DEF Path
<1>2. CASE k > 1
  <2>1. j \in Nat \ {0} /\ CharAt(l, j) = CharAt(r, j)
    BY <1>2 DEF DiffersAt
  <2>2. CharAt(l, j) = 0 <=> j > Len(l)
    BY <2>1, CharIsNat
  <2>3. CharAt(r, j) = 0 <=> j > Len(r)
    BY <2>1, CharIsNat
  <2>4. CharAt(l, k) # CharAt(r, k)
    BY DEF DiffersAt
  <2>5. (CharAt(l, k) = 0 <=> k > Len(l)) /\ (CharAt(r, k) = 0 <=> k > Len(r))
    BY CharIsNat
  <2>6. Len(l) \in Nat /\ Len(r) \in Nat
    BY DEF Path
  <2> QED BY <1>2, <2>1, <2>2, <2>3, <2>4, <2>5, <2>6
<1> QED BY <1>1, <1>2

(* Whether a path ends before k, by its characters; it has no slash from there
   on if it does. *)
LEMMA EndsByCharacters ==
  ASSUME NEW p \in Path, NEW k \in Nat \ {0}, k <= Len(p) + 1
  PROVE  /\ EndsBefore(p, k) <=> CharAt(p, k) = 0 /\ k > 1 /\ CharAt(p, k - 1) = Slash
         /\ CharAt(p, k) = 0 => ~Deeper(p, k)
<1>1. CharAt(p, k) = 0 <=> k > Len(p)
  BY CharIsNat
<1>2. Len(p) \in Nat
  BY DEF Path
<1>3. k > 1 /\ k = Len(p) + 1 => CharAt(p, k - 1) = p[k - 1]
  BY <1>2 DEF CharAt
<1> QED BY <1>1, <1>2, <1>3 DEF EndsBefore, Deeper

(* A path is deeper at a position if it is deeper at a later one or a slash
   stands between them. *)
LEMMA DeeperEarlier ==
  ASSUME NEW p \in Path, NEW k \in Nat \ {0}, NEW m \in Nat \ {0}, k <= m
  PROVE  Deeper(p, k) <=> Deeper(p, m) \/ \E j \in k .. m - 1 : CharAt(p, j) = Slash
<1>1. Slash # 0
  BY SlashAssumption
<1>2. Len(p) \in Nat
  BY DEF Path
<1>3. ASSUME NEW j \in k .. m - 1, CharAt(p, j) = Slash
      PROVE  j \in k .. Len(p) /\ p[j] = Slash
  BY <1>1, <1>2, <1>3 DEF CharAt
<1>4. Deeper(p, k) => Deeper(p, m) \/ \E j \in k .. m - 1 : CharAt(p, j) = Slash
  BY <1>2 DEF Deeper, CharAt
<1>5. Deeper(p, m) => Deeper(p, k)
  BY <1>2 DEF Deeper
<1> QED BY <1>3, <1>4, <1>5 DEF Deeper

(* Two paths that agree before m are both deeper at an earlier k, or as deep at
   k as they are at m. *)
LEMMA AgreeOnDepth ==
  ASSUME NEW l \in Path, NEW r \in Path, NEW k \in Nat \ {0}, NEW m \in Nat \ {0}, k <= m,
         \A j \in 1 .. m - 1 : CharAt(l, j) = CharAt(r, j)
  PROVE  \/ Deeper(l, k) /\ Deeper(r, k)
         \/ (Deeper(l, k) <=> Deeper(l, m)) /\ (Deeper(r, k) <=> Deeper(r, m))
<1>1. CASE \E j \in k .. m - 1 : CharAt(l, j) = Slash
  <2>1. PICK j \in k .. m - 1 : CharAt(l, j) = Slash
    BY <1>1
  <2>2. CharAt(r, j) = Slash
    BY <2>1
  <2> QED BY <2>1, <2>2, DeeperEarlier
<1>2. CASE ~\E j \in k .. m - 1 : CharAt(l, j) = Slash
  <2>1. ~\E j \in k .. m - 1 : CharAt(r, j) = Slash
    BY <1>2
  <2> QED BY <1>2, <2>1, DeeperEarlier
<1> QED BY <1>1, <1>2

(* What comes first is no deeper than what comes after it, where they differ
   and before. *)
LEMMA FirstIsNoDeeper ==
  ASSUME NEW l \in Path, NEW r \in Path, NEW m \in Nat \ {0}, DiffersAt(l, r, m),
         CompareGlobally(l, r), NEW k \in Nat \ {0}, k <= m, Deeper(l, k)
  PROVE  Deeper(r, k)
<1>1. Before(l, r, m)
  BY ComparedAtDifference
<1>2. m <= Len(l) + 1
  BY DifferenceIsWithin
<1>3. EndsBefore(l, m) => ~Deeper(l, m)
  BY <1>2, EndsByCharacters
<1>4. Deeper(l, m) => Deeper(r, m)
  BY <1>1, <1>3 DEF Before
<1>5. \A j \in 1 .. m - 1 : CharAt(l, j) = CharAt(r, j)
  BY DEF DiffersAt
<1>6. \/ Deeper(l, k) /\ Deeper(r, k)
      \/ (Deeper(l, k) <=> Deeper(l, m)) /\ (Deeper(r, k) <=> Deeper(r, m))
  BY <1>5, AgreeOnDepth
<1> QED BY <1>4, <1>6

(* A path that has no slash from where another has one comes first. *)
LEMMA ShallowFirst ==
  ASSUME NEW l \in Path, NEW r \in Path, NEW k \in Nat \ {0},
         \A j \in 1 .. k - 1 : CharAt(l, j) = CharAt(r, j),
         ~Deeper(l, k), Deeper(r, k)
  PROVE  CompareGlobally(l, r)
<1>1. l # r
  OBVIOUS
<1>2. PICK m \in Nat \ {0} : DiffersAt(l, r, m)
  BY <1>1, DifferenceExists DEF Path
<1>3. k <= m
  BY <1>2 DEF DiffersAt
<1>4. ~Deeper(l, m) /\ Deeper(r, m)
  <2>1. \A j \in 1 .. m - 1 : CharAt(l, j) = CharAt(r, j)
    BY <1>2 DEF DiffersAt
  <2> QED BY <1>3, <2>1, AgreeOnDepth
<1>5. m <= Len(r) + 1
  BY <1>2, DifferenceIsWithin
<1>6. ~EndsBefore(r, m)
  BY <1>4, <1>5, EndsByCharacters
<1>7. Before(l, r, m)
  BY <1>4, <1>6 DEF Before
<1> QED BY <1>2, <1>7, ComparedAtDifference
-----------------------------------------------------------------------------
(* No path comes before itself. *)
THEOREM Irreflexive == \A p \in Path : ~CompareGlobally(p, p)
BY DEF CompareGlobally

(* Of two different paths exactly one comes first, so the merge, which takes
   two entries for the same when neither comes first, never takes two different
   paths for the same. *)
THEOREM Total ==
  ASSUME NEW l \in Path, NEW r \in Path, l # r
  PROVE  CompareGlobally(r, l) <=> ~CompareGlobally(l, r)
<1>1. PICK k \in Nat \ {0} : DiffersAt(l, r, k)
  BY DifferenceExists DEF Path
<1>2. DiffersAt(r, l, k)
  BY <1>1 DEF DiffersAt
<1>3. (CompareGlobally(l, r) <=> Before(l, r, k)) /\ (CompareGlobally(r, l) <=> Before(r, l, k))
  BY <1>1, <1>2, ComparedAtDifference
<1>4. CharAt(l, k) \in Nat /\ CharAt(r, k) \in Nat /\ CharAt(l, k) # CharAt(r, k)
  BY <1>1, CharIsNat DEF DiffersAt
<1>5. CharAt(l, k) < CharAt(r, k) <=> ~(CharAt(r, k) < CharAt(l, k))
  BY <1>4
<1>6. Before(r, l, k) <=> ~Before(l, r, k)
  BY <1>5 DEF Before
<1> QED BY <1>3, <1>6

(* The order is transitive: together with the other two theorems, what
   std::sort requires of a comparison. *)
THEOREM Transitive ==
  ASSUME NEW a \in Path, NEW b \in Path, NEW c \in Path,
         CompareGlobally(a, b), CompareGlobally(b, c)
  PROVE  CompareGlobally(a, c)
<1>1. a # b /\ b # c
  BY DEF CompareGlobally
<1>2. PICK k \in Nat \ {0} : DiffersAt(a, b, k)
  BY <1>1, DifferenceExists DEF Path
<1>3. PICK m \in Nat \ {0} : DiffersAt(b, c, m)
  BY <1>1, DifferenceExists DEF Path
<1>4. Before(a, b, k) /\ Before(b, c, m)
  BY <1>2, <1>3, ComparedAtDifference
<1>5. /\ CharAt(a, k) \in Nat /\ CharAt(b, k) \in Nat /\ CharAt(c, k) \in Nat
      /\ CharAt(a, m) \in Nat /\ CharAt(b, m) \in Nat /\ CharAt(c, m) \in Nat
  BY CharIsNat
<1>6. CASE k < m
  <2>1. DiffersAt(a, c, k)
    BY <1>2, <1>3, <1>6 DEF DiffersAt
  <2>2. Deeper(b, k) => Deeper(c, k)
    BY <1>3, <1>6, FirstIsNoDeeper
  <2>3. CharAt(b, k) = CharAt(c, k)
    BY <1>3, <1>6 DEF DiffersAt
  <2>4. EndsBefore(c, k) => EndsBefore(b, k)
    <3>1. k > 1 => CharAt(b, k - 1) = CharAt(c, k - 1)
      BY <1>3, <1>6 DEF DiffersAt
    <3>2. k <= Len(b) + 1 /\ k <= Len(c) + 1
      BY <1>2, <2>1, DifferenceIsWithin
    <3> QED BY <2>3, <3>1, <3>2, EndsByCharacters
  <2>5. Before(a, c, k)
    BY <1>4, <2>2, <2>3, <2>4 DEF Before
  <2> QED BY <2>1, <2>5, ComparedAtDifference
<1>7. CASE m < k
  <2>1. DiffersAt(a, c, m)
    BY <1>2, <1>3, <1>7 DEF DiffersAt
  <2>2. Deeper(a, m) => Deeper(b, m)
    BY <1>2, <1>7, FirstIsNoDeeper
  <2>3. CharAt(a, m) = CharAt(b, m)
    BY <1>2, <1>7 DEF DiffersAt
  <2>4. EndsBefore(b, m) => EndsBefore(a, m)
    <3>1. m > 1 => CharAt(a, m - 1) = CharAt(b, m - 1)
      BY <1>2, <1>7 DEF DiffersAt
    <3>2. m <= Len(a) + 1 /\ m <= Len(b) + 1
      BY <1>3, <2>1, DifferenceIsWithin
    <3> QED BY <2>3, <3>1, <3>2, EndsByCharacters
  <2>5. Before(a, c, m)
    BY <1>4, <2>2, <2>3, <2>4 DEF Before
  <2> QED BY <2>1, <2>5, ComparedAtDifference
<1>8. CASE k = m
  <2>1. \A j \in 1 .. k - 1 : CharAt(a, j) = CharAt(b, j) /\ CharAt(b, j) = CharAt(c, j)
    BY <1>2, <1>3, <1>8 DEF DiffersAt
  <2>2. k <= Len(a) + 1 /\ k <= Len(b) + 1 /\ k <= Len(c) + 1
    BY <1>2, <1>3, <1>8, DifferenceIsWithin
  <2> DEFINE slash == k > 1 /\ CharAt(b, k - 1) = Slash
  <2>3. /\ EndsBefore(a, k) <=> CharAt(a, k) = 0 /\ slash
        /\ EndsBefore(b, k) <=> CharAt(b, k) = 0 /\ slash
        /\ EndsBefore(c, k) <=> CharAt(c, k) = 0 /\ slash
    <3>1. k > 1 => CharAt(a, k - 1) = CharAt(b, k - 1) /\ CharAt(c, k - 1) = CharAt(b, k - 1)
      BY <2>1
    <3> QED BY <2>2, <3>1, EndsByCharacters
  <2>4. /\ CharAt(a, k) = 0 => ~Deeper(a, k)
        /\ CharAt(b, k) = 0 => ~Deeper(b, k)
        /\ CharAt(c, k) = 0 => ~Deeper(c, k)
    BY <2>2, EndsByCharacters
  <2>5. CharAt(a, k) # CharAt(b, k) /\ CharAt(b, k) # CharAt(c, k)
    BY <1>2, <1>3, <1>8 DEF DiffersAt
  <2> HIDE DEF slash
  <2>6. CASE CharAt(a, k) = CharAt(c, k)
    <3>1. ~Deeper(a, k) /\ Deeper(c, k)
      BY <1>4, <1>5, <1>8, <2>3, <2>4, <2>5, <2>6 DEF Before
    <3>2. \A j \in 1 .. k - 1 : CharAt(a, j) = CharAt(c, j)
      BY <2>1
    <3> QED BY <3>1, <3>2, ShallowFirst
  <2>7. CASE CharAt(a, k) # CharAt(c, k)
    <3>1. DiffersAt(a, c, k)
      BY <2>1, <2>7 DEF DiffersAt
    <3>2. Before(a, c, k)
      BY <1>4, <1>5, <1>8, <2>3, <2>4, <2>5, <2>7 DEF Before
    <3> QED BY <3>1, <3>2, ComparedAtDifference
  <2> QED BY <2>6, <2>7
<1> QED BY <1>6, <1>7, <1>8
-----------------------------------------------------------------------------
(* An entry of the directory whose path, slash included, is the first n
   characters: after them there is no slash but the last of a directory. *)
EntryBehind(e, n) ==
  /\ e.path \in Path /\ Len(e.path) > n
  /\ \A j \in n + 1 .. Len(e.path) : e.path[j] = Slash <=> j = Len(e.path) /\ e.kind = "dir"

(* Where it differs from another one, it has a slash to come if and only if it
   is a directory. *)
LEMMA DeeperIsDirectory ==
  ASSUME NEW n \in Nat, NEW l, NEW r, EntryBehind(l, n), EntryBehind(r, n),
         NEW k \in Nat \ {0}, k > n, DiffersAt(l.path, r.path, k)
  PROVE  (Deeper(l.path, k) <=> l.kind = "dir") /\ ~EndsBefore(l.path, k)
<1>1. l.path \in Path /\ r.path \in Path
  BY DEF EntryBehind
<1>2. k <= Len(l.path) + 1 /\ k <= Len(r.path) + 1
  BY <1>1, DifferenceIsWithin
<1>3. CASE k <= Len(l.path)
  <2>1. PICK p : p = l.path
    OBVIOUS
  <2>2. p \in Path /\ Len(p) > n /\ k \in n + 1 .. Len(p) /\ Len(p) \in Nat
    BY <1>1, <1>3, <2>1 DEF EntryBehind, Path
  <2>3. \A j \in n + 1 .. Len(p) : p[j] = Slash <=> j = Len(p) /\ l.kind = "dir"
    BY <2>1, Zenon DEF EntryBehind
  <2>4. Deeper(p, k) <=> l.kind = "dir"
    BY <2>2, <2>3 DEF Deeper
  <2>5. ~EndsBefore(p, k)
    BY <2>2 DEF EndsBefore
  <2> QED BY <2>1, <2>4, <2>5
<1>4. CASE k = Len(l.path) + 1
  <2> DEFINE j == Len(l.path)
  <2>1. j \in n + 1 .. Len(l.path) /\ j \in n + 1 .. Len(r.path) /\ j \in 1 .. k - 1
    BY <1>1, <1>2, <1>4 DEF EntryBehind, Path
  <2>2. CharAt(l.path, j) = l.path[j] /\ CharAt(r.path, j) = r.path[j]
    BY <2>1 DEF CharAt
  <2>3. l.path[j] = r.path[j]
    BY <2>1, <2>2 DEF DiffersAt
  <2>4. l.path[j] = Slash => Len(r.path) = j
    BY <2>1, <2>3 DEF EntryBehind
  <2>5. Len(r.path) # j
    <3>1. CharAt(l.path, k) = 0 /\ (CharAt(r.path, k) = 0 <=> k > Len(r.path))
      BY <1>1, <1>4, CharIsNat DEF Path
    <3>2. CharAt(l.path, k) # CharAt(r.path, k)
      BY DEF DiffersAt
    <3> QED BY <1>1, <1>4, <3>1, <3>2 DEF Path
  <2>6. l.path[j] # Slash /\ l.kind # "dir"
    BY <2>1, <2>4, <2>5 DEF EntryBehind
  <2>7. Len(l.path) \in Nat
    BY <1>1 DEF Path
  <2>8. ~Deeper(l.path, k)
    BY <1>4, <2>7 DEF Deeper
  <2>9. ~EndsBefore(l.path, k)
    BY <1>4, <2>6, <2>7 DEF EndsBefore
  <2> QED BY <2>6, <2>8, <2>9
<1>5. k <= Len(l.path) \/ k = Len(l.path) + 1
  <2>1. Len(l.path) \in Nat
    BY <1>1 DEF Path
  <2> QED BY <1>2, <2>1
<1> QED BY <1>3, <1>4, <1>5

(* In one directory compareLocally, by which listDirectory sorts, is the order
   of compareGlobally, by which the lists are merged. *)
THEOREM LocallyIsGlobally ==
  ASSUME NEW n \in Nat, NEW l, NEW r, EntryBehind(l, n), EntryBehind(r, n),
         \A j \in 1 .. n : l.path[j] = r.path[j]
  PROVE  l.path # r.path => (CompareLocally(l, r) <=> GloballyLess(l, r))
<1> SUFFICES ASSUME l.path # r.path
             PROVE  CompareLocally(l, r) <=> GloballyLess(l, r)
  OBVIOUS
<1>1. l.path \in Path /\ r.path \in Path /\ Len(l.path) > n /\ Len(r.path) > n
  BY DEF EntryBehind
<1>2. PICK k \in Nat \ {0} : DiffersAt(l.path, r.path, k)
  BY <1>1, DifferenceExists DEF Path
<1>3. k > n
  <2>1. \A j \in 1 .. n : CharAt(l.path, j) = CharAt(r.path, j)
    BY <1>1 DEF CharAt, Path
  <2> QED BY <1>2, <2>1 DEF DiffersAt
<1>4. DiffersAt(r.path, l.path, k)
  BY <1>2 DEF DiffersAt
<1>5. /\ (Deeper(l.path, k) <=> l.kind = "dir") /\ ~EndsBefore(l.path, k)
      /\ (Deeper(r.path, k) <=> r.kind = "dir") /\ ~EndsBefore(r.path, k)
  BY <1>2, <1>3, <1>4, DeeperIsDirectory
<1>6. FirstDifference(l.path, r.path) = k
  BY <1>1, <1>2, DifferenceIsUnique
<1>7. CompareGlobally(l.path, r.path) <=> Before(l.path, r.path, k)
  BY <1>1, <1>2, ComparedAtDifference
<1>8. StringLess(l.path, r.path) <=> CharAt(l.path, k) < CharAt(r.path, k)
  BY <1>6 DEF StringLess
<1> QED BY <1>5, <1>7, <1>8 DEF CompareLocally, GloballyLess, Before

(* A set of numbers that is not empty has a least one. *)
LEMMA LeastNumber ==
  ASSUME NEW T, T \subseteq Nat, T # {}
  PROVE  \E x \in T : \A y \in T : x <= y
<1> DEFINE R == OpToRel(<, Nat)
<1>1. IsWellFoundedOn(R, Nat)
  BY NatLessThanWellFounded
<1>2. PICK x \in T : \A y \in T : <<y, x>> \notin R
  <2> HIDE DEF R
  <2> QED  BY <1>1, WFMin
<1>3. \A y \in T : <<y, x>> \in R <=> y < x
  BY DEF OpToRel
<1>4. \A y \in T : ~(y < x)
  <2> HIDE DEF R
  <2> QED  BY <1>2, <1>3
<1>5. \A y \in T : y \in Nat
  OBVIOUS
<1> HIDE DEF R
<1> QED  BY <1>4, <1>5

(* Induction up to n, over the set of the numbers for which something holds. *)
LEMMA InductionUpTo ==
  ASSUME NEW n \in Nat, NEW T, 0 \in T, \A k \in 1 .. n : k - 1 \in T => k \in T
  PROVE  0 .. n \subseteq T
<1> DEFINE D == {k \in 0 .. n : k \notin T}
<1> SUFFICES ASSUME D # {} PROVE FALSE
  OBVIOUS
<1>1. PICK x \in D : \A y \in D : x <= y
  <2>1. D \subseteq Nat
    OBVIOUS
  <2> HIDE DEF D
  <2> QED  BY <2>1, LeastNumber
<1>2. x \in 1 .. n /\ x - 1 \in 0 .. n /\ ~(x <= x - 1)
  OBVIOUS
<1>3. x - 1 \notin D
  <2> HIDE DEF D
  <2> QED  BY <1>1, <1>2
<1>4. x - 1 \in T
  BY <1>2, <1>3
<1> QED  BY <1>2, <1>4
-----------------------------------------------------------------------------
(* A path is another one, or starts with it. *)
Leads(d, p) == Len(d) <= Len(p) /\ \A j \in 1 .. Len(d) : p[j] = d[j]

(* A path of a directory, or the empty one that leads to everything. *)
IsPrefix(d) == d \in Path /\ (d # <<>> => d[Len(d)] = Slash)

(* What starts with a path and is no longer than it is the path itself. *)
LEMMA LeadsOrEqual ==
  ASSUME NEW d \in Path, NEW p \in Path, Leads(d, p), Len(p) <= Len(d)
  PROVE  p = d
<1>1. Len(d) \in Nat /\ Len(p) \in Nat
  BY DEF Path
<1>2. Len(p) = Len(d)
  BY <1>1 DEF Leads
<1>3. \A j \in 1 .. Len(p) : p[j] = d[j]
  BY <1>2 DEF Leads
<1> QED BY <1>2, <1>3, SeqEqual DEF Path

(* What leads to a path that leads to another leads to that one. *)
LEMMA LeadsTransitive ==
  ASSUME NEW c \in Path, NEW d \in Path, NEW p \in Path, Leads(c, d), Leads(d, p)
  PROVE  Leads(c, p)
<1>1. Len(c) \in Nat /\ Len(d) \in Nat /\ Len(p) \in Nat
  BY DEF Path
<1> QED BY <1>1 DEF Leads

(* Of two paths that lead to the same one, the shorter one leads to the other. *)
LEMMA LeadsNested ==
  ASSUME NEW c \in Path, NEW d \in Path, NEW p \in Path, Leads(c, p), Leads(d, p),
         Len(c) <= Len(d)
  PROVE  Leads(c, d)
<1>1. Len(c) \in Nat /\ Len(d) \in Nat /\ Len(p) \in Nat
  BY DEF Path
<1> QED BY <1>1 DEF Leads

(* A directory comes before what is in it. *)
LEMMA ContentsAfter ==
  ASSUME NEW d \in Path, NEW p \in Path, IsPrefix(d), d # <<>>, Leads(d, p), p # d
  PROVE  CompareGlobally(d, p)
<1>1. Len(d) \in Nat /\ Len(p) \in Nat /\ Len(d) > 0
  BY DEF Path
<1>2. Len(d) < Len(p)
  BY <1>1, LeadsOrEqual
<1> DEFINE k == Len(d) + 1
<1>3. k \in Nat \ {0} /\ k > 1
  BY <1>1
<1>4. CharAt(d, k) = 0 /\ CharAt(p, k) \in Nat /\ CharAt(p, k) # 0
  BY <1>1, <1>2, CharIsNat
<1>5. \A j \in 1 .. k - 1 : CharAt(d, j) = CharAt(p, j)
  BY <1>1, <1>2 DEF Leads, CharAt
<1>6. DiffersAt(d, p, k)
  BY <1>4, <1>5 DEF DiffersAt
<1>7. EndsBefore(d, k)
  BY <1>1 DEF EndsBefore, IsPrefix
<1>8. Before(d, p, k)
  BY <1>4, <1>7 DEF Before
<1> QED BY <1>3, <1>6, <1>8, ComparedAtDifference

(* What is not a directory comes before what is in a directory beside it. *)
LEMMA FilesFirst ==
  ASSUME NEW n \in Nat, NEW l \in Path, NEW r \in Path, n <= Len(l), n <= Len(r),
         \A j \in 1 .. n : l[j] = r[j],
         \A j \in n + 1 .. Len(l) : l[j] # Slash,
         \E j \in n + 1 .. Len(r) : r[j] = Slash
  PROVE  CompareGlobally(l, r)
<1>1. Len(l) \in Nat /\ Len(r) \in Nat
  BY DEF Path
<1> DEFINE k == n + 1
<1>2. k \in Nat \ {0}
  OBVIOUS
<1>3. \A j \in 1 .. k - 1 : CharAt(l, j) = CharAt(r, j)
  BY <1>1 DEF CharAt
<1>4. ~Deeper(l, k) /\ Deeper(r, k)
  BY DEF Deeper
<1> QED BY <1>2, <1>3, <1>4, ShallowFirst

(* A difference before the ends of two directories is that of everything in
   them. *)
LEMMA DifferenceInside ==
  ASSUME NEW c \in Path, NEW d \in Path, IsPrefix(c), IsPrefix(d),
         NEW k \in Nat \ {0}, DiffersAt(c, d, k), k <= Len(c), k <= Len(d),
         NEW p \in Path, NEW q \in Path, Leads(c, p), Leads(d, q)
  PROVE  /\ DiffersAt(p, q, k)
         /\ Before(p, q, k) <=> CharAt(c, k) < CharAt(d, k)
<1>1. Len(c) \in Nat /\ Len(d) \in Nat /\ Len(p) \in Nat /\ Len(q) \in Nat
  BY DEF Path
<1>2. \A j \in 1 .. k : CharAt(p, j) = CharAt(c, j) /\ CharAt(q, j) = CharAt(d, j)
  BY <1>1 DEF Leads, CharAt
<1>3. DiffersAt(p, q, k)
  BY <1>2 DEF DiffersAt
<1>4. p[Len(c)] = Slash /\ q[Len(d)] = Slash
  BY <1>1 DEF Leads, IsPrefix
<1>5. Deeper(p, k) /\ Deeper(q, k)
  BY <1>1, <1>4 DEF Deeper, Leads
<1>6. ~EndsBefore(p, k) /\ ~EndsBefore(q, k)
  BY <1>1 DEF EndsBefore, Leads
<1>7. CharAt(p, k) = CharAt(c, k) /\ CharAt(q, k) = CharAt(d, k)
  BY <1>2
<1> QED BY <1>3, <1>5, <1>6, <1>7 DEF Before

(* Directories that differ before their ends are in the order of what they
   contain. *)
LEMMA SubtreesInOrder ==
  ASSUME NEW c \in Path, NEW d \in Path, IsPrefix(c), IsPrefix(d),
         NEW k \in Nat \ {0}, DiffersAt(c, d, k), k <= Len(c), k <= Len(d),
         CompareGlobally(c, d),
         NEW p \in Path, NEW q \in Path, Leads(c, p), Leads(d, q)
  PROVE  CompareGlobally(p, q)
<1>1. Leads(c, c) /\ Leads(d, d)
  BY DEF Leads, Path
<1>2. Before(c, d, k)
  BY ComparedAtDifference
<1>3. CharAt(c, k) < CharAt(d, k)
  BY <1>1, <1>2, DifferenceInside
<1>4. DiffersAt(p, q, k) /\ Before(p, q, k)
  BY <1>3, DifferenceInside
<1> QED BY <1>4, ComparedAtDifference

(* What comes between a directory and something in it is in it. *)
LEMMA ContentsTogether ==
  ASSUME NEW d \in Path, NEW x \in Path, NEW p \in Path, IsPrefix(d), d # <<>>, Leads(d, p),
         CompareGlobally(d, x), CompareGlobally(x, p)
  PROVE  Leads(d, x)
<1> SUFFICES ASSUME ~Leads(d, x) PROVE FALSE
  OBVIOUS
<1>1. /\ Len(d) \in Nat /\ Len(x) \in Nat /\ Len(p) \in Nat
      /\ Len(d) <= Len(p)
  BY DEF Path, Leads
<1>2. d # x
  BY DEF CompareGlobally
<1>3. PICK k \in Nat \ {0} : DiffersAt(d, x, k)
  BY <1>2, DifferenceExists DEF Path
<1>4. k <= Len(d)
  <2> SUFFICES ASSUME k > Len(d) PROVE FALSE
    BY <1>1
  <2>1. \A j \in 1 .. Len(d) : CharAt(d, j) = CharAt(x, j)
    BY <1>1, <1>3 DEF DiffersAt
  <2>2. ASSUME NEW j \in 1 .. Len(d) PROVE j <= Len(x) /\ x[j] = d[j]
    <3>1. j \in Nat \ {0} /\ CharAt(d, j) = d[j] /\ CharAt(x, j) = CharAt(d, j)
      BY <1>1, <2>1 DEF CharAt
    <3>2. CharAt(d, j) # 0
      <4>1. CharAt(d, j) = 0 <=> j > Len(d)
        BY <3>1, CharIsNat
      <4> QED BY <1>1, <4>1
    <3>3. j <= Len(x)
      <4>1. CharAt(x, j) = 0 <=> j > Len(x)
        BY <3>1, CharIsNat
      <4> QED BY <1>1, <3>1, <3>2, <4>1
    <3> QED BY <3>1, <3>3 DEF CharAt
  <2>3. Len(d) <= Len(x)
    <3>1. CASE Len(d) = 0
      BY <1>1, <3>1
    <3>2. CASE Len(d) # 0
      <4>1. Len(d) \in 1 .. Len(d)
        BY <1>1, <3>2
      <4> QED BY <4>1, <2>2
    <3> QED BY <3>1, <3>2
  <2> QED BY <2>2, <2>3 DEF Leads
<1>5. \A j \in 1 .. k : CharAt(p, j) = CharAt(d, j)
  BY <1>1, <1>4 DEF Leads, CharAt
<1>6. DiffersAt(x, p, k)
  BY <1>3, <1>5 DEF DiffersAt
<1>7. Before(d, x, k) /\ Before(x, p, k)
  BY <1>3, <1>6, ComparedAtDifference
<1>8. p[Len(d)] = Slash /\ d[Len(d)] = Slash /\ Len(d) \in k .. Len(d) /\ Len(d) \in k .. Len(p)
  BY <1>1, <1>4 DEF Leads, IsPrefix
<1>9. Deeper(d, k) /\ Deeper(p, k)
  BY <1>8 DEF Deeper
<1>10. ~EndsBefore(d, k) /\ ~EndsBefore(p, k)
  BY <1>1, <1>4 DEF EndsBefore
<1>11. CharAt(d, k) \in Nat /\ CharAt(x, k) \in Nat /\ CharAt(p, k) = CharAt(d, k)
  BY <1>5, CharIsNat
<1> QED BY <1>7, <1>9, <1>10, <1>11 DEF Before
-----------------------------------------------------------------------------
(* Where the name of a node begins, less one. *)
NameFrom(p) == IF Parent(p) = <<>> THEN 0 ELSE Len(Parent(p)) + 1

(* What the assumption on the constant says of a path. *)
LEMMA PathsArePaths ==
  ASSUME NEW p \in Paths
  PROVE  /\ p \in Path /\ p # <<>> /\ Len(p) \in Nat \ {0}
         /\ p[1] # Slash /\ p[Len(p)] # Slash
         /\ Parent(p) = <<>> \/ Parent(p) \in Paths
<1>1. /\ p \in Seq(Nat \ {0}) /\ p # <<>> /\ p[1] # Slash /\ p[Len(p)] # Slash
      /\ Parent(p) = <<>> \/ Parent(p) \in Paths
  BY SyncAssumption
<1>2. Len(p) \in Nat \ {0}
  BY <1>1
<1> QED BY <1>1, <1>2 DEF Path

(* Of some numbers up to n, one is the greatest. *)
LEMMA GreatestNumber ==
  ASSUME NEW n \in Nat, NEW T, T \subseteq 0 .. n, T # {}
  PROVE  \E x \in T : \A y \in T : y <= x
<1> DEFINE D == {m \in 0 .. n : n - m \in T}
<1>1. D \subseteq Nat
  OBVIOUS
<1>2. D # {}
  <2>1. PICK y \in T : TRUE
    OBVIOUS
  <2>2. n - y \in 0 .. n /\ n - (n - y) = y
    OBVIOUS
  <2> QED BY <2>1, <2>2
<1>3. PICK x \in D : \A y \in D : x <= y
  <2> HIDE DEF D
  <2> QED BY <1>1, <1>2, LeastNumber
<1>4. n - x \in T /\ x \in 0 .. n
  OBVIOUS
<1>5. ASSUME NEW y \in T PROVE y <= n - x
  <2>1. n - y \in 0 .. n /\ n - (n - y) = y
    OBVIOUS
  <2>2. n - y \in D
    BY <2>1
  <2> QED BY <1>3, <1>4, <2>1, <2>2
<1> QED BY <1>4, <1>5

(* The parent of a path is what is before its last slash. *)
LEMMA ParentIs ==
  ASSUME NEW p \in Paths
  PROVE  /\ NameFrom(p) \in 0 .. Len(p) - 1
         /\ \A j \in NameFrom(p) + 1 .. Len(p) : p[j] # Slash
         /\ Parent(p) # <<>> => /\ NameFrom(p) = Len(Parent(p)) + 1 /\ p[NameFrom(p)] = Slash
                                /\ \A j \in 1 .. Len(Parent(p)) : p[j] = Parent(p)[j]
<1> DEFINE slashes == {k \in DOMAIN p : p[k] = Slash}
           last == CHOOSE k \in slashes : \A j \in slashes : j <= k
<1>1. /\ p \in Path /\ Len(p) \in Nat \ {0} /\ p[1] # Slash /\ p[Len(p)] # Slash
      /\ DOMAIN p = 1 .. Len(p)
  BY PathsArePaths DEF Path
<1>2. CASE slashes = {}
  <2>1. Parent(p) = <<>>
    BY <1>2 DEF Parent
  <2>2. \A j \in 1 .. Len(p) : p[j] # Slash
    BY <1>1, <1>2
  <2> QED BY <1>1, <2>1, <2>2 DEF NameFrom
<1>3. CASE slashes # {}
  <2>1. \E k \in slashes : \A j \in slashes : j <= k
    <3>1. slashes \subseteq 0 .. Len(p)
      BY <1>1
    <3> HIDE DEF slashes
    <3> QED BY <1>1, <1>3, <3>1, GreatestNumber
  <2>2. last \in slashes /\ \A j \in slashes : j <= last
    <3> HIDE DEF slashes
    <3> QED BY <2>1
  <2>3. Parent(p) = SubSeq(p, 1, last - 1)
    BY <1>3 DEF Parent
  <2>4. last \in 2 .. Len(p) - 1 /\ p[last] = Slash
    <3>1. last \in 1 .. Len(p) /\ p[last] = Slash
      BY <1>1, <2>2
    <3> HIDE DEF last
    <3>2. last # 1 /\ last # Len(p)
      BY <1>1, <3>1
    <3>3. last \in Nat /\ 1 <= last /\ last <= Len(p) /\ Len(p) \in Nat
      BY <1>1, <3>1
    <3>4. last \in 2 .. Len(p) - 1
      BY <3>2, <3>3
    <3> QED BY <3>1, <3>4
  <2>5. \A j \in last + 1 .. Len(p) : p[j] # Slash
    <3> TAKE j \in last + 1 .. Len(p)
    <3>1. j \in DOMAIN p /\ ~(j <= last)
      <4> HIDE DEF last
      <4> QED BY <1>1, <2>4
    <3> QED BY <2>2, <3>1
  <2> HIDE DEF last, slashes
  <2>6. /\ Len(SubSeq(p, 1, last - 1)) = last - 1
        /\ \A j \in 1 .. last - 1 : SubSeq(p, 1, last - 1)[j] = p[j]
    BY <1>1, <2>4, SubSeqProperties DEF Path
  <2>7. Parent(p) # <<>>
    BY <2>3, <2>4, <2>6
  <2>8. NameFrom(p) = last /\ Len(Parent(p)) = last - 1
    BY <2>3, <2>4, <2>6, <2>7 DEF NameFrom
  <2>9. \A j \in 1 .. last - 1 : p[j] = Parent(p)[j]
    BY <2>3, <2>6
  <2> QED BY <1>1, <2>4, <2>5, <2>7, <2>8, <2>9
<1> QED BY <1>2, <1>3

(* Only the last slash is the last slash. *)
LEMMA NameFromIs ==
  ASSUME NEW p \in Paths, NEW n \in 0 .. Len(p) - 1, n > 0 => p[n] = Slash,
         \A j \in n + 1 .. Len(p) : p[j] # Slash
  PROVE  NameFrom(p) = n
<1> DEFINE m == NameFrom(p)
<1>1. Len(p) \in Nat \ {0}
  BY PathsArePaths
<1>2. m \in 0 .. Len(p) - 1 /\ (\A j \in m + 1 .. Len(p) : p[j] # Slash) /\ (m > 0 => p[m] = Slash)
  <2>1. Parent(p) = <<>> => m = 0
    BY DEF NameFrom
  <2> QED BY <2>1, ParentIs
<1> HIDE DEF m
<1>3. ~(m < n) /\ ~(n < m)
  BY <1>1, <1>2
<1> QED BY <1>1, <1>2, <1>3 DEF m

(* A path is not its own parent, and longer than its parent. *)
LEMMA ParentIsShorter ==
  ASSUME NEW p \in Paths
  PROVE  Parent(p) # p /\ (Parent(p) # <<>> => Len(Parent(p)) < Len(p))
<1>1. Parent(p) = <<>> => Parent(p) # p
  BY PathsArePaths
<1>2. Parent(p) # <<>> => Len(Parent(p)) < Len(p)
  <2> SUFFICES ASSUME Parent(p) # <<>> PROVE Len(Parent(p)) < Len(p)
    OBVIOUS
  <2>1. Parent(p) \in Paths
    BY PathsArePaths
  <2>2. Len(p) \in Nat \ {0} /\ Len(Parent(p)) \in Nat \ {0}
    BY <2>1, PathsArePaths
  <2> QED BY <2>2, ParentIs
<1>3. Parent(p) # <<>> => Parent(p) # p
  <2> SUFFICES ASSUME Parent(p) # <<>>, Parent(p) = p PROVE FALSE
    OBVIOUS
  <2>1. Len(p) < Len(p) /\ Len(p) \in Nat
    BY <1>2, PathsArePaths
  <2> QED BY <2>1
<1> QED BY <1>1, <1>2, <1>3
-----------------------------------------------------------------------------
EntriesOf(tree) == {NewEntry(tree, p) : p \in Present(tree)}

(* The path of an entry is that of its node, and a slash if it is a directory. *)
LEMMA EntryPath ==
  ASSUME NEW tree, NEW p \in Paths
  PROVE  /\ NewEntry(tree, p).kind = tree[p].kind
         /\ NewEntry(tree, p).time = tree[p].time
         /\ NewEntry(tree, p).path \in Path
         /\ Len(NewEntry(tree, p).path) = IF tree[p].kind = "dir" THEN Len(p) + 1 ELSE Len(p)
         /\ \A j \in 1 .. Len(p) : NewEntry(tree, p).path[j] = p[j]
         /\ tree[p].kind = "dir" => NewEntry(tree, p).path[Len(p) + 1] = Slash
<1>1. p \in Path /\ Slash \in Nat \ {0} /\ Len(p) \in Nat
  BY PathsArePaths, SlashAssumption
<1>2. CASE tree[p].kind = "dir"
  <2>1. NewEntry(tree, p).path = Append(p, Slash)
    BY <1>2 DEF NewEntry
  <2>2. /\ Append(p, Slash) \in Path /\ Len(Append(p, Slash)) = Len(p) + 1
        /\ Append(p, Slash)[Len(p) + 1] = Slash
        /\ \A j \in 1 .. Len(p) : Append(p, Slash)[j] = p[j]
    BY <1>1, AppendProperties DEF Path
  <2> QED BY <1>2, <2>1, <2>2 DEF NewEntry
<1>3. CASE tree[p].kind # "dir"
  <2>1. NewEntry(tree, p).path = p
    BY <1>3 DEF NewEntry
  <2> QED BY <1>1, <1>3, <2>1 DEF NewEntry
<1> QED BY <1>2, <1>3

(* The entry of a node names the node. *)
LEMMA EntryNode ==
  ASSUME NEW tree, NEW p \in Paths
  PROVE  NodeOf(NewEntry(tree, p)) = p
<1> DEFINE w == NewEntry(tree, p).path
<1>1. p \in Path /\ Len(p) \in Nat
  BY PathsArePaths
<1>2. CASE tree[p].kind = "dir"
  <2>1. NodeOf(NewEntry(tree, p)) = SubSeq(w, 1, Len(w) - 1)
    BY <1>2, EntryPath DEF NodeOf
  <2>2. /\ w \in Path /\ Len(w) = Len(p) + 1 /\ \A j \in 1 .. Len(p) : w[j] = p[j]
    BY <1>2, EntryPath
  <2> HIDE DEF w
  <2>3. /\ SubSeq(w, 1, Len(p)) \in Path /\ Len(SubSeq(w, 1, Len(p))) = Len(p)
        /\ \A j \in 1 .. Len(p) : SubSeq(w, 1, Len(p))[j] = w[j]
    <3>1. Len(p) <= Len(w) /\ 1 \in 1 .. Len(w) + 1 /\ Len(p) \in 0 .. Len(w)
      BY <1>1, <2>2
    <3> QED BY <1>1, <2>2, <3>1, SubSeqProperties DEF Path
  <2>4. SubSeq(w, 1, Len(p)) = p
    BY <1>1, <2>2, <2>3, SeqEqual DEF Path
  <2>5. Len(w) - 1 = Len(p)
    BY <1>1, <2>2
  <2> QED BY <2>1, <2>4, <2>5
<1>3. CASE tree[p].kind # "dir"
  BY <1>3 DEF NodeOf, NewEntry
<1> QED BY <1>2, <1>3

(* What an entry of a list is. *)
LEMMA EntryFacts ==
  ASSUME NEW tree, NEW p \in Paths, NEW e, e = NewEntry(tree, p)
  PROVE  /\ e.path \in Path /\ Len(e.path) \in Nat \ {0} /\ e.path # <<>>
         /\ NodeOf(e) = p /\ e.kind = tree[p].kind /\ e.time = tree[p].time
         /\ e.path[Len(e.path)] = Slash <=> e.kind = "dir"
         /\ e.path # Top.path
         /\ e.kind = "dir" => IsPrefix(e.path)
         /\ EntryBehind(e, NameFrom(p))
<1>1. PICK w : w = e.path
  OBVIOUS
<1>2. p \in Path /\ Len(p) \in Nat \ {0} /\ p[Len(p)] # Slash /\ p[1] # Slash
  BY PathsArePaths
<1>3. /\ e.kind = tree[p].kind /\ e.time = tree[p].time /\ w \in Path
      /\ Len(w) = IF e.kind = "dir" THEN Len(p) + 1 ELSE Len(p)
      /\ \A j \in 1 .. Len(p) : w[j] = p[j]
      /\ e.kind = "dir" => w[Len(p) + 1] = Slash
  BY <1>1, EntryPath
<1>4. Len(w) \in Nat \ {0} /\ w # <<>>
  BY <1>2, <1>3 DEF Path
<1>5. w[Len(w)] = Slash <=> e.kind = "dir"
  BY <1>2, <1>3
<1>6. w[1] # Slash
  BY <1>2, <1>3
<1>7. w # Top.path
  BY <1>6 DEF Top
<1>8. e.kind = "dir" => IsPrefix(w)
  BY <1>3, <1>5 DEF IsPrefix
<1>9. EntryBehind(e, NameFrom(p))
  <2>1. NameFrom(p) \in 0 .. Len(p) - 1 /\ \A j \in NameFrom(p) + 1 .. Len(p) : p[j] # Slash
    BY ParentIs
  <2>2. Len(w) > NameFrom(p)
    BY <1>2, <1>3, <2>1
  <2>3. ASSUME NEW j \in NameFrom(p) + 1 .. Len(w)
        PROVE  w[j] = Slash <=> j = Len(w) /\ e.kind = "dir"
    <3>1. CASE j <= Len(p)
      <4>1. w[j] = p[j] /\ p[j] # Slash
        BY <1>2, <1>3, <2>1, <3>1
      <4>2. e.kind = "dir" => j # Len(w)
        BY <1>2, <1>3, <3>1
      <4> QED BY <4>1, <4>2
    <3>2. CASE ~(j <= Len(p))
      <4>1. e.kind = "dir" /\ j = Len(p) + 1 /\ j = Len(w)
        BY <1>2, <1>3, <2>1, <3>2
      <4> QED BY <1>3, <4>1
    <3> QED BY <3>1, <3>2
  <2> QED BY <1>1, <1>3, <2>2, <2>3, Zenon DEF EntryBehind
<1>10. NodeOf(e) = p
  BY EntryNode
<1> QED BY <1>1, <1>3, <1>4, <1>5, <1>7, <1>8, <1>9, <1>10

(* A path in a list says which node it is. *)
LEMMA SamePath ==
  ASSUME NEW s, NEW t, NEW p \in Paths, NEW q \in Paths,
         NewEntry(s, p).path = NewEntry(t, q).path
  PROVE  p = q
<1>1. PICK e, f : e = NewEntry(s, p) /\ f = NewEntry(t, q)
  OBVIOUS
<1>2. (e.path[Len(e.path)] = Slash <=> s[p].kind = "dir") /\ NodeOf(e) = p /\ e.kind = s[p].kind
  BY <1>1, EntryFacts
<1>3. (f.path[Len(f.path)] = Slash <=> t[q].kind = "dir") /\ NodeOf(f) = q /\ f.kind = t[q].kind
  BY <1>1, EntryFacts
<1>4. e.path = f.path
  BY <1>1
<1>5. s[p].kind = "dir" <=> t[q].kind = "dir"
  BY <1>2, <1>3, <1>4
<1>6. NodeOf(e) = NodeOf(f)
  <2>1. e.kind = "dir" <=> f.kind = "dir"
    BY <1>2, <1>3, <1>5
  <2> QED BY <1>4, <2>1 DEF NodeOf
<1> QED BY <1>2, <1>3, <1>6

(* It also says whether it is a directory. *)
LEMMA SamePathKind ==
  ASSUME NEW s, NEW t, NEW p \in Paths, NEW q \in Paths,
         NewEntry(s, p).path = NewEntry(t, q).path
  PROVE  s[p].kind = "dir" <=> t[q].kind = "dir"
<1>1. PICK w : w = NewEntry(s, p).path /\ w = NewEntry(t, q).path
  OBVIOUS
<1>2. w[Len(w)] = Slash <=> s[p].kind = "dir"
  BY <1>1, EntryFacts
<1>3. w[Len(w)] = Slash <=> t[q].kind = "dir"
  BY <1>1, EntryFacts
<1> QED BY <1>2, <1>3
-----------------------------------------------------------------------------
(* What the path of everything in a directory starts with. *)
Prefix(dir) == IF dir = Top THEN <<>> ELSE dir.path

IsDir(tree, dir) == dir = Top \/ (dir \in EntriesOf(tree) /\ dir.kind = "dir")

Children(tree, dir) ==
  {NewEntry(tree, p) : p \in {q \in Present(tree) :
     Parent(q) = IF dir = Top THEN <<>> ELSE NodeOf(dir)}}

(* What EntryFacts says, of an entry of a tree. *)
LEMMA EntryOf ==
  ASSUME NEW tree, NEW e \in EntriesOf(tree)
  PROVE  /\ NodeOf(e) \in Present(tree) /\ e = NewEntry(tree, NodeOf(e))
         /\ NodeOf(e) \in Paths /\ tree[NodeOf(e)] # None
         /\ e.path \in Path /\ Len(e.path) \in Nat \ {0} /\ e.path # <<>>
         /\ e.kind = tree[NodeOf(e)].kind /\ e.time = tree[NodeOf(e)].time
         /\ e.path[Len(e.path)] = Slash <=> e.kind = "dir"
         /\ e # Top /\ e.path # Top.path
         /\ e.kind = "dir" => IsPrefix(e.path)
         /\ EntryBehind(e, NameFrom(NodeOf(e)))
<1>1. PICK p \in Present(tree) : e = NewEntry(tree, p)
  BY DEF EntriesOf
<1>2. p \in Paths /\ tree[p] # None
  BY DEF Present
<1>3. NodeOf(e) = p
  BY <1>1, <1>2, EntryFacts
<1>4. e.path # Top.path
  BY <1>1, <1>2, EntryFacts
<1>5. /\ e.path \in Path /\ Len(e.path) \in Nat \ {0} /\ e.path # <<>>
      /\ e.kind = tree[p].kind /\ e.time = tree[p].time
      /\ e.path[Len(e.path)] = Slash <=> e.kind = "dir"
      /\ e.kind = "dir" => IsPrefix(e.path)
      /\ EntryBehind(e, NameFrom(p))
  BY <1>1, <1>2, EntryFacts
<1>6. e # Top
  BY <1>4
<1> QED BY <1>1, <1>2, <1>3, <1>4, <1>5, <1>6

(* Two entries of a tree with the same path are the same. *)
LEMMA EntryByPath ==
  ASSUME NEW tree, NEW e \in EntriesOf(tree), NEW f \in EntriesOf(tree), e.path = f.path
  PROVE  e = f
<1>1. /\ NodeOf(e) \in Paths /\ e = NewEntry(tree, NodeOf(e))
      /\ NodeOf(f) \in Paths /\ f = NewEntry(tree, NodeOf(f))
  BY EntryOf
<1>2. NodeOf(e) = NodeOf(f)
  <2>1. PICK p, q : p = NodeOf(e) /\ q = NodeOf(f)
    OBVIOUS
  <2>2. p \in Paths /\ q \in Paths /\ NewEntry(tree, p).path = NewEntry(tree, q).path
    BY <1>1, <2>1
  <2>3. p = q
    BY <2>2, SamePath
  <2> QED BY <2>1, <2>3
<1> QED BY <1>1, <1>2

(* What the paths of the entries of a directory begin with: nothing at the
   top, else the path of the directory with its slash. *)
LEMMA PrefixOf ==
  ASSUME NEW tree, NEW dir, IsDir(tree, dir)
  PROVE  /\ Prefix(dir) \in Path /\ Len(Prefix(dir)) \in Nat /\ IsPrefix(Prefix(dir))
         /\ dir = Top <=> Prefix(dir) = <<>>
         /\ dir = Top <=> Len(Prefix(dir)) = 0
<1>1. CASE dir = Top
  <2>1. <<>> \in Path /\ Len(<<>>) = 0
    BY DEF Path
  <2> QED BY <1>1, <2>1 DEF Prefix, IsPrefix
<1>2. CASE dir # Top
  <2>1. dir \in EntriesOf(tree) /\ dir.kind = "dir" /\ Prefix(dir) = dir.path
    BY <1>2 DEF IsDir, Prefix
  <2> QED BY <1>2, <2>1, EntryOf
<1> QED BY <1>1, <1>2

(* The entries of a directory are those whose name begins where its path ends. *)
LEMMA ChildFacts ==
  ASSUME NEW tree, NEW dir, IsDir(tree, dir), NEW c \in Children(tree, dir)
  PROVE  /\ c \in EntriesOf(tree)
         /\ Leads(Prefix(dir), c.path)
         /\ EntryBehind(c, Len(Prefix(dir)))
         /\ \A j \in 1 .. Len(Prefix(dir)) : c.path[j] = Prefix(dir)[j]
         /\ Len(Prefix(dir)) < Len(c.path)
<1>1. PICK p \in Present(tree) :
        c = NewEntry(tree, p) /\ Parent(p) = IF dir = Top THEN <<>> ELSE NodeOf(dir)
  BY DEF Children
<1>2. p \in Paths /\ c \in EntriesOf(tree)
  BY <1>1 DEF Present, EntriesOf
<1>3. EntryBehind(c, NameFrom(p))
  BY <1>1, <1>2, EntryFacts
<1>4. /\ NameFrom(p) = Len(Prefix(dir))
      /\ \A j \in 1 .. Len(Prefix(dir)) : c.path[j] = Prefix(dir)[j]
  <2>1. CASE dir = Top
    <3>1. Prefix(dir) = <<>> /\ Parent(p) = <<>>
      BY <1>1, <2>1 DEF Prefix
    <3> QED BY <3>1 DEF NameFrom
  <2>2. CASE dir # Top
    <3> DEFINE q == NodeOf(dir)
    <3>1. dir \in EntriesOf(tree) /\ dir.kind = "dir" /\ Prefix(dir) = dir.path
      BY <2>2 DEF IsDir, Prefix
    <3>2. q \in Paths /\ dir = NewEntry(tree, q) /\ tree[q].kind = "dir"
      BY <3>1, EntryOf
    <3>3. PICK w : w = dir.path
      OBVIOUS
    <3>4. Len(w) = Len(q) + 1 /\ (\A j \in 1 .. Len(q) : w[j] = q[j]) /\ w[Len(q) + 1] = Slash
      BY <3>2, <3>3, EntryPath
    <3>5. Parent(p) = q /\ q # <<>> /\ Len(q) \in Nat
      BY <1>1, <2>2, <3>2, PathsArePaths
    <3> HIDE DEF q
    <3>6. /\ NameFrom(p) = Len(q) + 1 /\ p[NameFrom(p)] = Slash
          /\ \A j \in 1 .. Len(q) : p[j] = q[j]
          /\ NameFrom(p) \in 0 .. Len(p) - 1
      BY <1>2, <3>5, ParentIs
    <3>7. \A j \in 1 .. Len(p) : c.path[j] = p[j]
      BY <1>1, <1>2, EntryPath
    <3>8. Len(p) \in Nat
      BY <1>2, PathsArePaths
    <3>9. \A j \in 1 .. Len(w) : c.path[j] = w[j]
      BY <3>4, <3>5, <3>6, <3>7, <3>8
    <3> QED BY <3>1, <3>3, <3>4, <3>6, <3>9
  <2> QED BY <2>1, <2>2
<1>5. Len(Prefix(dir)) < Len(c.path)
  BY <1>3, <1>4 DEF EntryBehind
<1>6. Len(Prefix(dir)) \in Nat /\ Len(c.path) \in Nat
  BY <1>2, PrefixOf, EntryOf
<1>7. Leads(Prefix(dir), c.path)
  BY <1>4, <1>5, <1>6 DEF Leads
<1> QED BY <1>2, <1>3, <1>4, <1>5, <1>7

(* The way from a directory to something in it goes through an entry of it. *)
LEMMA ChildFound ==
  ASSUME NEW tree, IsTree(tree), NEW dir, IsDir(tree, dir),
         NEW e \in EntriesOf(tree), e # dir, Leads(Prefix(dir), e.path)
  PROVE  \E c \in Children(tree, dir) : c = e \/ (c.kind = "dir" /\ Leads(c.path, e.path))
<1> DEFINE n == Len(Prefix(dir))
           p == NodeOf(e)
           OnWay(q) == /\ Len(q) > n
                       /\ \/ NewEntry(tree, q) = e
                          \/ tree[q].kind = "dir" /\ Leads(NewEntry(tree, q).path, e.path)
           T == {Len(q) : q \in {r \in Present(tree) : OnWay(r)}}
<1>1. PICK d, w : d = Prefix(dir) /\ w = e.path
  OBVIOUS
<1>2. /\ d \in Path /\ n = Len(d) /\ n \in Nat /\ (n > 0 => d[n] = Slash)
      /\ dir = Top <=> n = 0
  BY <1>1, PrefixOf DEF IsPrefix
<1>3. /\ p \in Present(tree) /\ p \in Paths /\ e = NewEntry(tree, p)
      /\ w \in Path /\ Len(w) \in Nat
  BY <1>1, EntryOf
<1>4. Len(w) = (IF tree[p].kind = "dir" THEN Len(p) + 1 ELSE Len(p)) /\ \A j \in 1 .. Len(p) : w[j] = p[j]
  BY <1>1, <1>3, EntryPath
<1>5. Len(p) \in Nat /\ p[Len(p)] # Slash
  BY <1>3, PathsArePaths
<1>6. Leads(d, w) /\ n <= Len(w) /\ \A j \in 1 .. n : w[j] = d[j]
  BY <1>1, <1>2 DEF Leads
<1> HIDE DEF p, n
<1>7. n < Len(p)
  <2>1. CASE n = 0
    BY <1>3, <2>1, PathsArePaths
  <2>2. CASE n > 0
    <3>1. dir \in EntriesOf(tree) /\ d = dir.path
      BY <1>1, <1>2, <2>2 DEF IsDir, Prefix
    <3>2. w # d
      BY <1>1, <3>1, EntryByPath
    <3>3. n < Len(w)
      BY <1>2, <1>3, <1>6, <3>2, LeadsOrEqual
    <3>4. w[n] = Slash
      BY <1>2, <1>6, <2>2
    <3> QED BY <1>2, <1>3, <1>4, <1>5, <2>2, <3>3, <3>4
  <2> QED BY <1>2, <2>1, <2>2
<1>8. PICK q \in Present(tree) : OnWay(q) /\ \A r \in Present(tree) : OnWay(r) => Len(q) <= Len(r)
  <2>1. OnWay(p)
    BY <1>3, <1>7
  <2>2. Len(p) \in T
    BY <1>3, <2>1
  <2>3. T \subseteq Nat
    <3> SUFFICES ASSUME NEW r \in Present(tree) PROVE Len(r) \in Nat
      OBVIOUS
    <3> QED BY PathsArePaths DEF Present
  <2>4. PICK x \in T : \A y \in T : x <= y
    <3> HIDE DEF T
    <3> QED BY <2>2, <2>3, LeastNumber
  <2>5. PICK q \in Present(tree) : OnWay(q) /\ Len(q) = x
    OBVIOUS
  <2>6. ASSUME NEW r \in Present(tree), OnWay(r) PROVE Len(q) <= Len(r)
    <3>1. Len(r) \in T
      BY <2>6
    <3> HIDE DEF OnWay, T
    <3> QED BY <2>4, <2>5, <3>1
  <2> QED BY <2>5, <2>6
<1> DEFINE c == NewEntry(tree, q)
<1>9. /\ q \in Paths /\ tree[q] # None /\ Len(q) \in Nat /\ Len(q) > n
      /\ c = e \/ (c.kind = "dir" /\ Leads(c.path, e.path))
  <2>1. q \in Paths /\ tree[q] # None
    BY DEF Present
  <2> QED BY <1>8, <2>1, PathsArePaths, EntryPath
<1>10. \A j \in 1 .. Len(q) : q[j] = w[j]
  <2>1. c.path \in Path /\ Len(c.path) >= Len(q) /\ \A j \in 1 .. Len(q) : c.path[j] = q[j]
    BY <1>9, EntryPath
  <2>2. \A j \in 1 .. Len(q) : c.path[j] = w[j]
    <3>1. CASE c = e
      BY <1>1, <3>1
    <3>2. CASE c # e
      <4>1. Leads(c.path, w)
        BY <1>1, <1>9, <3>2
      <4>2. Len(c.path) \in Nat
        BY <2>1 DEF Path
      <4> HIDE DEF c
      <4> QED BY <1>9, <2>1, <4>1, <4>2 DEF Leads
    <3> QED BY <3>1, <3>2
  <2> QED BY <2>1, <2>2
<1>11. Len(q) <= Len(w)
  <2>1. Leads(c.path, w)
    <3>1. Leads(w, w)
      BY <1>3 DEF Leads
    <3> QED BY <1>1, <1>9, <3>1
  <2>2. Len(c.path) = IF tree[q].kind = "dir" THEN Len(q) + 1 ELSE Len(q)
    BY <1>9, EntryPath
  <2> HIDE DEF c
  <2> QED BY <1>3, <1>9, <2>1, <2>2 DEF Leads
<1>12. \A j \in 1 .. n : q[j] = d[j]
  BY <1>2, <1>6, <1>9, <1>10
<1> DEFINE m == NameFrom(q)
<1>13. m \in 0 .. Len(q) - 1 /\ \A j \in m + 1 .. Len(q) : q[j] # Slash
  BY <1>9, ParentIs
<1>14. n > 0 => q[n] = Slash
  BY <1>2, <1>12
<1>15. ~(m < n)
  <2> HIDE DEF m
  <2> QED BY <1>2, <1>9, <1>13, <1>14
<1>16. ~(n < m)
  <2> SUFFICES ASSUME n < m PROVE FALSE
    OBVIOUS
  <2> DEFINE r == Parent(q)
  <2>1. r # <<>>
    BY <1>2 DEF NameFrom
  <2>2. m = Len(r) + 1 /\ q[m] = Slash /\ \A j \in 1 .. Len(r) : q[j] = r[j]
    BY <1>9, <2>1, ParentIs
  <2>3. r \in Paths /\ Len(r) \in Nat \ {0} /\ r[Len(r)] # Slash
    BY <1>9, <2>1, PathsArePaths
  <2>4. tree[r].kind = "dir"
    BY <1>9, <2>1 DEF IsTree, Reachable
  <2>5. r \in Present(tree)
    BY <2>3, <2>4 DEF Present, None
  <2> HIDE DEF r, m
  <2>6. Len(r) > n
    <3> SUFFICES ASSUME Len(r) = n PROVE FALSE
      BY <1>2, <2>2, <2>3
    <3> QED BY <1>2, <1>14, <2>2, <2>3
  <2> DEFINE f == NewEntry(tree, r)
  <2>7. Leads(f.path, w)
    <3>1. PICK v : v = f.path
      OBVIOUS
    <3>2. /\ Len(v) = Len(r) + 1 /\ v[Len(r) + 1] = Slash
          /\ \A j \in 1 .. Len(r) : v[j] = r[j]
      BY <2>3, <2>4, <3>1, EntryPath
    <3>3. \A j \in 1 .. Len(r) + 1 : v[j] = q[j]
      BY <2>2, <2>3, <3>2
    <3>4. m <= Len(q)
      BY <1>9, <1>13
    <3>5. \A j \in 1 .. Len(r) + 1 : v[j] = w[j]
      BY <1>9, <1>10, <2>2, <2>3, <3>3, <3>4
    <3>6. Len(v) <= Len(w)
      BY <1>3, <1>9, <1>11, <2>2, <2>3, <3>2, <3>4
    <3>7. Leads(v, w)
      BY <3>2, <3>5, <3>6 DEF Leads
    <3> QED BY <3>1, <3>7
  <2>8. OnWay(r)
    BY <1>1, <2>4, <2>6, <2>7
  <2>9. Len(q) <= Len(r)
    <3> HIDE DEF OnWay
    <3> QED BY <1>8, <2>5, <2>8
  <2> QED BY <1>9, <1>13, <2>2, <2>3, <2>9
<1>17. m = n
  <2> HIDE DEF m
  <2> QED BY <1>2, <1>9, <1>13, <1>15, <1>16
<1>18. Parent(q) = IF dir = Top THEN <<>> ELSE NodeOf(dir)
  <2>1. CASE n = 0
    <3>1. Parent(q) = <<>>
      <4> SUFFICES ASSUME Parent(q) # <<>> PROVE FALSE
        OBVIOUS
      <4>1. Parent(q) \in Paths
        BY <1>9, PathsArePaths
      <4>2. Len(Parent(q)) \in Nat
        BY <4>1, PathsArePaths
      <4> QED BY <1>17, <2>1, <4>2 DEF NameFrom
    <3> QED BY <1>2, <2>1, <3>1
  <2>2. CASE n > 0
    <3> DEFINE r == Parent(q)
               s == NodeOf(dir)
    <3>1. r # <<>>
      BY <1>17, <2>2 DEF NameFrom
    <3>2. n = Len(r) + 1 /\ \A j \in 1 .. Len(r) : q[j] = r[j]
      BY <1>9, <1>17, <3>1, ParentIs
    <3>3. r \in Paths /\ r \in Path /\ Len(r) \in Nat
      BY <1>9, <3>1, PathsArePaths
    <3>4. dir # Top /\ dir \in EntriesOf(tree) /\ dir.kind = "dir" /\ d = dir.path
      BY <1>1, <1>2, <2>2 DEF IsDir, Prefix
    <3>5. s \in Paths /\ dir = NewEntry(tree, s) /\ tree[s].kind = "dir"
      BY <3>4, EntryOf
    <3>6. s \in Path /\ Len(s) \in Nat
      BY <3>5, PathsArePaths
    <3>7. Len(d) = Len(s) + 1 /\ \A j \in 1 .. Len(s) : d[j] = s[j]
      BY <3>4, <3>5, EntryPath
    <3> HIDE DEF r, s
    <3>8. Len(r) = Len(s) /\ \A j \in 1 .. Len(r) : r[j] = s[j]
      <4>1. Len(r) = Len(s) /\ n = Len(s) + 1
        <5>1. n = Len(r) + 1 /\ n = Len(s) + 1
          BY <1>2, <3>2, <3>7
        <5>2. Len(r) \in Nat /\ Len(s) \in Nat
          BY <3>3, <3>6
        <5> QED BY <5>1, <5>2
      <4>2. ASSUME NEW j \in 1 .. Len(r) PROVE r[j] = s[j]
        <5>1. j \in 1 .. n /\ j \in 1 .. Len(s)
          BY <3>6, <4>1
        <5> QED BY <1>12, <3>2, <3>7, <4>2, <5>1
      <4> QED BY <4>1, <4>2
    <3>9. r = s
      BY <3>3, <3>6, <3>8, SeqEqual DEF Path
    <3> QED BY <3>4, <3>9 DEF r, s
  <2> QED BY <1>2, <2>1, <2>2
<1>19. c \in Children(tree, dir)
  BY <1>18 DEF Children
<1> QED BY <1>9, <1>19

(* What is not a directory comes before everything in the directories beside it. *)
LEMMA FileBeforeSubtree ==
  ASSUME NEW tree, NEW dir, IsDir(tree, dir), NEW f \in Children(tree, dir), f.kind # "dir",
         NEW c \in Children(tree, dir), c.kind = "dir", NEW p \in Path, Leads(c.path, p)
  PROVE  CompareGlobally(f.path, p)
<1>1. PICK n, d, l, r : n = Len(Prefix(dir)) /\ d = Prefix(dir) /\ l = f.path /\ r = c.path
  OBVIOUS
<1>2. /\ n \in Nat /\ n < Len(l) /\ n < Len(r) /\ l \in Path /\ r \in Path
      /\ \A j \in 1 .. n : l[j] = d[j] /\ r[j] = d[j]
  BY <1>1, ChildFacts, PrefixOf, EntryOf
<1>3. EntryBehind(f, n) /\ EntryBehind(c, n)
  BY <1>1, ChildFacts
<1>4. \A j \in n + 1 .. Len(l) : l[j] # Slash
  BY <1>1, <1>3 DEF EntryBehind
<1>5. r[Len(r)] = Slash
  <2>1. Len(r) \in n + 1 .. Len(r)
    BY <1>2 DEF Path
  <2> QED BY <1>1, <1>3, <2>1 DEF EntryBehind
<1>6. Len(l) \in Nat /\ Len(r) \in Nat /\ Len(p) \in Nat
  BY <1>2 DEF Path
<1>7. Leads(r, p)
  BY <1>1
<1>8. n <= Len(p) /\ \A j \in 1 .. n : l[j] = p[j]
  BY <1>2, <1>6, <1>7 DEF Leads
<1>9. \E j \in n + 1 .. Len(p) : p[j] = Slash
  <2>1. Len(r) \in n + 1 .. Len(p) /\ p[Len(r)] = Slash
    BY <1>2, <1>5, <1>6, <1>7 DEF Leads
  <2> QED BY <2>1
<1>10. CompareGlobally(l, p)
  <2>1. n <= Len(l) /\ \A j \in 1 .. n : l[j] = p[j]
    BY <1>2, <1>6, <1>8
  <2> QED BY <1>2, <1>4, <1>8, <1>9, <2>1, FilesFirst
<1> QED BY <1>1, <1>10

(* Two directories in one are in the order of everything in them. *)
LEMMA SubtreeBeforeSubtree ==
  ASSUME NEW tree, NEW dir, IsDir(tree, dir),
         NEW b \in Children(tree, dir), b.kind = "dir",
         NEW c \in Children(tree, dir), c.kind = "dir", GloballyLess(b, c),
         NEW p \in Path, Leads(b.path, p), NEW q \in Path, Leads(c.path, q)
  PROVE  CompareGlobally(p, q)
<1>1. PICK n : n = Len(Prefix(dir))
  OBVIOUS
<1>2. n \in Nat /\ b.path \in Path /\ c.path \in Path /\ IsPrefix(b.path) /\ IsPrefix(c.path)
  BY <1>1, ChildFacts, PrefixOf, EntryOf
<1>3. EntryBehind(b, n) /\ EntryBehind(c, n)
  BY <1>1, ChildFacts
<1>4. \A j \in 1 .. n : b.path[j] = c.path[j]
  BY <1>1, ChildFacts
<1>5. CompareGlobally(b.path, c.path) /\ b.path # c.path
  BY DEF GloballyLess, CompareGlobally
<1>6. PICK k \in Nat \ {0} : DiffersAt(b.path, c.path, k)
  BY <1>2, <1>5, DifferenceExists DEF Path
<1>7. k > n
  <2>1. n < Len(b.path) /\ n < Len(c.path)
    BY <1>3 DEF EntryBehind
  <2>2. \A j \in 1 .. n : CharAt(b.path, j) = CharAt(c.path, j)
    BY <1>2, <1>4, <2>1 DEF CharAt, Path
  <2>3. CharAt(b.path, k) # CharAt(c.path, k)
    BY <1>6 DEF DiffersAt
  <2> QED BY <1>2, <2>2, <2>3
<1>8. DiffersAt(c.path, b.path, k)
  BY <1>6 DEF DiffersAt
<1>9. Deeper(b.path, k) /\ Deeper(c.path, k)
  BY <1>2, <1>3, <1>6, <1>7, <1>8, DeeperIsDirectory
<1>10. k <= Len(b.path) /\ k <= Len(c.path)
  BY <1>2, <1>9 DEF Deeper, Path
<1> QED BY <1>2, <1>5, <1>6, <1>10, SubtreesInOrder
-----------------------------------------------------------------------------
(* A sequence is as long as its domain says. *)
LEMMA SameLength ==
  ASSUME NEW S, NEW list \in Seq(S), NEW n \in Nat, DOMAIN list = 1 .. n
  PROVE  Len(list) = n
<1>1. Len(list) \in Nat /\ 1 .. Len(list) = 1 .. n
  BY LenProperties
<1>2. ~(Len(list) < n)
  <2> SUFFICES ASSUME Len(list) < n PROVE FALSE
    OBVIOUS
  <2>1. n \in 1 .. n /\ n \notin 1 .. Len(list)
    BY <1>1
  <2> QED BY <1>1, <2>1
<1>3. ~(n < Len(list))
  <2> SUFFICES ASSUME n < Len(list) PROVE FALSE
    OBVIOUS
  <2>1. Len(list) \in 1 .. Len(list) /\ Len(list) \notin 1 .. n
    BY <1>1
  <2> QED BY <1>1, <2>1
<1> QED BY <1>1, <1>2, <1>3

(* A strict order of a finite set, and what comes before an element in it. *)
Orders(R, S) ==
  /\ IsFiniteSet(S)
  /\ \A e \in S : <<e, e>> \notin R
  /\ \A e, f, g \in S : <<e, f>> \in R /\ <<f, g>> \in R => <<e, g>> \in R
  /\ \A e, f \in S : e = f \/ <<e, f>> \in R \/ <<f, e>> \in R

AheadBy(R, S, e) == {f \in S : <<f, e>> \in R}

(* The later an element, the more come before it. *)
LEMMA AheadGrows ==
  ASSUME NEW R, NEW S, Orders(R, S), NEW e \in S, NEW f \in S
  PROVE  /\ Cardinality(AheadBy(R, S, e)) \in 0 .. Cardinality(S) - 1
         /\ <<e, f>> \in R => Cardinality(AheadBy(R, S, e)) < Cardinality(AheadBy(R, S, f))
<1>1. /\ IsFiniteSet(S) /\ Cardinality(S) \in Nat
      /\ IsFiniteSet(AheadBy(R, S, e)) /\ Cardinality(AheadBy(R, S, e)) \in Nat
      /\ IsFiniteSet(AheadBy(R, S, f)) /\ Cardinality(AheadBy(R, S, f)) \in Nat
  <2>1. AheadBy(R, S, e) \in SUBSET S /\ AheadBy(R, S, f) \in SUBSET S /\ IsFiniteSet(S)
    BY DEF AheadBy, Orders
  <2>2. IsFiniteSet(AheadBy(R, S, e)) /\ IsFiniteSet(AheadBy(R, S, f))
    BY <2>1, FS_Subset
  <2> QED BY <2>1, <2>2, FS_CardinalityType
<1>2. Cardinality(AheadBy(R, S, e)) < Cardinality(S)
  <2>1. AheadBy(R, S, e) \in SUBSET S /\ e \notin AheadBy(R, S, e)
    BY DEF AheadBy, Orders
  <2>2. AheadBy(R, S, e) # S
    BY <2>1
  <2>3. /\ Cardinality(AheadBy(R, S, e)) <= Cardinality(S)
        /\ Cardinality(S) # Cardinality(AheadBy(R, S, e))
    BY <1>1, <2>1, <2>2, FS_Subset
  <2> QED BY <1>1, <2>3
<1>3. ASSUME <<e, f>> \in R
      PROVE  Cardinality(AheadBy(R, S, e)) < Cardinality(AheadBy(R, S, f))
  <2>1. AheadBy(R, S, e) \in SUBSET AheadBy(R, S, f)
    BY <1>3 DEF AheadBy, Orders
  <2>2. e \in AheadBy(R, S, f) /\ e \notin AheadBy(R, S, e)
    BY <1>3 DEF AheadBy, Orders
  <2>3. AheadBy(R, S, e) # AheadBy(R, S, f)
    BY <2>2
  <2>4. /\ Cardinality(AheadBy(R, S, e)) <= Cardinality(AheadBy(R, S, f))
        /\ Cardinality(AheadBy(R, S, f)) # Cardinality(AheadBy(R, S, e))
    BY <1>1, <2>1, <2>3, FS_Subset
  <2> QED BY <1>1, <2>4
<1> QED BY <1>1, <1>2, <1>3

(* So no two have as many before them. *)
LEMMA RankIsUnique ==
  ASSUME NEW R, NEW S, Orders(R, S), NEW e \in S, NEW f \in S,
         Cardinality(AheadBy(R, S, e)) = Cardinality(AheadBy(R, S, f))
  PROVE  e = f
<1>1. PICK m : m = Cardinality(AheadBy(R, S, e)) /\ m = Cardinality(AheadBy(R, S, f))
  OBVIOUS
<1>2. IsFiniteSet(S) /\ Cardinality(S) \in Nat
  BY FS_CardinalityType DEF Orders
<1>3. m \in 0 .. Cardinality(S) - 1
  BY <1>1, AheadGrows
<1>4. ~(m < m)
  BY <1>2, <1>3
<1>5. <<e, f>> \notin R /\ <<f, e>> \notin R
  BY <1>1, <1>4, AheadGrows
<1> QED BY <1>5 DEF Orders

(* Every number of them is met. *)
LEMMA EveryRank ==
  ASSUME NEW R, NEW S, Orders(R, S), NEW k \in 1 .. Cardinality(S)
  PROVE  \E e \in S : Cardinality(AheadBy(R, S, e)) = k - 1
<1> DEFINE n == Cardinality(S)
           rank == [e \in S |-> Cardinality(AheadBy(R, S, e))]
<1>1. IsFiniteSet(S) /\ n \in Nat
  BY FS_CardinalityType DEF Orders
<1>2. rank \in [S -> 0 .. n - 1]
  BY AheadGrows
<1>3. \A e, f \in S : rank[e] = rank[f] => e = f
  BY RankIsUnique
<1> HIDE DEF rank
<1>4. rank \in Injection(S, 0 .. n - 1)
  BY <1>2, <1>3 DEF Injection, IsInjective
<1>5. IsFiniteSet(0 .. n - 1) /\ Cardinality(0 .. n - 1) = n
  <2>1. 0 \in Int /\ n - 1 \in Int
    BY <1>1
  <2>2. IsFiniteSet(0 .. n - 1) /\ Cardinality(0 .. n - 1) = IF 0 > n - 1 THEN 0 ELSE n - 1 - 0 + 1
    BY <2>1, FS_Interval
  <2> QED BY <1>1, <2>2
<1>6. rank \in Surjection(S, 0 .. n - 1)
  BY <1>4, <1>5, FS_Injection
<1>7. k - 1 \in 0 .. n - 1
  BY <1>1
<1>8. PICK e \in S : rank[e] = k - 1
  <2> HIDE DEF n
  <2> QED BY <1>6, <1>7 DEF Surjection
<1> QED BY <1>8 DEF rank

(* A list of all of S, in order. *)
Lists(list, R, S) ==
  /\ list \in Seq(S)
  /\ \A j, k \in 1 .. Len(list) : j < k => <<list[j], list[k]>> \in R
  /\ \A e \in S : \E k \in 1 .. Len(list) : list[k] = e

(* A list is one if its k-th entry has k - 1 of S before it. *)
LEMMA RankedInOrder ==
  ASSUME NEW R, NEW S, Orders(R, S), NEW list \in [1 .. Cardinality(S) -> S],
         \A k \in 1 .. Cardinality(S) : Cardinality(AheadBy(R, S, list[k])) = k - 1
  PROVE  Lists(list, R, S) /\ Len(list) = Cardinality(S)
<1> DEFINE n == Cardinality(S)
<1>1. n \in Nat
  BY FS_CardinalityType DEF Orders
<1>2. list \in [1 .. n -> S]
  OBVIOUS
<1>3. list \in Seq(S) /\ Len(list) = n
  <2> HIDE DEF n
  <2>1. list \in Seq(S) /\ DOMAIN list = 1 .. n
    BY <1>1, <1>2
  <2> QED BY <1>1, <2>1, SameLength
<1>4. ASSUME NEW j \in 1 .. n, NEW k \in 1 .. n, j < k PROVE <<list[j], list[k]>> \in R
  <2>1. PICK e, f : e = list[j] /\ f = list[k]
    OBVIOUS
  <2>2. /\ e \in S /\ f \in S
        /\ Cardinality(AheadBy(R, S, e)) = j - 1 /\ Cardinality(AheadBy(R, S, f)) = k - 1
    BY <2>1
  <2>3. ~(k - 1 < j - 1) /\ k - 1 # j - 1
    BY <1>1, <1>4
  <2>4. <<f, e>> \notin R
    BY <2>2, <2>3, AheadGrows
  <2>5. e # f
    BY <2>2, <2>3
  <2> QED BY <2>1, <2>2, <2>4, <2>5 DEF Orders
<1>5. ASSUME NEW e \in S PROVE \E k \in 1 .. n : list[k] = e
  <2> DEFINE k == Cardinality(AheadBy(R, S, e)) + 1
  <2>1. k \in 1 .. n /\ Cardinality(AheadBy(R, S, e)) = k - 1
    <3>1. Cardinality(AheadBy(R, S, e)) \in 0 .. n - 1
      BY AheadGrows
    <3> QED BY <1>1, <3>1
  <2> HIDE DEF k
  <2>2. PICK f : f = list[k]
    OBVIOUS
  <2>3. f \in S /\ Cardinality(AheadBy(R, S, f)) = k - 1
    BY <2>1, <2>2
  <2>4. e = f
    BY <2>1, <2>3, RankIsUnique
  <2> QED BY <2>1, <2>2, <2>4
<1> HIDE DEF n
<1> QED BY <1>3, <1>4, <1>5 DEF Lists, n

(* The places of a list that are selected, in their order. *)
LEMMA SelectedPlaces ==
  ASSUME NEW list, Len(list) \in Nat, NEW places \in SUBSET (1 .. Len(list))
  PROVE  \E at \in Seq(places) :
           /\ Selected(list, places) \in [1 .. Len(at) -> {list[k] : k \in places}]
           /\ \A m \in 1 .. Len(at) : Selected(list, places)[m] = list[at[m]]
           /\ \A j, k \in 1 .. Len(at) : j < k => at[j] < at[k]
           /\ \A k \in places : \E m \in 1 .. Len(at) : at[m] = k
<1> DEFINE R == {t \in places \X places : t[1] < t[2]}
           at == [m \in 1 .. Cardinality(places) |->
                    CHOOSE k \in places : Cardinality({j \in places : j < k}) = m - 1]
<1>1. \A j, k \in places : <<j, k>> \in R <=> j < k
  OBVIOUS
<1>2. \A k \in places : k \in Nat
  OBVIOUS
<1>3. IsFiniteSet(places)
  <2>1. IsFiniteSet(1 .. Len(list))
    BY FS_Interval
  <2> QED BY <2>1, FS_Subset
<1> HIDE DEF R
<1>4. Orders(R, places)
  BY <1>1, <1>2, <1>3 DEF Orders
<1>5. \A k \in places : AheadBy(R, places, k) = {j \in places : j < k}
  BY <1>1 DEF AheadBy
<1>6. ASSUME NEW m \in 1 .. Cardinality(places)
      PROVE  at[m] \in places /\ Cardinality(AheadBy(R, places, at[m])) = m - 1
  <2>1. \E k \in places : Cardinality({j \in places : j < k}) = m - 1
    <3>1. PICK k \in places : Cardinality(AheadBy(R, places, k)) = m - 1
      BY <1>4, EveryRank
    <3> QED BY <1>5, <3>1
  <2>2. at[m] \in places /\ Cardinality({j \in places : j < at[m]}) = m - 1
    BY <2>1
  <2> HIDE DEF at
  <2> QED BY <1>5, <2>2
<1>7. at \in [1 .. Cardinality(places) -> places]
  BY <1>6
<1>8. Selected(list, places) = [m \in 1 .. Cardinality(places) |-> list[at[m]]]
  BY DEF Selected
<1> HIDE DEF at
<1>9. \A m \in 1 .. Cardinality(places) : Cardinality(AheadBy(R, places, at[m])) = m - 1
  BY <1>6
<1>10. Lists(at, R, places) /\ Len(at) = Cardinality(places)
  BY <1>4, <1>7, <1>9, RankedInOrder
<1>11. at \in Seq(places) /\ \A k \in places : \E m \in 1 .. Len(at) : at[m] = k
  BY <1>10 DEF Lists
<1>12. \A j, k \in 1 .. Len(at) : j < k => at[j] < at[k]
  BY <1>1, <1>7, <1>10 DEF Lists
<1>13. /\ Selected(list, places) \in [1 .. Len(at) -> {list[k] : k \in places}]
       /\ \A m \in 1 .. Len(at) : Selected(list, places)[m] = list[at[m]]
  BY <1>7, <1>8, <1>10
<1> QED BY <1>11, <1>12, <1>13
-----------------------------------------------------------------------------
(* What std::sort may be given: entries whose paths are all different. *)
Sortable(S) ==
  /\ IsFiniteSet(S)
  /\ \A e \in S : e.path \in Path
  /\ \A e, f \in S : e.path = f.path => e = f

(* No entry comes before itself. *)
LEMMA LessIrreflexive ==
  ASSUME NEW e, e.path \in Path
  PROVE  ~GloballyLess(e, e)
BY Irreflexive DEF GloballyLess

(* The order of entries is transitive. *)
LEMMA LessTransitive ==
  ASSUME NEW e, NEW f, NEW g, e.path \in Path, f.path \in Path, g.path \in Path,
         GloballyLess(e, f), GloballyLess(f, g)
  PROVE  GloballyLess(e, g)
BY Transitive DEF GloballyLess

(* Entries with different paths are in one order or the other. *)
LEMMA LessTotal ==
  ASSUME NEW e, NEW f, e.path \in Path, f.path \in Path
  PROVE  \/ e.path = f.path /\ ~GloballyLess(e, f) /\ ~GloballyLess(f, e)
         \/ e.path # f.path /\ GloballyLess(e, f) /\ ~GloballyLess(f, e)
         \/ e.path # f.path /\ ~GloballyLess(e, f) /\ GloballyLess(f, e)
<1>1. CASE e.path = f.path
  BY <1>1, Irreflexive DEF GloballyLess
<1>2. CASE e.path # f.path
  BY <1>2, Total DEF GloballyLess
<1> QED BY <1>1, <1>2

(* What a sorted list of S is. *)
IsListOf(list, S) ==
  /\ list \in Seq(S) /\ IsSorted(list)
  /\ \A e \in S : \E k \in 1 .. Len(list) : list[k] = e

Order(S) == {t \in S \X S : GloballyLess(t[1], t[2])}

(* Sorting by GloballyLess puts every entry behind those that are less. *)
LEMMA OrderOrders ==
  ASSUME NEW S, Sortable(S)
  PROVE  Orders(Order(S), S) /\ \A e \in S : AheadBy(Order(S), S, e) = {f \in S : GloballyLess(f, e)}
<1>1. \A e, f \in S : <<e, f>> \in Order(S) <=> GloballyLess(e, f)
  BY DEF Order
<1>2. IsFiniteSet(S) /\ \A e \in S : <<e, e>> \notin Order(S)
  BY <1>1, LessIrreflexive DEF Sortable
<1>3. ASSUME NEW e \in S, NEW f \in S, NEW g \in S, <<e, f>> \in Order(S), <<f, g>> \in Order(S)
      PROVE  <<e, g>> \in Order(S)
  BY <1>1, <1>3, LessTransitive DEF Sortable
<1>4. ASSUME NEW e \in S, NEW f \in S
      PROVE  e = f \/ <<e, f>> \in Order(S) \/ <<f, e>> \in Order(S)
  BY <1>1, LessTotal DEF Sortable
<1>5. Orders(Order(S), S)
  BY <1>2, <1>3, <1>4 DEF Orders
<1> QED BY <1>1, <1>5 DEF AheadBy

(* A list in which every entry is behind those that are less is in order. *)
LEMMA ListsSorted ==
  ASSUME NEW S, Sortable(S), NEW list, Lists(list, Order(S), S)
  PROVE  IsListOf(list, S)
<1>1. list \in Seq(S) /\ DOMAIN list = 1 .. Len(list)
  BY DEF Lists
<1>2. \A e, f \in S : <<e, f>> \in Order(S) => GloballyLess(e, f)
  BY DEF Order
<1>3. ASSUME NEW j \in DOMAIN list, NEW k \in DOMAIN list, j < k
      PROVE  GloballyLess(list[j], list[k])
  <2>1. list[j] \in S /\ list[k] \in S
    BY <1>1, <1>3
  <2>2. <<list[j], list[k]>> \in Order(S)
    BY <1>1, <1>3 DEF Lists
  <2> QED BY <1>2, <2>1, <2>2
<1>4. IsSorted(list)
  BY <1>3 DEF IsSorted
<1> QED BY <1>4 DEF IsListOf, Lists

(* std::sort by compareGlobally. *)
LEMMA SortedGlobally ==
  ASSUME NEW S, Sortable(S)
  PROVE  IsListOf(Sorted(S, GloballyLess), S)
<1>1. PICK list : list = Sorted(S, GloballyLess)
  OBVIOUS
<1>2. ASSUME NEW k \in 1 .. Cardinality(S)
      PROVE  list[k] \in S /\ Cardinality(AheadBy(Order(S), S, list[k])) = k - 1
  <2>1. list[k] = CHOOSE e \in S : Cardinality({f \in S : GloballyLess(f, e)}) = k - 1
    BY <1>1 DEF Sorted
  <2>2. \E e \in S : Cardinality({f \in S : GloballyLess(f, e)}) = k - 1
    <3>1. PICK e \in S : Cardinality(AheadBy(Order(S), S, e)) = k - 1
      BY EveryRank, OrderOrders
    <3> QED BY <3>1, OrderOrders
  <2>3. list[k] \in S /\ Cardinality({f \in S : GloballyLess(f, list[k])}) = k - 1
    BY <2>1, <2>2
  <2> QED BY <2>3, OrderOrders
<1>3. list \in [1 .. Cardinality(S) -> S]
  BY <1>1, <1>2 DEF Sorted
<1>4. \A k \in 1 .. Cardinality(S) : Cardinality(AheadBy(Order(S), S, list[k])) = k - 1
  BY <1>2
<1>5. Lists(list, Order(S), S)
  BY <1>3, <1>4, RankedInOrder, OrderOrders
<1> QED BY <1>1, <1>5, ListsSorted

(* The order in which listDirectory sorts the entries of one directory gives
   the same list. *)
LEMMA SortedLocally ==
  ASSUME NEW S, Sortable(S), NEW n \in Nat, \A e \in S : EntryBehind(e, n),
         \A e, f \in S : \A j \in 1 .. n : e.path[j] = f.path[j]
  PROVE  IsListOf(Sorted(S, CompareLocally), S)
<1>1. PICK list : list = Sorted(S, CompareLocally)
  OBVIOUS
<1>2. ASSUME NEW e \in S
      PROVE  {f \in S : CompareLocally(f, e)} = {f \in S : GloballyLess(f, e)}
  <2> SUFFICES ASSUME NEW f \in S PROVE CompareLocally(f, e) <=> GloballyLess(f, e)
    OBVIOUS
  <2>1. CASE f.path = e.path
    <3>1. f = e
      BY <2>1 DEF Sortable
    <3>2. ~GloballyLess(e, e)
      BY LessIrreflexive DEF Sortable
    <3>3. ~CompareLocally(e, e)
      BY DEF CompareLocally, StringLess
    <3> QED BY <3>1, <3>2, <3>3
  <2>2. CASE f.path # e.path
    BY <2>2, LocallyIsGlobally
  <2> QED BY <2>1, <2>2
<1>3. ASSUME NEW k \in 1 .. Cardinality(S)
      PROVE  list[k] \in S /\ Cardinality(AheadBy(Order(S), S, list[k])) = k - 1
  <2>1. list[k] = CHOOSE e \in S : Cardinality({f \in S : CompareLocally(f, e)}) = k - 1
    BY <1>1 DEF Sorted
  <2>2. \E e \in S : Cardinality({f \in S : CompareLocally(f, e)}) = k - 1
    <3>1. PICK e \in S : Cardinality(AheadBy(Order(S), S, e)) = k - 1
      BY EveryRank, OrderOrders
    <3>2. AheadBy(Order(S), S, e) = {f \in S : CompareLocally(f, e)}
      BY <1>2, OrderOrders
    <3> QED BY <3>1, <3>2
  <2>3. list[k] \in S /\ Cardinality({f \in S : CompareLocally(f, list[k])}) = k - 1
    BY <2>1, <2>2
  <2> QED BY <1>2, <2>3, OrderOrders
<1>4. list \in [1 .. Cardinality(S) -> S]
  BY <1>1, <1>3 DEF Sorted
<1>5. \A k \in 1 .. Cardinality(S) : Cardinality(AheadBy(Order(S), S, list[k])) = k - 1
  BY <1>3
<1>6. Lists(list, Order(S), S)
  BY <1>4, <1>5, RankedInOrder, OrderOrders
<1> QED BY <1>1, <1>6, ListsSorted

(* Some places of a sorted list are a sorted list of what is at them. *)
LEMMA SelectedSorted ==
  ASSUME NEW S, NEW list, IsListOf(list, S), NEW places \in SUBSET (1 .. Len(list))
  PROVE  IsListOf(Selected(list, places), {list[k] : k \in places})
<1> DEFINE T == {list[k] : k \in places}
<1>1. list \in Seq(S) /\ Len(list) \in Nat /\ DOMAIN list = 1 .. Len(list) /\ IsSorted(list)
  BY DEF IsListOf
<1>2. PICK sel : sel = Selected(list, places)
  OBVIOUS
<1>3. PICK at \in Seq(places) :
           /\ sel \in [1 .. Len(at) -> T]
           /\ \A m \in 1 .. Len(at) : sel[m] = list[at[m]]
           /\ \A j, k \in 1 .. Len(at) : j < k => at[j] < at[k]
           /\ \A k \in places : \E m \in 1 .. Len(at) : at[m] = k
  BY <1>1, <1>2, SelectedPlaces
<1>4. Len(at) \in Nat /\ \A m \in 1 .. Len(at) : at[m] \in places
  OBVIOUS
<1> HIDE DEF T
<1>5. sel \in Seq(T) /\ DOMAIN sel = 1 .. Len(at)
  BY <1>3, <1>4
<1>6. Len(sel) = Len(at)
  BY <1>4, <1>5, SameLength
<1>7. IsSorted(sel)
  <2> SUFFICES ASSUME NEW j \in 1 .. Len(at), NEW k \in 1 .. Len(at), j < k
               PROVE  GloballyLess(sel[j], sel[k])
    BY <1>5 DEF IsSorted
  <2>1. at[j] \in DOMAIN list /\ at[k] \in DOMAIN list /\ at[j] < at[k]
    BY <1>1, <1>3, <1>4
  <2>2. GloballyLess(list[at[j]], list[at[k]])
    BY <1>1, <2>1 DEF IsSorted
  <2> QED BY <1>3, <2>2
<1>8. ASSUME NEW e \in T PROVE \E m \in 1 .. Len(sel) : sel[m] = e
  <2>1. PICK k \in places : e = list[k]
    BY DEF T
  <2>2. PICK m \in 1 .. Len(at) : at[m] = k
    BY <1>3
  <2> QED BY <1>3, <1>6, <2>1, <2>2
<1> QED BY <1>2, <1>5, <1>7, <1>8 DEF IsListOf, T
-----------------------------------------------------------------------------
(* The paths of the entries of a tree are all different. *)
LEMMA EntriesSortable ==
  ASSUME NEW tree, NEW S \in SUBSET EntriesOf(tree)
  PROVE  Sortable(S)
<1> DEFINE node == [e \in S |-> NodeOf(e)]
<1>1. node \in [S -> Paths]
  BY EntryOf
<1>2. ASSUME NEW e \in S, NEW f \in S, node[e] = node[f] PROVE e = f
  <2>1. e = NewEntry(tree, node[e]) /\ f = NewEntry(tree, node[f])
    BY EntryOf
  <2> HIDE DEF node
  <2> QED BY <1>2, <2>1
<1> HIDE DEF node
<1>3. node \in Injection(S, Paths)
  BY <1>1, <1>2 DEF Injection, IsInjective
<1>4. IsFiniteSet(S)
  BY <1>3, FS_Injection, SyncAssumption
<1>5. \A e \in S : e.path \in Path
  BY EntryOf
<1>6. \A e, f \in S : e.path = f.path => e = f
  BY EntryByPath
<1> QED BY <1>4, <1>5, <1>6 DEF Sortable

(* What a directory holds is listed in order. *)
LEMMA ListingSorted ==
  ASSUME NEW tree, NEW dir, IsDir(tree, dir)
  PROVE  IsListOf(Sorted(Children(tree, dir), CompareLocally), Children(tree, dir))
<1> DEFINE S == Children(tree, dir)
<1>1. PICK n, d : n = Len(Prefix(dir)) /\ d = Prefix(dir)
  OBVIOUS
<1>2. S \in SUBSET EntriesOf(tree)
  BY ChildFacts
<1>3. Sortable(S)
  BY <1>2, EntriesSortable
<1>4. n \in Nat
  BY <1>1, PrefixOf
<1>5. \A e \in S : EntryBehind(e, n) /\ \A j \in 1 .. n : e.path[j] = d[j]
  BY <1>1, ChildFacts
<1> HIDE DEF S
<1>6. (\A e \in S : EntryBehind(e, n)) /\ \A e, f \in S : \A j \in 1 .. n : e.path[j] = f.path[j]
  BY <1>5
<1>7. IsListOf(Sorted(S, CompareLocally), S)
  BY <1>3, <1>4, <1>6, SortedLocally
<1> QED BY <1>7 DEF S

(* The directories and the other entries of a sorted list stay sorted. *)
LEMMA KindsSorted ==
  ASSUME NEW S, NEW list, IsListOf(list, S)
  PROVE  /\ IsListOf(Files(list), {e \in S : e.kind # "dir"})
         /\ IsListOf(Directories(list), {e \in S : e.kind = "dir"})
<1>1. list \in Seq(S) /\ DOMAIN list = 1 .. Len(list) /\ \A e \in S : \E k \in 1 .. Len(list) : list[k] = e
  BY DEF IsListOf
<1>2. ASSUME NEW places \in SUBSET (1 .. Len(list)), NEW T,
             \A k \in 1 .. Len(list) : k \in places <=> list[k] \in T, T \subseteq S
      PROVE  IsListOf(Selected(list, places), T)
  <2>1. {list[k] : k \in places} = T
    BY <1>1, <1>2
  <2>2. IsListOf(Selected(list, places), {list[k] : k \in places})
    BY SelectedSorted
  <2> QED BY <2>1, <2>2
<1>3. \A k \in 1 .. Len(list) : list[k] \in S
  BY <1>1
<1>4. IsListOf(Files(list), {e \in S : e.kind # "dir"})
  <2> DEFINE places == {k \in DOMAIN list : list[k].kind # "dir"}
             T == {e \in S : e.kind # "dir"}
  <2>1. /\ places \in SUBSET (1 .. Len(list)) /\ T \subseteq S
        /\ \A k \in 1 .. Len(list) : k \in places <=> list[k] \in T
    BY <1>1, <1>3
  <2> HIDE DEF places, T
  <2>2. IsListOf(Selected(list, places), T)
    BY <1>2, <2>1
  <2> QED BY <2>2 DEF Files, places, T
<1>5. IsListOf(Directories(list), {e \in S : e.kind = "dir"})
  <2> DEFINE places == {k \in DOMAIN list : list[k].kind = "dir"}
             T == {e \in S : e.kind = "dir"}
  <2>1. /\ places \in SUBSET (1 .. Len(list)) /\ T \subseteq S
        /\ \A k \in 1 .. Len(list) : k \in places <=> list[k] \in T
    BY <1>1, <1>3
  <2> HIDE DEF places, T
  <2>2. IsListOf(Selected(list, places), T)
    BY <1>2, <2>1
  <2> QED BY <2>2 DEF Directories, places, T
<1> QED BY <1>4, <1>5

(* The stack gets them the other way round. *)
LEMMA ReverseStackIs ==
  ASSUME NEW S, NEW list, IsListOf(list, S)
  PROVE  LET R == ReverseStack(list)
         IN  /\ R \in Seq({e \in S : e.kind = "dir"})
             /\ \A j, k \in 1 .. Len(R) : j < k => GloballyLess(R[k], R[j])
             /\ \A e \in S : e.kind = "dir" => \E k \in 1 .. Len(R) : R[k] = e
<1> DEFINE T == {e \in S : e.kind = "dir"}
<1>1. PICK dirs, R : dirs = Directories(list) /\ R = ReverseStack(list)
  OBVIOUS
<1>2. IsListOf(dirs, T)
  BY <1>1, KindsSorted
<1> DEFINE n == Len(dirs)
<1>3. /\ n \in Nat /\ dirs \in Seq(T) /\ (\A k \in 1 .. n : dirs[k] \in T)
      /\ DOMAIN dirs = 1 .. n
      /\ \A e \in T : \E k \in 1 .. n : dirs[k] = e
  <2> HIDE DEF T
  <2> QED BY <1>2 DEF IsListOf
<1>4. \A j, k \in 1 .. n : j < k => GloballyLess(dirs[j], dirs[k])
  BY <1>2, <1>3 DEF IsListOf, IsSorted
<1>5. R = [k \in 1 .. n |-> dirs[n + 1 - k]]
  BY <1>1 DEF ReverseStack
<1> HIDE DEF n, T
<1>6. ASSUME NEW k \in 1 .. n PROVE n + 1 - k \in 1 .. n /\ n + 1 - (n + 1 - k) = k
  BY <1>3
<1>7. R \in [1 .. n -> T]
  BY <1>3, <1>5, <1>6
<1>8. R \in Seq(T)
  BY <1>3, <1>7
<1>9. Len(R) = n
  BY <1>3, <1>7, <1>8, SameLength
<1>10. ASSUME NEW j \in 1 .. n, NEW k \in 1 .. n, j < k PROVE GloballyLess(R[k], R[j])
  <2>1. n + 1 - k < n + 1 - j
    BY <1>3, <1>10
  <2> QED BY <1>4, <1>5, <1>6, <2>1
<1>11. ASSUME NEW e \in S, e.kind = "dir" PROVE \E k \in 1 .. n : R[k] = e
  <2>1. e \in T
    BY <1>11 DEF T
  <2>2. PICK k \in 1 .. n : dirs[k] = e
    BY <1>3, <2>1
  <2>3. n + 1 - k \in 1 .. n /\ R[n + 1 - k] = dirs[n + 1 - (n + 1 - k)]
    BY <1>5, <1>6
  <2> QED BY <1>6, <2>2, <2>3
<1> QED BY <1>1, <1>8, <1>9, <1>10, <1>11 DEF T
-----------------------------------------------------------------------------
(* What is in a directory, at any depth, and the directory itself. *)
In(dir, e) == Leads(Prefix(dir), e.path)

(* The walk so far: what is listed is in order and before everything that is
   still to be listed, the directories on the stack are in order, the first on
   top, and everything is listed or in one of them. *)
Walked(tree, D, L) ==
  /\ L \in Seq(EntriesOf(tree) \cup {Top}) /\ Len(L) >= 1 /\ L[1] = Top
  /\ \A k \in 2 .. Len(L) : L[k] \in EntriesOf(tree)
  /\ D \in Seq(EntriesOf(tree) \cup {Top}) /\ \A k \in 1 .. Len(D) : IsDir(tree, D[k])
  /\ \A j, k \in 2 .. Len(L) : j < k => GloballyLess(L[j], L[k])
  /\ \A k \in 1 .. Len(D), j \in 2 .. Len(L) : \A e \in EntriesOf(tree) :
       In(D[k], e) => GloballyLess(L[j], e)
  /\ \A k, m \in 1 .. Len(D) : k < m =>
       \A e, f \in EntriesOf(tree) : In(D[k], e) /\ In(D[m], f) => GloballyLess(f, e)
  /\ \A e \in EntriesOf(tree) :
       \/ \E j \in 2 .. Len(L) : L[j] = e
       \/ \E k \in 1 .. Len(D) : In(D[k], e)

(* A directory is one of the entries that its path begins. *)
LEMMA InItself ==
  ASSUME NEW tree, NEW dir, IsDir(tree, dir), dir # Top
  PROVE  dir \in EntriesOf(tree) /\ dir.kind = "dir" /\ In(dir, dir)
<1>1. dir \in EntriesOf(tree) /\ dir.kind = "dir" /\ Prefix(dir) = dir.path
  BY DEF IsDir, Prefix
<1>2. Len(dir.path) \in Nat
  BY <1>1, EntryOf
<1> QED BY <1>1, <1>2 DEF In, Leads

(* A directory comes before what is in it. *)
LEMMA DirBeforeContents ==
  ASSUME NEW tree, NEW dir, IsDir(tree, dir), dir # Top,
         NEW e \in EntriesOf(tree), In(dir, e), e # dir
  PROVE  GloballyLess(dir, e)
<1>1. dir \in EntriesOf(tree) /\ dir.kind = "dir" /\ Prefix(dir) = dir.path
  BY DEF IsDir, Prefix
<1>2. /\ dir.path \in Path /\ IsPrefix(dir.path) /\ dir.path # <<>>
      /\ e.path \in Path /\ Leads(dir.path, e.path)
  BY <1>1, EntryOf DEF In
<1>3. e.path # dir.path
  BY <1>1, EntryByPath
<1>4. CompareGlobally(dir.path, e.path)
  BY <1>2, <1>3, ContentsAfter
<1> QED BY <1>4 DEF GloballyLess

(* What is in a subdirectory is in the directory. *)
LEMMA ChildIn ==
  ASSUME NEW tree, NEW dir, IsDir(tree, dir), NEW c \in Children(tree, dir)
  PROVE  /\ c \in EntriesOf(tree) /\ In(dir, c) /\ c # dir
         /\ c.kind = "dir" => /\ IsDir(tree, c) /\ Prefix(c) = c.path
                              /\ \A e \in EntriesOf(tree) : In(c, e) => In(dir, e) /\ e # dir
<1>1. c \in EntriesOf(tree) /\ In(dir, c) /\ Len(Prefix(dir)) < Len(c.path)
  BY ChildFacts DEF In
<1>2. Prefix(dir) \in Path /\ Len(Prefix(dir)) \in Nat
  BY PrefixOf
<1>3. c # Top /\ c.path \in Path /\ Len(c.path) \in Nat
  BY <1>1, EntryOf
<1>4. c # dir
  <2> SUFFICES ASSUME c = dir PROVE FALSE
    OBVIOUS
  <2>1. Prefix(dir) = c.path
    BY <1>3 DEF Prefix
  <2> QED BY <1>1, <1>2, <2>1
<1>5. c.kind = "dir" => IsDir(tree, c) /\ Prefix(c) = c.path
  BY <1>1, <1>3 DEF IsDir, Prefix
<1>6. ASSUME c.kind = "dir", NEW e \in EntriesOf(tree), In(c, e) PROVE In(dir, e) /\ e # dir
  <2>1. e.path \in Path /\ Len(e.path) \in Nat /\ Leads(c.path, e.path) /\ e # Top
    BY <1>5, <1>6, EntryOf DEF In
  <2>2. Leads(Prefix(dir), e.path)
    BY <1>1, <1>2, <1>3, <2>1, LeadsTransitive DEF In
  <2>3. e # dir
    <3> SUFFICES ASSUME e = dir PROVE FALSE
      OBVIOUS
    <3>1. Prefix(dir) = e.path
      BY <2>1 DEF Prefix
    <3>2. Len(c.path) <= Len(e.path)
      BY <2>1 DEF Leads
    <3>3. Len(e.path) < Len(c.path)
      BY <1>1, <3>1
    <3> QED BY <1>3, <2>1, <3>2, <3>3
  <2> QED BY <2>2, <2>3 DEF In
<1> QED BY <1>1, <1>4, <1>5, <1>6

(* A sequence whose elements are of a set is one over it. *)
LEMMA SeqOf ==
  ASSUME NEW S, NEW T, NEW list \in Seq(S), \A k \in 1 .. Len(list) : list[k] \in T
  PROVE  list \in Seq(T)
<1>1. Len(list) \in Nat /\ list \in [1 .. Len(list) -> T]
  <2>1. Len(list) \in Nat /\ list \in [1 .. Len(list) -> S]
    BY LenProperties
  <2> QED BY <2>1
<1>2. \A n \in Nat : \A f \in [1 .. n -> T] : f \in Seq(T)
  OBVIOUS
<1> QED BY <1>1, <1>2

(* One step of the walk: a directory is taken off the stack and listed, its
   files after it, and its directories are put on the stack. *)
LEMMA WalkStep ==
  ASSUME NEW tree, IsTree(tree), NEW D, NEW L, Walked(tree, D, L), Len(D) > 0,
         NEW dir, dir = D[Len(D)],
         NEW F, IsListOf(F, {c \in Children(tree, dir) : c.kind # "dir"}),
         NEW R \in Seq({c \in Children(tree, dir) : c.kind = "dir"}),
         \A j, k \in 1 .. Len(R) : j < k => GloballyLess(R[k], R[j]),
         \A c \in Children(tree, dir) : c.kind = "dir" => \E k \in 1 .. Len(R) : R[k] = c,
         NEW H, H = IF dir = Top THEN L ELSE Append(L, dir)
  PROVE  Walked(tree, SubSeq(D, 1, Len(D) - 1) \o R, H \o F)
<1> DEFINE Ent == EntriesOf(tree)
           l == Len(L)
           h == Len(H)
           q == Len(D) - 1
           a == Len(F)
           b == Len(R)
<1>1. /\ L \in Seq(Ent \cup {Top}) /\ l \in Nat /\ l >= 1 /\ L[1] = Top
      /\ \A k \in 2 .. l : L[k] \in Ent
      /\ D \in Seq(Ent \cup {Top}) /\ Len(D) \in Nat /\ q \in Nat
      /\ \A k \in 1 .. Len(D) : IsDir(tree, D[k])
  BY DEF Walked
<1>2. \A j, k \in 2 .. l : j < k => GloballyLess(L[j], L[k])
  BY DEF Walked
<1>3. \A k \in 1 .. Len(D), j \in 2 .. l : \A e \in Ent : In(D[k], e) => GloballyLess(L[j], e)
  BY DEF Walked
<1>4. \A k, m \in 1 .. Len(D) : k < m =>
        \A e, f \in Ent : In(D[k], e) /\ In(D[m], f) => GloballyLess(f, e)
  BY DEF Walked
<1>5. \A e \in Ent : (\E j \in 2 .. l : L[j] = e) \/ (\E k \in 1 .. Len(D) : In(D[k], e))
  BY DEF Walked
<1>6. /\ F \in Seq({c \in Children(tree, dir) : c.kind # "dir"}) /\ a \in Nat
      /\ \A k \in 1 .. a : F[k] \in Children(tree, dir) /\ F[k].kind # "dir"
      /\ \A j, k \in 1 .. a : j < k => GloballyLess(F[j], F[k])
      /\ \A c \in Children(tree, dir) : c.kind # "dir" => \E k \in 1 .. a : F[k] = c
  <2>1. F \in Seq({c \in Children(tree, dir) : c.kind # "dir"}) /\ IsSorted(F)
    BY DEF IsListOf
  <2>2. a \in Nat /\ DOMAIN F = 1 .. a
    BY <2>1
  <2>3. \A k \in 1 .. a : F[k] \in {c \in Children(tree, dir) : c.kind # "dir"}
    BY <2>1
  <2>4. \A j, k \in 1 .. a : j < k => GloballyLess(F[j], F[k])
    BY <2>1, <2>2 DEF IsSorted
  <2>5. \A c \in Children(tree, dir) : c.kind # "dir" => \E k \in 1 .. a : F[k] = c
    BY DEF IsListOf
  <2> QED BY <2>1, <2>2, <2>3, <2>4, <2>5
<1>7. b \in Nat /\ \A k \in 1 .. b : R[k] \in Children(tree, dir) /\ R[k].kind = "dir"
  OBVIOUS
<1>8. IsDir(tree, dir) /\ Len(D) \in 1 .. Len(D) /\ D[Len(D)] = dir
  BY <1>1
<1>9. /\ H \in Seq(Ent \cup {Top}) /\ h \in Nat /\ h >= l /\ H[1] = Top
      /\ h = IF dir = Top THEN l ELSE l + 1
      /\ \A k \in 1 .. l : H[k] = L[k]
      /\ \A k \in l + 1 .. h : dir # Top /\ H[k] = dir /\ k = h
  <2>1. CASE dir = Top
    BY <1>1, <2>1
  <2>2. CASE dir # Top
    <3>1. dir \in Ent
      BY <1>8, <2>2, InItself
    <3>2. /\ Append(L, dir) \in Seq(Ent \cup {Top}) /\ Len(Append(L, dir)) = l + 1
          /\ Append(L, dir)[l + 1] = dir
          /\ \A k \in 1 .. l : Append(L, dir)[k] = L[k]
      <4> HIDE DEF Ent
      <4> QED BY <1>1, <3>1, AppendProperties
    <3>3. H = Append(L, dir)
      BY <2>2
    <3> HIDE DEF Ent, l
    <3> QED BY <1>1, <2>2, <3>2, <3>3
  <2> QED BY <2>1, <2>2
<1> DEFINE S == SubSeq(D, 1, q)
<1>10. S \in Seq(Ent \cup {Top}) /\ Len(S) = q /\ \A k \in 1 .. q : S[k] = D[k]
  <2>1. q <= Len(D)
    BY <1>1
  <2> HIDE DEF Ent, q
  <2> QED BY <1>1, <2>1, SubSeqProperties
<1> HIDE DEF S, q, l, h, a, b, Ent
<1> PICK L1, D1 : L1 = H \o F /\ D1 = S \o R
  OBVIOUS
<1>11. /\ L1 \in Seq(Ent \cup {Top}) /\ Len(L1) = h + a
       /\ \A k \in 1 .. h + a : L1[k] = IF k <= h THEN H[k] ELSE F[k - h]
  <2>1. F \in Seq(Ent \cup {Top})
    <3>1. \A k \in 1 .. a : F[k] \in Ent \cup {Top}
      BY <1>6, <1>8, ChildIn DEF Ent
    <3> QED BY <1>6, <3>1, SeqOf DEF a
  <2> QED BY <1>9, <2>1, ConcatProperties DEF h, a
<1>12. /\ D1 \in Seq(Ent \cup {Top}) /\ Len(D1) = q + b
       /\ \A k \in 1 .. q + b : D1[k] = IF k <= q THEN D[k] ELSE R[k - q]
  <2>1. R \in Seq(Ent \cup {Top})
    <3>1. \A k \in 1 .. b : R[k] \in Ent \cup {Top}
      BY <1>7, <1>8, ChildIn DEF Ent
    <3> QED BY <3>1, SeqOf DEF b
  <2>2. Len(S \o R) = Len(S) + b /\ S \o R \in Seq(Ent \cup {Top})
    BY <1>10, <2>1, ConcatProperties DEF b
  <2>3. \A k \in 1 .. Len(S) + b : (S \o R)[k] = IF k <= Len(S) THEN S[k] ELSE R[k - Len(S)]
    BY <1>10, <2>1, ConcatProperties DEF b
  <2>4. \A k \in 1 .. q + b : D1[k] = IF k <= q THEN S[k] ELSE R[k - q]
    BY <1>10, <2>3
  <2>5. q \in Nat /\ b \in Nat
    BY <1>1, <1>7
  <2>6. ASSUME NEW k \in 1 .. q + b PROVE D1[k] = IF k <= q THEN D[k] ELSE R[k - q]
    <3>1. k <= q => k \in 1 .. q
      BY <2>5
    <3>2. k <= q => S[k] = D[k]
      BY <1>10, <3>1
    <3> QED BY <2>4, <3>2
  <2> QED BY <1>10, <2>2, <2>6
<1> HIDE DEF a, b, l, h, q, Ent
<1>13. /\ l \in Nat /\ h \in Nat /\ a \in Nat /\ q \in Nat /\ b \in Nat /\ l >= 1 /\ h >= l
       /\ (dir # Top => h = l + 1) /\ (dir = Top => h = l)
       /\ Len(L1) = h + a /\ Len(D1) = q + b
  <2>1. a \in Nat /\ b \in Nat
    BY <1>6, <1>7
  <2>2. Len(L1) = h + a /\ Len(D1) = q + b
    BY <1>11, <1>12
  <2> QED BY <1>1, <1>9, <2>1, <2>2
<1>14. \A k \in 1 .. l : L1[k] = L[k]
  <2> SUFFICES ASSUME NEW k \in 1 .. l PROVE L1[k] = L[k]
    OBVIOUS
  <2>1. k \in 1 .. h + a /\ k <= h
    BY <1>13
  <2>2. L1[k] = H[k]
    BY <1>11, <2>1
  <2> QED BY <1>9, <2>2
<1>15. dir # Top => L1[h] = dir
  <2> SUFFICES ASSUME dir # Top PROVE L1[h] = dir
    OBVIOUS
  <2>1. h \in 1 .. h + a /\ h <= h /\ h \in l + 1 .. h
    BY <1>13
  <2>2. L1[h] = H[h]
    BY <1>11, <2>1
  <2> QED BY <1>9, <2>1, <2>2
<1>16. \A x \in 1 .. a : L1[h + x] = F[x]
  <2> SUFFICES ASSUME NEW x \in 1 .. a PROVE L1[h + x] = F[x]
    OBVIOUS
  <2>1. PICK m \in 1 .. h + a : m = h + x
    BY <1>13
  <2>2. ~(m <= h) /\ m - h = x
    BY <1>13, <2>1
  <2>3. L1[m] = F[m - h]
    BY <1>11, <2>2
  <2> QED BY <2>1, <2>2, <2>3
<1>17. \A k \in 1 .. q : D1[k] = D[k] /\ k \in 1 .. Len(D) /\ k < Len(D)
  <2> SUFFICES ASSUME NEW k \in 1 .. q PROVE D1[k] = D[k] /\ k \in 1 .. Len(D) /\ k < Len(D)
    OBVIOUS
  <2>1. k \in 1 .. q + b /\ k <= q
    BY <1>13
  <2>2. D1[k] = D[k]
    BY <1>12, <2>1
  <2>3. k \in 1 .. Len(D) /\ k < Len(D)
    BY <1>1 DEF q
  <2> QED BY <2>2, <2>3
<1>18. \A x \in 1 .. b : D1[q + x] = R[x]
  <2> SUFFICES ASSUME NEW x \in 1 .. b PROVE D1[q + x] = R[x]
    OBVIOUS
  <2>1. PICK m \in 1 .. q + b : m = q + x
    BY <1>13
  <2>2. ~(m <= q) /\ m - q = x
    BY <1>13, <2>1
  <2>3. D1[m] = R[m - q]
    BY <1>12, <2>2
  <2> QED BY <2>1, <2>2, <2>3

(* What is listed now is what was, or in the directory. *)
<1>19. ASSUME NEW k \in 2 .. Len(L1)
       PROVE  \/ k \in 2 .. l
              \/ k = h /\ dir # Top
              \/ \E x \in 1 .. a : k = h + x
  <2>1. CASE k <= h
    BY <1>13, <2>1
  <2>2. CASE h < k
    <3>1. k - h \in 1 .. a /\ k = h + (k - h)
      BY <1>13, <2>2
    <3> QED BY <3>1
  <2> QED BY <1>13, <2>1, <2>2
<1>20. ASSUME NEW k \in 1 .. Len(D1)
       PROVE  k \in 1 .. q \/ \E x \in 1 .. b : k = q + x
  <2>1. CASE q < k
    <3>1. k - q \in 1 .. b /\ k = q + (k - q)
      BY <1>13, <2>1
    <3> QED BY <3>1
  <2> QED BY <1>13, <2>1
<1>21. /\ \A x \in 1 .. a : F[x] \in Children(tree, dir) /\ F[x].kind # "dir" /\ F[x] \in Ent
                            /\ In(dir, F[x]) /\ F[x] # dir
       /\ \A x \in 1 .. b : R[x] \in Children(tree, dir) /\ R[x].kind = "dir"
                            /\ IsDir(tree, R[x]) /\ Prefix(R[x]) = R[x].path
                            /\ \A e \in Ent : In(R[x], e) => In(dir, e) /\ e # dir
  <2>1. ASSUME NEW x \in 1 .. a
        PROVE  F[x] \in Children(tree, dir) /\ F[x].kind # "dir" /\ F[x] \in Ent
               /\ In(dir, F[x]) /\ F[x] # dir
    <3>1. F[x] \in Children(tree, dir) /\ F[x].kind # "dir"
      BY <1>6
    <3> QED BY <1>8, <3>1, ChildIn DEF Ent
  <2>2. ASSUME NEW x \in 1 .. b
        PROVE  R[x] \in Children(tree, dir) /\ R[x].kind = "dir"
               /\ IsDir(tree, R[x]) /\ Prefix(R[x]) = R[x].path
               /\ \A e \in Ent : In(R[x], e) => In(dir, e) /\ e # dir
    <3>1. R[x] \in Children(tree, dir) /\ R[x].kind = "dir"
      BY <1>7
    <3> QED BY <1>8, <3>1, ChildIn DEF Ent
  <2> QED BY <2>1, <2>2
<1>22. dir # Top => dir \in Ent /\ dir.kind = "dir" /\ In(dir, dir)
  BY <1>8, InItself DEF Ent
<1>23. ASSUME NEW k \in 2 .. Len(L1)
       PROVE  L1[k] \in Ent /\ ((k \in 2 .. l /\ L1[k] = L[k]) \/ In(dir, L1[k]))
  <2>1. CASE k \in 2 .. l
    <3>1. k \in 1 .. l
      BY <1>13, <2>1
    <3>2. L1[k] = L[k]
      BY <1>14, <3>1
    <3> QED BY <1>1, <2>1, <3>2
  <2>2. CASE k = h /\ dir # Top
    BY <1>15, <1>22, <2>2
  <2>3. CASE \E x \in 1 .. a : k = h + x
    BY <1>16, <1>21, <2>3
  <2> QED BY <1>19, <2>1, <2>2, <2>3

(* Up to the directory itself, what is listed comes before what is in it. *)
<1>24. ASSUME NEW k \in 2 .. h, NEW e \in Ent, In(dir, e), e # dir
       PROVE  GloballyLess(L1[k], e)
  <2>1. k \in 2 .. l \/ (k = h /\ dir # Top)
    BY <1>13
  <2>2. CASE k \in 2 .. l
    <3>1. k \in 1 .. l
      BY <1>13, <2>2
    <3>2. L1[k] = L[k]
      BY <1>14, <3>1
    <3> QED BY <1>3, <1>8, <1>24, <2>2, <3>2
  <2>3. CASE k = h /\ dir # Top
    <3>1. GloballyLess(dir, e)
      BY <1>8, <1>24, <2>3, DirBeforeContents DEF Ent
    <3> QED BY <1>15, <2>3, <3>1
  <2> QED BY <2>1, <2>2, <2>3
<1>25. ASSUME NEW j \in 2 .. Len(L1), NEW k \in 2 .. Len(L1), j < k
       PROVE  GloballyLess(L1[j], L1[k])
  <2>1. CASE k <= l
    <3>1. j \in 2 .. l /\ k \in 2 .. l /\ j \in 1 .. l /\ k \in 1 .. l
      BY <1>13, <1>25, <2>1
    <3>2. L1[j] = L[j] /\ L1[k] = L[k]
      BY <1>14, <3>1
    <3> QED BY <1>2, <1>25, <3>1, <3>2
  <2>2. CASE l < k /\ k <= h
    <3>1. j \in 2 .. l /\ j \in 1 .. l /\ k = h /\ dir # Top
      BY <1>13, <1>25, <2>2
    <3>2. L1[j] = L[j] /\ L1[k] = dir
      BY <1>14, <1>15, <3>1
    <3>3. GloballyLess(L[j], dir)
      BY <1>3, <1>8, <1>22, <3>1
    <3> QED BY <3>2, <3>3
  <2>3. CASE h < k
    <3>1. PICK x \in 1 .. a : k = h + x
      <4>1. k - h \in 1 .. a /\ k = h + (k - h)
        BY <1>13, <2>3
      <4> QED BY <4>1
    <3>2. L1[k] = F[x]
      BY <1>16, <3>1
    <3>3. CASE j <= h
      <4>1. j \in 2 .. h
        BY <1>13, <3>3
      <4>2. F[x] \in Ent /\ In(dir, F[x]) /\ F[x] # dir
        BY <1>21
      <4> QED BY <1>24, <3>2, <4>1, <4>2
    <3>4. CASE h < j
      <4>1. PICK y \in 1 .. a : j = h + y
        <5>1. j - h \in 1 .. a /\ j = h + (j - h)
          BY <1>13, <3>4
        <5> QED BY <5>1
      <4>2. y < x
        BY <1>13, <1>25, <3>1, <4>1
      <4>3. L1[j] = F[y] /\ GloballyLess(F[y], F[x])
        BY <1>6, <1>16, <4>1, <4>2
      <4> QED BY <3>2, <4>3
    <3>5. j <= h \/ h < j
      BY <1>13
    <3> QED BY <3>3, <3>4, <3>5
  <2>4. k <= l \/ (l < k /\ k <= h) \/ h < k
    BY <1>13
  <2> QED BY <2>1, <2>2, <2>3, <2>4
<1>26. \A k \in 1 .. Len(D1) : IsDir(tree, D1[k])
  <2> SUFFICES ASSUME NEW k \in 1 .. Len(D1) PROVE IsDir(tree, D1[k])
    OBVIOUS
  <2>1. CASE k \in 1 .. q
    BY <1>1, <1>17, <2>1
  <2>2. CASE \E x \in 1 .. b : k = q + x
    BY <1>18, <1>21, <2>2
  <2> QED BY <1>20, <2>1, <2>2
<1>27. ASSUME NEW k \in 1 .. Len(D1), NEW j \in 2 .. Len(L1), NEW e \in Ent, In(D1[k], e)
       PROVE  GloballyLess(L1[j], e)
  <2>1. CASE k \in 1 .. q
    <3>1. k \in 1 .. Len(D) /\ k < Len(D) /\ In(D[k], e)
      BY <1>17, <1>27, <2>1
    <3>2. CASE j \in 2 .. l /\ L1[j] = L[j]
      BY <1>3, <3>1, <3>2
    <3>3. CASE In(dir, L1[j])
      <4>1. L1[j] \in Ent /\ In(D[Len(D)], L1[j])
        BY <1>8, <1>23, <3>3
      <4> QED BY <1>4, <1>8, <3>1, <4>1
    <3> QED BY <1>23, <3>2, <3>3
  <2>2. CASE \E x \in 1 .. b : k = q + x
    <3>1. PICK x \in 1 .. b : k = q + x
      BY <2>2
    <3>2. PICK c : c = R[x]
      OBVIOUS
    <3>3. /\ c \in Children(tree, dir) /\ c.kind = "dir" /\ In(c, e) /\ Prefix(c) = c.path
          /\ In(dir, e) /\ e # dir
      BY <1>18, <1>21, <1>27, <3>1, <3>2
    <3>4. CASE j <= h
      <4>1. j \in 2 .. h
        BY <1>13, <3>4
      <4> QED BY <1>24, <3>3, <4>1
    <3>5. CASE h < j
      <4>1. PICK y \in 1 .. a : j = h + y
        <5>1. j - h \in 1 .. a /\ j = h + (j - h)
          BY <1>13, <3>5
        <5> QED BY <5>1
      <4>2. PICK f : f = F[y]
        OBVIOUS
      <4>3. L1[j] = f /\ f \in Children(tree, dir) /\ f.kind # "dir"
        BY <1>16, <1>21, <4>1, <4>2
      <4>4. Leads(c.path, e.path) /\ e.path \in Path
        BY <3>3, EntryOf DEF In, Ent
      <4>5. CompareGlobally(f.path, e.path)
        BY <1>8, <3>3, <4>3, <4>4, FileBeforeSubtree
      <4> QED BY <4>3, <4>5 DEF GloballyLess
    <3> QED BY <1>13, <3>4, <3>5
  <2> QED BY <1>20, <2>1, <2>2
<1>28. ASSUME NEW k \in 1 .. Len(D1), NEW m \in 1 .. Len(D1), k < m,
              NEW e \in Ent, NEW f \in Ent, In(D1[k], e), In(D1[m], f)
       PROVE  GloballyLess(f, e)
  <2>1. CASE k \in 1 .. q
    <3>1. k \in 1 .. Len(D) /\ k < Len(D) /\ In(D[k], e)
      BY <1>17, <1>28, <2>1
    <3>2. CASE m \in 1 .. q
      <4>1. m \in 1 .. Len(D) /\ In(D[m], f)
        BY <1>17, <1>28, <3>2
      <4> QED BY <1>4, <1>28, <3>1, <4>1
    <3>3. CASE \E x \in 1 .. b : m = q + x
      <4>1. PICK x \in 1 .. b : m = q + x
        BY <3>3
      <4>2. In(R[x], f)
        BY <1>18, <1>28, <4>1
      <4>3. In(D[Len(D)], f)
        BY <1>8, <1>21, <4>2
      <4> QED BY <1>4, <1>8, <3>1, <4>3
    <3> QED BY <1>20, <3>2, <3>3
  <2>2. CASE q < k
    <3>1. PICK x \in 1 .. b : k = q + x
      <4>1. k - q \in 1 .. b /\ k = q + (k - q)
        BY <1>13, <2>2
      <4> QED BY <4>1
    <3>2. PICK y \in 1 .. b : m = q + y
      <4>1. m - q \in 1 .. b /\ m = q + (m - q)
        BY <1>13, <1>28, <2>2
      <4> QED BY <4>1
    <3>3. x < y
      BY <1>13, <1>28, <3>1, <3>2
    <3>4. PICK c, d : c = R[x] /\ d = R[y]
      OBVIOUS
    <3>5. /\ c \in Children(tree, dir) /\ c.kind = "dir" /\ Prefix(c) = c.path /\ In(c, e)
          /\ d \in Children(tree, dir) /\ d.kind = "dir" /\ Prefix(d) = d.path /\ In(d, f)
      BY <1>18, <1>21, <1>28, <3>1, <3>2, <3>4
    <3>6. GloballyLess(d, c)
      BY <3>3, <3>4 DEF b
    <3>7. f.path \in Path /\ e.path \in Path /\ Leads(d.path, f.path) /\ Leads(c.path, e.path)
      BY <3>5, EntryOf DEF In, Ent
    <3>8. CompareGlobally(f.path, e.path)
      BY <1>8, <3>5, <3>6, <3>7, SubtreeBeforeSubtree
    <3> QED BY <3>8 DEF GloballyLess
  <2>3. k \in 1 .. q \/ q < k
    BY <1>13
  <2> QED BY <2>1, <2>2, <2>3
<1>29. ASSUME NEW e \in Ent
       PROVE  (\E j \in 2 .. Len(L1) : L1[j] = e) \/ (\E k \in 1 .. Len(D1) : In(D1[k], e))
  <2>1. ASSUME NEW j \in 2 .. l, L[j] = e PROVE j \in 2 .. Len(L1) /\ L1[j] = e
    <3>1. j \in 2 .. Len(L1) /\ j \in 1 .. l
      BY <1>13
    <3> QED BY <1>14, <2>1, <3>1
  <2>2. ASSUME NEW k \in 1 .. q, In(D[k], e) PROVE k \in 1 .. Len(D1) /\ In(D1[k], e)
    <3>1. k \in 1 .. Len(D1)
      BY <1>13
    <3> QED BY <1>17, <2>2, <3>1
  <2>3. CASE In(dir, e)
    <3>1. CASE e = dir
      <4>1. dir # Top
        BY <3>1, EntryOf DEF Ent
      <4>2. h \in 2 .. Len(L1)
        BY <1>13, <4>1
      <4> QED BY <1>15, <3>1, <4>1, <4>2
    <3>2. CASE e # dir
      <4>1. PICK c \in Children(tree, dir) : c = e \/ (c.kind = "dir" /\ Leads(c.path, e.path))
        BY <1>8, <2>3, <3>2, ChildFound DEF In, Ent
      <4>2. CASE c.kind # "dir"
        <5>1. PICK x \in 1 .. a : F[x] = c
          BY <1>6, <4>2
        <5>2. h + x \in 2 .. Len(L1)
          BY <1>13
        <5>3. L1[h + x] = e
          BY <1>16, <4>1, <4>2, <5>1
        <5> QED BY <5>2, <5>3
      <4>3. CASE c.kind = "dir"
        <5>1. PICK x \in 1 .. b : R[x] = c
          BY <4>3 DEF b
        <5>2. q + x \in 1 .. Len(D1)
          BY <1>13
        <5>3. IsDir(tree, c) /\ Prefix(c) = c.path /\ c \in EntriesOf(tree)
          BY <1>8, <4>3, ChildIn
        <5>4. c # Top
          BY <5>3, EntryOf
        <5>5. In(c, e)
          <6>1. CASE c = e
            BY <5>3, <5>4, <6>1, InItself
          <6>2. CASE c # e
            BY <4>1, <5>3, <6>2 DEF In
          <6> QED BY <6>1, <6>2
        <5>6. In(D1[q + x], e)
          BY <1>18, <5>1, <5>5
        <5> QED BY <5>2, <5>6
      <4> QED BY <4>2, <4>3
    <3> QED BY <3>1, <3>2
  <2>4. (\E j \in 2 .. l : L[j] = e) \/ (\E k \in 1 .. q : In(D[k], e)) \/ In(dir, e)
    <3>1. \A k \in 1 .. Len(D) : k \in 1 .. q \/ k = Len(D)
      BY <1>1 DEF q
    <3> QED BY <1>5, <1>8, <3>1
  <2> QED BY <2>1, <2>2, <2>3, <2>4
<1>30. Len(L1) >= 1 /\ L1[1] = Top
  <2>1. 1 \in 1 .. l /\ Len(L1) >= 1
    BY <1>13
  <2> QED BY <1>1, <1>14, <2>1
<1>31. \A k \in 2 .. Len(L1) : L1[k] \in Ent
  BY <1>23
<1>32. L1 \in Seq(Ent \cup {Top}) /\ D1 \in Seq(Ent \cup {Top})
  BY <1>11, <1>12
<1>33. /\ \A j, k \in 2 .. Len(L1) : j < k => GloballyLess(L1[j], L1[k])
       /\ \A k \in 1 .. Len(D1), j \in 2 .. Len(L1) : \A e \in Ent :
            In(D1[k], e) => GloballyLess(L1[j], e)
  BY <1>25, <1>27
<1>34. \A k, m \in 1 .. Len(D1) : k < m =>
         \A e, f \in Ent : In(D1[k], e) /\ In(D1[m], f) => GloballyLess(f, e)
  BY <1>28
<1>35. \A e \in Ent :
         (\E j \in 2 .. Len(L1) : L1[j] = e) \/ (\E k \in 1 .. Len(D1) : In(D1[k], e))
  BY <1>29
<1>36. Walked(tree, D1, L1)
  BY <1>26, <1>30, <1>31, <1>32, <1>33, <1>34, <1>35, Zenon DEF Walked, Ent
<1> QED BY <1>36 DEF S, q
-----------------------------------------------------------------------------
(* The top, and some of S in order. *)
Listed(list, S) ==
  /\ list \in Seq(S \cup {Top}) /\ Len(list) >= 1 /\ list[1] = Top
  /\ \A k \in 2 .. Len(list) : list[k] \in S
  /\ \A j, k \in 2 .. Len(list) : j < k => GloballyLess(list[j], list[k])

AllListed(list, S) == \A e \in S : \E k \in 2 .. Len(list) : list[k] = e

(* A tree without what listDirectory passes over. *)
Shown(tree) == [p \in Paths |-> IF p \in Unlisted THEN None ELSE tree[p]]

(* The local list has an entry of everything that is to be on it. *)
SeenListed ==
  \A p \in Paths : Seen(p) <=> \E k \in 2 .. Len(localFiles) : localFiles[k] = NewEntry(before, p)

Trees ==
  /\ pc \in {"index", "merge", "transfer", "delete", "sizes", "done"}
  /\ IsTree(remote) /\ IsTree(before) /\ IsTree(local)
  /\ included \in SUBSET Paths /\ updated \in SUBSET Paths
  /\ Listed(remoteFiles, EntriesOf(remote)) /\ AllListed(remoteFiles, EntriesOf(remote))

Locals ==
  /\ Listed(localFiles, EntriesOf(before))
  /\ pc = "index" => local = before /\ i = 2 /\ index = 2 /\ queue = <<>> /\ updated = {} /\ failed = FALSE
  /\ pc = "index" /\ included = Everything => Walked(Shown(before), directories, localFiles)
  /\ pc # "index" \/ directories = <<>> => SeenListed

Merging ==
  pc = "merge" =>
    /\ i \in 2 .. Len(localFiles) + 1 /\ index \in 2 .. Len(remoteFiles) + 1
    /\ \A j \in 2 .. i - 1, m \in index .. Len(remoteFiles) :
         GloballyLess(localFiles[j], remoteFiles[m])
    /\ updated = {} /\ failed = FALSE

(* Nothing of what was there before is gone before the deletion, and nothing
   that was not a directory has become one. *)
Kept ==
  /\ pc \in {"index", "merge", "transfer"} => \A p \in Paths : before[p] # None => local[p] # None
  /\ \A p \in Paths : before[p] # None /\ before[p].kind # "dir" => local[p].kind # "dir"

(* The remote nodes that the merge has passed. *)
Passed(p) == \E m \in 2 .. index - 1 : NodeOf(remoteFiles[m]) = p

Handled(p) == remote[p] # None /\ (pc \in {"index", "merge"} => Passed(p))

Queued ==
  /\ queue \in Seq(2 .. Len(remoteFiles))
  /\ \A k \in 1 .. Len(queue) :
       /\ remoteFiles[queue[k]].kind = "file" /\ NodeOf(remoteFiles[queue[k]]) \notin Invalid
  /\ \A p \in Paths : (\E k \in 1 .. Len(queue) : NodeOf(remoteFiles[queue[k]]) = p)
                         <=> Needed(p) /\ Handled(p)

Deleting ==
  /\ pc = "transfer" => i \in 1 .. Len(queue) + 1
  /\ pc = "delete" =>
       /\ i \in 1 .. Len(localFiles) /\ index \in 1 .. Len(remoteFiles)
       /\ i > 1 => \A m \in index + 1 .. Len(remoteFiles) : GloballyLess(localFiles[i], remoteFiles[m])

IInv == Trees /\ Locals /\ Merging /\ Kept /\ Queued /\ Deleting

(* What the mirror rests on.  What is at a path has been there before or is
   there on the remote side; what can be reached, and does not have to change
   its kind, becomes what the remote side has. *)
Kinds == \A p \in Paths : local[p] # None => local[p].kind \in {before[p].kind, remote[p].kind}

Untouched ==
  \A p \in Paths : remote[p].kind = "special" /\ SameKind(p) => local[p] = before[p]

Made ==
  /\ \A p \in Paths :
       remote[p].kind = "dir" /\ before[p].kind \in {"none", "dir"} /\ ~Obstructed(p) /\ Handled(p)
         => local[p].kind = "dir"
  /\ included = Everything =>
       \A p \in Paths :
         remote[p].kind = "link" /\ SameKind(p) /\ ~Obstructed(p) /\ Handled(p)
           => local[p].kind = "link"

Fetched ==
  /\ \A p \in updated :
       remote[p].kind = "file" /\ (IsCurrent(p) \/ Obstructed(p) \/ before[p].kind = "dir")
  /\ \A p \in Paths :
       remote[p].kind = "file" /\ SameKind(p) /\ ~Needed(p) => local[p] = before[p]
  /\ pc \in {"transfer", "delete", "sizes", "done"} /\ ~failed =>
       \A k \in 1 .. Len(queue) :
         (pc = "transfer" => k < i) => NodeOf(remoteFiles[queue[k]]) \in updated

Cleared ==
  deletionEnabled /\ included = Everything =>
    /\ pc \in {"sizes", "done"} => i = 1
    /\ pc \in {"delete", "sizes", "done"} =>
         \A k \in i + 1 .. Len(localFiles) :
           remote[NodeOf(localFiles[k])] = None =>
             local[NodeOf(localFiles[k])] = None \/ ~Empty(local, NodeOf(localFiles[k]))

MirrorInv == Kinds /\ Untouched /\ Made /\ Fetched /\ Cleared
-----------------------------------------------------------------------------
(* What is at a path of a tree. *)
LEMMA NodeFacts ==
  ASSUME NEW tree, IsTree(tree), NEW p \in Paths
  PROVE  /\ tree[p] \in Nodes /\ tree[p].time \in Nat
         /\ tree[p] = None <=> tree[p].kind = "none"
         /\ tree[p] # None => Reachable(tree, p)
         /\ p \in Present(tree) <=> tree[p] # None
<1>1. tree[p] \in Nodes
  BY DEF IsTree
<1>2. None.kind = "none" /\ None.time = 0
  BY DEF None
<1>3. tree[p].time \in Nat /\ (tree[p] = None <=> tree[p].kind = "none")
  BY <1>1, <1>2 DEF Nodes
<1> QED BY <1>1, <1>3 DEF IsTree, Present

(* What is left of a tree is a tree: what is under an unlisted directory is
   unlisted too. *)
LEMMA ShownIs ==
  ASSUME NEW tree, IsTree(tree)
  PROVE  /\ IsTree(Shown(tree))
         /\ \A p \in Paths : p \in Present(Shown(tree)) <=> tree[p] # None /\ p \notin Unlisted
         /\ \A p \in Paths : p \notin Unlisted => NewEntry(Shown(tree), p) = NewEntry(tree, p)
<1> DEFINE t == Shown(tree)
<1>1. tree \in [Paths -> Nodes] /\ None \in Nodes
  BY DEF IsTree, Nodes
<1>2. \A p \in Paths : t[p] = IF p \in Unlisted THEN None ELSE tree[p]
  BY DEF Shown
<1>3. t \in [Paths -> Nodes]
  BY <1>1 DEF Shown
<1> HIDE DEF t
<1>4. ASSUME NEW p \in Paths, t[p] # None PROVE Reachable(t, p)
  <2>1. p \notin Unlisted /\ tree[p] # None
    BY <1>2, <1>4
  <2>2. Reachable(tree, p) /\ Parent(p) \notin Unlisted
    BY <2>1, SyncAssumption DEF IsTree
  <2>3. Parent(p) # <<>> => Parent(p) \in Paths
    BY SyncAssumption
  <2>4. Parent(p) # <<>> => t[Parent(p)] = tree[Parent(p)]
    BY <1>2, <2>2, <2>3
  <2> QED BY <2>2, <2>4 DEF Reachable
<1>5. IsTree(t)
  BY <1>3, <1>4 DEF IsTree
<1>6. \A p \in Paths : p \in Present(t) <=> tree[p] # None /\ p \notin Unlisted
  BY <1>2 DEF Present
<1>7. \A p \in Paths : p \notin Unlisted => NewEntry(t, p) = NewEntry(tree, p)
  BY <1>2 DEF NewEntry
<1> QED BY <1>5, <1>6, <1>7 DEF t

(* Its entries are those of the tree at paths that are not passed over. *)
LEMMA ShownEntries ==
  ASSUME NEW tree, IsTree(tree)
  PROVE  /\ EntriesOf(Shown(tree)) \subseteq EntriesOf(tree)
         /\ \A p \in Paths : tree[p] # None /\ p \notin Unlisted =>
              NewEntry(tree, p) \in EntriesOf(Shown(tree))
         /\ \A e \in EntriesOf(Shown(tree)) : NodeOf(e) \notin Unlisted
<1>1. ASSUME NEW e \in EntriesOf(Shown(tree)) PROVE e \in EntriesOf(tree) /\ NodeOf(e) \notin Unlisted
  <2>1. PICK p \in Paths : p = NodeOf(e)
    BY EntryOf
  <2>2. p \in Present(Shown(tree)) /\ e = NewEntry(Shown(tree), p)
    BY <2>1, EntryOf
  <2>3. tree[p] # None /\ p \notin Unlisted /\ e = NewEntry(tree, p)
    BY <2>2, ShownIs
  <2> QED BY <2>1, <2>3 DEF EntriesOf, Present
<1>2. ASSUME NEW p \in Paths, tree[p] # None, p \notin Unlisted
      PROVE  NewEntry(tree, p) \in EntriesOf(Shown(tree))
  <2>1. p \in Present(Shown(tree)) /\ NewEntry(Shown(tree), p) = NewEntry(tree, p)
    BY <1>2, ShownIs
  <2> QED BY <2>1 DEF EntriesOf
<1> QED BY <1>1, <1>2

(* What a directory holds of such a tree is what listDirectory makes of it. *)
LEMMA ShownChildren ==
  ASSUME NEW tree, IsTree(tree), NEW dir
  PROVE  Children(Shown(tree), dir) =
           {NewEntry(tree, p) : p \in {q \in Present(tree) \ Unlisted :
              Parent(q) = IF dir = Top THEN <<>> ELSE NodeOf(dir)}}
<1> DEFINE S == {q \in Present(tree) \ Unlisted : Parent(q) = IF dir = Top THEN <<>> ELSE NodeOf(dir)}
           T == {q \in Present(Shown(tree)) : Parent(q) = IF dir = Top THEN <<>> ELSE NodeOf(dir)}
<1>1. Present(tree) \subseteq Paths /\ Present(Shown(tree)) \subseteq Paths
  BY DEF Present
<1>2. Present(Shown(tree)) = Present(tree) \ Unlisted
  BY <1>1, ShownIs DEF Present
<1>3. T = S
  BY <1>2
<1>4. \A p \in S : NewEntry(Shown(tree), p) = NewEntry(tree, p)
  BY <1>1, ShownIs
<1>5. {NewEntry(Shown(tree), p) : p \in S} = {NewEntry(tree, p) : p \in S}
  BY <1>4
<1>6. Children(Shown(tree), dir) = {NewEntry(Shown(tree), p) : p \in S}
  BY <1>3 DEF Children
<1> QED BY <1>5, <1>6

(* A tree stays one when a path that nothing is under changes, and is
   reachable if something is there. *)
LEMMA TreeExcept ==
  ASSUME NEW tree, IsTree(tree), NEW p \in Paths, NEW node \in Nodes,
         node # None => Reachable(tree, p),
         node.kind # "dir" => \A q \in Paths : Parent(q) = p => tree[q] = None
  PROVE  IsTree([tree EXCEPT ![p] = node])
<1> DEFINE t == [tree EXCEPT ![p] = node]
<1>1. tree \in [Paths -> Nodes] /\ t \in [Paths -> Nodes]
  BY DEF IsTree
<1>2. t[p] = node /\ \A q \in Paths : q # p => t[q] = tree[q]
  BY <1>1
<1> HIDE DEF t
<1>3. ASSUME NEW q \in Paths, t[q] # None PROVE Reachable(t, q)
  <2>1. Reachable(tree, q)
    <3>1. CASE q = p
      BY <1>2, <1>3, <3>1
    <3>2. CASE q # p
      BY <1>2, <1>3, <3>2 DEF IsTree
    <3> QED BY <3>1, <3>2
  <2>2. CASE Parent(q) = <<>>
    BY <2>2 DEF Reachable
  <2>3. CASE Parent(q) # <<>>
    <3>1. Parent(q) \in Paths /\ tree[Parent(q)].kind = "dir"
      BY <2>1, <2>3, PathsArePaths DEF Reachable
    <3>2. CASE Parent(q) = p
      <4>1. q # p
        BY <3>2, ParentIsShorter
      <4>2. tree[q] # None
        BY <1>2, <1>3, <4>1
      <4>3. node.kind = "dir"
        BY <3>2, <4>2
      <4> QED BY <1>2, <3>2, <4>3 DEF Reachable
    <3>3. CASE Parent(q) # p
      BY <1>2, <3>1, <3>3 DEF Reachable
    <3> QED BY <3>2, <3>3
  <2> QED BY <2>2, <2>3
<1> QED BY <1>1, <1>3 DEF IsTree, t

(* What the removal of a node changes: the node at most, which a directory
   leaves only if it was empty. *)
LEMMA RemovedIs ==
  ASSUME NEW tree, IsTree(tree), NEW entry, NEW p \in Paths, NodeOf(entry) = p
  PROVE  /\ IsTree(Removed(tree, entry))
         /\ \A q \in Paths : q # p => Removed(tree, entry)[q] = tree[q]
         /\ Removed(tree, entry)[p] = None \/ Removed(tree, entry)[p] = tree[p]
         /\ Removed(tree, entry)[p] = None /\ tree[p] # None /\ entry.kind = "dir" =>
              tree[p].kind = "dir"
         /\ (entry.kind = "dir" => tree[p].kind = "dir") /\ (tree[p].kind = "dir" => Empty(tree, p)) =>
              Removed(tree, entry)[p] = None
<1> DEFINE t == [tree EXCEPT ![p] = None]
<1>1. CASE (entry.kind = "dir" => tree[p].kind = "dir") /\ (tree[p].kind = "dir" => Empty(tree, p))
  <2>1. Removed(tree, entry) = t
    BY <1>1 DEF Removed
  <2>2. tree \in [Paths -> Nodes]
    BY DEF IsTree
  <2>3. t[p] = None /\ \A q \in Paths : q # p => t[q] = tree[q]
    BY <2>2
  <2>4. \A q \in Paths : Parent(q) = p => tree[q] = None
    <3> SUFFICES ASSUME NEW q \in Paths, Parent(q) = p PROVE tree[q] = None
      OBVIOUS
    <3>1. tree[p].kind = "dir" => tree[q] = None
      BY <1>1 DEF Empty
    <3>2. tree[p].kind # "dir" => ~Reachable(tree, q)
      BY PathsArePaths DEF Reachable
    <3> QED BY <3>1, <3>2, NodeFacts
  <2>5. None \in Nodes
    BY DEF Nodes
  <2>6. IsTree(t)
    BY <2>4, <2>5, TreeExcept
  <2> HIDE DEF t
  <2> QED BY <1>1, <2>1, <2>3, <2>6
<1>2. CASE ~((entry.kind = "dir" => tree[p].kind = "dir") /\ (tree[p].kind = "dir" => Empty(tree, p)))
  <2>1. Removed(tree, entry) = tree
    BY <1>2 DEF Removed
  <2> QED BY <1>2, <2>1
<1> QED BY <1>1, <1>2

(* What the creation of a node changes: the node at most, if nothing was
   there and its directory exists. *)
LEMMA CreatedIs ==
  ASSUME NEW tree, IsTree(tree), NEW p \in Paths, NEW node \in Nodes, node # None
  PROVE  /\ IsTree(Created(tree, p, node))
         /\ \A q \in Paths : q # p => Created(tree, p, node)[q] = tree[q]
         /\ tree[p] = None /\ Reachable(tree, p) => Created(tree, p, node)[p] = node
         /\ ~(tree[p] = None /\ Reachable(tree, p)) => Created(tree, p, node) = tree
<1> DEFINE t == [tree EXCEPT ![p] = node]
<1>1. CASE tree[p] = None /\ Reachable(tree, p)
  <2>1. Created(tree, p, node) = t
    BY <1>1 DEF Created
  <2>2. tree \in [Paths -> Nodes]
    BY DEF IsTree
  <2>3. t[p] = node /\ \A q \in Paths : q # p => t[q] = tree[q]
    BY <2>2
  <2>4. \A q \in Paths : Parent(q) = p => tree[q] = None
    <3> SUFFICES ASSUME NEW q \in Paths, Parent(q) = p PROVE tree[q] = None
      OBVIOUS
    <3>1. tree[p].kind # "dir"
      BY <1>1, NodeFacts
    <3>2. ~Reachable(tree, q)
      BY <3>1, PathsArePaths DEF Reachable
    <3> QED BY <3>2, NodeFacts
  <2>5. IsTree(t)
    BY <1>1, <2>4, TreeExcept
  <2> HIDE DEF t
  <2> QED BY <1>1, <2>1, <2>3, <2>5
<1>2. CASE ~(tree[p] = None /\ Reachable(tree, p))
  <2>1. Created(tree, p, node) = tree
    BY <1>2 DEF Created
  <2> QED BY <1>2, <2>1
<1> QED BY <1>1, <1>2

(* Whether a path can be reached does not depend on what is at it. *)
LEMMA StillReachable ==
  ASSUME NEW s, NEW t, NEW p \in Paths, \A q \in Paths : q # p => t[q] = s[q]
  PROVE  Reachable(t, p) <=> Reachable(s, p)
<1>1. CASE Parent(p) = <<>>
  BY <1>1 DEF Reachable
<1>2. CASE Parent(p) # <<>>
  <2>1. Parent(p) \in Paths /\ Parent(p) # p
    BY <1>2, PathsArePaths, ParentIsShorter
  <2> QED BY <2>1 DEF Reachable
<1> QED BY <1>1, <1>2

(* What the installation of a file changes: the node at most, which is the
   new file afterwards if nothing prevents it. *)
LEMMA InstalledIs ==
  ASSUME NEW tree, IsTree(tree), NEW entry, NEW p \in Paths, NodeOf(entry) = p,
         entry.kind # "dir", entry.time \in Nat
  PROVE  /\ IsTree(Installed(tree, entry))
         /\ \A q \in Paths : q # p => Installed(tree, entry)[q] = tree[q]
         /\ tree[p] # None => Installed(tree, entry)[p] # None
         /\ tree[p].kind # "dir" => Installed(tree, entry)[p].kind # "dir"
         /\ tree[p].kind # "dir" /\ Reachable(tree, p) =>
              /\ Installed(tree, entry)[p].kind = "file"
              /\ Installed(tree, entry)[p].time = entry.time
<1>1. PICK t, cleared : t = Installed(tree, entry) /\ cleared = Removed(tree, entry)
  OBVIOUS
<1>2. /\ IsTree(cleared) /\ (\A q \in Paths : q # p => cleared[q] = tree[q])
      /\ cleared[p] = None \/ cleared[p] = tree[p]
      /\ tree[p].kind # "dir" => cleared[p] = None
  BY <1>1, RemovedIs
<1>3. Reachable(cleared, p) <=> Reachable(tree, p)
  BY <1>2, StillReachable
<1>4. CASE ~Reachable(tree, p)
  <2>1. t = tree
    BY <1>1, <1>4 DEF Installed
  <2> QED BY <1>1, <1>4, <2>1
<1>5. CASE Reachable(tree, p) /\ cleared[p] # None
  <2> DEFINE node == [cleared[p] EXCEPT !.time = entry.time]
  <2>1. t = [cleared EXCEPT ![p].time = entry.time]
    BY <1>1, <1>5 DEF Installed
  <2>2. cleared \in [Paths -> Nodes]
    BY <1>2 DEF IsTree
  <2>3. t = [cleared EXCEPT ![p] = node]
    BY <2>1
  <2>4. cleared[p] \in [kind : {"file", "dir", "link", "special"}, time : Nat]
    BY <1>5, <2>2 DEF Nodes
  <2>5. /\ node \in [kind : {"file", "dir", "link", "special"}, time : Nat]
        /\ node.kind = cleared[p].kind
    BY <2>4
  <2> HIDE DEF node
  <2>6. node \in Nodes /\ node # None
    BY <2>5 DEF Nodes, None
  <2>7. cleared[p].kind = "dir" /\ tree[p].kind = "dir"
    BY <1>2, <1>5
  <2>8. IsTree(t)
    BY <1>2, <1>3, <1>5, <2>3, <2>5, <2>6, <2>7, TreeExcept
  <2>9. t[p] = node /\ \A q \in Paths : q # p => t[q] = cleared[q]
    BY <2>2, <2>3
  <2> QED BY <1>1, <1>2, <2>6, <2>7, <2>8, <2>9
<1>6. CASE Reachable(tree, p) /\ cleared[p] = None
  <2> DEFINE node == [kind |-> "file", time |-> entry.time]
  <2>1. t = [cleared EXCEPT ![p] = node]
    BY <1>1, <1>6 DEF Installed
  <2>2. node \in Nodes /\ node # None /\ node.kind # "dir"
    BY DEF Nodes, None
  <2>3. \A q \in Paths : Parent(q) = p => cleared[q] = None
    <3> SUFFICES ASSUME NEW q \in Paths, Parent(q) = p PROVE cleared[q] = None
      OBVIOUS
    <3>1. cleared[p].kind # "dir"
      BY <1>2, <1>6, NodeFacts
    <3>2. ~Reachable(cleared, q)
      BY <3>1, PathsArePaths DEF Reachable
    <3> QED BY <1>2, <3>2, NodeFacts
  <2>4. IsTree(t)
    <3> HIDE DEF node
    <3> QED BY <1>2, <1>3, <1>6, <2>1, <2>2, <2>3, TreeExcept
  <2>5. cleared \in [Paths -> Nodes]
    BY <1>2 DEF IsTree
  <2>6. t[p] = node /\ \A q \in Paths : q # p => t[q] = cleared[q]
    BY <2>1, <2>5
  <2> QED BY <1>1, <1>2, <2>2, <2>4, <2>6
<1> QED BY <1>4, <1>5, <1>6
-----------------------------------------------------------------------------
(* The top and a sorted list after it. *)
LEMMA TopListed ==
  ASSUME NEW S, NEW list, IsListOf(list, S)
  PROVE  Listed(<<Top>> \o list, S) /\ AllListed(<<Top>> \o list, S)
<1>1. /\ list \in Seq(S) /\ Len(list) \in Nat /\ DOMAIN list = 1 .. Len(list)
      /\ (\A k \in 1 .. Len(list) : list[k] \in S)
      /\ \A e \in S : \E k \in 1 .. Len(list) : list[k] = e
  BY DEF IsListOf
<1>2. \A j, k \in 1 .. Len(list) : j < k => GloballyLess(list[j], list[k])
  BY <1>1 DEF IsListOf, IsSorted
<1> DEFINE n == Len(list)
<1>3. PICK l : l = <<Top>> \o list
  OBVIOUS
<1>4. <<Top>> \in Seq(S \cup {Top}) /\ Len(<<Top>>) = 1 /\ <<Top>>[1] = Top
  OBVIOUS
<1>5. list \in Seq(S \cup {Top})
  BY <1>1, SeqOf
<1>6. /\ l \in Seq(S \cup {Top}) /\ Len(l) = 1 + n
      /\ \A k \in 1 .. 1 + n : l[k] = IF k <= 1 THEN <<Top>>[k] ELSE list[k - 1]
  BY <1>3, <1>4, <1>5, ConcatProperties
<1>7. n \in Nat
  BY <1>1
<1> HIDE DEF n
<1>8. l[1] = Top /\ Len(l) >= 1
  BY <1>4, <1>6, <1>7
<1>9. ASSUME NEW k \in 2 .. Len(l) PROVE k - 1 \in 1 .. n /\ l[k] = list[k - 1]
  BY <1>6, <1>7
<1>10. \A k \in 2 .. Len(l) : l[k] \in S
  BY <1>1, <1>9 DEF n
<1>11. ASSUME NEW j \in 2 .. Len(l), NEW k \in 2 .. Len(l), j < k PROVE GloballyLess(l[j], l[k])
  <2>1. j - 1 < k - 1
    BY <1>11, <1>6, <1>7
  <2> QED BY <1>2, <1>9, <2>1 DEF n
<1>12. ASSUME NEW e \in S PROVE \E k \in 2 .. Len(l) : l[k] = e
  <2>1. PICK k \in 1 .. n : list[k] = e
    BY <1>1 DEF n
  <2>2. PICK m \in 2 .. Len(l) : m - 1 = k
    <3>1. k + 1 \in 2 .. Len(l) /\ k + 1 - 1 = k
      BY <1>6, <1>7
    <3> QED BY <3>1
  <2> QED BY <1>9, <2>1, <2>2
<1>13. Listed(l, S) /\ AllListed(l, S)
  BY <1>6, <1>8, <1>10, <1>11, <1>12 DEF Listed, AllListed
<1> QED BY <1>3, <1>13

(* The list of the remote side is in order and complete. *)
LEMMA RemoteListed ==
  ASSUME NEW tree, IsTree(tree)
  PROVE  /\ Listed(RemoteList(tree), EntriesOf(tree))
         /\ AllListed(RemoteList(tree), EntriesOf(tree))
<1>1. Sortable(EntriesOf(tree))
  BY EntriesSortable
<1>2. RemoteList(tree) = <<Top>> \o Sorted(EntriesOf(tree), GloballyLess)
  BY DEF RemoteList, EntriesOf
<1> QED BY <1>1, <1>2, SortedGlobally, TopListed

(* The entries of a list that is in order: as their places, so their paths. *)
LEMMA ListedFacts ==
  ASSUME NEW tree, NEW list, Listed(list, EntriesOf(tree))
  PROVE  /\ Len(list) \in Nat \ {0}
         /\ \A k \in 2 .. Len(list) : list[k] \in EntriesOf(tree) /\ list[k].path \in Path
         /\ \A j, k \in 2 .. Len(list) : j < k => GloballyLess(list[j], list[k])
         /\ \A j, k \in 2 .. Len(list) : list[j].path = list[k].path => j = k
<1>1. Len(list) \in Nat \ {0}
  BY DEF Listed
<1>2. \A k \in 2 .. Len(list) : list[k] \in EntriesOf(tree) /\ list[k].path \in Path
  BY EntryOf DEF Listed
<1>3. \A j, k \in 2 .. Len(list) : j < k => GloballyLess(list[j], list[k])
  BY DEF Listed
<1>4. ASSUME NEW j \in 2 .. Len(list), NEW k \in 2 .. Len(list), j < k
      PROVE  list[j].path # list[k].path
  BY <1>3, <1>4 DEF GloballyLess, CompareGlobally
<1>5. ASSUME NEW j \in 2 .. Len(list), NEW k \in 2 .. Len(list), list[j].path = list[k].path
      PROVE  j = k
  <2>1. ~(j < k) /\ ~(k < j)
    BY <1>4, <1>5
  <2> QED BY <2>1
<1> QED BY <1>1, <1>2, <1>3, <1>5

(* The merge stops at the local entry with the path of the remote one, and if
   it stops elsewhere there is none. *)
LEMMA NextLocalIs ==
  ASSUME NEW tree, Listed(localFiles, EntriesOf(tree)),
         NEW r, r.path \in Path, NEW from \in 2 .. Len(localFiles) + 1,
         \A j \in 2 .. from - 1 : GloballyLess(localFiles[j], r),
         NEW k, k = NextLocal(from, r)
  PROVE  /\ k \in from .. Len(localFiles) + 1
         /\ \A j \in 2 .. k - 1 : GloballyLess(localFiles[j], r)
         /\ k <= Len(localFiles) /\ ~GloballyLess(r, localFiles[k]) => localFiles[k].path = r.path
         /\ ~(k <= Len(localFiles) /\ ~GloballyLess(r, localFiles[k])) =>
              \A j \in 2 .. Len(localFiles) : localFiles[j].path # r.path
<1> DEFINE n == Len(localFiles)
           T == {m \in from .. n + 1 : m <= n => ~GloballyLess(localFiles[m], r)}
           Stop(m) == /\ \A j \in from .. m - 1 : GloballyLess(localFiles[j], r)
                      /\ m <= Len(localFiles) => ~GloballyLess(localFiles[m], r)
<1>1. /\ n \in Nat \ {0}
      /\ \A j \in 2 .. n : localFiles[j] \in EntriesOf(tree) /\ localFiles[j].path \in Path
      /\ \A j, m \in 2 .. n : j < m => GloballyLess(localFiles[j], localFiles[m])
  BY ListedFacts
<1>2. \E m \in from .. n + 1 : Stop(m)
  <2>1. T \subseteq Nat /\ n + 1 \in T
    BY <1>1
  <2>2. PICK m \in T : \A y \in T : m <= y
    <3> HIDE DEF T
    <3> QED BY <2>1, LeastNumber
  <2>3. m \in from .. n + 1 /\ (m <= n => ~GloballyLess(localFiles[m], r))
    OBVIOUS
  <2>4. ASSUME NEW j \in from .. m - 1 PROVE GloballyLess(localFiles[j], r)
    <3>1. j \in from .. n + 1 /\ ~(m <= j)
      BY <1>1, <2>3
    <3>2. j \notin T
      <4> HIDE DEF T
      <4> QED BY <2>2, <3>1
    <3> QED BY <3>1, <3>2
  <2> QED BY <2>3, <2>4
<1>3. k = CHOOSE m \in from .. Len(localFiles) + 1 : Stop(m)
  BY DEF NextLocal
<1>4. k \in from .. n + 1 /\ Stop(k)
  <2> HIDE DEF Stop
  <2> QED BY <1>2, <1>3
<1>5. ASSUME NEW j \in 2 .. k - 1 PROVE GloballyLess(localFiles[j], r)
  <2>1. j \in 2 .. from - 1 \/ j \in from .. k - 1
    BY <1>1, <1>4
  <2> QED BY <1>4, <2>1
<1>6. ASSUME k <= n, ~GloballyLess(r, localFiles[k]) PROVE localFiles[k].path = r.path
  <2>1. k \in 2 .. n /\ ~GloballyLess(localFiles[k], r)
    BY <1>1, <1>4, <1>6
  <2>2. localFiles[k].path \in Path
    BY <1>1, <2>1
  <2> QED BY <1>6, <2>1, <2>2, LessTotal
<1>7. ASSUME ~(k <= n /\ ~GloballyLess(r, localFiles[k])), NEW j \in 2 .. n
      PROVE  localFiles[j].path # r.path
  <2>1. PICK e : e = localFiles[j]
    OBVIOUS
  <2>2. e.path \in Path
    BY <1>1, <2>1
  <2>3. GloballyLess(e, r) \/ GloballyLess(r, e)
    <3>1. CASE j < k
      <4>1. j \in 2 .. k - 1
        BY <1>1, <1>4, <3>1
      <4> QED BY <1>5, <2>1, <4>1
    <3>2. CASE ~(j < k)
      <4>1. k \in 2 .. n /\ k <= n /\ (j = k \/ k < j)
        BY <1>1, <1>4, <3>2
      <4>2. GloballyLess(r, localFiles[k]) /\ localFiles[k].path \in Path
        BY <1>1, <1>7, <4>1
      <4>3. k < j => GloballyLess(localFiles[k], e)
        BY <1>1, <2>1, <4>1
      <4>4. k < j => GloballyLess(r, e)
        BY <2>2, <4>2, <4>3, LessTransitive
      <4> QED BY <2>1, <4>1, <4>2, <4>4
    <3> QED BY <3>1, <3>2
  <2>4. e.path # r.path
    BY <2>2, <2>3, LessTotal
  <2> QED BY <2>1, <2>4
<1> QED BY <1>4, <1>5, <1>6, <1>7

(* The deletion goes back to the remote entry with the path of the local one,
   and if it stops elsewhere there is none. *)
LEMMA NextRemoteIs ==
  ASSUME NEW tree, Listed(remoteFiles, EntriesOf(tree)),
         NEW l, l.path \in Path, index \in 1 .. Len(remoteFiles),
         \A m \in index + 1 .. Len(remoteFiles) : GloballyLess(l, remoteFiles[m]),
         NEW k, k = NextRemote(l)
  PROVE  /\ k \in 1 .. index
         /\ \A m \in k + 1 .. Len(remoteFiles) : GloballyLess(l, remoteFiles[m])
         /\ OnlyLocal(l, k) => \A m \in 2 .. Len(remoteFiles) : remoteFiles[m].path # l.path
         /\ ~OnlyLocal(l, k) => k \in 2 .. Len(remoteFiles) /\ remoteFiles[k].path = l.path
<1> DEFINE n == Len(remoteFiles)
           T == {m \in 1 .. index : m > 1 => ~GloballyLess(l, remoteFiles[m])}
           Stop(m) == /\ \A j \in m + 1 .. index : GloballyLess(l, remoteFiles[j])
                      /\ m > 1 => ~GloballyLess(l, remoteFiles[m])
<1>1. /\ n \in Nat \ {0} /\ index \in 1 .. n
      /\ \A j \in 2 .. n : remoteFiles[j] \in EntriesOf(tree) /\ remoteFiles[j].path \in Path
      /\ \A j, m \in 2 .. n : j < m => GloballyLess(remoteFiles[j], remoteFiles[m])
  BY ListedFacts
<1>2. \E m \in 1 .. index : Stop(m)
  <2>1. T \subseteq 0 .. index /\ 1 \in T
    BY <1>1
  <2>2. PICK m \in T : \A y \in T : y <= m
    <3>1. index \in Nat
      BY <1>1
    <3> HIDE DEF T
    <3> QED BY <2>1, <3>1, GreatestNumber
  <2>3. m \in 1 .. index /\ (m > 1 => ~GloballyLess(l, remoteFiles[m]))
    OBVIOUS
  <2>4. ASSUME NEW j \in m + 1 .. index PROVE GloballyLess(l, remoteFiles[j])
    <3>1. j \in 1 .. index /\ ~(j <= m) /\ j > 1
      BY <1>1, <2>3
    <3>2. j \notin T
      <4> HIDE DEF T
      <4> QED BY <2>2, <3>1
    <3> QED BY <3>1, <3>2
  <2> QED BY <2>3, <2>4
<1>3. k = CHOOSE m \in 1 .. index : Stop(m)
  BY DEF NextRemote
<1>4. k \in 1 .. index /\ Stop(k)
  <2> HIDE DEF Stop
  <2> QED BY <1>2, <1>3
<1>5. ASSUME NEW m \in k + 1 .. n PROVE GloballyLess(l, remoteFiles[m])
  <2>1. m \in k + 1 .. index \/ m \in index + 1 .. n
    BY <1>1, <1>4
  <2> QED BY <1>4, <2>1
<1>6. ASSUME ~OnlyLocal(l, k) PROVE k \in 2 .. n /\ remoteFiles[k].path = l.path
  <2>1. k \in 2 .. n /\ k > 1 /\ ~GloballyLess(remoteFiles[k], l)
    BY <1>1, <1>4, <1>6 DEF OnlyLocal
  <2>2. ~GloballyLess(l, remoteFiles[k]) /\ remoteFiles[k].path \in Path
    BY <1>1, <1>4, <2>1
  <2> QED BY <2>1, <2>2, LessTotal
<1>7. ASSUME OnlyLocal(l, k), NEW m \in 2 .. n PROVE remoteFiles[m].path # l.path
  <2>1. PICK e : e = remoteFiles[m]
    OBVIOUS
  <2>2. e.path \in Path
    BY <1>1, <2>1
  <2>3. GloballyLess(e, l) \/ GloballyLess(l, e)
    <3>1. CASE k < m
      <4>1. m \in k + 1 .. n
        BY <1>1, <1>4, <3>1
      <4> QED BY <1>5, <2>1, <4>1
    <3>2. CASE ~(k < m)
      <4>1. k \in 2 .. n /\ k > 1 /\ (m = k \/ m < k)
        BY <1>1, <1>4, <3>2
      <4>2. GloballyLess(remoteFiles[k], l) /\ remoteFiles[k].path \in Path
        BY <1>1, <1>4, <1>7, <4>1 DEF OnlyLocal
      <4>3. m < k => GloballyLess(e, remoteFiles[k])
        BY <1>1, <2>1, <4>1
      <4>4. m < k => GloballyLess(e, l)
        BY <2>2, <4>2, <4>3, LessTransitive
      <4> QED BY <2>1, <4>1, <4>2, <4>4
    <3> QED BY <3>1, <3>2
  <2>4. e.path # l.path
    BY <2>2, <2>3, LessTotal
  <2> QED BY <2>1, <2>4
<1> QED BY <1>4, <1>5, <1>6, <1>7
-----------------------------------------------------------------------------
(* A finished walk is a list of the whole tree. *)
LEMMA WalkIsListed ==
  ASSUME NEW tree, NEW D, NEW L, Walked(tree, D, L)
  PROVE  Listed(L, EntriesOf(tree)) /\ (D = <<>> => AllListed(L, EntriesOf(tree)))
BY DEF Walked, Listed, AllListed

(* Listed is monotonic in the set. *)
LEMMA ListedMore ==
  ASSUME NEW S, NEW T, S \subseteq T, NEW L, Listed(L, S)
  PROVE  Listed(L, T)
<1>1. L \in Seq(S \cup {Top}) /\ S \cup {Top} \subseteq T \cup {Top}
  BY DEF Listed
<1>2. \A k \in 1 .. Len(L) : L[k] \in T \cup {Top}
  BY <1>1, ElementOfSeq
<1>3. L \in Seq(T \cup {Top})
  BY <1>1, <1>2, SeqOf
<1> QED BY <1>3 DEF Listed

(* The walk starts with the top on the stack and nothing but it listed. *)
LEMMA WalkStarts ==
  ASSUME NEW tree, IsTree(tree)
  PROVE  Walked(tree, <<Top>>, <<Top>>)
<1>1. PICK l : l = <<Top>>
  OBVIOUS
<1>2. l \in Seq(EntriesOf(tree) \cup {Top}) /\ Len(l) = 1 /\ l[1] = Top
  BY <1>1
<1>3. \A k \in 1 .. Len(l) : l[k] = Top /\ IsDir(tree, l[k])
  BY <1>2 DEF IsDir
<1>4. \A e \in EntriesOf(tree) : In(l[1], e)
  <2> SUFFICES ASSUME NEW e \in EntriesOf(tree) PROVE In(l[1], e)
    OBVIOUS
  <2>1. Prefix(l[1]) = <<>> /\ Len(e.path) \in Nat
    BY <1>2, EntryOf DEF Prefix
  <2> QED BY <2>1 DEF In, Leads
<1>5. 2 .. Len(l) = {} /\ 1 \in 1 .. Len(l) /\ \A k, m \in 1 .. Len(l) : ~(k < m)
  BY <1>2
<1>6. Walked(tree, l, l)
  BY <1>2, <1>3, <1>4, <1>5 DEF Walked
<1> QED BY <1>1, <1>6

(* The invariant holds initially. *)
LEMMA InitIInv == Init => IInv
<1> SUFFICES ASSUME Init PROVE IInv
  OBVIOUS
<1>1. /\ pc = "index" /\ remote \in RemoteTrees /\ local \in LocalTrees /\ before = local
      /\ included \in Selections /\ directories = <<Top>> /\ localFiles = <<Top>>
      /\ remoteFiles = RemoteList(remote) /\ i = 2 /\ index = 2
      /\ queue = <<>> /\ updated = {} /\ failed = FALSE
  BY DEF Init
<1>2. IsTree(remote) /\ IsTree(local) /\ included \in SUBSET Paths
  BY <1>1, SyncAssumption
<1>3. Trees
  BY <1>1, <1>2, RemoteListed DEF Trees
<1>4. Walked(Shown(before), directories, localFiles)
  BY <1>1, <1>2, ShownIs, WalkStarts
<1>5. Locals
  <2>1. Listed(localFiles, EntriesOf(Shown(before)))
    BY <1>4, WalkIsListed
  <2>2. Listed(localFiles, EntriesOf(before))
    BY <1>1, <1>2, <2>1, ShownEntries, ListedMore
  <2>3. directories # <<>>
    BY <1>1
  <2> QED BY <1>1, <1>4, <2>2, <2>3 DEF Locals
<1>6. Merging /\ Deleting
  BY <1>1 DEF Merging, Deleting
<1>7. Kept
  BY <1>1 DEF Kept
<1>8. Queued
  <2>1. queue \in Seq(2 .. Len(remoteFiles)) /\ 1 .. Len(queue) = {}
    BY <1>1
  <2>2. \A p \in Paths : ~Handled(p)
    BY <1>1 DEF Handled, Passed
  <2> QED BY <2>1, <2>2 DEF Queued
<1> QED BY <1>3, <1>5, <1>6, <1>7, <1>8 DEF IInv
-----------------------------------------------------------------------------
(* While the local files are listed, nothing else changes. *)
LEMMA IndexKeeps ==
  ASSUME IInv, pc = "index", pc' = "index",
         UNCHANGED <<local, i, index, queue, updated, failed, sizes, constant>>,
         Listed(localFiles', EntriesOf(before)),
         included = Everything => Walked(Shown(before), directories', localFiles'),
         directories' = <<>> => SeenListed'
  PROVE  IInv'
<1>1. UNCHANGED <<remote, before, included, deletionEnabled, remoteFiles>>
  BY DEF constant
<1>2. Trees'
  BY <1>1 DEF IInv, Trees
<1>3. Locals'
  BY <1>1 DEF IInv, Locals, Shown
<1>4. Merging' /\ Deleting'
  BY DEF Merging, Deleting
<1>5. Kept'
  BY <1>1 DEF IInv, Kept
<1>6. Queued'
  BY <1>1 DEF IInv, Queued, Handled, Passed, Needed, Seen
<1> QED BY <1>2, <1>3, <1>4, <1>5, <1>6 DEF IInv

(* A walk that has ended has listed what is to be on the list, and nothing
   else. *)
LEMMA WalkIsComplete ==
  ASSUME IsTree(before), included = Everything, UNCHANGED <<before, included>>,
         NEW D, Walked(Shown(before), D, localFiles'), D = <<>>
  PROVE  SeenListed'
<1>1. PICK list : list = localFiles'
  OBVIOUS
<1>2. Listed(list, EntriesOf(Shown(before))) /\ AllListed(list, EntriesOf(Shown(before)))
  BY <1>1, WalkIsListed
<1>3. ASSUME NEW p \in Paths
      PROVE  Seen(p) <=> \E k \in 2 .. Len(list) : list[k] = NewEntry(before, p)
  <2>1. ASSUME Seen(p) PROVE \E k \in 2 .. Len(list) : list[k] = NewEntry(before, p)
    <3>1. before[p] # None /\ p \notin Unlisted
      BY <2>1 DEF Seen
    <3>2. NewEntry(before, p) \in EntriesOf(Shown(before))
      BY <3>1, ShownEntries
    <3> QED BY <1>2, <3>2 DEF AllListed
  <2>2. ASSUME NEW k \in 2 .. Len(list), list[k] = NewEntry(before, p) PROVE Seen(p)
    <3>1. list[k] \in EntriesOf(Shown(before))
      BY <1>2, <2>2 DEF Listed
    <3>2. PICK e : e = list[k]
      OBVIOUS
    <3>3. e \in EntriesOf(before) /\ NodeOf(e) \notin Unlisted
      BY <3>1, <3>2, ShownEntries
    <3>4. before[NodeOf(e)] # None
      BY <3>3, EntryOf
    <3>5. NodeOf(e) = p
      BY <2>2, <3>2, EntryNode
    <3> QED BY <3>3, <3>4, <3>5 DEF Seen
  <2> QED BY <2>1, <2>2
<1>4. \A p \in Paths : Seen(p)' <=> Seen(p)
  BY DEF Seen
<1> QED BY <1>1, <1>3, <1>4 DEF SeenListed, NewEntry

(* The walk of the local directories keeps the invariant. *)
LEMMA ListNextStep ==
  ASSUME IInv, ListNext
  PROVE  IInv'
<1> DEFINE tree == Shown(before)
           dir == directories[Len(directories)]
           list == Listing(dir)
           S == Children(tree, dir)
           H == IF dir = Top THEN localFiles ELSE Append(localFiles, dir)
<1>1. /\ pc = "index" /\ included = Everything /\ directories # <<>>
      /\ localFiles' = H \o Files(list)
      /\ directories' = SubSeq(directories, 1, Len(directories) - 1) \o ReverseStack(list)
      /\ UNCHANGED <<pc, local, i, index, queue, updated, failed, sizes, constant>>
  BY DEF ListNext
<1>2. /\ IsTree(before) /\ IsTree(tree) /\ local = before
      /\ Walked(tree, directories, localFiles)
  BY <1>1, ShownIs DEF IInv, Trees, Locals
<1>3. Len(directories) > 0 /\ IsDir(tree, dir)
  <2>1. directories \in Seq(EntriesOf(tree) \cup {Top})
    BY <1>2 DEF Walked
  <2>2. Len(directories) \in Nat /\ Len(directories) > 0
    BY <1>1, <2>1
  <2> QED BY <1>2, <2>2 DEF Walked
<1>4. list = Sorted(S, CompareLocally)
  <2>1. S = {NewEntry(before, p) : p \in {q \in Present(before) \ Unlisted :
              Parent(q) = IF dir = Top THEN <<>> ELSE NodeOf(dir)}}
    BY <1>2, ShownChildren
  <2> QED BY <1>2, <2>1 DEF Listing
<1>5. IsListOf(list, S)
  <2> HIDE DEF tree, dir, list
  <2> QED BY <1>3, <1>4, ListingSorted
<1> DEFINE F == Files(list)
           R == ReverseStack(list)
<1>6. IsListOf(F, {c \in S : c.kind # "dir"})
  <2> HIDE DEF list, S
  <2> QED BY <1>5, KindsSorted
<1>7. /\ R \in Seq({c \in S : c.kind = "dir"})
      /\ \A j, k \in 1 .. Len(R) : j < k => GloballyLess(R[k], R[j])
      /\ \A c \in S : c.kind = "dir" => \E k \in 1 .. Len(R) : R[k] = c
  <2>1. PICK T, l, r : T = S /\ l = list /\ r = R
    OBVIOUS
  <2>2. IsListOf(l, T) /\ r = ReverseStack(l)
    BY <1>5, <2>1
  <2>3. /\ r \in Seq({e \in T : e.kind = "dir"})
        /\ \A j, k \in 1 .. Len(r) : j < k => GloballyLess(r[k], r[j])
        /\ \A e \in T : e.kind = "dir" => \E k \in 1 .. Len(r) : r[k] = e
    BY <2>2, ReverseStackIs
  <2> HIDE DEF list, S, R
  <2> QED BY <2>1, <2>3
<1>8. Walked(tree, SubSeq(directories, 1, Len(directories) - 1) \o R, H \o F)
  <2>1. PICK d, h, ff, rr : d = dir /\ h = H /\ ff = F /\ rr = R
    OBVIOUS
  <2>2. d = directories[Len(directories)] /\ h = IF d = Top THEN localFiles ELSE Append(localFiles, d)
    BY <2>1
  <2>3. /\ IsListOf(ff, {c \in Children(tree, d) : c.kind # "dir"})
        /\ rr \in Seq({c \in Children(tree, d) : c.kind = "dir"})
        /\ \A j, k \in 1 .. Len(rr) : j < k => GloballyLess(rr[k], rr[j])
        /\ \A c \in Children(tree, d) : c.kind = "dir" => \E k \in 1 .. Len(rr) : rr[k] = c
    BY <1>6, <1>7, <2>1
  <2>4. Walked(tree, SubSeq(directories, 1, Len(directories) - 1) \o rr, h \o ff)
    <3> HIDE DEF tree, dir, list, S, H, F, R
    <3> QED BY <1>2, <1>3, <2>2, <2>3, WalkStep
  <2> QED BY <2>1, <2>4
<1>9. Walked(tree, directories', localFiles')
  BY <1>1, <1>8
<1>10. Listed(localFiles', EntriesOf(before))
  <2>1. Listed(localFiles', EntriesOf(tree))
    BY <1>9, WalkIsListed
  <2>2. EntriesOf(tree) \subseteq EntriesOf(before)
    BY <1>2, ShownEntries
  <2> QED BY <2>1, <2>2, ListedMore
<1>11. directories' = <<>> => SeenListed'
  BY <1>1, <1>2, <1>9, WalkIsComplete DEF constant
<1> QED BY <1>1, <1>9, <1>10, <1>11, IndexKeeps

(* The listing of the selected files keeps the invariant. *)
LEMMA ListIncludedStep ==
  ASSUME IInv, ListIncluded
  PROVE  IInv'
<1> DEFINE S == {NewEntry(local, p) : p \in {q \in included : local[q].kind \in {"file", "dir"}}}
<1>1. /\ pc = "index" /\ included # Everything
      /\ localFiles' = <<Top>> \o Sorted(S, GloballyLess)
      /\ UNCHANGED <<pc, local, i, index, queue, updated, failed, sizes, constant>>
      /\ UNCHANGED <<before, included>>
  BY DEF ListIncluded, constant
<1>2. IsTree(before) /\ local = before /\ included \subseteq Paths
  BY <1>1 DEF IInv, Trees, Locals
<1>3. S \subseteq EntriesOf(before)
  <2>1. \A p \in Paths : before[p].kind \in {"file", "dir"} => p \in Present(before)
    BY <1>2, NodeFacts
  <2> QED BY <1>2, <2>1 DEF EntriesOf
<1>4. Listed(localFiles', S) /\ AllListed(localFiles', S)
  <2> HIDE DEF S
  <2> QED BY <1>1, <1>3, EntriesSortable, SortedGlobally, TopListed
<1>5. Listed(localFiles', EntriesOf(before))
  <2> HIDE DEF S
  <2> QED BY <1>3, <1>4, ListedMore
<1>6. \A p \in Paths : Seen(p) <=> p \in included /\ before[p].kind \in {"file", "dir"}
  BY <1>1 DEF Seen
<1>7. ASSUME NEW p \in Paths
      PROVE  Seen(p) <=> \E k \in 2 .. Len(localFiles') : localFiles'[k] = NewEntry(before, p)
  <2>1. ASSUME Seen(p) PROVE \E k \in 2 .. Len(localFiles') : localFiles'[k] = NewEntry(before, p)
    <3>1. NewEntry(before, p) \in S
      BY <1>2, <1>6, <2>1
    <3> HIDE DEF S
    <3> QED BY <1>4, <3>1 DEF AllListed
  <2>2. ASSUME NEW k \in 2 .. Len(localFiles'), localFiles'[k] = NewEntry(before, p) PROVE Seen(p)
    <3>1. localFiles'[k] \in S
      <4> HIDE DEF S
      <4> QED BY <1>4, <2>2 DEF Listed
    <3>2. PICK q \in included : before[q].kind \in {"file", "dir"} /\ NewEntry(before, p) = NewEntry(before, q)
      BY <1>2, <2>2, <3>1
    <3>3. NodeOf(NewEntry(before, p)) = p /\ NodeOf(NewEntry(before, q)) = q
      BY <1>2, EntryNode
    <3>4. p = q
      BY <3>2, <3>3
    <3> QED BY <1>6, <3>2, <3>4
  <2> QED BY <2>1, <2>2
<1>8. SeenListed'
  <2>1. \A p \in Paths : Seen(p)' <=> Seen(p)
    BY <1>1 DEF Seen
  <2>2. \A p \in Paths : NewEntry(before, p)' = NewEntry(before, p)
    BY <1>1 DEF NewEntry
  <2> QED BY <1>7, <2>1, <2>2 DEF SeenListed
<1> QED BY <1>1, <1>5, <1>8, IndexKeeps

(* The end of the listing keeps the invariant: the walk has then listed
   everything. *)
LEMMA IndexedStep ==
  ASSUME IInv, Indexed
  PROVE  IInv'
<1>1. /\ pc = "index" /\ directories = <<>> /\ pc' = "merge"
      /\ UNCHANGED <<local, directories, localFiles, i, index, queue, updated, failed, sizes>>
      /\ UNCHANGED <<remote, before, included, deletionEnabled, remoteFiles>>
  BY DEF Indexed, constant
<1>2. Trees'
  BY <1>1 DEF IInv, Trees
<1>3. SeenListed
  BY <1>1 DEF IInv, Locals
<1>4. Locals'
  BY <1>1, <1>3 DEF IInv, Locals, SeenListed, Seen, Shown
<1>5. Merging'
  <2>1. i = 2 /\ index = 2 /\ updated = {} /\ failed = FALSE
    BY <1>1 DEF IInv, Locals
  <2>2. Len(localFiles) \in Nat \ {0} /\ Len(remoteFiles) \in Nat \ {0}
    BY ListedFacts DEF IInv, Locals, Trees
  <2>3. i \in 2 .. Len(localFiles) + 1 /\ index \in 2 .. Len(remoteFiles) + 1 /\ 2 .. i - 1 = {}
    BY <2>1, <2>2
  <2> QED BY <1>1, <2>1, <2>3 DEF Merging
<1>6. Kept'
  BY <1>1 DEF IInv, Kept
<1>7. Queued'
  BY <1>1 DEF IInv, Queued, Handled, Passed, Needed, Seen
<1>8. Deleting'
  BY <1>1 DEF Deleting
<1> QED BY <1>2, <1>4, <1>5, <1>6, <1>7, <1>8 DEF IInv
-----------------------------------------------------------------------------
(* Entries of two trees with the same path are of the same node, and both of
   directories or neither. *)
LEMMA SamePathSameNode ==
  ASSUME NEW s, NEW t, NEW e \in EntriesOf(s), NEW f \in EntriesOf(t), e.path = f.path
  PROVE  NodeOf(e) = NodeOf(f) /\ (s[NodeOf(e)].kind = "dir" <=> t[NodeOf(f)].kind = "dir")
<1>1. PICK p \in Paths, q \in Paths : p = NodeOf(e) /\ q = NodeOf(f)
  BY EntryOf
<1>2. e = NewEntry(s, p) /\ f = NewEntry(t, q)
  BY <1>1, EntryOf
<1>3. NewEntry(s, p).path = NewEntry(t, q).path
  BY <1>2
<1>4. p = q
  BY <1>3, SamePath
<1>5. s[p].kind = "dir" <=> t[q].kind = "dir"
  BY <1>3, SamePathKind
<1> QED BY <1>1, <1>4, <1>5

(* Two entries of one node, of whatever trees, have one path if both or
   neither are directories. *)
LEMMA SameNodeSamePath ==
  ASSUME NEW s, NEW t, NEW e \in EntriesOf(s), NEW f \in EntriesOf(t), NodeOf(e) = NodeOf(f),
         s[NodeOf(e)].kind = "dir" <=> t[NodeOf(f)].kind = "dir"
  PROVE  e.path = f.path
<1>1. PICK p \in Paths : p = NodeOf(e) /\ p = NodeOf(f)
  BY EntryOf
<1>2. e = NewEntry(s, p) /\ f = NewEntry(t, p)
  BY <1>1, EntryOf
<1> QED BY <1>1, <1>2 DEF NewEntry

(* An entry is determined by its node. *)
LEMMA EntryIsOf ==
  ASSUME NEW tree, IsTree(tree), NEW p \in Paths, tree[p] # None
  PROVE  NewEntry(tree, p) \in EntriesOf(tree) /\ NodeOf(NewEntry(tree, p)) = p
BY EntryNode DEF EntriesOf, Present

(* Where the merge stands, and what it finds: the local entry of the same
   path if there is one. *)
LEMMA MergeFinds ==
  ASSUME IInv, pc = "merge", index <= Len(remoteFiles), i' = NextLocal(i, remoteFiles[index]),
         UNCHANGED localFiles,
         NEW r, r = remoteFiles[index], NEW p, p = NodeOf(r)
  PROVE  /\ index \in 2 .. Len(remoteFiles) /\ r \in EntriesOf(remote)
         /\ p \in Paths /\ remote[p] # None /\ r.kind = remote[p].kind /\ r.time = remote[p].time
         /\ r.kind \in {"file", "dir", "link", "special"}
         /\ i' \in 2 .. Len(localFiles) + 1
         /\ \A j \in 2 .. i' - 1 : GloballyLess(localFiles[j], r)
         /\ HasLocal(r) => /\ Seen(p) /\ before[p] # None
                           /\ localFiles[i'].kind = before[p].kind
                           /\ localFiles[i'].time = before[p].time
                           /\ before[p].kind = "dir" <=> r.kind = "dir"
         /\ ~HasLocal(r) /\ Seen(p) => ~(before[p].kind = "dir" <=> r.kind = "dir")
<1>1. /\ IsTree(remote) /\ IsTree(before)
      /\ Listed(remoteFiles, EntriesOf(remote)) /\ Listed(localFiles, EntriesOf(before))
      /\ i \in 2 .. Len(localFiles) + 1 /\ index \in 2 .. Len(remoteFiles) + 1
      /\ \A j \in 2 .. i - 1, m \in index .. Len(remoteFiles) :
           GloballyLess(localFiles[j], remoteFiles[m])
      /\ SeenListed
  BY DEF IInv, Trees, Locals, Merging
<1>2. Len(remoteFiles) \in Nat \ {0} /\ Len(localFiles) \in Nat \ {0}
  BY <1>1, ListedFacts
<1>3. index \in 2 .. Len(remoteFiles) /\ index \in index .. Len(remoteFiles)
  BY <1>1, <1>2
<1>4. r \in EntriesOf(remote) /\ r.path \in Path
  BY <1>1, <1>3, ListedFacts
<1>5. p \in Paths /\ remote[p] # None /\ r.kind = remote[p].kind /\ r.time = remote[p].time
  BY <1>4, EntryOf
<1>6. r.kind \in {"file", "dir", "link", "special"}
  <2>1. remote[p] \in Nodes
    BY <1>1, <1>5, NodeFacts
  <2> QED BY <1>5, <2>1 DEF Nodes
<1>7. \A j \in 2 .. i - 1 : GloballyLess(localFiles[j], r)
  BY <1>1, <1>3
<1>8. PICK k : k = i'
  OBVIOUS
<1>9. k = NextLocal(i, r)
  BY <1>8
<1>10. HasLocal(r) <=> (k <= Len(localFiles) /\ ~GloballyLess(r, localFiles[k]))
  BY <1>8 DEF HasLocal
<1>11. /\ k \in i .. Len(localFiles) + 1
       /\ \A j \in 2 .. k - 1 : GloballyLess(localFiles[j], r)
       /\ HasLocal(r) => localFiles[k].path = r.path
       /\ ~HasLocal(r) => \A j \in 2 .. Len(localFiles) : localFiles[j].path # r.path
  BY <1>1, <1>4, <1>7, <1>9, <1>10, NextLocalIs
<1>12. k \in 2 .. Len(localFiles) + 1
  BY <1>1, <1>2, <1>11
<1>13. ASSUME HasLocal(r)
       PROVE  /\ Seen(p) /\ before[p] # None
              /\ localFiles[k].kind = before[p].kind /\ localFiles[k].time = before[p].time
              /\ before[p].kind = "dir" <=> r.kind = "dir"
  <2>1. k \in 2 .. Len(localFiles)
    BY <1>2, <1>10, <1>12, <1>13
  <2>2. PICK l : l = localFiles[k]
    OBVIOUS
  <2>3. l \in EntriesOf(before) /\ l.path = r.path
    BY <1>1, <1>11, <1>13, <2>1, <2>2, ListedFacts
  <2>4. NodeOf(l) = NodeOf(r) /\ (before[NodeOf(l)].kind = "dir" <=> remote[NodeOf(r)].kind = "dir")
    BY <1>4, <2>3, SamePathSameNode
  <2>5. before[NodeOf(l)] # None /\ l.kind = before[NodeOf(l)].kind /\ l.time = before[NodeOf(l)].time
    BY <2>3, EntryOf
  <2>6. l = NewEntry(before, p)
    BY <2>3, <2>4, EntryOf
  <2>7. Seen(p)
    BY <1>1, <1>5, <2>1, <2>2, <2>6 DEF SeenListed
  <2> QED BY <1>5, <2>2, <2>4, <2>5, <2>7
<1>14. ASSUME ~HasLocal(r), Seen(p)
       PROVE  ~(before[p].kind = "dir" <=> r.kind = "dir")
  <2>1. PICK l : l = NewEntry(before, p)
    OBVIOUS
  <2>2. PICK j \in 2 .. Len(localFiles) : localFiles[j] = l
    BY <1>1, <1>5, <1>14, <2>1 DEF SeenListed
  <2>3. l \in EntriesOf(before) /\ NodeOf(l) = p
    BY <1>1, <1>5, <2>1, <2>2, ListedFacts, EntryNode
  <2>4. l.path # r.path
    BY <1>11, <1>14, <2>2
  <2> QED BY <1>4, <1>5, <2>3, <2>4, SameNodeSamePath
<1> QED BY <1>3, <1>4, <1>5, <1>6, <1>8, <1>11, <1>12, <1>13, <1>14

(* What the merge does to the local tree: at most it puts something where there
   is nothing, or a link where there was something that is not a directory. *)
LEMMA MergeChanges ==
  ASSUME IInv, Merge, NEW r, r = remoteFiles[index], NEW p, p = NodeOf(r)
  PROVE  /\ IsTree(local')
         /\ \A q \in Paths : q # p => local'[q] = local[q]
         /\ local[p] # None => local'[p] # None
         /\ before[p] # None /\ before[p].kind # "dir" => local'[p].kind # "dir"
         /\ r.kind \in {"file", "special"} => local' = local
         /\ r.kind = "link" => local'[p] = local[p] \/ local'[p] = [kind |-> "link", time |-> 0]
         /\ r.kind = "dir" => local'[p] = local[p] \/ local'[p] = [kind |-> "dir", time |-> 0]
         /\ r.kind = "link" /\ HasLocal(r) => local'[p].kind = "link"
         /\ r.kind \in {"dir", "link"} /\ ~HasLocal(r) /\ local[p] = None /\ Reachable(local, p) =>
              local'[p].kind = r.kind
<1>1. /\ pc = "merge" /\ index <= Len(remoteFiles) /\ i' = NextLocal(i, remoteFiles[index])
      /\ UNCHANGED localFiles
      /\ \/ NewDirectory(r) \/ NewLink(r) \/ NewFile(r)
         \/ SameDirectory(r) \/ SameLink(r) \/ SameFile(r) \/ Skip(r)
  BY DEF Merge
<1>2. /\ p \in Paths /\ r.kind \in {"file", "dir", "link", "special"}
      /\ HasLocal(r) => /\ before[p] # None
                        /\ localFiles[i'].kind = before[p].kind
                        /\ before[p].kind = "dir" <=> r.kind = "dir"
  BY <1>1, MergeFinds
<1>3. /\ IsTree(local) /\ IsTree(before)
      /\ before[p] # None => local[p] # None
      /\ before[p] # None /\ before[p].kind # "dir" => local[p].kind # "dir"
  BY <1>1, <1>2 DEF IInv, Trees, Kept
<1> DEFINE Dir == [kind |-> "dir", time |-> 0]
           Link == [kind |-> "link", time |-> 0]
<1>4. /\ Dir \in Nodes /\ Dir # None /\ Dir.kind = "dir"
      /\ Link \in Nodes /\ Link # None /\ Link.kind = "link"
  BY DEF Nodes, None
<1> HIDE DEF Dir, Link
<1>5. CASE /\ local' = local
           /\ r.kind = "link" => ~HasLocal(r)
           /\ r.kind \in {"dir", "link"} => HasLocal(r)
  BY <1>3, <1>5
<1>6. CASE NewDirectory(r)
  <2>1. ~HasLocal(r) /\ r.kind = "dir" /\ local' = Created(local, p, Dir)
    BY <1>6 DEF NewDirectory, Dir
  <2>2. /\ IsTree(local') /\ (\A q \in Paths : q # p => local'[q] = local[q])
        /\ local[p] = None /\ Reachable(local, p) => local'[p] = Dir
        /\ ~(local[p] = None /\ Reachable(local, p)) => local' = local
    BY <1>2, <1>3, <1>4, <2>1, CreatedIs
  <2> QED BY <1>3, <1>4, <2>1, <2>2 DEF Dir
<1>7. CASE NewLink(r)
  <2>1. ~HasLocal(r) /\ r.kind = "link" /\ local' = Created(local, p, Link)
    BY <1>7 DEF NewLink, Link
  <2>2. /\ IsTree(local') /\ (\A q \in Paths : q # p => local'[q] = local[q])
        /\ local[p] = None /\ Reachable(local, p) => local'[p] = Link
        /\ ~(local[p] = None /\ Reachable(local, p)) => local' = local
    BY <1>2, <1>3, <1>4, <2>1, CreatedIs
  <2> QED BY <1>3, <1>4, <2>1, <2>2 DEF Link
<1>8. CASE SameLink(r)
  <2>1. PICK cleared : cleared = Removed(local, r)
    OBVIOUS
  <2>2. HasLocal(r) /\ r.kind = "link" /\ local' = Created(cleared, p, Link)
    BY <1>8, <2>1 DEF SameLink, Link
  <2>3. before[p] # None /\ before[p].kind # "dir"
    BY <1>2, <2>2
  <2>4. local[p] # None /\ local[p].kind # "dir" /\ Reachable(local, p)
    BY <1>2, <1>3, <2>3, NodeFacts
  <2>5. /\ IsTree(cleared) /\ (\A q \in Paths : q # p => cleared[q] = local[q])
        /\ cleared[p] = None
    BY <1>2, <1>3, <2>1, <2>2, <2>4, RemovedIs
  <2>6. Reachable(cleared, p)
    BY <1>2, <2>4, <2>5, StillReachable
  <2>7. /\ IsTree(local') /\ (\A q \in Paths : q # p => local'[q] = cleared[q])
        /\ local'[p] = Link
    BY <1>2, <1>4, <2>2, <2>5, <2>6, CreatedIs
  <2> QED BY <1>4, <2>2, <2>5, <2>7 DEF Link
<1>9. CASE SameDirectory(r)
  <2>1. HasLocal(r) /\ r.kind = "dir"
    BY <1>9 DEF SameDirectory
  <2>2. localFiles[i'].kind = "dir"
    BY <1>2, <2>1
  <2> QED BY <1>5, <1>9, <2>1, <2>2 DEF SameDirectory
<1>10. CASE SameFile(r)
  <2>1. HasLocal(r) /\ r.kind \in {"file", "special"}
    BY <1>10 DEF SameFile
  <2>2. localFiles[i'].kind # "dir"
    BY <1>2, <2>1
  <2> QED BY <1>5, <1>10, <2>1, <2>2 DEF SameFile
<1>11. CASE NewFile(r) \/ Skip(r)
  BY <1>5, <1>11 DEF NewFile, Skip
<1> QED BY <1>1, <1>6, <1>7, <1>8, <1>9, <1>10, <1>11

(* What the merge queues: what it stands at, if that is needed. *)
LEMMA MergeQueues ==
  ASSUME IInv, Merge, NEW r, r = remoteFiles[index], NEW p, p = NodeOf(r)
  PROVE  /\ queue' \in {queue, Append(queue, index)}
         /\ queue' # queue => r.kind = "file" /\ p \notin Invalid
         /\ queue' = Append(queue, index) <=> Needed(p)
<1>1. /\ pc = "merge" /\ index <= Len(remoteFiles) /\ i' = NextLocal(i, remoteFiles[index])
      /\ UNCHANGED localFiles
      /\ \/ NewDirectory(r) \/ NewLink(r) \/ NewFile(r)
         \/ SameDirectory(r) \/ SameLink(r) \/ SameFile(r) \/ Skip(r)
  BY DEF Merge
<1>2. /\ p \in Paths /\ r.kind = remote[p].kind /\ r.time = remote[p].time
      /\ HasLocal(r) => /\ Seen(p)
                        /\ localFiles[i'].kind = before[p].kind
                        /\ localFiles[i'].time = before[p].time
                        /\ before[p].kind = "dir" <=> r.kind = "dir"
      /\ ~HasLocal(r) /\ Seen(p) => ~(before[p].kind = "dir" <=> r.kind = "dir")
  BY <1>1, MergeFinds
<1>4. queue # Append(queue, index)
  <2>1. queue \in Seq(2 .. Len(remoteFiles))
    BY DEF IInv, Queued
  <2>2. Len(queue) \in Nat /\ Len(Append(queue, index)) = Len(queue) + 1
    BY <2>1
  <2> QED BY <2>2
<1>5. CASE NewFile(r)
  <2>1. /\ ~HasLocal(r) /\ r.kind = "file"
        /\ queue' = IF p \in Invalid \cup Internal THEN queue ELSE Append(queue, index)
    BY <1>5 DEF NewFile
  <2>2. ~(Seen(p) /\ before[p].kind # "dir")
    BY <1>2, <2>1
  <2> QED BY <1>2, <1>4, <2>1, <2>2 DEF Needed
<1>6. CASE SameFile(r)
  <2>1. /\ HasLocal(r) /\ localFiles[i'].kind # "dir"
        /\ queue' = IF r.kind = "file" /\ p \notin Invalid /\ IsOlderThan(localFiles[i'], r)
                      THEN Append(queue, index) ELSE queue
    BY <1>2, <1>6 DEF SameFile
  <2>2. Seen(p) /\ before[p].kind # "dir"
    BY <1>2, <2>1
  <2>3. IsOlderThan(localFiles[i'], r) <=> IsOlderThan(before[p], remote[p])
    BY <1>2, <2>1 DEF IsOlderThan
  <2> QED BY <1>2, <1>4, <2>1, <2>2, <2>3 DEF Needed
<1>7. CASE NewDirectory(r) \/ NewLink(r) \/ SameDirectory(r) \/ SameLink(r) \/ Skip(r)
  <2>1. queue' = queue /\ r.kind # "file"
    BY <1>7 DEF NewDirectory, NewLink, SameDirectory, SameLink, Skip
  <2> QED BY <1>2, <1>4, <2>1 DEF Needed
<1> QED BY <1>1, <1>5, <1>6, <1>7

(* What is in a sequence with one more element. *)
LEMMA OneMore ==
  ASSUME NEW S, NEW s \in Seq(S), NEW at \in S, NEW w, w = Append(s, at)
  PROVE  /\ w \in Seq(S) /\ w # s
         /\ \A k \in 1 .. Len(w) : (\E m \in 1 .. Len(s) : s[m] = w[k]) \/ w[k] = at
         /\ \A m \in 1 .. Len(s) : \E k \in 1 .. Len(w) : w[k] = s[m]
         /\ \E k \in 1 .. Len(w) : w[k] = at
<1>1. PICK a \in Nat : a = Len(s)
  OBVIOUS
<1>2. /\ w \in Seq(S) /\ Len(w) = a + 1
      /\ \A k \in 1 .. a : w[k] = s[k]
      /\ w[a + 1] = at
  BY <1>1
<1>3. w # s
  BY <1>1, <1>2
<1>4. \A k \in 1 .. a + 1 : k \in 1 .. a \/ k = a + 1
  OBVIOUS
<1>5. 1 .. a \subseteq 1 .. a + 1 /\ a + 1 \in 1 .. a + 1
  OBVIOUS
<1> QED BY <1>1, <1>2, <1>3, <1>4, <1>5
-----------------------------------------------------------------------------
(* The remote nodes handled after one more entry. *)
LEMMA MergeHandles ==
  ASSUME IInv, Merge, NEW r, r = remoteFiles[index]
  PROVE  \A q \in Paths : Handled(q)' <=> Handled(q) \/ q = NodeOf(r)
<1>1. /\ pc = "merge" /\ pc' = "merge" /\ index <= Len(remoteFiles) /\ index' = index + 1
      /\ i' = NextLocal(i, remoteFiles[index]) /\ UNCHANGED localFiles
      /\ UNCHANGED <<remote, remoteFiles>>
  BY DEF Merge, constant
<1>2. index \in 2 .. Len(remoteFiles) /\ remote[NodeOf(r)] # None
  BY <1>1, MergeFinds
<1>3. Len(remoteFiles) \in Nat
  BY ListedFacts DEF IInv, Trees
<1> SUFFICES ASSUME NEW q \in Paths PROVE Handled(q)' <=> Handled(q) \/ q = NodeOf(r)
  OBVIOUS
<1>4. Passed(q)' <=> \E m \in 2 .. index : NodeOf(remoteFiles[m]) = q
  <2>1. index' - 1 = index
    BY <1>1, <1>2, <1>3
  <2> QED BY <1>1, <2>1 DEF Passed
<1>5. (\E m \in 2 .. index : NodeOf(remoteFiles[m]) = q) <=> Passed(q) \/ q = NodeOf(r)
  <2>1. \A m : m \in 2 .. index <=> m \in 2 .. index - 1 \/ m = index
    BY <1>2, <1>3
  <2> QED BY <2>1 DEF Passed
<1> QED BY <1>1, <1>2, <1>4, <1>5 DEF Handled

(* A step of the merge keeps the invariant. *)
LEMMA MergeStep ==
  ASSUME IInv, Merge
  PROVE  IInv'
<1>1. PICK r, p : r = remoteFiles[index] /\ p = NodeOf(r)
  OBVIOUS
<1>2. /\ pc = "merge" /\ pc' = "merge" /\ index <= Len(remoteFiles) /\ index' = index + 1
      /\ i' = NextLocal(i, remoteFiles[index])
      /\ UNCHANGED <<directories, localFiles, updated, failed, sizes>>
      /\ UNCHANGED <<remote, before, included, deletionEnabled, remoteFiles>>
  BY DEF Merge, constant
<1>3. /\ index \in 2 .. Len(remoteFiles) /\ r \in EntriesOf(remote) /\ p \in Paths
      /\ r.kind = remote[p].kind
      /\ i' \in 2 .. Len(localFiles) + 1
      /\ \A j \in 2 .. i' - 1 : GloballyLess(localFiles[j], r)
  BY <1>1, <1>2, MergeFinds
<1>4. /\ IsTree(local')
      /\ \A q \in Paths : q # p => local'[q] = local[q]
      /\ local[p] # None => local'[p] # None
      /\ before[p] # None /\ before[p].kind # "dir" => local'[p].kind # "dir"
  BY <1>1, MergeChanges
<1>5. Trees'
  BY <1>2, <1>4 DEF IInv, Trees
<1>6. Locals'
  BY <1>2 DEF IInv, Locals, SeenListed, Seen, Shown
<1>7. /\ Len(remoteFiles) \in Nat \ {0} /\ Len(localFiles) \in Nat \ {0}
      /\ \A k \in 2 .. Len(remoteFiles) : remoteFiles[k].path \in Path
      /\ \A k \in 2 .. Len(localFiles) : localFiles[k].path \in Path
      /\ \A j, k \in 2 .. Len(remoteFiles) : j < k => GloballyLess(remoteFiles[j], remoteFiles[k])
  BY ListedFacts DEF IInv, Trees, Locals
<1>8. Merging'
  <2>1. index' \in 2 .. Len(remoteFiles) + 1
    BY <1>2, <1>3, <1>7
  <2>2. ASSUME NEW j \in 2 .. i' - 1, NEW m \in index' .. Len(remoteFiles)
        PROVE  GloballyLess(localFiles[j], remoteFiles[m])
    <3>1. m \in 2 .. Len(remoteFiles) /\ index < m /\ j \in 2 .. Len(localFiles)
      BY <1>2, <1>3, <1>7
    <3>2. GloballyLess(localFiles[j], r) /\ GloballyLess(r, remoteFiles[m])
      BY <1>1, <1>3, <1>7, <3>1
    <3>3. localFiles[j].path \in Path /\ r.path \in Path /\ remoteFiles[m].path \in Path
      BY <1>1, <1>3, <1>7, <3>1
    <3> QED BY <3>2, <3>3, LessTransitive
  <2>3. updated = {} /\ failed = FALSE
    BY <1>2 DEF IInv, Merging
  <2> QED BY <1>2, <1>3, <2>1, <2>2, <2>3 DEF Merging
<1>9. Kept'
  <2>1. \A q \in Paths : before[q] # None => local[q] # None
    BY <1>2 DEF IInv, Kept
  <2>2. \A q \in Paths : before[q] # None /\ before[q].kind # "dir" => local[q].kind # "dir"
    BY DEF IInv, Kept
  <2> QED BY <1>2, <1>4, <2>1, <2>2 DEF Kept
<1>10. \A q \in Paths : Handled(q)' <=> Handled(q) \/ q = p
  BY <1>1, MergeHandles
<1>11. \A q \in Paths : Needed(q)' <=> Needed(q)
  BY <1>2 DEF Needed, Seen
<1>12. PICK w, at, S : w = Append(queue, index) /\ at = index /\ S = 2 .. Len(remoteFiles)
  OBVIOUS
<1>13. queue \in Seq(S) /\ at \in S /\ w = Append(queue, at)
  BY <1>3, <1>12 DEF IInv, Queued
<1>14. /\ w \in Seq(S) /\ w # queue
       /\ \A k \in 1 .. Len(w) : (\E m \in 1 .. Len(queue) : queue[m] = w[k]) \/ w[k] = at
       /\ \A m \in 1 .. Len(queue) : \E k \in 1 .. Len(w) : w[k] = queue[m]
       /\ \E k \in 1 .. Len(w) : w[k] = at
  BY <1>13, OneMore
<1>15. /\ queue' = queue \/ queue' = w
       /\ queue' # queue => r.kind = "file" /\ p \notin Invalid
       /\ queue' = w <=> Needed(p)
  BY <1>1, <1>12, MergeQueues, Zenon
<1>16. Queued'
  <2>1. CASE queue' = queue
    <3>1. ~Needed(p)
      BY <1>14, <1>15, <2>1, Zenon
    <3>2. queue \in Seq(2 .. Len(remoteFiles))
      BY DEF IInv, Queued
    <3>3. \A k \in 1 .. Len(queue) : /\ remoteFiles[queue[k]].kind = "file"
                                    /\ NodeOf(remoteFiles[queue[k]]) \notin Invalid
      BY DEF IInv, Queued
    <3>4. ASSUME NEW q \in Paths
          PROVE  (\E k \in 1 .. Len(queue) : NodeOf(remoteFiles[queue[k]]) = q)
                   <=> Needed(q) /\ Handled(q)'
      BY <1>10, <3>1 DEF IInv, Queued
    <3> QED BY <1>2, <1>11, <2>1, <3>2, <3>3, <3>4 DEF Queued
  <2>2. CASE queue' = w
    <3>1. r.kind = "file" /\ p \notin Invalid /\ Needed(p)
      BY <1>14, <1>15, <2>2, Zenon
    <3>2. w \in Seq(2 .. Len(remoteFiles))
      BY <1>12, <1>14
    <3>3. ASSUME NEW k \in 1 .. Len(w)
          PROVE  remoteFiles[w[k]].kind = "file" /\ NodeOf(remoteFiles[w[k]]) \notin Invalid
      <4>1. CASE \E m \in 1 .. Len(queue) : queue[m] = w[k]
        BY <4>1 DEF IInv, Queued
      <4>2. CASE w[k] = at
        BY <1>1, <1>12, <3>1, <4>2
      <4> QED BY <1>14, <4>1, <4>2
    <3>4. ASSUME NEW q \in Paths
          PROVE  (\E k \in 1 .. Len(w) : NodeOf(remoteFiles[w[k]]) = q) <=> Needed(q) /\ Handled(q)'
      <4>1. (\E k \in 1 .. Len(queue) : NodeOf(remoteFiles[queue[k]]) = q) <=> Needed(q) /\ Handled(q)
        BY DEF IInv, Queued
      <4>2. NodeOf(remoteFiles[at]) = p
        BY <1>1, <1>12
      <4>3. (\E k \in 1 .. Len(w) : NodeOf(remoteFiles[w[k]]) = q)
              <=> (\E k \in 1 .. Len(queue) : NodeOf(remoteFiles[queue[k]]) = q) \/ q = p
        BY <1>14, <4>2
      <4> QED BY <1>10, <3>1, <4>1, <4>3
    <3> QED BY <1>2, <1>11, <2>2, <3>2, <3>3, <3>4 DEF Queued
  <2> QED BY <1>15, <2>1, <2>2
<1>17. Deleting'
  BY <1>2 DEF Deleting
<1> QED BY <1>5, <1>6, <1>8, <1>9, <1>16, <1>17 DEF IInv

(* The end of the merge keeps the invariant: every remote node has then been
   handled. *)
LEMMA MergedStep ==
  ASSUME IInv, Merged
  PROVE  IInv'
<1>1. /\ pc = "merge" /\ pc' = "transfer" /\ index > Len(remoteFiles) /\ i' = 1
      /\ UNCHANGED <<local, directories, localFiles, index, queue, updated, failed, sizes>>
      /\ UNCHANGED <<remote, before, included, deletionEnabled, remoteFiles>>
  BY DEF Merged, constant
<1>2. Trees' /\ Locals' /\ Kept'
  BY <1>1 DEF IInv, Trees, Locals, Kept, SeenListed, Seen, Shown
<1>3. Merging'
  BY <1>1 DEF Merging
<1>4. Len(remoteFiles) \in Nat \ {0}
  BY ListedFacts DEF IInv, Trees
<1>5. index = Len(remoteFiles) + 1
  BY <1>1, <1>4 DEF IInv, Merging
<1>6. ASSUME NEW q \in Paths PROVE Handled(q)' <=> Handled(q)
  <2>1. ASSUME remote[q] # None PROVE Passed(q)
    <3>1. NewEntry(remote, q) \in EntriesOf(remote) /\ NodeOf(NewEntry(remote, q)) = q
      BY <2>1, EntryIsOf DEF IInv, Trees
    <3>2. PICK m \in 2 .. Len(remoteFiles) : remoteFiles[m] = NewEntry(remote, q)
      BY <3>1 DEF IInv, Trees, AllListed
    <3>3. m \in 2 .. index - 1
      BY <1>4, <1>5
    <3> QED BY <3>1, <3>2, <3>3 DEF Passed
  <2> QED BY <1>1, <2>1 DEF Handled
<1>7. Queued'
  <2>1. \A q \in Paths : Needed(q)' <=> Needed(q)
    BY <1>1 DEF Needed, Seen
  <2> QED BY <1>1, <1>6, <2>1 DEF IInv, Queued
<1>8. Deleting'
  <2>1. Len(queue) \in Nat
    BY DEF IInv, Queued
  <2>2. 1 \in 1 .. Len(queue) + 1
    BY <2>1
  <2> QED BY <1>1, <2>2 DEF Deleting
<1> QED BY <1>2, <1>3, <1>7, <1>8 DEF IInv

(* Where a transfer stands: at a remote file with a legal name. *)
LEMMA TransferFinds ==
  ASSUME IInv, pc = "transfer", i <= Len(queue),
         NEW r, r = remoteFiles[queue[i]], NEW p, p = NodeOf(r)
  PROVE  /\ i \in 1 .. Len(queue) /\ queue[i] \in 2 .. Len(remoteFiles)
         /\ r \in EntriesOf(remote) /\ p \in Paths /\ p \notin Invalid
         /\ r.kind = "file" /\ remote[p].kind = "file"
         /\ r.time = remote[p].time /\ r.time \in Nat
<1>1. queue \in Seq(2 .. Len(remoteFiles)) /\ Len(queue) \in Nat
  BY DEF IInv, Queued
<1>2. i \in 1 .. Len(queue)
  BY <1>1 DEF IInv, Deleting
<1>3. queue[i] \in 2 .. Len(remoteFiles)
  BY <1>1, <1>2, ElementOfSeq
<1>4. r \in EntriesOf(remote)
  BY <1>3 DEF IInv, Trees, Listed
<1>5. p \in Paths /\ r.kind = remote[p].kind /\ r.time = remote[p].time
  BY <1>4, EntryOf
<1>6. r.kind = "file" /\ p \notin Invalid
  BY <1>2 DEF IInv, Queued
<1>7. remote[p].time \in Nat
  BY <1>5, NodeFacts DEF IInv, Trees
<1> QED BY <1>2, <1>3, <1>4, <1>5, <1>6, <1>7

(* What a transfer does to the local tree. *)
LEMMA TransferChanges ==
  ASSUME IInv, Transfer, NEW r, r = remoteFiles[queue[i]], NEW p, p = NodeOf(r)
  PROVE  /\ IsTree(local')
         /\ \A q \in Paths : q # p => local'[q] = local[q]
         /\ local[p] # None => local'[p] # None
         /\ local[p].kind # "dir" => local'[p].kind # "dir"
         /\ updated' \in {updated, updated \cup {p}}
<1>1. /\ pc = "transfer" /\ i <= Len(queue)
      /\ \/ local' = Installed(local, r) /\ updated' = updated \cup {p}
         \/ local' = local /\ updated' = updated
  BY DEF Transfer
<1>2. p \in Paths /\ r.kind # "dir" /\ r.time \in Nat /\ IsTree(local)
  BY <1>1, TransferFinds DEF IInv, Trees
<1>3. CASE local' = Installed(local, r) /\ updated' = updated \cup {p}
  <2>1. PICK t : t = Installed(local, r)
    OBVIOUS
  <2>2. /\ IsTree(t) /\ \A q \in Paths : q # p => t[q] = local[q]
        /\ local[p] # None => t[p] # None
        /\ local[p].kind # "dir" => t[p].kind # "dir"
    BY <1>2, <2>1, InstalledIs
  <2> QED BY <1>3, <2>1, <2>2
<1> QED BY <1>1, <1>2, <1>3

(* A transfer keeps the invariant. *)
LEMMA TransferStep ==
  ASSUME IInv, Transfer
  PROVE  IInv'
<1>1. PICK r, p : r = remoteFiles[queue[i]] /\ p = NodeOf(r)
  OBVIOUS
<1>2. /\ pc = "transfer" /\ pc' = "transfer" /\ i <= Len(queue) /\ i' = i + 1
      /\ UNCHANGED <<directories, localFiles, index, queue, sizes>>
      /\ UNCHANGED <<remote, before, included, deletionEnabled, remoteFiles>>
  BY DEF Transfer, constant
<1>3. i \in 1 .. Len(queue) /\ p \in Paths
  BY <1>1, <1>2, TransferFinds
<1>4. /\ IsTree(local')
      /\ \A q \in Paths : q # p => local'[q] = local[q]
      /\ local[p] # None => local'[p] # None
      /\ local[p].kind # "dir" => local'[p].kind # "dir"
      /\ updated' \in {updated, updated \cup {p}}
  BY <1>1, TransferChanges
<1>5. Trees'
  BY <1>2, <1>3, <1>4 DEF IInv, Trees
<1>6. Locals' /\ Merging'
  BY <1>2 DEF IInv, Locals, Merging, SeenListed, Seen, Shown
<1>7. Kept'
  BY <1>2, <1>4 DEF IInv, Kept
<1>8. Queued'
  BY <1>2 DEF IInv, Queued, Handled, Passed, Needed, Seen
<1>9. Deleting'
  <2>1. Len(queue) \in Nat
    BY DEF IInv, Queued
  <2>2. i + 1 \in 1 .. Len(queue) + 1
    BY <1>3, <2>1
  <2> QED BY <1>2, <2>2 DEF Deleting
<1> QED BY <1>5, <1>6, <1>7, <1>8, <1>9 DEF IInv

(* The end of the transfers keeps the invariant. *)
LEMMA TransferredStep ==
  ASSUME IInv, Transferred
  PROVE  IInv'
<1>1. /\ pc = "transfer" /\ pc' \in {"delete", "sizes"}
      /\ i' = Len(localFiles) /\ index' = Len(remoteFiles)
      /\ UNCHANGED <<local, directories, localFiles, queue, updated, failed, sizes>>
      /\ UNCHANGED <<remote, before, included, deletionEnabled, remoteFiles>>
  BY DEF Transferred, constant
<1>2. Trees' /\ Locals' /\ Merging' /\ Kept'
  BY <1>1 DEF IInv, Trees, Locals, Merging, Kept, SeenListed, Seen, Shown
<1>3. Queued'
  BY <1>1 DEF IInv, Queued, Handled, Needed, Seen
<1>4. Deleting'
  <2>1. Len(remoteFiles) \in Nat \ {0} /\ Len(localFiles) \in Nat \ {0}
    BY ListedFacts DEF IInv, Trees, Locals
  <2>2. /\ Len(localFiles) \in 1 .. Len(localFiles) /\ Len(remoteFiles) \in 1 .. Len(remoteFiles)
        /\ Len(remoteFiles) + 1 .. Len(remoteFiles) = {}
    BY <2>1
  <2> QED BY <1>1, <2>2 DEF Deleting
<1> QED BY <1>2, <1>3, <1>4 DEF IInv

(* Where the deletion stands, and what it finds. *)
LEMMA DeleteFinds ==
  ASSUME IInv, pc = "delete", i > 1, index' = NextRemote(localFiles[i]),
         NEW l, l = localFiles[i], NEW p, p = NodeOf(l)
  PROVE  /\ i \in 2 .. Len(localFiles) /\ l \in EntriesOf(before)
         /\ p \in Paths /\ before[p] # None /\ l.kind = before[p].kind
         /\ index' \in 1 .. Len(remoteFiles)
         /\ \A m \in index' + 1 .. Len(remoteFiles) : GloballyLess(l, remoteFiles[m])
         /\ OnlyLocal(l, index') /\ remote[p] # None => ~(before[p].kind = "dir" <=> remote[p].kind = "dir")
         /\ ~OnlyLocal(l, index') => remote[p] # None
<1>1. /\ IsTree(remote) /\ Listed(remoteFiles, EntriesOf(remote)) /\ Listed(localFiles, EntriesOf(before))
      /\ i \in 1 .. Len(localFiles) /\ index \in 1 .. Len(remoteFiles)
      /\ \A m \in index + 1 .. Len(remoteFiles) : GloballyLess(localFiles[i], remoteFiles[m])
  BY DEF IInv, Trees, Locals, Deleting
<1>2. Len(remoteFiles) \in Nat \ {0} /\ Len(localFiles) \in Nat \ {0}
  BY <1>1, ListedFacts
<1>3. i \in 2 .. Len(localFiles)
  BY <1>1, <1>2
<1>4. l \in EntriesOf(before) /\ l.path \in Path
  BY <1>1, <1>3, ListedFacts
<1>5. p \in Paths /\ before[p] # None /\ l.kind = before[p].kind
  BY <1>4, EntryOf
<1>6. PICK k : k = index'
  OBVIOUS
<1>7. /\ k \in 1 .. index
      /\ \A m \in k + 1 .. Len(remoteFiles) : GloballyLess(l, remoteFiles[m])
      /\ OnlyLocal(l, k) => \A m \in 2 .. Len(remoteFiles) : remoteFiles[m].path # l.path
      /\ ~OnlyLocal(l, k) => k \in 2 .. Len(remoteFiles) /\ remoteFiles[k].path = l.path
  BY <1>1, <1>4, <1>6, NextRemoteIs
<1>8. k \in 1 .. Len(remoteFiles)
  BY <1>1, <1>2, <1>7
<1>9. ASSUME OnlyLocal(l, k), remote[p] # None
      PROVE  ~(before[p].kind = "dir" <=> remote[p].kind = "dir")
  <2>1. PICK e : e = NewEntry(remote, p)
    OBVIOUS
  <2>2. e \in EntriesOf(remote) /\ NodeOf(e) = p
    BY <1>1, <1>5, <1>9, <2>1, EntryIsOf
  <2>3. PICK m \in 2 .. Len(remoteFiles) : remoteFiles[m] = e
    BY <2>2 DEF IInv, Trees, AllListed
  <2>4. e.path # l.path
    BY <1>7, <1>9, <2>3
  <2> QED BY <1>4, <2>2, <2>4, SameNodeSamePath
<1>10. ASSUME ~OnlyLocal(l, k) PROVE remote[p] # None
  <2>1. PICK e : e = remoteFiles[k]
    OBVIOUS
  <2>2. e \in EntriesOf(remote) /\ e.path = l.path
    BY <1>1, <1>7, <1>10, <2>1, ListedFacts
  <2>3. NodeOf(e) = p
    BY <1>4, <2>2, SamePathSameNode
  <2> QED BY <2>2, <2>3, EntryOf
<1> QED BY <1>3, <1>4, <1>5, <1>6, <1>7, <1>8, <1>9, <1>10

(* A step of the deletion pass keeps the invariant. *)
LEMMA DeleteStep ==
  ASSUME IInv, Delete
  PROVE  IInv'
<1>1. PICK l, p : l = localFiles[i] /\ p = NodeOf(l)
  OBVIOUS
<1>2. /\ pc = "delete" /\ pc' = "delete" /\ i > 1 /\ index' = NextRemote(localFiles[i]) /\ i' = i - 1
      /\ local' = local \/ local' = Removed(local, l)
      /\ UNCHANGED <<directories, localFiles, queue, updated, failed, sizes>>
      /\ UNCHANGED <<remote, before, included, deletionEnabled, remoteFiles>>
  BY <1>1 DEF Delete, constant
<1>3. /\ i \in 2 .. Len(localFiles) /\ l \in EntriesOf(before) /\ p \in Paths
      /\ index' \in 1 .. Len(remoteFiles)
      /\ \A m \in index' + 1 .. Len(remoteFiles) : GloballyLess(l, remoteFiles[m])
  BY <1>1, <1>2, DeleteFinds
<1>4. IsTree(local)
  BY DEF IInv, Trees
<1>5. IsTree(local') /\ \A q \in Paths : local'[q] = local[q] \/ local'[q] = None
  BY <1>1, <1>2, <1>3, <1>4, RemovedIs
<1>6. Trees'
  BY <1>2, <1>5 DEF IInv, Trees
<1>7. Locals' /\ Merging'
  BY <1>2 DEF IInv, Locals, Merging, SeenListed, Seen, Shown
<1>8. Kept'
  <2>1. None.kind # "dir"
    BY DEF None
  <2> QED BY <1>2, <1>5, <2>1 DEF IInv, Kept
<1>9. Queued'
  BY <1>2 DEF IInv, Queued, Handled, Needed, Seen
<1>10. Deleting'
  <2>1. /\ Len(remoteFiles) \in Nat \ {0} /\ Len(localFiles) \in Nat \ {0}
        /\ \A k \in 2 .. Len(remoteFiles) : remoteFiles[k].path \in Path
        /\ \A k \in 2 .. Len(localFiles) : localFiles[k].path \in Path
        /\ \A j, k \in 2 .. Len(localFiles) : j < k => GloballyLess(localFiles[j], localFiles[k])
    BY ListedFacts DEF IInv, Trees, Locals
  <2>2. i' \in 1 .. Len(localFiles)
    BY <1>2, <1>3, <2>1
  <2>3. ASSUME i' > 1, NEW m \in index' + 1 .. Len(remoteFiles)
        PROVE  GloballyLess(localFiles[i'], remoteFiles[m])
    <3>1. i' \in 2 .. Len(localFiles) /\ i' < i /\ m \in 2 .. Len(remoteFiles)
      BY <1>2, <1>3, <2>1, <2>2, <2>3
    <3>2. GloballyLess(localFiles[i'], l) /\ GloballyLess(l, remoteFiles[m])
      BY <1>1, <1>3, <2>1, <3>1
    <3>3. localFiles[i'].path \in Path /\ l.path \in Path /\ remoteFiles[m].path \in Path
      BY <1>1, <1>3, <2>1, <3>1
    <3> QED BY <3>2, <3>3, LessTransitive
  <2> QED BY <1>2, <1>3, <2>2, <2>3 DEF Deleting
<1> QED BY <1>6, <1>7, <1>8, <1>9, <1>10 DEF IInv

(* The end of the deletion pass keeps the invariant. *)
LEMMA DeletedStep ==
  ASSUME IInv, Deleted
  PROVE  IInv'
<1>1. /\ pc = "delete" /\ pc' = "sizes"
      /\ UNCHANGED <<local, directories, localFiles, i, index, queue, updated, failed, sizes>>
      /\ UNCHANGED <<remote, before, included, deletionEnabled, remoteFiles>>
  BY DEF Deleted, constant
<1>2. Trees' /\ Locals' /\ Merging' /\ Kept' /\ Deleting'
  BY <1>1 DEF IInv, Trees, Locals, Merging, Kept, Deleting, SeenListed, Seen, Shown
<1>3. Queued'
  BY <1>1 DEF IInv, Queued, Handled, Needed, Seen
<1> QED BY <1>2, <1>3 DEF IInv

(* Adding the sizes up keeps the invariant. *)
LEMMA AddSizesStep ==
  ASSUME IInv, AddSizes
  PROVE  IInv'
<1>1. /\ pc = "sizes" /\ pc' = "done"
      /\ UNCHANGED <<local, directories, localFiles, i, index, queue, updated, failed>>
      /\ UNCHANGED <<remote, before, included, deletionEnabled, remoteFiles>>
  BY DEF AddSizes, constant
<1>2. Trees' /\ Locals' /\ Merging' /\ Kept' /\ Deleting'
  BY <1>1 DEF IInv, Trees, Locals, Merging, Kept, Deleting, SeenListed, Seen, Shown
<1>3. Queued'
  BY <1>1 DEF IInv, Queued, Handled, Needed, Seen
<1> QED BY <1>2, <1>3 DEF IInv

(* Every step keeps the invariant. *)
LEMMA IInvKept == IInv /\ [Next]_vars => IInv'
<1> SUFFICES ASSUME IInv, [Next]_vars PROVE IInv'
  OBVIOUS
<1>1. CASE UNCHANGED vars
  BY <1>1 DEF IInv, Trees, Locals, Merging, Kept, Queued, Handled, Passed, Needed, Seen, SeenListed, Shown, Deleting, vars
<1> QED
  BY <1>1, ListNextStep, ListIncludedStep, IndexedStep, MergeStep, MergedStep, TransferStep,
     TransferredStep, DeleteStep, DeletedStep, AddSizesStep DEF Next

(* The inductive invariant of a synchronisation: three trees in which every
   node can be reached, lists in the order of the merge, what the merge has
   passed and queued, and what is still here before the deletion. *)
THEOREM SyncInvariant == Spec => []IInv
BY InitIInv, IInvKept, PTL DEF Spec
-----------------------------------------------------------------------------
(* The local list is in the order that the merge and the deletion pass rely on,
   whichever directory the walk has reached, and once the walk has ended it
   holds what there was but for what listDirectory passes over: its stack and
   its two sorts miss nothing else and repeat nothing.  With includeFiles it
   holds those of them that createEntry finds. *)
THEOREM WalkIsSorted == Spec => []ListIsSorted
<1>1. IInv => ListIsSorted
  <2> SUFFICES ASSUME IInv PROVE ListIsSorted
    OBVIOUS
  <2>1. /\ localFiles \in Seq(EntriesOf(before) \cup {Top}) /\ Len(localFiles) >= 1
        /\ \A j, k \in 2 .. Len(localFiles) : j < k => GloballyLess(localFiles[j], localFiles[k])
        /\ \A k \in 2 .. Len(localFiles) : localFiles[k] \in EntriesOf(before)
    BY DEF IInv, Locals, Listed
  <2>2. PICK n \in Nat : n + 1 = Len(localFiles)
    <3>1. Len(localFiles) \in Nat /\ Len(localFiles) - 1 \in Nat
      BY <2>1
    <3> QED BY <3>1
  <2>3. PICK t : t = Tail(localFiles)
    OBVIOUS
  <2>4. /\ t \in Seq(EntriesOf(before) \cup {Top}) /\ Len(t) = n
        /\ \A k \in 1 .. n : t[k] = localFiles[k + 1]
    <3>1. localFiles # <<>>
      BY <2>1
    <3>2. /\ t \in Seq(EntriesOf(before) \cup {Top}) /\ Len(t) = Len(localFiles) - 1
          /\ \A k \in 1 .. Len(t) : t[k] = localFiles[k + 1]
      BY <2>1, <2>3, <3>1, HeadTailProperties
    <3>3. Len(t) = n
      BY <2>2, <3>2
    <3> QED BY <3>2, <3>3
  <2>5. DOMAIN t = 1 .. n
    BY <2>4, LenProperties
  <2>6. ASSUME NEW j \in 1 .. n, NEW k \in 1 .. n, j < k PROVE GloballyLess(t[j], t[k])
    <3>1. j + 1 \in 2 .. Len(localFiles) /\ k + 1 \in 2 .. Len(localFiles) /\ j + 1 < k + 1
      BY <2>2, <2>6
    <3> QED BY <2>1, <2>4, <3>1
  <2>7. IsSorted(Tail(localFiles))
    BY <2>3, <2>5, <2>6 DEF IsSorted
  <2>8. ASSUME pc # "index"
        PROVE  {NodeOf(e) : e \in {localFiles[k] : k \in 2 .. Len(localFiles)}} = {p \in Paths : Seen(p)}
    <3>1. SeenListed
      BY <2>8 DEF IInv, Locals
    <3>2. ASSUME NEW k \in 2 .. Len(localFiles)
          PROVE  NodeOf(localFiles[k]) \in Paths /\ Seen(NodeOf(localFiles[k]))
      <4>1. PICK p \in Paths : p = NodeOf(localFiles[k]) /\ localFiles[k] = NewEntry(before, p)
        BY <2>1, EntryOf
      <4> QED BY <3>1, <4>1 DEF SeenListed
    <3>3. ASSUME NEW p \in Paths, Seen(p) PROVE \E k \in 2 .. Len(localFiles) : NodeOf(localFiles[k]) = p
      <4>1. PICK k \in 2 .. Len(localFiles) : localFiles[k] = NewEntry(before, p)
        BY <3>1, <3>3 DEF SeenListed
      <4> QED BY <4>1, EntryNode
    <3>4. {NodeOf(e) : e \in {localFiles[k] : k \in 2 .. Len(localFiles)}} =
            {NodeOf(localFiles[k]) : k \in 2 .. Len(localFiles)}
      OBVIOUS
    <3> QED BY <3>2, <3>3, <3>4
  <2> QED BY <2>7, <2>8 DEF ListIsSorted
<1> QED BY <1>1, SyncInvariant, PTL

(* The merge of the two sorted lists queues what is needed and nothing else:
   every remote file with a legal name that the local list does not have, or
   has as older or as a directory, whether includeFiles made that list or
   listDirectory. *)
THEOREM QueueExact == Spec => []QueueIsExact
<1>1. IInv => QueueIsExact
  <2> SUFFICES ASSUME IInv, pc \notin {"index", "merge"}
               PROVE  {NodeOf(remoteFiles[queue[k]]) : k \in DOMAIN queue} = {p \in Paths : Needed(p)}
    BY DEF QueueIsExact
  <2>1. queue \in Seq(2 .. Len(remoteFiles)) /\ DOMAIN queue = 1 .. Len(queue)
    BY DEF IInv, Queued
  <2>2. \A p \in Paths : Needed(p) => Handled(p)
    <3>1. None.kind # "file"
      BY DEF None
    <3> QED BY <3>1 DEF Needed, Handled
  <2>3. \A p \in Paths : (\E k \in DOMAIN queue : NodeOf(remoteFiles[queue[k]]) = p) <=> Needed(p)
    BY <2>1, <2>2 DEF IInv, Queued
  <2>4. ASSUME NEW k \in DOMAIN queue PROVE NodeOf(remoteFiles[queue[k]]) \in Paths
    <3>1. queue[k] \in 2 .. Len(remoteFiles)
      BY <2>1, ElementOfSeq
    <3> QED BY <3>1, EntryOf DEF IInv, Trees, Listed
  <2> QED BY <2>3, <2>4
<1> QED BY <1>1, SyncInvariant, PTL

(* Downloads never take anything away, and the deletion pass removes only what
   the remote side does not have, or has as the other of directory and not
   directory. *)
THEOREM OnlyMissingRemoved == Spec => RemovesOnlyMissing
<1> DEFINE Allowed(p) == /\ pc = "delete"
                         /\ remote[p] # None => (remote[p].kind = "dir" <=> local[p].kind # "dir")
<1>1. ASSUME IInv, [Next]_vars, NEW p \in Paths, local[p] # None, local'[p] = None
      PROVE  Allowed(p)
  <2>1. CASE UNCHANGED local
    BY <1>1, <2>1
  <2>2. CASE Merge
    <3>1. PICK r, q : r = remoteFiles[index] /\ q = NodeOf(r)
      OBVIOUS
    <3>2. /\ \A s \in Paths : s # q => local'[s] = local[s]
          /\ local[q] # None => local'[q] # None
      BY <1>1, <2>2, <3>1, MergeChanges
    <3> QED BY <1>1, <3>2
  <2>3. CASE Transfer
    <3>1. PICK r, q : r = remoteFiles[queue[i]] /\ q = NodeOf(r)
      OBVIOUS
    <3>2. /\ \A s \in Paths : s # q => local'[s] = local[s]
          /\ local[q] # None => local'[q] # None
      BY <1>1, <2>3, <3>1, TransferChanges
    <3> QED BY <1>1, <3>2
  <2>4. CASE Delete
    <3>1. PICK l, q : l = localFiles[i] /\ q = NodeOf(l)
      OBVIOUS
    <3>2. /\ pc = "delete" /\ i > 1 /\ index' = NextRemote(localFiles[i])
          /\ local' = IF OnlyLocal(l, index') THEN Removed(local, l) ELSE local
      BY <2>4, <3>1 DEF Delete
    <3>3. /\ q \in Paths /\ before[q] # None /\ l.kind = before[q].kind
          /\ OnlyLocal(l, index') /\ remote[q] # None =>
               ~(before[q].kind = "dir" <=> remote[q].kind = "dir")
      BY <1>1, <3>1, <3>2, DeleteFinds
    <3>4. OnlyLocal(l, index') /\ local' = Removed(local, l)
      BY <1>1, <3>2
    <3>5. IsTree(local) /\ (before[q].kind # "dir" => local[q].kind # "dir")
      BY <1>1, <3>3 DEF IInv, Trees, Kept
    <3>6. /\ \A s \in Paths : s # q => Removed(local, l)[s] = local[s]
          /\ Removed(local, l)[q] = None /\ local[q] # None /\ l.kind = "dir" => local[q].kind = "dir"
      BY <3>1, <3>3, <3>5, RemovedIs
    <3>7. p = q
      BY <1>1, <3>4, <3>6
    <3>8. before[q].kind = "dir" <=> local[q].kind = "dir"
      BY <1>1, <3>3, <3>4, <3>5, <3>6, <3>7
    <3> QED BY <3>2, <3>3, <3>4, <3>7, <3>8
  <2> QED
    BY <1>1, <2>1, <2>2, <2>3, <2>4
       DEF Next, vars, ListNext, ListIncluded, Indexed, Merged, Transferred, Deleted, AddSizes
<1>2. IInv /\ [Next]_vars => [\A p \in Paths : local[p] # None /\ local'[p] = None => Allowed(p)]_vars
  BY <1>1
<1> QED BY <1>2, SyncInvariant, PTL DEF Spec, RemovesOnlyMissing
-----------------------------------------------------------------------------
(* The directory that a path is in has an entry, and it comes first. *)
LEMMA ParentFirst ==
  ASSUME NEW tree, IsTree(tree), NEW q \in Paths, tree[q] # None, NEW p, p = Parent(q), p # <<>>
  PROVE  /\ p \in Paths /\ tree[p].kind = "dir" /\ tree[p] # None
         /\ NewEntry(tree, p) \in EntriesOf(tree) /\ NodeOf(NewEntry(tree, p)) = p
         /\ GloballyLess(NewEntry(tree, p), NewEntry(tree, q))
<1>1. p \in Paths /\ tree[p].kind = "dir"
  BY NodeFacts, PathsArePaths DEF Reachable
<1>2. tree[p] # None
  BY <1>1 DEF None
<1>3. PICK d, c : d = NewEntry(tree, p) /\ c = NewEntry(tree, q)
  OBVIOUS
<1>4. d \in EntriesOf(tree) /\ NodeOf(d) = p /\ d.kind = "dir"
  BY <1>1, <1>2, <1>3, EntryIsOf, EntryPath
<1>5. d # Top /\ IsDir(tree, d)
  BY <1>4, EntryOf DEF IsDir
<1>6. c \in Children(tree, d)
  BY <1>3, <1>4, <1>5 DEF Children, Present
<1>7. c \in EntriesOf(tree) /\ In(d, c) /\ c # d
  BY <1>5, <1>6, ChildIn
<1>8. GloballyLess(d, c)
  BY <1>5, <1>7, DirBeforeContents
<1> QED BY <1>1, <1>2, <1>3, <1>4, <1>8

(* The place of a node in a complete list. *)
LEMMA PlaceOf ==
  ASSUME NEW tree, IsTree(tree), NEW list, AllListed(list, EntriesOf(tree)),
         NEW p \in Paths, tree[p] # None
  PROVE  \E k \in 2 .. Len(list) : list[k] = NewEntry(tree, p) /\ NodeOf(list[k]) = p
<1>1. NewEntry(tree, p) \in EntriesOf(tree) /\ NodeOf(NewEntry(tree, p)) = p
  BY EntryIsOf
<1> QED BY <1>1 DEF AllListed

(* In a list that is in order, what is less comes earlier. *)
LEMMA EarlierPlace ==
  ASSUME NEW tree, NEW list, Listed(list, EntriesOf(tree)),
         NEW j \in 2 .. Len(list), NEW k \in 2 .. Len(list), GloballyLess(list[j], list[k])
  PROVE  j < k
<1>1. /\ list[j].path \in Path /\ list[k].path \in Path
      /\ k < j => GloballyLess(list[k], list[j])
  BY ListedFacts
<1>2. ~GloballyLess(list[k], list[j]) /\ list[j].path # list[k].path
  BY <1>1, LessTotal
<1>3. ~(k < j) /\ j # k
  BY <1>1, <1>2
<1>4. j \in Nat /\ k \in Nat
  OBVIOUS
<1> QED BY <1>3, <1>4

(* What is in the way to a directory is in the way to what is in it. *)
LEMMA ParentObstructed ==
  ASSUME NEW p \in Paths, NEW d \in Paths, d = Parent(p), ~Obstructed(p)
  PROVE  ~Obstructed(d) /\ before[d].kind \in {"none", "dir"}
<1>1. /\ Len(d) \in Nat \ {0} /\ Len(p) \in Nat \ {0} /\ d # <<>>
      /\ \A q \in Paths : Len(q) \in Nat \ {0} /\ DOMAIN q = 1 .. Len(q)
  BY PathsArePaths DEF Path
<1>2. Len(d) < Len(p) /\ p[Len(d) + 1] = Slash /\ \A j \in 1 .. Len(d) : p[j] = d[j]
  BY <1>1, ParentIs, ParentIsShorter
<1>3. Above(d, p)
  BY <1>1, <1>2 DEF Above
<1>4. ASSUME NEW q \in Paths, Above(q, d) PROVE Above(q, p)
  <2>1. /\ Len(q) < Len(d) /\ d[Len(q) + 1] = Slash /\ \A k \in 1 .. Len(q) : q[k] = d[k]
        /\ Len(q) \in Nat /\ DOMAIN q = 1 .. Len(q)
    BY <1>1, <1>4 DEF Above
  <2>2. Len(q) < Len(p)
    BY <1>1, <1>2, <2>1
  <2>3. Len(q) + 1 \in 1 .. Len(d)
    BY <1>1, <2>1
  <2>4. p[Len(q) + 1] = Slash
    BY <1>2, <2>1, <2>3
  <2>5. ASSUME NEW k \in 1 .. Len(q) PROVE q[k] = p[k]
    <3>1. k \in 1 .. Len(d)
      BY <1>1, <2>1
    <3> QED BY <1>2, <2>1, <3>1
  <2> QED BY <2>1, <2>2, <2>4, <2>5 DEF Above
<1> QED BY <1>3, <1>4 DEF Obstructed

(* What the remote side has under a directory of its own can be reached once
   that directory has been handled, if nothing else is in the way. *)
LEMMA ReachableHere ==
  ASSUME IInv, Made, NEW p \in Paths, remote[p] # None, ~Obstructed(p),
         Parent(p) # <<>> => Handled(Parent(p))
  PROVE  Reachable(local, p)
<1>1. CASE Parent(p) = <<>>
  BY <1>1 DEF Reachable
<1>2. CASE Parent(p) # <<>>
  <2>1. Parent(p) \in Paths /\ remote[Parent(p)].kind = "dir"
    BY <1>2, ParentFirst DEF IInv, Trees
  <2>2. ~Obstructed(Parent(p)) /\ before[Parent(p)].kind \in {"none", "dir"}
    BY <2>1, ParentObstructed
  <2>3. local[Parent(p)].kind = "dir"
    BY <1>2, <2>1, <2>2 DEF Made
  <2> QED BY <2>3 DEF Reachable
<1> QED BY <1>1, <1>2

(* What was there before, and what the remote side has, does not change. *)
LEMMA SameKindSame ==
  ASSUME UNCHANGED <<remote, before>>
  PROVE  \A p \in Paths : (SameKind(p)' <=> SameKind(p)) /\ (Obstructed(p)' <=> Obstructed(p))
BY DEF SameKind, Obstructed

(* The merge has handled a directory when it gets to what is in it. *)
LEMMA ParentHandled ==
  ASSUME IInv, pc = "merge", index \in 2 .. Len(remoteFiles),
         NEW p, p = NodeOf(remoteFiles[index]), Parent(p) # <<>>
  PROVE  Handled(Parent(p))
<1>1. IsTree(remote) /\ Listed(remoteFiles, EntriesOf(remote)) /\ AllListed(remoteFiles, EntriesOf(remote))
  BY DEF IInv, Trees
<1>2. remoteFiles[index] \in EntriesOf(remote)
  BY <1>1 DEF Listed
<1>3. p \in Paths /\ remote[p] # None /\ remoteFiles[index] = NewEntry(remote, p)
  BY <1>2, EntryOf
<1>4. PICK d : d = Parent(p)
  OBVIOUS
<1>5. /\ d \in Paths /\ remote[d] # None
      /\ GloballyLess(NewEntry(remote, d), NewEntry(remote, p))
  BY <1>1, <1>3, <1>4, ParentFirst
<1>6. PICK m \in 2 .. Len(remoteFiles) : remoteFiles[m] = NewEntry(remote, d) /\ NodeOf(remoteFiles[m]) = d
  BY <1>1, <1>5, PlaceOf
<1>7. m < index
  BY <1>1, <1>3, <1>5, <1>6, EarlierPlace
<1>8. m \in 2 .. index - 1
  BY <1>7
<1>9. Passed(d)
  BY <1>6, <1>8 DEF Passed
<1> QED BY <1>4, <1>5, <1>9 DEF Handled

(* Once the merge is over, everything that is remote has been handled. *)
LEMMA AllHandled ==
  ASSUME IInv, pc = "merge", index > Len(remoteFiles), NEW q \in Paths, remote[q] # None
  PROVE  Passed(q)
<1>1. IsTree(remote) /\ AllListed(remoteFiles, EntriesOf(remote)) /\ Len(remoteFiles) \in Nat \ {0}
  BY ListedFacts DEF IInv, Trees
<1>2. index = Len(remoteFiles) + 1
  BY <1>1 DEF IInv, Merging
<1>3. PICK m \in 2 .. Len(remoteFiles) : NodeOf(remoteFiles[m]) = q
  BY <1>1, PlaceOf
<1>4. m \in 2 .. index - 1
  BY <1>1, <1>2
<1> QED BY <1>3, <1>4 DEF Passed
-----------------------------------------------------------------------------
(* What the mirror rests on holds initially. *)
LEMMA InitMirrorInv == Init => MirrorInv
<1> SUFFICES ASSUME Init PROVE Kinds /\ Untouched /\ Made /\ Fetched /\ Cleared
  BY DEF MirrorInv
<1>1. pc = "index" /\ before = local /\ index = 2 /\ updated = {}
  BY DEF Init
<1>2. Kinds /\ Untouched /\ Fetched /\ Cleared
  BY <1>1 DEF Kinds, Untouched, Fetched, Cleared
<1>3. Made
  BY <1>1 DEF Made, Handled, Passed
<1> QED BY <1>2, <1>3

(* The steps that leave the local tree alone. *)
LEMMA MirrorPassive ==
  ASSUME IInv, Kinds, Untouched, Made, Fetched, Cleared,
         ListNext \/ ListIncluded \/ Indexed \/ Merged \/ Transferred \/ Deleted \/ AddSizes
  PROVE  Kinds' /\ Untouched' /\ Made' /\ Fetched' /\ Cleared'
<1>0. \A q \in Paths : (SameKind(q)' <=> SameKind(q)) /\ (Obstructed(q)' <=> Obstructed(q))
  BY SameKindSame DEF ListNext, ListIncluded, Indexed, Merged, Transferred, Deleted, AddSizes, constant
<1>1. /\ UNCHANGED <<local, queue, updated, failed>>
      /\ UNCHANGED <<remote, before, included, deletionEnabled, remoteFiles>>
  BY DEF ListNext, ListIncluded, Indexed, Merged, Transferred, Deleted, AddSizes, constant
<1>2. Kinds' /\ Untouched'
  BY <1>0, <1>1 DEF Kinds, Untouched
<1>3. ASSUME NEW q \in Paths PROVE Handled(q)' <=> Handled(q)
  <2>1. CASE ListNext \/ ListIncluded \/ Indexed
    BY <1>1, <2>1 DEF ListNext, ListIncluded, Indexed, Handled, Passed
  <2>2. CASE Merged
    BY <1>1, <2>2, AllHandled DEF Merged, Handled
  <2>3. CASE Transferred \/ Deleted \/ AddSizes
    BY <1>1, <2>3 DEF Transferred, Deleted, AddSizes, Handled
  <2> QED BY <2>1, <2>2, <2>3
<1>4. Made'
  BY <1>0, <1>1, <1>3 DEF Made
<1>5. Fetched'
  <2>1. ASSUME pc' \in {"transfer", "delete", "sizes", "done"}, ~failed, NEW k \in 1 .. Len(queue),
               pc' = "transfer" => k < i'
        PROVE  NodeOf(remoteFiles[queue[k]]) \in updated
    <3>1. CASE Merged
      BY <2>1, <3>1 DEF Merged
    <3>2. CASE Transferred
      <4>1. pc = "transfer" /\ i > Len(queue)
        BY <3>2 DEF Transferred
      <4>2. i \in 1 .. Len(queue) + 1 /\ Len(queue) \in Nat
        BY <4>1 DEF IInv, Deleting, Queued
      <4>3. k < i
        BY <4>1, <4>2
      <4> QED BY <2>1, <4>1, <4>3 DEF Fetched
    <3>3. CASE Deleted \/ AddSizes
      BY <2>1, <3>3 DEF Deleted, AddSizes, Fetched
    <3>4. CASE ListNext \/ ListIncluded \/ Indexed
      BY <2>1, <3>4 DEF ListNext, ListIncluded, Indexed
    <3> QED BY <3>1, <3>2, <3>3, <3>4
  <2>2. \A q \in Paths : Needed(q)' <=> Needed(q)
    BY <1>1 DEF Needed, Seen
  <2>3. updated \subseteq Paths
    BY DEF IInv, Trees
  <2>4. \A q \in Paths : IsCurrent(q)' <=> IsCurrent(q)
    BY <1>1 DEF IsCurrent
  <2> QED BY <1>0, <1>1, <2>1, <2>2, <2>3, <2>4 DEF Fetched
<1>6. Cleared'
  <2>1. CASE ListNext \/ ListIncluded \/ Indexed \/ Merged
    BY <2>1 DEF ListNext, ListIncluded, Indexed, Merged, Cleared
  <2>2. CASE Transferred
    <3>1. /\ deletionEnabled => pc' = "delete"
          /\ i' = Len(localFiles) /\ localFiles' = localFiles
      BY <2>2 DEF Transferred
    <3>2. Len(localFiles) \in Nat
      BY ListedFacts DEF IInv, Locals
    <3>3. Len(localFiles) + 1 .. Len(localFiles) = {}
      BY <3>2
    <3> QED BY <1>1, <3>1, <3>3 DEF Cleared
  <2>3. CASE Deleted
    <3>1. pc = "delete" /\ pc' = "sizes" /\ i <= 1 /\ i' = i /\ localFiles' = localFiles
      BY <2>3 DEF Deleted
    <3>2. i = 1
      BY <3>1 DEF IInv, Deleting
    <3> QED BY <1>1, <3>1, <3>2 DEF Cleared
  <2>4. CASE AddSizes
    BY <1>1, <2>4 DEF AddSizes, Cleared
  <2> QED BY <2>1, <2>2, <2>3, <2>4
<1> QED BY <1>2, <1>4, <1>5, <1>6
-----------------------------------------------------------------------------
(* Where the remote side has a directory, and nothing else had been here, there
   is a directory if there is anything. *)
LEMMA DirectoryHere ==
  ASSUME IInv, Kinds, NEW p \in Paths, remote[p].kind = "dir", before[p].kind \in {"none", "dir"},
         local[p] # None
  PROVE  local[p].kind = "dir"
<1>1. IsTree(local)
  BY DEF IInv, Trees
<1>2. local[p].kind # "none" /\ local[p].kind \in {before[p].kind, remote[p].kind}
  BY <1>1, NodeFacts DEF Kinds
<1> QED BY <1>2

(* A step of the merge keeps what the mirror rests on. *)
LEMMA MirrorMerge ==
  ASSUME IInv, Kinds, Untouched, Made, Fetched, Cleared, Merge
  PROVE  Kinds' /\ Untouched' /\ Made' /\ Fetched' /\ Cleared'
<1>0. \A q \in Paths : (SameKind(q)' <=> SameKind(q)) /\ (Obstructed(q)' <=> Obstructed(q))
  BY SameKindSame DEF Merge, constant
<1>1. PICK r, p : r = remoteFiles[index] /\ p = NodeOf(r)
  OBVIOUS
<1>2. /\ pc = "merge" /\ pc' = "merge" /\ index <= Len(remoteFiles)
      /\ i' = NextLocal(i, remoteFiles[index])
      /\ UNCHANGED <<localFiles, updated, failed>>
      /\ UNCHANGED <<remote, before, included, deletionEnabled, remoteFiles>>
  BY DEF Merge, constant
<1>3. /\ index \in 2 .. Len(remoteFiles) /\ p \in Paths /\ remote[p] # None /\ r.kind = remote[p].kind
      /\ HasLocal(r) => before[p] # None
      /\ ~HasLocal(r) /\ Seen(p) => ~(before[p].kind = "dir" <=> r.kind = "dir")
  BY <1>1, <1>2, MergeFinds
<1>4. /\ \A q \in Paths : q # p => local'[q] = local[q]
      /\ local[p] # None => local'[p] # None
      /\ r.kind \in {"file", "special"} => local' = local
      /\ r.kind = "link" => local'[p] = local[p] \/ local'[p] = [kind |-> "link", time |-> 0]
      /\ r.kind = "dir" => local'[p] = local[p] \/ local'[p] = [kind |-> "dir", time |-> 0]
      /\ r.kind = "link" /\ HasLocal(r) => local'[p].kind = "link"
      /\ r.kind \in {"dir", "link"} /\ ~HasLocal(r) /\ local[p] = None /\ Reachable(local, p) =>
           local'[p].kind = r.kind
  BY <1>1, MergeChanges
<1>5. IsTree(remote) /\ IsTree(before) /\ IsTree(local)
  BY DEF IInv, Trees
<1>6. r.kind \in {"file", "dir", "link", "special"}
  BY <1>1, <1>2, MergeFinds
<1>7. \A q \in Paths : Handled(q)' <=> Handled(q) \/ q = p
  BY <1>1, MergeHandles
<1>8. ~Obstructed(p) => Reachable(local, p)
  BY <1>1, <1>2, <1>3, ParentHandled, ReachableHere
<1>9. \A q \in Paths : local'[q] = local[q] \/ (q = p /\ local'[q].kind = remote[q].kind)
  BY <1>3, <1>4, <1>6
<1>10. Kinds'
  BY <1>2, <1>9 DEF Kinds
<1>11. Untouched'
  BY <1>0, <1>2, <1>3, <1>4 DEF Untouched
<1>12. Made'
  <2>1. ASSUME r.kind = "dir", before[p].kind \in {"none", "dir"}, ~Obstructed(p)
        PROVE  local'[p].kind = "dir"
    <3>1. CASE local[p] # None
      <4>1. local[p].kind = "dir"
        BY <1>3, <2>1, <3>1, DirectoryHere
      <4> QED BY <1>4, <2>1, <4>1
    <3>2. CASE local[p] = None
      <4>1. before[p] = None
        BY <1>2, <1>3, <3>2 DEF IInv, Kept
      <4> QED BY <1>3, <1>4, <1>8, <2>1, <3>2, <4>1
    <3> QED BY <3>1, <3>2
  <2>2. ASSUME r.kind = "link", included = Everything, SameKind(p), ~Obstructed(p)
        PROVE  local'[p].kind = "link"
    <3>1. CASE HasLocal(r)
      BY <1>4, <2>2, <3>1
    <3>2. CASE ~HasLocal(r)
      <4>1. before[p] = None \/ before[p].kind = "link"
        <5>1. before[p] # None => before[p].kind = "link" \/ (before[p].kind # "dir" /\ p \notin Unlisted)
          BY <1>3, <2>2 DEF SameKind
        <5>2. before[p] # None /\ p \notin Unlisted => Seen(p)
          BY <2>2 DEF Seen
        <5> QED BY <1>3, <2>2, <3>2, <5>1, <5>2
      <4>2. local[p] # None => local[p].kind = "link"
        <5>1. before[p].kind \in {"none", "link"}
          BY <4>1 DEF None
        <5>2. local[p] # None => local[p].kind # "none"
          BY <1>3, <1>5, NodeFacts
        <5> QED BY <1>3, <2>2, <5>1, <5>2 DEF Kinds
      <4> QED BY <1>4, <1>8, <2>2, <3>2, <4>2
    <3> QED BY <3>1, <3>2
  <2>3. ASSUME NEW q \in Paths, remote[q].kind = "dir", before[q].kind \in {"none", "dir"},
               ~Obstructed(q), Handled(q)'
        PROVE  local'[q].kind = "dir"
    <3>1. CASE q = p
      BY <1>3, <2>1, <2>3, <3>1
    <3>2. CASE q # p
      BY <1>4, <1>7, <2>3, <3>2 DEF Made
    <3> QED BY <3>1, <3>2
  <2>4. ASSUME included = Everything, NEW q \in Paths, remote[q].kind = "link", SameKind(q),
               ~Obstructed(q), Handled(q)'
        PROVE  local'[q].kind = "link"
    <3>1. CASE q = p
      BY <1>3, <2>2, <2>4, <3>1
    <3>2. CASE q # p
      BY <1>4, <1>7, <2>4, <3>2 DEF Made
    <3> QED BY <3>1, <3>2
  <2> QED BY <1>0, <1>2, <2>3, <2>4 DEF Made
<1>13. Fetched'
  <2>1. updated = {}
    BY <1>2 DEF IInv, Merging
  <2>2. \A q \in Paths : Needed(q)' <=> Needed(q)
    BY <1>2 DEF Needed, Seen
  <2>3. \A q \in Paths : remote[q].kind = "file" => local'[q] = local[q]
    BY <1>3, <1>4
  <2> QED BY <1>0, <1>2, <2>1, <2>2, <2>3 DEF Fetched
<1>14. Cleared'
  BY <1>2 DEF Cleared
<1> QED BY <1>10, <1>11, <1>12, <1>13, <1>14

(* What is installed takes the place of a file or a link, or of nothing; it is a
   file, or what could not be removed keeps its kind. *)
LEMMA InstalledKind ==
  ASSUME NEW tree, IsTree(tree), NEW entry, NEW p \in Paths, NodeOf(entry) = p
  PROVE  Installed(tree, entry)[p].kind \in {tree[p].kind, "file"}
<1>1. PICK cleared : cleared = Removed(tree, entry)
  OBVIOUS
<1>2. cleared \in [Paths -> Nodes] /\ (cleared[p] = None \/ cleared[p] = tree[p])
  BY <1>1, RemovedIs DEF IsTree
<1>3. CASE ~Reachable(tree, p)
  BY <1>3 DEF Installed
<1>4. CASE Reachable(tree, p) /\ cleared[p] # None
  <2>1. Installed(tree, entry) = [cleared EXCEPT ![p].time = entry.time]
    BY <1>1, <1>4 DEF Installed
  <2>2. cleared[p] \in Nodes /\ cleared[p] = tree[p]
    BY <1>2, <1>4
  <2>3. cleared[p] \in [kind : {"file", "dir", "link", "special"}, time : Nat]
    BY <1>4, <2>2 DEF Nodes
  <2>4. [cleared EXCEPT ![p].time = entry.time][p].kind = cleared[p].kind
    BY <1>2, <2>3
  <2> QED BY <2>1, <2>2, <2>4
<1>5. CASE Reachable(tree, p) /\ cleared[p] = None
  <2>1. Installed(tree, entry) = [cleared EXCEPT ![p] = [kind |-> "file", time |-> entry.time]]
    BY <1>1, <1>5 DEF Installed
  <2> QED BY <1>2, <2>1
<1> QED BY <1>3, <1>4, <1>5

(* A transfer puts the file in its place, unless there is a directory in it or
   the directory it belongs in is not there. *)
LEMMA TransferInstalls ==
  ASSUME IInv, Kinds, Made, Transfer,
         NEW r, r = remoteFiles[queue[i]], NEW p, p = NodeOf(r)
  PROVE  \/ local' = local /\ updated' = updated /\ failed' = TRUE
         \/ /\ updated' = updated \cup {p} /\ failed' = failed
            /\ local'[p].kind \in {local[p].kind, "file"}
            /\ \/ local'[p].kind = "file" /\ local'[p].time = remote[p].time
               \/ Obstructed(p) \/ before[p].kind = "dir"
<1>1. /\ pc = "transfer" /\ i <= Len(queue)
      /\ \/ local' = Installed(local, r) /\ updated' = updated \cup {p} /\ failed' = failed
         \/ local' = local /\ updated' = updated /\ failed' = TRUE
  BY DEF Transfer
<1>2. /\ p \in Paths /\ r.kind = "file" /\ remote[p].kind = "file"
      /\ r.time = remote[p].time /\ r.time \in Nat
  BY <1>1, TransferFinds
<1>3. IsTree(local) /\ IsTree(remote) /\ remote[p] # None
  BY <1>2 DEF IInv, Trees, None
<1>4. before[p].kind # "dir" => local[p].kind # "dir"
  <2>1. local[p] # None => local[p].kind \in {before[p].kind, "file"}
    BY <1>2 DEF Kinds
  <2>2. None.kind # "dir"
    BY DEF None
  <2> QED BY <2>1, <2>2
<1>5. ~Obstructed(p) => Reachable(local, p)
  <2>1. Parent(p) # <<>> => Handled(Parent(p))
    BY <1>1, <1>2, <1>3, ParentFirst DEF Handled
  <2> QED BY <1>2, <1>3, <2>1, ReachableHere
<1>6. PICK t : t = Installed(local, r)
  OBVIOUS
<1>7. before[p].kind # "dir" /\ ~Obstructed(p) => t[p].kind = "file" /\ t[p].time = r.time
  BY <1>2, <1>3, <1>4, <1>5, <1>6, InstalledIs
<1>8. t[p].kind \in {local[p].kind, "file"}
  BY <1>2, <1>3, <1>6, InstalledKind
<1> QED BY <1>1, <1>2, <1>6, <1>7, <1>8

(* A transfer keeps what the mirror rests on. *)
LEMMA MirrorTransfer ==
  ASSUME IInv, Kinds, Untouched, Made, Fetched, Cleared, Transfer
  PROVE  Kinds' /\ Untouched' /\ Made' /\ Fetched' /\ Cleared'
<1>0. \A q \in Paths : (SameKind(q)' <=> SameKind(q)) /\ (Obstructed(q)' <=> Obstructed(q))
  BY SameKindSame DEF Transfer, constant
<1>1. PICK r, p : r = remoteFiles[queue[i]] /\ p = NodeOf(r)
  OBVIOUS
<1>2. /\ pc = "transfer" /\ pc' = "transfer" /\ i <= Len(queue) /\ i' = i + 1
      /\ UNCHANGED <<localFiles, index, queue>>
      /\ UNCHANGED <<remote, before, included, deletionEnabled, remoteFiles>>
  BY DEF Transfer, constant
<1>3. /\ i \in 1 .. Len(queue) /\ p \in Paths /\ p \notin Invalid /\ remote[p].kind = "file"
      /\ remote[p].time \in Nat
  BY <1>1, <1>2, TransferFinds
<1>4. \A q \in Paths : q # p => local'[q] = local[q]
  BY <1>1, TransferChanges
<1>5. \/ local' = local /\ updated' = updated /\ failed' = TRUE
      \/ /\ updated' = updated \cup {p} /\ failed' = failed
         /\ local'[p].kind \in {local[p].kind, "file"}
         /\ \/ local'[p].kind = "file" /\ local'[p].time = remote[p].time
            \/ Obstructed(p) \/ before[p].kind = "dir"
  BY <1>1, TransferInstalls
<1>6. \A q \in Paths : local'[q] = local[q] \/ (q = p /\ local'[q].kind \in {local[q].kind, "file"})
  BY <1>4, <1>5
<1>7. Kinds'
  <2>1. ASSUME NEW q \in Paths, local'[q] # None
        PROVE  local'[q].kind \in {before[q].kind, remote[q].kind}
    <3>1. CASE local'[q] = local[q]
      BY <2>1, <3>1 DEF Kinds
    <3>2. CASE q = p /\ local'[q].kind = "file"
      BY <1>3, <3>2
    <3>3. CASE q = p /\ local'[q].kind = local[q].kind
      <4>1. IsTree(local) /\ IsTree(local')
        BY <1>1, TransferChanges DEF IInv, Trees
      <4>2. local'[q] \in Nodes /\ local[q] \in Nodes /\ None.kind = "none"
        BY <4>1 DEF IsTree, None
      <4>3. local'[q].kind # "none"
        BY <2>1, <4>2 DEF Nodes
      <4>4. local[q] # None
        BY <3>3, <4>2, <4>3
      <4> QED BY <3>3, <4>4 DEF Kinds
    <3> QED BY <1>6, <3>1, <3>2, <3>3
  <2> QED BY <1>2, <2>1 DEF Kinds
<1>8. Untouched'
  BY <1>0, <1>2, <1>3, <1>6 DEF Untouched
<1>9. Made'
  BY <1>0, <1>2, <1>3, <1>6 DEF Made, Handled
<1>10. Fetched'
  <2>1. ASSUME NEW q \in updated'
        PROVE  remote[q].kind = "file" /\ (IsCurrent(q)' \/ Obstructed(q) \/ before[q].kind = "dir")
    <3>1. CASE local' = local /\ updated' = updated
      BY <1>2, <2>1, <3>1 DEF Fetched, IsCurrent
    <3>2. CASE /\ updated' = updated \cup {p}
               /\ \/ local'[p].kind = "file" /\ local'[p].time = remote[p].time
                  \/ Obstructed(p) \/ before[p].kind = "dir"
      <4>1. CASE q = p
        <5>1. ~(remote[p].time + 1 < remote[p].time)
          BY <1>3
        <5> QED BY <1>2, <1>3, <3>2, <4>1, <5>1 DEF IsCurrent, IsOlderThan
      <4>2. CASE q # p
        <5>1. q \in updated /\ q \in Paths
          BY <2>1, <3>2, <4>2 DEF IInv, Trees
        <5>2. IsCurrent(q)' <=> IsCurrent(q)
          BY <1>2, <1>4, <4>2, <5>1 DEF IsCurrent
        <5> QED BY <5>1, <5>2 DEF Fetched
      <4> QED BY <4>1, <4>2
    <3> QED BY <1>5, <3>1, <3>2
  <2>2. ASSUME NEW q \in Paths, remote[q].kind = "file", SameKind(q), ~Needed(q)
        PROVE  local'[q] = before[q]
    <3>1. q # p
      <4>1. Needed(p)
        BY <1>1, <1>3 DEF IInv, Queued
      <4> QED BY <2>2, <4>1
    <3> QED BY <1>4, <2>2, <3>1 DEF Fetched
  <2>3. ASSUME ~failed', NEW k \in 1 .. Len(queue), k < i'
        PROVE  NodeOf(remoteFiles[queue[k]]) \in updated'
    <3>1. updated' = updated \cup {p} /\ failed' = failed
      BY <1>5, <2>3
    <3>2. k < i \/ k = i
      BY <1>2, <1>3, <2>3
    <3>3. CASE k = i
      BY <1>1, <3>1, <3>3
    <3>4. CASE k < i
      BY <1>2, <2>3, <3>1, <3>4 DEF Fetched
    <3> QED BY <3>2, <3>3, <3>4
  <2>4. \A q \in Paths : Needed(q)' <=> Needed(q)
    BY <1>2 DEF Needed, Seen
  <2>5. updated' \subseteq Paths
    BY <1>3, <1>5 DEF IInv, Trees
  <2> QED BY <1>0, <1>2, <2>1, <2>2, <2>3, <2>4, <2>5 DEF Fetched
<1>11. Cleared'
  BY <1>2 DEF Cleared
<1> QED BY <1>7, <1>8, <1>9, <1>10, <1>11

(* What the deletion has passed stays in what it gets to afterwards: a
   directory comes before what is in it, and the deletion goes backwards. *)
LEMMA PassedAfter ==
  ASSUME IInv, NEW j \in 2 .. Len(localFiles), NEW k \in j + 1 .. Len(localFiles),
         NEW p, p = NodeOf(localFiles[j]), NEW q, q = NodeOf(localFiles[k])
  PROVE  q \in Paths /\ Parent(p) # q /\ p # q
<1>1. IsTree(before) /\ Listed(localFiles, EntriesOf(before)) /\ Len(localFiles) \in Nat \ {0}
  BY ListedFacts DEF IInv, Trees, Locals
<1>2. k \in 2 .. Len(localFiles) /\ j < k
  BY <1>1
<1>3. localFiles[j] \in EntriesOf(before) /\ localFiles[k] \in EntriesOf(before)
  BY <1>1, <1>2 DEF Listed
<1>4. /\ p \in Paths /\ before[p] # None /\ localFiles[j] = NewEntry(before, p)
      /\ q \in Paths /\ localFiles[k] = NewEntry(before, q)
  BY <1>3, EntryOf
<1>5. p # q
  <2>1. localFiles[j].path # localFiles[k].path
    BY <1>1, <1>2, ListedFacts
  <2> QED BY <1>4, <2>1
<1>6. Parent(p) # q
  <2>1. SUFFICES ASSUME Parent(p) = q PROVE FALSE
    OBVIOUS
  <2>2. q # <<>>
    BY <1>4, PathsArePaths
  <2>3. GloballyLess(localFiles[k], localFiles[j])
    BY <1>1, <1>4, <2>1, <2>2, ParentFirst
  <2>4. k < j
    BY <1>1, <1>2, <2>3, EarlierPlace
  <2> QED BY <1>2, <2>4
<1> QED BY <1>4, <1>5, <1>6

(* A step of the deletion pass keeps what the mirror rests on. *)
LEMMA MirrorDelete ==
  ASSUME IInv, Kinds, Untouched, Made, Fetched, Cleared, Delete
  PROVE  Kinds' /\ Untouched' /\ Made' /\ Fetched' /\ Cleared'
<1>1. PICK l, p : l = localFiles[i] /\ p = NodeOf(l)
  OBVIOUS
<1>2. /\ pc = "delete" /\ pc' = "delete" /\ i > 1 /\ index' = NextRemote(localFiles[i]) /\ i' = i - 1
      /\ local' = IF OnlyLocal(l, index') THEN Removed(local, l) ELSE local
      /\ UNCHANGED <<localFiles, queue, updated, failed>>
      /\ UNCHANGED <<remote, before, included, deletionEnabled, remoteFiles>>
  BY <1>1 DEF Delete, constant
<1>3. /\ i \in 2 .. Len(localFiles) /\ p \in Paths /\ before[p] # None /\ l.kind = before[p].kind
      /\ OnlyLocal(l, index') /\ remote[p] # None => ~(before[p].kind = "dir" <=> remote[p].kind = "dir")
      /\ ~OnlyLocal(l, index') => remote[p] # None
  BY <1>1, <1>2, DeleteFinds
<1>4. \A q \in Paths : (SameKind(q)' <=> SameKind(q)) /\ (Obstructed(q)' <=> Obstructed(q))
  BY <1>2, SameKindSame
<1>5. IsTree(local) /\ IsTree(remote) /\ IsTree(before)
  BY DEF IInv, Trees
<1>6. \A q \in Paths :
        \/ local'[q] = local[q]
        \/ /\ local'[q] = None /\ before[q] # None
           /\ remote[q] # None => ~(before[q].kind = "dir" <=> remote[q].kind = "dir")
  <2>1. CASE OnlyLocal(l, index')
    <3>1. /\ \A q \in Paths : q # p => Removed(local, l)[q] = local[q]
          /\ Removed(local, l)[p] = None \/ Removed(local, l)[p] = local[p]
      BY <1>1, <1>3, <1>5, RemovedIs
    <3> QED BY <1>2, <1>3, <2>1, <3>1
  <2>2. CASE ~OnlyLocal(l, index')
    BY <1>2, <2>2
  <2> QED BY <2>1, <2>2
<1>7. None.kind = "none"
  BY DEF None
<1>8. Kinds'
  BY <1>2, <1>6 DEF Kinds
<1>9. ASSUME NEW q \in Paths, remote[q] # None,
             SameKind(q) \/ (remote[q].kind = "dir" /\ before[q].kind \in {"none", "dir"})
                         \/ (remote[q].kind = "file" /\ before[q].kind # "dir")
      PROVE  local'[q] = local[q]
  <2>1. SUFFICES ASSUME before[q] # None, ~(before[q].kind = "dir" <=> remote[q].kind = "dir") PROVE FALSE
    BY <1>6, <1>9
  <2>2. before[q].kind # "none"
    BY <1>5, <2>1, NodeFacts
  <2>3. CASE SameKind(q)
    BY <1>9, <2>1, <2>3 DEF SameKind
  <2> QED BY <1>9, <2>1, <2>2, <2>3
<1>10. Untouched' /\ Made'
  <2>1. Untouched'
    BY <1>2, <1>4, <1>7, <1>9 DEF Untouched
  <2>2. Made'
    BY <1>2, <1>4, <1>7, <1>9 DEF Made, Handled
  <2> QED BY <2>1, <2>2
<1>11. Fetched'
  <2>1. \A q \in Paths : remote[q].kind = "file" /\ (SameKind(q) \/ before[q].kind # "dir") => local'[q] = local[q]
    BY <1>7, <1>9
  <2>2. updated \subseteq Paths
    BY DEF IInv, Trees
  <2>3. \A q \in Paths : Needed(q)' <=> Needed(q)
    BY <1>2 DEF Needed, Seen
  <2>4. ASSUME NEW q \in updated
        PROVE  remote[q].kind = "file" /\ (IsCurrent(q)' \/ Obstructed(q) \/ before[q].kind = "dir")
    <3>1. CASE before[q].kind # "dir" /\ remote[q].kind = "file"
      <4>1. IsCurrent(q)' <=> IsCurrent(q)
        BY <1>2, <2>1, <2>2, <2>4, <3>1 DEF IsCurrent
      <4> QED BY <2>4, <4>1 DEF Fetched
    <3> QED BY <2>4, <3>1 DEF Fetched
  <2> QED BY <1>2, <1>4, <2>1, <2>2, <2>3, <2>4 DEF Fetched
<1>12. Cleared'
  <2>1. ASSUME deletionEnabled, included = Everything, NEW k \in i' + 1 .. Len(localFiles),
               NEW q, q = NodeOf(localFiles[k]), remote[q] = None
        PROVE  local'[q] = None \/ ~Empty(local', q)
    <3>1. Len(localFiles) \in Nat \ {0}
      BY ListedFacts DEF IInv, Locals
    <3>2. k = i \/ k \in i + 1 .. Len(localFiles)
      BY <1>2, <1>3, <2>1, <3>1
    <3>3. CASE k = i
      <4>1. q = p /\ remote[p] = None /\ local' = Removed(local, l)
        BY <1>1, <1>2, <1>3, <2>1, <3>3
      <4>2. local[p] # None => local[p].kind = l.kind
        BY <1>3, <1>5, <1>7, <4>1, NodeFacts DEF Kinds
      <4>3. /\ \A s \in Paths : s # p => local'[s] = local[s]
            /\ local[p] # None /\ Empty(local, p) => local'[p] = None
            /\ local'[p] = None \/ local'[p] = local[p]
        BY <1>1, <1>3, <1>5, <4>1, <4>2, RemovedIs
      <4>4. ASSUME ~Empty(local, p) PROVE ~Empty(local', p)
        <5>1. PICK s \in Paths : Parent(s) = p /\ local[s] # None
          BY <4>4 DEF Empty
        <5>2. p # <<>>
          BY <1>3, PathsArePaths
        <5>3. s # p
          BY <5>1, <5>2, ParentIsShorter
        <5> QED BY <4>3, <5>1, <5>3 DEF Empty
      <4> QED BY <4>1, <4>3, <4>4
    <3>4. CASE k \in i + 1 .. Len(localFiles)
      <4>1. local[q] = None \/ ~Empty(local, q)
        BY <1>2, <2>1, <3>4 DEF Cleared
      <4>2. q \in Paths /\ Parent(p) # q /\ p # q
        BY <1>1, <1>3, <2>1, <3>4, PassedAfter
      <4>3. \A s \in Paths : s # p => local'[s] = local[s]
        BY <1>1, <1>2, <1>3, <1>5, RemovedIs
      <4> QED BY <4>1, <4>2, <4>3 DEF Empty
    <3> QED BY <3>2, <3>3, <3>4
  <2> QED BY <1>2, <2>1 DEF Cleared
<1> QED BY <1>8, <1>10, <1>11, <1>12

(* Every step keeps what the mirror rests on. *)
LEMMA MirrorKept == IInv /\ MirrorInv /\ [Next]_vars => MirrorInv'
<1> SUFFICES ASSUME IInv, MirrorInv, [Next]_vars PROVE MirrorInv'
  OBVIOUS
<1>1. CASE UNCHANGED vars
  BY <1>1 DEF MirrorInv, SameKind, Obstructed, Kinds, Untouched, Made, Fetched, IsCurrent, Cleared,
              Handled, Passed, Needed, Seen, vars
<1>2. CASE Next
  BY <1>2, MirrorPassive, MirrorMerge, MirrorTransfer, MirrorDelete DEF Next, MirrorInv
<1> QED BY <1>1, <1>2

(* What a download reports as updated is here and not older, unless there had
   been a directory in its place or something else where one of its directories
   belongs.  With deletion, everything included and every file arrived, what the
   remote side does not have is gone, but for what listDirectory passes over and
   the directories that hold any of it; what it has is here, where nothing had
   to change its kind, but for special files and names that are not allowed:
   createDirectory finds the parent because directories come first in the list,
   and remove finds a directory empty because the deletion pass goes backwards. *)
THEOREM DownloadMirrors == Spec => []Mirror
<1>1. IInv /\ MirrorInv => Mirror
  <2> SUFFICES ASSUME IInv, MirrorInv, pc = "done"
               PROVE  /\ \A p \in updated :
                           remote[p].kind = "file" /\ (IsCurrent(p) \/ Obstructed(p) \/ before[p].kind = "dir")
                      /\ deletionEnabled /\ included = Everything /\ ~failed =>
                           \A p \in Paths :
                             /\ remote[p] = None => Gone(p)
                             /\ remote[p] # None /\ SameKind(p) /\ ~Obstructed(p) => Mirrors(p)
    BY DEF Mirror
  <2>1. Kinds /\ Untouched /\ Made /\ Fetched /\ Cleared
    BY DEF MirrorInv
  <2>2. \A p \in updated :
          remote[p].kind = "file" /\ (IsCurrent(p) \/ Obstructed(p) \/ before[p].kind = "dir")
    BY <2>1 DEF Fetched
  <2>3. ASSUME deletionEnabled, included = Everything, ~failed, NEW p \in Paths,
               remote[p] # None => SameKind(p) /\ ~Obstructed(p)
        PROVE  IF remote[p] = None THEN Gone(p) ELSE Mirrors(p)
    <3>1. /\ IsTree(remote) /\ IsTree(before) /\ IsTree(local)
          /\ Listed(localFiles, EntriesOf(before)) /\ SeenListed
      BY DEF IInv, Trees, Locals
    <3>2. /\ remote[p].kind \in {"none", "file", "dir", "link", "special"}
          /\ remote[p] = None <=> remote[p].kind = "none"
      BY <3>1, NodeFacts DEF Nodes, None
    <3>3. \A q \in Paths : Seen(q) <=> before[q] # None /\ q \notin Unlisted
      BY <2>3 DEF Seen
    <3>4. CASE remote[p] = None
      <4>1. ASSUME local[p] # None, p \notin Unlisted PROVE ~Empty(local, p)
        <5>1. before[p] # None
          <6>1. local[p].kind # "none" /\ local[p].kind \in {before[p].kind, remote[p].kind}
            BY <2>1, <3>1, <4>1, NodeFacts DEF Kinds
          <6> QED BY <3>2, <3>4, <6>1 DEF None
        <5>2. PICK k \in 2 .. Len(localFiles) : localFiles[k] = NewEntry(before, p)
          BY <3>1, <3>3, <4>1, <5>1 DEF SeenListed
        <5>3. NodeOf(localFiles[k]) = p
          BY <5>2, EntryNode
        <5>4. i = 1
          BY <2>1, <2>3 DEF Cleared
        <5>5. k \in i + 1 .. Len(localFiles)
          BY <5>4
        <5> QED BY <2>1, <2>3, <3>4, <4>1, <5>3, <5>5 DEF Cleared
      <4> QED BY <3>4, <4>1 DEF Gone
    <3>5. CASE remote[p].kind = "special"
      <4>1. local[p] = before[p]
        BY <2>1, <2>3, <3>2, <3>5 DEF Untouched
      <4> QED BY <3>2, <3>5, <4>1 DEF Mirrors
    <3>6. CASE remote[p].kind \in {"dir", "link"}
      <4>1. Handled(p)
        BY <3>6 DEF Handled, None
      <4>2. SameKind(p) /\ ~Obstructed(p)
        BY <2>3, <3>2, <3>6
      <4>3. remote[p].kind = "dir" => before[p].kind \in {"none", "dir"}
        BY <3>2, <4>2 DEF SameKind, None
      <4>4. local[p].kind = remote[p].kind
        BY <2>1, <2>3, <3>6, <4>1, <4>2, <4>3 DEF Made
      <4> QED BY <3>2, <3>6, <4>4 DEF Mirrors
    <3>7. CASE remote[p].kind = "file" /\ p \in Invalid \cup Internal
      <4>1. Internal \subseteq Unlisted
        BY SyncAssumption
      <4>2. ~Needed(p)
        BY <3>3, <3>7, <4>1 DEF Needed
      <4>3. local[p] = before[p]
        BY <2>1, <2>3, <3>2, <3>7, <4>2 DEF Fetched
      <4> QED BY <3>2, <3>7, <4>3 DEF Mirrors
    <3>8. CASE remote[p].kind = "file" /\ p \notin Invalid \cup Internal
      <4>1. CASE Needed(p)
        <5>1. remote[p] # None
          BY <3>8 DEF None
        <5>2. PICK k \in 1 .. Len(queue) : NodeOf(remoteFiles[queue[k]]) = p
          BY <4>1, <5>1 DEF IInv, Queued, Handled
        <5>3. p \in updated
          BY <2>1, <2>3, <5>2 DEF Fetched
        <5>4. IsCurrent(p)
          <6>1. before[p].kind # "dir" /\ ~Obstructed(p)
            BY <2>3, <3>8, <5>1 DEF SameKind, None
          <6> QED BY <2>2, <5>3, <6>1
        <5> QED BY <3>2, <3>8, <5>4 DEF Mirrors
      <4>2. CASE ~Needed(p)
        <5>1. local[p] = before[p]
          BY <2>1, <2>3, <3>2, <3>8, <4>2 DEF Fetched
        <5>2. before[p] # None /\ ~IsOlderThan(before[p], remote[p])
          BY <3>3, <3>8, <4>2 DEF Needed
        <5>3. before[p].kind = "file"
          BY <2>3, <3>2, <3>8, <5>2 DEF SameKind
        <5>4. IsCurrent(p)
          BY <5>1, <5>2, <5>3 DEF IsCurrent
        <5> QED BY <3>2, <3>8, <5>4 DEF Mirrors
      <4> QED BY <4>1, <4>2
    <3> QED BY <3>2, <3>4, <3>5, <3>6, <3>7, <3>8
  <2>4. ASSUME deletionEnabled, included = Everything, ~failed, NEW p \in Paths
        PROVE  /\ remote[p] = None => Gone(p)
               /\ remote[p] # None /\ SameKind(p) /\ ~Obstructed(p) => Mirrors(p)
    BY <2>3, <2>4
  <2> QED BY <2>2, <2>4
<1> QED BY <1>1, InitMirrorInv, MirrorKept, SyncInvariant, PTL DEF Spec
-----------------------------------------------------------------------------
(* What is in a directory has its path as the beginning of its own. *)
LEMMA ContainsLeads ==
  ASSUME NEW d, NEW e, d.path \in Path, e.path \in Path
  PROVE  Contains(d, e) <=> Leads(d.path, e.path)
<1>1. PICK c, p : c = d.path /\ p = e.path
  OBVIOUS
<1>2. c \in Path /\ p \in Path /\ Len(c) \in Nat /\ Len(p) \in Nat
  BY <1>1 DEF Path
<1>3. ASSUME Len(c) <= Len(p)
      PROVE  SubSeq(p, 1, Len(c)) = c <=> \A j \in 1 .. Len(c) : p[j] = c[j]
  <2>1. PICK s : s = SubSeq(p, 1, Len(c))
    OBVIOUS
  <2>2. s \in Path /\ Len(s) = Len(c) /\ \A j \in 1 .. Len(c) : s[j] = p[j]
    BY <1>2, <1>3, <2>1 DEF Path
  <2>3. (\A j \in 1 .. Len(c) : s[j] = c[j]) => s = c
    BY <1>2, <2>2, SeqEqual DEF Path
  <2> QED BY <2>1, <2>2, <2>3
<1> QED BY <1>1, <1>3 DEF Contains, Leads

(* One step of the stack of directories. *)
Pushed(s, k) ==
  IF remoteFiles[k].kind = "dir" THEN Append(Popped(s, remoteFiles[k]), k) ELSE Popped(s, remoteFiles[k])

Stepped(f, n) == f[1] = <<1>> /\ \A k \in 2 .. n : f[k] = Pushed(f[k - 1], k)

(* There is such a run of the stack of any length. *)
LEMMA SteppedExists ==
  ASSUME NEW n \in Nat \ {0}
  PROVE  \E f : Stepped(f, n)
<1> DEFINE T == {m \in 0 .. n - 1 : \E f : Stepped(f, m + 1)}
<1>1. 0 \in T
  <2> DEFINE f == [k \in 1 .. 1 |-> <<1>>]
  <2>1. f[1] = <<1>> /\ 2 .. 0 + 1 = {}
    OBVIOUS
  <2> HIDE DEF f
  <2>2. Stepped(f, 0 + 1)
    BY <2>1 DEF Stepped
  <2> QED BY <2>2
<1>2. ASSUME NEW m \in 1 .. n - 1, m - 1 \in T PROVE m \in T
  <2>1. PICK f : Stepped(f, m)
    BY <1>2
  <2> DEFINE new == Pushed(f[m], m + 1)
             g == [k \in 1 .. m + 1 |-> IF k <= m THEN f[k] ELSE new]
  <2>2. g[m + 1] = new /\ \A k \in 1 .. m : g[k] = f[k]
    OBVIOUS
  <2> HIDE DEF g
  <2>3. g[1] = <<1>>
    BY <2>1, <2>2 DEF Stepped
  <2>4. ASSUME NEW k \in 2 .. m + 1 PROVE g[k] = Pushed(g[k - 1], k)
    <3>1. CASE k = m + 1
      <4>1. k - 1 = m /\ m \in 1 .. m
        BY <3>1
      <4> QED BY <2>2, <3>1, <4>1
    <3>2. CASE k # m + 1
      <4>1. k \in 2 .. m /\ k \in 1 .. m /\ k - 1 \in 1 .. m
        BY <3>2
      <4> QED BY <2>1, <2>2, <4>1 DEF Stepped
    <3> QED BY <3>1, <3>2
  <2>5. Stepped(g, m + 1)
    BY <2>3, <2>4 DEF Stepped
  <2> QED BY <2>5
<1>3. 0 .. n - 1 \subseteq T
  <2>1. n - 1 \in Nat
    OBVIOUS
  <2> HIDE DEF T
  <2> QED BY <1>1, <1>2, <2>1, InductionUpTo
<1>4. n - 1 \in T /\ n - 1 + 1 = n
  <2>1. n - 1 \in 0 .. n - 1 /\ n - 1 + 1 = n
    OBVIOUS
  <2> HIDE DEF T
  <2> QED BY <1>3, <2>1
<1> QED BY <1>4

(* addSizes goes through the list once, from the first entry. *)
LEMMA DirectoryStackIs ==
  ASSUME NEW n \in Nat \ {0}, DOMAIN remoteFiles = 1 .. n
  PROVE  Stepped(DirectoryStack, n)
<1> DEFINE Eq(s) ==
      s = [k \in DOMAIN remoteFiles |->
             IF k = 1 THEN <<1>>
             ELSE IF remoteFiles[k].kind = "dir" THEN Append(Popped(s[k - 1], remoteFiles[k]), k)
                  ELSE Popped(s[k - 1], remoteFiles[k])]
           Next1(s) == [k \in 1 .. n |-> IF k = 1 THEN <<1>> ELSE Pushed(s[k - 1], k)]
<1>1. \A s : Eq(s) <=> s = Next1(s)
  BY Zenon DEF Pushed
<1>2. PICK h : Stepped(h, n)
  BY SteppedExists
<1> DEFINE f == [k \in 1 .. n |-> h[k]]
<1>3. f = Next1(f)
  <2>1. ASSUME NEW k \in 1 .. n PROVE f[k] = IF k = 1 THEN <<1>> ELSE Pushed(f[k - 1], k)
    <3>1. f[k] = h[k]
      OBVIOUS
    <3>2. CASE k = 1
      BY <1>2, <3>1, <3>2 DEF Stepped
    <3>3. CASE k # 1
      <4>1. k \in 2 .. n /\ k - 1 \in 1 .. n
        BY <3>3
      <4>2. f[k - 1] = h[k - 1]
        BY <4>1
      <4> HIDE DEF f
      <4> QED BY <1>2, <3>1, <3>3, <4>1, <4>2 DEF Stepped
    <3> QED BY <3>2, <3>3
  <2> QED BY <2>1
<1>4. Eq(f)
  BY <1>1, <1>3, Zenon
<1>5. DirectoryStack = CHOOSE s : Eq(s)
  BY DEF DirectoryStack
<1>6. Eq(DirectoryStack)
  <2> HIDE DEF Eq, f
  <2> QED BY <1>4, <1>5
<1>7. PICK s : s = DirectoryStack
  OBVIOUS
<1>8. s = Next1(s)
  <2> HIDE DEF Eq, Next1
  <2> QED BY <1>1, <1>6, <1>7
<1>9. \A k \in 1 .. n : Next1(s)[k] = IF k = 1 THEN <<1>> ELSE Pushed(s[k - 1], k)
  OBVIOUS
<1>10. \A k \in 1 .. n : s[k] = IF k = 1 THEN <<1>> ELSE Pushed(s[k - 1], k)
  <2> HIDE DEF Next1
  <2> QED BY <1>8, <1>9
<1>11. 1 \in 1 .. n /\ \A k \in 2 .. n : k \in 1 .. n /\ k # 1
  OBVIOUS
<1>12. Stepped(s, n)
  BY <1>10, <1>11, Zenon DEF Stepped
<1> QED BY <1>7, <1>12
-----------------------------------------------------------------------------
(* The stack at an entry: the top and the directories that the entry is in,
   each after those that it is in itself. *)
OnStack(s, n) ==
  /\ s \in Seq(1 .. n) /\ Len(s) >= 1 /\ s[1] = 1
  /\ \A j, k \in 1 .. Len(s) : j < k => s[j] < s[k]
  /\ \A j \in 2 .. Len(s) : remoteFiles[s[j]].kind = "dir" /\ Contains(remoteFiles[s[j]], remoteFiles[n])
  /\ \A d \in 2 .. n : remoteFiles[d].kind = "dir" /\ Contains(remoteFiles[d], remoteFiles[n]) =>
       \E j \in 1 .. Len(s) : s[j] = d

(* How far down the stack is popped. *)
LEMMA PoppedTo ==
  ASSUME NEW S, NEW s \in Seq(S), Len(s) >= 1, NEW e
  PROVE  \E m \in 1 .. Len(s) :
           /\ Popped(s, e) = SubSeq(s, 1, m)
           /\ m = 1 \/ Contains(remoteFiles[s[m]], e)
           /\ \A j \in m + 1 .. Len(s) : ~Contains(remoteFiles[s[j]], e)
<1> DEFINE InIt(d) == d = 1 \/ Contains(remoteFiles[s[d]], e)
           Last(d) == InIt(d) /\ \A j \in DOMAIN s : j > d => ~InIt(j)
           T == {d \in 1 .. Len(s) : InIt(d)}
<1>1. Len(s) \in Nat /\ DOMAIN s = 1 .. Len(s)
  BY LenProperties
<1>2. \E d \in DOMAIN s : Last(d)
  <2>1. T \subseteq 0 .. Len(s) /\ 1 \in T
    BY <1>1
  <2>2. PICK d \in T : \A y \in T : y <= d
    <3> HIDE DEF T
    <3> QED BY <1>1, <2>1, GreatestNumber
  <2>3. d \in DOMAIN s /\ InIt(d)
    BY <1>1
  <2>4. ASSUME NEW j \in DOMAIN s, j > d PROVE ~InIt(j)
    <3>1. j \in 1 .. Len(s) /\ ~(j <= d)
      BY <1>1, <2>3, <2>4
    <3>2. j \notin T
      <4> HIDE DEF T
      <4> QED BY <2>2, <3>1
    <3> HIDE DEF InIt
    <3> QED BY <3>1, <3>2
  <2> HIDE DEF InIt
  <2> QED BY <2>3, <2>4
<1>3. PICK m : m = CHOOSE d \in DOMAIN s : Last(d)
  OBVIOUS
<1>4. m \in DOMAIN s /\ Last(m)
  <2> HIDE DEF Last
  <2> QED BY <1>2, <1>3
<1>5. Popped(s, e) = SubSeq(s, 1, m)
  BY <1>3 DEF Popped
<1>6. ASSUME NEW j \in m + 1 .. Len(s) PROVE ~Contains(remoteFiles[s[j]], e)
  <2>1. j \in DOMAIN s /\ j > m
    BY <1>1, <1>4
  <2> QED BY <1>4, <2>1
<1>7. m \in 1 .. Len(s) /\ (m = 1 \/ Contains(remoteFiles[s[m]], e))
  BY <1>1, <1>4
<1> QED BY <1>5, <1>6, <1>7
-----------------------------------------------------------------------------
(* Of two directories that an entry is in, the one that comes first holds the
   other. *)
LEMMA EarlierHolds ==
  ASSUME NEW tree, Listed(remoteFiles, EntriesOf(tree)),
         NEW c \in 2 .. Len(remoteFiles), NEW d \in 2 .. Len(remoteFiles), c < d,
         NEW n \in 2 .. Len(remoteFiles),
         remoteFiles[c].kind = "dir", remoteFiles[d].kind = "dir",
         Contains(remoteFiles[c], remoteFiles[n]), Contains(remoteFiles[d], remoteFiles[n])
  PROVE  Contains(remoteFiles[c], remoteFiles[d])
<1>1. PICK a, b, p : a = remoteFiles[c].path /\ b = remoteFiles[d].path /\ p = remoteFiles[n].path
  OBVIOUS
<1>2. /\ a \in Path /\ b \in Path /\ p \in Path
      /\ CompareGlobally(a, b)
  BY <1>1, ListedFacts DEF GloballyLess
<1>3. Leads(a, p) /\ Leads(b, p)
  BY <1>1, <1>2, ContainsLeads
<1>4. IsPrefix(b) /\ b # <<>>
  <2>1. remoteFiles[d] \in EntriesOf(tree)
    BY ListedFacts
  <2> QED BY <1>1, <2>1, EntryOf
<1>5. Leads(a, b)
  <2>1. Len(a) \in Nat /\ Len(b) \in Nat
    BY <1>2 DEF Path
  <2>2. CASE Len(a) <= Len(b)
    BY <1>2, <1>3, <2>2, LeadsNested
  <2>3. CASE Len(b) <= Len(a)
    <3>1. Leads(b, a)
      BY <1>2, <1>3, <2>3, LeadsNested
    <3>2. a # b
      BY <1>2, Irreflexive
    <3>3. CompareGlobally(b, a)
      BY <1>2, <1>4, <3>1, <3>2, ContentsAfter
    <3> QED BY <1>2, <3>2, <3>3, Total
  <2> QED BY <2>1, <2>2, <2>3
<1> QED BY <1>1, <1>2, <1>5, ContainsLeads

(* What holds a directory holds what is in it. *)
LEMMA ContainsTransitive ==
  ASSUME NEW tree, Listed(remoteFiles, EntriesOf(tree)),
         NEW c \in 2 .. Len(remoteFiles), NEW d \in 2 .. Len(remoteFiles), NEW n \in 2 .. Len(remoteFiles),
         Contains(remoteFiles[c], remoteFiles[d]), Contains(remoteFiles[d], remoteFiles[n])
  PROVE  Contains(remoteFiles[c], remoteFiles[n])
<1>1. PICK a, b, p : a = remoteFiles[c].path /\ b = remoteFiles[d].path /\ p = remoteFiles[n].path
  OBVIOUS
<1>2. a \in Path /\ b \in Path /\ p \in Path
  BY <1>1, ListedFacts
<1>3. Leads(a, b) /\ Leads(b, p)
  BY <1>1, <1>2, ContainsLeads
<1>4. Leads(a, p)
  BY <1>2, <1>3, LeadsTransitive
<1> QED BY <1>1, <1>2, <1>4, ContainsLeads

(* What a directory holds stands together after it. *)
LEMMA ContainsBetween ==
  ASSUME NEW tree, Listed(remoteFiles, EntriesOf(tree)),
         NEW d \in 2 .. Len(remoteFiles), NEW m \in 2 .. Len(remoteFiles), NEW n \in 2 .. Len(remoteFiles),
         d <= m, m < n, remoteFiles[d].kind = "dir", Contains(remoteFiles[d], remoteFiles[n])
  PROVE  Contains(remoteFiles[d], remoteFiles[m])
<1>1. PICK a, b, p : a = remoteFiles[d].path /\ b = remoteFiles[m].path /\ p = remoteFiles[n].path
  OBVIOUS
<1>2. a \in Path /\ b \in Path /\ p \in Path /\ CompareGlobally(b, p)
  BY <1>1, ListedFacts DEF GloballyLess
<1>3. IsPrefix(a) /\ a # <<>>
  <2>1. remoteFiles[d] \in EntriesOf(tree)
    BY ListedFacts
  <2> QED BY <1>1, <2>1, EntryOf
<1>4. Leads(a, p)
  BY <1>1, <1>2, ContainsLeads
<1>5. Leads(a, b)
  <2>1. CASE d = m
    <3>1. a = b /\ Len(a) \in Nat
      BY <1>1, <1>2, <2>1 DEF Path
    <3> QED BY <3>1 DEF Leads
  <2>2. CASE d # m
    <3>1. d < m
      BY <2>2
    <3>2. CompareGlobally(a, b)
      BY <1>1, <3>1, ListedFacts DEF GloballyLess
    <3> QED BY <1>2, <1>3, <1>4, <3>2, ContentsTogether
  <2> QED BY <2>1, <2>2
<1> QED BY <1>1, <1>2, <1>5, ContainsLeads

(* What is left on the stack for an entry: the top and the directories that
   it is in. *)
LEMMA PoppedIs ==
  ASSUME NEW tree, Listed(remoteFiles, EntriesOf(tree)),
         NEW n \in 2 .. Len(remoteFiles), NEW b, b = n - 1,
         NEW s, OnStack(s, b), NEW u, u = Popped(s, remoteFiles[n])
  PROVE  /\ u \in Seq(1 .. b) /\ Len(u) >= 1 /\ u[1] = 1
         /\ \A j, k \in 1 .. Len(u) : j < k => u[j] < u[k]
         /\ \A j \in 2 .. Len(u) : /\ remoteFiles[u[j]].kind = "dir"
                                   /\ Contains(remoteFiles[u[j]], remoteFiles[n])
         /\ \A d \in 2 .. b : remoteFiles[d].kind = "dir" /\ Contains(remoteFiles[d], remoteFiles[n]) =>
              \E j \in 1 .. Len(u) : u[j] = d
<1>1. /\ s \in Seq(1 .. b) /\ Len(s) \in Nat /\ Len(s) >= 1 /\ s[1] = 1
      /\ \A j, k \in 1 .. Len(s) : j < k => s[j] < s[k]
  BY DEF OnStack
<1>2. PICK m \in 1 .. Len(s) :
        /\ u = SubSeq(s, 1, m)
        /\ m = 1 \/ Contains(remoteFiles[s[m]], remoteFiles[n])
        /\ \A j \in m + 1 .. Len(s) : ~Contains(remoteFiles[s[j]], remoteFiles[n])
  BY <1>1, PoppedTo
<1>3. /\ u \in Seq(1 .. b) /\ Len(u) = m
      /\ \A j \in 1 .. m : u[j] = s[j]
  <2>1. m \in Nat /\ 1 <= m /\ m <= Len(s)
    BY <1>1
  <2>2. /\ SubSeq(s, 1, m) \in Seq(1 .. b) /\ Len(SubSeq(s, 1, m)) = m
        /\ \A j \in 1 .. m : SubSeq(s, 1, m)[j] = s[j]
    BY <1>1, <2>1
  <2> QED BY <1>2, <2>2
<1>4. Len(u) >= 1 /\ u[1] = 1
  <2>1. 1 \in 1 .. m /\ m >= 1
    BY <1>1
  <2> QED BY <1>1, <1>3, <2>1
<1>5. \A j, k \in 1 .. Len(u) : j < k => u[j] < u[k]
  <2>1. \A j \in 1 .. m : j \in 1 .. Len(s)
    BY <1>1
  <2> QED BY <1>1, <1>3, <2>1
<1>6. \A j \in 1 .. Len(s) : s[j] \in 1 .. b
  BY <1>1, ElementOfSeq
<1>7. ASSUME NEW j \in 2 .. m
      PROVE  remoteFiles[s[j]].kind = "dir" /\ Contains(remoteFiles[s[j]], remoteFiles[n])
  <2>1. j \in 1 .. Len(s) /\ 1 \in 1 .. Len(s) /\ m \in 1 .. Len(s) /\ 1 < j /\ m # 1
    BY <1>1
  <2>2. s[j] \in 1 .. b /\ s[m] \in 1 .. b /\ s[1] < s[j] /\ s[1] < s[m]
    <3>1. 1 < m
      BY <2>1
    <3> QED BY <1>1, <1>6, <2>1, <3>1
  <2>3. PICK c, d : c = s[j] /\ d = s[m]
    OBVIOUS
  <2>4. c \in 2 .. b /\ d \in 2 .. b
    BY <1>1, <2>2, <2>3
  <2>5. c \in 2 .. Len(remoteFiles) /\ d \in 2 .. Len(remoteFiles) /\ b \in 2 .. Len(remoteFiles)
    BY <2>4
  <2>6. /\ remoteFiles[c].kind = "dir" /\ Contains(remoteFiles[c], remoteFiles[b])
        /\ remoteFiles[d].kind = "dir" /\ Contains(remoteFiles[d], remoteFiles[b])
    <3>1. j \in 2 .. Len(s) /\ m \in 2 .. Len(s)
      BY <2>1
    <3> QED BY <2>3, <3>1 DEF OnStack
  <2>7. Contains(remoteFiles[d], remoteFiles[n])
    BY <1>2, <2>1, <2>3
  <2>8. CASE j = m
    BY <2>3, <2>6, <2>7, <2>8
  <2>9. CASE j # m
    <3>1. j < m
      BY <2>9
    <3>2. c < d
      BY <1>1, <2>1, <2>3, <3>1
    <3>3. Contains(remoteFiles[c], remoteFiles[d])
      BY <2>5, <2>6, <3>2, EarlierHolds
    <3>4. Contains(remoteFiles[c], remoteFiles[n])
      BY <2>5, <2>7, <3>3, ContainsTransitive
    <3> QED BY <2>3, <2>6, <3>4
  <2> QED BY <2>8, <2>9
<1>8. ASSUME NEW d \in 2 .. b, remoteFiles[d].kind = "dir", Contains(remoteFiles[d], remoteFiles[n])
      PROVE  \E j \in 1 .. Len(u) : u[j] = d
  <2>1. d \in 2 .. Len(remoteFiles) /\ b \in 2 .. Len(remoteFiles) /\ d <= b /\ b < n
    OBVIOUS
  <2>2. Contains(remoteFiles[d], remoteFiles[b])
    BY <1>8, <2>1, ContainsBetween
  <2>3. PICK j \in 1 .. Len(s) : s[j] = d
    BY <1>8, <2>2 DEF OnStack
  <2>4. j \notin m + 1 .. Len(s)
    BY <1>2, <1>8, <2>3
  <2>5. j \in 1 .. m
    BY <1>1, <2>4
  <2> QED BY <1>3, <2>3, <2>5
<1>9. \A j \in 2 .. Len(u) : /\ remoteFiles[u[j]].kind = "dir"
                             /\ Contains(remoteFiles[u[j]], remoteFiles[n])
  <2>1. \A j \in 2 .. m : j \in 1 .. m
    OBVIOUS
  <2> QED BY <1>3, <1>7, <2>1
<1> QED BY <1>3, <1>4, <1>5, <1>8, <1>9

(* A step of the stack leaves on it what should be there. *)
LEMMA PushedIs ==
  ASSUME NEW tree, Listed(remoteFiles, EntriesOf(tree)),
         NEW n \in 2 .. Len(remoteFiles), NEW s, OnStack(s, n - 1)
  PROVE  OnStack(Pushed(s, n), n)
<1>1. PICK b, u, w : b = n - 1 /\ u = Popped(s, remoteFiles[n]) /\ w = Pushed(s, n)
  OBVIOUS
<1>2. OnStack(s, b)
  BY <1>1
<1>3. /\ u \in Seq(1 .. b) /\ Len(u) >= 1 /\ u[1] = 1
      /\ \A j, k \in 1 .. Len(u) : j < k => u[j] < u[k]
      /\ \A j \in 2 .. Len(u) : /\ remoteFiles[u[j]].kind = "dir"
                                /\ Contains(remoteFiles[u[j]], remoteFiles[n])
      /\ \A d \in 2 .. b : remoteFiles[d].kind = "dir" /\ Contains(remoteFiles[d], remoteFiles[n]) =>
           \E j \in 1 .. Len(u) : u[j] = d
  BY <1>1, <1>2, PoppedIs
<1>4. b \in Nat /\ n \in Nat /\ n = b + 1 /\ b >= 1
  BY <1>1
<1>5. Len(u) \in Nat /\ \A j \in 1 .. Len(u) : u[j] \in 1 .. b
  <2>1. u \in Seq(1 .. b)
    BY <1>3
  <2> QED BY <2>1, LenProperties, ElementOfSeq
<1>6. \A j \in 1 .. Len(u) : u[j] \in 1 .. n
  BY <1>4, <1>5
<1>7. u \in Seq(1 .. n)
  BY <1>3, <1>6, SeqOf
<1>8. \A d \in 2 .. n : d \in 2 .. b \/ d = n
  BY <1>4
<1>9. CASE remoteFiles[n].kind # "dir"
  <2>1. w = u
    BY <1>1, <1>9 DEF Pushed
  <2>2. OnStack(u, n)
    BY <1>3, <1>7, <1>8, <1>9 DEF OnStack
  <2> QED BY <1>1, <2>1, <2>2
<1>10. CASE remoteFiles[n].kind = "dir"
  <2>1. w = Append(u, n)
    BY <1>1, <1>10 DEF Pushed
  <2>2. PICK a \in Nat : a = Len(u)
    BY <1>5
  <2>3. n \in 1 .. n
    BY <1>4
  <2>4. /\ w \in Seq(1 .. n) /\ Len(w) = a + 1 /\ w[a + 1] = n
        /\ \A j \in 1 .. a : w[j] = u[j]
    BY <1>7, <2>1, <2>2, <2>3
  <2>5. a >= 1 /\ Len(w) >= 1 /\ w[1] = 1
    BY <1>3, <2>2, <2>4
  <2>6. ASSUME NEW j \in 1 .. Len(w), NEW k \in 1 .. Len(w), j < k PROVE w[j] < w[k]
    <3>1. j \in 1 .. a /\ (k \in 1 .. a \/ k = a + 1)
      BY <2>4, <2>6
    <3>2. CASE k \in 1 .. a
      BY <1>3, <2>2, <2>4, <2>6, <3>1, <3>2
    <3>3. CASE k = a + 1
      <4>1. w[j] \in 1 .. b /\ w[k] = n
        BY <1>5, <2>2, <2>4, <3>1, <3>3
      <4> QED BY <1>4, <4>1
    <3> QED BY <3>1, <3>2, <3>3
  <2>7. Contains(remoteFiles[n], remoteFiles[n])
    <3>1. remoteFiles[n].path \in Path
      BY ListedFacts
    <3>2. Leads(remoteFiles[n].path, remoteFiles[n].path)
      BY <3>1 DEF Leads, Path
    <3> QED BY <3>1, <3>2, ContainsLeads
  <2>8. ASSUME NEW j \in 2 .. Len(w)
        PROVE  remoteFiles[w[j]].kind = "dir" /\ Contains(remoteFiles[w[j]], remoteFiles[n])
    <3>1. (j \in 2 .. a /\ j \in 1 .. a) \/ j = a + 1
      BY <2>2, <2>4, <2>8
    <3>2. CASE j \in 2 .. a /\ j \in 1 .. a
      BY <1>3, <2>2, <2>4, <3>2
    <3>3. CASE j = a + 1
      BY <1>10, <2>4, <2>7, <3>3
    <3> QED BY <3>1, <3>2, <3>3
  <2>9. ASSUME NEW d \in 2 .. n, remoteFiles[d].kind = "dir", Contains(remoteFiles[d], remoteFiles[n])
        PROVE  \E j \in 1 .. Len(w) : w[j] = d
    <3>1. a + 1 \in 1 .. Len(w) /\ \A j \in 1 .. a : j \in 1 .. Len(w)
      BY <2>2, <2>4
    <3>2. CASE d = n
      BY <2>4, <3>1, <3>2
    <3>3. CASE d \in 2 .. b
      <4>1. PICK j \in 1 .. a : u[j] = d
        BY <1>3, <2>2, <2>9, <3>3
      <4> QED BY <2>4, <3>1, <4>1
    <3> QED BY <1>8, <3>2, <3>3
  <2>10. OnStack(w, n)
    BY <2>4, <2>5, <2>6, <2>8, <2>9 DEF OnStack
  <2> QED BY <1>1, <2>10
<1> QED BY <1>9, <1>10

(* At every place of the list the stack holds the directories that the entry
   is in. *)
LEMMA StackIs ==
  ASSUME NEW tree, Listed(remoteFiles, EntriesOf(tree)), NEW n, n = Len(remoteFiles)
  PROVE  \A k \in 1 .. n : OnStack(DirectoryStack[k], k)
<1>1. n \in Nat \ {0} /\ DOMAIN remoteFiles = 1 .. n
  BY ListedFacts, LenProperties DEF Listed
<1>2. PICK f : f = DirectoryStack
  OBVIOUS
<1>3. Stepped(f, n)
  BY <1>1, <1>2, DirectoryStackIs
<1>4. PICK b \in Nat : n = b + 1
  <2>1. n - 1 \in Nat /\ n = (n - 1) + 1
    BY <1>1
  <2> QED BY <2>1
<1> DEFINE T == {m \in 0 .. b : OnStack(f[m + 1], m + 1)}
<1>5. 0 \in T
  <2>1. f[0 + 1] = <<1>>
    BY <1>3 DEF Stepped
  <2>2. PICK s : s = <<1>>
    OBVIOUS
  <2>3. s \in Seq(1 .. 0 + 1) /\ Len(s) = 1 /\ s[1] = 1
    BY <2>2
  <2>4. 2 .. 1 = {} /\ 2 .. 0 + 1 = {} /\ \A j, k \in 1 .. 1 : ~(j < k)
    OBVIOUS
  <2>5. OnStack(s, 0 + 1)
    BY <2>3, <2>4 DEF OnStack
  <2>6. 0 \in 0 .. b
    BY <1>4
  <2> QED BY <2>1, <2>2, <2>5, <2>6
<1>6. ASSUME NEW m \in 1 .. b, m - 1 \in T PROVE m \in T
  <2>1. OnStack(f[m], m)
    <3>1. OnStack(f[m - 1 + 1], m - 1 + 1) /\ m - 1 + 1 = m
      BY <1>6
    <3> QED BY <3>1
  <2>2. PICK k : k = m + 1
    OBVIOUS
  <2>3. k \in 2 .. n /\ k - 1 = m /\ m \in 0 .. b
    BY <1>4, <2>2
  <2>4. f[k] = Pushed(f[k - 1], k)
    BY <1>3, <2>3 DEF Stepped
  <2>5. OnStack(f[k], k)
    <3>1. PICK s : s = f[m]
      OBVIOUS
    <3>2. OnStack(s, k - 1) /\ k \in 2 .. Len(remoteFiles)
      BY <2>1, <2>3, <3>1
    <3>3. OnStack(Pushed(s, k), k)
      BY <3>2, PushedIs
    <3> QED BY <2>3, <2>4, <3>1, <3>3
  <2> QED BY <2>2, <2>3, <2>5
<1>7. 0 .. b \subseteq T
  <2> HIDE DEF T
  <2> QED BY <1>4, <1>5, <1>6, InductionUpTo
<1>8. ASSUME NEW k \in 1 .. n PROVE OnStack(f[k], k)
  <2>1. k - 1 \in 0 .. b /\ k - 1 + 1 = k
    BY <1>4
  <2>2. k - 1 \in T
    BY <1>7, <2>1
  <2>3. OnStack(f[k - 1 + 1], k - 1 + 1)
    BY <2>2
  <2> QED BY <2>1, <2>3
<1> QED BY <1>2, <1>8
-----------------------------------------------------------------------------
(* What a directory holds comes after it. *)
LEMMA ContainedAfter ==
  ASSUME NEW tree, Listed(remoteFiles, EntriesOf(tree)),
         NEW d \in 2 .. Len(remoteFiles), NEW k \in 2 .. Len(remoteFiles),
         remoteFiles[d].kind = "dir", remoteFiles[k].kind # "dir",
         Contains(remoteFiles[d], remoteFiles[k])
  PROVE  d < k
<1>1. PICK e, f : e = remoteFiles[d] /\ f = remoteFiles[k]
  OBVIOUS
<1>2. e \in EntriesOf(tree) /\ f \in EntriesOf(tree)
  BY <1>1, ListedFacts
<1>3. /\ e.path \in Path /\ f.path \in Path /\ IsPrefix(e.path) /\ e.path # <<>>
  BY <1>1, <1>2, EntryOf
<1>4. e.path # f.path
  BY <1>1, <1>2, EntryByPath
<1>5. Leads(e.path, f.path)
  BY <1>1, <1>3, ContainsLeads
<1>6. GloballyLess(e, f)
  BY <1>3, <1>4, <1>5, ContentsAfter DEF GloballyLess
<1> QED BY <1>1, <1>6, EarlierPlace

(* Adding the sizes up gives what is under every directory. *)
LEMMA SizesAdded ==
  ASSUME IInv, AddSizes
  PROVE  SizesAreExact'
<1>1. UNCHANGED remoteFiles
  BY DEF AddSizes, constant
<1>2. Listed(remoteFiles, EntriesOf(remote))
  BY DEF IInv, Trees
<1>3. PICK n : n = Len(remoteFiles)
  OBVIOUS
<1>4. n \in Nat \ {0} /\ DOMAIN remoteFiles = 1 .. n /\ remoteFiles[1] = Top
  BY <1>2, <1>3, ListedFacts, LenProperties DEF Listed
<1>5. remoteFiles[1].kind = "dir"
  BY <1>4 DEF Top
<1>6. PICK stack : stack = DirectoryStack
  OBVIOUS
<1>7. \A k \in 1 .. n : OnStack(stack[k], k)
  BY <1>2, <1>3, <1>6, StackIs
<1> DEFINE Held(d) == {k \in DOMAIN remoteFiles \ {1} :
                         /\ remoteFiles[k].kind # "dir"
                         /\ \E j \in DOMAIN stack[k] : stack[k][j] = d}
           Exact(d) == {k \in DOMAIN remoteFiles :
                          /\ remoteFiles[d].kind = "dir" /\ remoteFiles[k].kind # "dir"
                          /\ d = 1 \/ Contains(remoteFiles[d], remoteFiles[k])}
<1>8. sizes' = [d \in DOMAIN remoteFiles |-> Held(d)]
  BY <1>6 DEF AddSizes
<1>9. ASSUME NEW d \in 1 .. n PROVE Held(d) = Exact(d)
  <2>1. ASSUME NEW k \in 2 .. n, remoteFiles[k].kind # "dir"
        PROVE  (\E j \in DOMAIN stack[k] : stack[k][j] = d)
                 <=> remoteFiles[d].kind = "dir" /\ (d = 1 \/ Contains(remoteFiles[d], remoteFiles[k]))
    <3>1. PICK s : s = stack[k]
      OBVIOUS
    <3>2. OnStack(s, k)
      <4>1. k \in 1 .. n
        OBVIOUS
      <4> QED BY <1>7, <3>1, <4>1
    <3>3. DOMAIN s = 1 .. Len(s) /\ Len(s) \in Nat /\ Len(s) >= 1 /\ s[1] = 1
      BY <3>2, LenProperties DEF OnStack
    <3>4. ASSUME NEW j \in 1 .. Len(s), s[j] = d
          PROVE  remoteFiles[d].kind = "dir" /\ (d = 1 \/ Contains(remoteFiles[d], remoteFiles[k]))
      <4>1. CASE j = 1
        BY <1>5, <3>3, <3>4, <4>1
      <4>2. CASE j # 1
        <5>1. j \in 2 .. Len(s)
          BY <3>3, <4>2
        <5> QED BY <3>2, <3>4, <5>1 DEF OnStack
      <4> QED BY <4>1, <4>2
    <3>5. ASSUME d = 1 PROVE \E j \in 1 .. Len(s) : s[j] = d
      <4>1. 1 \in 1 .. Len(s)
        BY <3>3
      <4> QED BY <3>3, <3>5, <4>1
    <3>6. ASSUME d # 1, remoteFiles[d].kind = "dir", Contains(remoteFiles[d], remoteFiles[k])
          PROVE  \E j \in 1 .. Len(s) : s[j] = d
      <4>1. d \in 2 .. Len(remoteFiles) /\ k \in 2 .. Len(remoteFiles)
        BY <1>3, <3>6
      <4>2. d < k
        BY <1>2, <2>1, <3>6, <4>1, ContainedAfter
      <4>3. d \in 2 .. k
        BY <3>6, <4>2
      <4> QED BY <3>2, <3>6, <4>3 DEF OnStack
    <3> QED BY <3>1, <3>3, <3>4, <3>5, <3>6
  <2>2. \A k : k \in DOMAIN remoteFiles \ {1} <=> k \in 2 .. n
    BY <1>4
  <2>3. \A k : k \in DOMAIN remoteFiles /\ remoteFiles[k].kind # "dir" => k \in 2 .. n
    BY <1>5, <2>2
  <2>4. \A k \in 2 .. n : k \in DOMAIN remoteFiles
    BY <2>2
  <2> QED BY <2>1, <2>2, <2>3, <2>4
<1>10. \A d \in DOMAIN remoteFiles : sizes'[d] = Exact(d)
  <2>1. \A d \in DOMAIN remoteFiles : sizes'[d] = Held(d)
    BY <1>8
  <2> HIDE DEF Held, Exact
  <2> QED BY <1>4, <1>9, <2>1
<1> QED BY <1>1, <1>10 DEF SizesAreExact, Contains

(* What addSizes reports of a directory is what is under it, at any depth: the
   stack that it pops once for every entry holds the directories that the entry
   is in, whatever else is named almost like them. *)
THEOREM SizesExact == Spec => []SizesAreExact
<1>1. Init => SizesAreExact
  BY DEF Init, SizesAreExact
<1>2. IInv /\ SizesAreExact /\ [Next]_vars => SizesAreExact'
  <2> SUFFICES ASSUME IInv, SizesAreExact, [Next]_vars PROVE SizesAreExact'
    OBVIOUS
  <2>1. CASE AddSizes
    BY <2>1, SizesAdded
  <2>2. CASE UNCHANGED vars
    BY <2>2 DEF SizesAreExact, Contains, vars
  <2>3. CASE Next /\ ~AddSizes
    <3>1. pc' # "done"
      BY <2>3 DEF Next, ListNext, ListIncluded, Indexed, Merge, Merged, Transfer, Transferred, Delete, Deleted
    <3> QED BY <3>1 DEF SizesAreExact
  <2> QED BY <2>1, <2>2, <2>3
<1> QED BY <1>1, <1>2, SyncInvariant, PTL DEF Spec
-----------------------------------------------------------------------------
(* What is taken off the front of two sequences put together. *)
LEMMA FrontOf ==
  ASSUME NEW S, NEW s \in Seq(S), NEW t \in Seq(S)
  PROVE  /\ \A k \in 1 .. Len(s) : At(s \o t, k) = s[k]
         /\ Drop(s \o t, Len(s)) = t
<1>1. PICK w : w = s \o t
  OBVIOUS
<1>2. /\ w \in Seq(S) /\ Len(w) = Len(s) + Len(t)
      /\ \A k \in 1 .. Len(s) + Len(t) : w[k] = IF k <= Len(s) THEN s[k] ELSE t[k - Len(s)]
  BY <1>1, ConcatProperties
<1>3. PICK m \in Nat, n \in Nat : m = Len(s) /\ n = Len(t)
  OBVIOUS
<1>4. /\ Len(w) = m + n /\ \A k \in 1 .. m + n : w[k] = IF k <= m THEN s[k] ELSE t[k - m]
  BY <1>2, <1>3
<1>5. ASSUME NEW k \in 1 .. m PROVE At(w, k) = s[k]
  BY <1>3, <1>4 DEF At
<1>6. PICK d : d = Drop(w, m)
  OBVIOUS
<1>7. d = SubSeq(w, m + 1, m + n)
  BY <1>4, <1>6 DEF Drop
<1>8. d \in Seq(S) /\ Len(d) = n /\ \A k \in 1 .. n : d[k] = w[m + k]
  <2>1. \A k \in m + 1 .. m + n : w[k] \in S
    BY <1>2, <1>3, <1>4, ElementOfSeq
  <2>2. /\ Len(d) = n /\ d \in Seq(S)
        /\ \A k \in 1 .. n : d[k] = w[m + 1 + k - 1]
    BY <1>2, <1>3, <1>4, <1>7, <2>1
  <2>3. \A k \in 1 .. n : m + 1 + k - 1 = m + k
    BY <1>3
  <2> QED BY <2>2, <2>3
<1>9. \A k \in 1 .. n : d[k] = t[k]
  <2> TAKE k \in 1 .. n
  <2>1. m + k \in 1 .. m + n /\ ~(m + k <= m) /\ m + k - m = k
    BY <1>3
  <2>2. w[m + k] = t[m + k - m]
    BY <1>4, <2>1
  <2>3. d[k] = w[m + k]
    BY <1>8
  <2> QED BY <2>1, <2>2, <2>3, Zenon
<1>10. d = t
  BY <1>3, <1>8, <1>9, SeqEqual
<1> QED BY <1>1, <1>3, <1>5, <1>6, <1>10, Zenon

(* What a reader returns that has read a value. *)
Gives(r, value, rest) == r.ok /\ r.value = value /\ r.rest = rest

(* What has been written is read as it was. *)
LEMMA BytesRead ==
  ASSUME NEW S, NEW s \in Seq(S), NEW t \in Seq(S)
  PROVE  Gives(ReadBytes(s \o t, Len(s)), s, t)
<1> PICK r : r = ReadBytes(s \o t, Len(s))
  OBVIOUS
<1>1. PICK w : w = s \o t
  OBVIOUS
<1>2. (\A k \in 1 .. Len(s) : At(w, k) = s[k]) /\ Drop(w, Len(s)) = t
  BY <1>1, FrontOf, Zenon
<1>3. r = ReadBytes(w, Len(s))
  BY <1>1, Zenon
<1>4. /\ r.ok /\ r.value = [k \in 1 .. Len(s) |-> At(w, k)] /\ r.rest = Drop(w, Len(s))
  <2>1. \A q : q = ReadBytes(w, Len(s)) =>
                q.ok /\ q.value = [k \in 1 .. Len(s) |-> At(w, k)] /\ q.rest = Drop(w, Len(s))
    BY DEF ReadBytes, Read
  <2> QED BY <1>3, <2>1, Zenon
<1>5. s = [k \in 1 .. Len(s) |-> s[k]]
  OBVIOUS
<1>6. [k \in 1 .. Len(s) |-> At(w, k)] = [k \in 1 .. Len(s) |-> s[k]]
  BY <1>2
<1>7. r.ok /\ r.value = s /\ r.rest = t
  BY <1>2, <1>4, <1>5, <1>6, Zenon
<1> QED BY <1>7 DEF Gives
-----------------------------------------------------------------------------
(* The bytes that begin with so many ones. *)
LEMMA OnesAre ==
  /\ Ones[0] = 0 /\ Ones[1] = 128 /\ Ones[2] = 192 /\ Ones[3] = 224
  /\ Ones[4] = 240 /\ Ones[5] = 248 /\ Ones[6] = 252 /\ Ones[7] = 254
<1>1. \A e \in 0 .. 7 : Ones[e] = <<0, 128, 192, 224, 240, 248, 252, 254>>[e + 1]
  BY DEF Ones
<1> QED BY <1>1

(* The room behind them. *)
LEMMA RoomIs ==
  /\ Room(0) = 256 /\ Room(1) = 128 /\ Room(2) = 64 /\ Room(3) = 32
  /\ Room(4) = 16 /\ Room(5) = 8 /\ Room(6) = 4 /\ Room(7) = 2
BY OnesAre DEF Room

(* The number of ones that a byte begins with is found. *)
LEMMA VariableLengthIs ==
  ASSUME NEW e \in 0 .. 6, NEW c \in Nat, c >= Ones[e], e < 6 => c < Ones[e + 1]
  PROVE  VariableLength(c) = e
<1> DEFINE P(k) == c >= Ones[k] /\ (k < 6 => c < Ones[k + 1])
<1>1. P(e)
  OBVIOUS
<1>2. ASSUME NEW k \in 0 .. 6, P(k) PROVE k = e
  <2>1. k \in {0, 1, 2, 3, 4, 5, 6} /\ e \in {0, 1, 2, 3, 4, 5, 6}
    OBVIOUS
  <2> QED BY <1>1, <1>2, <2>1, OnesAre
<1>3. VariableLength(c) = CHOOSE k \in 0 .. 6 : P(k)
  BY DEF VariableLength
<1> HIDE DEF P
<1> QED BY <1>1, <1>2, <1>3
-----------------------------------------------------------------------------
-----------------------------------------------------------------------------
(* The widths of a variable-length integer and of the least that is sent of it. *)
Forms == {<<4, 1>>, <<8, 3>>, <<8, 4>>}

(* The bytes that count are found. *)
LEMMA SignificantIs ==
  ASSUME NEW width \in Nat, NEW least \in 1 .. width, NEW v \in Bytes(width),
         NEW k, k = Significant(v, least)
  PROVE  /\ k \in least .. width
         /\ \A j \in k + 1 .. width : v[j] = 0
         /\ k > least => v[k] # 0
<1> DEFINE P(n) == (\A j \in n + 1 .. width : v[j] = 0) /\ (n > least => v[n] # 0)
           T == {n \in least .. width : n > least => v[n] # 0}
<1>1. Len(v) = width
  BY DEF Bytes
<1>2. PICK x \in T : \A y \in T : y <= x
  <2>1. T \subseteq 0 .. width /\ least \in T
    OBVIOUS
  <2> HIDE DEF T
  <2> QED BY <2>1, GreatestNumber
<1>3. ASSUME NEW j \in x + 1 .. width PROVE v[j] = 0
  <2>1. j \in least .. width /\ j > least /\ ~(j <= x)
    OBVIOUS
  <2>2. j \notin T
    <3> HIDE DEF T
    <3> QED BY <1>2, <2>1
  <2> QED BY <2>1, <2>2
<1>4. x \in least .. width /\ P(x)
  BY <1>3
<1>5. k = CHOOSE n \in least .. width : P(n)
  BY <1>1 DEF Significant
<1>6. k \in least .. width /\ P(k)
  <2> HIDE DEF P, T
  <2> QED BY <1>4, <1>5
<1> QED BY <1>6

(* A variable-length integer of n + 1 bytes: the first one, c, begins with e ones
   and holds what the others do not. *)
PackedAs(v, width, least, e, c, n) ==
  /\ n = least + e - 1
  /\ Pack(v, least) = <<c>> \o SubSeq(v, 1, n)
  /\ VariableLength(c) = e
  /\ n < width => v[n + 1] = c % Room(e)
  /\ \A j \in n + 2 .. width : v[j] = 0

(* Every variable-length integer is such a one. *)
LEMMA PackIs ==
  ASSUME NEW width, NEW least, <<width, least>> \in Forms, NEW v \in Bytes(width)
  PROVE  \E e \in 0 .. 6, c \in Byte, n \in 0 .. width : PackedAs(v, width, least, e, c, n)
<1>1. width \in Nat /\ least \in 1 .. width /\ width - least \in 0 .. 5
  BY DEF Forms
<1>2. PICK k : k = Significant(v, least)
  OBVIOUS
<1>3. /\ k \in least .. width
      /\ \A j \in k + 1 .. width : v[j] = 0
  BY <1>1, <1>2, SignificantIs
<1>4. PICK e \in 0 .. 5 : e = k - least
  BY <1>1, <1>3
<1>5. PICK b \in Byte : b = v[k]
  BY <1>1, <1>3 DEF Bytes
<1>6. e \in {0, 1, 2, 3, 4, 5}
  OBVIOUS
<1>7. CASE b >= Room(e + 1)
  <2>1. PICK c \in Byte : c = Ones[e + 1]
    BY <1>6, OnesAre DEF Byte
  <2>2. Pack(v, least) = <<c>> \o SubSeq(v, 1, k)
    BY <1>2, <1>4, <1>5, <1>7, <2>1 DEF Pack
  <2>3. VariableLength(c) = e + 1
    <3>1. c >= Ones[e + 1] /\ (e + 1 < 6 => c < Ones[(e + 1) + 1])
      BY <1>6, <2>1, OnesAre
    <3>2. e + 1 \in 0 .. 6 /\ c \in Nat
      BY DEF Byte
    <3> QED BY <3>1, <3>2, VariableLengthIs
  <2>4. c % Room(e + 1) = 0
    BY <1>6, <2>1, OnesAre, RoomIs
  <2>5. k = least + (e + 1) - 1 /\ k \in 0 .. width /\ e + 1 \in 0 .. 6
    BY <1>1, <1>3, <1>4
  <2>6. k < width => v[k + 1] = 0
    BY <1>1, <1>3
  <2>7. \A j \in k + 2 .. width : v[j] = 0
    BY <1>1, <1>3
  <2> QED BY <2>2, <2>3, <2>4, <2>5, <2>6, <2>7 DEF PackedAs
<1>8. CASE ~(b >= Room(e + 1))
  <2>1. b \in Nat /\ b < Room(e + 1)
    <3>1. Room(e + 1) \in Nat
      BY <1>6, RoomIs
    <3> QED BY <1>8, <3>1 DEF Byte
  <2>2. PICK c \in Byte : c = Ones[e] + b
    BY <1>6, <2>1, OnesAre, RoomIs DEF Byte
  <2>3. Pack(v, least) = <<c>> \o SubSeq(v, 1, k - 1)
    BY <1>2, <1>4, <1>5, <1>8, <2>2 DEF Pack
  <2>4. VariableLength(c) = e
    <3>1. c >= Ones[e] /\ (e < 6 => c < Ones[e + 1])
      BY <1>6, <2>1, <2>2, OnesAre, RoomIs
    <3>2. e \in 0 .. 6 /\ c \in Nat
      BY DEF Byte
    <3> QED BY <3>1, <3>2, VariableLengthIs
  <2>5. c % Room(e) = b
    <3>1. CASE e = 0
      BY <2>1, <2>2, <3>1, OnesAre, RoomIs
    <3>2. CASE e = 1
      BY <2>1, <2>2, <3>2, OnesAre, RoomIs
    <3>3. CASE e = 2
      BY <2>1, <2>2, <3>3, OnesAre, RoomIs
    <3>4. CASE e = 3
      BY <2>1, <2>2, <3>4, OnesAre, RoomIs
    <3>5. CASE e = 4
      BY <2>1, <2>2, <3>5, OnesAre, RoomIs
    <3>6. CASE e = 5
      BY <2>1, <2>2, <3>6, OnesAre, RoomIs
    <3> QED BY <1>6, <3>1, <3>2, <3>3, <3>4, <3>5, <3>6, Zenon
  <2>6. k - 1 = least + e - 1 /\ k - 1 \in 0 .. width /\ e \in 0 .. 6
    BY <1>1, <1>3, <1>4
  <2>7. k - 1 < width => v[(k - 1) + 1] = c % Room(e)
    BY <1>1, <1>3, <1>5, <2>5
  <2>8. \A j \in (k - 1) + 2 .. width : v[j] = 0
    BY <1>1, <1>3
  <2> QED BY <2>3, <2>4, <2>6, <2>7, <2>8 DEF PackedAs
<1> QED BY <1>7, <1>8
(* A variable-length integer is read as it was written. *)
LEMMA UnpackIs ==
  ASSUME NEW S, Byte \subseteq S, NEW width, NEW least, <<width, least>> \in Forms,
         NEW v \in Bytes(width), NEW rest \in Seq(S)
  PROVE  /\ Pack(v, least) \in Seq(S)
         /\ Gives(Unpack(Pack(v, least) \o rest, least, width), v, rest)
<1>1. width \in Nat /\ least \in 1 .. width
  BY DEF Forms
<1>2. PICK e \in 0 .. 6, c \in Byte, n \in 0 .. width : PackedAs(v, width, least, e, c, n)
  BY PackIs
<1>3. /\ n = least + e - 1
      /\ Pack(v, least) = <<c>> \o SubSeq(v, 1, n)
      /\ VariableLength(c) = e
      /\ n < width => v[n + 1] = c % Room(e)
      /\ \A j \in n + 2 .. width : v[j] = 0
  BY <1>2, Zenon DEF PackedAs
<1>4. PICK p : p = Pack(v, least)
  OBVIOUS
<1>5. /\ p \in Seq(S) /\ Len(p) = n + 1 /\ p[1] = c
      /\ \A k \in 1 .. n : p[k + 1] = v[k]
  <2>1. v \in Seq(Byte) /\ Len(v) = width
    BY <1>1 DEF Bytes
  <2>2. PICK q : q = SubSeq(v, 1, n)
    OBVIOUS
  <2>3. q \in Seq(Byte) /\ Len(q) = n /\ \A k \in 1 .. n : q[k] = v[k]
    BY <1>1, <2>1, <2>2
  <2>4. p = <<c>> \o q
    BY <1>3, <1>4, <2>2, Zenon
  <2>5. q \in Seq(S) /\ c \in S
    BY <2>3
  <2>6. p \in Seq(S) /\ Len(p) = n + 1 /\ p[1] = c
    BY <2>3, <2>4, <2>5
  <2>7. \A k \in 1 .. n : p[k + 1] = q[k]
    BY <2>3, <2>4, <2>5
  <2> QED BY <2>3, <2>6, <2>7
<1>6. PICK w : w = p \o rest
  OBVIOUS
<1>7. (\A k \in 1 .. n + 1 : At(w, k) = p[k]) /\ Drop(w, n + 1) = rest
  <2>1. (\A k \in 1 .. Len(p) : At(p \o rest, k) = p[k]) /\ Drop(p \o rest, Len(p)) = rest
    BY <1>5, FrontOf
  <2>2. Len(p) = n + 1
    BY <1>5
  <2> QED BY <1>6, <2>1, <2>2, Zenon
<1>8. w[1] = c
  <2>1. Len(w) >= 1 /\ 1 \in 1 .. n + 1
    BY <1>5, <1>6
  <2> QED BY <1>5, <1>7, <2>1 DEF At
<1>9. n + 1 = least + e /\ ~(e + least > width + 1)
  <2>1. n = least + e - 1
    BY <1>3, Zenon
  <2> QED BY <1>1, <2>1
<1>10. PICK f : f = [k \in 1 .. width |->
                     IF k < least + e THEN At(w, k + 1)
                     ELSE IF k = least + e THEN c % Room(e)
                     ELSE 0]
  OBVIOUS
<1>11. Unpack(w, least, width) = Read(f, Drop(w, n + 1))
  BY <1>3, <1>8, <1>9, <1>10 DEF Unpack
<1>12. f = v
  <2>1. ASSUME NEW k \in 1 .. width PROVE f[k] = v[k]
    <3>1. CASE k < n + 1
      <4>1. k \in 1 .. n /\ k + 1 \in 1 .. n + 1 /\ k < least + e
        BY <1>9, <3>1
      <4>2. f[k] = At(w, k + 1)
        BY <1>10, <4>1
      <4> QED BY <1>5, <1>7, <4>1, <4>2
    <3>2. CASE k = n + 1
      <4>1. ~(k < least + e) /\ k = least + e /\ n < width
        BY <1>1, <1>9, <3>2
      <4>2. f[k] = c % Room(e)
        BY <1>10, <4>1
      <4> QED BY <1>3, <3>2, <4>1, <4>2
    <3>3. CASE k > n + 1
      <4>1. ~(k < least + e) /\ k # least + e /\ k \in n + 2 .. width
        BY <1>9, <3>3
      <4>2. f[k] = 0
        BY <1>10, <4>1
      <4> QED BY <1>3, <4>1, <4>2
    <3> QED BY <3>1, <3>2, <3>3
  <2>2. v = [k \in 1 .. width |-> v[k]]
    BY DEF Bytes
  <2>3. f = [k \in 1 .. width |-> f[k]]
    BY <1>10
  <2> QED BY <2>1, <2>2, <2>3
<1>13. Gives(Read(f, rest), f, rest)
  BY DEF Gives, Read
<1>14. p \in Seq(S)
  BY <1>5
<1> QED BY <1>4, <1>6, <1>7, <1>11, <1>12, <1>13, <1>14, Zenon
-----------------------------------------------------------------------------
(* A sequence is found again at the front of a longer one. *)
LEMMA FrontIs ==
  ASSUME NEW S, NEW s \in Seq(S), NEW t \in Seq(S)
  PROVE  SubSeq(s \o t, 1, Len(s)) = s
<1>1. PICK w : w = s \o t
  OBVIOUS
<1>2. /\ w \in Seq(S) /\ Len(w) = Len(s) + Len(t)
      /\ \A k \in 1 .. Len(s) + Len(t) : w[k] = IF k <= Len(s) THEN s[k] ELSE t[k - Len(s)]
  BY <1>1, ConcatProperties
<1>3. PICK m \in Nat, n \in Nat : m = Len(s) /\ n = Len(t)
  OBVIOUS
<1>4. Len(w) = m + n /\ \A k \in 1 .. m : w[k] = s[k]
  BY <1>2, <1>3
<1>5. PICK d : d = SubSeq(w, 1, m)
  OBVIOUS
<1>6. d \in Seq(S) /\ Len(d) = m /\ \A k \in 1 .. m : d[k] = w[k]
  <2>1. \A k \in 1 .. m : w[k] \in S
    BY <1>2, <1>3, <1>4, ElementOfSeq
  <2>2. m <= Len(w) /\ 1 \in Nat
    BY <1>4
  <2> QED BY <1>2, <1>5, <2>1, <2>2
<1>7. \A k \in 1 .. m : d[k] = s[k]
  BY <1>4, <1>6
<1>8. d = s
  BY <1>3, <1>6, <1>7, SeqEqual
<1> QED BY <1>1, <1>3, <1>5, <1>8, Zenon

(* The bytes of an integer are a sequence. *)
LEMMA BytesAre ==
  ASSUME NEW S, Byte \subseteq S, NEW n \in Nat, NEW v \in Bytes(n)
  PROVE  v \in Seq(S) /\ Len(v) = n /\ \A k \in 1 .. n : v[k] \in Byte
<1>1. v \in Seq(Byte)
  BY DEF Bytes
<1>2. Len(v) = n /\ \A k \in 1 .. n : v[k] \in Byte
  BY DEF Bytes
<1>3. v \in Seq(S)
  BY <1>1
<1> QED BY <1>2, <1>3

(* So are the first four of eight. *)
LEMMA FirstFour ==
  ASSUME NEW S, Byte \subseteq S, NEW v \in Bytes(8)
  PROVE  /\ SubSeq(v, 1, 4) \in Seq(S) /\ Len(SubSeq(v, 1, 4)) = 4
         /\ \A k \in 1 .. 4 : SubSeq(v, 1, 4)[k] = v[k]
<1>1. 8 \in Nat
  OBVIOUS
<1>2. v \in Seq(S) /\ Len(v) = 8 /\ \A k \in 1 .. 8 : v[k] \in Byte
  BY <1>1, BytesAre, Zenon
<1>3. PICK q : q = SubSeq(v, 1, 4)
  OBVIOUS
<1>4. q \in Seq(S) /\ Len(q) = 4 /\ \A k \in 1 .. 4 : q[k] = v[k]
  BY <1>2, <1>3
<1> QED BY <1>3, <1>4, Zenon

(* A 64-bit integer of protocol 29 is read as it was written, in four bytes or
   in twelve. *)
LEMMA Int64Read ==
  ASSUME NEW S, Byte \subseteq S, NEW v \in Bytes(8), NEW rest \in Seq(S)
  PROVE  /\ WriteInt64(v) \in Seq(S)
         /\ Gives(ReadInt64(WriteInt64(v) \o rest), v, rest)
<1>1. v \in Seq(S) /\ Len(v) = 8 /\ \A k \in 1 .. 8 : v[k] \in Byte
  <2>1. 8 \in Nat
    OBVIOUS
  <2> QED BY <2>1, BytesAre, Zenon
<1>2. PICK full : full = <<255, 255, 255, 255>>
  OBVIOUS
<1>3. full \in Seq(S) /\ Len(full) = 4 /\ full[4] = 255
  BY <1>2 DEF Byte
<1>4. PICK small : small <=> (v[4] < 128 /\ \A k \in 5 .. 8 : v[k] = 0)
  <2>1. CASE v[4] < 128 /\ \A k \in 5 .. 8 : v[k] = 0
    BY <2>1
  <2>2. CASE ~(v[4] < 128 /\ \A k \in 5 .. 8 : v[k] = 0)
    BY <2>2
  <2> QED BY <2>1, <2>2, Zenon
<1>5. CASE small
  <2>1. PICK s : s = SubSeq(v, 1, 4)
    OBVIOUS
  <2>2. s \in Seq(S) /\ Len(s) = 4 /\ \A k \in 1 .. 4 : s[k] = v[k]
    BY <2>1, FirstFour, Zenon
  <2>3. WriteInt64(v) = s
    BY <1>4, <1>5, <2>1, Zenon DEF WriteInt64
  <2>4. PICK w : w = s \o rest
    OBVIOUS
  <2>5. SubSeq(w, 1, 4) = s /\ Drop(w, 4) = rest
    <3>1. SubSeq(s \o rest, 1, Len(s)) = s /\ Drop(s \o rest, Len(s)) = rest
      BY <2>2, FrontIs, FrontOf
    <3> QED BY <2>2, <2>4, <3>1, Zenon
  <2>6. s # full
    <3>1. s[4] # 255
      BY <1>4, <1>5, <2>2
    <3> QED BY <1>3, <3>1
  <2>7. Extended(s) = v
    <3>1. v = [k \in 1 .. 8 |-> v[k]]
      BY DEF Bytes
    <3>2. ASSUME NEW k \in 1 .. 8
          PROVE (IF k <= 4 THEN s[k] ELSE IF s[4] < 128 THEN 0 ELSE 255) = v[k]
      <4>1. s[4] < 128
        BY <1>4, <1>5, <2>2
      <4>2. CASE k <= 4
        BY <2>2, <4>2
      <4>3. CASE ~(k <= 4)
        <5>1. k \in 5 .. 8
          BY <4>3
        <5> QED BY <1>4, <1>5, <4>1, <4>3, <5>1
      <4> QED BY <4>2, <4>3
    <3>3. Extended(s) = [k \in 1 .. 8 |-> v[k]]
      BY <3>2 DEF Extended
    <3> QED BY <3>1, <3>3, Zenon
  <2>8. ReadInt64(w) = Read(v, rest)
    BY <1>2, <2>5, <2>6, <2>7, Zenon DEF ReadInt64
  <2>9. Gives(Read(v, rest), v, rest)
    BY DEF Gives, Read
  <2> QED BY <2>2, <2>3, <2>4, <2>8, <2>9, Zenon
<1>6. CASE ~small
  <2>1. WriteInt64(v) = full \o v
    BY <1>2, <1>4, <1>6, Zenon DEF WriteInt64
  <2>2. PICK p : p = full \o v
    OBVIOUS
  <2>3. p \in Seq(S)
    BY <1>1, <1>3, <2>2
  <2>4. PICK w : w = p \o rest
    OBVIOUS
  <2>5. PICK t : t = v \o rest
    OBVIOUS
  <2>6. t \in Seq(S)
    BY <1>1, <2>5
  <2>7. w = full \o t
    <3>1. (full \o v) \o rest = full \o (v \o rest)
      <4>1. full \in Seq(S) /\ v \in Seq(S) /\ rest \in Seq(S)
        BY <1>1, <1>3
      <4>2. \A x \in Seq(S), y \in Seq(S), z \in Seq(S) : (x \o y) \o z = x \o (y \o z)
        BY ConcatAssociative
      <4> QED BY <4>1, <4>2
    <3> QED BY <2>2, <2>4, <2>5, <3>1, Zenon
  <2>8. SubSeq(w, 1, 4) = full /\ Drop(w, 4) = t
    <3>1. SubSeq(full \o t, 1, Len(full)) = full /\ Drop(full \o t, Len(full)) = t
      <4>1. full \in Seq(S)
        BY <1>3
      <4> QED BY <2>6, <4>1, FrontIs, FrontOf, Zenon
    <3> QED BY <1>3, <2>7, <3>1, Zenon
  <2>9. PICK r : r = ReadBytes(t, 8)
    OBVIOUS
  <2>10. r = ReadBytes(v \o rest, Len(v))
    BY <1>1, <2>5, <2>9, Zenon
  <2>11. Gives(r, v, rest)
    BY <1>1, <2>10, BytesRead, Zenon
  <2>12. ReadInt64(w) = r
    BY <1>2, <2>8, <2>9, Zenon DEF ReadInt64
  <2> QED BY <2>1, <2>2, <2>3, <2>4, <2>11, <2>12, Zenon
<1> QED BY <1>5, <1>6

(* What an int holds. *)
Lengths == {n \in Nat : n < IntMax}

(* A number that an int holds is that of its bytes. *)
LEMMA NumberIs ==
  ASSUME NEW n \in Lengths
  PROVE  BytesOf(n) \in Bytes(4) /\ NumberOf(BytesOf(n)) = n
<1>1. n \in Nat /\ n \div 16777216 < 256
  BY DEF Lengths, IntMax
<1>2. PICK a \in Nat, b \in Nat, c \in Nat, d \in Nat :
        a = n % 256 /\ b = (n \div 256) % 256 /\ c = (n \div 65536) % 256 /\ d = n \div 16777216
  BY <1>1
<1>3. a < 256 /\ b < 256 /\ c < 256 /\ d < 256
  BY <1>1, <1>2
<1>4. n = a + b * 256 + c * 65536 + d * 16777216
  <2>1. PICK p \in Nat, q \in Nat : p = n \div 256 /\ q = n \div 65536
    BY <1>1
  <2>2. n = p * 256 + a
    BY <1>1, <1>2, <2>1
  <2>3. p = q * 256 + b
    BY <1>1, <1>2, <2>1
  <2>4. q = d * 256 + c
    BY <1>1, <1>2, <2>1
  <2> QED BY <2>2, <2>3, <2>4
<1>5. PICK t : t = <<a, b, c, d>>
  OBVIOUS
<1>6. BytesOf(n) = t
  BY <1>2, <1>5 DEF BytesOf
<1>7. t \in Bytes(4)
  BY <1>3, <1>5 DEF Bytes, Byte
<1>8. NumberOf(t) = n
  BY <1>4, <1>5 DEF NumberOf
<1> QED BY <1>6, <1>7, <1>8, Zenon

(* A length is read as it was written. *)
LEMMA LengthRead ==
  ASSUME NEW S, Byte \subseteq S, NEW n \in Lengths, NEW rest \in Seq(S)
  PROVE  /\ WriteLength(n) \in Seq(S)
         /\ Gives(ReadLength(WriteLength(n) \o rest), BytesOf(n), rest)
<1>1. PICK s : s = BytesOf(n)
  OBVIOUS
<1>2. s \in Bytes(4)
  BY <1>1, NumberIs
<1>3. s \in Seq(S) /\ Len(s) = 4
  <2>1. 4 \in Nat
    OBVIOUS
  <2> QED BY <1>2, <2>1, BytesAre, Zenon
<1>4. CASE protocol < 30
  <2>1. PICK r : r = ReadBytes(s \o rest, Len(s))
    OBVIOUS
  <2>3. Gives(r, s, rest)
    BY <1>3, <2>1, BytesRead, Zenon
  <2>4. ReadLength(s \o rest) = r /\ WriteLength(n) = s
    BY <1>1, <1>3, <1>4, <2>1, Zenon DEF ReadLength, WriteLength
  <2> QED BY <1>1, <1>3, <2>3, <2>4, Zenon
<1>5. CASE ~(protocol < 30)
  <2>1. <<4, 1>> \in Forms
    BY DEF Forms
  <2>2. Pack(s, 1) \in Seq(S) /\ Gives(Unpack(Pack(s, 1) \o rest, 1, 4), s, rest)
    BY <1>2, <2>1, UnpackIs
  <2>3. WriteLength(n) = Pack(s, 1)
    BY <1>1, <1>5, Zenon DEF WriteLength, WriteVariableInt32
  <2>4. ReadLength(Pack(s, 1) \o rest) = Unpack(Pack(s, 1) \o rest, 1, 4)
    BY <1>5, Zenon DEF ReadLength, ReadVariableInt32
  <2> QED BY <1>1, <2>2, <2>3, <2>4, Zenon
<1> QED BY <1>4, <1>5

(* So is the size of a file. *)
LEMMA SizeRead ==
  ASSUME NEW S, Byte \subseteq S, NEW v \in Bytes(8), NEW rest \in Seq(S)
  PROVE  WriteSize(v) \in Seq(S) /\ Gives(ReadSize(WriteSize(v) \o rest), v, rest)
<1>1. CASE protocol < 30
  <2>1. WriteSize(v) = WriteInt64(v) /\ \A w : ReadSize(w) = ReadInt64(w)
    BY <1>1, Zenon DEF WriteSize, ReadSize
  <2> QED BY <2>1, Int64Read, Zenon
<1>2. CASE ~(protocol < 30)
  <2>1. <<8, 3>> \in Forms
    BY DEF Forms
  <2>2. Pack(v, 3) \in Seq(S) /\ Gives(Unpack(Pack(v, 3) \o rest, 3, 8), v, rest)
    BY <2>1, UnpackIs
  <2>3. WriteSize(v) = Pack(v, 3) /\ \A w : ReadSize(w) = Unpack(w, 3, 8)
    BY <1>2, Zenon DEF WriteSize, ReadSize, WriteVariableInt64, ReadVariableInt64
  <2> QED BY <2>2, <2>3, Zenon
<1> QED BY <1>1, <1>2

(* The times that both ends of protocol 29 understand. *)
Fits(v) == v[4] < 128 /\ \A k \in 5 .. 8 : v[k] = 0

(* So is a time, if it fits. *)
LEMMA TimeRead ==
  ASSUME NEW S, Byte \subseteq S, NEW v \in Bytes(8), NEW rest \in Seq(S),
         protocol < 30 => Fits(v)
  PROVE  WriteTime(v) \in Seq(S) /\ Gives(ReadTime(WriteTime(v) \o rest), v, rest)
<1>1. CASE protocol < 30
  <2>1. PICK s : s = SubSeq(v, 1, 4)
    OBVIOUS
  <2>2. s \in Seq(S) /\ Len(s) = 4 /\ \A k \in 1 .. 4 : s[k] = v[k]
    BY <2>1, FirstFour, Zenon
  <2>3. WriteTime(v) = s
    BY <1>1, <2>1, Zenon DEF WriteTime, WriteInt64, Fits
  <2>4. Extended(s) = v
    <3>1. v = [k \in 1 .. 8 |-> v[k]]
      BY DEF Bytes
    <3>2. ASSUME NEW k \in 1 .. 8
          PROVE (IF k <= 4 THEN s[k] ELSE IF s[4] < 128 THEN 0 ELSE 255) = v[k]
      <4>1. s[4] < 128
        BY <1>1, <2>2 DEF Fits
      <4>2. CASE k <= 4
        BY <2>2, <4>2
      <4>3. CASE ~(k <= 4)
        <5>1. k \in 5 .. 8
          BY <4>3
        <5>2. v[k] = 0
          BY <1>1, <5>1 DEF Fits
        <5> QED BY <4>1, <4>3, <5>2
      <4> QED BY <4>2, <4>3
    <3>3. Extended(s) = [k \in 1 .. 8 |-> v[k]]
      BY <3>2 DEF Extended
    <3> QED BY <3>1, <3>3, Zenon
  <2>5. SubSeq(s \o rest, 1, 4) = s /\ Drop(s \o rest, 4) = rest
    <3>1. SubSeq(s \o rest, 1, Len(s)) = s /\ Drop(s \o rest, Len(s)) = rest
      BY <2>2, FrontIs, FrontOf
    <3> QED BY <2>2, <3>1, Zenon
  <2>6. ReadTime(s \o rest) = Read(v, rest)
    BY <1>1, <2>4, <2>5, Zenon DEF ReadTime
  <2>7. Gives(Read(v, rest), v, rest)
    BY DEF Gives, Read
  <2> QED BY <2>2, <2>3, <2>6, <2>7, Zenon
<1>2. CASE ~(protocol < 30)
  <2>1. <<8, 4>> \in Forms
    BY DEF Forms
  <2>2. Pack(v, 4) \in Seq(S) /\ Gives(Unpack(Pack(v, 4) \o rest, 4, 8), v, rest)
    BY <2>1, UnpackIs
  <2>3. WriteTime(v) = Pack(v, 4) /\ \A w : ReadTime(w) = Unpack(w, 4, 8)
    BY <1>2, Zenon DEF WriteTime, ReadTime, WriteVariableInt64, ReadVariableInt64
  <2> QED BY <2>2, <2>3, Zenon
<1> QED BY <1>1, <1>2
-----------------------------------------------------------------------------
(* What stands on the wire: bytes, integers and flags. *)
FlagNames == {"SAME_UID", "SAME_GID", "SAME_TIME", "SAME_MODE", "SAME_NAME", "LONG_NAME"}
Unit == Int \cup SUBSET FlagNames

(* Bytes are units. *)
LEMMA ByteIsUnit == Byte \subseteq Unit
BY DEF Byte, Unit

(* A byte holds no more. *)
LEMMA MaxByteIs == MaxByte \in Nat /\ MaxByte < 256
<1>1. MaxByte \in 1 .. 255
  BY EntriesAssumption, Zenon
<1> QED BY <1>1

(* What a path has in common with the last one, and that it says the rest. *)
LEMMA PrefixIs ==
  ASSUME NEW path \in Seq(Byte), NEW last \in Seq(Byte)
  PROVE  \E k \in 0 .. Len(path) :
           /\ k = CommonPrefix(path, last)
           /\ k <= Len(last) /\ k <= MaxByte
           /\ \A j \in 1 .. k : path[j] = last[j]
<1> DEFINE Same(k) == /\ k <= Len(last) /\ k <= MaxByte
                      /\ \A j \in 1 .. k : path[j] = last[j]
           Ends(k) == k < Len(path) /\ k < Len(last) /\ k < MaxByte => path[k + 1] # last[k + 1]
           T == {k \in 0 .. Len(path) : Same(k)}
<1>1. PICK m \in Nat, n \in Nat : m = Len(path) /\ n = Len(last)
  OBVIOUS
<1>2. MaxByte \in Nat
  BY MaxByteIs
<1>3. T \subseteq 0 .. m /\ 0 \in T
  BY <1>1, <1>2
<1>4. PICK x \in T : \A y \in T : y <= x
  <2> HIDE DEF T
  <2> QED BY <1>1, <1>3, GreatestNumber
<1>5. x \in 0 .. m /\ Same(x)
  BY <1>1
<1>6. Ends(x)
  <2> SUFFICES ASSUME x < m, x < n, x < MaxByte, path[x + 1] = last[x + 1] PROVE FALSE
    BY <1>1
  <2>1. x + 1 \in 0 .. m /\ x + 1 <= n /\ x + 1 <= MaxByte /\ ~(x + 1 <= x)
    BY <1>2, <1>5
  <2>2. \A j \in 1 .. x + 1 : path[j] = last[j]
    <3> TAKE j \in 1 .. x + 1
    <3>1. j \in 1 .. x \/ j = x + 1
      BY <1>5
    <3> QED BY <1>5, <3>1
  <2>3. x + 1 \in T
    BY <1>1, <2>1, <2>2
  <2> HIDE DEF T
  <2> QED BY <1>4, <2>1, <2>3
<1>7. CommonPrefix(path, last) = CHOOSE k \in 0 .. Len(path) : Same(k) /\ Ends(k)
  BY DEF CommonPrefix
<1>8. PICK k : k = CommonPrefix(path, last)
  OBVIOUS
<1>9. k \in 0 .. Len(path) /\ Same(k)
  <2>1. x \in 0 .. Len(path)
    BY <1>1, <1>5
  <2> HIDE DEF T, Same, Ends
  <2> QED BY <1>5, <1>6, <1>7, <1>8, <2>1, Zenon
<1> QED BY <1>8, <1>9

(* A path is what it has in common with the last one, and the rest. *)
LEMMA PathAgain ==
  ASSUME NEW path \in Seq(Byte), NEW last \in Seq(Byte), NEW k \in 0 .. Len(path),
         k <= Len(last), \A j \in 1 .. k : path[j] = last[j]
  PROVE  /\ Drop(path, k) \in Seq(Byte) /\ Len(Drop(path, k)) = Len(path) - k
         /\ SubSeq(last, 1, k) \o Drop(path, k) = path
<1>1. PICK m \in Nat, n \in Nat : m = Len(path) /\ n = Len(last)
  OBVIOUS
<1>2. k \in 0 .. m /\ k <= n
  BY <1>1
<1>3. PICK d : d = Drop(path, k)
  OBVIOUS
<1>4. d = SubSeq(path, k + 1, m)
  BY <1>1, <1>3 DEF Drop
<1>5. d \in Seq(Byte) /\ Len(d) = m - k /\ \A j \in 1 .. m - k : d[j] = path[k + j]
  <2>1. \A j \in k + 1 .. m : path[j] \in Byte
    BY <1>1, <1>2, ElementOfSeq
  <2>2. /\ Len(d) = m - k /\ d \in Seq(Byte)
        /\ \A j \in 1 .. m - k : d[j] = path[k + 1 + j - 1]
    BY <1>1, <1>2, <1>4, <2>1
  <2>3. \A j \in 1 .. m - k : k + 1 + j - 1 = k + j
    BY <1>2
  <2> QED BY <2>2, <2>3
<1>6. PICK f : f = SubSeq(last, 1, k)
  OBVIOUS
<1>7. f \in Seq(Byte) /\ Len(f) = k /\ \A j \in 1 .. k : f[j] = last[j]
  <2>1. \A j \in 1 .. k : last[j] \in Byte
    BY <1>1, <1>2, ElementOfSeq
  <2> QED BY <1>1, <1>2, <1>6, <2>1
<1>8. PICK w : w = f \o d
  OBVIOUS
<1>9. /\ w \in Seq(Byte) /\ Len(w) = k + (m - k)
      /\ \A j \in 1 .. k + (m - k) : w[j] = IF j <= k THEN f[j] ELSE d[j - k]
  <2>1. /\ w \in Seq(Byte) /\ Len(w) = Len(f) + Len(d)
        /\ \A j \in 1 .. Len(f) + Len(d) : w[j] = IF j <= Len(f) THEN f[j] ELSE d[j - Len(f)]
    BY <1>5, <1>7, <1>8, ConcatProperties
  <2>2. Len(f) = k /\ Len(d) = m - k
    BY <1>5, <1>7
  <2> QED BY <2>1, <2>2, Zenon
<1>10. k + (m - k) = m
  BY <1>2
<1>11. \A j \in 1 .. m : w[j] = path[j]
  <2> TAKE j \in 1 .. m
  <2>1. CASE j <= k
    <3>1. j \in 1 .. k
      BY <1>2, <2>1
    <3>2. w[j] = f[j]
      BY <1>9, <1>10, <2>1
    <3> QED BY <1>7, <3>1, <3>2
  <2>2. CASE ~(j <= k)
    <3>1. j - k \in 1 .. m - k /\ k + (j - k) = j
      BY <1>2, <2>2
    <3>2. w[j] = d[j - k]
      BY <1>9, <1>10, <2>2
    <3> QED BY <1>5, <3>1, <3>2
  <2> QED BY <2>1, <2>2
<1>12. w = path
  BY <1>1, <1>9, <1>10, <1>11, SeqEqual
<1>13. Len(d) = Len(path) - k
  BY <1>1, <1>5
<1> QED BY <1>3, <1>5, <1>6, <1>8, <1>12, <1>13, Zenon

(* The first of a sequence. *)
LEMMA FirstIs ==
  ASSUME NEW S, NEW x \in S, NEW t \in Seq(S)
  PROVE  /\ (<<x>> \o t)[1] = x /\ Head(<<x>> \o t) = x /\ Tail(<<x>> \o t) = t
         /\ Drop(<<x>> \o t, 1) = t
<1>1. PICK s : s = <<x>>
  OBVIOUS
<1>2. s \in Seq(S) /\ Len(s) = 1 /\ s[1] = x
  BY <1>1
<1>3. PICK w : w = s \o t
  OBVIOUS
<1>4. w \in Seq(S) /\ Len(w) = 1 + Len(t) /\ w[1] = x
  <2>1. /\ w \in Seq(S) /\ Len(w) = Len(s) + Len(t)
        /\ \A ix \in 1 .. Len(s) + Len(t) : w[ix] = IF ix <= Len(s) THEN s[ix] ELSE t[ix - Len(s)]
    BY <1>2, <1>3, ConcatProperties
  <2>2. 1 \in 1 .. Len(s) + Len(t) /\ 1 <= Len(s)
    BY <1>2
  <2> QED BY <1>2, <2>1, <2>2
<1>5. w # <<>> /\ Head(w) = x
  BY <1>4
<1>6. Drop(w, 1) = t
  <2>1. Drop(s \o t, Len(s)) = t
    BY <1>2, FrontOf
  <2> QED BY <1>2, <1>3, <2>1, Zenon
<1>7. Tail(w) = t
  <2>1. Tail(w) = SubSeq(w, 2, Len(w))
    BY <1>4, <1>5
  <2>2. Drop(w, 1) = SubSeq(w, 2, Len(w))
    BY DEF Drop
  <2> QED BY <1>6, <2>1, <2>2, Zenon
<1> QED BY <1>1, <1>3, <1>4, <1>5, <1>6, <1>7, Zenon

(* A byte is read as it was written. *)
LEMMA OneRead ==
  ASSUME NEW S, NEW x \in S, NEW rest \in Seq(S)
  PROVE  Gives(ReadBytes(<<x>> \o rest, 1), <<x>>, rest)
<1>1. PICK s : s = <<x>>
  OBVIOUS
<1>2. s \in Seq(S) /\ Len(s) = 1
  BY <1>1
<1>3. Gives(ReadBytes(s \o rest, Len(s)), s, rest)
  BY <1>2, BytesRead, Zenon
<1> QED BY <1>1, <1>2, <1>3, Zenon
-----------------------------------------------------------------------------
(* What is known of an entry that is sent. *)
LEMMA EntryIs ==
  ASSUME NEW e \in EntriesToSend
  PROVE  /\ e.kind = "entry" /\ e.path \in EntryPaths /\ e.path \in Seq(Byte) /\ Len(e.path) \in Lengths
         /\ e.size \in Bytes(8) /\ e.time \in Times /\ e.time \in Bytes(8) /\ e.mode \in Int
         /\ e.link \in Seq(Byte) /\ Len(e.link) \in Lengths
         /\ e.mode \notin Links => e.link = <<>>
         /\ e = [kind |-> "entry", path |-> e.path, size |-> e.size, time |-> e.time,
                 mode |-> e.mode, link |-> e.link]
<1>1. /\ \A s \in EntryPaths \cup Targets : s \in Seq(Byte) /\ Len(s) < IntMax
      /\ Sizes \subseteq Bytes(8) /\ Times \subseteq Bytes(8) /\ Modes \subseteq Int /\ Links \subseteq Modes
  BY EntriesAssumption, Zenon
<1>2. /\ e.kind = "entry" /\ e.path \in EntryPaths /\ e.size \in Sizes /\ e.time \in Times
      /\ e.mode \in Modes
      /\ \/ e.mode \notin Links /\ e.link = <<>>
         \/ e.mode \in Links /\ e.link \in Targets
  BY <1>1 DEF EntriesToSend
<1>3. e = [kind |-> "entry", path |-> e.path, size |-> e.size, time |-> e.time,
           mode |-> e.mode, link |-> e.link]
  BY DEF EntriesToSend
<1>4. \A s \in Seq(Byte) : Len(s) < IntMax => Len(s) \in Lengths
  BY DEF Lengths
<1>5. e.path \in Seq(Byte) /\ Len(e.path) \in Lengths
  BY <1>1, <1>2, <1>4
<1>6. e.link \in Seq(Byte) /\ Len(e.link) \in Lengths
  <2>1. CASE e.link = <<>>
    <3>1. \A s : s = <<>> => s \in Seq(Byte) /\ Len(s) < IntMax
      BY DEF IntMax
    <3> QED BY <1>4, <2>1, <3>1, Zenon
  <2>2. CASE e.link \in Targets
    BY <1>1, <1>4, <2>2
  <2> QED BY <1>2, <2>1, <2>2
<1> QED BY <1>1, <1>2, <1>3, <1>5, <1>6

(* The pieces of an entry on the wire. *)
FlagsPiece(e, last) == <<Flags(e, last)>>
PrefixPiece(e, last) ==
  IF "SAME_NAME" \in Flags(e, last) THEN <<AsByte(CommonPrefix(e.path, last.path))>> ELSE <<>>
CountPiece(e, last) ==
  IF "LONG_NAME" \in Flags(e, last)
    THEN WriteLength(Len(e.path) - CommonPrefix(e.path, last.path))
    ELSE <<AsByte(Len(e.path) - CommonPrefix(e.path, last.path))>>
NamePiece(e, last) == Drop(e.path, CommonPrefix(e.path, last.path))
SizePiece(e) == WriteSize(e.size)
TimePiece(e, last) == IF "SAME_TIME" \in Flags(e, last) THEN <<>> ELSE WriteTime(e.time)
ModePiece(e, last) == IF "SAME_MODE" \in Flags(e, last) THEN <<>> ELSE <<e.mode>>
LinkPiece(e) == IF e.mode \in Links THEN WriteLength(Len(e.link)) \o e.link ELSE <<>>

(* They are what sendEntry writes. *)
LEMMA EntryIsPieces ==
  ASSUME NEW e, NEW last
  PROVE  EntryOnWire(e, last) =
           FlagsPiece(e, last) \o PrefixPiece(e, last) \o CountPiece(e, last) \o NamePiece(e, last)
             \o SizePiece(e) \o TimePiece(e, last) \o ModePiece(e, last) \o LinkPiece(e)
BY Zenon DEF EntryOnWire, FlagsPiece, PrefixPiece, CountPiece, NamePiece, SizePiece, TimePiece,
             ModePiece, LinkPiece

(* What the flags say. *)
LEMMA FlagsAre ==
  ASSUME NEW e, NEW last, NEW f, f = Flags(e, last), NEW k, k = CommonPrefix(e.path, last.path)
  PROVE  /\ f \in Unit /\ f # {}
         /\ "SAME_TIME" \in f <=> e.time = last.time
         /\ "SAME_MODE" \in f <=> e.mode = last.mode
         /\ "SAME_NAME" \in f <=> k > 0
         /\ "LONG_NAME" \in f <=> Len(e.path) - k > MaxByte
<1> DEFINE n == Len(e.path) - k
<1>1. f = {"SAME_UID", "SAME_GID"}
            \cup (IF e.time = last.time THEN {"SAME_TIME"} ELSE {})
            \cup (IF e.mode = last.mode THEN {"SAME_MODE"} ELSE {})
            \cup (IF k > 0 THEN {"SAME_NAME"} ELSE {})
            \cup (IF n > MaxByte THEN {"LONG_NAME"} ELSE {})
  BY Zenon DEF Flags
<1> HIDE DEF n
<1>2. f \subseteq FlagNames /\ "SAME_UID" \in f
  BY <1>1 DEF FlagNames
<1>3. /\ "SAME_TIME" \in f <=> e.time = last.time
      /\ "SAME_MODE" \in f <=> e.mode = last.mode
      /\ "SAME_NAME" \in f <=> k > 0
      /\ "LONG_NAME" \in f <=> n > MaxByte
  BY <1>1
<1>4. f \in Unit /\ f # {}
  BY <1>2 DEF Unit
<1> QED BY <1>3, <1>4, Zenon DEF n
(* A sequence of one. *)
LEMMA OneIs ==
  ASSUME NEW S, NEW x \in S
  PROVE  <<x>> \in Seq(S)
OBVIOUS

(* How much a path has in common with the last one, and how much it has not. *)
LEMMA CountsAre ==
  ASSUME NEW e \in EntriesToSend, NEW last, last.path \in Seq(Byte)
  PROVE  \E k \in Nat, n \in Lengths :
           /\ k = CommonPrefix(e.path, last.path) /\ n = Len(e.path) - k
           /\ k <= MaxByte /\ k \in 0 .. Len(e.path) /\ k <= Len(last.path)
           /\ \A j \in 1 .. k : e.path[j] = last.path[j]
<1>1. e.path \in Seq(Byte) /\ Len(e.path) \in Lengths
  BY EntryIs
<1>2. PICK k \in 0 .. Len(e.path) :
        /\ k = CommonPrefix(e.path, last.path)
        /\ k <= Len(last.path) /\ k <= MaxByte
        /\ \A j \in 1 .. k : e.path[j] = last.path[j]
  BY <1>1, PrefixIs
<1>3. \A m \in Lengths : \A j \in 0 .. m : j \in Nat /\ m - j \in Lengths
  BY DEF Lengths, IntMax
<1>4. k \in Nat /\ Len(e.path) - k \in Lengths
  BY <1>1, <1>3
<1> QED BY <1>2, <1>4

(* A byte holds what it can hold. *)
LEMMA AsByteIs ==
  ASSUME NEW n \in Nat, n <= MaxByte
  PROVE  AsByte(n) = n /\ n \in Unit
<1>1. MaxByte \in Nat
  BY MaxByteIs
<1>2. n % (MaxByte + 1) = n
  BY <1>1
<1>3. n \in Unit
  BY DEF Unit
<1> QED BY <1>2, <1>3 DEF AsByte

(* All the pieces are units. *)
LEMMA PiecesAre ==
  ASSUME NEW e \in EntriesToSend, NEW last, last.path \in Seq(Byte), protocol < 30 => Fits(e.time)
  PROVE  /\ FlagsPiece(e, last) \in Seq(Unit) /\ PrefixPiece(e, last) \in Seq(Unit)
         /\ CountPiece(e, last) \in Seq(Unit) /\ NamePiece(e, last) \in Seq(Unit)
         /\ SizePiece(e) \in Seq(Unit) /\ TimePiece(e, last) \in Seq(Unit)
         /\ ModePiece(e, last) \in Seq(Unit) /\ LinkPiece(e) \in Seq(Unit)
<1> PICK k \in Nat, n \in Lengths :
           /\ k = CommonPrefix(e.path, last.path) /\ n = Len(e.path) - k
           /\ k <= MaxByte /\ k \in 0 .. Len(e.path) /\ k <= Len(last.path)
           /\ \A j \in 1 .. k : e.path[j] = last.path[j]
  BY CountsAre
<1> PICK f : f = Flags(e, last)
  OBVIOUS
<1>1. f \in Unit /\ ("LONG_NAME" \in f <=> n > MaxByte)
  BY FlagsAre
<1>2. \A x \in Unit : <<x>> \in Seq(Unit)
  BY OneIs
<1>3. <<>> \in Seq(Unit)
  OBVIOUS
<1>4. \A m \in Lengths : WriteLength(m) \in Seq(Unit)
  BY <1>3, ByteIsUnit, LengthRead
<1>5. \A m \in Nat : m <= MaxByte => AsByte(m) \in Unit
  BY AsByteIs
<1>6. /\ e.path \in Seq(Byte) /\ e.size \in Bytes(8) /\ e.time \in Bytes(8) /\ e.mode \in Int
      /\ e.link \in Seq(Byte) /\ Len(e.link) \in Lengths
  BY EntryIs
<1>7. FlagsPiece(e, last) \in Seq(Unit)
  BY <1>1, <1>2, Zenon DEF FlagsPiece
<1>8. PrefixPiece(e, last) \in Seq(Unit)
  BY <1>2, <1>3, <1>5, Zenon DEF PrefixPiece
<1>9. CountPiece(e, last) \in Seq(Unit)
  <2>1. CASE "LONG_NAME" \in f
    BY <1>4, <2>1, Zenon DEF CountPiece
  <2>2. CASE "LONG_NAME" \notin f
    <3>1. n \in Nat /\ n <= MaxByte
      BY <1>1, <2>2, MaxByteIs DEF Lengths
    <3>2. <<AsByte(n)>> \in Seq(Unit)
      BY <1>2, <1>5, <3>1
    <3> QED BY <2>2, <3>2, Zenon DEF CountPiece
  <2> QED BY <2>1, <2>2
<1>10. \A s \in Seq(Byte) : s \in Seq(Unit)
  BY ByteIsUnit
<1>11. NamePiece(e, last) \in Seq(Unit)
  <2>1. Drop(e.path, k) \in Seq(Byte)
    BY <1>6, PathAgain
  <2>2. NamePiece(e, last) = Drop(e.path, k)
    BY Zenon DEF NamePiece
  <2> QED BY <1>10, <2>1, <2>2, Zenon
<1>12. SizePiece(e) \in Seq(Unit)
  BY <1>3, <1>6, ByteIsUnit, SizeRead, Zenon DEF SizePiece
<1>13. TimePiece(e, last) \in Seq(Unit)
  <2>1. WriteTime(e.time) \in Seq(Unit)
    BY <1>3, <1>6, ByteIsUnit, TimeRead, Zenon
  <2> QED BY <1>3, <2>1, Zenon DEF TimePiece
<1>14. ModePiece(e, last) \in Seq(Unit)
  <2>1. e.mode \in Unit
    BY <1>6 DEF Unit
  <2> QED BY <1>2, <1>3, <2>1, Zenon DEF ModePiece
<1>15. LinkPiece(e) \in Seq(Unit)
  <2>1. e.link \in Seq(Unit)
    BY <1>6, <1>10
  <2>2. WriteLength(Len(e.link)) \in Seq(Unit)
    BY <1>4, <1>6
  <2>3. WriteLength(Len(e.link)) \o e.link \in Seq(Unit)
    BY <2>1, <2>2, ConcatProperties
  <2> QED BY <1>3, <2>3, Zenon DEF LinkPiece
<1> QED BY <1>7, <1>8, <1>9, <1>11, <1>12, <1>13, <1>14, <1>15

(* Three sequences one after the other. *)
LEMMA Regroup ==
  ASSUME NEW S, NEW x \in Seq(S), NEW y \in Seq(S), NEW z \in Seq(S)
  PROVE  x \o y \in Seq(S) /\ (x \o y) \o z = x \o (y \o z)
<1>1. x \o y \in Seq(S)
  BY ConcatProperties
<1>2. (x \o y) \o z = x \o (y \o z)
  BY ConcatAssociative
<1> QED BY <1>1, <1>2

(* The same for units. *)
LEMMA RegroupUnits ==
  \A x \in Seq(Unit), y \in Seq(Unit), z \in Seq(Unit) :
    x \o y \in Seq(Unit) /\ (x \o y) \o z = x \o (y \o z)
<1>1. ASSUME NEW x \in Seq(Unit), NEW y \in Seq(Unit), NEW z \in Seq(Unit)
      PROVE  x \o y \in Seq(Unit) /\ (x \o y) \o z = x \o (y \o z)
  BY Regroup
<1> QED BY <1>1

(* Nine sequences. *)
Nine(T, a, b, c, d, p, q, r, s, t) ==
  /\ a \in T /\ b \in T /\ c \in T /\ d \in T
  /\ p \in T /\ q \in T /\ r \in T /\ s \in T /\ t \in T

(* Eight of them one after the other, and then the ninth. *)
OneByOne(T, a, b, c, d, p, q, r, s, t) ==
  /\ a \o b \o c \o d \o p \o q \o r \o s \in T
  /\ (a \o b \o c \o d \o p \o q \o r \o s) \o t =
       a \o (b \o (c \o (d \o (p \o (q \o (r \o (s \o t)))))))
  /\ s \o t \in T /\ r \o (s \o t) \in T /\ q \o (r \o (s \o t)) \in T
  /\ p \o (q \o (r \o (s \o t))) \in T
  /\ d \o (p \o (q \o (r \o (s \o t)))) \in T
  /\ c \o (d \o (p \o (q \o (r \o (s \o t))))) \in T
  /\ b \o (c \o (d \o (p \o (q \o (r \o (s \o t)))))) \in T

(* They can be taken off again one by one. *)
LEMMA TakenOneByOne ==
  ASSUME NEW S, NEW a, NEW b, NEW c, NEW d, NEW p, NEW q, NEW r, NEW s, NEW t,
         Nine(Seq(S), a, b, c, d, p, q, r, s, t)
  PROVE  OneByOne(Seq(S), a, b, c, d, p, q, r, s, t)
<1> DEFINE w1 == s \o t
           w2 == r \o w1
           w3 == q \o w2
           w4 == p \o w3
           w5 == d \o w4
           w6 == c \o w5
           w7 == b \o w6
           v2 == a \o b
           v3 == v2 \o c
           v4 == v3 \o d
           v5 == v4 \o p
           v6 == v5 \o q
           v7 == v6 \o r
           v8 == v7 \o s
<1> HIDE DEF w1, w2, w3, w4, w5, w6, w7, v2, v3, v4, v5, v6, v7, v8
<1>0. /\ a \in Seq(S) /\ b \in Seq(S) /\ c \in Seq(S) /\ d \in Seq(S)
      /\ p \in Seq(S) /\ q \in Seq(S) /\ r \in Seq(S) /\ s \in Seq(S) /\ t \in Seq(S)
  BY Zenon DEF Nine
<1>1. w1 \in Seq(S)
  BY <1>0, Regroup, Zenon DEF w1
<1>2. w2 \in Seq(S)
  BY <1>0, <1>1, Regroup, Zenon DEF w2
<1>3. w3 \in Seq(S)
  BY <1>0, <1>2, Regroup, Zenon DEF w3
<1>4. w4 \in Seq(S)
  BY <1>0, <1>3, Regroup, Zenon DEF w4
<1>5. w5 \in Seq(S)
  BY <1>0, <1>4, Regroup, Zenon DEF w5
<1>6. w6 \in Seq(S)
  BY <1>0, <1>5, Regroup, Zenon DEF w6
<1>7. w7 \in Seq(S)
  BY <1>0, <1>6, Regroup, Zenon DEF w7
<1>8. v2 \in Seq(S)
  BY <1>0, Regroup, Zenon DEF v2
<1>9. v3 \in Seq(S)
  BY <1>0, <1>8, Regroup, Zenon DEF v3
<1>10. v4 \in Seq(S)
  BY <1>0, <1>9, Regroup, Zenon DEF v4
<1>11. v5 \in Seq(S)
  BY <1>0, <1>10, Regroup, Zenon DEF v5
<1>12. v6 \in Seq(S)
  BY <1>0, <1>11, Regroup, Zenon DEF v6
<1>13. v7 \in Seq(S)
  BY <1>0, <1>12, Regroup, Zenon DEF v7
<1>14. v8 \in Seq(S)
  BY <1>0, <1>13, Regroup, Zenon DEF v8
<1>15. v8 \o t = v7 \o w1
  <2>1. v7 \in Seq(S) /\ s \in Seq(S) /\ t \in Seq(S)
    BY <1>0, <1>13, Zenon
  <2>2. (v7 \o s) \o t = v7 \o (s \o t)
    BY <2>1, Regroup
  <2> QED BY <2>2, Zenon DEF v8, w1
<1>16. v7 \o w1 = v6 \o w2
  <2>1. v6 \in Seq(S) /\ r \in Seq(S) /\ w1 \in Seq(S)
    BY <1>0, <1>1, <1>12, Zenon
  <2>2. (v6 \o r) \o w1 = v6 \o (r \o w1)
    BY <2>1, Regroup
  <2> QED BY <2>2, Zenon DEF v7, w2
<1>17. v6 \o w2 = v5 \o w3
  <2>1. v5 \in Seq(S) /\ q \in Seq(S) /\ w2 \in Seq(S)
    BY <1>0, <1>2, <1>11, Zenon
  <2>2. (v5 \o q) \o w2 = v5 \o (q \o w2)
    BY <2>1, Regroup
  <2> QED BY <2>2, Zenon DEF v6, w3
<1>18. v5 \o w3 = v4 \o w4
  <2>1. v4 \in Seq(S) /\ p \in Seq(S) /\ w3 \in Seq(S)
    BY <1>0, <1>3, <1>10, Zenon
  <2>2. (v4 \o p) \o w3 = v4 \o (p \o w3)
    BY <2>1, Regroup
  <2> QED BY <2>2, Zenon DEF v5, w4
<1>19. v4 \o w4 = v3 \o w5
  <2>1. v3 \in Seq(S) /\ d \in Seq(S) /\ w4 \in Seq(S)
    BY <1>0, <1>4, <1>9, Zenon
  <2>2. (v3 \o d) \o w4 = v3 \o (d \o w4)
    BY <2>1, Regroup
  <2> QED BY <2>2, Zenon DEF v4, w5
<1>20. v3 \o w5 = v2 \o w6
  <2>1. v2 \in Seq(S) /\ c \in Seq(S) /\ w5 \in Seq(S)
    BY <1>0, <1>5, <1>8, Zenon
  <2>2. (v2 \o c) \o w5 = v2 \o (c \o w5)
    BY <2>1, Regroup
  <2> QED BY <2>2, Zenon DEF v3, w6
<1>21. v2 \o w6 = a \o w7
  <2>1. a \in Seq(S) /\ b \in Seq(S) /\ w6 \in Seq(S)
    BY <1>0, <1>6, Zenon
  <2>2. (a \o b) \o w6 = a \o (b \o w6)
    BY <2>1, Regroup
  <2> QED BY <2>2, Zenon DEF v2, w7
<1>22. v8 \o t = a \o w7
  BY <1>15, <1>16, <1>17, <1>18, <1>19, <1>20, <1>21, Zenon
<1> QED BY <1>1, <1>2, <1>3, <1>4, <1>5, <1>6, <1>7, <1>14, <1>22, Zenon
       DEF OneByOne, w1, w2, w3, w4, w5, w6, w7, v2, v3, v4, v5, v6, v7, v8
(* An entry is of units. *)
LEMMA EntryIsOfUnits ==
  ASSUME NEW e \in EntriesToSend, NEW last, last.path \in Seq(Byte), protocol < 30 => Fits(e.time)
  PROVE  EntryOnWire(e, last) \in Seq(Unit)
<1>1. <<>> \in Seq(Unit)
  OBVIOUS
<1>2. Nine(Seq(Unit), FlagsPiece(e, last), PrefixPiece(e, last), CountPiece(e, last),
           NamePiece(e, last), SizePiece(e), TimePiece(e, last), ModePiece(e, last), LinkPiece(e), <<>>)
  BY <1>1, PiecesAre, Zenon DEF Nine
<1>3. FlagsPiece(e, last) \o PrefixPiece(e, last) \o CountPiece(e, last) \o NamePiece(e, last)
             \o SizePiece(e) \o TimePiece(e, last) \o ModePiece(e, last) \o LinkPiece(e) \in Seq(Unit)
  <2>1. OneByOne(Seq(Unit), FlagsPiece(e, last), PrefixPiece(e, last), CountPiece(e, last),
           NamePiece(e, last), SizePiece(e), TimePiece(e, last), ModePiece(e, last), LinkPiece(e), <<>>)
    BY <1>2, TakenOneByOne, Zenon
  <2> QED BY <2>1, Zenon DEF OneByOne
<1> QED BY <1>3, EntryIsPieces, Zenon

(* An empty sequence before another. *)
LEMMA NothingBefore ==
  ASSUME NEW S, NEW t \in Seq(S), NEW s, s = <<>>
  PROVE  s \o t = t
OBVIOUS

(* What is read is at the front of what is on the wire. *)
LEMMA GivesSame ==
  ASSUME NEW value, NEW rest, NEW r, r = Read(value, rest)
  PROVE  Gives(r, value, rest)
BY DEF Read, Gives

(* An entry that is read is the one that was written, if what the reader
   remembers is what the writer did. *)
LEMMA EntryRead ==
  ASSUME NEW e \in EntriesToSend, NEW rest \in Seq(Unit), reader.path \in Seq(Byte),
         protocol < 30 => Fits(e.time), wire = EntryOnWire(e, reader) \o rest
  PROVE  Gives(EntryFromWire, e, rest) /\ Head(wire) # {}
<1> DEFINE flags == wire[1]
           l1    == IF "SAME_NAME" \in flags THEN ReadBytes(Drop(wire, 1), 1) ELSE Read(NothingSame, Drop(wire, 1))
           l2    == IF "LONG_NAME" \in flags THEN ReadLength(l1.rest) ELSE ReadBytes(l1.rest, 1)
           count == IF "LONG_NAME" \in flags THEN NumberOf(l2.value) ELSE l2.value[1]
           name  == ReadBytes(l2.rest, count)
           size  == ReadSize(name.rest)
           time  == IF "SAME_TIME" \in flags THEN Read(reader.time, size.rest) ELSE ReadTime(size.rest)
           mode  == IF "SAME_MODE" \in flags THEN Read(<<reader.mode>>, time.rest) ELSE ReadBytes(time.rest, 1)
           isLink == mode.value[1] \in Links
           length == IF isLink THEN ReadLength(mode.rest) ELSE Read(BytesOf(0), mode.rest)
           link  == ReadBytes(length.rest, NumberOf(length.value))
           entry == [kind |-> "entry", path |-> SubSeq(reader.path, 1, l1.value[1]) \o name.value,
                     size |-> size.value, time |-> time.value, mode |-> mode.value[1],
                     link |-> link.value]
<1>1. EntryFromWire = IF l2.ok /\ size.ok /\ time.ok /\ length.ok
                        THEN Read(entry, link.rest) ELSE Read(Failed, wire)
  BY DEF EntryFromWire
<1> DEFINE w8 == LinkPiece(e) \o rest
           w7 == ModePiece(e, reader) \o w8
           w6 == TimePiece(e, reader) \o w7
           w5 == SizePiece(e) \o w6
           w4 == NamePiece(e, reader) \o w5
           w3 == CountPiece(e, reader) \o w4
           w2 == PrefixPiece(e, reader) \o w3
<1>2. /\ wire = FlagsPiece(e, reader) \o w2
      /\ w2 \in Seq(Unit) /\ w3 \in Seq(Unit) /\ w4 \in Seq(Unit) /\ w5 \in Seq(Unit)
      /\ w6 \in Seq(Unit) /\ w7 \in Seq(Unit) /\ w8 \in Seq(Unit)
  <2>1. Nine(Seq(Unit), FlagsPiece(e, reader), PrefixPiece(e, reader), CountPiece(e, reader),
             NamePiece(e, reader), SizePiece(e), TimePiece(e, reader), ModePiece(e, reader),
             LinkPiece(e), rest)
    BY PiecesAre, Zenon DEF Nine
  <2>2. EntryOnWire(e, reader) =
           FlagsPiece(e, reader) \o PrefixPiece(e, reader) \o CountPiece(e, reader)
             \o NamePiece(e, reader) \o SizePiece(e) \o TimePiece(e, reader) \o ModePiece(e, reader)
             \o LinkPiece(e)
    BY EntryIsPieces, Zenon
  <2>3. OneByOne(Seq(Unit), FlagsPiece(e, reader), PrefixPiece(e, reader), CountPiece(e, reader),
             NamePiece(e, reader), SizePiece(e), TimePiece(e, reader), ModePiece(e, reader),
             LinkPiece(e), rest)
    BY <2>1, TakenOneByOne, Zenon
  <2> QED BY <2>2, <2>3, Zenon DEF OneByOne
<1> HIDE DEF flags, l1, l2, count, name, size, time, mode, isLink, length, link, entry,
             w2, w3, w4, w5, w6, w7, w8
<1> PICK k \in Nat, n \in Lengths :
           /\ k = CommonPrefix(e.path, reader.path) /\ n = Len(e.path) - k
           /\ k <= MaxByte /\ k \in 0 .. Len(e.path) /\ k <= Len(reader.path)
           /\ \A j \in 1 .. k : e.path[j] = reader.path[j]
  BY CountsAre
<1>3. /\ flags = Flags(e, reader)
      /\ flags # {} /\ Head(wire) = flags /\ Drop(wire, 1) = w2
  <2>1. PICK f : f = Flags(e, reader)
    OBVIOUS
  <2>2. f \in Unit /\ f # {}
    BY <2>1, FlagsAre
  <2>3. (<<f>> \o w2)[1] = f /\ Head(<<f>> \o w2) = f /\ Drop(<<f>> \o w2, 1) = w2
    BY <1>2, <2>2, FirstIs, Zenon
  <2> QED BY <1>2, <2>1, <2>2, <2>3, Zenon DEF flags, FlagsPiece
<1>4. /\ "SAME_TIME" \in flags <=> e.time = reader.time
      /\ "SAME_MODE" \in flags <=> e.mode = reader.mode
      /\ "SAME_NAME" \in flags <=> k > 0
      /\ "LONG_NAME" \in flags <=> n > MaxByte
  BY <1>3, FlagsAre
<1>5. l1.value[1] = k /\ l1.rest = w3
  <2>1. CASE "SAME_NAME" \in flags
    <3>1. AsByte(k) = k /\ k \in Unit
      BY AsByteIs
    <3>2. w2 = <<k>> \o w3
      BY <1>3, <2>1, <3>1, Zenon DEF w2, PrefixPiece
    <3>3. Gives(ReadBytes(<<k>> \o w3, 1), <<k>>, w3)
      BY <1>2, <3>1, OneRead, Zenon
    <3>4. Gives(l1, <<k>>, w3)
      BY <1>3, <2>1, <3>2, <3>3, Zenon DEF l1
    <3>5. l1.value = <<k>> /\ l1.rest = w3
      BY <3>4, Zenon DEF Gives
    <3> QED BY <3>5
  <2>2. CASE "SAME_NAME" \notin flags
    <3>1. k = 0
      BY <1>4, <2>2
    <3>2. PrefixPiece(e, reader) = <<>>
      BY <1>3, <2>2, Zenon DEF PrefixPiece
    <3>3. w2 = w3
      BY <1>2, <3>2, NothingBefore, Zenon DEF w2
    <3>4. Gives(l1, NothingSame, w3)
      BY <1>3, <2>2, <3>3, GivesSame, Zenon DEF l1
    <3>5. l1.value = NothingSame /\ l1.rest = w3
      BY <3>4, Zenon DEF Gives
    <3>6. NothingSame[1] = 0
      BY DEF NothingSame
    <3> QED BY <3>1, <3>5, <3>6, Zenon
  <2> QED BY <2>1, <2>2
<1>6. l2.ok /\ count = n /\ l2.rest = w4
  <2>1. CASE "LONG_NAME" \in flags
    <3>1. w3 = WriteLength(n) \o w4
      BY <1>3, <2>1, Zenon DEF w3, CountPiece
    <3>2. Gives(ReadLength(WriteLength(n) \o w4), BytesOf(n), w4)
      BY <1>2, ByteIsUnit, LengthRead, Zenon
    <3>3. Gives(l2, BytesOf(n), w4)
      BY <1>5, <2>1, <3>1, <3>2, Zenon DEF l2
    <3>4. l2.ok /\ l2.value = BytesOf(n) /\ l2.rest = w4
      BY <3>3, Zenon DEF Gives
    <3>5. NumberOf(BytesOf(n)) = n
      BY NumberIs, Zenon
    <3> QED BY <2>1, <3>4, <3>5, Zenon DEF count
  <2>2. CASE "LONG_NAME" \notin flags
    <3>1. AsByte(n) = n /\ n \in Unit
      <4>1. n \in Nat /\ n <= MaxByte
        BY <1>4, <2>2, MaxByteIs DEF Lengths
      <4> QED BY <4>1, AsByteIs
    <3>2. w3 = <<n>> \o w4
      BY <1>3, <2>2, <3>1, Zenon DEF w3, CountPiece
    <3>3. Gives(ReadBytes(<<n>> \o w4, 1), <<n>>, w4)
      BY <1>2, <3>1, OneRead, Zenon
    <3>4. Gives(l2, <<n>>, w4)
      BY <1>5, <2>2, <3>2, <3>3, Zenon DEF l2
    <3>5. l2.ok /\ l2.value = <<n>> /\ l2.rest = w4
      BY <3>4, Zenon DEF Gives
    <3>6. <<n>>[1] = n
      OBVIOUS
    <3> QED BY <2>2, <3>5, <3>6, Zenon DEF count
  <2> QED BY <2>1, <2>2
<1>7. name.value = Drop(e.path, k) /\ name.rest = w5
  <2>1. e.path \in Seq(Byte)
    BY EntryIs
  <2>2. PICK d : d = Drop(e.path, k)
    OBVIOUS
  <2>3. d \in Seq(Byte) /\ Len(d) = n
    BY <2>1, <2>2, PathAgain
  <2>4. d \in Seq(Unit)
    BY <2>3, ByteIsUnit
  <2>5. w4 = d \o w5
    BY <2>2, Zenon DEF w4, NamePiece
  <2>6. Gives(ReadBytes(d \o w5, Len(d)), d, w5)
    BY <1>2, <2>4, BytesRead, Zenon
  <2>7. Gives(name, d, w5)
    BY <1>6, <2>3, <2>5, <2>6, Zenon DEF name
  <2> QED BY <2>2, <2>7, Zenon DEF Gives
<1>8. SubSeq(reader.path, 1, l1.value[1]) \o name.value = e.path
  <2>1. e.path \in Seq(Byte)
    BY EntryIs
  <2>2. SubSeq(reader.path, 1, k) \o Drop(e.path, k) = e.path
    BY <2>1, PathAgain
  <2> QED BY <1>5, <1>7, <2>2, Zenon
<1>9. size.ok /\ size.value = e.size /\ size.rest = w6
  <2>1. e.size \in Bytes(8)
    BY EntryIs
  <2>2. Gives(ReadSize(WriteSize(e.size) \o w6), e.size, w6)
    BY <1>2, <2>1, ByteIsUnit, SizeRead, Zenon
  <2>3. Gives(size, e.size, w6)
    BY <1>7, <2>2, Zenon DEF size, w5, SizePiece
  <2> QED BY <2>3, Zenon DEF Gives
<1>10. time.ok /\ time.value = e.time /\ time.rest = w7
  <2>1. CASE "SAME_TIME" \in flags
    <3>1. TimePiece(e, reader) = <<>>
      BY <1>3, <2>1, Zenon DEF TimePiece
    <3>2. w6 = w7
      BY <1>2, <3>1, NothingBefore, Zenon DEF w6
    <3>3. Gives(time, reader.time, w7)
      BY <1>9, <2>1, <3>2, GivesSame, Zenon DEF time
    <3>4. e.time = reader.time
      BY <1>4, <2>1, Zenon
    <3> QED BY <3>3, <3>4, Zenon DEF Gives
  <2>2. CASE "SAME_TIME" \notin flags
    <3>1. e.time \in Bytes(8)
      BY EntryIs
    <3>2. Gives(ReadTime(WriteTime(e.time) \o w7), e.time, w7)
      BY <1>2, <3>1, ByteIsUnit, TimeRead, Zenon
    <3>3. w6 = WriteTime(e.time) \o w7
      BY <1>3, <2>2, Zenon DEF w6, TimePiece
    <3>4. Gives(time, e.time, w7)
      BY <1>9, <2>2, <3>2, <3>3, Zenon DEF time
    <3> QED BY <3>4, Zenon DEF Gives
  <2> QED BY <2>1, <2>2
<1>11. mode.value[1] = e.mode /\ mode.rest = w8
  <2>1. PICK m : m = e.mode
    OBVIOUS
  <2>2. <<m>>[1] = m
    OBVIOUS
  <2>3. Gives(mode, <<m>>, w8)
    <3>1. CASE "SAME_MODE" \in flags
      <4>1. ModePiece(e, reader) = <<>>
        BY <1>3, <3>1, Zenon DEF ModePiece
      <4>2. w7 = w8
        BY <1>2, <4>1, NothingBefore, Zenon DEF w7
      <4>3. m = reader.mode
        BY <1>4, <2>1, <3>1, Zenon
      <4>4. mode = Read(<<m>>, w8)
        BY <1>10, <3>1, <4>2, <4>3, Zenon DEF mode
      <4> QED BY <4>4, GivesSame, Zenon
    <3>2. CASE "SAME_MODE" \notin flags
      <4>1. m \in Unit
        BY <2>1, EntryIs DEF Unit
      <4>2. Gives(ReadBytes(<<m>> \o w8, 1), <<m>>, w8)
        BY <1>2, <4>1, OneRead, Zenon
      <4>3. w7 = <<m>> \o w8
        BY <1>3, <2>1, <3>2, Zenon DEF w7, ModePiece
      <4> QED BY <1>10, <3>2, <4>2, <4>3, Zenon DEF mode
    <3> QED BY <3>1, <3>2
  <2>4. mode.value = <<m>> /\ mode.rest = w8
    BY <2>3, Zenon DEF Gives
  <2> QED BY <2>1, <2>2, <2>4, Zenon
<1>12. length.ok /\ length.rest = e.link \o rest /\ NumberOf(length.value) = Len(e.link)
  <2>1. e.link \in Seq(Byte) /\ Len(e.link) \in Lengths /\ (e.mode \notin Links => e.link = <<>>)
    BY EntryIs
  <2>2. e.link \in Seq(Unit)
    BY <2>1, ByteIsUnit
  <2>3. PICK m \in Lengths : m = Len(e.link)
    BY <2>1
  <2>4. NumberOf(BytesOf(m)) = m
    BY NumberIs, Zenon
  <2>5. Gives(length, BytesOf(m), e.link \o rest)
    <3>1. CASE e.mode \in Links
      <4>1. PICK t : t = e.link \o rest
        OBVIOUS
      <4>2. t \in Seq(Unit)
        BY <2>2, <4>1, ConcatProperties
      <4>3. WriteLength(m) \in Seq(Unit) /\ Gives(ReadLength(WriteLength(m) \o t), BytesOf(m), t)
        BY <4>2, ByteIsUnit, LengthRead, Zenon
      <4>4. (WriteLength(m) \o e.link) \o rest = WriteLength(m) \o (e.link \o rest)
        BY <2>2, <4>3, RegroupUnits, Zenon
      <4>5. w8 = WriteLength(m) \o t
        BY <2>3, <3>1, <4>1, <4>4, Zenon DEF w8, LinkPiece
      <4>6. isLink
        BY <1>11, <3>1, Zenon DEF isLink
      <4> QED BY <1>11, <4>1, <4>3, <4>5, <4>6, Zenon DEF length
    <3>2. CASE e.mode \notin Links
      <4>1. e.link = <<>>
        BY <2>1, <3>2, Zenon
      <4>2. LinkPiece(e) = <<>>
        BY <3>2, Zenon DEF LinkPiece
      <4>3. w8 = rest
        BY <4>2, NothingBefore, Zenon DEF w8
      <4>4. e.link \o rest = rest
        BY <4>1, NothingBefore, Zenon
      <4>5. m = 0
        <5>1. \A s : s = <<>> => Len(s) = 0
          OBVIOUS
        <5> QED BY <2>3, <4>1, <5>1, Zenon
      <4>6. ~isLink
        BY <1>11, <3>2, Zenon DEF isLink
      <4>7. length = Read(BytesOf(m), rest)
        BY <1>11, <4>3, <4>5, <4>6, Zenon DEF length
      <4> QED BY <4>4, <4>7, GivesSame, Zenon
    <3> QED BY <3>1, <3>2
  <2> QED BY <2>3, <2>4, <2>5, Zenon DEF Gives
<1>13. link.value = e.link /\ link.rest = rest
  <2>1. e.link \in Seq(Unit)
    BY EntryIs, ByteIsUnit
  <2>2. Gives(ReadBytes(e.link \o rest, Len(e.link)), e.link, rest)
    BY <2>1, BytesRead, Zenon
  <2>3. Gives(link, e.link, rest)
    BY <1>12, <2>2, Zenon DEF link
  <2> QED BY <2>3, Zenon DEF Gives
<1>14. entry = e
  <2>1. e = [kind |-> "entry", path |-> e.path, size |-> e.size, time |-> e.time,
             mode |-> e.mode, link |-> e.link]
    BY EntryIs, Zenon
  <2> QED BY <1>8, <1>9, <1>10, <1>11, <1>13, <2>1, Zenon DEF entry
<1>15. EntryFromWire = Read(e, rest)
  BY <1>1, <1>6, <1>9, <1>10, <1>12, <1>13, <1>14, Zenon
<1>16. Gives(EntryFromWire, e, rest)
  BY <1>15, GivesSame, Zenon
<1> QED BY <1>3, <1>16, Zenon
-----------------------------------------------------------------------------
(* The three forms of a step. *)
LEMMA ReadStepIs ==
  ASSUME NEW w, NEW last
  PROVE  /\ At(w, 1) # 254 => ReadStep(w, last) = Read(At(w, 1) + last, Drop(w, 1))
         /\ At(w, 1) = 254 /\ At(w, 2) >= 128 =>
              ReadStep(w, last) =
                Read(At(w, 3) + At(w, 4) * 256 + At(w, 5) * 65536 + (At(w, 2) - 128) * 16777216,
                     Drop(w, 5))
         /\ At(w, 1) = 254 /\ ~(At(w, 2) >= 128) =>
              ReadStep(w, last) = Read(At(w, 2) * 256 + At(w, 3) + last, Drop(w, 3))
<1>1. PICK b : b = [k \in 1 .. 5 |-> At(w, k)]
  OBVIOUS
<1>2. /\ b[1] = At(w, 1) /\ b[2] = At(w, 2) /\ b[3] = At(w, 3) /\ b[4] = At(w, 4)
      /\ b[5] = At(w, 5)
  BY <1>1
<1>3. ReadStep(w, last) =
        IF b[1] # 254 THEN Read(b[1] + last, Drop(w, 1))
        ELSE IF b[2] >= 128
          THEN Read(b[3] + b[4] * 256 + b[5] * 65536 + (b[2] - 128) * 16777216, Drop(w, 5))
        ELSE Read(b[2] * 256 + b[3] + last, Drop(w, 3))
  BY SMT, <1>1 DEF ReadStep
<1> QED BY SMT, <1>2, <1>3

(* What is at the front of units that are put before others. *)
LEMMA FrontUnits ==
  ASSUME NEW p \in Seq(Unit), NEW rest \in Seq(Unit), NEW n, n = Len(p)
  PROVE  (\A k \in 1 .. n : At(p \o rest, k) = p[k]) /\ Drop(p \o rest, n) = rest
BY FrontOf, Zenon

(* How a step begins, by which it is told from the end of the indices and from
   a negative one. *)
BeginsStep(p) == Len(p) >= 1 /\ p[1] # 255 /\ p[1] # 0

(* A step is read as it was written. *)
LEMMA StepRead ==
  ASSUME NEW ix \in Nat, NEW last \in Int, NEW rest \in Seq(Unit)
  PROVE  \E p \in Seq(Unit) :
           /\ p = WriteStep(ix, last) /\ BeginsStep(p)
           /\ ReadStep(p \o rest, last) = Read(ix, rest)
<1>1. PICK diff \in Int : diff = ix - last
  OBVIOUS
<1>2. PICK p : p = WriteStep(ix, last)
  OBVIOUS
<1>3. PICK w : w = p \o rest
  OBVIOUS
<1>4. CASE diff > 0 /\ diff < 254
  <2>1. p = <<diff>>
    BY SMT, <1>1, <1>2, <1>4 DEF WriteStep
  <2>2. p \in Seq(Unit) /\ Len(p) = 1 /\ p[1] = diff
    BY <2>1 DEF Unit
  <2>3. At(w, 1) = p[1] /\ Drop(w, 1) = rest
    <3>1. p \in Seq(Unit) /\ Len(p) = 1
      BY <2>2
    <3>2. (\A k \in 1 .. 1 : At(p \o rest, k) = p[k]) /\ Drop(p \o rest, 1) = rest
      BY <3>1, FrontUnits, Zenon
    <3>3. (\A k \in 1 .. 1 : At(w, k) = p[k]) /\ Drop(w, 1) = rest
      BY <1>3, <3>2, Zenon
    <3>4. 1 \in 1 .. 1
      OBVIOUS
    <3> QED BY <3>3, <3>4
  <2>4. At(w, 1) # 254
    BY <1>4, <2>2, <2>3
  <2>5. ReadStep(w, last) = Read(At(w, 1) + last, Drop(w, 1))
    BY <2>4, ReadStepIs, SMT
  <2>6. At(w, 1) + last = ix
    BY <1>1, <2>2, <2>3
  <2>7. ReadStep(w, last) = Read(ix, rest)
    BY <2>3, <2>5, <2>6, Zenon
  <2>8. BeginsStep(p)
    BY <1>4, <2>2 DEF BeginsStep
  <2> QED BY <1>2, <1>3, <2>2, <2>7, <2>8, Zenon
<1>5. CASE ~(diff > 0 /\ diff < 254) /\ (diff < 0 \/ diff > 32767)
  <2>1. PICK a \in Nat, b \in Nat, c \in Nat, d \in Nat :
          a = ix \div 16777216 /\ b = ix % 256 /\ c = (ix \div 256) % 256 /\ d = (ix \div 65536) % 256
    BY SMT
  <2>2. ix = b + c * 256 + d * 65536 + a * 16777216
    <3>1. PICK x \in Nat, y \in Nat : x = ix \div 256 /\ y = ix \div 65536
      BY SMT
    <3>2. ix = x * 256 + b
      BY SMT, <2>1, <3>1
    <3>3. x = y * 256 + c
      BY SMT, <2>1, <3>1
    <3>4. y = a * 256 + d
      BY SMT, <2>1, <3>1
    <3> QED BY SMT, <3>2, <3>3, <3>4
  <2>3. p = <<254, a + 128, b, c, d>>
    BY SMT, <1>1, <1>2, <1>5, <2>1 DEF WriteStep
  <2>4. /\ p \in Seq(Unit) /\ Len(p) = 5
        /\ p[1] = 254 /\ p[2] = a + 128 /\ p[3] = b /\ p[4] = c /\ p[5] = d
    BY <2>3 DEF Unit
  <2>5. /\ At(w, 1) = 254 /\ At(w, 2) = a + 128 /\ At(w, 3) = b /\ At(w, 4) = c /\ At(w, 5) = d
        /\ Drop(w, 5) = rest
    <3>1. p \in Seq(Unit) /\ Len(p) = 5
      BY <2>4
    <3>2. (\A k \in 1 .. 5 : At(p \o rest, k) = p[k]) /\ Drop(p \o rest, 5) = rest
      BY <3>1, FrontUnits, Zenon
    <3>3. (\A k \in 1 .. 5 : At(w, k) = p[k]) /\ Drop(w, 5) = rest
      BY <1>3, <3>2, Zenon
    <3>4. 1 \in 1 .. 5 /\ 2 \in 1 .. 5 /\ 3 \in 1 .. 5 /\ 4 \in 1 .. 5 /\ 5 \in 1 .. 5
      OBVIOUS
    <3> QED BY <2>4, <3>3, <3>4
  <2>6. At(w, 2) >= 128
    BY <2>5
  <2>7. ReadStep(w, last) =
                Read(At(w, 3) + At(w, 4) * 256 + At(w, 5) * 65536 + (At(w, 2) - 128) * 16777216,
                     Drop(w, 5))
    BY SMT, <2>5, <2>6, ReadStepIs
  <2>8. At(w, 3) + At(w, 4) * 256 + At(w, 5) * 65536 + (At(w, 2) - 128) * 16777216 = ix
    BY SMT, <2>2, <2>5
  <2>9. ReadStep(w, last) = Read(ix, rest)
    BY SMT, <2>5, <2>7, <2>8
  <2>10. BeginsStep(p)
    BY <2>4 DEF BeginsStep
  <2>11. p \in Seq(Unit)
    BY <2>4
  <2> QED BY <1>2, <1>3, <2>9, <2>10, <2>11, Zenon
<1>6. CASE ~(diff > 0 /\ diff < 254) /\ ~(diff < 0 \/ diff > 32767)
  <2>1. PICK a \in Nat, b \in Nat : a = diff \div 256 /\ b = diff % 256
    BY SMT, <1>6
  <2>2. diff = a * 256 + b /\ a < 128
    BY SMT, <1>6, <2>1
  <2>3. p = <<254, a, b>>
    BY SMT, <1>1, <1>2, <1>6, <2>1 DEF WriteStep
  <2>4. p \in Seq(Unit) /\ Len(p) = 3 /\ p[1] = 254 /\ p[2] = a /\ p[3] = b
    BY <2>3 DEF Unit
  <2>5. At(w, 1) = 254 /\ At(w, 2) = a /\ At(w, 3) = b /\ Drop(w, 3) = rest
    <3>1. p \in Seq(Unit) /\ Len(p) = 3
      BY <2>4
    <3>2. (\A k \in 1 .. 3 : At(p \o rest, k) = p[k]) /\ Drop(p \o rest, 3) = rest
      BY <3>1, FrontUnits, Zenon
    <3>3. (\A k \in 1 .. 3 : At(w, k) = p[k]) /\ Drop(w, 3) = rest
      BY <1>3, <3>2, Zenon
    <3>4. 1 \in 1 .. 3 /\ 2 \in 1 .. 3 /\ 3 \in 1 .. 3
      OBVIOUS
    <3> QED BY <2>4, <3>3, <3>4
  <2>6. ~(At(w, 2) >= 128)
    BY <2>2, <2>5
  <2>7. ReadStep(w, last) = Read(At(w, 2) * 256 + At(w, 3) + last, Drop(w, 3))
    BY SMT, <2>5, <2>6, ReadStepIs
  <2>8. At(w, 2) * 256 + At(w, 3) + last = ix
    BY SMT, <1>1, <2>2, <2>5
  <2>9. ReadStep(w, last) = Read(ix, rest)
    BY <2>5, <2>7, <2>8, Zenon
  <2>10. BeginsStep(p)
    BY <2>4 DEF BeginsStep
  <2>11. p \in Seq(Unit)
    BY <2>4
  <2> QED BY <1>2, <1>3, <2>9, <2>10, <2>11, Zenon
<1> QED BY <1>4, <1>5, <1>6
(* The first unit of what is put before others. *)
LEMMA FirstUnit ==
  ASSUME NEW p \in Seq(Unit), NEW rest \in Seq(Unit), Len(p) >= 1
  PROVE  (p \o rest)[1] = p[1]
<1>1. PICK w : w = p \o rest
  OBVIOUS
<1>2. /\ Len(w) = Len(p) + Len(rest)
      /\ \A ix \in 1 .. Len(p) + Len(rest) : w[ix] = IF ix <= Len(p) THEN p[ix] ELSE rest[ix - Len(p)]
  BY <1>1, ConcatProperties
<1>3. 1 \in 1 .. Len(p) + Len(rest) /\ 1 <= Len(p)
  OBVIOUS
<1>4. w[1] = p[1]
  BY <1>2, <1>3
<1> QED BY <1>1, <1>4, Zenon

(* The sign of what was read is changed. *)
LEMMA Negated ==
  ASSUME NEW ix \in Nat, NEW rest
  PROVE  Gives([Read(ix, rest) EXCEPT !.value = -@], -ix, rest)
BY DEF Read, Gives

(* An index is read as it was written, if the last indices are the same. *)
LEMMA IndexRead ==
  ASSUME NEW number \in Int, NEW last, last.positive \in Int, last.negative \in Int,
         NEW rest \in Seq(Unit)
  PROVE  /\ WriteIndex(number, last) \in Seq(Unit)
         /\ Gives(ReadIndex(WriteIndex(number, last) \o rest, last), number, rest)
<1>1. CASE number >= 0
  <2>1. PICK p \in Seq(Unit) :
          /\ p = WriteStep(number, last.positive) /\ BeginsStep(p)
          /\ ReadStep(p \o rest, last.positive) = Read(number, rest)
    BY <1>1, StepRead
  <2>2. PICK w : w = p \o rest
    OBVIOUS
  <2>3. Len(p) >= 1 /\ p[1] # 255 /\ p[1] # 0
    BY <2>1, Zenon DEF BeginsStep
  <2>4. w[1] = p[1]
    BY <2>2, <2>3, FirstUnit, Zenon
  <2>5. WriteIndex(number, last) = p
    BY <1>1, <2>1, Zenon DEF WriteIndex
  <2>6. ReadIndex(w, last) = ReadStep(w, last.positive)
    BY <2>3, <2>4, SMT DEF ReadIndex, NegativeFollows
  <2>7. ReadIndex(w, last) = Read(number, rest)
    BY <2>1, <2>2, <2>6, Zenon
  <2> QED BY <2>2, <2>5, <2>7, GivesSame, Zenon
<1>2. CASE number = INDEX_DONE
  <2>1. PICK z : z = 0
    OBVIOUS
  <2>2. z \in Unit
    BY <2>1 DEF Unit
  <2>3. PICK p : p = <<z>>
    OBVIOUS
  <2>4. WriteIndex(number, last) = p
    BY SMT, <1>2, <2>1, <2>3 DEF WriteIndex, INDEX_DONE
  <2>5. p \in Seq(Unit)
    BY <2>2, <2>3, OneIs, Zenon
  <2>6. PICK w : w = p \o rest
    OBVIOUS
  <2>7. w[1] = z /\ Drop(w, 1) = rest
    BY <2>2, <2>3, <2>6, FirstIs, Zenon
  <2>8. ReadIndex(w, last) = Read(INDEX_DONE, rest)
    BY SMT, <2>1, <2>7 DEF ReadIndex, NegativeFollows
  <2> QED BY <1>2, <2>4, <2>5, <2>6, <2>8, GivesSame, Zenon
<1>3. CASE ~(number >= 0) /\ number # INDEX_DONE
  <2>1. PICK ix \in Nat : ix = -number
    BY <1>3
  <2>2. PICK p \in Seq(Unit) :
          /\ p = WriteStep(ix, last.negative) /\ BeginsStep(p)
          /\ ReadStep(p \o rest, last.negative) = Read(ix, rest)
    BY StepRead
  <2>3. PICK b : b = NegativeFollows
    OBVIOUS
  <2>4. b \in Unit
    BY <2>3 DEF Unit, NegativeFollows
  <2>5. PICK h : h = <<b>>
    OBVIOUS
  <2>6. h \in Seq(Unit)
    BY <2>4, <2>5, OneIs, Zenon
  <2>7. WriteIndex(number, last) = h \o p
    <3>1. WriteIndex(number, last) = <<NegativeFollows>> \o WriteStep(-number, last.negative)
      BY <1>3, Zenon DEF WriteIndex
    <3>2. h = <<NegativeFollows>>
      BY <2>3, <2>5, Zenon
    <3> QED BY <2>1, <2>2, <3>1, <3>2, Zenon
  <2>8. PICK t : t = p \o rest
    OBVIOUS
  <2>9. t \in Seq(Unit) /\ h \o p \in Seq(Unit)
    BY <2>6, <2>8, RegroupUnits, Zenon
  <2>10. PICK w : w = (h \o p) \o rest
    OBVIOUS
  <2>11. w = h \o t
    BY <2>6, <2>8, <2>10, RegroupUnits, Zenon
  <2>12. w[1] = b /\ Drop(w, 1) = t
    BY <2>4, <2>5, <2>9, <2>11, FirstIs, Zenon
  <2>13. PICK read : read = ReadStep(t, last.negative)
    OBVIOUS
  <2>14. read = Read(ix, rest)
    BY <2>2, <2>8, <2>13, Zenon
  <2>15. ReadIndex(w, last) = [read EXCEPT !.value = -@]
    <3>1. w[1] = NegativeFollows
      BY <2>3, <2>12, Zenon
    <3> QED BY <2>12, <2>13, <3>1, Zenon DEF ReadIndex
  <2>16. Gives([read EXCEPT !.value = -@], -ix, rest)
    BY <2>14, Negated, Zenon
  <2>17. -ix = number
    BY <2>1
  <2> QED BY <2>7, <2>9, <2>10, <2>15, <2>16, <2>17, Zenon
<1> QED BY <1>1, <1>2, <1>3
-----------------------------------------------------------------------------
(* What is written, how it is written by an end that remembers m, and what that
   end remembers then. *)
Items == EntriesToSend \cup {End} \cup [kind : {"index"}, index : Indices]

Memory == [path : Seq(Byte), mode : Int, time : Bytes(8), positive : Int, negative : Int]

Encoded(item, m) ==
  IF item.kind = "entry" THEN EntryOnWire(item, m)
  ELSE IF item.kind = "end" THEN <<{}>>
  ELSE IF protocol < 30 THEN <<item.index>>
  ELSE WriteIndex(item.index, m)

Remembered(item, m) ==
  IF item.kind = "entry" THEN RememberEntry(m, item)
  ELSE IF item.kind = "end" \/ protocol < 30 THEN m
  ELSE After(m, item.index)

(* What is on the wire leads from what the reader remembers to what the writer
   does: before each thing that is under way there is a memory and a rest of the
   wire, which begins with that thing as it is written by this memory. *)
WireLeads(us, r, w, x, p, q) ==
  /\ p[0] = r /\ p[Len(us)] = w /\ q[0] = x /\ q[Len(us)] = <<>>
  /\ \A k \in 0 .. Len(us) : p[k] \in Memory /\ q[k] \in Seq(Unit)
  /\ \A k \in 1 .. Len(us) : /\ p[k] = Remembered(us[k], p[k - 1])
                             /\ q[k - 1] = Encoded(us[k], p[k - 1]) \o q[k]

WireInv ==
  /\ protocol \in Protocols
  /\ underWay \in Seq(Items)
  /\ \E p, q : WireLeads(underWay, reader, writer, wire, p, q)

(* How things are written depends on the protocol only, which does not change. *)
LEMMA EncodedKept ==
  ASSUME protocol' = protocol, NEW item, NEW m
  PROVE  Encoded(item, m)' = Encoded(item, m) /\ Remembered(item, m)' = Remembered(item, m)
BY Zenon DEF Encoded, Remembered, EntryOnWire, WriteLength, WriteSize, WriteTime

(* Nor does what is on the wire mean anything else then. *)
LEMMA WireLeadsKept ==
  ASSUME protocol' = protocol, NEW us, NEW r, NEW w, NEW x, NEW p, NEW q,
         WireLeads(us, r, w, x, p, q), underWay' = us, reader' = r, writer' = w, wire' = x
  PROVE  WireLeads(underWay, reader, writer, wire, p, q)'
<1>1. \A item, m : Encoded(item, m)' = Encoded(item, m) /\ Remembered(item, m)' = Remembered(item, m)
  BY EncodedKept
<1>2. WireLeads(us, r, w, x, p, q)'
  BY <1>1, Zenon DEF WireLeads
<1> QED BY <1>2, Zenon

(* What is written is an entry, the end, or an index. *)
LEMMA ItemsAre ==
  ASSUME NEW item \in Items
  PROVE  \/ item.kind = "entry" /\ item \in EntriesToSend
         \/ item.kind = "end" /\ item = End
         \/ /\ item.kind = "index" /\ item.index \in Int
            /\ item = [kind |-> "index", index |-> item.index]
<1>1. Indices \subseteq Int
  <2>1. Indices \subseteq -(2 ^ 30) .. 2 ^ 30
    BY EntriesAssumption, Zenon
  <2>2. PICK n : n = 2 ^ 30
    OBVIOUS
  <2>3. Indices \subseteq -n .. n
    BY <2>1, <2>2, Zenon
  <2> QED BY <2>3
<1>2. CASE item \in EntriesToSend
  BY <1>2, EntryIs
<1>3. CASE item \in {End}
  BY <1>3 DEF End
<1>4. CASE item \in [kind : {"index"}, index : Indices]
  BY <1>1, <1>4
<1> QED BY <1>2, <1>3, <1>4 DEF Items

(* A memory stays one. *)
LEMMA RememberedIs ==
  ASSUME NEW m \in Memory, NEW item \in Items
  PROVE  Remembered(item, m) \in Memory
<1>1. CASE item.kind = "entry" /\ item \in EntriesToSend
  <2>1. item.path \in Seq(Byte) /\ item.mode \in Int /\ item.time \in Bytes(8)
    BY <1>1, EntryIs
  <2>2. RememberEntry(m, item) \in Memory
    BY <2>1 DEF RememberEntry, Memory
  <2> QED BY <1>1, <2>2, Zenon DEF Remembered
<1>2. CASE item.kind = "end"
  BY <1>2, Zenon DEF Remembered
<1>3. CASE item.kind = "index" /\ item.index \in Int
  <2>1. After(m, item.index) \in Memory
    BY <1>3 DEF After, Memory
  <2>2. item.kind # "entry" /\ item.kind # "end"
    BY <1>3
  <2> QED BY <2>1, <2>2, Zenon DEF Remembered
<1> QED BY <1>1, <1>2, <1>3, ItemsAre

(* The hypothesis of the theorems: protocol 29 can carry the times. *)
TimesFit == 29 \in Protocols => \A t \in Times : Fits(t)

(* A time that is written in protocol 29 is one that is read. *)
LEMMA TimesAreRead ==
  ASSUME TimesFit, protocol \in Protocols, NEW e \in EntriesToSend
  PROVE  protocol < 30 => Fits(e.time)
<1>1. Protocols \subseteq {29, 30}
  BY EntriesAssumption, Zenon
<1>2. protocol \in {29, 30}
  BY <1>1, Zenon
<1>3. protocol < 30 => protocol = 29
  BY <1>2
<1>4. e.time \in Times
  BY EntryIs
<1> QED BY <1>3, <1>4, Zenon DEF TimesFit

(* Everything is written in units. *)
LEMMA EncodedIs ==
  ASSUME TimesFit, protocol \in Protocols, NEW m \in Memory, NEW item \in Items
  PROVE  Encoded(item, m) \in Seq(Unit)
<1>1. m.path \in Seq(Byte) /\ m.positive \in Int /\ m.negative \in Int
  BY DEF Memory
<1>2. CASE item.kind = "entry" /\ item \in EntriesToSend
  <2>1. protocol < 30 => Fits(item.time)
    BY <1>2, TimesAreRead
  <2>2. EntryOnWire(item, m) \in Seq(Unit)
    BY <1>1, <1>2, <2>1, EntryIsOfUnits
  <2> QED BY <1>2, <2>2, Zenon DEF Encoded
<1>3. CASE item.kind = "end"
  <2>1. {} \in Unit
    BY DEF Unit
  <2>2. <<{}>> \in Seq(Unit)
    BY <2>1, OneIs
  <2>3. item.kind # "entry"
    BY <1>3
  <2> QED BY <1>3, <2>2, <2>3, Zenon DEF Encoded
<1>4. CASE item.kind = "index" /\ item.index \in Int
  <2>1. item.kind # "entry" /\ item.kind # "end"
    BY <1>4
  <2>2. <<>> \in Seq(Unit)
    OBVIOUS
  <2>3. WriteIndex(item.index, m) \in Seq(Unit)
    BY <1>1, <1>4, <2>2, IndexRead, Zenon
  <2>4. item.index \in Unit
    BY <1>4 DEF Unit
  <2>5. <<item.index>> \in Seq(Unit)
    BY <2>4, OneIs, Zenon
  <2> QED BY <2>1, <2>3, <2>5, Zenon DEF Encoded
<1> QED BY <1>2, <1>3, <1>4, ItemsAre
-----------------------------------------------------------------------------
(* What was written first is what is read, if the reader remembers what the
   writer did then. *)
LEMMA ItemRead ==
  ASSUME TimesFit, protocol \in Protocols, reader \in Memory, underWay # <<>>,
         NEW item \in Items, item = Head(underWay),
         NEW rest \in Seq(Unit), wire = Encoded(item, reader) \o rest
  PROVE  Gives(FromWire, item, rest)
<1>1. reader.path \in Seq(Byte) /\ reader.positive \in Int /\ reader.negative \in Int
  BY DEF Memory
<1>2. CASE item.kind = "entry" /\ item \in EntriesToSend
  <2>1. protocol < 30 => Fits(item.time)
    BY <1>2, TimesAreRead
  <2>2. wire = EntryOnWire(item, reader) \o rest
    BY <1>2, Zenon DEF Encoded
  <2>3. Gives(EntryFromWire, item, rest) /\ Head(wire) # {}
    BY <1>1, <1>2, <2>1, <2>2, EntryRead
  <2>4. Head(underWay).kind # "index"
    BY <1>2
  <2>5. FromWire = EntryFromWire
    BY <2>3, <2>4, Zenon DEF FromWire
  <2> QED BY <2>3, <2>5, Zenon
<1>3. CASE item.kind = "end" /\ item = End
  <2>1. {} \in Unit
    BY DEF Unit
  <2>2. item.kind # "entry"
    BY <1>3
  <2>3. wire = <<{}>> \o rest
    BY <1>3, <2>2, Zenon DEF Encoded
  <2>4. Head(wire) = {} /\ Tail(wire) = rest
    BY <2>1, <2>3, FirstIs, Zenon
  <2>5. Head(underWay).kind # "index"
    BY <1>3
  <2>6. FromWire = Read(End, Tail(wire))
    BY <2>4, <2>5, Zenon DEF FromWire
  <2>7. FromWire = Read(item, rest)
    BY <1>3, <2>4, <2>6, Zenon
  <2> QED BY <2>7, GivesSame, Zenon
<1>4. CASE /\ item.kind = "index" /\ item.index \in Int
           /\ item = [kind |-> "index", index |-> item.index]
  <2> DEFINE read == IF protocol < 30 THEN Read(wire[1], Drop(wire, 1)) ELSE ReadIndex(wire, reader)
  <2>1. FromWire = Read([kind |-> "index", index |-> read.value], read.rest)
    <3>1. Head(underWay).kind = "index"
      BY <1>4
    <3>2. FromWire = IndexFromWire
      BY <3>1, Zenon DEF FromWire
    <3> QED BY <3>2, Zenon DEF IndexFromWire
  <2> HIDE DEF read
  <2>2. item.kind # "entry" /\ item.kind # "end"
    BY <1>4
  <2>3. Gives(read, item.index, rest)
    <3>1. CASE protocol < 30
      <4>1. item.index \in Unit
        BY <1>4 DEF Unit
      <4>2. wire = <<item.index>> \o rest
        BY <2>2, <3>1, Zenon DEF Encoded
      <4>3. wire[1] = item.index /\ Drop(wire, 1) = rest
        BY <4>1, <4>2, FirstIs, Zenon
      <4>4. read = Read(item.index, rest)
        BY <3>1, <4>3, Zenon DEF read
      <4> QED BY <4>4, GivesSame, Zenon
    <3>2. CASE ~(protocol < 30)
      <4>1. wire = WriteIndex(item.index, reader) \o rest
        BY <2>2, <3>2, Zenon DEF Encoded
      <4>2. Gives(ReadIndex(wire, reader), item.index, rest)
        BY <1>1, <1>4, <4>1, IndexRead, Zenon
      <4> QED BY <3>2, <4>2, Zenon DEF read
    <3> QED BY <3>1, <3>2, Zenon
  <2>4. read.value = item.index /\ read.rest = rest
    BY <2>3, Zenon DEF Gives
  <2>5. FromWire = Read(item, rest)
    BY <1>4, <2>1, <2>4, Zenon
  <2> QED BY <2>5, GivesSame, Zenon
<1> QED BY <1>2, <1>3, <1>4, ItemsAre, Zenon

(* One more thing is written. *)
LEMMA Extend ==
  ASSUME TimesFit, protocol \in Protocols,
         NEW us \in Seq(Items), NEW r, NEW w, NEW x, NEW p, NEW q, WireLeads(us, r, w, x, p, q),
         NEW item \in Items, NEW bytes \in Seq(Unit), bytes = Encoded(item, w)
  PROVE  \E pp, qq : WireLeads(Append(us, item), r, Remembered(item, w), x \o bytes, pp, qq)
<1> DEFINE vs == Append(us, item)
           n == Len(us)
           pp == [k \in 0 .. n + 1 |-> IF k <= n THEN p[k] ELSE Remembered(item, w)]
           qq == [k \in 0 .. n + 1 |-> IF k <= n THEN q[k] \o bytes ELSE <<>>]
<1>1. /\ n \in Nat /\ Len(vs) = n + 1 /\ vs[n + 1] = item
      /\ \A k \in 1 .. n : vs[k] = us[k]
  OBVIOUS
<1>2. /\ p[0] = r /\ p[n] = w /\ q[0] = x /\ q[n] = <<>>
      /\ \A k \in 0 .. n : p[k] \in Memory /\ q[k] \in Seq(Unit)
      /\ \A k \in 1 .. n : p[k] = Remembered(us[k], p[k - 1])
      /\ \A k \in 1 .. n : q[k - 1] = Encoded(us[k], p[k - 1]) \o q[k]
  BY Zenon DEF WireLeads
<1> HIDE DEF vs, n
<1>3. /\ pp[n + 1] = Remembered(item, w) /\ qq[n + 1] = <<>>
      /\ \A k \in 0 .. n : pp[k] = p[k] /\ qq[k] = q[k] \o bytes
  BY <1>1
<1> HIDE DEF pp, qq
<1>4. pp[0] = r /\ qq[0] = x \o bytes
  <2>1. 0 \in 0 .. n
    BY <1>1
  <2> QED BY <1>2, <1>3, <2>1, Zenon
<1>5. \A k \in 0 .. n + 1 : pp[k] \in Memory /\ qq[k] \in Seq(Unit)
  <2> TAKE k \in 0 .. n + 1
  <2>1. CASE k \in 0 .. n
    <3>1. q[k] \o bytes \in Seq(Unit)
      BY <1>2, <2>1, RegroupUnits, Zenon
    <3> QED BY <1>2, <1>3, <2>1, <3>1, Zenon
  <2>2. CASE k = n + 1
    <3>1. w \in Memory
      <4>1. n \in 0 .. n
        BY <1>1
      <4> QED BY <1>2, <4>1, Zenon
    <3>2. Remembered(item, w) \in Memory
      BY <3>1, RememberedIs
    <3>3. <<>> \in Seq(Unit)
      OBVIOUS
    <3> QED BY <1>3, <2>2, <3>2, <3>3, Zenon
  <2>3. k \in 0 .. n \/ k = n + 1
    BY <1>1
  <2> QED BY <2>1, <2>2, <2>3
<1>6. \A k \in 1 .. n + 1 : /\ pp[k] = Remembered(vs[k], pp[k - 1])
                            /\ qq[k - 1] = Encoded(vs[k], pp[k - 1]) \o qq[k]
  <2> TAKE k \in 1 .. n + 1
  <2>1. CASE k \in 1 .. n
    <3>1. k \in 0 .. n /\ k - 1 \in 0 .. n
      BY <1>1, <2>1
    <3>2. pp[k] = Remembered(vs[k], pp[k - 1])
      BY <1>1, <1>2, <1>3, <2>1, <3>1, Zenon
    <3>3. PICK c : c = Encoded(us[k], p[k - 1])
      OBVIOUS
    <3>4. c \in Seq(Unit)
      <4>1. us[k] \in Items
        BY <1>1, <2>1 DEF n
      <4> QED BY <1>2, <3>1, <3>3, <4>1, EncodedIs
    <3>5. (c \o q[k]) \o bytes = c \o (q[k] \o bytes)
      <4>1. q[k] \in Seq(Unit)
        BY <1>2, <3>1, Zenon
      <4> QED BY <3>4, <4>1, RegroupUnits
    <3>6. q[k - 1] = c \o q[k]
      BY <1>2, <2>1, <3>3, Zenon
    <3>7. qq[k - 1] = c \o qq[k]
      BY <1>3, <3>1, <3>5, <3>6, Zenon
    <3>8. c = Encoded(vs[k], pp[k - 1])
      BY <1>1, <1>3, <2>1, <3>1, <3>3, Zenon
    <3> QED BY <3>2, <3>7, <3>8, Zenon
  <2>2. CASE k = n + 1
    <3>1. k - 1 = n /\ n \in 0 .. n
      BY <1>1, <2>2
    <3>2. pp[n] = w /\ qq[n] = <<>> \o bytes
      BY <1>2, <1>3, <3>1, Zenon
    <3>3. <<>> \o bytes = bytes \o <<>>
      OBVIOUS
    <3> QED BY <1>1, <1>3, <2>2, <3>1, <3>2, <3>3, Zenon
  <2>3. k \in 1 .. n \/ k = n + 1
    BY <1>1
  <2> QED BY <2>1, <2>2, <2>3
<1>7. WireLeads(vs, r, Remembered(item, w), x \o bytes, pp, qq)
  BY <1>1, <1>3, <1>4, <1>5, <1>6, Zenon DEF WireLeads
<1> QED BY <1>7, Zenon DEF vs

(* The first thing is read. *)
LEMMA Shorten ==
  ASSUME NEW us \in Seq(Items), us # <<>>, NEW r, NEW w, NEW x, NEW p, NEW q,
         WireLeads(us, r, w, x, p, q)
  PROVE  /\ r \in Memory /\ Head(us) \in Items
         /\ \E y, pp, qq :
              /\ y \in Seq(Unit)
              /\ x = Encoded(Head(us), r) \o y
              /\ WireLeads(Tail(us), Remembered(Head(us), r), w, y, pp, qq)
<1> DEFINE vs == Tail(us)
           n == Len(us)
           pp == [k \in 0 .. n - 1 |-> p[k + 1]]
           qq == [k \in 0 .. n - 1 |-> q[k + 1]]
<1>1. /\ n \in Nat /\ n >= 1 /\ Len(vs) = n - 1 /\ us[1] = Head(us) /\ Head(us) \in Items
      /\ \A k \in 1 .. n - 1 : vs[k] = us[k + 1]
  OBVIOUS
<1>2. /\ p[0] = r /\ p[n] = w /\ q[0] = x /\ q[n] = <<>>
      /\ \A k \in 0 .. n : p[k] \in Memory /\ q[k] \in Seq(Unit)
      /\ \A k \in 1 .. n : p[k] = Remembered(us[k], p[k - 1])
      /\ \A k \in 1 .. n : q[k - 1] = Encoded(us[k], p[k - 1]) \o q[k]
  BY Zenon DEF WireLeads
<1> HIDE DEF vs, n
<1>3. \A k \in 0 .. n - 1 : pp[k] = p[k + 1] /\ qq[k] = q[k + 1]
  OBVIOUS
<1> HIDE DEF pp, qq
<1>4. 1 \in 1 .. n /\ 1 - 1 = 0 /\ 0 \in 0 .. n /\ 1 \in 0 .. n /\ 0 \in 0 .. n - 1 /\ 0 + 1 = 1
  BY <1>1
<1>5. r \in Memory /\ q[1] \in Seq(Unit)
  BY <1>2, <1>4, Zenon
<1>6. x = Encoded(Head(us), r) \o q[1] /\ p[1] = Remembered(Head(us), r)
  BY <1>1, <1>2, <1>4, Zenon
<1>7. pp[0] = Remembered(Head(us), r) /\ qq[0] = q[1]
  BY <1>3, <1>4, <1>6, Zenon
<1>8. pp[n - 1] = w /\ qq[n - 1] = <<>>
  <2>1. n - 1 \in 0 .. n - 1 /\ n - 1 + 1 = n
    BY <1>1
  <2> QED BY <1>2, <1>3, <2>1, Zenon
<1>9. \A k \in 0 .. n - 1 : pp[k] \in Memory /\ qq[k] \in Seq(Unit)
  <2> TAKE k \in 0 .. n - 1
  <2>1. k + 1 \in 0 .. n
    BY <1>1
  <2> QED BY <1>2, <1>3, <2>1, Zenon
<1>10. \A k \in 1 .. n - 1 : /\ pp[k] = Remembered(vs[k], pp[k - 1])
                             /\ qq[k - 1] = Encoded(vs[k], pp[k - 1]) \o qq[k]
  <2> TAKE k \in 1 .. n - 1
  <2>1. /\ k + 1 \in 1 .. n /\ (k + 1) - 1 = k /\ (k - 1) + 1 = k
        /\ k \in 0 .. n - 1 /\ k - 1 \in 0 .. n - 1
    BY <1>1
  <2>2. p[k + 1] = Remembered(us[k + 1], p[k]) /\ q[k] = Encoded(us[k + 1], p[k]) \o q[k + 1]
    BY <1>2, <2>1, Zenon
  <2>3. pp[k] = p[k + 1] /\ qq[k] = q[k + 1] /\ pp[k - 1] = p[k] /\ qq[k - 1] = q[k]
    BY <1>3, <2>1, Zenon
  <2>4. vs[k] = us[k + 1]
    BY <1>1
  <2> QED BY <2>2, <2>3, <2>4, Zenon
<1>11. WireLeads(vs, Remembered(Head(us), r), w, q[1], pp, qq)
  BY <1>1, <1>7, <1>8, <1>9, <1>10, Zenon DEF WireLeads
<1> QED BY <1>1, <1>5, <1>6, <1>11, Zenon DEF vs
-----------------------------------------------------------------------------
(* In the beginning nothing is under way. *)
LEMMA WireInvInit == EntriesInit => WireInv
<1> SUFFICES ASSUME EntriesInit PROVE WireInv
  OBVIOUS
<1>1. /\ protocol \in Protocols /\ reader = writer /\ wire = <<>> /\ underWay = <<>>
      /\ writer = [path |-> <<>>, mode |-> 0, time |-> Zero, positive |-> -1, negative |-> 1]
  BY Zenon DEF EntriesInit
<1>2. writer \in Memory
  <2>1. <<>> \in Seq(Byte) /\ Zero \in Bytes(8)
    BY DEF Zero, Bytes, Byte
  <2> QED BY <1>1, <2>1 DEF Memory
<1> DEFINE p == [k \in {0} |-> writer]
           q == [k \in {0} |-> <<>>]
<1>3. <<>> \in Seq(Items) /\ <<>> \in Seq(Unit) /\ 0 .. 0 = {0} /\ 1 .. 0 = {}
  OBVIOUS
<1>4. p[0] = writer /\ q[0] = <<>>
  OBVIOUS
<1>5. \A us : us = <<>> => Len(us) = 0
  OBVIOUS
<1> HIDE DEF p, q
<1>6. Len(underWay) = 0
  BY <1>1, <1>5, Zenon
<1>7. WireLeads(underWay, reader, writer, wire, p, q)
  BY <1>1, <1>2, <1>3, <1>4, <1>6, Zenon DEF WireLeads
<1> QED BY <1>1, <1>3, <1>7, Zenon DEF WireInv

(* Something is written as the writer's memory has it, and the writer remembers it. *)
LEMMA WrittenKeeps ==
  ASSUME TimesFit, WireInv, NEW item \in Items, Written(item, Encoded(item, writer)),
         writer' = Remembered(item, writer)
  PROVE  WireInv'
<1>1. PICK bytes : bytes = Encoded(item, writer)
  OBVIOUS
<1>2. /\ wire' = wire \o bytes /\ underWay' = Append(underWay, item)
      /\ protocol' = protocol /\ reader' = reader
  BY <1>1, Zenon DEF Written
<1>3. protocol \in Protocols /\ underWay \in Seq(Items)
  BY Zenon DEF WireInv
<1>4. PICK p, q : WireLeads(underWay, reader, writer, wire, p, q)
  BY Zenon DEF WireInv
<1>5. writer \in Memory
  <2>1. Len(underWay) \in 0 .. Len(underWay)
    BY <1>3
  <2> QED BY <1>4, <2>1, Zenon DEF WireLeads
<1>6. bytes \in Seq(Unit)
  BY <1>1, <1>3, <1>5, EncodedIs, Zenon
<1>7. PICK pp, qq : WireLeads(Append(underWay, item), reader, Remembered(item, writer), wire \o bytes, pp, qq)
  BY <1>1, <1>3, <1>4, <1>6, Extend, Zenon
<1>8. WireLeads(underWay, reader, writer, wire, pp, qq)'
  BY <1>2, <1>7, WireLeadsKept, Zenon
<1>9. Append(underWay, item) \in Seq(Items)
  BY <1>3
<1> QED BY <1>2, <1>3, <1>8, <1>9, Zenon DEF WireInv

(* The first thing that is under way is what is read, and the wire then leads
   on from what the reader remembers of it. *)
LEMMA FirstThing ==
  ASSUME TimesFit, WireInv, underWay # <<>>
  PROVE  \E item, y :
           /\ item \in Items /\ item = Head(underWay) /\ y \in Seq(Unit) /\ Gives(FromWire, item, y)
           /\ \E pp, qq : WireLeads(Tail(underWay), Remembered(item, reader), writer, y, pp, qq)
<1>1. protocol \in Protocols /\ underWay \in Seq(Items)
  BY Zenon DEF WireInv
<1>2. PICK p, q : WireLeads(underWay, reader, writer, wire, p, q)
  BY Zenon DEF WireInv
<1>3. PICK y, pp, qq :
        /\ reader \in Memory /\ Head(underWay) \in Items /\ y \in Seq(Unit)
        /\ wire = Encoded(Head(underWay), reader) \o y
        /\ WireLeads(Tail(underWay), Remembered(Head(underWay), reader), writer, y, pp, qq)
  BY <1>1, <1>2, Shorten, Zenon
<1>4. PICK item : item = Head(underWay)
  OBVIOUS
<1>5. Gives(FromWire, item, y)
  BY <1>1, <1>3, <1>4, ItemRead, Zenon
<1> QED BY <1>3, <1>4, <1>5, Zenon

(* Something is read, and the reader remembers it. *)
LEMMA ReadKeeps ==
  ASSUME TimesFit, WireInv, NEW kind, IsRead(kind),
         \A item : item = FromWire.value /\ item.kind = kind => reader' = Remembered(item, reader)
  PROVE  WireInv'
<1>1. /\ underWay # <<>> /\ FromWire.value.kind = kind
      /\ wire' = FromWire.rest /\ underWay' = Tail(underWay)
      /\ protocol' = protocol /\ writer' = writer
  BY Zenon DEF IsRead
<1>2. PICK item, y :
        /\ item \in Items /\ item = Head(underWay) /\ y \in Seq(Unit) /\ Gives(FromWire, item, y)
        /\ \E pp, qq : WireLeads(Tail(underWay), Remembered(item, reader), writer, y, pp, qq)
  BY <1>1, FirstThing, Zenon
<1>3. FromWire.value = item /\ FromWire.rest = y
  BY <1>2, Zenon DEF Gives
<1>4. reader' = Remembered(item, reader)
  BY <1>1, <1>3, Zenon
<1>5. PICK pp, qq : WireLeads(Tail(underWay), Remembered(item, reader), writer, y, pp, qq)
  BY <1>2, Zenon
<1>6. WireLeads(underWay, reader, writer, wire, pp, qq)'
  BY <1>1, <1>3, <1>4, <1>5, WireLeadsKept, Zenon
<1>7. Tail(underWay) \in Seq(Items)
  <2>1. underWay \in Seq(Items)
    BY Zenon DEF WireInv
  <2> QED BY <1>1, <2>1
<1>8. protocol \in Protocols
  BY Zenon DEF WireInv
<1> QED BY <1>1, <1>6, <1>7, <1>8, Zenon DEF WireInv

(* Every step of either end keeps it. *)
LEMMA WireInvKept == ASSUME TimesFit, WireInv, [EntriesNext]_entriesVars PROVE WireInv'
<1>1. CASE SendEntry
  <2>1. PICK e \in EntriesToSend : /\ Written(e, EntryOnWire(e, writer))
                                   /\ writer' = RememberEntry(writer, e)
    BY <1>1, Zenon DEF SendEntry
  <2>2. e \in Items
    BY Zenon DEF Items
  <2>3. e.kind = "entry"
    BY EntryIs
  <2>4. Encoded(e, writer) = EntryOnWire(e, writer) /\ Remembered(e, writer) = RememberEntry(writer, e)
    BY <2>3, Zenon DEF Encoded, Remembered
  <2> QED BY <2>1, <2>2, <2>4, WrittenKeeps, Zenon
<1>2. CASE EndList
  <2>1. Written(End, <<{}>>) /\ writer' = writer
    BY <1>2, Zenon DEF EndList
  <2>2. End \in Items
    BY Zenon DEF Items
  <2>3. End.kind = "end" /\ End.kind # "entry"
    BY DEF End
  <2>4. Encoded(End, writer) = <<{}>> /\ Remembered(End, writer) = writer
    BY <2>3, Zenon DEF Encoded, Remembered
  <2> QED BY <2>1, <2>2, <2>4, WrittenKeeps, Zenon
<1>3. CASE WriteIndexAction
  <2>1. PICK number \in Indices :
          /\ Written([kind |-> "index", index |-> number],
                     IF protocol < 30 THEN <<number>> ELSE WriteIndex(number, writer))
          /\ writer' = IF protocol < 30 THEN writer ELSE After(writer, number)
    BY <1>3, Zenon DEF WriteIndexAction
  <2>2. PICK item : item = [kind |-> "index", index |-> number]
    OBVIOUS
  <2>3. item \in [kind : {"index"}, index : Indices] /\ item.kind = "index" /\ item.index = number
    BY <2>2
  <2>4. item \in Items
    BY <2>3, Zenon DEF Items
  <2>5. item.kind # "entry" /\ item.kind # "end"
    BY <2>3
  <2>6. /\ Encoded(item, writer) = IF protocol < 30 THEN <<number>> ELSE WriteIndex(number, writer)
        /\ Remembered(item, writer) = IF protocol < 30 THEN writer ELSE After(writer, number)
    BY <2>3, <2>5, Zenon DEF Encoded, Remembered
  <2> QED BY <2>1, <2>2, <2>4, <2>6, WrittenKeeps, Zenon
<1>4. CASE ReceiveEntry
  <2>1. IsRead("entry")
    BY <1>4, Zenon DEF ReceiveEntry
  <2>2. PICK e : e = FromWire.value
    OBVIOUS
  <2>3. reader' = RememberEntry(reader, e)
    BY <1>4, <2>2, Zenon DEF ReceiveEntry, RememberEntry
  <2>4. e.kind = "entry" => Remembered(e, reader) = RememberEntry(reader, e)
    BY Zenon DEF Remembered
  <2> QED BY <2>1, <2>2, <2>3, <2>4, ReadKeeps, Zenon
<1>5. CASE ReceiveEnd
  <2>1. IsRead("end") /\ reader' = reader
    BY <1>5, Zenon DEF ReceiveEnd
  <2>2. "end" # "entry"
    OBVIOUS
  <2>3. \A item : item.kind = "end" => Remembered(item, reader) = reader
    BY <2>2, Zenon DEF Remembered
  <2> QED BY <2>1, <2>3, ReadKeeps, Zenon
<1>6. CASE ReadIndexAction
  <2>1. IsRead("index")
    BY <1>6, Zenon DEF ReadIndexAction
  <2>2. PICK item : item = FromWire.value
    OBVIOUS
  <2>3. reader' = IF protocol < 30 THEN reader ELSE After(reader, item.index)
    BY <1>6, <2>2, Zenon DEF ReadIndexAction
  <2>4. "index" # "entry" /\ "index" # "end"
    OBVIOUS
  <2>5. item.kind = "index" =>
          Remembered(item, reader) = IF protocol < 30 THEN reader ELSE After(reader, item.index)
    BY <2>4, Zenon DEF Remembered
  <2> QED BY <2>1, <2>2, <2>3, <2>5, ReadKeeps, Zenon
<1>7. CASE UNCHANGED entriesVars
  <2>1. /\ protocol' = protocol /\ underWay' = underWay /\ reader' = reader /\ writer' = writer
        /\ wire' = wire
    BY <1>7, Zenon DEF entriesVars
  <2>2. PICK p, q : WireLeads(underWay, reader, writer, wire, p, q)
    BY Zenon DEF WireInv
  <2>3. WireLeads(underWay, reader, writer, wire, p, q)'
    BY <2>1, <2>2, WireLeadsKept, Zenon
  <2> QED BY <2>1, <2>3, Zenon DEF WireInv
<1> QED BY <1>1, <1>2, <1>3, <1>4, <1>5, <1>6, <1>7, Zenon DEF EntriesNext

(* In every state what is on the wire leads from the reader to the writer. *)
LEMMA WireInvHolds == ASSUME TimesFit PROVE EntriesSpec => []WireInv
<1>1. EntriesInit => WireInv
  BY WireInvInit
<1>2. WireInv /\ [EntriesNext]_entriesVars => WireInv'
  BY WireInvKept
<1> QED BY <1>1, <1>2, PTL DEF EntriesSpec

(* What is read next is what was written first and not read, for all paths,
   sizes, modes, links and indices and for all times the protocol can carry. *)
THEOREM EntriesAreReadAsWritten == ASSUME TimesFit PROVE EntriesSpec => []ReadIsWritten
<1>1. WireInv => ReadIsWritten
  <2> SUFFICES ASSUME WireInv, underWay # <<>> PROVE FromWire.value = Head(underWay)
    BY Zenon DEF ReadIsWritten
  <2>1. PICK item, y : item = Head(underWay) /\ Gives(FromWire, item, y)
    BY FirstThing, Zenon
  <2> QED BY <2>1, Zenon DEF Gives
<1> QED BY <1>1, WireInvHolds, PTL

(* Once everything is read both ends remember the same. *)
THEOREM BothEndsRemember == ASSUME TimesFit PROVE EntriesSpec => []EndsInStep
<1>1. WireInv => EndsInStep
  <2> SUFFICES ASSUME WireInv, underWay = <<>> PROVE wire = <<>> /\ reader = writer
    BY Zenon DEF EndsInStep
  <2>1. \A us : us = <<>> => Len(us) = 0
    OBVIOUS
  <2>2. Len(underWay) = 0
    BY <2>1, Zenon
  <2>3. PICK p, q : WireLeads(underWay, reader, writer, wire, p, q)
    BY Zenon DEF WireInv
  <2> QED BY <2>2, <2>3, Zenon DEF WireLeads
<1> QED BY <1>1, WireInvHolds, PTL
=============================================================================
