------------------------------ MODULE UnionFind ------------------------------
(***************************************************************************)
(* The validated union-find of src/omnicron-coproduct-partition.c,          *)
(* section 3: omi_uf_init, omi_find and omi_union_validated.                *)
(*                                                                         *)
(* The two while loops of omi_find are steps of their own (Chase and        *)
(* Compress), so that what holds between two writes to parent[] can be      *)
(* stated and so that "the call returns" is a real question.  The structure *)
(* is sequential: one call is in progress at a time, at control point pc.   *)
(***************************************************************************)
EXTENDS Integers, FiniteSets

CONSTANT Size           \* uf->size, OMI_MAX_CONTRIBUTIONS in the program

ASSUME SizeAssumption == Size \in Nat \ {0}

Elem == 0 .. Size - 1

VARIABLES
  parent,     \* uf->parent
  rank,       \* uf->rank
  pc,         \* control point of the call in progress
  op,         \* which omi_find runs: a caller's, or the left/right one of a union
  left,       \* argument of the call (of a find: its only argument)
  right,      \* second argument of omi_union_validated
  element,    \* omi_find: element
  root,       \* omi_find: root; in omi_union_validated finally root_r
  rootL,      \* omi_union_validated: root_l
  class       \* history: class[i] names the class the accepted unions put i in

ufstate == <<parent, rank, class>>
ufvars == <<parent, rank, class, pc, op, left, right, element, root, rootL>>

UFTypeOK ==
  /\ parent \in [Elem -> Elem]
  /\ rank \in [Elem -> Nat]
  /\ class \in [Elem -> Elem]
  /\ pc \in {"idle", "chase", "compress", "link"}
  /\ op \in {"find", "left", "right"}
  /\ left \in Elem /\ right \in Elem
  /\ element \in Elem /\ root \in Elem /\ rootL \in Elem

UFInit ==
  /\ parent = [i \in Elem |-> i]
  /\ rank = [i \in Elem |-> 0]
  /\ class = [i \in Elem |-> i]
  /\ pc = "idle" /\ op = "find"
  /\ left = 0 /\ right = 0 /\ element = 0 /\ root = 0 /\ rootL = 0

-----------------------------------------------------------------------------
(* omi_find *)

StartFind(e) ==
  /\ pc' = "chase"
  /\ element' = e
  /\ root' = e

\* The call is over: its arguments and locals are gone.
Return ==
  /\ pc' = "idle" /\ op' = "find"
  /\ left' = 0 /\ right' = 0 /\ element' = 0 /\ root' = 0 /\ rootL' = 0

\* A caller asks for the root of e.
BeginFind(e) ==
  /\ pc = "idle"
  /\ op' = "find" /\ left' = e
  /\ StartFind(e)
  /\ UNCHANGED <<parent, rank, class, right, rootL>>

\* Mutant: "if" where the first loop has "while".
ChaseOnce ==
  /\ pc = "chase"
  /\ pc' = "compress" /\ root' = parent[root]
  /\ UNCHANGED <<parent, rank, class, op, left, right, element, rootL>>

\* while (uf->parent[root] != root) root = uf->parent[root];
Chase ==
  /\ pc = "chase"
  /\ IF parent[root] # root
     THEN root' = parent[root] /\ pc' = pc
     ELSE pc' = "compress" /\ root' = root
  /\ UNCHANGED <<parent, rank, class, op, left, right, element, rootL>>

\* Mutant: the second loop writes the other root of the union.
CompressIntoLeft ==
  /\ pc = "compress"
  /\ parent[element] # root
  /\ parent' = [parent EXCEPT ![element] = rootL]
  /\ element' = parent[element]
  /\ UNCHANGED <<rank, class, pc, op, left, right, root, rootL>>

\* The body of the second while loop.
Compress ==
  /\ pc = "compress"
  /\ parent[element] # root
  /\ parent' = [parent EXCEPT ![element] = root]
  /\ element' = parent[element]
  /\ UNCHANGED <<rank, class, pc, op, left, right, root, rootL>>

\* Mutant: the union takes its left argument for its root.
FindReturnLeft ==
  /\ pc = "compress"
  /\ parent[element] = root
  /\ \/ op = "find" /\ Return
     \/ /\ op = "left"
        /\ rootL' = left
        /\ op' = "right"
        /\ StartFind(right)
        /\ UNCHANGED <<left, right>>
     \/ /\ op = "right"
        /\ pc' = "link"
        /\ UNCHANGED <<op, left, right, element, root, rootL>>
  /\ UNCHANGED ufstate

\* return root: to the caller, or to omi_union_validated, which goes on.
FindReturn ==
  /\ pc = "compress"
  /\ parent[element] = root
  /\ \/ op = "find" /\ Return
     \/ /\ op = "left"
        /\ rootL' = root
        /\ op' = "right"
        /\ StartFind(right)
        /\ UNCHANGED <<left, right>>
     \/ /\ op = "right"
        /\ pc' = "link"
        /\ UNCHANGED <<op, left, right, element, root, rootL>>
  /\ UNCHANGED ufstate

-----------------------------------------------------------------------------
(* omi_union_validated *)

\* A valid witness and two indices in range: the union goes on to find the
\* root of its left argument.
BeginUnion(l, r) ==
  /\ pc = "idle"
  /\ l \in Elem /\ r \in Elem
  /\ op' = "left" /\ left' = l /\ right' = r
  /\ StartFind(l)
  /\ UNCHANGED <<parent, rank, class, rootL>>

MergedClass ==
  [i \in Elem |-> IF class[i] = class[rootL] THEN class[root] ELSE class[i]]

\* The writes of a union of two roots under the comparison of their ranks, as
\* the three mutants below get it wrong.
LinkWith(linked(_, _), bumped(_, _)) ==
  /\ pc = "link"
  /\ Return
  /\ IF rootL = root THEN UNCHANGED ufstate
     ELSE /\ parent' = linked(rank[rootL], rank[root])
          /\ rank' = bumped(rank[rootL], rank[root])
          /\ class' = MergedClass

UnderRight == [parent EXCEPT ![rootL] = root]

UnderLeft == [parent EXCEPT ![root] = rootL]

BumpLeft(rl, rr) == IF rl = rr THEN [rank EXCEPT ![rootL] = @ + 1] ELSE rank

\* Mutant: the comparison is the wrong way round.
LinkSwapped ==
  LET linked(rl, rr) == IF rl > rr THEN UnderRight ELSE UnderLeft
  IN  LinkWith(linked, BumpLeft)

\* Mutant: an "else" is missing, so that both pointers are written.
LinkFallsThrough ==
  LET linked(rl, rr) ==
        IF rl < rr THEN [UnderRight EXCEPT ![root] = rootL] ELSE UnderLeft
  IN  LinkWith(linked, BumpLeft)

\* Mutant: the rank grows with every link.
LinkAlwaysBumps ==
  LET linked(rl, rr) == IF rl < rr THEN UnderRight ELSE UnderLeft
      bumped(rl, rr) == [rank EXCEPT ![IF rl < rr THEN root ELSE rootL] = @ + 1]
  IN  LinkWith(linked, bumped)

\* The comparison of the two roots and the union by rank.
Link ==
  /\ pc = "link"
  /\ Return
  /\ \/ /\ rootL = root
        /\ UNCHANGED ufstate
     \/ /\ rootL # root /\ rank[rootL] < rank[root]
        /\ parent' = [parent EXCEPT ![rootL] = root]
        /\ class' = MergedClass
        /\ UNCHANGED rank
     \/ /\ rootL # root /\ rank[rootL] > rank[root]
        /\ parent' = [parent EXCEPT ![root] = rootL]
        /\ class' = MergedClass
        /\ UNCHANGED rank
     \/ /\ rootL # root /\ rank[rootL] = rank[root]
        /\ parent' = [parent EXCEPT ![root] = rootL]
        /\ rank' = [rank EXCEPT ![rootL] = @ + 1]
        /\ class' = MergedClass

-----------------------------------------------------------------------------

UFStep == Chase \/ Compress \/ FindReturn \/ Link

UFCall == \/ \E e \in Elem : BeginFind(e)
          \/ \E l, r \in Elem : BeginUnion(l, r)

UFNext == UFCall \/ UFStep

\* A call once made runs to its end: the code is straight-line sequential code
\* with no lock to wait for.  Nobody is obliged to make a call.
UFSpec == UFInit /\ [][UFNext]_ufvars /\ WF_ufvars(UFStep)

-----------------------------------------------------------------------------
(* Properties *)

\* Ranks strictly increase along parent pointers, between any two writes of a
\* path compression too: the parent graph has no cycle, which is what both loops
\* of omi_find rely on to stop.
RankIncreases == \A i \in Elem : parent[i] # i => rank[i] < rank[parent[i]]

\* A parent pointer never leaves the class its element was united into.
ParentInClass == \A i \in Elem : class[parent[i]] = class[i]

\* In each class the root outranks everybody else; in particular a class has
\* exactly one root, however unions and compressions interleaved.
RootDominates ==
  \A i, r \in Elem :
    parent[r] = r /\ class[i] = class[r] /\ i # r => rank[i] < rank[r]

\* When a find's first loop has ended, its root is a root of the class of the
\* element asked for, while the second loop rewrites the path; and a union still
\* holds a true root of its left argument after the right find has compressed.
FindCorrect ==
  /\ pc \in {"compress", "link"} => parent[root] = root
  /\ pc \in {"chase", "compress"} =>
       class[root] = class[element]
       /\ class[element] = class[IF op = "right" THEN right ELSE left]
  /\ op = "right" /\ pc # "idle" =>
       parent[rootL] = rootL /\ class[rootL] = class[left]
  /\ pc = "link" => op = "right" /\ class[root] = class[right]

\* The union decides "already unified" exactly when the two arguments are in
\* one class: it never links a class to itself and never skips a fusion.
UnionDecides ==
  pc = "link" => ((rootL = root) <=> (class[left] = class[right]))

\* A root of rank k stands for at least 2^k elements: a rank is at most the
\* binary logarithm of Size, so neither the uint32_t rank nor a path gets long.
RankLogarithmic ==
  \A r \in Elem :
    parent[r] = r => 2 ^ rank[r] <= Cardinality({i \in Elem : class[i] = class[r]})

\* The roots a walk along parent[] from i meets, one if the pointers are a forest:
\* r is met unless some set that holds i and not r is closed under parent[].
RootsAbove(i) ==
  {r \in Elem : parent[r] = r /\
     \A S \in SUBSET (Elem \ {r}) : i \in S => \E j \in S : parent[j] \notin S}

\* Only the link of a union changes whose root is whose: path compression,
\* interrupted after any of its writes, answers every find as before.
CompressionPreservesRoots ==
  [][pc # "link" => \A i \in Elem : RootsAbove(i)' = RootsAbove(i)]_ufvars

\* A call returns: no path of parent pointers keeps omi_find going for ever.
CallReturns == pc # "idle" ~> pc = "idle"

\* The largest rank Size elements can give a root: the binary logarithm of Size.
Height == CHOOSE h \in 0 .. Size : /\ 2 ^ h <= Size
                                   /\ \A k \in 0 .. Size : 2 ^ k <= Size => k <= h

\* How many steps the call in progress can still take, by the ranks its walks have
\* reached: a walk of omi_find climbs them, the second one after the first, and a
\* union has its right find and its link to come.
WorkLeft ==
  LET walk == IF pc = "chase" THEN 2 * Height - rank[root] + 2
              ELSE Height - rank[element] + 1
      union == [find |-> 0, left |-> 2 * Height + 3, right |-> 1]
  IN  IF pc = "idle" THEN 0 ELSE IF pc = "link" THEN 1 ELSE walk + union[op]

\* Every step of a call shortens it: a find is over within 2 * Height + 2 steps and a
\* union within 4 * Height + 5, however the calls before it linked and compressed.
CallShortens == [][pc # "idle" => WorkLeft' \in 0 .. WorkLeft - 1]_ufvars

\* The classes a find can tell apart, read off the parent pointers alone.
Classes ==
  LET above == [i \in Elem |-> RootsAbove(i)]
  IN  {{j \in Elem : above[j] = above[i]} : i \in Elem}

Eq == INSTANCE Equivalence WITH partition <- Classes

\* The structure implements the partition it stands for: each union is one
\* fusion, everything else (compression included) is a stutter.
RefinesEquivalence == Eq!EqSpec
=============================================================================
