--------------------------- MODULE UnionFind_proofs ---------------------------
(***************************************************************************)
(* Safety of the union-find structure, for every Size.  The inductive       *)
(* invariant UFInv joins the shape of the forest (ranks increase along      *)
(* parent pointers, a root outranks its class) with what the call in        *)
(* progress knows; neither is inductive alone: a compression keeps ranks    *)
(* increasing only because its root dominates the class of the element it   *)
(* rewrites, and that root is known to be one by FindCorrect.               *)
(***************************************************************************)
EXTENDS UnionFind, FiniteSetTheorems, FunctionTheorems, WellFoundedInduction, TLAPS

UFInv ==
  /\ UFTypeOK
  /\ RankIncreases
  /\ ParentInClass
  /\ RootDominates
  /\ FindCorrect

\* There is a slot 0: the value the locals are given once their call is over.
LEMMA ZeroElem == 0 \in Elem
  BY SizeAssumption DEF Elem

\* A freshly initialised structure (omi_uf_init) satisfies the invariant: each
\* slot is the root of a class of its own.
LEMMA UFInitInv == UFInit => UFInv
  BY SizeAssumption
  DEF UFInit, UFInv, UFTypeOK, RankIncreases, ParentInClass, RootDominates,
      FindCorrect, Elem

\* One root per class: what makes the root a name for the class.
LEMMA OneRoot ==
  ASSUME UFTypeOK, RootDominates,
         NEW r \in Elem, NEW s \in Elem,
         parent[r] = r, parent[s] = s, class[r] = class[s]
  PROVE  r = s
<1>1. r # s => rank[r] < rank[s] /\ rank[s] < rank[r]
  BY DEF RootDominates
<1>2. rank[r] \in Int /\ rank[s] \in Int
  BY DEF UFTypeOK
<1>. QED
  BY <1>1, <1>2

\* Starting a find (omi_find's first line) keeps the invariant.
LEMMA BeginFindInv == ASSUME UFInv, NEW e \in Elem, BeginFind(e) PROVE UFInv'
  BY DEF UFInv, UFTypeOK, RankIncreases, ParentInClass, RootDominates,
         FindCorrect, BeginFind, StartFind

\* Entering omi_union_validated with two indices in range keeps the invariant.
LEMMA BeginUnionInv ==
  ASSUME UFInv, NEW l \in Elem, NEW r \in Elem, BeginUnion(l, r) PROVE UFInv'
  BY DEF UFInv, UFTypeOK, RankIncreases, ParentInClass, RootDominates,
         FindCorrect, BeginUnion, StartFind

\* A turn of omi_find's first loop keeps the invariant.
LEMMA ChaseInv == ASSUME UFInv, Chase PROVE UFInv'
  BY DEF UFInv, UFTypeOK, RankIncreases, ParentInClass, RootDominates,
         FindCorrect, Chase

\* A turn of omi_find's second loop, the path compression, keeps the invariant.
LEMMA CompressInv == ASSUME UFInv, Compress PROVE UFInv'
<1>. USE DEF UFInv
<1>1. element # root /\ parent[root] = root /\ class[root] = class[element]
  BY DEF Compress, FindCorrect
<1>2. rank[element] < rank[root]
  BY <1>1 DEF RootDominates, UFTypeOK
<1>3. parent[element] # element
  BY <1>1, OneRoot DEF UFTypeOK
<1>4. UFTypeOK'
  BY DEF Compress, UFTypeOK
<1>5. RankIncreases'
  BY <1>2 DEF Compress, UFTypeOK, RankIncreases
<1>6. ParentInClass'
  BY <1>1 DEF Compress, UFTypeOK, ParentInClass
<1>7. RootDominates'
  BY <1>1 DEF Compress, UFTypeOK, RootDominates
<1>8. FindCorrect'
  BY <1>1, <1>3 DEF Compress, UFTypeOK, FindCorrect, ParentInClass
<1>. QED
  BY <1>4, <1>5, <1>6, <1>7, <1>8

\* Returning from omi_find, to the caller or into the union, keeps the invariant.
LEMMA FindReturnInv == ASSUME UFInv, FindReturn PROVE UFInv'
  BY ZeroElem DEF UFInv, UFTypeOK, RankIncreases, ParentInClass, RootDominates,
         FindCorrect, FindReturn, StartFind, Return, ufstate

\* The union by rank keeps the invariant.
LEMMA LinkInv == ASSUME UFInv, Link PROVE UFInv'
<1>. USE DEF UFInv
<1>1. /\ parent[rootL] = rootL /\ parent[root] = root
      /\ rank[rootL] \in Nat /\ rank[root] \in Nat
  BY DEF Link, FindCorrect, UFTypeOK
<1>2. CASE rootL = root
  BY ZeroElem, <1>1, <1>2
  DEF Link, Return, ufstate, UFTypeOK, RankIncreases, ParentInClass,
      RootDominates, FindCorrect
<1>3. CASE rootL # root
  <2>. DEFINE low == IF rank[rootL] < rank[root] THEN rootL ELSE root
              top == IF rank[rootL] < rank[root] THEN root ELSE rootL
  <2>1. /\ low \in Elem /\ top \in Elem /\ low # top
        /\ parent[low] = low /\ parent[top] = top
        /\ rank[low] <= rank[top]
    BY <1>1, <1>3 DEF UFTypeOK
  <2>2. class[low] # class[top]
    BY <2>1, OneRoot
  <2>3. /\ parent' = [parent EXCEPT ![low] = top]
        /\ rank' \in [Elem -> Nat]
        /\ \A i \in Elem \ {top} : rank'[i] = rank[i]
        /\ rank'[top] >= rank[top] /\ rank'[top] > rank[low]
    <3>1. CASE rank[rootL] < rank[root]
      BY <1>1, <1>3, <3>1 DEF Link, UFTypeOK
    <3>2. CASE rank[rootL] > rank[root]
      BY <1>1, <1>3, <3>2 DEF Link, UFTypeOK
    <3>3. CASE rank[rootL] = rank[root]
      BY <1>1, <1>3, <3>3 DEF Link, UFTypeOK
    <3>. QED
      BY <1>1, <3>1, <3>2, <3>3
  <2>4. class' = MergedClass /\ class' \in [Elem -> Elem]
    BY <1>3 DEF Link, MergedClass, UFTypeOK
  <2>5. \A i, j \in Elem :
          class'[i] = class'[j] <=> \/ class[i] = class[j]
                                    \/ {class[i], class[j]} = {class[low], class[top]}
    BY <2>2, <2>4 DEF MergedClass, UFTypeOK
  <2>. HIDE DEF low, top
  <2>6. UFTypeOK'
    BY ZeroElem, <2>1, <2>3, <2>4 DEF Link, Return, UFTypeOK
  <2>7. RankIncreases'
    BY <2>1, <2>3 DEF RankIncreases, UFTypeOK
  <2>8. ParentInClass'
    BY <2>1, <2>3, <2>5 DEF ParentInClass, UFTypeOK
  <2>9. RootDominates'
    <3>. SUFFICES ASSUME NEW i \in Elem, NEW r \in Elem,
                         parent'[r] = r, class'[i] = class'[r], i # r
                  PROVE  rank'[i] < rank'[r]
      BY DEF RootDominates
    <3>1. r # low /\ parent[r] = r
      BY <2>1, <2>3 DEF UFTypeOK
    <3>2. CASE class[i] = class[r]
      <4>1. rank[i] < rank[r]
        BY <3>1, <3>2 DEF RootDominates
      <4>2. i # top
        BY <2>1, <3>1, <3>2, OneRoot
      <4>. QED
        BY <2>1, <2>3, <4>1, <4>2 DEF UFTypeOK
    <3>3. CASE class[i] # class[r]
      <4>1. \/ class[i] = class[low] /\ class[r] = class[top]
            \/ class[i] = class[top] /\ class[r] = class[low]
        BY <2>5, <3>3
      <4>2. class[i] = class[low] /\ r = top
        BY <2>1, <3>1, <4>1, OneRoot
      <4>3. i = low \/ rank[i] < rank[low]
        BY <2>1, <4>2 DEF RootDominates
      <4>4. i # top
        BY <2>2, <4>2
      <4>. QED
        BY <2>1, <2>3, <4>2, <4>3, <4>4 DEF UFTypeOK
    <3>. QED
      BY <3>2, <3>3
  <2>10. FindCorrect'
    BY DEF Link, Return, FindCorrect
  <2>. QED
    BY <2>6, <2>7, <2>8, <2>9, <2>10
<1>. QED
  BY <1>2, <1>3

\* Every step of every call keeps the invariant.
LEMMA UFStepInv == UFInv /\ [UFNext]_ufvars => UFInv'
<1>. SUFFICES ASSUME UFInv, [UFNext]_ufvars PROVE UFInv'
  OBVIOUS
<1>1. CASE UFCall
  BY <1>1, BeginFindInv, BeginUnionInv DEF UFCall
<1>2. CASE UFStep
  BY <1>2, ChaseInv, CompressInv, FindReturnInv, LinkInv DEF UFStep
<1>3. CASE UNCHANGED ufvars
  BY <1>3 DEF ufvars, UFInv, UFTypeOK, RankIncreases, ParentInClass,
              RootDominates, FindCorrect
<1>. QED
  BY <1>1, <1>2, <1>3 DEF UFNext

\* The inductive invariant holds of every behaviour, for every Size.
THEOREM UFInvariance == UFSpec => []UFInv
<1>1. UFInit => UFInv
  BY UFInitInv
<1>2. UFInv /\ [UFNext]_ufvars => UFInv'
  BY UFStepInv
<1>. QED
  BY <1>1, <1>2, PTL DEF UFSpec

\* The structure under whoever calls it: without the promise that a call goes on.
UFRun == UFInit /\ [][UFNext]_ufvars

\* omi_find's loops always have a strictly higher rank to climb to: parent[]
\* holds no cycle, not even half way through a compression.
THEOREM UFRankIncreases == UFSpec => []RankIncreases
<1>1. UFInv => RankIncreases
  BY DEF UFInv
<1>. QED
  BY <1>1, UFInvariance, PTL

\* Every class has exactly one root, which outranks the rest of the class.
THEOREM UFRootDominates == UFSpec => []RootDominates
<1>1. UFInv => RootDominates
  BY DEF UFInv
<1>. QED
  BY <1>1, UFInvariance, PTL

\* What omi_find returns is the root of the class of what it was asked for, and
\* the left root held by omi_union_validated survives the right find.
THEOREM UFFindCorrect == UFSpec => []FindCorrect
<1>1. UFInv => FindCorrect
  BY DEF UFInv
<1>. QED
  BY <1>1, UFInvariance, PTL

\* omi_union_validated takes its no-op branch exactly when its two arguments
\* are already in one class.
THEOREM UFUnionDecides == UFSpec => []UnionDecides
<1>1. UFInv => UnionDecides
  <2>. SUFFICES ASSUME UFInv, pc = "link"
                PROVE  (rootL = root) <=> (class[left] = class[right])
    BY DEF UnionDecides
  <2>1. /\ parent[root] = root /\ class[root] = class[right]
        /\ parent[rootL] = rootL /\ class[rootL] = class[left]
    BY DEF UFInv, FindCorrect
  <2>. QED
    BY <2>1, OneRoot DEF UFInv, UFTypeOK
<1>. QED
  BY <1>1, UFInvariance, PTL

-----------------------------------------------------------------------------
(***************************************************************************)
(* Whose root is whose.  A walk along parent[] ends: every set closed under *)
(* parent[] that holds i holds a root of i's class.  RootReached says so    *)
(* without counting the steps of the walk, and no compression disturbs it.  *)
(***************************************************************************)
RootReached == \A i \in Elem : RootsAbove(i) # {}

\* What a walk reaches stays in the class it started in: a root above i is a
\* root of i's class.
LEMMA RootAboveInClass ==
  ASSUME UFTypeOK, ParentInClass, NEW i \in Elem, NEW r \in RootsAbove(i)
  PROVE  r \in Elem /\ parent[r] = r /\ class[r] = class[i]
<1>1. r \in Elem /\ parent[r] = r
  BY DEF RootsAbove
<1>2. CASE class[r] # class[i]
  <2>. DEFINE S == {j \in Elem : class[j] = class[i]}
  <2>1. S \in SUBSET (Elem \ {r}) /\ i \in S
    BY <1>2
  <2>2. \A j \in S : parent[j] \in S
    BY DEF UFTypeOK, ParentInClass
  <2>. QED
    BY <2>1, <2>2 DEF RootsAbove
<1>. QED
  BY <1>1, <1>2

\* There is one root above i, and it is the root of i's class.
RootKnown ==
  \A i \in Elem : /\ \E r \in Elem : RootsAbove(i) = {r}
                  /\ \A r \in Elem :
                       RootsAbove(i) = {r} <=> parent[r] = r /\ class[r] = class[i]

\* The forest and the history variable name the same classes.
LEMMA RootsAboveSingle == UFInv /\ RootReached => RootKnown
<1>. SUFFICES ASSUME UFInv, RootReached, NEW i \in Elem
              PROVE  \E t \in Elem : /\ RootsAbove(i) = {t}
                                    /\ parent[t] = t /\ class[t] = class[i]
                                    /\ \A r \in Elem :
                                         parent[r] = r /\ class[r] = class[i] => r = t
  BY DEF RootKnown
<1>1. PICK t \in RootsAbove(i) : TRUE
  BY DEF RootReached
<1>2. \A s \in RootsAbove(i) : s \in Elem /\ parent[s] = s /\ class[s] = class[i]
  BY RootAboveInClass DEF UFInv
<1>3. \A r \in Elem : parent[r] = r /\ class[r] = class[i] => r = t
  BY <1>1, <1>2, OneRoot DEF UFInv
<1>. QED
  BY <1>1, <1>2, <1>3

\* Two elements have the same root exactly when they are in one class.
LEMMA SameRoot ==
  ASSUME RootKnown, NEW i \in Elem, NEW j \in Elem
  PROVE  RootsAbove(i) = RootsAbove(j) <=> class[i] = class[j]
<1>1. PICK r \in Elem : RootsAbove(i) = {r}
  BY DEF RootKnown
<1>2. parent[r] = r /\ class[r] = class[i]
  BY <1>1 DEF RootKnown
<1>3. RootsAbove(j) = {r} <=> class[r] = class[j]
  BY <1>2 DEF RootKnown
<1>. QED
  BY <1>1, <1>2, <1>3

\* So the classes read off the parent pointers are those of the history variable.
Block(i) == {j \in Elem : class[j] = class[i]}

ClassesKnown == Classes = {Block(i) : i \in Elem}

LEMMA ClassesAreBlocks == RootKnown => ClassesKnown
<1>. SUFFICES ASSUME RootKnown PROVE ClassesKnown
  OBVIOUS
<1>. DEFINE above == [i \in Elem |-> RootsAbove(i)]
<1>1. \A i \in Elem : {j \in Elem : above[j] = above[i]} = Block(i)
  <2>1. \A i, j \in Elem : above[j] = above[i] <=> class[j] = class[i]
    BY SameRoot
  <2>. QED
    BY <2>1 DEF Block
<1>2. Classes = {{j \in Elem : above[j] = above[i]} : i \in Elem}
  BY DEF Classes
<1>. HIDE DEF above
<1>. QED
  BY <1>1, <1>2 DEF ClassesKnown

\* Rewriting one pointer of a path to the root of its class cuts nobody off.
LEMMA CompressReach ==
  ASSUME UFInv, RootReached, Compress PROVE RootReached'
<1>1. UFInv'
  BY CompressInv
<1>2. /\ element \in Elem /\ root \in Elem /\ element # root
      /\ parent[root] = root /\ class[root] = class[element]
      /\ parent' = [parent EXCEPT ![element] = root]
      /\ parent \in [Elem -> Elem] /\ class' = class
  BY DEF Compress, FindCorrect, UFInv, UFTypeOK
<1>. SUFFICES ASSUME NEW i \in Elem PROVE RootsAbove(i)' # {}
  BY DEF RootReached
<1>3. PICK r \in RootsAbove(i) : TRUE
  BY DEF RootReached
<1>4. r \in Elem /\ parent[r] = r /\ class[r] = class[i]
  BY RootAboveInClass DEF UFInv
<1>5. parent'[r] = r
  BY <1>2, <1>4, OneRoot DEF UFInv
<1>6. ASSUME NEW S \in SUBSET (Elem \ {r}), i \in S, \A j \in S : parent'[j] \in S
      PROVE  FALSE
  <2>. DEFINE T == {j \in S : class[j] = class[i]}
  <2>1. T \in SUBSET (Elem \ {r}) /\ i \in T
    BY <1>6
  <2>2. \A j \in T : parent'[j] \in T
    BY <1>1, <1>2, <1>6 DEF UFInv, ParentInClass
  <2>3. element \in T
    <3>1. PICK j \in T : parent[j] \notin T
      BY <1>3, <2>1 DEF RootsAbove
    <3>. QED
      BY <1>2, <2>1, <2>2, <3>1
  <2>4. root = r
    BY <1>2, <1>4, <2>3, OneRoot DEF UFInv
  <2>5. root \in T
    BY <1>2, <2>2, <2>3
  <2>. QED
    BY <2>1, <2>4, <2>5
<1>7. r \in RootsAbove(i)'
  BY <1>4, <1>5, <1>6 DEF RootsAbove
<1>. QED
  BY <1>7

\* Hanging one root under another gives the walks that ended there one step more.
LEMMA LinkReach == ASSUME UFInv, RootReached, Link PROVE RootReached'
<1>1. /\ parent \in [Elem -> Elem] /\ root \in Elem /\ rootL \in Elem
      /\ parent[root] = root /\ parent[rootL] = rootL
  BY DEF Link, FindCorrect, UFInv, UFTypeOK
<1>2. PICK low \in Elem, top \in Elem :
        /\ parent[low] = low /\ parent[top] = top
        /\ parent' = [parent EXCEPT ![low] = top]
        /\ low # top \/ parent' = parent
  <2>1. CASE rootL = root
    BY <1>1, <2>1 DEF Link, ufstate
  <2>2. CASE rootL # root
    BY <1>1, <2>2 DEF Link
  <2>. QED
    BY <2>1, <2>2
<1>. SUFFICES ASSUME NEW i \in Elem PROVE RootsAbove(i)' # {}
  BY DEF RootReached
<1>3. PICK r \in RootsAbove(i) : TRUE
  BY DEF RootReached
<1>4. r \in Elem /\ parent[r] = r
  BY <1>3 DEF RootsAbove
<1>. DEFINE s == IF r = low THEN top ELSE r
<1>5. s \in Elem /\ parent'[s] = s
  BY <1>1, <1>2, <1>4
<1>6. ASSUME NEW S \in SUBSET (Elem \ {s}), i \in S, \A j \in S : parent'[j] \in S
      PROVE  FALSE
  <2>1. \A j \in S : parent[j] \in S
    BY <1>1, <1>2, <1>6
  <2>2. r \in S
    BY <1>3, <1>6, <2>1 DEF RootsAbove
  <2>3. r = low /\ parent'[r] = top
    BY <1>1, <1>2, <1>6, <2>2
  <2>. QED
    BY <1>6, <2>2, <2>3
<1>7. s \in RootsAbove(i)'
  BY <1>5, <1>6 DEF RootsAbove
<1>. QED
  BY <1>7

\* A freshly initialised forest is all roots.
LEMMA ReachInit == UFInit => RootReached
  BY DEF UFInit, RootReached, RootsAbove, Elem

\* No step leaves a walk without its root.
LEMMA ReachStep == UFInv /\ RootReached /\ [UFNext]_ufvars => RootReached'
<1>. SUFFICES ASSUME UFInv, RootReached, [UFNext]_ufvars PROVE RootReached'
  OBVIOUS
<1>1. CASE parent' = parent
  BY <1>1 DEF RootReached, RootsAbove
<1>2. CASE parent' # parent
  BY <1>2, CompressReach, LinkReach
  DEF UFNext, UFCall, UFStep, BeginFind, BeginUnion, Chase, FindReturn, ufstate, ufvars
<1>. QED
  BY <1>1, <1>2

\* At every moment the roots and the classes of the forest are those that the
\* history variable tells.
LEMMA ForestKnown == UFRun => [](UFInv /\ RootKnown /\ ClassesKnown)
  BY UFInitInv, UFStepInv, ReachInit, ReachStep, RootsAboveSingle, ClassesAreBlocks, PTL
  DEF UFRun

\* Whatever the step, the classes of the history variable are kept or, by the
\* link of two roots, fused.
LEMMA StepOnClass ==
  ASSUME UFInv, [UFNext]_ufvars
  PROVE  \/ class' = class
         \/ Link /\ rootL # root /\ class' = MergedClass
  BY DEF UFNext, UFCall, UFStep, BeginFind, BeginUnion, Chase, Compress, FindReturn,
         Link, ufstate, ufvars

\* A compression takes no element from under its root, a call does not move any.
LEMMA RunPreservesRoots == UFRun => CompressionPreservesRoots
<1>. DEFINE Kept == pc # "link" => \A i \in Elem : RootsAbove(i)' = RootsAbove(i)
<1>1. UFInv /\ RootKnown /\ RootKnown' /\ [UFNext]_ufvars => [Kept]_ufvars
  <2>. SUFFICES ASSUME UFInv, RootKnown, RootKnown', [UFNext]_ufvars,
                       pc # "link", NEW i \in Elem
                PROVE  RootsAbove(i)' = RootsAbove(i)
    OBVIOUS
  <2>1. class' = class
    BY StepOnClass DEF Link
  <2>2. PICK r \in Elem : RootsAbove(i) = {r}
    BY DEF RootKnown
  <2>3. parent[r] = r /\ class[r] = class[i]
    BY <2>2 DEF RootKnown
  <2>4. parent'[r] = r
    <3>1. CASE parent' = parent
      BY <2>3, <3>1
    <3>2. CASE Compress
      <4>1. r # element
        BY <2>3, <3>2, OneRoot DEF Compress, UFInv, FindCorrect, UFTypeOK
      <4>. QED
        BY <2>3, <3>2, <4>1 DEF Compress, UFInv, UFTypeOK
    <3>. QED
      BY <3>1, <3>2
      DEF UFNext, UFCall, UFStep, BeginFind, BeginUnion, Chase, FindReturn, Link,
          ufstate, ufvars
  <2>5. RootsAbove(i)' = {r}
    BY <2>1, <2>3, <2>4 DEF RootKnown
  <2>. QED
    BY <2>2, <2>5
<1>. QED
  BY <1>1, ForestKnown, PTL DEF UFRun, CompressionPreservesRoots

\* Only the link of a union changes whose root is whose: a find that interrupts
\* a compression at any of its writes gets the answer it got before.
THEOREM UFCompressionPreservesRoots == UFSpec => CompressionPreservesRoots
  BY RunPreservesRoots, PTL DEF UFSpec, UFRun

-----------------------------------------------------------------------------
(***************************************************************************)
(* The structure implements the partition of Equivalence: a link of two     *)
(* roots is Fuse of their blocks, every other step (each write of a path    *)
(* compression included) leaves the partition alone.                        *)
(***************************************************************************)
\* Every slot starts as a class of its own.
LEMMA RefinementInit == UFInit /\ ClassesKnown => Eq!EqInit
<1>. SUFFICES ASSUME UFInit, ClassesKnown PROVE Classes = {{i} : i \in Elem}
  BY DEF Eq!EqInit, Eq!Slot, Elem
<1>1. \A i \in Elem : Block(i) = {i}
  BY DEF UFInit, Block
<1>. QED
  BY <1>1 DEF ClassesKnown

\* A link fuses the blocks of its two roots and touches no other block.
LEMMA LinkFuses ==
  ASSUME UFInv, ClassesKnown, ClassesKnown', rootL # root, class' = MergedClass
  PROVE  Eq!Fuse(Block(rootL), Block(root))
<1>1. class \in [Elem -> Elem] /\ rootL \in Elem /\ root \in Elem
  BY DEF UFInv, UFTypeOK
<1>. DEFINE A == Block(rootL)
            B == Block(root)
<1>2. \A i \in Elem : class'[i] = IF i \in A THEN class[root] ELSE class[i]
  BY <1>1 DEF MergedClass, Block
<1>3. \A i \in A \cup B : Block(i)' = A \cup B /\ i \in Elem
  BY <1>1, <1>2 DEF Block
<1>4. \A i \in Elem \ (A \cup B) :
        Block(i)' = Block(i) /\ Block(i) # A /\ Block(i) # B
  BY <1>1, <1>2 DEF Block
<1>5. \A i \in A : Block(i) = A
  BY DEF Block
<1>6. \A i \in B : Block(i) = B
  BY DEF Block
<1>7. Classes' = {Block(i)' : i \in Elem} /\ Classes = {Block(i) : i \in Elem}
  BY DEF ClassesKnown
<1>8. rootL \in A
  BY <1>1 DEF Block
<1>. HIDE DEF A, B
<1>9. Classes' = (Classes \ {A, B}) \cup {A \cup B}
  <2>1. Classes' \subseteq (Classes \ {A, B}) \cup {A \cup B}
    BY <1>3, <1>4, <1>7
  <2>2. (Classes \ {A, B}) \subseteq Classes'
    BY <1>4, <1>5, <1>6, <1>7
  <2>3. A \cup B \in Classes'
    BY <1>3, <1>7, <1>8
  <2>. QED
    BY <2>1, <2>2, <2>3
<1>. QED
  BY <1>9 DEF Eq!Fuse, A, B

\* Every step is a fusion of two classes or none of the partition's business.
LEMMA RefinementStep ==
  ASSUME UFInv, ClassesKnown, ClassesKnown', [UFNext]_ufvars
  PROVE  [Eq!EqNext]_Classes
<1>1. CASE class' = class
  <2>1. \A i \in Elem : Block(i)' = Block(i)
    BY <1>1 DEF Block
  <2>. QED
    BY <2>1 DEF ClassesKnown
<1>2. CASE rootL # root /\ class' = MergedClass
  <2>1. Block(rootL) \in Classes /\ Block(root) \in Classes
    BY DEF UFInv, UFTypeOK, ClassesKnown
  <2>. QED
    BY <1>2, <2>1, LinkFuses DEF Eq!EqNext
<1>. QED
  BY <1>1, <1>2, StepOnClass

\* Whoever calls it, its classes are those of the abstract partition.
LEMMA RunRefinesEquivalence == UFRun => RefinesEquivalence
<1>1. UFInit /\ ClassesKnown => Eq!EqInit
  BY RefinementInit
<1>2. UFInv /\ ClassesKnown /\ ClassesKnown' /\ [UFNext]_ufvars
        => [Eq!EqNext]_Classes
  BY RefinementStep
<1>. QED
  BY <1>1, <1>2, ForestKnown, PTL DEF UFRun, RefinesEquivalence, Eq!EqSpec

\* The union-find structure, with its ranks, its path compression and its two
\* loops cut at every write, implements the abstract partition.
THEOREM UFRefinesEquivalence == UFSpec => RefinesEquivalence
  BY RunRefinesEquivalence, PTL DEF UFSpec, UFRun

-----------------------------------------------------------------------------
(***************************************************************************)
(* Ranks stay logarithmic.  A rank grows only when two classes whose roots  *)
(* have that rank are fused, which doubles what the rank has to pay for.    *)
(***************************************************************************)
\* The doubling of a power of two, read off the subsets of 1..n and of 1..n+1.
LEMMA PowerDoubles ==
  ASSUME NEW n \in Nat
  PROVE  /\ 2 ^ n \in Nat
         /\ 2 ^ (n + 1) = 2 ^ n + 2 ^ n
<1>. DEFINE S == SUBSET (1 .. n)
            x == n + 1
            U == SUBSET (1 .. x)
            T == {s \cup {x} : s \in S}
            add == [s \in S |-> s \cup {x}]
<1>1. /\ IsFiniteSet(1 .. n) /\ Cardinality(1 .. n) = n
      /\ IsFiniteSet(1 .. x) /\ Cardinality(1 .. x) = n + 1
  BY FS_Interval
<1>2. /\ IsFiniteSet(S) /\ Cardinality(S) = 2 ^ n
      /\ Cardinality(U) = 2 ^ (n + 1)
  BY <1>1, FS_SUBSET
<1>3. 1 .. x = (1 .. n) \cup {x} /\ x \notin 1 .. n
  OBVIOUS
<1>4. U = S \cup T /\ S \cap T = {}
  <2>1. ASSUME NEW s \in SUBSET (1 .. x) PROVE s \in S \cup T
    <3>1. s \ {x} \in S
      BY <1>3
    <3>2. CASE x \in s
      <4>1. s = (s \ {x}) \cup {x}
        BY <3>2
      <4>. QED
        BY <3>1, <4>1
    <3>3. CASE x \notin s
      BY <1>3, <3>3
    <3>. QED
      BY <3>2, <3>3
  <2>2. S \subseteq SUBSET (1 .. x) /\ T \subseteq SUBSET (1 .. x)
    BY <1>3
  <2>3. \A s \in T : x \in s
    OBVIOUS
  <2>4. \A s \in S : x \notin s
    BY <1>3
  <2>. QED
    BY <2>1, <2>2, <2>3, <2>4
<1>5. IsFiniteSet(T) /\ Cardinality(T) = Cardinality(S)
  <2>1. add \in [S -> T] /\ \A t \in T : \E s \in S : add[s] = t
    OBVIOUS
  <2>2. ASSUME NEW s \in S, NEW t \in S, add[s] = add[t] PROVE s = t
    <3>1. x \notin s /\ x \notin t /\ s \cup {x} = t \cup {x}
      BY <1>3, <2>2
    <3>. QED
      BY <3>1
  <2>. HIDE DEF add, T, S
  <2>3. add \in Bijection(S, T)
    BY <2>1, <2>2, Fun_IsBij
  <2>. QED
    BY <1>2, <2>3, FS_Bijection DEF ExistsBijection
<1>6. Cardinality(S \cup T) = Cardinality(S) + Cardinality(T) - Cardinality({})
  <2>. HIDE DEF S, T
  <2>. QED
    BY <1>2, <1>4, <1>5, FS_Union
<1>. HIDE DEF S, T, U
<1>7. Cardinality({}) = 0 /\ Cardinality(S) \in Nat
  BY <1>2, FS_EmptySet, FS_CardinalityType
<1>8. Cardinality(U) = Cardinality(S) + Cardinality(S)
  BY <1>4, <1>5, <1>6, <1>7
<1>. QED
  BY <1>2, <1>7, <1>8

\* Blocks are finite sets of slots, so that they can be counted.
LEMMA BlockFinite ==
  ASSUME NEW i \in Elem
  PROVE  IsFiniteSet(Block(i)) /\ Cardinality(Block(i)) \in Nat
<1>1. IsFiniteSet(Elem)
  BY SizeAssumption, FS_Interval DEF Elem
<1>2. Block(i) \in SUBSET Elem
  BY DEF Block
<1>. QED
  BY <1>1, <1>2, FS_Subset, FS_CardinalityType

\* A step that changes no rank and no class changes no bound; a link pays for a
\* rank it bumps with the block it takes over.
LEMMA LinkRankLogarithmic ==
  ASSUME UFInv, RankLogarithmic, Link, rootL # root PROVE RankLogarithmic'
<1>1. /\ class \in [Elem -> Elem] /\ rank \in [Elem -> Nat]
      /\ parent \in [Elem -> Elem] /\ root \in Elem /\ rootL \in Elem
      /\ parent[root] = root /\ parent[rootL] = rootL /\ class' = MergedClass
  BY DEF Link, FindCorrect, UFInv, UFTypeOK
<1>2. class[root] # class[rootL]
  BY <1>1, OneRoot DEF Link, UFInv
<1>3. \A r \in Elem : parent[r] = r => 2 ^ rank[r] <= Cardinality(Block(r))
  BY DEF RankLogarithmic, Block
<1>. DEFINE A == Block(rootL)
            B == Block(root)
<1>4. A \cap B = {} /\ \A i \in A \cup B : Block(i)' = A \cup B
  <2>1. \A i \in Elem : class'[i] = IF i \in A THEN class[root] ELSE class[i]
    BY <1>1 DEF MergedClass, Block
  <2>2. A \cap B = {}
    BY <1>2 DEF Block
  <2>3. \A i \in A \cup B : i \in Elem /\ Block(i)' = A \cup B
    BY <1>1, <2>1 DEF Block
  <2>. QED
    BY <2>2, <2>3
<1>5. IsFiniteSet(A) /\ IsFiniteSet(B) /\ Cardinality(A) \in Nat /\ Cardinality(B) \in Nat
  BY <1>1, BlockFinite
<1>6. Cardinality(A \cup B) = Cardinality(A) + Cardinality(B)
  <2>. HIDE DEF A, B
  <2>1. A \cap B = {} /\ Cardinality({}) = 0
    BY <1>4, FS_EmptySet
  <2>2. Cardinality(A \cup B) = Cardinality(A) + Cardinality(B) - Cardinality(A \cap B)
    BY <1>5, FS_Union
  <2>3. Cardinality(A \cap B) = 0
    BY <2>1, Zenon
  <2>4. ASSUME NEW x \in Nat, NEW y \in Nat PROVE x + y - 0 = x + y
    OBVIOUS
  <2>. QED
    BY <1>5, <2>2, <2>3, <2>4, Zenon
<1>. SUFFICES ASSUME NEW r \in Elem, parent'[r] = r
              PROVE  2 ^ rank'[r] <= Cardinality(Block(r)')
  BY DEF RankLogarithmic, Block
<1>7. CASE r \notin {root, rootL}
  <2>1. parent[r] = r /\ rank'[r] = rank[r]
    BY <1>1, <1>7 DEF Link
  <2>2. class[r] # class[root] /\ class[r] # class[rootL]
    BY <1>1, <1>7, <2>1, OneRoot DEF UFInv
  <2>3. Block(r)' = Block(r)
    BY <1>1, <2>2 DEF Block, MergedClass
  <2>. QED
    BY <1>3, <2>1, <2>3
<1>8. CASE r \in {root, rootL}
  <2>1. parent[r] = r /\ Block(r)' = A \cup B
    <3>1. root \in B /\ rootL \in A
      BY <1>1 DEF Block
    <3>. QED
      BY <1>1, <1>4, <1>8, <3>1
  <2>2. CASE rank'[r] = rank[r]
    <3>1. 2 ^ rank[r] <= Cardinality(Block(r))
      BY <1>3, <2>1
    <3>2. Block(r) = A \/ Block(r) = B
      BY <1>8
    <3>3. 2 ^ rank[r] \in Nat
      BY <1>1, PowerDoubles
    <3>. HIDE DEF A, B
    <3>. QED
      BY <1>5, <1>6, <2>1, <2>2, <3>1, <3>2, <3>3
  <2>3. CASE rank'[r] # rank[r]
    <3>1. rank[rootL] = rank[root] /\ rank'[r] = rank[root] + 1
      BY <1>1, <2>3 DEF Link
    <3>2. 2 ^ rank[root] <= Cardinality(A) /\ 2 ^ rank[root] <= Cardinality(B)
      BY <1>1, <1>3, <3>1
    <3>3. 2 ^ rank[root] \in Nat /\ 2 ^ (rank[root] + 1) = 2 ^ rank[root] + 2 ^ rank[root]
      BY <1>1, PowerDoubles
    <3>. HIDE DEF A, B
    <3>. QED
      BY <1>5, <1>6, <2>1, <3>1, <3>2, <3>3
  <2>. QED
    BY <2>2, <2>3
<1>. QED
  BY <1>7, <1>8

\* A rank is paid for at first, and by every step.
LEMMA RunRankLogarithmic == UFRun => []RankLogarithmic
<1>1. UFInit => RankLogarithmic
  <2>. SUFFICES ASSUME UFInit, NEW r \in Elem
                PROVE  2 ^ rank[r] <= Cardinality({i \in Elem : class[i] = class[r]})
    BY DEF RankLogarithmic
  <2>1. rank[r] = 0 /\ {i \in Elem : class[i] = class[r]} = {r}
    BY DEF UFInit
  <2>2. 2 ^ 0 = 1
    OBVIOUS
  <2>. QED
    BY <2>1, <2>2, FS_Singleton
<1>2. UFInv /\ RankLogarithmic /\ [UFNext]_ufvars => RankLogarithmic'
  <2>. SUFFICES ASSUME UFInv, RankLogarithmic, [UFNext]_ufvars PROVE RankLogarithmic'
    OBVIOUS
  <2>1. CASE Link /\ rootL # root
    BY <2>1, LinkRankLogarithmic
  <2>2. CASE Compress
    <3>1. /\ class' = class /\ rank' = rank /\ element \in Elem /\ element # root
          /\ parent' = [parent EXCEPT ![element] = root] /\ parent \in [Elem -> Elem]
      BY <2>2 DEF Compress, UFInv, UFTypeOK, FindCorrect
    <3>2. \A r \in Elem : parent'[r] = r => parent[r] = r
      BY <3>1
    <3>. QED
      BY <3>1, <3>2 DEF RankLogarithmic
  <2>3. CASE parent' = parent /\ rank' = rank /\ class' = class
    BY <2>3 DEF RankLogarithmic
  <2>. QED
    BY <2>1, <2>2, <2>3
    DEF UFNext, UFCall, UFStep, BeginFind, BeginUnion, Chase, FindReturn, Link, ufstate,
        ufvars
<1>. QED
  BY <1>1, <1>2, ForestKnown, PTL DEF UFRun

\* A rank never exceeds the binary logarithm of the size of its class, for every
\* number of slots: the uint32_t rank cannot wrap and no path gets long.
THEOREM UFRankLogarithmic == UFSpec => []RankLogarithmic
  BY RunRankLogarithmic, PTL DEF UFSpec, UFRun

-----------------------------------------------------------------------------
(***************************************************************************)
(* Every call is short.  The walks of omi_find climb the ranks, and ranks   *)
(* stay below the logarithm of Size: WorkLeft counts the steps that are     *)
(* left, and each step takes at least one of them.                          *)
(***************************************************************************)
\* A set of numbers that has a member has a least one.
LEMMA LeastNumber ==
  ASSUME NEW T \in SUBSET Nat, T # {}
  PROVE  \E n \in T : \A m \in T : n <= m
<1>. DEFINE R == {ss \in Nat \X Nat : ss[1] < ss[2]}
<1>1. IsWellFoundedOn(R, Nat)
  BY NatLessThanWellFounded DEF OpToRel
<1>. HIDE DEF R
<1>2. PICK n \in T : \A m \in T : ~(<<m, n>> \in R)
  BY <1>1, WFMin
<1>3. \A m \in T : ~(m < n)
  BY <1>2 DEF R
<1>. QED
  BY <1>3

\* A power of two is above its exponent: the least exception would follow a number
\* that is none.
LEMMA PowerAbove == \A n \in Nat : n < 2 ^ n
<1>. DEFINE T == {n \in Nat : ~(n < 2 ^ n)}
<1>. SUFFICES ASSUME T # {} PROVE FALSE
  OBVIOUS
<1>1. T \in SUBSET Nat
  OBVIOUS
<1>2. PICK n \in T : \A m \in T : n <= m
  <2>. HIDE DEF T
  <2>. QED
    BY <1>1, LeastNumber
<1>3. n \in Nat /\ ~(n < 2 ^ n)
  OBVIOUS
<1>4. n # 0
  <2>1. 0 < 2 ^ 0
    OBVIOUS
  <2>. QED
    BY <1>3, <2>1
<1>5. n - 1 \in Nat /\ n - 1 < 2 ^ (n - 1)
  <2>1. n - 1 \in Nat /\ ~(n <= n - 1)
    BY <1>3, <1>4
  <2>2. n - 1 \notin T
    BY <1>2, <2>1
  <2>. QED
    BY <2>1, <2>2
<1>6. 2 ^ (n - 1) \in Nat /\ 2 ^ n = 2 ^ (n - 1) + 2 ^ (n - 1)
  <2>1. (n - 1) + 1 = n
    BY <1>3
  <2>2. 2 ^ ((n - 1) + 1) = 2 ^ (n - 1) + 2 ^ (n - 1) /\ 2 ^ (n - 1) \in Nat
    BY <1>5, PowerDoubles
  <2>. QED
    BY <2>1, <2>2
<1>. QED
  BY <1>3, <1>5, <1>6

\* Height is the largest rank whose power of two fits into Size.
LEMMA HeightKnown == Height \in Nat /\ \A k \in Nat : 2 ^ k <= Size => k <= Height
<1>1. Size \in Nat /\ Size >= 1
  BY SizeAssumption
<1>. DEFINE S == {k \in 0 .. Size : 2 ^ k <= Size}
            T == {Size - k : k \in S}
<1>2. T \in SUBSET Nat
  BY <1>1
<1>3. T # {}
  <2>1. 2 ^ 0 = 1
    OBVIOUS
  <2>2. 0 \in S
    BY <1>1, <2>1
  <2>. QED
    BY <2>2
<1>4. \E h \in S : \A k \in S : k <= h
  <2>1. PICK t \in T : \A m \in T : t <= m
    <3>. HIDE DEF T
    <3>. QED
      BY <1>2, <1>3, LeastNumber
  <2>2. PICK h \in S : t = Size - h
    OBVIOUS
  <2>3. ASSUME NEW k \in S PROVE k <= h
    <3>1. t <= Size - k
      BY <2>1
    <3>2. k \in Int /\ h \in Int
      OBVIOUS
    <3>. HIDE DEF S, T
    <3>. QED
      BY <1>1, <2>2, <3>1, <3>2
  <2>. QED
    BY <2>3
<1>5. Height \in 0 .. Size /\ \A k \in 0 .. Size : 2 ^ k <= Size => k <= Height
  <2>1. \E h \in 0 .. Size : 2 ^ h <= Size /\ \A k \in 0 .. Size : 2 ^ k <= Size => k <= h
    BY <1>4
  <2>. QED
    BY <2>1, Zenon DEF Height
<1>6. ASSUME NEW k \in Nat, 2 ^ k <= Size PROVE k \in 0 .. Size
  <2>1. k < 2 ^ k /\ 2 ^ k \in Nat
    BY PowerAbove, PowerDoubles
  <2>. QED
    BY <1>1, <1>6, <2>1
<1>. QED
  BY <1>1, <1>5, <1>6

\* No rank is above Height: an element's is at most its root's.
RanksFit == \A i \in Elem : rank[i] <= Height

LEMMA RanksBounded == UFInv /\ RootReached /\ RankLogarithmic => RanksFit
<1>. SUFFICES ASSUME UFInv, RootReached, RankLogarithmic, NEW i \in Elem
              PROVE  rank[i] <= Height
  BY DEF RanksFit
<1>1. rank \in [Elem -> Nat] /\ UFTypeOK /\ ParentInClass /\ RootDominates
  BY DEF UFInv, UFTypeOK
<1>2. PICK r \in Elem : parent[r] = r /\ class[r] = class[i]
  <2>1. PICK r \in RootsAbove(i) : TRUE
    BY DEF RootReached
  <2>. QED
    BY <1>1, <2>1, RootAboveInClass
<1>3. rank[i] <= rank[r]
  BY <1>1, <1>2 DEF RootDominates
<1>4. 2 ^ rank[r] <= Cardinality(Block(r))
  BY <1>2 DEF RankLogarithmic, Block
<1>5. Cardinality(Block(r)) <= Size
  <2>1. Block(r) \subseteq Elem
    BY DEF Block
  <2>2. 0 \in Int /\ Size - 1 \in Int /\ Size \in Nat /\ Size >= 1
    BY SizeAssumption
  <2>3. IsFiniteSet(Elem) /\ Cardinality(Elem) = Size
    BY <2>2, FS_Interval DEF Elem
  <2>. QED
    BY <2>1, <2>3, FS_Subset
<1>6. 2 ^ rank[r] <= Size
  <2>1. 2 ^ rank[r] \in Nat /\ Cardinality(Block(r)) \in Nat /\ Size \in Nat
    BY <1>1, PowerDoubles, BlockFinite, SizeAssumption
  <2>. QED
    BY <1>4, <1>5, <2>1
<1>7. rank[r] <= Height /\ Height \in Nat
  BY <1>1, <1>6, HeightKnown
<1>. QED
  BY <1>1, <1>3, <1>7

\* What a step of a call takes from the work left.
LEMMA StepShortens ==
  ASSUME UFInv, RanksFit, [UFNext]_ufvars, pc # "idle"
  PROVE  UNCHANGED ufvars \/ WorkLeft' \in 0 .. WorkLeft - 1
<1>. DEFINE H == Height
<1>1. /\ H \in Nat /\ rank \in [Elem -> Nat] /\ parent \in [Elem -> Elem]
      /\ \A i \in Elem : rank[i] \in 0 .. H
      /\ element \in Elem /\ root \in Elem /\ right \in Elem
  BY HeightKnown DEF UFInv, UFTypeOK, RanksFit
<1>2. CASE Chase
  <2>1. pc = "chase" /\ UNCHANGED <<rank, element, op>>
    BY <1>2 DEF Chase
  <2>. DEFINE u == IF op = "left" THEN 2 * H + 3 ELSE IF op = "right" THEN 1 ELSE 0
  <2>2. u \in Nat /\ WorkLeft = 2 * H - rank[root] + 2 + u
    BY <1>1, <2>1 DEF WorkLeft, UFInv, UFTypeOK
  <2>3. CASE parent[root] # root
    <3>1. rank[parent[root]] > rank[root] /\ root' = parent[root] /\ pc' = "chase"
      BY <1>1, <1>2, <2>1, <2>3 DEF Chase, UFInv, RankIncreases
    <3>2. WorkLeft' = 2 * H - rank[parent[root]] + 2 + u
      BY <1>1, <2>1, <3>1 DEF WorkLeft, UFInv, UFTypeOK
    <3>. HIDE DEF u, H
    <3>. QED
      BY <1>1, <2>2, <3>1, <3>2
  <2>4. CASE parent[root] = root
    <3>1. pc' = "compress"
      BY <1>2, <2>4 DEF Chase
    <3>2. WorkLeft' = H - rank[element] + 1 + u
      BY <1>1, <2>1, <3>1 DEF WorkLeft, UFInv, UFTypeOK
    <3>. HIDE DEF u, H
    <3>. QED
      BY <1>1, <2>2, <3>2
  <2>. QED
    BY <2>3, <2>4
<1>3. CASE Compress
  <2>1. pc = "compress" /\ pc' = "compress" /\ UNCHANGED <<rank, op>> /\ element' = parent[element]
    BY <1>3 DEF Compress
  <2>. DEFINE u == IF op = "left" THEN 2 * H + 3 ELSE IF op = "right" THEN 1 ELSE 0
  <2>2. u \in Nat /\ WorkLeft = H - rank[element] + 1 + u
    BY <1>1, <2>1 DEF WorkLeft, UFInv, UFTypeOK
  <2>3. WorkLeft' = H - rank[parent[element]] + 1 + u
    BY <1>1, <2>1 DEF WorkLeft, UFInv, UFTypeOK
  <2>4. parent[element] # element
    <3>1. parent[element] # root /\ parent[root] = root /\ class[root] = class[element]
      BY <1>3, <2>1 DEF Compress, UFInv, FindCorrect
    <3>. QED
      BY <1>1, <3>1, OneRoot DEF UFInv
  <2>5. rank[parent[element]] > rank[element] /\ parent[element] \in Elem
    BY <1>1, <2>4 DEF UFInv, RankIncreases
  <2>. HIDE DEF u, H
  <2>. QED
    BY <1>1, <2>2, <2>3, <2>5
<1>4. CASE FindReturn
  <2>1. pc = "compress" /\ rank' = rank
    BY <1>4 DEF FindReturn, ufstate
  <2>2. CASE op = "find" /\ Return
    <3>1. WorkLeft' = 0 /\ WorkLeft = H - rank[element] + 1 + 0
      BY <2>1, <2>2 DEF WorkLeft, Return
    <3>. HIDE DEF H
    <3>. QED
      BY <1>1, <3>1
  <2>3. CASE op = "left" /\ op' = "right" /\ StartFind(right)
    <3>1. /\ WorkLeft = H - rank[element] + 1 + (2 * H + 3)
          /\ WorkLeft' = 2 * H - rank[right] + 2 + 1
      BY <2>1, <2>3 DEF WorkLeft, StartFind
    <3>. HIDE DEF H
    <3>. QED
      BY <1>1, <3>1
  <2>4. CASE op = "right" /\ pc' = "link"
    <3>1. WorkLeft' = 1 /\ WorkLeft = H - rank[element] + 1 + 1
      BY <2>1, <2>4 DEF WorkLeft
    <3>. HIDE DEF H
    <3>. QED
      BY <1>1, <3>1
  <2>. QED
    BY <1>4, <2>2, <2>3, <2>4 DEF FindReturn
<1>5. CASE Link
  <2>1. WorkLeft = 1 /\ WorkLeft' = 0
    BY <1>5 DEF Link, Return, WorkLeft
  <2>. QED
    BY <2>1
<1>. QED
  BY <1>2, <1>3, <1>4, <1>5 DEF UFNext, UFCall, UFStep, BeginFind, BeginUnion

\* Whoever calls it, a step of a call shortens it.
LEMMA RunShortens == UFRun => CallShortens
<1>1. UFRun => [](UFInv /\ RootReached)
  BY UFInitInv, UFStepInv, ReachInit, ReachStep, PTL DEF UFRun
<1>2. UFInv /\ RootReached /\ RankLogarithmic /\ [UFNext]_ufvars
        => [pc # "idle" => WorkLeft' \in 0 .. WorkLeft - 1]_ufvars
  BY RanksBounded, StepShortens
<1>. QED
  BY <1>1, <1>2, RunRankLogarithmic, PTL DEF UFRun, CallShortens

\* For every number of slots each step of a call shortens it, so that a find is over
\* within 2 * Height + 2 steps and a union within 4 * Height + 5: what is left of
\* "every call returns" is that the code keeps running.
THEOREM UFCallShortens == UFSpec => CallShortens
  BY RunShortens, PTL DEF UFSpec, UFRun
=============================================================================
