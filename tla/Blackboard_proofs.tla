--------------------------- MODULE Blackboard_proofs ---------------------------
(***************************************************************************)
(* Safety of the coproduct blackboard for any plane, any capacities and any *)
(* set of contributions.  BoardInv, the invariant of injection, does not    *)
(* need to know what the union-find does; ClassInv, the invariant of        *)
(* equivalence, rests on the invariant UFInv of module UnionFind_proofs and *)
(* on what is known of the pair a union in progress is about.               *)
(***************************************************************************)
EXTENDS Blackboard, UnionFind_proofs

BoardInv ==
  /\ TypeOK
  /\ FibersExact
  /\ BoardsExact

-----------------------------------------------------------------------------
(* Injection *)

\* Appending a contribution leaves the indices in use and what they stand for.
LEMMA AppendAt ==
  ASSUME contributions \in Seq(Inputs), NEW c \in Inputs,
         contributions' = Append(contributions, c)
  PROVE  /\ contributions' \in Seq(Inputs)
         /\ count \in Nat /\ count' = count + 1
         /\ \A i \in Index : At(i) \in Inputs
         /\ Index' = Index \cup {count} /\ count \notin Index
         /\ \A i \in Index : At(i)' = At(i)
         /\ contributions'[count + 1] = c
<1>1. count \in Nat /\ count' = count + 1 /\ contributions' \in Seq(Inputs)
  BY DEF count
<1>2. Index' = Index \cup {count} /\ count \notin Index
  BY <1>1 DEF Index
<1>3. ASSUME NEW i \in Index PROVE At(i) \in Inputs /\ At(i)' = At(i)
  <2>1. i + 1 \in 1 .. Len(contributions)
    BY <1>1 DEF Index, count
  <2>. QED
    BY <2>1 DEF At
<1>4. contributions'[count + 1] = c
  BY DEF count
<1>. QED
  BY <1>1, <1>2, <1>3, <1>4

\* The contributions in use are ones that were injected.
LEMMA ContributionsTyped ==
  ASSUME TypeOK, NEW i \in Index PROVE At(i) \in Inputs
<1>1. i + 1 \in 1 .. Len(contributions)
  BY DEF TypeOK, Index, count
<1>. QED
  BY <1>1 DEF TypeOK, At

\* What omi_blackboard_inject does to the claims on a coordinate.
LEMMA InjectClaims ==
  ASSUME contributions \in Seq(Inputs), NEW c \in Inputs,
         contributions' = Append(contributions, c), NEW p
  PROVE  Claims(p)' = IF p \in c.board THEN Claims(p) \cup {count} ELSE Claims(p)
<1>1. Claims(p)' = {i \in Index' : p \in contributions'[i + 1].board}
  BY DEF Claims, At
<1>2. \A i \in Index : contributions'[i + 1] = contributions[i + 1]
  BY AppendAt DEF At
<1>3. Index' = Index \cup {count} /\ contributions'[count + 1] = c
  BY AppendAt
<1>. QED
  BY <1>1, <1>2, <1>3 DEF Claims, At

\* An accepted injection keeps the boards and the fibers exact.
LEMMA InjectInv == ASSUME BoardInv, NEW c \in Inputs, Inject(c) PROVE BoardInv'
<1>. USE DEF BoardInv, TypeOK
<1>1. /\ contributions' = Append(contributions, c) /\ count \in Nat
      /\ UNCHANGED ufvars
      /\ \A p \in Coord : Claims(p)' = IF p \in c.board THEN Claims(p) \cup {count}
                                                         ELSE Claims(p)
      /\ count' = count + 1 /\ contributions' \in Seq(Inputs)
  BY AppendAt, InjectClaims DEF Inject
<1>2. \A p : Claims(p) \subseteq Index /\ count \notin Claims(p)
  BY DEF Claims, Index, count
<1>3. c.board \subseteq Coord
  BY InputsAssumption
<1>4. TypeOK'
  <2>1. UFTypeOK'
    BY <1>1 DEF UFTypeOK, ufvars
  <2>2. count' <= Size
    BY <1>1, SizeAssumption DEF Inject, HasRoom
  <2>3. fibers' \in [Coord -> Seq(Nat)]
    BY <1>1 DEF Inject
  <2>4. occupancy' \in SUBSET Coord /\ conflict' \in SUBSET Coord
    BY <1>3 DEF Inject
  <2>. QED
    BY <1>1, <2>1, <2>2, <2>3, <2>4
<1>5. FibersExact'
  <2>. SUFFICES ASSUME NEW p \in Coord
                PROVE  /\ {fibers'[p][k] : k \in 1 .. Len(fibers'[p])} = Claims(p)'
                       /\ \A j, k \in 1 .. Len(fibers'[p]) :
                            j < k => fibers'[p][j] < fibers'[p][k]
                       /\ Len(fibers'[p]) <= MaxFiber
    BY <1>4 DEF FibersExact, Fiber
  <2>1. /\ fibers[p] \in Seq(Nat)
        /\ {fibers[p][k] : k \in 1 .. Len(fibers[p])} = Claims(p)
        /\ \A j, k \in 1 .. Len(fibers[p]) : j < k => fibers[p][j] < fibers[p][k]
        /\ Len(fibers[p]) <= MaxFiber
    BY DEF FibersExact, Fiber
  <2>2. CASE p \notin c.board
    BY <1>1, <2>1, <2>2 DEF Inject
  <2>3. CASE p \in c.board
    <3>. DEFINE n == Len(fibers[p])
    <3>1. /\ fibers'[p] = Append(fibers[p], count) /\ n \in Nat
          /\ n < MaxFiber
      BY <1>3, <2>1, <2>3 DEF Inject, HasRoom
    <3>2. /\ Len(fibers'[p]) = n + 1
          /\ fibers'[p][n + 1] = count
          /\ \A k \in 1 .. n : fibers'[p][k] = fibers[p][k]
      BY <1>1, <2>1, <3>1
    <3>3. \A k \in 1 .. n : fibers[p][k] \in Nat /\ fibers[p][k] < count
      <4>. SUFFICES ASSUME NEW k \in 1 .. n
                    PROVE  fibers[p][k] \in Nat /\ fibers[p][k] < count
        OBVIOUS
      <4>1. fibers[p][k] \in Index
        BY <1>2, <2>1
      <4>. QED
        BY <1>1, <4>1 DEF Index
    <3>4. 1 .. n + 1 = (1 .. n) \cup {n + 1}
      BY <3>1
    <3>5. {fibers'[p][k] : k \in 1 .. n + 1} = Claims(p) \cup {count}
      <4>1. {fibers'[p][k] : k \in 1 .. n + 1}
              = {fibers'[p][k] : k \in 1 .. n} \cup {fibers'[p][n + 1]}
        BY <3>4
      <4>2. {fibers'[p][k] : k \in 1 .. n} = {fibers[p][k] : k \in 1 .. n}
        BY <3>2
      <4>. QED
        BY <2>1, <3>2, <4>1, <4>2
    <3>6. ASSUME NEW j \in 1 .. n + 1, NEW k \in 1 .. n + 1, j < k
          PROVE  fibers'[p][j] < fibers'[p][k]
      <4>1. j \in 1 .. n
        BY <3>1, <3>6
      <4>2. CASE k \in 1 .. n
        BY <2>1, <3>2, <3>6, <4>1, <4>2
      <4>3. CASE k = n + 1
        BY <3>2, <3>3, <4>1, <4>3
      <4>. QED
        BY <3>4, <4>2, <4>3
    <3>7. Len(fibers'[p]) <= MaxFiber
      BY <3>1, <3>2, FiberAssumption
    <3>. QED
      BY <1>1, <2>3, <3>2, <3>5, <3>6, <3>7
  <2>. QED
    BY <2>2, <2>3
<1>6. BoardsExact'
  <2>1. \A p \in Coord : p \in occupancy' <=> Claims(p)' # {}
    <3>. SUFFICES ASSUME NEW p \in Coord
                  PROVE  p \in occupancy' <=> Claims(p)' # {}
      OBVIOUS
    <3>1. p \in occupancy <=> Claims(p) # {}
      BY DEF BoardsExact
    <3>2. occupancy' = occupancy \cup c.board
      BY DEF Inject
    <3>. QED
      BY <1>1, <3>1, <3>2
  <2>2. \A p \in Coord : p \in conflict' <=> \E i, j \in Claims(p)' : i # j
    <3>. SUFFICES ASSUME NEW p \in Coord
                  PROVE  p \in conflict' <=> \E i, j \in Claims(p)' : i # j
      OBVIOUS
    <3>1. /\ p \in occupancy <=> Claims(p) # {}
          /\ p \in conflict <=> \E i, j \in Claims(p) : i # j
      BY DEF BoardsExact
    <3>2. conflict' = conflict \cup (occupancy \cap c.board)
      BY DEF Inject
    <3>3. CASE p \notin c.board
      BY <1>1, <3>1, <3>2, <3>3
    <3>4. CASE p \in c.board
      <4>1. Claims(p)' = Claims(p) \cup {count} /\ count \notin Claims(p)
        BY <1>1, <1>2, <3>4
      <4>2. (\E i, j \in Claims(p)' : i # j) <=> Claims(p) # {}
        BY <4>1
      <4>3. p \in conflict' <=> p \in conflict \/ p \in occupancy
        BY <3>2, <3>4
      <4>. QED
        BY <3>1, <4>2, <4>3
    <3>. QED
      BY <3>3, <3>4
  <2>. QED
    BY <1>4, <2>1, <2>2 DEF BoardsExact
<1>. QED
  BY <1>4, <1>5, <1>6

-----------------------------------------------------------------------------
(* The other operations *)

\* A step that leaves the boards alone keeps them exact.
LEMMA BoardStutter ==
  ASSUME BoardInv, UNCHANGED board, UFTypeOK' PROVE BoardInv'
<1>1. UNCHANGED <<occupancy, conflict, fibers, contributions>>
  BY DEF board
<1>2. count' = count /\ Index' = Index /\ \A p : Claims(p)' = Claims(p)
  BY <1>1 DEF Claims, At, Index, count
<1>. QED
  BY <1>1, <1>2 DEF BoardInv, TypeOK, FibersExact, Fiber, BoardsExact

\* Indices in use are slots of the union-find.
LEMMA IndexInElem == ASSUME TypeOK PROVE Index \subseteq Elem
  BY SizeAssumption DEF TypeOK, Index, Elem, count

\* Every step of the blackboard is a step of the union-find or none at all.
LEMMA UFProjection == ASSUME TypeOK, [Next]_vars PROVE [UFNext]_ufvars
<1>1. ASSUME NEW c \in Inputs, Inject(c) \/ InjectRefused(c) PROVE UNCHANGED ufvars
  BY <1>1 DEF Inject, InjectRefused
<1>2. ASSUME NEW l \in AnyIndex, NEW r \in AnyIndex, NEW profile \in Profiles,
             Cons(l, r, profile)
      PROVE  UNCHANGED ufvars
  BY <1>2 DEF Cons
<1>3. ASSUME NEW a \in Refs, NEW b \in Refs, Validate(a, b) PROVE UNCHANGED ufvars
  BY <1>3 DEF Validate
<1>4. ASSUME NEW l \in AnyIndex, NEW r \in AnyIndex, Union(l, r) PROVE UFNext
  BY <1>4, IndexInElem DEF Union, UFNext, UFCall
<1>5. ASSUME NEW l \in AnyIndex, NEW r \in AnyIndex, UnionRefused(l, r)
      PROVE  UNCHANGED ufvars
  BY <1>5 DEF UnionRefused
<1>6. ASSUME NEW i \in Index, Find(i) PROVE UFNext
  BY <1>6, IndexInElem DEF Find, UFNext, UFCall
<1>7. CASE UnionFindStep
  BY <1>7 DEF UnionFindStep, UFNext
<1>8. CASE UNCHANGED vars
  BY <1>8 DEF vars
<1>. QED
  BY <1>1, <1>2, <1>3, <1>4, <1>5, <1>6, <1>7, <1>8 DEF Next

\* Only an accepted injection touches the boards.
LEMMA BoardSteps ==
  ASSUME [Next]_vars
  PROVE  (\E c \in Inputs : Inject(c)) \/ UNCHANGED board
  BY DEF Next, vars, board, InjectRefused, Cons, Validate, Union, UnionRefused, Find,
         UnionFindStep

\* The boards and the union-find invariant together are inductive.
LEMMA BoardStepInv == BoardInv /\ UFInv /\ [Next]_vars => BoardInv' /\ UFInv'
<1>. SUFFICES ASSUME BoardInv, UFInv, [Next]_vars PROVE BoardInv' /\ UFInv'
  OBVIOUS
<1>1. UFInv'
  BY UFProjection, UFStepInv DEF BoardInv
<1>2. CASE \E c \in Inputs : Inject(c)
  <2>1. PICK c \in Inputs : Inject(c)
    BY <1>2
  <2>. QED
    BY <1>1, <2>1, InjectInv
<1>3. CASE UNCHANGED board
  BY <1>1, <1>3, BoardStutter DEF UFInv
<1>. QED
  BY <1>1, <1>2, <1>3, BoardSteps

\* omi_blackboard_init satisfies both invariants.
LEMMA BoardInitInv == Init => BoardInv /\ UFInv
<1>. SUFFICES ASSUME Init PROVE BoardInv /\ UFInv
  OBVIOUS
<1>1. UFInv
  BY UFInitInv DEF Init
<1>2. contributions = <<>> /\ count = 0 /\ Index = {}
  BY DEF Init, Index, count
<1>3. \A p : Claims(p) = {}
  BY <1>2 DEF Claims
<1>4. TypeOK
  BY <1>1, <1>2, SizeAssumption DEF Init, TypeOK, UFInv
<1>5. FibersExact
  BY <1>2, <1>3, FiberAssumption, SizeAssumption DEF Init, FibersExact, Fiber
<1>6. BoardsExact
  BY <1>3 DEF Init, BoardsExact
<1>. QED
  BY <1>1, <1>4, <1>5, <1>6 DEF BoardInv

\* Type correctness of the blackboard: capacities are respected for ever.
THEOREM BlackboardTypeOK == Spec => []TypeOK
<1>1. BoardInv => TypeOK
  BY DEF BoardInv
<1>. QED
  BY <1>1, BoardInitInv, BoardStepInv, PTL DEF Spec

\* The fibers are exact in every reachable state: no accepted contribution is
\* missing from, or repeated in, a fiber its board claims.
THEOREM BlackboardFibers == Spec => []FibersExact
<1>1. BoardInv => FibersExact
  BY DEF BoardInv
<1>. QED
  BY <1>1, BoardInitInv, BoardStepInv, PTL DEF Spec

\* Occupancy is the union of the boards, conflict the coordinates claimed twice.
THEOREM BlackboardBoards == Spec => []BoardsExact
<1>1. BoardInv => BoardsExact
  BY DEF BoardInv
<1>. QED
  BY <1>1, BoardInitInv, BoardStepInv, PTL DEF Spec

-----------------------------------------------------------------------------
(* Equivalence *)

\* The slots not in use are singletons of rank 0, and a union in progress is
\* about two slots in use.
FreeInv ==
  /\ \A i \in Elem \ Index :
       rank[i] = 0 /\ \A j \in Elem : class[j] = class[i] => j = i
  /\ pc # "idle" /\ op # "find" => left \in Index /\ right \in Index

\* What a valid witness, and a union in progress, say of their pair.
PairInv ==
  /\ witness # None /\ Valid => Equivalent(witness.about[1], witness.about[2])
  /\ pc # "idle" /\ op # "find" => Interchangeable(At(left), At(right))

\* Validation is symmetric and transitive: comparing resolved words under one
\* scope and one profile is an equality in disguise.
LEMMA EquivalentSymTrans ==
  /\ \A a, b : Equivalent(a, b) => Equivalent(b, a)
  /\ \A a, b, c : Equivalent(a, b) /\ Equivalent(b, c) => Equivalent(a, c)
  BY DEF Equivalent

\* A witness that reports RESOLVED_MATCH is about an equivalent pair.
LEMMA ReasonSound ==
  ASSUME NEW a, NEW b, Reason(a, b) = "RESOLVED_MATCH"
  PROVE  Equivalent(a, b)
  BY DEF Reason, Equivalent

\* A union relates only what its two arguments were related to.
LEMMA LinkMerges ==
  ASSUME UFInv, Link, NEW i \in Elem, NEW j \in Elem, class'[i] = class'[j]
  PROVE  \/ class[i] = class[j]
         \/ class[i] = class[left] /\ class[j] = class[right]
         \/ class[i] = class[right] /\ class[j] = class[left]
<1>1. class[rootL] = class[left] /\ class[root] = class[right]
  BY DEF UFInv, FindCorrect, Link
<1>2. class' = class \/ class' = MergedClass
  BY DEF Link, ufstate
<1>. QED
  BY <1>1, <1>2 DEF MergedClass, UFInv, UFTypeOK

\* The step of a union-find call is the link or leaves ranks and classes alone.
LEMMA OnlyLinkLinks ==
  ASSUME UFStep, ~Link
  PROVE  /\ UNCHANGED <<rank, class>>
         /\ pc' # "idle" /\ op' # "find" =>
              pc # "idle" /\ op # "find" /\ left' = left /\ right' = right
  BY DEF UFStep, Chase, Compress, FindReturn, Return, ufstate

\* Slots not in use stay untouched.
LEMMA FreeStepInv ==
  ASSUME BoardInv, UFInv, FreeInv, [Next]_vars
  PROVE  FreeInv'
<1>. USE DEF BoardInv
<1>1. CASE \E c \in Inputs : Inject(c)
  <2>1. PICK c \in Inputs : Inject(c)
    BY <1>1
  <2>2. Index' = Index \cup {count} /\ UNCHANGED ufvars /\ pc = "idle"
    BY <2>1, AppendAt DEF Inject, TypeOK
  <2>. QED
    BY <2>2 DEF FreeInv, ufvars
<1>2. CASE UNCHANGED board
  <2>1. Index' = Index
    BY <1>2 DEF board, Index, count
  <2>2. CASE UNCHANGED ufvars
    BY <2>1, <2>2 DEF FreeInv, ufvars
  <2>3. CASE \E l, r \in AnyIndex : Union(l, r)
    BY <2>1, <2>3 DEF FreeInv, Union, BeginUnion
  <2>4. CASE \E i \in Index : Find(i)
    BY <2>1, <2>4 DEF FreeInv, Find, BeginFind
  <2>5. CASE UnionFindStep /\ ~Link
    BY <2>1, <2>5, OnlyLinkLinks DEF FreeInv, UnionFindStep
  <2>6. CASE UnionFindStep /\ Link
    <3>1. left \in Index /\ right \in Index /\ pc' = "idle"
      BY <2>6 DEF Link, Return, FreeInv, UFInv, FindCorrect
    <3>2. ASSUME NEW i \in Elem \ Index, NEW j \in Elem, class'[j] = class'[i]
          PROVE  j = i
      BY <2>6, <3>1, <3>2, LinkMerges, IndexInElem DEF FreeInv
    <3>3. ASSUME NEW i \in Elem \ Index PROVE rank'[i] = 0
      <4>1. class[rootL] = class[left]
        BY <2>6 DEF Link, UFInv, FindCorrect
      <4>2. i # rootL
        BY <3>1, <4>1, IndexInElem DEF FreeInv
      <4>3. rank' = rank \/ rank' = [rank EXCEPT ![rootL] = @ + 1]
        BY <2>6 DEF Link, ufstate
      <4>. QED
        BY <4>2, <4>3 DEF FreeInv, UFInv, UFTypeOK
    <3>. QED
      BY <2>1, <3>1, <3>2, <3>3 DEF FreeInv
  <2>. QED
    BY <2>2, <2>3, <2>4, <2>5, <2>6
    DEF Next, vars, Inject, InjectRefused, Cons, Validate, UnionRefused
<1>. QED
  BY <1>1, <1>2, BoardSteps

\* With paired clients, a witness and a union in progress stay about an
\* equivalent pair: contributions are never overwritten under a held witness.
LEMMA PairStepInv ==
  ASSUME BoardInv, FreeInv, PairInv, PairedClient, [Next]_vars
  PROVE  PairInv'
<1>. USE DEF BoardInv
<1>1. CASE \E c \in Inputs : Inject(c)
  BY <1>1 DEF PairInv, Inject, ufvars, Valid
<1>2. CASE UNCHANGED board
  <2>1. \A i : At(i)' = At(i)
    BY <1>2 DEF board, At
  <2>2. CASE UNCHANGED <<witness, ufvars>>
    BY <2>1, <2>2 DEF PairInv, ufvars, Valid, Interchangeable
  <2>3. CASE \E a, b \in Refs : Validate(a, b)
    <3>1. PICK a, b \in Refs : Validate(a, b)
      BY <2>3
    <3>2. Valid' => Equivalent(witness'.about[1], witness'.about[2])
      BY <3>1, ReasonSound DEF Validate, Valid
    <3>. QED
      BY <3>1, <3>2 DEF PairInv, Validate, ufvars
  <2>4. CASE \E l, r \in AnyIndex : Union(l, r)
    <3>1. PICK l, r \in AnyIndex : Union(l, r)
      BY <2>4
    <3>2. left' = l /\ right' = r /\ witness' = witness
      BY <3>1 DEF Union, BeginUnion
    <3>3. Interchangeable(At(l), At(r))
      BY <3>1 DEF Union, PairInv, Pairs, Interchangeable
    <3>. QED
      BY <2>1, <3>2, <3>3 DEF PairInv, Valid, Interchangeable
  <2>5. CASE \E i \in Index : Find(i)
    BY <2>5 DEF PairInv, Find, BeginFind, Valid
  <2>6. CASE UnionFindStep
    <3>1. witness' = witness
      BY <2>6 DEF UnionFindStep
    <3>2. CASE Link
      BY <3>1, <3>2 DEF PairInv, Link, Return, Valid
    <3>3. CASE ~Link
      BY <2>1, <2>6, <3>1, <3>3, OnlyLinkLinks
      DEF PairInv, UnionFindStep, Valid, Interchangeable
    <3>. QED
      BY <3>2, <3>3
  <2>. QED
    BY <2>2, <2>3, <2>4, <2>5, <2>6
    DEF Next, vars, Inject, InjectRefused, Cons, UnionRefused
<1>. QED
  BY <1>1, <1>2, BoardSteps

\* Soundness of the classes is kept by every step.
LEMMA SoundStepInv ==
  ASSUME BoardInv, UFInv, FreeInv, PairInv, ClassSound, [Next]_vars
  PROVE  ClassSound'
<1>. USE DEF BoardInv
<1>0. Index \subseteq Elem
  BY IndexInElem
<1>1. CASE \E c \in Inputs : Inject(c)
  <2>1. PICK c \in Inputs : Inject(c)
    BY <1>1
  <2>2. /\ Index' = Index \cup {count} /\ count \notin Index
        /\ \A i \in Index : At(i)' = At(i)
    BY <2>1, AppendAt DEF Inject, TypeOK
  <2>3. class' = class /\ count \in Elem
    BY <2>1, SizeAssumption DEF Inject, ufvars, HasRoom, Elem, TypeOK, count
  <2>4. \A j \in Elem : class[j] = class[count] => j = count
    BY <2>2, <2>3 DEF FreeInv
  <2>5. ASSUME NEW i \in Index', NEW j \in Index', class'[i] = class'[j], i # j
        PROVE  Equivalent(RefOf(At(i)'), RefOf(At(j)'))
    <3>1. i \in Index /\ j \in Index
      BY <1>0, <2>2, <2>3, <2>4, <2>5
    <3>. QED
      BY <2>2, <2>3, <2>5, <3>1 DEF ClassSound
  <2>. QED
    BY <2>5 DEF ClassSound
<1>2. CASE UNCHANGED board
  <2>1. Index' = Index /\ \A i : At(i)' = At(i)
    BY <1>2 DEF board, Index, count, At
  <2>2. CASE class' = class
    BY <2>1, <2>2 DEF ClassSound
  <2>3. CASE Link
    <3>1. Interchangeable(At(left), At(right)) /\ left \in Index /\ right \in Index
      BY <2>3 DEF PairInv, FreeInv, Link, UFInv, FindCorrect
    <3>2. ASSUME NEW i \in Index, NEW j \in Index, class'[i] = class'[j], i # j
          PROVE  Equivalent(RefOf(At(i)), RefOf(At(j)))
      <4>1. CASE class[i] = class[j]
        BY <3>2, <4>1 DEF ClassSound
      <4>2. CASE class[i] = class[left] /\ class[j] = class[right]
        <5>1. i = left \/ Interchangeable(At(i), At(left))
          BY <3>1, <4>2 DEF ClassSound, Interchangeable
        <5>2. j = right \/ Interchangeable(At(right), At(j))
          BY <3>1, <4>2 DEF ClassSound, Interchangeable
        <5>. QED
          BY <3>1, <5>1, <5>2, EquivalentSymTrans DEF Interchangeable
      <4>3. CASE class[i] = class[right] /\ class[j] = class[left]
        <5>1. i = right \/ Interchangeable(At(i), At(right))
          BY <3>1, <4>3 DEF ClassSound, Interchangeable
        <5>2. j = left \/ Interchangeable(At(left), At(j))
          BY <3>1, <4>3 DEF ClassSound, Interchangeable
        <5>. QED
          BY <3>1, <5>1, <5>2, EquivalentSymTrans DEF Interchangeable
      <4>. QED
        BY <1>0, <2>3, <3>2, <4>1, <4>2, <4>3, LinkMerges
    <3>. QED
      BY <2>1, <3>2 DEF ClassSound
  <2>4. class' = class \/ Link
    BY <1>2, OnlyLinkLinks
    DEF Next, vars, ufvars, board, Inject, InjectRefused, Cons, Validate, Union,
        BeginUnion, UnionRefused, Find, BeginFind, UnionFindStep
  <2>. QED
    BY <2>2, <2>3, <2>4
<1>. QED
  BY <1>1, <1>2, BoardSteps

\* The state omi_blackboard_init leaves satisfies all of it.
LEMMA ClassInitInv == Init => FreeInv /\ PairInv /\ ClassSound
<1>. SUFFICES ASSUME Init PROVE FreeInv /\ PairInv /\ ClassSound
  OBVIOUS
<1>1. Index = {}
  BY DEF Init, Index, count
<1>. QED
  BY <1>1 DEF Init, UFInit, FreeInv, PairInv, ClassSound, Elem

\* Untouched free slots, for every client.
THEOREM BlackboardFreeSlots == Spec => []FreeSlotsFresh
<1>. DEFINE I == BoardInv /\ UFInv /\ FreeInv
<1>1. Init => I
  BY BoardInitInv, ClassInitInv
<1>2. I /\ [Next]_vars => I'
  BY BoardStepInv, FreeStepInv
<1>3. I => FreeSlotsFresh
  <2>. SUFFICES ASSUME I, NEW i \in Elem \ Index
                PROVE  /\ parent[i] = i /\ rank[i] = 0
                       /\ \A j \in Elem : parent[j] = i => j = i
    BY DEF FreeSlotsFresh
  <2>1. \A j \in Elem : class[parent[j]] = class[j] /\ parent[j] \in Elem
    BY DEF UFInv, ParentInClass, UFTypeOK
  <2>. QED
    BY <2>1 DEF FreeInv
<1>. QED
  BY <1>1, <1>2, <1>3, PTL DEF Spec

\* Clients that unite only the pair they validated get sound classes: however
\* the unions are chained, one class means one scope, one profile, one word.
THEOREM BlackboardClassSound == PairedClient => (Spec => []ClassSound)
<1>. SUFFICES ASSUME PairedClient PROVE Spec => []ClassSound
  OBVIOUS
<1>. DEFINE I == BoardInv /\ UFInv /\ FreeInv /\ PairInv /\ ClassSound
<1>1. Init => I
  BY BoardInitInv, ClassInitInv
<1>2. I /\ [Next]_vars => I'
  BY BoardStepInv, FreeStepInv, PairStepInv, SoundStepInv
<1>3. I => ClassSound
  OBVIOUS
<1>. QED
  BY <1>1, <1>2, <1>3, PTL DEF Spec

-----------------------------------------------------------------------------
(* What is handed out stays true *)

\* A CONS result a client holds describes two contributions still in place.
ResultInv ==
  out.call = "cons" /\ out.status = "OK" =>
    /\ out.result.left \in Index /\ out.result.right \in Index
    /\ out.result.overlap = At(out.result.left).board \cap At(out.result.right).board

\* A CONS result stays about contributions in place.
LEMMA ResultStepInv == ASSUME ResultInv, [Next]_vars PROVE ResultInv'
<1>1. ASSUME NEW c \in Inputs, Inject(c) \/ InjectRefused(c) PROVE ResultInv'
  BY <1>1 DEF Inject, InjectRefused, ResultInv
<1>2. ASSUME NEW l \in AnyIndex, NEW r \in AnyIndex, NEW profile \in Profiles,
             Cons(l, r, profile)
      PROVE  ResultInv'
  <2>1. Index' = Index /\ \A i : At(i)' = At(i)
    BY <1>2 DEF Cons, board, Index, count, At
  <2>2. CASE l \in Index /\ r \in Index
    <3>1. /\ out' = [call |-> "cons", status |-> "OK", result |-> ConsResult(l, r, profile)]
          /\ out'.result = ConsResult(l, r, profile)
      BY <1>2, <2>2 DEF Cons
    <3>2. /\ out'.result.left = l /\ out'.result.right = r
          /\ out'.result.overlap = At(l).board \cap At(r).board
      BY <3>1 DEF ConsResult
    <3>. QED
      BY <2>1, <2>2, <3>2 DEF ResultInv
  <2>3. CASE ~(l \in Index /\ r \in Index)
    BY <1>2, <2>3 DEF Cons, ResultInv
  <2>. QED
    BY <2>2, <2>3
<1>3. ASSUME NEW a \in Refs, NEW b \in Refs, Validate(a, b) PROVE ResultInv'
  BY <1>3 DEF Validate, ResultInv
<1>4. ASSUME NEW l \in AnyIndex, NEW r \in AnyIndex, Union(l, r) \/ UnionRefused(l, r)
      PROVE  ResultInv'
  BY <1>4 DEF Union, UnionRefused, ResultInv
<1>5. ASSUME NEW i \in Index, Find(i) PROVE ResultInv'
  BY <1>5 DEF Find, ResultInv
<1>6. CASE UnionFindStep \/ UNCHANGED vars
  BY <1>6 DEF UnionFindStep, vars, board, ResultInv, Index, count, At
<1>. QED
  BY <1>1, <1>2, <1>3, <1>4, <1>5, <1>6 DEF Next

\* A CONS that reports an overlap of two contributions is never ahead of the
\* conflict board: injection had flagged every coordinate of the overlap.
THEOREM BlackboardConsFlagged == Spec => []ConsOverlapFlagged
<1>. DEFINE I == BoardInv /\ UFInv /\ ResultInv
<1>1. Init => I
  BY BoardInitInv DEF Init, ResultInv
<1>2. I /\ [Next]_vars => I'
  BY BoardStepInv, ResultStepInv
<1>3. I => ConsOverlapFlagged
  <2>. SUFFICES ASSUME I, out.call = "cons", out.status = "OK",
                       out.result.left # out.result.right,
                       NEW p \in out.result.overlap
                PROVE  p \in conflict
    BY DEF ConsOverlapFlagged
  <2>1. /\ out.result.left \in Claims(p) /\ out.result.right \in Claims(p)
        /\ out.result.left \in Index
        /\ p \in At(out.result.left).board
    BY DEF ResultInv, Claims
  <2>2. p \in Coord
    BY <2>1, InputsAssumption, ContributionsTyped DEF BoardInv
  <2>. QED
    BY <2>1, <2>2 DEF BoardInv, BoardsExact
<1>. QED
  BY <1>1, <1>2, <1>3, PTL DEF Spec

\* No step takes back what an injection recorded: contributions keep their
\* indices, fibers keep their prefixes, occupancy and conflict only grow.
THEOREM BlackboardOriginsPreserved == Spec => OriginsPreserved
<1>. DEFINE Kept ==
       /\ count' >= count
       /\ \A i \in Index : At(i)' = At(i)
       /\ \A p \in Coord : \A k \in 1 .. Len(fibers[p]) : fibers'[p][k] = fibers[p][k]
       /\ occupancy \subseteq occupancy' /\ conflict \subseteq conflict'
<1>1. ASSUME BoardInv, [Next]_vars PROVE Kept
  <2>1. CASE \E c \in Inputs : Inject(c)
    <3>1. PICK c \in Inputs : Inject(c)
      BY <2>1
    <3>2. /\ count' >= count
          /\ \A i \in Index : At(i)' = At(i)
      BY <1>1, <3>1, AppendAt DEF Inject, BoardInv, TypeOK
    <3>3. ASSUME NEW p \in Coord, NEW k \in 1 .. Len(fibers[p])
          PROVE  fibers'[p][k] = fibers[p][k]
      <4>1. fibers[p] \in Seq(Nat) /\ count \in Nat
        BY <1>1, <3>1, AppendAt DEF Inject, BoardInv, TypeOK
      <4>2. fibers'[p] = fibers[p] \/ fibers'[p] = Append(fibers[p], count)
        BY <3>1 DEF Inject
      <4>. QED
        BY <4>1, <4>2
    <3>4. occupancy \subseteq occupancy' /\ conflict \subseteq conflict'
      BY <3>1 DEF Inject
    <3>. QED
      BY <3>2, <3>3, <3>4
  <2>2. CASE UNCHANGED board
    <3>1. count \in Nat
      BY <1>1 DEF BoardInv, TypeOK, count
    <3>. QED
      BY <2>2, <3>1 DEF board, count, Index, At
  <2>. QED
    BY <1>1, <2>1, <2>2, BoardSteps
<1>2. BoardInv /\ [Next]_vars => [Kept]_vars
  BY <1>1
<1>. HIDE DEF Kept
<1>3. Spec => [][Kept]_vars
  BY <1>2, BoardInitInv, BoardStepInv, PTL DEF Spec
<1>. QED
  BY <1>3 DEF Kept, OriginsPreserved

-----------------------------------------------------------------------------
(* What a refusal and an acceptance leave behind *)

\* Only a call that has been accepted runs the union-find.
BusyOK == pc # "idle" => out.status = "OK"

\* A refusal never starts the union-find, and nothing is answered while it runs.
LEMMA BusyStepInv == ASSUME BusyOK, [Next]_vars PROVE BusyOK'
  BY DEF BusyOK, Next, vars, Inject, InjectRefused, Cons, Validate, Union, UnionRefused,
         Find, UnionFindStep, UFStep, Chase, Compress, FindReturn, Link, StartFind,
         Return, ufvars

\* A call that reports an error has changed nothing at all; an injection writes
\* either everything it has to or nothing, and hands back the index it wrote at.
THEOREM BlackboardRefused == Spec => RefusedChangesNothing
<1>. DEFINE Honest ==
       /\ out'.status # "OK" => UNCHANGED <<board, ufvars>>
       /\ count' # count =>
            /\ out'.call = "inject" /\ out'.status = "OK"
            /\ out'.index = count /\ count' = count + 1
            /\ \A p \in Coord : p \in contributions'[count + 1].board
                                  <=> fibers'[p] = Append(fibers[p], count)
<1>1. ASSUME BoardInv, BusyOK, [Next]_vars PROVE [Honest]_vars
  <2>1. ASSUME NEW c \in Inputs, Inject(c) PROVE Honest
    <3>1. /\ out' = [call |-> "inject", status |-> "OK", index |-> count]
          /\ contributions'[count + 1] = c /\ count' = count + 1
      BY <1>1, <2>1, AppendAt DEF Inject, BoardInv, TypeOK
    <3>2. ASSUME NEW p \in Coord
          PROVE  p \in c.board <=> fibers'[p] = Append(fibers[p], count)
      <4>1. fibers[p] \in Seq(Nat) /\ count \in Nat
        BY <1>1, <2>1, AppendAt DEF Inject, BoardInv, TypeOK
      <4>2. fibers[p] # Append(fibers[p], count)
        <5>1. Len(Append(fibers[p], count)) = Len(fibers[p]) + 1
          BY <4>1
        <5>. QED
          BY <4>1, <5>1
      <4>. QED
        BY <2>1, <4>2 DEF Inject
    <3>. QED
      BY <3>1, <3>2
  <2>2. ASSUME UNCHANGED board PROVE count' = count
    BY <2>2 DEF board, count
  <2>3. CASE UNCHANGED <<board, ufvars>>
    BY <2>2, <2>3
  <2>4. CASE UNCHANGED board /\ out'.status = "OK"
    BY <2>2, <2>4
  <2>. HIDE DEF Honest
  <2>5. CASE UnionFindStep
    <3>1. pc # "idle"
      BY <2>5 DEF UnionFindStep, UFStep, Chase, Compress, FindReturn, Link
    <3>. QED
      BY <1>1, <2>4, <2>5, <3>1 DEF BusyOK, UnionFindStep
  <2>. QED
    BY <1>1, <2>1, <2>3, <2>4, <2>5
    DEF Next, InjectRefused, Cons, Validate, Union, UnionRefused, Find
<1>. HIDE DEF Honest
<1>2. Init => BusyOK
  BY DEF Init, BusyOK
<1>3. Spec => [][Honest]_vars
  BY <1>1, <1>2, BoardInitInv, BoardStepInv, BusyStepInv, PTL DEF Spec
<1>. QED
  BY <1>3 DEF Honest, RefusedChangesNothing

-----------------------------------------------------------------------------
(***************************************************************************)
(* The blackboard implements the abstract coproduct.  The boards and fibers *)
(* are a view of the log at every moment (ViewKnown), the parent pointers   *)
(* show the partition (ClassesKnown), and a link of two classes is one that *)
(* the validation law allows.                                               *)
(***************************************************************************)
ViewKnown == View = Co!ViewOf(contributions)

\* More than one claim means two different ones.
LEMMA TwoOrMore ==
  ASSUME NEW S, IsFiniteSet(S)
  PROVE  /\ Cardinality(S) > 0 <=> S # {}
         /\ Cardinality(S) > 1 <=> \E i, j \in S : i # j
<1>1. Cardinality(S) \in Nat /\ (Cardinality(S) = 0 <=> S = {})
  BY FS_CardinalityType, FS_EmptySet
<1>2. Cardinality(S) = 1 <=> \E i : S = {i}
  BY FS_Singleton
<1>. QED
  BY <1>1, <1>2

\* The abstract module counts as this one does.
LEMMA SameCardinality == \A S : Co!Cardinality(S) = Cardinality(S)
  BY DEF Cardinality, Co!Cardinality

\* The boards and the fibers are what the log says they are.
LEMMA BoardsAreView == BoardInv => ViewKnown
<1>. SUFFICES ASSUME BoardInv PROVE View = Co!ViewOf(contributions)
  BY DEF ViewKnown
<1>1. \A p \in Coord : Fiber(p) = Claims(p) /\ Claims(p) = Co!ClaimsIn(contributions, p)
  BY DEF BoardInv, FibersExact, Fiber, Claims, At, Index, count, Co!ClaimsIn
<1>2. \A p : IsFiniteSet(Claims(p))
  <2>1. IsFiniteSet(Index)
    BY FS_Interval DEF Index, count, BoardInv, TypeOK
  <2>. QED
    BY <2>1, FS_Subset DEF Claims
<1>3. /\ occupancy = {p \in Coord : Cardinality(Claims(p)) > 0}
      /\ conflict = {p \in Coord : Cardinality(Claims(p)) > 1}
  BY <1>2, TwoOrMore DEF BoardInv, BoardsExact
<1>. QED
  BY <1>1, <1>3, SameCardinality DEF View, Co!ViewOf

\* omi_blackboard_init leaves the empty log, its view and the discrete partition.
LEMMA CoproductInit == Init /\ ViewKnown /\ ClassesKnown => Co!CoInit
<1>. SUFFICES ASSUME Init, ViewKnown, ClassesKnown PROVE Co!CoInit
  OBVIOUS
<1>1. Classes = {{i} : i \in 0 .. Size - 1}
  BY RefinementInit DEF Init, Eq!EqInit, Eq!Slot
<1>. QED
  BY <1>1 DEF Init, ViewKnown, View, Fiber, Co!CoInit

\* A fiber with room has room for the abstract blackboard too.
LEMMA FiberCount ==
  ASSUME TypeOK, NEW p \in Coord
  PROVE  Cardinality(Fiber(p)) \in Nat /\ Cardinality(Fiber(p)) <= Len(fibers[p])
<1>. DEFINE n == Len(fibers[p])
            at == [k \in 1 .. n |-> fibers[p][k]]
<1>1. n \in Nat
  BY DEF TypeOK
<1>2. at \in Surjection(1 .. n, Fiber(p))
  BY Fun_IsSurj DEF Fiber
<1>3. IsFiniteSet(1 .. n) /\ Cardinality(1 .. n) = n
  BY <1>1, FS_Interval
<1>4. IsFiniteSet(Fiber(p)) /\ Cardinality(Fiber(p)) <= n
  BY <1>2, <1>3, FS_Surjection
<1>. QED
  BY <1>4, FS_CardinalityType

\* An accepted injection is one step of the abstract blackboard.
LEMMA InjectAccepts ==
  ASSUME BoardInv, ViewKnown, ViewKnown', ClassesKnown, ClassesKnown',
         NEW c \in Inputs, Inject(c)
  PROVE  Co!Accept(c)
<1>1. Len(contributions) < Size /\ contributions' = Append(contributions, c)
  BY DEF Inject, HasRoom, count
<1>2. \A p \in c.board : Cardinality(Fiber(p)) < MaxFiber /\ View.behind[p] = Fiber(p)
  <2>1. \A p \in c.board : p \in Coord /\ Len(fibers[p]) < MaxFiber
    BY InputsAssumption DEF Inject, HasRoom
  <2>2. \A p \in Coord : Len(fibers[p]) \in Nat
    BY DEF BoardInv, TypeOK
  <2>. QED
    BY <2>1, <2>2, FiberCount, FiberAssumption DEF View, BoardInv
<1>3. View' = Co!ViewOf(contributions')
  BY DEF ViewKnown
<1>4. Classes' = Classes
  BY DEF ClassesKnown, Block, Inject, ufvars
<1>. QED
  BY <1>1, <1>2, <1>3, <1>4, SameCardinality DEF Co!Accept

\* A link that fuses two classes fuses only what validation found equivalent,
\* member by member.
LEMMA LinkIdentifies ==
  ASSUME BoardInv, UFInv, FreeInv, PairInv, ClassSound, ClassesKnown, ClassesKnown',
         UNCHANGED board, Link, rootL # root, class' = MergedClass
  PROVE  Co!Identify(Block(rootL), Block(root))
<1>1. /\ class \in [Elem -> Elem] /\ rootL \in Elem /\ root \in Elem
      /\ parent[rootL] = rootL /\ parent[root] = root
      /\ class[rootL] = class[left] /\ class[root] = class[right]
      /\ left \in Index /\ right \in Index /\ Index \subseteq Elem
      /\ Interchangeable(At(left), At(right))
  BY IndexInElem DEF Link, UFInv, UFTypeOK, FindCorrect, FreeInv, PairInv, BoardInv
<1>. DEFINE A == Block(rootL)
            B == Block(root)
<1>2. A # B
  <2>1. class[rootL] # class[root]
    BY <1>1, OneRoot DEF UFInv
  <2>. QED
    BY <1>1, <2>1 DEF Block
<1>3. A \cup B \subseteq Index
  BY <1>1 DEF Block, FreeInv
<1>4. ASSUME NEW i \in A, NEW j \in B PROVE Interchangeable(At(i), At(j))
  <2>1. i \in Index /\ j \in Index /\ class[i] = class[left] /\ class[j] = class[right]
    BY <1>1, <1>3 DEF Block
  <2>2. i = left \/ Interchangeable(At(i), At(left))
    BY <1>1, <2>1 DEF ClassSound, Interchangeable
  <2>3. j = right \/ Interchangeable(At(right), At(j))
    BY <1>1, <2>1 DEF ClassSound, Interchangeable
  <2>. QED
    BY <1>1, <2>2, <2>3, EquivalentSymTrans DEF Interchangeable
<1>5. Classes' = (Classes \ {A, B}) \cup {A \cup B}
  BY LinkFuses DEF Eq!Fuse
<1>6. UNCHANGED <<contributions, View>>
  BY DEF board, View, Fiber
<1>. HIDE DEF A, B
<1>7. Co!Identify(A, B)
  BY <1>2, <1>3, <1>4, <1>5, <1>6 DEF Co!Identify, At, Index, count
<1>. QED
  BY <1>7 DEF A, B

\* Every step is an acceptance, a fusion the law allows, or no abstract step.
LEMMA CoproductStep ==
  ASSUME BoardInv, UFInv, FreeInv, PairInv, ClassSound, [Next]_vars,
         ViewKnown, ViewKnown', ClassesKnown, ClassesKnown'
  PROVE  [Co!CoNext]_<<contributions, View, Classes>>
<1>1. CASE \E c \in Inputs : Inject(c)
  BY <1>1, InjectAccepts DEF Co!CoNext
<1>2. CASE UNCHANGED board /\ class' = class
  BY <1>2 DEF board, View, Fiber, ClassesKnown, Block
<1>3. CASE UNCHANGED board /\ Link /\ rootL # root /\ class' = MergedClass
  <2>1. Block(rootL) \in Classes /\ Block(root) \in Classes
    BY DEF UFInv, UFTypeOK, ClassesKnown
  <2>. QED
    BY <1>3, <2>1, LinkIdentifies DEF Co!CoNext
<1>. QED
  BY <1>1, <1>2, <1>3, BoardSteps, UFProjection, StepOnClass DEF BoardInv

\* With paired clients the whole program, boards, fibers, ranks and half-done
\* compressions, implements the abstract coproduct: an append-only log with its
\* view, and a partition only validated equivalence may coarsen.
THEOREM BlackboardRefinesCoproduct == PairedClient => (Spec => RefinesCoproduct)
<1>. SUFFICES ASSUME PairedClient PROVE Spec => RefinesCoproduct
  OBVIOUS
<1>. DEFINE I == BoardInv /\ UFInv /\ FreeInv /\ PairInv /\ ClassSound /\ RootReached
<1>1. Init => I
  BY BoardInitInv, ClassInitInv, ReachInit DEF Init
<1>2. I /\ [Next]_vars => I'
  BY BoardStepInv, FreeStepInv, PairStepInv, SoundStepInv, ReachStep, UFProjection
  DEF BoardInv
<1>3. I => ViewKnown /\ ClassesKnown
  BY BoardsAreView, RootsAboveSingle, ClassesAreBlocks
<1>4. Init /\ ViewKnown /\ ClassesKnown => Co!CoInit
  BY CoproductInit
<1>5. I /\ ViewKnown /\ ClassesKnown /\ (ViewKnown /\ ClassesKnown)' /\ [Next]_vars
        => [Co!CoNext]_<<contributions, View, Classes>>
  BY CoproductStep
<1>. HIDE DEF I
<1>6. Spec => Co!CoInit /\ [][Co!CoNext]_<<contributions, View, Classes>>
  BY <1>1, <1>2, <1>3, <1>4, <1>5, PTL DEF Spec
<1>. QED
  BY <1>6 DEF RefinesCoproduct, Co!CoSpec

-----------------------------------------------------------------------------
\* Under the blackboard, whatever its clients inject, validate and unite, the union-find
\* makes steps of its own only: its ranks stay logarithmic in the blackboard's size, its
\* compressions change no answer, its classes are those of a partition that coarsens,
\* and every find and every union a client asks for is short.
THEOREM BlackboardKeepsForest ==
  Spec => []RankLogarithmic /\ CompressionPreservesRoots /\ RefinesEquivalence /\ CallShortens
<1>. DEFINE I == BoardInv /\ UFInv
<1>1. Init => I /\ UFInit
  BY BoardInitInv DEF Init
<1>2. I /\ [Next]_vars => I' /\ [UFNext]_ufvars
  BY BoardStepInv, UFProjection DEF BoardInv
<1>. HIDE DEF I
<1>3. Spec => UFRun
  BY <1>1, <1>2, PTL DEF Spec, UFRun
<1>. QED
  BY <1>3, RunRankLogarithmic, RunPreservesRoots, RunRefinesEquivalence, RunShortens, PTL
=============================================================================
