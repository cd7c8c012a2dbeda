------------------------------ MODULE Blackboard ------------------------------
(***************************************************************************)
(* The coproduct blackboard of src/omnicron-coproduct-partition.c, sections *)
(* 4, 5, 7 and 9: injection of origin-tagged boards, CONS of two of them,   *)
(* validation of an equivalence, and the union it authorises, which runs    *)
(* the union-find of module UnionFind step by step.                         *)
(*                                                                         *)
(* C arrays with a count are sequences here; contribution indices keep      *)
(* their C values, so contributions[i] of the program is At(i).  A board is *)
(* the set of the coordinates whose bit is set.                             *)
(***************************************************************************)
EXTENDS UnionFind, ConsLaw, Sequences, FiniteSets

CONSTANTS
  Coord,              \* the coordinates of the plane, 256 in the program
  MaxFiber,           \* OMI_MAX_FIBER_CONTRIBUTORS
  Inputs,             \* the contributions clients may inject
  Profiles,           \* the resolver profiles clients may pass to CONS
  PairedClient,       \* whether clients only unite the pair they validated
  None                \* no value yet

ASSUME FiberAssumption == MaxFiber \in Nat \ {0}

\* A board is 256 bits wide: it has no bit outside the plane.
ASSUME InputsAssumption == \A c \in Inputs : c.board \subseteq Coord

VARIABLES
  occupancy,          \* union of every injected board
  conflict,           \* coordinates claimed again while occupied
  fibers,             \* per coordinate, the indices of its contributors
  contributions,      \* the contributions accepted, in order
  witness,            \* the OmiValidationResult a client holds, and of what
  out                 \* what the last call handed back

\* Size (UnionFind) is OMI_MAX_CONTRIBUTIONS; W (Words) is 32.
board == <<occupancy, conflict, fibers, contributions>>
vars == <<occupancy, conflict, fibers, contributions, witness, out, ufvars>>

count == Len(contributions)

At(i) == contributions[i + 1]

Index == 0 .. count - 1

\* What a client copies into an OmiContributionRef.
RefOf(c) == [car |-> c.car, cdr |-> c.cdr, profile |-> c.profile, scope |-> c.scope]

Refs == {RefOf(c) : c \in Inputs}

Init ==
  /\ occupancy = {} /\ conflict = {}
  /\ fibers = [p \in Coord |-> <<>>]
  /\ contributions = <<>>
  /\ witness = None
  /\ out = [call |-> "init", status |-> "OK"]
  /\ UFInit

-----------------------------------------------------------------------------
(* omi_blackboard_inject *)

\* Mutant: the capacity check lets one contribution too many in.
HasRoomOffByOne(c) ==
  /\ count <= Size
  /\ \A p \in c.board : Len(fibers[p]) < MaxFiber

HasRoom(c) ==
  /\ count < Size
  /\ \A p \in c.board : Len(fibers[p]) < MaxFiber

\* Injection as the mutants below get it wrong.
InjectWith(c, conflictNext, index) ==
  /\ pc = "idle"
  /\ HasRoom(c)
  /\ conflict' = conflictNext
  /\ occupancy' = occupancy \cup c.board
  /\ fibers' = [p \in Coord |-> IF p \in c.board THEN Append(fibers[p], index)
                                                 ELSE fibers[p]]
  /\ contributions' = Append(contributions, c)
  /\ out' = [call |-> "inject", status |-> "OK", index |-> count]
  /\ UNCHANGED <<witness, ufvars>>

\* Mutant: the overlap is taken after the occupancy board has been updated.
InjectOverlapLate(c) == InjectWith(c, conflict \cup c.board, count)

\* Mutant: the conflict board is overwritten with the new overlap.
InjectOverwrites(c) == InjectWith(c, occupancy \cap c.board, count)

\* Mutant: the fibers get the index after the count has been incremented.
InjectCountFirst(c) == InjectWith(c, conflict \cup (occupancy \cap c.board), count + 1)

Inject(c) ==
  /\ pc = "idle"
  /\ HasRoom(c)
  /\ conflict' = conflict \cup (occupancy \cap c.board)
  /\ occupancy' = occupancy \cup c.board
  /\ fibers' = [p \in Coord |-> IF p \in c.board THEN Append(fibers[p], count)
                                                 ELSE fibers[p]]
  /\ contributions' = Append(contributions, c)
  /\ out' = [call |-> "inject", status |-> "OK", index |-> count]
  /\ UNCHANGED <<witness, ufvars>>

\* Mutant: no preflight, so that the fibers with room have been written when a
\* full one is met.
InjectRefusedHalfway(c) ==
  /\ pc = "idle"
  /\ ~HasRoom(c)
  /\ out' = [call |-> "inject", status |-> "CAPACITY"]
  /\ fibers' = [p \in Coord |->
                  IF count < Size /\ p \in c.board /\ Len(fibers[p]) < MaxFiber
                  THEN Append(fibers[p], count) ELSE fibers[p]]
  /\ UNCHANGED <<occupancy, conflict, contributions, witness, ufvars>>

\* The preflight over all claimed coordinates comes before the first write.
InjectRefused(c) ==
  /\ pc = "idle"
  /\ ~HasRoom(c)
  /\ out' = [call |-> "inject", status |-> "CAPACITY"]
  /\ UNCHANGED <<board, witness, ufvars>>

-----------------------------------------------------------------------------
(* omi_blackboard_cons *)

ConsResult(l, r, profile) ==
  LET word == ConsFold(At(l).car, At(r).cdr, profile)
      overlap == At(l).board \cap At(r).board
  IN  [left |-> l, right |-> r, word |-> word, visible |-> word \cap 0 .. 7,
       overlap |-> overlap, conflict |-> overlap # {},
       route |-> Route(word \cap 0 .. 15),
       selector |-> Selector(word \cap 0 .. 15)]

Cons(l, r, profile) ==
  /\ pc = "idle"
  /\ out' = IF l \in Index /\ r \in Index
            THEN [call |-> "cons", status |-> "OK", result |-> ConsResult(l, r, profile)]
            ELSE [call |-> "cons", status |-> "INVALID_INDEX"]
  /\ UNCHANGED <<board, witness, ufvars>>

-----------------------------------------------------------------------------
(* omi_blackboard_validate_equivalence *)

Resolved(ref) == ConsFold(ref.car, ref.cdr, ref.profile)

\* Mutant: the scopes are never compared, and only the first is tested.
ReasonFirstScope(a, b) ==
  IF ~ScopeCloses(a.scope) THEN "SCOPE_OUT_OF_RANGE"
  ELSE IF a.profile # b.profile THEN "RESOLVER_MISMATCH"
  ELSE IF Resolved(a) = Resolved(b) THEN "RESOLVED_MATCH" ELSE "NO_MATCH"

Reason(a, b) ==
  IF a.scope # b.scope THEN "SCOPE_MISMATCH"
  ELSE IF ~ScopeCloses(a.scope) THEN "SCOPE_OUT_OF_RANGE"
  ELSE IF a.profile # b.profile THEN "RESOLVER_MISMATCH"
  ELSE IF Resolved(a) = Resolved(b) THEN "RESOLVED_MATCH" ELSE "NO_MATCH"

\* The program's result does not say which pair it is about: "about" is what
\* the client that called remembers.
Validate(a, b) ==
  /\ pc = "idle"
  /\ witness' = [about |-> <<a, b>>, reason |-> Reason(a, b)]
  /\ out' = [call |-> "validate", status |-> "OK"]
  /\ UNCHANGED <<board, ufvars>>

Valid == witness.reason = "RESOLVED_MATCH"

-----------------------------------------------------------------------------
(* omi_blackboard_union *)

\* A paired client passes the indices of the two contributions it validated, as
\* the program's own harness does; nothing in omi_blackboard_union asks for it.
Pairs(l, r) ==
  PairedClient => /\ RefOf(At(l)) = witness.about[1]
                  /\ RefOf(At(r)) = witness.about[2]

\* Mutant: the indices are left to the check of omi_union_validated, which
\* knows the capacity only.
UnionUnchecked(l, r) ==
  /\ pc = "idle" /\ witness # None
  /\ Valid
  /\ BeginUnion(l, r)
  /\ out' = [call |-> "union", status |-> "OK"]
  /\ UNCHANGED <<board, witness>>

Union(l, r) ==
  /\ pc = "idle" /\ witness # None
  /\ Valid /\ l \in Index /\ r \in Index
  /\ Pairs(l, r)
  /\ BeginUnion(l, r)
  /\ out' = [call |-> "union", status |-> "OK"]
  /\ UNCHANGED <<board, witness>>

UnionRefused(l, r) ==
  /\ pc = "idle" /\ witness # None
  /\ \/ /\ ~Valid
        /\ out' = [call |-> "union", status |-> "NOT_VALIDATED"]
     \/ /\ Valid /\ ~(l \in Index /\ r \in Index)
        /\ out' = [call |-> "union", status |-> "INVALID_INDEX"]
  /\ UNCHANGED <<board, witness, ufvars>>

\* The harness asks omi_find for the root of an injected contribution.
Find(i) ==
  /\ BeginFind(i)
  /\ out' = [call |-> "find", status |-> "OK"]
  /\ UNCHANGED <<board, witness>>

\* The union-find call in progress goes on; the blackboard waits.
UnionFindStep == UFStep /\ UNCHANGED <<board, witness, out>>

-----------------------------------------------------------------------------

\* Indices a client may pass: those in use and the first one that is not.
AnyIndex == 0 .. count

Next ==
  \/ \E c \in Inputs : Inject(c) \/ InjectRefused(c)
  \/ \E l, r \in AnyIndex, profile \in Profiles : Cons(l, r, profile)
  \/ \E a, b \in Refs : Validate(a, b)
  \/ \E l, r \in AnyIndex : Union(l, r) \/ UnionRefused(l, r)
  \/ \E i \in Index : Find(i)
  \/ UnionFindStep

Spec == Init /\ [][Next]_vars /\ WF_vars(UnionFindStep)

-----------------------------------------------------------------------------
(* Properties *)

\* The indices of the contributions that claim p.
Claims(p) == {i \in Index : p \in At(i).board}

\* The indices recorded behind p.
Fiber(p) == {fibers[p][k] : k \in 1 .. Len(fibers[p])}

TypeOK ==
  /\ UFTypeOK
  /\ contributions \in Seq(Inputs) /\ count <= Size
  /\ occupancy \in SUBSET Coord /\ conflict \in SUBSET Coord
  /\ fibers \in [Coord -> Seq(Nat)]

\* The fiber behind a coordinate lists every contribution that claims it, once
\* each, in the order of injection, and neither it nor the log holds more than
\* there is room for: no origin is lost and none is recorded half (in some of its fibers only).
FibersExact ==
  /\ count <= Size
  /\ \A p \in Coord :
       /\ Fiber(p) = Claims(p)
       /\ \A j, k \in 1 .. Len(fibers[p]) : j < k => fibers[p][j] < fibers[p][k]
       /\ Len(fibers[p]) <= MaxFiber

\* The occupancy board is the union of the boards injected, and a conflict bit
\* says that a coordinate has at least two contributions behind it.
BoardsExact ==
  /\ occupancy = {p \in Coord : Claims(p) # {}}
  /\ conflict = {p \in Coord : \E i, j \in Claims(p) : i # j}

\* Injection only ever adds: what was accepted keeps its index and its place in
\* every fiber, and no coordinate or conflict is withdrawn.
OriginsPreserved ==
  [][/\ count' >= count
     /\ \A i \in Index : At(i)' = At(i)
     /\ \A p \in Coord : \A k \in 1 .. Len(fibers[p]) : fibers'[p][k] = fibers[p][k]
     /\ occupancy \subseteq occupancy' /\ conflict \subseteq conflict']_vars

\* A call that reports an error has changed nothing (partial injection least of
\* all), and an accepted injection hands back the index it is stored at.
RefusedChangesNothing ==
  [][/\ out'.status # "OK" => UNCHANGED <<board, ufvars>>
     /\ count' # count =>
          /\ out'.call = "inject" /\ out'.status = "OK"
          /\ out'.index = count /\ count' = count + 1
          /\ \A p \in Coord : p \in contributions'[count + 1].board
                                <=> fibers'[p] = Append(fibers[p], count)]_vars

\* CONS of two different contributions can overlap only where injection already
\* flagged a conflict.
ConsOverlapFlagged ==
  out.call = "cons" /\ out.status = "OK" =>
    LET res == out.result
    IN  res.left # res.right => res.overlap \subseteq conflict

\* The struct's comment on the conflict board: "set bits where >1 origin-distinct
\* board claims".  One origin that injects twice sets the bit as well.
ConflictOriginDistinct ==
  \A p \in conflict : \E i, j \in Claims(p) : At(i).source # At(j).source

\* What a valid witness says of two refs.
Equivalent(a, b) ==
  /\ a.scope = b.scope /\ ScopeCloses(a.scope)
  /\ a.profile = b.profile
  /\ Resolved(a) = Resolved(b)

\* Two contributions in one class agree in scope, profile and resolved word,
\* whatever chain of unions put them there.
ClassSound ==
  \A i, j \in Index :
    class[i] = class[j] /\ i # j => Equivalent(RefOf(At(i)), RefOf(At(j)))

\* The slots behind the contributions in use (omi_blackboard_init sets all of
\* them up at once) are untouched: no class reaches into them.
FreeSlotsFresh ==
  \A i \in Elem \ Index :
    /\ parent[i] = i /\ rank[i] = 0
    /\ \A j \in Elem : parent[j] = i => j = i

\* The abstract blackboard: the log is the contributions, the view is the three
\* boards, the classes are those the parent pointers show.
Interchangeable(c, d) == Equivalent(RefOf(c), RefOf(d))

View == [occupancy |-> occupancy, conflict |-> conflict,
         behind |-> [p \in Coord |-> Fiber(p)]]

Co == INSTANCE Coproduct WITH
        log <- contributions,
        view <- View,
        partition <- Classes,
        Equivalent <- Interchangeable

\* The blackboard implements the abstract coproduct: one step of it for an
\* accepted injection, one for a union that fuses two classes, none otherwise.
RefinesCoproduct == Co!CoSpec
=============================================================================
