------------------------------- MODULE Harness -------------------------------
(***************************************************************************)
(* main of src/omnicron-coproduct-partition.c, section 12: the one client   *)
(* of the blackboard, the code and the clocks that the program has.  It is  *)
(* a fixed sequence of calls; a section of it is the sequence of its calls  *)
(* and of the values it prints, and each call is the action of the module   *)
(* that models it.                                                          *)
(***************************************************************************)
EXTENDS SelfChecks, Secded, Sequences

CONSTANTS
  Capacity,       \* OMI_MAX_CONTRIBUTIONS, 256 in the program
  FiberRoom,      \* OMI_MAX_FIBER_CONTRIBUTORS, 8 in the program
  None

VARIABLES
  at,             \* how many of the calls have been made
  handle,         \* rules_idx, facts_idx, comb_idx and clos_idx
  printed,        \* what has been printed, in order
  occupancy, conflict, fibers, contributions, witness, out,    \* bb, and its
  parent, rank, pc, op, left, right, element, root, rootL, class,  \* union-find
  state, band, steps, seed, omnion                             \* the three peers

bbvars == <<occupancy, conflict, fibers, contributions, witness, out,
            parent, rank, pc, op, left, right, element, root, rootL, class>>
clkvars == <<state, band, steps, seed, omnion>>
harnessVars == <<at, handle, printed, bbvars, clkvars>>

-----------------------------------------------------------------------------
(* The data of main *)

Wide(high, low) == WordOf(low) \cup {i + 16 : i \in WordOf(high)}

\* omi_make_contribution: a board with a single bit
Contribution(source, car, cdr, scope, profile, bit) ==
  [source |-> source, car |-> car, cdr |-> cdr, scope |-> scope,
   profile |-> WordOf(profile), board |-> {bit}]

Rules == Contribution("RULE", Wide(\h1234, \h5678), Wide(\h89AB, \hCDEF), 0, 1, \h48)
Facts == Contribution("FACT", Wide(\h1122, \h3344), Wide(\h5566, \h7788), 0, 1, \h48)

Combinators ==
  Contribution("COMB", Wide(\hAAAA, \hAAAA), Wide(\h5555, \h5555), 1, 2, \h10)
Closures == [Combinators EXCEPT !.source = "CLOS"]

\* bad_scope_ref names a sector there is none of.
BadScope == [Rules EXCEPT !.scope = 9]

Names == {"rules", "facts", "comb", "clos"}

\* The three of them; the third is initialised last, under another seed.
Peers == {"local", "remote", "drifted"}

\* The program has no pairing rule; Paired is the same blackboard with clients
\* that unite only the pair they validated.
BB == INSTANCE Blackboard WITH
        Size <- Capacity, MaxFiber <- FiberRoom, Coord <- {\h10, \h48},
        Inputs <- {Rules, Facts, Combinators, Closures, BadScope},
        Profiles <- {{0}}, PairedClient <- FALSE

Paired == INSTANCE Blackboard WITH
            Size <- Capacity, MaxFiber <- FiberRoom, Coord <- {\h10, \h48},
            Inputs <- {Rules, Facts, Combinators, Closures, BadScope},
            Profiles <- {{0}}, PairedClient <- TRUE

\* Three ticks of each peer stay far below 2^64.
Clk == INSTANCE ClockViews WITH
         W <- 16, StepModulus <- 8, Peer <- Peers,
         Seed <- {{}, WordOf(\h1234), WordOf(\hFFFF)}

-----------------------------------------------------------------------------
(* The sections of main *)

Section1 == << <<"inject", "rules", Rules>>, <<"inject", "facts", Facts>> >>

Section2And3 == << <<"look", \h48>> >>

Section4 == << <<"cons", "rules", "facts">>, <<"cons", "facts", "rules">> >>

\* The line that prints find(...) of two contributions calls omi_find four times.
Finds(a, b) == << <<"find", a>>, <<"find", b>>, <<"find", a>>, <<"find", b>> >>

Section5 ==
  << <<"validate", Rules, Facts>>,
     <<"show", BB!Resolved(BB!RefOf(Rules)), BB!Resolved(BB!RefOf(Facts))>>,
     <<"union", "rules", "facts">> >> \o Finds("rules", "facts")

\* Mutant: the union names a contribution of the pair before.
Section6Crossed ==
  << <<"inject", "comb", Combinators>>, <<"inject", "clos", Closures>>,
     <<"validate", Combinators, Closures>>, <<"union", "facts", "clos">> >>
  \o Finds("comb", "clos")

Section6 ==
  << <<"inject", "comb", Combinators>>, <<"inject", "clos", Closures>>,
     <<"validate", Combinators, Closures>>, <<"union", "comb", "clos">> >>
  \o Finds("comb", "clos")

Section7 ==
  << <<"show", Clk!Delta(WordOf(\h1234), WordOf(\h5A3C))>>,
     <<"show", [s \in 0 .. 3 |-> SegmentWitness(SectorPrefix[s])]>>,
     <<"show", VerifyAllSegmentWitnesses, VerifyPolybiusDiagonals>>,
     <<"validate", BadScope, BadScope>> >>

Section8 ==
  LET mirrored == PlaneMirror(WordOf(\h48))
  IN  << <<"show", mirrored, PlaneMirror(mirrored)>> >>

Section9 ==
  LET address == WordOf(\hA28B)
      selector == Selector(address)
      index == CHOOSE s \in Selectors : WordOf(s) = selector
  IN  << <<"show", selector, Route(address)>>,
         <<"show", [k \in Corners |-> ForwardMap(index, k)],
                   NibbleCompress(ForwardMap(index, 0))>>,
         <<"show", VerifySelectorRoundtrip, VerifyQuadrantCornerDecode,
                   VerifyQuadrantInteriorDecode, VerifySelectorBusSplit,
                   VerifyCarCdrMirror>> >>

\* FS = RS = US = 1 and GS = 0; then GS, at position 5, is flipped.
Section10 ==
  LET code == Encode({3, 6, 7})
      corrupted == Toggle(code, 5)
  IN  << <<"show", code \cap {1, 2, 4, Omnion}>>,
         <<"show", Verdict(code)>>,
         <<"show", Verdict(corrupted), 5 \in Toggle(corrupted, Syndrome(corrupted))>>,
         <<"show", VerifyAzimuthAnchors, AzimuthDegrees(\h40), AzimuthDegrees(\hC0)>>,
         <<"show", OmnionAzimuth(0), OmnionAzimuth(1), VerifyOmnionAzimuthMirror>> >>

\* The clock that starts at the centroid, tick by tick.
Section11Clock ==
  LET one == Clk!Oscillate({})
      two == Clk!Oscillate(one)
      three == Clk!Oscillate(two)
      view(x) == <<"show", x, Clk!Band(x), Clk!MinuteHand(x), Clk!HourHand(x)>>
  IN  << <<"show", Clk!VerifyR0Involution(WordOf(\h5C23)), Clk!Band({})>>,
         view(one), view(two), view(three) >>

Section11Centroid ==
  << <<"show", Clk!VerifyCentroidAlignment>>,
     <<"show", Clk!VectorToCentroid(WordOf(\h0007), 0),
               Clk!VectorToCentroid(WordOf(\h3030), 0),
               Clk!VectorToCentroid(WordOf(\h8008), 1)>>,
     <<"show", Clk!CentroidState(0), Clk!CentroidState(1),
               Clk!CentroidResolution(WordOf(\h1234), 0),
               Clk!CentroidResolution(WordOf(\h1234), 1)>>,
     <<"show", Clk!CentroidAlignment({}, 0).azimuth, Clk!CentroidAlignment({}, 1).azimuth>> >>

Tock(p) == << <<"tick", p>> >>

Section11Peers ==
  << <<"start", "local", WordOf(\h1234)>>, <<"start", "remote", WordOf(\h1234)>> >>
  \o Tock("local") \o Tock("remote") \o Tock("local") \o Tock("remote")
  \o Tock("local") \o Tock("remote")
  \o << <<"compare", "local", "remote">>, <<"start", "drifted", WordOf(\hFFFF)>> >>
  \o Tock("drifted") \o Tock("drifted") \o Tock("drifted")
  \o << <<"compare", "local", "drifted">>, <<"count">> >>

Script ==
  Section1 \o Section2And3 \o Section4 \o Section5 \o Section6 \o Section7
  \o Section8 \o Section9 \o Section10 \o Section11Clock \o Section11Centroid
  \o Section11Peers

-----------------------------------------------------------------------------
(* The calls *)

Calls(name) == pc = "idle" /\ at < Len(Script) /\ Script[at + 1][1] = name

\* The arguments of the call, from the first one.
Arg(i) == Script[at + 1][i + 1]

Done(lines) == at' = at + 1 /\ printed' = printed \o lines

MainInject ==
  /\ Calls("inject") /\ BB!Inject(Arg(2))
  /\ handle' = [handle EXCEPT ![Arg(1)] = out'.index]
  /\ Done(<< <<out'.index, out'.status>> >>) /\ UNCHANGED clkvars

MainLook ==
  /\ Calls("look")
  /\ Done(<< [k \in DOMAIN fibers[Arg(1)] |-> BB!At(fibers[Arg(1)][k]).source],
             <<Cardinality(occupancy), Cardinality(conflict)>> >>)
  /\ UNCHANGED <<handle, bbvars, clkvars>>

MainCons ==
  /\ Calls("cons") /\ BB!Cons(handle[Arg(1)], handle[Arg(2)], {0})
  /\ Done(<< <<out'.result.word, out'.result.visible, out'.result.route,
               out'.result.selector>> >>)
  /\ UNCHANGED <<handle, clkvars>>

MainValidate ==
  /\ Calls("validate") /\ BB!Validate(BB!RefOf(Arg(1)), BB!RefOf(Arg(2)))
  /\ Done(<<witness'.reason>>) /\ UNCHANGED <<handle, clkvars>>

MainUnion ==
  /\ Calls("union")
  /\ LET l == handle[Arg(1)]
         r == handle[Arg(2)]
     IN  BB!Union(l, r) \/ BB!UnionRefused(l, r)
  /\ Done(<<out'.status>>) /\ UNCHANGED <<handle, clkvars>>

MainFind ==
  /\ Calls("find") /\ BB!Find(handle[Arg(1)])
  /\ Done(<<>>) /\ UNCHANGED <<handle, clkvars>>

\* The call in progress goes on; what omi_find returns is printed.
MainUnionFindStep ==
  /\ BB!UnionFindStep
  /\ printed' = IF op = "find" /\ pc' = "idle" THEN Append(printed, root) ELSE printed
  /\ UNCHANGED <<at, handle, clkvars>>

MainShow ==
  /\ Calls("show") /\ Done(<<Tail(Script[at + 1])>>)
  /\ UNCHANGED <<handle, bbvars, clkvars>>

MainStart ==
  /\ Calls("start") /\ Clk!Restart(Arg(1), Arg(2))
  /\ Done(<<>>) /\ UNCHANGED <<handle, bbvars>>

MainTick ==
  /\ Calls("tick") /\ Clk!Tick(Arg(1))
  /\ Done(<<>>) /\ UNCHANGED <<handle, bbvars>>

MainCompare ==
  /\ Calls("compare")
  /\ Done(<< <<Clk!LooksInSync(Arg(1), Arg(2)), Clk!InSync(Arg(1), Arg(2)),
               state[Arg(1)], state[Arg(2)]>> >>)
  /\ UNCHANGED <<handle, bbvars, clkvars>>

MainCount ==
  /\ Calls("count") /\ Done(<<BB!count>>) /\ UNCHANGED <<handle, bbvars, clkvars>>

\* return 0
MainReturned == at = Len(Script) /\ UNCHANGED harnessVars

HarnessInit ==
  /\ at = 0 /\ handle = [n \in Names |-> None] /\ printed = <<>>
  /\ BB!Init
  /\ state = [p \in Peers |-> {}] /\ seed = state
  /\ band = [p \in Peers |-> Clk!Band({})] /\ steps = [p \in Peers |-> 0] /\ omnion = 0

HarnessNext ==
  \/ MainInject \/ MainLook \/ MainCons \/ MainValidate \/ MainUnion \/ MainFind
  \/ MainUnionFindStep \/ MainShow \/ MainStart \/ MainTick \/ MainCompare \/ MainCount
  \/ MainReturned

HarnessSpec == HarnessInit /\ [][HarnessNext]_harnessVars

-----------------------------------------------------------------------------
(* Properties *)

\* tests/golden/c-runtime-output.txt, line by line: what make run prints.
Golden ==
  << <<0, "OK">>, <<1, "OK">>, <<"RULE", "FACT">>, <<1, 1>>,
     <<Wide(\h8F5A, \h10B3), WordOf(\hB3), "LOCAL", WordOf(1)>>,
     <<Wide(\h6F1B, \h09F5), WordOf(\hF5), "LOCAL", WordOf(1)>>,
     "NO_MATCH", <<Wide(\h6937, \hC38D), Wide(\h8976, \hDACB)>>, "NOT_VALIDATED",
     0, 1, 0, 1,
     <<2, "OK">>, <<3, "OK">>, "RESOLVED_MATCH", "OK", 2, 2, 2, 2,
     <<WordOf(\hEB79)>>, <<[s \in 0 .. 3 |-> WordOf(\h1E)]>>, <<TRUE, TRUE>>,
     "SCOPE_OUT_OF_RANGE",
     <<WordOf(\hC8), WordOf(\h48)>>,
     <<WordOf(5), "REMOTE">>,
     <<[k \in 0 .. 3 |-> WordOf(<<\h8080, \h80F0, \hB0F0, \hB080>>[k + 1])], WordOf(\h88)>>,
     <<TRUE, TRUE, TRUE, TRUE, TRUE>>,
     <<{2}>>, <<"OK">>, <<"CORRECTED_SINGLE", FALSE>>,
     <<TRUE, 90 * 256, 270 * 256>>, <<\h00, \h80, TRUE>>,
     <<TRUE, [width |-> 0, density |-> 0, texture |-> 0]>>,
     <<WordOf(\h1D1D), [width |-> 13, density |-> 8, texture |-> 8],
       WordOf(\h9090), WordOf(\h7B7B)>>,
     <<WordOf(\h8888), [width |-> 16, density |-> 4, texture |-> 8],
       WordOf(\hBBBB), WordOf(\h2222)>>,
     <<WordOf(\h6A6A), [width |-> 15, density |-> 8, texture |-> 12],
       WordOf(\h7E7E), WordOf(\h0C0C)>>,
     <<TRUE>>,
     <<[relative |-> WordOf(\h0007), radius2 |-> 49, direction |-> <<0, 7>>, turned |-> FALSE],
       [relative |-> WordOf(\h3030), radius2 |-> 4608, direction |-> <<48, 48>>, turned |-> FALSE],
       [relative |-> WordOf(\h8008), radius2 |-> 16448, direction |-> <<128, 8>>, turned |-> TRUE]>>,
     <<{}, {}, WordOf(\h1234), WordOf(\h1234)>>,
     <<\h00, \h80>>,
     <<TRUE, TRUE, WordOf(\hA504), WordOf(\hA504)>>,
     <<FALSE, FALSE, WordOf(\hA504), WordOf(\h9595)>>,
     4 >>

\* The components, composed the way main composes them, print what the program
\* prints: the recorded output of the repository, in order and in full.
PrintsGolden ==
  /\ printed = SubSeq(Golden, 1, Len(printed))
  /\ at > 0 /\ at = Len(Script) => printed = Golden

\* main is a client of the paired blackboard: it never unites two contributions on
\* the strength of a witness about two others, so what is proved of classes under
\* that discipline holds of the program.  (The premise changes nothing, and spares
\* TLC the step relation where it has nothing to say.)
MainIsPairedClient == Paired!Init /\ [][bbvars' # bbvars => Paired!Next]_bbvars
=============================================================================
