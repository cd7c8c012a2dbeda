------------------------------- MODULE ConsCell -------------------------------
(***************************************************************************)
(* The recovery law of CONS and the routing of its result                   *)
(* (src/omnicron-coproduct-partition.c, sections 6 and 7,                   *)
(* omi_verify_cons_recovery_law): a holder keeps the resolved word, routed  *)
(* by its low half, and the two halves it believes in, and replaces either  *)
(* by what it recovers from the other, under a resolver profile of its own  *)
(* choice.                                                                  *)
(***************************************************************************)
EXTENDS ConsLaw

CONSTANTS Cars,         \* the words a cell may be composed of
          Cdrs,
          Profiles      \* the resolver profiles in use

ASSUME CellAssumption ==
  /\ W > 3
  /\ Cars \subseteq Word /\ Cdrs \subseteq Word
  /\ \A p \in Profiles : p \subseteq 0 .. 15 /\ p \subseteq Bits

VARIABLES
  cell,           \* history: the car, cdr and profile that were composed
  cons,           \* omi_cons_fold of them
  car,            \* the holder's halves
  cdr,
  lastProfile,    \* history: the profile of the last recovery
  faithful        \* history: every recovery used the profile of the cell

cellVars == <<cell, cons, car, cdr, lastProfile, faithful>>

\* What a cell may be composed of.
Composed == [car : Cars, cdr : Cdrs, profile : Profiles]

CellTypeOK ==
  /\ cell \in Composed
  /\ cons \in Word /\ car \in Word /\ cdr \in Word
  /\ lastProfile \in Profiles
  /\ faithful \in BOOLEAN

CellInit ==
  /\ cell \in Composed
  /\ cons = ConsFold(cell.car, cell.cdr, cell.profile)
  /\ car = cell.car /\ cdr = cell.cdr
  /\ lastProfile = cell.profile
  /\ faithful = TRUE

Using(profile) ==
  /\ lastProfile' = profile
  /\ faithful' = (faithful /\ profile = cell.profile)
  /\ UNCHANGED <<cell, cons>>

TakeCar(profile) ==
  /\ car' = RecoverCar(cons, cdr, profile)
  /\ Using(profile)
  /\ UNCHANGED cdr

TakeCdr(profile) ==
  /\ cdr' = RecoverCdr(car, cons, profile)
  /\ Using(profile)
  /\ UNCHANGED car

CellNext == \E profile \in Profiles : TakeCar(profile) \/ TakeCdr(profile)

CellSpec == CellInit /\ [][CellNext]_cellVars

-----------------------------------------------------------------------------
(* Properties *)

\* "Lawful inverse recovery under the same resolver profile": a holder that
\* keeps to the profile of the cell has the composed halves, in whatever order
\* it recovers the one from the other.
SameProfileRecovers == faithful => car = cell.car /\ cdr = cell.cdr

\* The halves a holder has fold to the word it holds under the profile it used
\* last, true halves or not: refolding cannot tell it that it went astray.
RefoldsUnderLast == ConsFold(car, cdr, lastProfile) = cons

\* A first recovery under another profile never gives the composed half: the
\* salts of different profiles never cancel.
WrongProfileShows ==
  [][faithful /\ ~faithful' => car' # cell.car \/ cdr' # cell.cdr]_cellVars

\* The number a set of bits below 256 stands for.
Number == [w \in SUBSET (0 .. 7) |->
             CHOOSE n \in 0 .. 255 : w = {i \in 0 .. 7 : (n \div 2 ^ i) % 2 = 1}]

Row(n) == n \div 16
Column(n) == n % 16

\* The low half of the resolved word, which omi_blackboard_cons routes.
routed == cons \cap 0 .. 15

\* Every word is routed to the selector in whose rectangle of the table its
\* coordinate lies, and to the bus that goes with the selector: 0 .. 3 Local,
\* 4 .. 7 Remote.
InQuadrant ==
  LET n == Number[NibbleCompress(routed)]
      s == Number[Selector(routed)]
      topLeft == SelectorCorner(s, 0)
      bottomRight == SelectorCorner(s, 2)
  IN  /\ Row(n) \in Row(topLeft) .. Row(bottomRight)
      /\ Column(n) \in Column(topLeft) .. Column(bottomRight)
      /\ Route(routed) = IF s < 4 THEN "LOCAL" ELSE "REMOTE"

\* Where the forward map puts the corners of the table.
CornerAddress == [s \in 0 .. 7 |-> [k \in 0 .. 3 |-> ForwardMap(s, k)]]

\* The forward map and the router agree: an address that lands on a corner of
\* selector s is routed to s, and its mirror (bit 7 of the coordinate) lands on
\* the same corner of the selector that differs in the bus only.
CornersDecode ==
  LET address == routed \cap ((4 .. 7) \cup (12 .. 15))
  IN  \A s \in 0 .. 7, k \in 0 .. 3 :
        address = CornerAddress[s][k] =>
          LET mirrored == NibbleInterleave(PlaneMirror(NibbleCompress(routed)))
          IN  /\ Number[Selector(routed)] = s
              /\ mirrored = CornerAddress[(s + 4) % 8][k]
              /\ Route(mirrored) # Route(routed)

\* The router of omi_blackboard_cons as a whole: where a word is sent is where its
\* coordinate lies, and the corners of the table lie where the table says.
RouterLawful == InQuadrant /\ CornersDecode
=============================================================================
