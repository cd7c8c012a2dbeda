------------------------------ MODULE Rtl_proofs ------------------------------
(***************************************************************************)
(* The blocks of verilog/ and the C code beside them agree for all inputs,  *)
(* not for the ones at the borders alone.                                   *)
(***************************************************************************)
EXTENDS Rtl, SequenceTheorems, TLAPS

\* A step of the benches is a step of one block and leaves the others as they are.
LEMMA BenchSteps ==
  ASSUME [Next]_rtlVars
  PROVE  /\ [ScribeNext]_scribeVars
         /\ [SlotsNext]_slotVars
         /\ [ExportNext]_exportVars
         /\ [LambdaNext]_lambdaVars
         /\ [SurfaceNext]_surfaceVars
<1>1. CASE UNCHANGED rtlVars
  BY <1>1 DEF rtlVars
<1>2. CASE bench = "scribe" /\ ScribeNext /\ Idle(Benches \ {bench})
  BY <1>2 DEF Idle, Benches
<1>3. CASE bench = "slots" /\ SlotsNext /\ Idle(Benches \ {bench})
  BY <1>3 DEF Idle, Benches
<1>4. CASE bench = "export" /\ ExportNext /\ Idle(Benches \ {bench})
  BY <1>4 DEF Idle, Benches
<1>5. CASE bench = "lambda" /\ LambdaNext /\ Idle(Benches \ {bench})
  BY <1>5 DEF Idle, Benches
<1>6. CASE bench = "surface" /\ SurfaceNext /\ Idle(Benches \ {bench})
  BY <1>6 DEF Idle, Benches
<1>. QED
  BY <1>1, <1>2, <1>3, <1>4, <1>5, <1>6 DEF Next

-----------------------------------------------------------------------------
(* The place register *)

\* The bit walks through the twenty places and is gone; the register is behind it by
\* the four places it does not have.
PlaceInv ==
  /\ accumulation \in {0, 1, 16, 256, 4096, 65536}
  /\ gauge = IF accumulation = 65536 THEN 0 ELSE accumulation
  /\ ScribeFollows

\* metatron_incidence_scribe.v: the register is the low half of the C accumulator after
\* any commands and resets, and its carry always one of the overflows C reports.
THEOREM PlaceRegisterFollows == Spec => []ScribeFollows
<1>1. Init => PlaceInv
  BY DEF Init, ScribeInit, PlaceInv, ScribeFollows
<1>2. PlaceInv /\ [ScribeNext]_scribeVars => PlaceInv'
  <2>. SUFFICES ASSUME PlaceInv, [ScribeNext]_scribeVars PROVE PlaceInv'
    OBVIOUS
  <2>. USE DEF PlaceInv, ScribeFollows
  <2>1. ASSUME NEW step \in BOOLEAN, Advance(step), ScribeEdge(step) PROVE PlaceInv'
    BY <2>1 DEF Advance, ScribeEdge
  <2>2. CASE ScribeReset
    BY <2>2 DEF ScribeReset
  <2>3. CASE UNCHANGED scribeVars
    BY <2>3 DEF scribeVars
  <2>. QED
    BY <2>1, <2>2, <2>3 DEF ScribeNext
<1>3. PlaceInv => ScribeFollows
  BY DEF PlaceInv
<1>. QED
  BY <1>1, <1>2, <1>3, BenchSteps, PTL DEF Spec

-----------------------------------------------------------------------------
(* The slots *)

\* An index inside the chart is what its slot decomposes into, and the thirteen bits of
\* the sum lose nothing of it.
LEMMA SlotOfIndex ==
  ASSUME NEW f \in Nat, NEW r \in Nat, NEW l \in Nat, ~Fault(f, r, l)
  PROVE  /\ SlotSum(f, r, l) \in Nat /\ SlotSum(f, r, l) < 5040
         /\ SlotSum(f, r, l) \div 720 = f
         /\ (SlotSum(f, r, l) % 720) \div 240 = r
         /\ SlotSum(f, r, l) % 240 = l
<1>1. f <= 6 /\ r <= 2 /\ l < 240
  BY DEF Fault
<1>2. SlotSum(f, r, l) = (f * 720 + r * 240 + l) % 8192
  BY DEF SlotSum
<1>3. SlotSum(f, r, l) = f * 720 + r * 240 + l
  BY <1>1, <1>2
<1>. QED
  BY <1>1, <1>3

\* Twelve low bits leave the number above them alone.
LEMMA TwelveBits ==
  ASSUME NEW a \in Nat, NEW b \in Nat, NEW k \in Nat, NEW m \in Nat, k < 4096, m < 4096,
         4096 * a + k = 4096 * b + m
  PROVE  a = b /\ k = m
<1>1. ~ (a < b)
  OBVIOUS
<1>2. ~ (b < a)
  OBVIOUS
<1>3. a = b
  BY <1>1, <1>2
<1>. QED
  BY <1>3

\* A word is the opcode above twelve bits of the slot.
LEMMA WordOfSlot ==
  ASSUME NEW o \in Nat, NEW s \in Nat, s < 5040
  PROVE  LET w == o * 2 ^ 12 + (s % 2 ^ 12)
         IN  w \div 2 ^ 12 = o /\ s \in {w % 2 ^ 12, (w % 2 ^ 12) + 2 ^ 12}
<1>. DEFINE w == o * 2 ^ 12 + (s % 2 ^ 12)
<1>1. w = 4096 * o + (s % 4096) /\ w \in Nat
  OBVIOUS
<1>. HIDE DEF w
<1>2. /\ w = 4096 * (w \div 4096) + (w % 4096)
      /\ w % 4096 \in Nat /\ w % 4096 < 4096 /\ w \div 4096 \in Nat
  BY <1>1
<1>3. /\ s % 4096 \in Nat /\ s % 4096 < 4096
      /\ s = s % 4096 \/ s = (s % 4096) + 4096
  OBVIOUS
<1>4. w \div 4096 = o /\ w % 4096 = s % 4096
  <2>. DEFINE a == w \div 4096
              k == w % 4096
              m == s % 4096
  <2>1. a \in Nat /\ k \in Nat /\ m \in Nat /\ k < 4096 /\ m < 4096
        /\ 4096 * a + k = 4096 * o + m
    BY <1>1, <1>2, <1>3
  <2>. HIDE DEF a, k, m
  <2>2. a = o /\ k = m
    BY <2>1, TwelveBits
  <2>. QED
    BY <2>2 DEF a, k, m
<1>5. w \div 2 ^ 12 = o /\ s \in {w % 2 ^ 12, (w % 2 ^ 12) + 2 ^ 12}
  BY <1>3, <1>4
<1>. QED
  BY <1>5 DEF w

SlotInv ==
  /\ slot \in Nat /\ slot < 5040
  /\ SlotDecodes

\* fano_slot_scheduler.v into eal_meta_assembler.v, for every index, opcode and token:
\* what a slot and a word are of can be read back from them, whatever came before.
THEOREM SlotsDecode == Spec => []SlotDecodes
<1>1. Init => SlotInv
  BY DEF Init, SlotsInit, SlotInv, SlotDecodes
<1>2. SlotInv /\ [SlotsNext]_slotVars => SlotInv'
  <2>. SUFFICES ASSUME SlotInv, [SlotsNext]_slotVars PROVE SlotInv'
    OBVIOUS
  <2>1. ASSUME NEW f \in Fano, NEW r \in Role, NEW l \in Local, NEW opcode \in Opcode,
               NEW token \in Token, Schedule(f, r, l), Assemble(opcode, token)
        PROVE  SlotInv'
    <3>1. f \in Nat /\ r \in Nat /\ l \in Nat /\ opcode \in Nat /\ token \in Nat
      BY SlotsAssumption
    <3>2. /\ tuple' = <<f, r, l>> /\ fault' = Fault(f, r, l)
          /\ slot' = IF Fault(f, r, l) THEN 0 ELSE SlotSum(f, r, l)
      BY <2>1, Zenon DEF Schedule
    <3>3. fault' => slot' = 0
      BY <3>2, Zenon
    <3>10. slot' \in Nat /\ slot' < 5040
      <4>1. CASE Fault(f, r, l)
        <5>1. slot' = 0
          BY <3>2, <4>1, Zenon
        <5>. QED
          BY <5>1
      <4>2. CASE ~Fault(f, r, l)
        <5>1. slot' = SlotSum(f, r, l)
          BY <3>2, <4>2, Zenon
        <5>2. SlotSum(f, r, l) \in Nat /\ SlotSum(f, r, l) < 5040
          BY <3>1, <4>2, SlotOfIndex
        <5>. QED
          BY <5>1, <5>2
      <4>. QED
        BY <4>1, <4>2
    <3>4. ASSUME ~fault'
          PROVE  tuple' = <<slot' \div 720, (slot' % 720) \div 240, slot' % 240>>
      <4>1. ~Fault(f, r, l)
        BY <3>2, <3>4, Zenon
      <4>2. slot' = SlotSum(f, r, l)
        BY <3>2, <4>1, Zenon
      <4>3. /\ f = SlotSum(f, r, l) \div 720
            /\ r = (SlotSum(f, r, l) % 720) \div 240
            /\ l = SlotSum(f, r, l) % 240
        BY <3>1, <4>1, SlotOfIndex
      <4>. QED
        BY <3>2, <4>2, <4>3
    <3>5. slot \in Nat /\ slot < 5040
      BY DEF SlotInv
    <3>6. lowered' = <<opcode, slot, token>> /\ ready' = (token <= 127)
          /\ word' = (IF token <= 127 THEN Compiled(opcode) ELSE 0)
          /\ centroidCore' = (token <= 127 => Compiled(opcode) = 0)
      BY <2>1, <3>5 DEF Assemble
    <3>7. /\ Compiled(opcode) \div 2 ^ 12 = opcode
          /\ slot \in {Compiled(opcode) % 2 ^ 12, (Compiled(opcode) % 2 ^ 12) + 2 ^ 12}
      <4>. DEFINE w == opcode * 2 ^ 12 + (slot % 2 ^ 12)
      <4>1. w \div 2 ^ 12 = opcode /\ slot \in {w % 2 ^ 12, (w % 2 ^ 12) + 2 ^ 12}
        BY <3>1, <3>5, WordOfSlot
      <4>2. Compiled(opcode) = w
        BY DEF Compiled
      <4>. HIDE DEF w
      <4>. QED
        BY <4>1, <4>2
    <3>8. ready' => /\ word' \div 2 ^ 12 = lowered'[1]
                    /\ lowered'[2] \in {word' % 2 ^ 12, (word' % 2 ^ 12) + 2 ^ 12}
      BY <3>6, <3>7
    <3>9. centroidCore' <=> word' = 0
      BY <3>6
    <3>11. ready' <=> lowered'[3] <= 127
      BY <3>6
    <3>. QED
      BY <3>2, <3>3, <3>10, <3>4, <3>8, <3>9, <3>11 DEF SlotInv, SlotDecodes
  <2>2. CASE SlotsReset
    BY <2>2 DEF SlotsReset, SlotInv, SlotDecodes
  <2>3. CASE UNCHANGED slotVars
    BY <2>3 DEF slotVars, SlotInv, SlotDecodes
  <2>. QED
    BY <2>1, <2>2, <2>3 DEF SlotsNext
<1>3. SlotInv => SlotDecodes
  BY DEF SlotInv
<1>. QED
  BY <1>1, <1>2, <1>3, BenchSteps, PTL DEF Spec

-----------------------------------------------------------------------------
(* The quadratic form *)

\* What C filled in is of the coordinates of the last call, but for the centroid flag a
\* refused call leaves behind.
EngineState ==
  [x : Nat, y : Nat, band : {SurfaceBand(token) : token \in Nat}, root : Nat,
   centroid : BOOLEAN]

FormInv ==
  /\ engine \in EngineState
  /\ status = "OK" => (engine.centroid <=> engine.x = 0 /\ engine.y = 0)
  /\ LambdaAgrees

\* A structure filled by an accepted call shows its own centroid.
LEMMA ReconciledShows ==
  ASSUME NEW x \in Nat, NEW y \in Nat, NEW token \in Nat
  PROVE  /\ Reconciled(x, y, token) \in EngineState
         /\ Reconciled(x, y, token).x = x /\ Reconciled(x, y, token).y = y
         /\ Reconciled(x, y, token).root = Root(x, y)
         /\ Reconciled(x, y, token).centroid <=> x = 0 /\ y = 0
<1>1. Root(x, y) \in Nat /\ (x = 0 /\ y = 0 => Root(x, y) = 0)
  BY DEF Root
<1>. HIDE DEF Root
<1>. QED
  BY <1>1 DEF Reconciled, EngineState

\* eal_lambda_canon_core.v against esp32_reconcile_interface, for every coordinate and
\* token: the block admits nothing C refuses, and below 2^18 they agree on the form.
THEOREM LambdaFollows == Spec => []LambdaAgrees
<1>1. Init => FormInv
  <2>. SUFFICES ASSUME Init PROVE FormInv
    OBVIOUS
  <2>1. PICK x \in Segment, y \in Segment, token \in Character : engine = Reconciled(x, y, token)
    BY DEF Init, LambdaInit
  <2>2. x \in Nat /\ y \in Nat /\ token \in Nat
    BY LambdaAssumption
  <2>3. shown = <<>>
    BY DEF Init, LambdaInit
  <2>4. /\ engine \in EngineState
        /\ engine.centroid <=> engine.x = 0 /\ engine.y = 0
    BY <2>1, <2>2, ReconciledShows
  <2>. QED
    BY <2>3, <2>4, Zenon DEF FormInv, LambdaAgrees
<1>2. FormInv /\ [LambdaNext]_lambdaVars => FormInv'
  <2>. SUFFICES ASSUME FormInv, [LambdaNext]_lambdaVars PROVE FormInv'
    OBVIOUS
  <2>1. ASSUME NEW x \in Segment, NEW y \in Segment, NEW token \in Character,
               NEW parityOk \in BOOLEAN, Present(x, y, token, parityOk)
        PROVE  FormInv'
    <3>1. x \in Nat /\ y \in Nat /\ token \in Nat
      BY LambdaAssumption
    <3>2. shown' = [x |-> x, y |-> y, token |-> token]
      BY <2>1 DEF Present
    <3>3. /\ reg'.admissible => token <= 127
          /\ reg'.boundary <=> token = 128
          /\ reg'.void <=> LinearSum(x, y) = 0
          /\ reg'.admissible => reg'.root = LinearSum(x, y)
      BY <2>1 DEF Present, LambdaEdge
    <3>4. Root(x, y) < 2 ^ 18 => LinearSum(x, y) = Root(x, y)
      BY <3>1 DEF LinearSum, Root
    <3>5. Root(x, y) = 0 <=> x = 0 /\ y = 0
      BY <3>1 DEF Root
    <3>6. CASE token <= 127
      <4>1. engine' = Reconciled(x, y, token) /\ status' = "OK"
        BY <2>1, <3>6 DEF Present, Reconcile
      <4>2. /\ engine' \in EngineState
            /\ engine'.x = x /\ engine'.y = y /\ engine'.root = Root(x, y)
            /\ engine'.centroid <=> x = 0 /\ y = 0
        BY <3>1, <4>1, ReconciledShows
      <4>3. token # 128
        BY <3>1, <3>6
      <4>4. shown'.x = x /\ shown'.y = y
        BY <3>2
      <4>5. /\ ~reg'.boundary
            /\ reg'.admissible /\ Root(x, y) < 2 ^ 18 => reg'.root = engine'.root
            /\ Root(x, y) < 2 ^ 18 => (reg'.void <=> engine'.x = 0 /\ engine'.y = 0)
        BY <3>3, <3>4, <3>5, <4>2, <4>3
      <4>6. (status' = "OK" => (engine'.centroid <=> engine'.x = 0 /\ engine'.y = 0))
            /\ (engine'.centroid # (engine'.x = 0 /\ engine'.y = 0) => status' = "BAND_BREACH")
        BY <4>1, <4>2 DEF EngineState
      <4>7. LambdaAgrees'
        BY <4>1, <4>4, <4>5, <4>6, Zenon DEF LambdaAgrees
      <4>. QED
        BY <4>2, <4>6, <4>7, Zenon DEF FormInv
    <3>7. CASE ~ (token <= 127)
      <4>1. engine' = [engine EXCEPT !.x = x, !.y = y] /\ status' = "BAND_BREACH"
        BY <2>1, <3>7 DEF Present, Reconcile
      <4>2. /\ engine' \in EngineState
            /\ engine'.x = x /\ engine'.y = y
        BY <3>1, <4>1 DEF FormInv, EngineState
      <4>. QED
        BY <3>2, <3>3, <3>4, <3>5, <3>7, <4>1, <4>2 DEF FormInv, LambdaAgrees
    <3>. QED
      BY <3>6, <3>7
  <2>2. CASE LambdaReset
    BY <2>2 DEF LambdaReset, FormInv, LambdaAgrees
  <2>3. CASE UNCHANGED lambdaVars
    BY <2>3 DEF lambdaVars, FormInv, LambdaAgrees
  <2>. QED
    BY <2>1, <2>2, <2>3 DEF LambdaNext
<1>3. FormInv => LambdaAgrees
  BY DEF FormInv
<1>. QED
  BY <1>1, <1>2, <1>3, BenchSteps, PTL DEF Spec

-----------------------------------------------------------------------------
(* The byte surface *)

\* What is presented fits eight bits.
LEMMA EightBits ==
  /\ \A x \in FieldX : x \in 0 .. 255 /\ x \in Nat
  /\ \A y \in UnitY : y \in 0 .. 255
  /\ \A b \in StreamByte : b \in 0 .. 255
<1>1. \A n \in FieldX \cup UnitY \cup StreamByte : n \in 0 .. 255
  BY SurfaceAssumption, Zenon
<1>2. \A n \in 0 .. 255 : n \in Nat
  OBVIOUS
<1>. QED
  BY <1>1, <1>2, Zenon

\* The sixteen bits of a product of two bytes are all of it.
LEMMA WireEnergyFits ==
  ASSUME NEW x \in 0 .. 255, NEW y \in 0 .. 255
  PROVE  WireEnergy(x, y) = Energy(x, y)
<1>1. ASSUME NEW a \in 0 .. 255, NEW b \in 0 .. 255
      PROVE  (a * b) % 2 ^ 16 = a * b /\ a * b \in Nat
  <2>1. a * b \in Nat /\ a * b < 65536
    <3>1. a * b \in Nat /\ a * b <= a * 255
      BY <1>1
    <3>2. a * 255 <= 65025
      BY <1>1
    <3>. QED
      BY <3>1, <3>2
  <2>2. 2 ^ 16 = 65536
    OBVIOUS
  <2>3. (a * b) % 65536 = a * b
    <3>. DEFINE n == a * b
    <3>1. n \in Nat /\ n < 65536
      BY <2>1
    <3>. HIDE DEF n
    <3>2. n % 65536 = n
      BY <3>1
    <3>. QED
      BY <3>2 DEF n
  <2>. QED
    BY <2>1, <2>2, <2>3
<1>2. WireEnergy(x, y) = 60 * (x * x) + 16 * (x * y) + 4 * (y * y)
  BY <1>1 DEF WireEnergy
<1>3. 60 * x * x = 60 * (x * x) /\ 16 * x * y = 16 * (x * y) /\ 4 * y * y = 4 * (y * y)
  BY <1>1
<1>. QED
  BY <1>2, <1>3 DEF Energy

\* The two classifiers of a byte meet, the nibble 0xB begins where the highest band does,
\* and the block's are those of C.
LEMMA NibbleIsBand ==
  ASSUME NEW b \in 0 .. 255
  PROVE  /\ Delineated(b) <=> ByteBand(b) = 2
         /\ WireBand(b) = ByteBand(b) /\ WireDelineated(b) = Delineated(b)
<1>1. Delineated(b) <=> ByteBand(b) = 2
  BY DEF Delineated, ByteBand
<1>2. WireBand(b) = ByteBand(b)
  BY DEF WireBand, ByteBand
<1>3. (b \div 2 ^ 4) % 2 ^ 4 = b \div 16
  <2>1. 2 ^ 4 = 16
    OBVIOUS
  <2>2. (b \div 16) % 16 = b \div 16
    OBVIOUS
  <2>. QED
    BY <2>1, <2>2
<1>4. WireDelineated(b) = Delineated(b)
  BY <1>3 DEF WireDelineated, Delineated
<1>. QED
  BY <1>1, <1>2, <1>4, Zenon

\* The registers are those of the last edge; the structure is that of the last byte and
\* of the field accepted last since, whatever was refused in between.
SurfaceInv ==
  /\ DOMAIN res = {"energy", "band", "delineation"}
  /\ byte # 256 =>
       /\ byte \in StreamByte
       /\ res.band = ByteBand(byte) /\ res.delineation = Delineated(byte)
       /\ surface = IF byte = 0 THEN "ZERO_LEAK" ELSE "OK"
       /\ field = <<>> => res.energy = 0
  /\ field # <<>> =>
       /\ field = <<field[1], field[2]>> /\ field[1] \in FieldX /\ field[2] \in UnitY
       /\ res.energy = Energy(field[1], field[2])
       /\ quadrant = "OK" => field = asked
  /\ asked # <<>> => (quadrant = "OK" <=> asked[1] < 240)
  /\ input = <<>> => resolver = ResetResolver
  /\ input # <<>> =>
       /\ input.x \in FieldX /\ input.y \in UnitY /\ input.byte \in StreamByte
       /\ resolver = [energy |-> WireEnergy(input.x, input.y), band |-> WireBand(input.byte),
                      delineation |-> WireDelineated(input.byte), trap |-> input.byte = 0]

LEMMA SurfaceKnown == SurfaceInv => SurfaceAgrees
<1>. SUFFICES ASSUME SurfaceInv PROVE SurfaceAgrees
  OBVIOUS
<1>1. field # <<>> => res.energy = Energy(field[1], field[2])
  BY DEF SurfaceInv
<1>2. byte # 256 => /\ field = <<>> => res.energy = 0
                    /\ res.delineation <=> res.band = 2
  <2>. SUFFICES ASSUME byte # 256
                PROVE  (field = <<>> => res.energy = 0) /\ (res.delineation <=> res.band = 2)
    OBVIOUS
  <2>1. /\ byte \in 0 .. 255 /\ res.band = ByteBand(byte) /\ res.delineation = Delineated(byte)
        /\ field = <<>> => res.energy = 0
    BY EightBits DEF SurfaceInv
  <2>2. Delineated(byte) <=> ByteBand(byte) = 2
    BY <2>1, NibbleIsBand
  <2>. QED
    BY <2>1, <2>2, Zenon
<1>3. asked # <<>> => (quadrant = "OK" <=> asked[1] < 240)
  BY DEF SurfaceInv
<1>4. field # <<>> /\ quadrant = "OK" => field = asked
  BY DEF SurfaceInv
<1>5. resolver.delineation <=> resolver.band = 2
  <2>1. CASE input = <<>>
    <3>1. resolver.delineation = FALSE /\ resolver.band = 0
      BY <2>1 DEF SurfaceInv, ResetResolver
    <3>. QED
      BY <3>1
  <2>2. CASE input # <<>>
    <3>0. input.byte \in StreamByte
      BY <2>2 DEF SurfaceInv
    <3>1. /\ input.byte \in 0 .. 255
          /\ resolver.band = WireBand(input.byte)
          /\ resolver.delineation = WireDelineated(input.byte)
      <4>1. input.byte \in 0 .. 255
        BY <3>0, EightBits
      <4>. QED
        BY <2>2, <4>1 DEF SurfaceInv
    <3>2. WireDelineated(input.byte) <=> WireBand(input.byte) = 2
      BY <3>1, NibbleIsBand
    <3>. QED
      BY <3>1, <3>2, Zenon
  <2>. QED
    BY <2>1, <2>2
<1>6. ASSUME input # <<>>, field = <<input.x, input.y>> PROVE res.energy = resolver.energy
  <2>1. field # <<>> /\ field[1] = input.x /\ field[2] = input.y
    BY <1>6
  <2>2. input.x \in 0 .. 255 /\ input.y \in 0 .. 255
    BY <1>6, EightBits DEF SurfaceInv
  <2>3. resolver.energy = WireEnergy(input.x, input.y)
    BY <1>6 DEF SurfaceInv
  <2>4. res.energy = Energy(input.x, input.y)
    BY <1>1, <2>1
  <2>. QED
    BY <2>2, <2>3, <2>4, WireEnergyFits
<1>7. ASSUME input # <<>>, byte = input.byte
      PROVE  /\ <<res.band, res.delineation>> = <<resolver.band, resolver.delineation>>
             /\ (surface = "ZERO_LEAK") = resolver.trap
  <2>1. byte # 256
    <3>1. input.byte \in StreamByte
      BY <1>7 DEF SurfaceInv
    <3>2. byte \in 0 .. 255
      BY <1>7, <3>1, EightBits, Zenon
    <3>. QED
      BY <3>2
  <2>2. /\ res.band = ByteBand(byte) /\ res.delineation = Delineated(byte)
        /\ surface = IF byte = 0 THEN "ZERO_LEAK" ELSE "OK"
    BY <2>1 DEF SurfaceInv
  <2>3. /\ resolver.band = ByteBand(byte) /\ resolver.delineation = Delineated(byte)
        /\ resolver.trap = (byte = 0)
    <3>1. /\ resolver.band = WireBand(byte) /\ resolver.delineation = WireDelineated(byte)
          /\ resolver.trap = (byte = 0)
      BY <1>7 DEF SurfaceInv
    <3>2. byte \in 0 .. 255
      BY <2>1, EightBits DEF SurfaceInv
    <3>3. WireBand(byte) = ByteBand(byte) /\ WireDelineated(byte) = Delineated(byte)
      BY <3>2, NibbleIsBand
    <3>. QED
      BY <3>1, <3>3
  <2>4. (surface = "ZERO_LEAK") = (byte = 0)
    BY <2>2
  <2>. QED
    BY <2>2, <2>3, <2>4, Zenon
<1>. QED
  BY <1>1, <1>2, <1>3, <1>4, <1>5, <1>6, <1>7 DEF SurfaceAgrees

\* The two calls of omnicron_epistemic_core.c in any order on one structure, beside
\* omnicron_bqf_resolver.v: the structure is that of the last byte and of the field
\* accepted last since, refused ones notwithstanding, and the block agrees with it.
THEOREM SurfaceFollows == Spec => []SurfaceAgrees
<1>1. Init => SurfaceInv
  <2>. SUFFICES ASSUME Init PROVE SurfaceInv
    OBVIOUS
  <2>1. /\ byte = 256 /\ field = <<>> /\ asked = <<>> /\ input = <<>>
        /\ resolver = ResetResolver
    BY DEF Init, SurfaceInit
  <2>2. DOMAIN res = {"energy", "band", "delineation"}
    BY DEF Init, SurfaceInit, Leftover
  <2>. QED
    BY <2>1, <2>2, Zenon DEF SurfaceInv
<1>2. SurfaceInv /\ [SurfaceNext]_surfaceVars => SurfaceInv'
  <2>. SUFFICES ASSUME SurfaceInv, [SurfaceNext]_surfaceVars PROVE SurfaceInv'
    OBVIOUS
  <2>. USE DEF SurfaceInv
  <2>1. ASSUME NEW b \in StreamByte, ByteSurface(b) PROVE SurfaceInv'
    <3>1. /\ res' = [energy |-> 0, band |-> ByteBand(b), delineation |-> Delineated(b)]
          /\ surface' = (IF b = 0 THEN "ZERO_LEAK" ELSE "OK")
          /\ byte' = b /\ field' = <<>>
          /\ UNCHANGED <<quadrant, asked, resolver, input>>
      BY <2>1, Zenon DEF ByteSurface
    <3>2. /\ DOMAIN res' = {"energy", "band", "delineation"}
          /\ res'.energy = 0 /\ res'.band = ByteBand(b) /\ res'.delineation = Delineated(b)
      BY <3>1
    <3>. QED
      BY <3>1, <3>2
  <2>2. ASSUME NEW x \in FieldX, NEW y \in UnitY, Quadrant(x, y) PROVE SurfaceInv'
    <3>1. asked' = <<x, y>> /\ UNCHANGED <<surface, byte, resolver, input>>
      BY <2>2 DEF Quadrant
    <3>2. asked' # <<>> /\ asked'[1] = x /\ x \in Nat
      <4>1. asked' # <<>> /\ asked'[1] = x
        BY <3>1
      <4>2. x \in Nat
        BY EightBits, Zenon
      <4>. QED
        BY <4>1, <4>2
    <3>3. CASE x >= 240
      <4>1. quadrant' = "DELINEATION_BREACH" /\ UNCHANGED <<res, field>>
        BY <2>2, <3>3 DEF Quadrant
      <4>2. ~(x < 240)
        BY <3>2, <3>3
      <4>. QED
        BY <3>1, <3>2, <4>1, <4>2
    <3>4. CASE ~(x >= 240)
      <4>1. /\ quadrant' = "OK" /\ field' = <<x, y>>
            /\ res' = [res EXCEPT !.energy = Energy(x, y)]
        BY <2>2, <3>4 DEF Quadrant
      <4>2. field' # <<>> /\ field'[1] = x /\ field'[2] = y /\ x < 240
        BY <3>2, <3>4, <4>1
      <4>3. /\ DOMAIN res' = {"energy", "band", "delineation"}
            /\ res'.energy = Energy(x, y)
            /\ res'.band = res.band /\ res'.delineation = res.delineation
        BY <4>1
      <4>. QED
        BY <3>1, <3>2, <4>1, <4>2, <4>3
    <3>. QED
      BY <3>3, <3>4
  <2>3. ASSUME NEW x \in FieldX, NEW y \in UnitY, NEW b \in StreamByte, ResolverEdge(x, y, b)
        PROVE  SurfaceInv'
    <3>1. /\ resolver' = [energy |-> WireEnergy(x, y), band |-> WireBand(b),
                          delineation |-> WireDelineated(b), trap |-> b = 0]
          /\ input' = [x |-> x, y |-> y, byte |-> b]
          /\ UNCHANGED <<res, surface, quadrant, byte, asked, field>>
      BY <2>3, Zenon DEF ResolverEdge
    <3>2. input' # <<>> /\ input'.x = x /\ input'.y = y /\ input'.byte = b
      BY <3>1
    <3>. QED
      BY <3>1, <3>2
  <2>4. CASE SurfaceReset
    BY <2>4 DEF SurfaceReset
  <2>5. CASE UNCHANGED surfaceVars
    BY <2>5 DEF surfaceVars
  <2>. QED
    BY <2>1, <2>2, <2>3, <2>4, <2>5 DEF SurfaceNext
<1>. QED
  BY <1>1, <1>2, SurfaceKnown, BenchSteps, PTL DEF Spec

-----------------------------------------------------------------------------
(* The comparators *)

\* The images a caller has: the root in two bytes behind the header, or the header
\* alone, and signed as they are.
ImageShape(image) ==
  /\ image.root \in Nat
  /\ image.signature = Signature(image.data)
  /\ \/ image.data = <<0, image.root \div Byte, image.root % Byte>>
     \/ image.data = <<0>>

LEMMA ImagesShaped == \A image \in Images : ImageShape(image)
<1>1. ASSUME NEW x \in Segments, NEW y \in Segments
      PROVE  LET i == Compile(x, y)
             IN  /\ i.root \in Nat /\ i.signature = Signature(i.data)
                 /\ i.data = <<0, i.root \div Byte, i.root % Byte>>
                 /\ Shortened(i).root = i.root
                 /\ Shortened(i).data = <<0>> /\ Shortened(i).signature = Signature(<<0>>)
  <2>. DEFINE root == LinearRoot(x, y)
              data == <<0, root \div Byte, root % Byte>>
              i == Compile(x, y)
  <2>1. root \in Nat
    BY ExportAssumption DEF LinearRoot
  <2>2. i = [data |-> data, root |-> root, signature |-> Signature(data)]
    BY DEF Compile
  <2>3. Head(data) = 0
    OBVIOUS
  <2>. HIDE DEF data, root, i
  <2>4. i.data = data /\ i.root = root /\ i.signature = Signature(data)
    BY <2>2
  <2>5. Shortened(i) = [i EXCEPT !.data = <<0>>, !.signature = Signature(<<0>>)]
    <3>1. <<Head(i.data)>> = <<0>>
      BY <2>3, <2>4
    <3>. QED
      BY <3>1, Zenon DEF Shortened
  <2>6. Shortened(i).root = root /\ Shortened(i).data = <<0>>
        /\ Shortened(i).signature = Signature(<<0>>)
    BY <2>2, <2>5
  <2>. QED
    BY <2>1, <2>4, <2>6 DEF i, data
<1>2. ASSUME NEW image \in Images PROVE ImageShape(image)
  <2>1. PICK x \in Segments, y \in Segments :
          image = Compile(x, y) \/ image = Shortened(Compile(x, y))
    BY DEF Images
  <2>. QED
    BY <1>1, <2>1 DEF ImageShape
<1>. QED
  BY <1>2

\* A number is known by its quotient and its remainder.
LEMMA RootInTwoBytes ==
  ASSUME NEW p \in Nat, NEW q \in Nat, p \div Byte = q \div Byte, p % Byte = q % Byte
  PROVE  p = q
<1>1. Byte \in Nat /\ Byte > 0
  BY ExportAssumption
<1>2. p = Byte * (p \div Byte) + (p % Byte) /\ q = Byte * (q \div Byte) + (q % Byte)
  BY <1>1
<1>. QED
  BY <1>2

\* The bytes both sides have presented.
Seen == {i \in 1 .. 3 : i <= sent.eal /\ i <= sent.void}

\* An image of one byte beside one of three leaves one byte to compare.
LEMMA SeenOne ==
  ASSUME \/ sent.eal = 1 /\ sent.void = 3
         \/ sent.eal = 3 /\ sent.void = 1
  PROVE  Seen = {1}
  BY DEF Seen

\* In step, one side is ahead only of a side that has ended, and the lock tells whether
\* the bytes seen of both differ anywhere.
ExportInv ==
  /\ eal \in Images /\ void \in Images
  /\ sent \in [eal : 0 .. Len(eal.data), void : 0 .. Len(void.data)]
  /\ ~identityOk => lock
  /\ inStep =>
       /\ \/ sent.eal = sent.void
          \/ sent.void = Len(void.data) /\ sent.void < sent.eal
          \/ sent.eal = Len(eal.data) /\ sent.eal < sent.void
       /\ lock <=> \E i \in Seen : eal.data[i] # void.data[i]

LEMMA VerdictKnown == ExportInv => ExportVerdict
<1>. SUFFICES ASSUME ExportInv PROVE ExportVerdict
  OBVIOUS
<1>1. ImageShape(eal) /\ ImageShape(void)
  BY ImagesShaped DEF ExportInv
<1>. DEFINE a == eal.data
            b == void.data
            p == eal.root
            q == void.root
<1>2. /\ p \in Nat /\ (a = <<0, p \div Byte, p % Byte>> \/ a = <<0>>)
      /\ q \in Nat /\ (b = <<0, q \div Byte, q % Byte>> \/ b = <<0>>)
      /\ eal.signature = Signature(a) /\ void.signature = Signature(b)
  BY <1>1 DEF ImageShape
<1>3. /\ Presented => sent.eal = Len(a) /\ sent.void = Len(b)
      /\ inStep => (lock <=> \E i \in Seen : a[i] # b[i])
      /\ Compare(eal, void) = IF Len(a) # Len(b) THEN "LENGTH_MISMATCH"
                              ELSE IF Signature(a) # Signature(b) THEN "HASH_MISMATCH"
                              ELSE IF a # b THEN "BYTE_MISMATCH"
                              ELSE "OK"
  BY <1>2 DEF ExportInv, Presented, Compare
<1>. HIDE DEF a, b, p, q
<1>7. /\ a = <<0>> => Len(a) = 1
      /\ b = <<0>> => Len(b) = 1
      /\ a = <<0, p \div Byte, p % Byte>> => Len(a) = 3
      /\ b = <<0, q \div Byte, q % Byte>> => Len(b) = 3
  OBVIOUS
<1>4. ASSUME Presented, inStep, Len(a) = Len(b)
      PROVE  /\ lock <=> Compare(eal, void) # "OK"
             /\ Len(a) = 3 => (lock <=> p # q)
  <2>1. lock <=> a # b
    <3>1. CASE a = <<0>> /\ b = <<0>>
      <4>1. Seen = {1}
        BY <1>3, <1>4, <3>1 DEF Seen
      <4>. QED
        BY <1>3, <1>4, <3>1, <4>1
    <3>2. CASE a = <<0, p \div Byte, p % Byte>> /\ b = <<0, q \div Byte, q % Byte>>
      <4>1. Seen = {1, 2, 3}
        BY <1>3, <1>4, <3>2 DEF Seen
      <4>2. lock <=> a[1] # b[1] \/ a[2] # b[2] \/ a[3] # b[3]
        BY <1>3, <1>4, <4>1
      <4>. QED
        BY <3>2, <4>2
    <3>3. (a = <<0>> /\ b = <<0>>)
          \/ (a = <<0, p \div Byte, p % Byte>> /\ b = <<0, q \div Byte, q % Byte>>)
      <4>1. Len(a) = Len(b) /\ 1 # 3
        BY <1>4
      <4>2. /\ a = <<0, p \div Byte, p % Byte>> \/ a = <<0>>
            /\ b = <<0, q \div Byte, q % Byte>> \/ b = <<0>>
        BY <1>2
      <4>. QED
        BY <1>7, <4>1, <4>2, Zenon
    <3>. QED
      BY <3>1, <3>2, <3>3, Zenon
  <2>2. Compare(eal, void) # "OK" <=> a # b
    BY <1>3, <1>4
  <2>3. ASSUME Len(a) = 3 PROVE a # b <=> p # q
    <3>1. a = <<0, p \div Byte, p % Byte>> /\ b = <<0, q \div Byte, q % Byte>>
      BY <1>2, <1>4, <1>7, <2>3
    <3>2. p \div Byte = q \div Byte /\ p % Byte = q % Byte => p = q
      BY <1>2, RootInTwoBytes
    <3>. QED
      BY <3>1, <3>2
  <2>. QED
    BY <2>1, <2>2, <2>3
<1>5. ASSUME Presented, inStep, Len(a) # Len(b)
      PROVE  Compare(eal, void) = "LENGTH_MISMATCH" /\ ~lock /\ (IsPrefix(a, b) \/ IsPrefix(b, a))
  <2>1. Seen = {1}
    <3>1. sent.eal = Len(a) /\ sent.void = Len(b)
      BY <1>3, <1>5
    <3>2. (Len(a) = 1 /\ Len(b) = 3) \/ (Len(a) = 3 /\ Len(b) = 1)
      <4>1. Len(a) \in {1, 3} /\ Len(b) \in {1, 3}
        BY <1>2, <1>7
      <4>. QED
        BY <1>5, <4>1
    <3>3. (sent.eal = 1 /\ sent.void = 3) \/ (sent.eal = 3 /\ sent.void = 1)
      BY <3>1, <3>2, Zenon
    <3>. QED
      BY <3>3, SeenOne, Zenon
  <2>2. a[1] = 0 /\ b[1] = 0
    BY <1>2
  <2>3. ~lock
    BY <1>3, <1>5, <2>1, <2>2
  <2>4. IsPrefix(a, b) \/ IsPrefix(b, a)
    <3>1. ASSUME NEW s, s[1] = 0 PROVE SubSeq(s, 1, 1) = <<0>>
      <4>1. \A i \in 1 .. 1 : s[i] \in Nat
        BY <3>1
      <4>2. /\ SubSeq(s, 1, 1) \in Seq(Nat) /\ Len(SubSeq(s, 1, 1)) = 1
            /\ SubSeq(s, 1, 1)[1] = 0
        BY <3>1, <4>1, SubSeqProperties
      <4>. DEFINE u == SubSeq(s, 1, 1)
                  v == <<0>>
      <4>3. v \in Seq(Nat) /\ Len(v) = 1 /\ v[1] = 0
        OBVIOUS
      <4>4. u \in Seq(Nat) /\ Len(u) = 1 /\ u[1] = 0
        BY <4>2
      <4>. HIDE DEF u, v
      <4>5. \A i \in 1 .. Len(u) : u[i] = v[i]
        BY <4>3, <4>4
      <4>6. u = v
        BY <4>3, <4>4, <4>5, SeqEqual
      <4>. QED
        BY <4>6 DEF u, v
    <3>3. SubSeq(a, 1, 1) = <<0>> /\ SubSeq(b, 1, 1) = <<0>>
      BY <2>2, <3>1
    <3>. QED
      BY <1>2, <1>5, <1>7, <3>3 DEF IsPrefix
  <2>. QED
    BY <1>3, <1>5, <2>3, <2>4
<1>6. ~identityOk => lock
  BY DEF ExportInv
<1>. QED
  BY <1>4, <1>5, <1>6, Zenon DEF ExportVerdict, a, b, p, q

LEMMA ExportInitInv == Init => ExportInv
<1>. SUFFICES ASSUME Init PROVE ExportInv
  OBVIOUS
<1>1. eal \in Images /\ void \in Images /\ sent = [eal |-> 0, void |-> 0]
      /\ identityOk = TRUE /\ lock = FALSE
  BY DEF Init, ExportInit
<1>2. Seen = {} /\ sent.eal = 0 /\ sent.void = 0
  BY <1>1 DEF Seen
<1>3. Len(eal.data) \in Nat /\ Len(void.data) \in Nat
  BY <1>1, ImagesShaped DEF ImageShape
<1>4. sent \in [eal : 0 .. Len(eal.data), void : 0 .. Len(void.data)]
  BY <1>1, <1>3
<1>5. ~lock /\ (~identityOk => lock)
  BY <1>1, Zenon
<1>. QED
  BY <1>1, <1>2, <1>4, <1>5 DEF ExportInv

\* An image is a header, or a header and a root.
LEMMA ImageLength == \A image \in Images : Len(image.data) \in {1, 3}
<1>1. Len(<<0>>) = 1 /\ \A x, y : Len(<<0, x, y>>) = 3
  OBVIOUS
<1>. QED
  BY <1>1, ImagesShaped DEF ImageShape

\* One edge, in step: the bytes seen grow by the one that is compared, or by none.
LEMMA EdgeSees ==
  ASSUME ExportInv, NEW ealValid \in BOOLEAN, NEW voidValid \in BOOLEAN,
         ExportEdge(ealValid, voidValid)
  PROVE  ExportInv'
<1>. DEFINE a == eal.data
            b == void.data
            m == sent.eal
            n == sent.void
            differ == ealValid /\ voidValid /\ a[sent'.eal] # b[sent'.void]
<1>1. Len(a) \in {1, 3} /\ Len(b) \in {1, 3}
  BY ImageLength DEF ExportInv
<1>2. m \in Nat /\ m <= Len(a) /\ n \in Nat /\ n <= Len(b)
  BY <1>1 DEF ExportInv
<1>3. /\ eal' = eal /\ void' = void
      /\ sent' = [eal |-> m + (IF ealValid THEN 1 ELSE 0), void |-> n + (IF voidValid THEN 1 ELSE 0)]
      /\ ealValid => m < Len(a)
      /\ voidValid => n < Len(b)
  BY DEF ExportEdge
<1>4. /\ sent'.eal = m + (IF ealValid THEN 1 ELSE 0)
      /\ sent'.void = n + (IF voidValid THEN 1 ELSE 0)
      /\ sent' \in [eal : 0 .. Len(a), void : 0 .. Len(b)]
  BY <1>1, <1>2, <1>3
<1>5. lock' = (lock \/ differ) /\ identityOk' = ~differ
  BY Zenon DEF ExportEdge, Latch
<1>6. ~identityOk' => lock'
  BY <1>5, Zenon
<1>7. ASSUME inStep'
      PROVE  /\ inStep
             /\ ealValid /\ ~voidValid => n = Len(b)
             /\ voidValid /\ ~ealValid => m = Len(a)
  <2>1. inStep /\ (ealValid # voidValid => (ealValid /\ n = Len(b)) \/ (voidValid /\ m = Len(a)))
    BY <1>7, Zenon DEF ExportEdge
  <2>2. ASSUME ealValid, ~voidValid PROVE ealValid # voidValid
    <3>1. ealValid = TRUE /\ voidValid = FALSE
      BY <2>2, Zenon
    <3>. QED
      BY <3>1, Zenon
  <2>3. ASSUME voidValid, ~ealValid PROVE ealValid # voidValid
    <3>1. ealValid = FALSE /\ voidValid = TRUE
      BY <2>3, Zenon
    <3>. QED
      BY <3>1, Zenon
  <2>. QED
    BY <2>1, <2>2, <2>3, Zenon
<1>8. inStep => /\ m = n \/ (n = Len(b) /\ n < m) \/ (m = Len(a) /\ m < n)
                /\ lock <=> \E i \in 1 .. 3 : i <= m /\ i <= n /\ a[i] # b[i]
  BY DEF ExportInv, Seen
<1>9. Seen' = {i \in 1 .. 3 : i <= sent'.eal /\ i <= sent'.void}
  BY DEF Seen
<1>. HIDE DEF a, b, m, n
<1>10. ASSUME inStep'
       PROVE  \/ sent'.eal = sent'.void
              \/ sent'.void = Len(b) /\ sent'.void < sent'.eal
              \/ sent'.eal = Len(a) /\ sent'.eal < sent'.void
  <2>1. CASE ealValid /\ voidValid
    BY <1>1, <1>2, <1>3, <1>4, <1>7, <1>8, <1>10, <2>1
  <2>2. CASE ealValid /\ ~voidValid
    BY <1>1, <1>2, <1>3, <1>4, <1>7, <1>8, <1>10, <2>2
  <2>3. CASE ~ealValid /\ voidValid
    BY <1>1, <1>2, <1>3, <1>4, <1>7, <1>8, <1>10, <2>3
  <2>4. CASE ~ealValid /\ ~voidValid
    BY <1>1, <1>2, <1>3, <1>4, <1>7, <1>8, <1>10, <2>4
  <2>. QED
    BY <2>1, <2>2, <2>3, <2>4
<1>11. ASSUME inStep'
       PROVE  lock' <=> \E i \in Seen' : a[i] # b[i]
  <2>1. CASE ealValid /\ voidValid
    <3>1. m = n /\ sent'.eal = m + 1 /\ sent'.void = m + 1 /\ m + 1 \in 1 .. 3
      <4>1. m < Len(a) /\ n < Len(b) /\ inStep
        BY <1>3, <1>7, <1>11, <2>1
      <4>2. m = n \/ (n = Len(b) /\ n < m) \/ (m = Len(a) /\ m < n)
        BY <1>8, <4>1
      <4>3. m = n
        BY <1>1, <1>2, <4>1, <4>2
      <4>4. m + 1 \in 1 .. 3
        <5>1. Len(a) \in Nat /\ Len(a) <= 3
          BY <1>1
        <5>2. m < 3
          BY <1>2, <4>1, <5>1
        <5>. QED
          BY <1>2, <5>2
      <4>5. sent'.eal = m + 1
        BY <1>4, <2>1
      <4>6. sent'.void = n + 1
        BY <1>4, <2>1
      <4>. QED
        BY <4>3, <4>4, <4>5, <4>6
    <3>2. Seen' = {i \in 1 .. 3 : i <= m} \cup {m + 1}
      BY <1>2, <1>9, <3>1
    <3>3. lock <=> \E i \in 1 .. 3 : i <= m /\ a[i] # b[i]
      BY <1>7, <1>8, <1>11, <3>1
    <3>4. differ <=> a[m + 1] # b[m + 1]
      BY <2>1, <3>1
    <3>. HIDE DEF differ
    <3>5. (lock \/ differ) <=> \E i \in Seen' : a[i] # b[i]
      BY <3>2, <3>3, <3>4
    <3>. QED
      BY <1>5, <3>5, Zenon
  <2>2. CASE ~ (ealValid /\ voidValid)
    <3>1. Seen' = {i \in 1 .. 3 : i <= m /\ i <= n}
      <4>1. CASE ealValid /\ ~voidValid
        BY <1>1, <1>2, <1>3, <1>4, <1>7, <1>8, <1>9, <1>11, <4>1
      <4>2. CASE ~ealValid /\ voidValid
        BY <1>1, <1>2, <1>3, <1>4, <1>7, <1>8, <1>9, <1>11, <4>2
      <4>3. CASE ~ealValid /\ ~voidValid
        BY <1>1, <1>2, <1>3, <1>4, <1>7, <1>8, <1>9, <1>11, <4>3
      <4>. QED
        BY <2>2, <4>1, <4>2, <4>3
    <3>2. ~differ
      BY <2>2
    <3>3. lock <=> \E i \in Seen' : a[i] # b[i]
      BY <1>7, <1>8, <1>11, <3>1
    <3>. HIDE DEF differ
    <3>. QED
      BY <1>5, <3>2, <3>3, Zenon
  <2>. QED
    BY <2>1, <2>2
<1>. QED
  BY <1>3, <1>4, <1>6, <1>10, <1>11 DEF ExportInv, a, b

\* eal_metamorphic_export_validator.v against binary_export_compare: of any two images,
\* presented in step to their ends by sources that stall as they like, the bus is left
\* locked exactly when C refuses them.
THEOREM ExportFollows == Spec => []ExportVerdict
<1>1. ExportInv /\ [ExportNext]_exportVars => ExportInv'
  <2>. SUFFICES ASSUME ExportInv, [ExportNext]_exportVars PROVE ExportInv'
    OBVIOUS
  <2>1. ASSUME NEW ealValid \in BOOLEAN, NEW voidValid \in BOOLEAN,
               ExportEdge(ealValid, voidValid)
        PROVE  ExportInv'
    BY <2>1, EdgeSees
  <2>2. CASE ExportReset
    <3>1. /\ eal' \in Images /\ void' \in Images /\ sent' = [eal |-> 0, void |-> 0]
          /\ identityOk' = TRUE /\ lock' = FALSE
      BY <2>2 DEF ExportReset
    <3>2. Seen' = {} /\ sent'.eal = 0 /\ sent'.void = 0
      BY <3>1 DEF Seen
    <3>3. Len(eal'.data) \in {1, 3} /\ Len(void'.data) \in {1, 3}
      BY <3>1, ImageLength
    <3>4. sent' \in [eal : 0 .. Len(eal'.data), void : 0 .. Len(void'.data)]
      BY <3>1, <3>3
    <3>5. ~lock' /\ (~identityOk' => lock')
      BY <3>1, Zenon
    <3>. QED
      BY <3>1, <3>2, <3>4, <3>5 DEF ExportInv
  <2>3. CASE UNCHANGED exportVars
    BY <2>3 DEF exportVars, ExportInv, Seen
  <2>. QED
    BY <2>1, <2>2, <2>3 DEF ExportNext
<1>. QED
  BY <1>1, ExportInitInv, VerdictKnown, BenchSteps, PTL DEF Spec
=============================================================================
