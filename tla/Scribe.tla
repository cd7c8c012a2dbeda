-------------------------------- MODULE Scribe --------------------------------
(***************************************************************************)
(* The place register of Metatron, twice: the C accumulator of              *)
(* examples/metatron/metatron_preclosure.c and the clocked register of      *)
(* verilog/metatron_incidence_scribe.v, stepped by the same command.  The   *)
(* incidence witness and the plane flags of the block are functions of the  *)
(* inputs of one edge and are left out.                                     *)
(***************************************************************************)
EXTENDS Naturals

VARIABLES
  accumulation,   \* InscriptionPlane.register_accumulation
  inscription,    \* the status metatron_advance_place returned last
  gauge,          \* o_gauge_register
  carry           \* o_gauge_carry

scribeVars == <<accumulation, inscription, gauge, carry>>

ScribeInit ==
  /\ accumulation = 1 /\ inscription = "OK"
  /\ gauge = 1 /\ carry = 0

\* metatron_advance_place: twenty bits are kept, an overflow of sixteen reported.
Advance(trigger) ==
  LET next == accumulation * 16
  IN  /\ accumulation' = IF trigger THEN next % 2 ^ 20 ELSE accumulation
      /\ inscription' = IF trigger /\ next > 65535 THEN "CARRY_OVERFLOW" ELSE "OK"

\* Mutant: without a command the carry is held, like the register.
ScribeEdgeHoldsCarry(step) ==
  IF step
  THEN /\ gauge' = (gauge * 16) % 2 ^ 16
       /\ carry' = ((gauge * 16) \div 2 ^ 16) % 2
  ELSE UNCHANGED <<gauge, carry>>

\* One edge of the block: a command shifts seventeen bits, carry on top.
ScribeEdge(step) ==
  /\ gauge' = IF step THEN (gauge * 16) % 2 ^ 16 ELSE gauge
  /\ carry' = IF step THEN ((gauge * 16) \div 2 ^ 16) % 2 ELSE 0

\* rst_n low; the caller of the C program starts with a new plane.
ScribeReset == accumulation' = 1 /\ inscription' = "OK" /\ gauge' = 1 /\ carry' = 0

ScribeNext ==
  \/ \E step \in BOOLEAN : Advance(step) /\ ScribeEdge(step)
  \/ ScribeReset

\* The register is the low half of the accumulator, every carry is an overflow
\* in C, and C reports an overflow without a carry only for the one step that
\* pushes the bit the register lost already out of its four spare places.
ScribeFollows ==
  /\ gauge = accumulation % 2 ^ 16
  /\ carry = 1 => inscription = "CARRY_OVERFLOW" /\ accumulation = 2 ^ 16
  /\ inscription = "CARRY_OVERFLOW" => carry = 1 \/ accumulation = 0
=============================================================================
