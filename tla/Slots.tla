-------------------------------- MODULE Slots --------------------------------
(***************************************************************************)
(* verilog/fano_slot_scheduler.v and verilog/eal_meta_assembler.v, the      *)
(* register slot5040 of the one wired to the input of the same name of the  *)
(* other.  Both latch on one clock, so the assembler works on the slot of   *)
(* the edge before; the scheduler's fault output goes nowhere.              *)
(***************************************************************************)
EXTENDS Naturals

CONSTANTS
  Fano, Role, Local,     \* what the three index inputs may show
  Opcode, Token          \* what the other inputs of the assembler may show

\* Inputs are unsigned.
ASSUME SlotsAssumption == Fano \cup Role \cup Local \cup Opcode \cup Token \subseteq Nat

VARIABLES
  tuple,          \* history: the index of the last edge, <<>> after a reset
  slot,           \* o_slot5040
  fault,          \* o_bounds_fault
  lowered,        \* history: what the assembler saw at that edge, <<>> after a reset
  word,           \* o_machine_instruction
  centroidCore,   \* o_is_centroid_core
  ready           \* o_assembler_ready

slotVars == <<tuple, slot, fault, lowered, word, centroidCore, ready>>

SlotsInit ==
  /\ tuple = <<>> /\ slot = 0 /\ fault = FALSE
  /\ lowered = <<>> /\ word = 0 /\ centroidCore = TRUE /\ ready = FALSE

\* Mutant: the 240 local places are counted from one.
FaultInclusive(f, r, l) == f > 6 \/ r > 2 \/ l > 240

\* w_fault_comb
Fault(f, r, l) == f > 6 \/ r > 2 \/ l >= 240

\* The shifted copies of the indices, added in thirteen bits.
SlotSum(f, r, l) ==
  (f * (2 ^ 9 + 2 ^ 7 + 2 ^ 6 + 2 ^ 4) + r * (2 ^ 7 + 2 ^ 6 + 2 ^ 5 + 2 ^ 4) + l) % 2 ^ 13

Schedule(f, r, l) ==
  /\ tuple' = <<f, r, l>>
  /\ fault' = Fault(f, r, l)
  /\ slot' = IF Fault(f, r, l) THEN 0 ELSE SlotSum(f, r, l)

\* Four bits of opcode above the low twelve of the slot.
Compiled(opcode) == (opcode * 2 ^ 12) + (slot % 2 ^ 12)

Assemble(opcode, token) ==
  LET accepted == slot < 5040 /\ token <= 127
  IN  /\ lowered' = <<opcode, slot, token>>
      /\ ready' = accepted
      /\ word' = IF accepted THEN Compiled(opcode) ELSE 0
      /\ centroidCore' = (accepted => Compiled(opcode) = 0)

SlotsReset ==
  /\ tuple' = <<>> /\ slot' = 0 /\ fault' = FALSE
  /\ lowered' = <<>> /\ word' = 0 /\ centroidCore' = TRUE /\ ready' = FALSE

SlotsNext ==
  \/ \E f \in Fano, r \in Role, l \in Local, opcode \in Opcode, token \in Token :
       Schedule(f, r, l) /\ Assemble(opcode, token)
  \/ SlotsReset

\* A slot decomposes into the index it was made of; out of range nothing but
\* zero is shown, so the assembler never rejects a slot: an index in fault
\* assembles, an edge later, like the index of slot zero.  A word tells its slot
\* up to the thirteenth bit, which it has no place for.
SlotDecodes ==
  /\ tuple # <<>> /\ ~fault => tuple = <<slot \div 720, (slot % 720) \div 240, slot % 240>>
  /\ fault => slot = 0
  /\ lowered # <<>> => (ready <=> lowered[3] <= 127)
  /\ ready => /\ word \div 2 ^ 12 = lowered[1]
              /\ lowered[2] \in {word % 2 ^ 12, (word % 2 ^ 12) + 2 ^ 12}
  /\ centroidCore <=> word = 0
=============================================================================
