----------------------------- MODULE Equivalence -----------------------------
(***************************************************************************)
(* What the union-find structure of omnicron-coproduct-partition.c promises *)
(* its caller: it keeps a partition of the slots 0 .. Size-1, a find        *)
(* leaves the partition alone, and a union fuses the two blocks of its      *)
(* arguments and touches no other block.  Nothing ever splits a block.      *)
(***************************************************************************)
EXTENDS Naturals

CONSTANT Size           \* number of slots, uf->size

VARIABLE partition      \* the set of equivalence classes

Slot == 0 .. Size - 1

EqInit == partition = {{i} : i \in Slot}

Fuse(A, B) == partition' = (partition \ {A, B}) \cup {A \cup B}

EqNext == \E A, B \in partition : Fuse(A, B)

EqSpec == EqInit /\ [][EqNext]_partition
=============================================================================
