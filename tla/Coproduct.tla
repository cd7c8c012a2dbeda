------------------------------ MODULE Coproduct ------------------------------
(***************************************************************************)
(* What the blackboard of omnicron-coproduct-partition.c promises: an       *)
(* append-only log of contributions, of which everything else is a view;    *)
(* and a partition of the log that only validated equivalence may coarsen.  *)
(***************************************************************************)
EXTENDS Naturals, Sequences, FiniteSets

CONSTANTS Size, MaxFiber, Coord, Inputs,
          Equivalent(_, _)    \* the validation law, on two contributions

VARIABLES log, view, partition

\* Positions in the log are counted from 0, like the program's indices.
ClaimsIn(l, p) == {i \in 0 .. Len(l) - 1 : p \in l[i + 1].board}

ViewOf(l) ==
  [occupancy |-> {p \in Coord : Cardinality(ClaimsIn(l, p)) > 0},
   conflict  |-> {p \in Coord : Cardinality(ClaimsIn(l, p)) > 1},
   behind    |-> [p \in Coord |-> ClaimsIn(l, p)]]

CoInit ==
  /\ log = <<>>
  /\ view = ViewOf(<<>>)
  /\ partition = {{i} : i \in 0 .. Size - 1}

Accept(c) ==
  /\ Len(log) < Size
  /\ \A p \in c.board : Cardinality(view.behind[p]) < MaxFiber
  /\ log' = Append(log, c)
  /\ view' = ViewOf(log')
  /\ UNCHANGED partition

\* Two classes become one only when each member of the one is equivalent to
\* each member of the other.
Identify(A, B) ==
  /\ A # B
  /\ A \cup B \subseteq 0 .. Len(log) - 1
  /\ \A i \in A, j \in B : Equivalent(log[i + 1], log[j + 1])
  /\ partition' = (partition \ {A, B}) \cup {A \cup B}
  /\ UNCHANGED <<log, view>>

CoNext == \/ \E c \in Inputs : Accept(c)
          \/ \E A, B \in partition : Identify(A, B)

CoSpec == CoInit /\ [][CoNext]_<<log, view, partition>>
=============================================================================
