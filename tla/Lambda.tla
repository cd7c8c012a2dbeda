-------------------------------- MODULE Lambda --------------------------------
(***************************************************************************)
(* The quadratic form of the Lambda canon, twice: esp32_reconcile_interface *)
(* of examples/esp32/esp32_omi_core.c, which fills a structure of its       *)
(* caller, and the clocked verilog/eal_lambda_canon_core.v.  Both square    *)
(* their linear sum modulo 2^32; a square is told by the sum it is of.      *)
(***************************************************************************)
EXTENDS Naturals, FiniteSets

CONSTANTS
  Segment,        \* the 16-bit coordinates presented
  Character           \* the character tokens presented

ASSUME LambdaAssumption == Segment \cup Character \subseteq Nat

VARIABLES
  engine,         \* the ReconciledEngineState of the caller
  status,         \* what the last reconciliation returned
  reg,            \* the four output registers of the block
  shown           \* history: x, y and token of the last edge, <<>> after a reset

lambdaVars == <<engine, status, reg, shown>>

\* The linear root, exact in C.
Root(x, y) == 4 * x + 2 * y

\* w_linear_sum: the same sum in eighteen bits.
LinearSum(x, y) == Root(x, y) % 2 ^ 18

\* The surface band of a declaration token.
SurfaceBand(token) == Cardinality({limit \in {32, 64, 96} : token > limit})

Reconciled(x, y, token) ==
  [x |-> x, y |-> y, band |-> SurfaceBand(token), root |-> Root(x, y),
   centroid |-> x = 0 /\ y = 0 /\ Root(x, y) = 0]

ResetRegisters == [root |-> 0, void |-> TRUE, boundary |-> FALSE, admissible |-> FALSE]

\* The structure was filled by an earlier call.
LambdaInit ==
  /\ \E x, y \in Segment, token \in Character :
       token <= 127 /\ engine = Reconciled(x, y, token)
  /\ status = "OK"
  /\ reg = ResetRegisters /\ shown = <<>>

\* esp32_reconcile_interface: a refused token has already cost the coordinates.
Reconcile(x, y, token) ==
  IF token <= 127
  THEN engine' = Reconciled(x, y, token) /\ status' = "OK"
  ELSE engine' = [engine EXCEPT !.x = x, !.y = y] /\ status' = "BAND_BREACH"

\* Mutant: a word outside the declaration range passes if its parity does.
LambdaEdgeAnyToken(x, y, token, parityOk) ==
  LET admissible == parityOk
  IN  reg' = [root       |-> IF admissible THEN LinearSum(x, y) ELSE 0,
              void       |-> LinearSum(x, y) = 0,
              boundary   |-> token = 128,
              admissible |-> admissible]

\* One edge of the block; parityOk says that i_received_omnion is the parity of
\* the other inputs.
LambdaEdge(x, y, token, parityOk) ==
  LET admissible == token <= 127 /\ parityOk
  IN  reg' = [root       |-> IF admissible THEN LinearSum(x, y) ELSE 0,
              void       |-> LinearSum(x, y) = 0,
              boundary   |-> token = 128,
              admissible |-> admissible]

Present(x, y, token, parityOk) ==
  /\ Reconcile(x, y, token)
  /\ LambdaEdge(x, y, token, parityOk)
  /\ shown' = [x |-> x, y |-> y, token |-> token]

\* rst_n low; the structure of the caller stays as it is.
LambdaReset == reg' = ResetRegisters /\ shown' = <<>> /\ UNCHANGED <<engine, status>>

LambdaNext ==
  \/ \E x, y \in Segment, token \in Character, parityOk \in BOOLEAN :
       Present(x, y, token, parityOk)
  \/ LambdaReset

\* The block admits nothing C refuses, neither lets the observer boundary in,
\* and while the sum fits into eighteen bits they agree on the form and on the
\* centroid; the centroid flag a refused call leaves behind in C, and only that,
\* may belong to other coordinates than the structure shows.
LambdaAgrees ==
  shown # <<>> =>
    /\ reg.admissible => status = "OK"
    /\ reg.boundary => status = "BAND_BREACH"
    /\ reg.admissible /\ Root(shown.x, shown.y) < 2 ^ 18 => reg.root = engine.root
    /\ Root(shown.x, shown.y) < 2 ^ 18 =>
         (reg.void <=> engine.x = 0 /\ engine.y = 0)
    /\ engine.centroid # (engine.x = 0 /\ engine.y = 0) => status = "BAND_BREACH"

\* verilog/README.md: "centroid check = linear sum equals zero".
VoidIsCentroid == shown # <<>> /\ reg.void => Root(shown.x, shown.y) = 0
=============================================================================
