--------------------------------- MODULE Rtl ---------------------------------
(***************************************************************************)
(* The benches of verilog/: each isolated block, or pair of blocks, runs    *)
(* under its own testbench beside the C code it has to agree with.  No      *)
(* block drives one of another bench, so a behaviour exercises one bench.   *)
(***************************************************************************)
EXTENDS Scribe, Slots, Export, Lambda, Surface

VARIABLE bench    \* the testbench that runs

rtlVars == <<bench, scribeVars, slotVars, exportVars, lambdaVars, surfaceVars>>

Benches == {"scribe", "slots", "export", "lambda", "surface"}

Init ==
  /\ bench \in Benches
  /\ bench # "export" => eal = Compile(0, 0) /\ void = Compile(0, 0)
  /\ bench # "lambda" => engine = Reconciled(0, 0, 0)
  /\ bench # "surface" => res = [energy |-> 1, band |-> 1, delineation |-> FALSE]
  /\ ScribeInit /\ SlotsInit /\ ExportInit /\ LambdaInit /\ SurfaceInit

\* The benches that do not run keep what they began with, and that is one state.
Idle(others) ==
  /\ "scribe" \in others => UNCHANGED scribeVars
  /\ "slots" \in others => UNCHANGED slotVars
  /\ "export" \in others => UNCHANGED exportVars
  /\ "lambda" \in others => UNCHANGED lambdaVars
  /\ "surface" \in others => UNCHANGED surfaceVars

Next ==
  /\ \/ bench = "scribe" /\ ScribeNext
     \/ bench = "slots" /\ SlotsNext
     \/ bench = "export" /\ ExportNext
     \/ bench = "lambda" /\ LambdaNext
     \/ bench = "surface" /\ SurfaceNext
  /\ UNCHANGED bench
  /\ Idle(Benches \ {bench})

Spec == Init /\ [][Next]_rtlVars
=============================================================================
