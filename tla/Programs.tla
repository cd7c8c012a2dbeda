------------------------------- MODULE Programs -------------------------------
(***************************************************************************)
(* The C programs around the core: each has a main of its own and keeps its *)
(* state in structures of its caller, so a behaviour exercises one of them, *)
(* by any sequence of legal calls.  main of the partition program is the    *)
(* exception: its calls are fixed, and the scrubbed store and the holder of *)
(* a CONS word are exercised apart from it.                                 *)
(***************************************************************************)
EXTENDS Harness, Boot, Radix, HexFrame, Gates, ConsCell

VARIABLE bench    \* the program that runs

programVars ==
  <<bench, harnessVars, secdedVars, bootVars, radixVars, frameVars, gateVars, cellVars>>

Benches == {"main", "secded", "boot", "radix", "frame", "gates", "cell"}

Init ==
  /\ bench \in Benches
  /\ HarnessInit /\ SecdedInit /\ BootInit /\ RadixInit /\ FrameInit /\ GateInit
  /\ CellInit
  /\ bench # "secded" => sent = {}
  /\ bench # "cell" => cell = CHOOSE c \in Composed : TRUE

\* The programs that do not run keep what they began with, and that is one state.
Idle(others) ==
  /\ "main" \in others => UNCHANGED harnessVars
  /\ "secded" \in others => UNCHANGED secdedVars
  /\ "boot" \in others => UNCHANGED bootVars
  /\ "radix" \in others => UNCHANGED radixVars
  /\ "frame" \in others => UNCHANGED frameVars
  /\ "gates" \in others => UNCHANGED gateVars
  /\ "cell" \in others => UNCHANGED cellVars

Next ==
  /\ \/ bench = "main" /\ HarnessNext
     \/ bench = "secded" /\ SecdedNext
     \/ bench = "boot" /\ BootNext
     \/ bench = "radix" /\ RadixNext
     \/ bench = "frame" /\ FrameNext
     \/ bench = "gates" /\ GateNext
     \/ bench = "cell" /\ CellNext
  /\ UNCHANGED bench
  /\ Idle(Benches \ {bench})

Spec == Init /\ [][Next]_programVars
=============================================================================
