--------------------------------- MODULE Gates ---------------------------------
(***************************************************************************)
(* Two arbiters that answer with a structure of their own, closed until     *)
(* every check has passed: omi_arbitrate_media_bus                          *)
(* (examples/media/omi_media_bridge.c) and                                  *)
(* tetragrammatron_adjudicate_closure                                       *)
(* (examples/metatron/metatron_preclosure.c).                               *)
(***************************************************************************)
EXTENDS Naturals, FiniteSets

CONSTANTS
  Hash,           \* the carrier hashes presented
  Effect,         \* the effect classes presented
  PatternWitness, DiagonalSum     \* what closures are asked for with

VARIABLES
  gate,           \* the MediaHardwareGate returned last
  chunk,          \* history: the chunk it was returned for, <<>> for NULL
  closure         \* the TetragrammatronLock returned last, and for what

gateVars == <<gate, chunk, closure>>

Closed(log) == [word |-> 0, offset |-> 0, allow |-> FALSE, log |-> log]

Open(word, offset, log) == [word |-> word, offset |-> offset, allow |-> TRUE, log |-> log]

Unauthorized == Closed("OUT_OF_BAND_EFFECT_CLASS")

\* Mutant: the break behind EFFECT_RENDER is missing.
SwitchFallsThrough(effect) ==
  IF effect = 8 THEN Open(\h1A55, \h18, "STREAM")
  ELSE IF effect \in {10, 11} THEN Open(\h1C55, \h20, "CAPTURE")
  ELSE IF effect = 9 THEN Open(\h1D55, \h24, "TRANSCODE")
  ELSE Unauthorized

\* The switch over the effect class.
Switch(effect) ==
  IF effect = 8 THEN Open(\h1A55, \h18, "STREAM")
  ELSE IF effect = 10 THEN Open(\h1B55, \h1C, "RENDER")
  ELSE IF effect = 11 THEN Open(\h1C55, \h20, "CAPTURE")
  ELSE IF effect = 9 THEN Open(\h1D55, \h24, "TRANSCODE")
  ELSE Unauthorized

\* omi_arbitrate_media_bus, of a chunk and of NULL
Arbitrate(c) ==
  /\ gate' = IF ~c.locked THEN Closed("UNATTESTED_CARRIER")
             ELSE IF c.hash = 0 THEN Closed("EMPTY_CARRIER_HASH")
             ELSE Switch(c.effect)
  /\ chunk' = c /\ UNCHANGED closure

ArbitrateNull ==
  gate' = Closed("NULL_CHUNK") /\ chunk' = <<>> /\ UNCHANGED closure

\* metatron_confirm_preclosure
Confirmed(pattern) == pattern = \h18

\* tetragrammatron_adjudicate_closure
Adjudicate(pattern, sum) ==
  /\ closure' = [closed |-> Confirmed(pattern) /\ sum = 120, pattern |-> pattern, sum |-> sum]
  /\ UNCHANGED <<gate, chunk>>

GateInit ==
  /\ gate = Closed("UNAUTHORIZED_EFFECT") /\ chunk = <<>>
  /\ closure = [closed |-> FALSE, pattern |-> 0, sum |-> 0]

GateNext ==
  \/ \E locked \in BOOLEAN, hash \in Hash, effect \in Effect :
       Arbitrate([locked |-> locked, hash |-> hash, effect |-> effect])
  \/ ArbitrateNull
  \/ \E pattern \in PatternWitness, sum \in DiagonalSum : Adjudicate(pattern, sum)

GateSpec == GateInit /\ [][GateNext]_gateVars

\* docs/MULTIMEDIA-FEDERATED-SYNC.md: the bus is only ever opened for an attested,
\* non-empty carrier; the bridge word and the offset of an open gate name one effect,
\* the one asked for (they count on together from 0x1A55 and 0x18), and a closed gate
\* names none, whatever was opened before.  A closure needs both witnesses at once.
GateNamesEffect ==
  /\ gate.allow =>
       /\ chunk.locked /\ chunk.hash # 0
       /\ {e \in Effect : Switch(e).word = gate.word} = {chunk.effect}
       /\ {e \in Effect : Switch(e).offset = gate.offset} = {chunk.effect}
       /\ gate.word \div 256 - \h1A = (gate.offset - \h18) \div 4
  /\ ~gate.allow => gate.word = 0 /\ gate.offset = 0
  /\ closure.closed <=> closure.pattern = 24 /\ closure.sum = 120
=============================================================================
