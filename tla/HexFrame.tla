------------------------------- MODULE HexFrame -------------------------------
(***************************************************************************)
(* The address text of examples/esp32/esp32_omi_core.c on its way to the    *)
(* engine: esp32_parse_hex_frame reads eight segments of four hexadecimal   *)
(* digits with dashes between them, and writes each segment into the        *)
(* caller's address as soon as it has read it; a caller reconciles the      *)
(* address if the frame was accepted, as the emulated main does.            *)
(***************************************************************************)
EXTENDS Integers

CONSTANT Texts      \* how many different address texts there are

VARIABLES
  address,        \* the OmiAddress128 of the caller
  parsed,         \* what esp32_parse_hex_frame returned last
  coordinates,    \* x_omi and y_imo of the last reconciliation, <<>> before the first
  number          \* history: which text was parsed last

frameVars == <<address, parsed, coordinates, number>>

\* A text is told by the segments it shows; at most one place of it is spoilt: a
\* digit of segment i at i, the dash behind segment i at i + 8.
Text == [number : 1 .. Texts, length : {38, 39}, spoilt : -1 .. 14]

Shows(n, i) == n * 16 + i

FrameInit ==
  /\ address = [i \in 0 .. 7 |-> 0] /\ parsed = FALSE
  /\ coordinates = <<>> /\ number = 0

\* The segments that have been written when the loop ends: a spoilt segment is
\* not, the one before a spoilt dash is.
Written(t) ==
  {i \in 0 .. 7 : /\ t.length = 39
                  /\ t.spoilt \in 0 .. 7 => i < t.spoilt
                  /\ t.spoilt > 7 => i <= t.spoilt - 8}

\* Mutant: a spoilt dash ends the loop but not the acceptance.
ParseHexFrameLax(t) ==
  /\ number' = t.number
  /\ address' = [i \in 0 .. 7 |-> IF i \in Written(t) THEN Shows(t.number, i) ELSE address[i]]
  /\ parsed' = (t.length = 39 /\ t.spoilt \notin 0 .. 7)
  /\ UNCHANGED coordinates

\* esp32_parse_hex_frame, with the calls of esp32_parse_hex_segment
ParseHexFrame(t) ==
  /\ number' = t.number
  /\ address' = [i \in 0 .. 7 |-> IF i \in Written(t) THEN Shows(t.number, i) ELSE address[i]]
  /\ parsed' = (t.length = 39 /\ t.spoilt = -1)
  /\ UNCHANGED coordinates

\* app_main_emulated goes on to reconcile only an accepted frame.
ReconcileFrame ==
  /\ parsed
  /\ coordinates' = <<address[0], address[1]>>
  /\ UNCHANGED <<address, parsed, number>>

FrameNext == ReconcileFrame \/ \E t \in Text : ParseHexFrame(t)

FrameSpec == FrameInit /\ [][FrameNext]_frameVars

\* Refused texts leave an address that mixes several texts, but an accepted one is
\* shown in full by the address, and the coordinates reconciled are always the first
\* two segments of one and the same text.
FrameUnmixed ==
  /\ parsed => \A i \in 0 .. 7 : address[i] = Shows(number, i)
  /\ coordinates # <<>> =>
       \E n \in 1 .. Texts : coordinates = <<Shows(n, 0), Shows(n, 1)>>
=============================================================================
