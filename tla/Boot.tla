--------------------------------- MODULE Boot ---------------------------------
(***************************************************************************)
(* The boot envelope of examples/esp32/omi_boot_envelope.c: parsing an      *)
(* envelope into the frame of the caller, and resolving a boot candidate    *)
(* into the resolution of the caller.  Both structures outlive the calls,   *)
(* refused ones included.  A 32-bit field of the frame is its two halves.   *)
(***************************************************************************)
EXTENDS Naturals, Sequences

CONSTANTS
  Spot,           \* the positions of an envelope that may differ from the emulated one
  BootByte,       \* and the bytes found there
  Face, FieldX, FieldY    \* the candidates presented

ASSUME BootByteAssumption == BootByte \subseteq 0 .. 255

ASSUME CandidateAssumption == Face \cup FieldX \cup FieldY \subseteq Nat

VARIABLES
  frame,          \* the OmiBootstrapFrame of the caller, <<>> before the first
  resolution,     \* the OmiBootResolution of the caller, <<>> before the first
  boot,           \* the omi_boot_status returned last
  flashed,        \* history: the envelope accepted last
  presented,      \* history: the candidate of the last call, <<>> if it parsed
  candidate       \* history: the candidate the resolution was filled in for

bootVars == <<frame, resolution, boot, flashed, presented, candidate>>

\* OMI_BOOT_GAUGE_PREHEADER
Preheader == <<\hFF, \h00, \h1C, \h1D, \h1E, \h1F, \h20, \hFF>>

Prefixed(envelope) == \A i \in 0 .. 7 : envelope[i] = Preheader[i + 1]

\* The envelope of the emulated main, with the byte v at position k.
Envelope(k, v) ==
  [i \in 0 .. 63 |-> IF i = k THEN v ELSE IF i < 8 THEN Preheader[i + 1] ELSE 0]

\* omi_boot_read_u16_be, omi_boot_read_u32_be
ReadU16(envelope, i) == envelope[i] * 256 + envelope[i + 1]

ReadU32(envelope, i) == <<ReadU16(envelope, i), ReadU16(envelope, i + 2)>>

\* omi_boot_calculate_bqf
BootEnergy(x, y) == 60 * x * x + 16 * x * y + 4 * y * y

BootInit ==
  /\ frame = <<>> /\ resolution = <<>> /\ boot = "OK"
  /\ flashed = <<>> /\ presented = <<>> /\ candidate = <<>>

\* Mutant: the carrier scopes are read a byte apart.
FrameOfUnstrided(envelope) ==
  [active  |-> [i \in 0 .. 3 |-> ReadU16(envelope, 32 + 2 * i)],
   carrier |-> [i \in 0 .. 3 |-> ReadU16(envelope, 40 + i)],
   words   |-> [i \in 0 .. 3 |-> ReadU32(envelope, 48 + 4 * i)]]

\* The words are register_flags, stack_context, car_pointer and cdr_pointer.
FrameOf(envelope) ==
  [active  |-> [i \in 0 .. 3 |-> ReadU16(envelope, 32 + 2 * i)],
   carrier |-> [i \in 0 .. 3 |-> ReadU16(envelope, 40 + 2 * i)],
   words   |-> [i \in 0 .. 3 |-> ReadU32(envelope, 48 + 4 * i)]]

\* omi_boot_envelope_parse
Parse(envelope, length) ==
  /\ boot' = IF length # 64 THEN "INVALID_ARGUMENT"
             ELSE IF Prefixed(envelope) THEN "OK" ELSE "GAUGE_MISMATCH"
  /\ IF boot' = "OK" THEN frame' = FrameOf(envelope) /\ flashed' = envelope
                     ELSE UNCHANGED <<frame, flashed>>
  /\ presented' = <<>>
  /\ UNCHANGED <<resolution, candidate>>

InBounds(face, x, y) == face < 4 /\ x < 240 /\ y < 4

\* Mutant: the attestation is never looked at.
ResolveUnattested(face, x, y, attested) ==
  /\ presented' = [face |-> face, x |-> x, y |-> y, attested |-> attested]
  /\ IF InBounds(face, x, y)
     THEN /\ resolution' = [energy |-> BootEnergy(x, y), face |-> face,
                            core |-> x = 0 /\ y = 0]
          /\ candidate' = presented' /\ boot' = "OK"
     ELSE boot' = "BQF_OUT_OF_BOUNDS" /\ UNCHANGED <<resolution, candidate>>
  /\ UNCHANGED <<frame, flashed>>

\* omi_boot_resolve_candidate: the attestation is looked at when the resolution
\* has been filled in.
Resolve(face, x, y, attested) ==
  /\ presented' = [face |-> face, x |-> x, y |-> y, attested |-> attested]
  /\ IF InBounds(face, x, y)
     THEN /\ resolution' = [energy |-> BootEnergy(x, y), face |-> face,
                            core |-> x = 0 /\ y = 0]
          /\ candidate' = presented'
          /\ boot' = IF attested THEN "OK" ELSE "SECURE_REJECTION"
     ELSE boot' = "BQF_OUT_OF_BOUNDS" /\ UNCHANGED <<resolution, candidate>>
  /\ UNCHANGED <<frame, flashed>>

BootNext ==
  \/ \E k \in Spot, v \in BootByte, length \in {63, 64} : Parse(Envelope(k, v), length)
  \/ \E face \in Face, x \in FieldX, y \in FieldY, attested \in BOOLEAN :
       Resolve(face, x, y, attested)

BootSpec == BootInit /\ [][BootNext]_bootVars

\* The frame laid out again, big-endian and in the order of the envelope.
Layout(f, i) ==
  LET half == IF i < 8 THEN f.active[i \div 2]
              ELSE IF i < 16 THEN f.carrier[(i - 8) \div 2]
              ELSE f.words[(i - 16) \div 4][((i \div 2) % 2) + 1]
  IN  IF i % 2 = 0 THEN half \div 256 ELSE half % 256

\* The frame is the whole second half of one well-prefixed envelope, each byte of
\* it in one place and none twice, whatever has been refused since.
FrameWhole ==
  frame # <<>> =>
    /\ Prefixed(flashed)
    /\ \A i \in 0 .. 31 : Layout(frame, i) = flashed[32 + i]

\* The field of the boot chart: four faces, 240 places, four units.
InField(c) == c.face \in 0 .. 3 /\ c.x \in 0 .. 239 /\ c.y \in 0 .. 3

\* BOOT_OK is the answer exactly to a candidate of the field with its attestation,
\* SECURE_REJECTION exactly to one without: "requires an explicit secure attestation
\* flag before returning BOOT_OK".  Both leave a resolution of that candidate, every
\* other answer the one before; and the resolution names one position: no two of the
\* field share an energy, and only the origin is the centroid core.
ResolutionNames ==
  /\ presented # <<>> =>
       /\ boot = "OK" <=> InField(presented) /\ presented.attested
       /\ boot = "SECURE_REJECTION" <=> InField(presented) /\ ~presented.attested
       /\ InField(presented) => candidate = presented
  /\ candidate # <<>> =>
       /\ InField(candidate)
       /\ \A x \in 0 .. 239, y \in 0 .. 3 :
            BootEnergy(x, y) = resolution.energy => x = candidate.x /\ y = candidate.y
       /\ resolution.core <=> resolution.energy = 0
       /\ resolution.face = candidate.face
=============================================================================
