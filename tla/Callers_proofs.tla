---------------------------- MODULE Callers_proofs ----------------------------
(***************************************************************************)
(* What the structures of the callers show, through any sequence of legal   *)
(* calls and for any inputs: the address and the coordinates of HexFrame,   *)
(* the gate and the closure of Gates, the frame and the resolution of Boot; *)
(* what the scrubbed store of Secded loses, however often bits flip; that   *)
(* the accumulator of Radix is the number its digits write; that main never *)
(* unites what its last witness is not about; and that the programs checked *)
(* side by side are each the program proved about here.                     *)
(***************************************************************************)
EXTENDS Programs, FiniteSetTheorems, SequenceTheorems, WellFoundedInduction, TLAPS

-----------------------------------------------------------------------------
(* The address text *)

FrameInv == FrameUnmixed /\ (parsed => number \in 1 .. Texts)

\* However refused and accepted texts follow each other, an accepted one is shown in
\* full and only one text is ever reconciled.
THEOREM FramesUnmixed == FrameSpec => []FrameUnmixed
<1>1. FrameInit => FrameInv
  BY DEF FrameInit, FrameInv, FrameUnmixed
<1>2. FrameInv /\ [FrameNext]_frameVars => FrameInv'
  <2>. SUFFICES ASSUME FrameInv, [FrameNext]_frameVars PROVE FrameInv'
    OBVIOUS
  <2>1. ASSUME NEW t \in Text, ParseHexFrame(t) PROVE FrameInv'
    <3>1. ASSUME parsed' PROVE number' \in 1 .. Texts /\
                               \A i \in 0 .. 7 : address'[i] = Shows(number', i)
      <4>1. t.length = 39 /\ t.spoilt = -1
        BY <2>1, <3>1, Zenon DEF ParseHexFrame
      <4>2. Written(t) = 0 .. 7
        BY <4>1 DEF Written
      <4>. QED
        BY <2>1, <4>2 DEF ParseHexFrame, Text
    <3>2. UNCHANGED coordinates
      BY <2>1 DEF ParseHexFrame
    <3>. QED
      BY <3>1, <3>2 DEF FrameInv, FrameUnmixed
  <2>2. CASE ReconcileFrame
    <3>1. coordinates' = <<Shows(number, 0), Shows(number, 1)>> /\ number \in 1 .. Texts
      BY <2>2 DEF ReconcileFrame, FrameInv, FrameUnmixed
    <3>2. UNCHANGED <<address, parsed, number>>
      BY <2>2 DEF ReconcileFrame
    <3>. QED
      BY <3>1, <3>2 DEF FrameInv, FrameUnmixed
  <2>3. CASE UNCHANGED frameVars
    BY <2>3 DEF FrameInv, FrameUnmixed, frameVars
  <2>. QED
    BY <2>1, <2>2, <2>3 DEF FrameNext
<1>3. FrameInv => FrameUnmixed
  BY DEF FrameInv
<1>. QED
  BY <1>1, <1>2, <1>3, PTL DEF FrameSpec

-----------------------------------------------------------------------------
(* The arbiters *)

\* What an opened gate says is said of one effect only.
LEMMA SwitchInjective ==
  ASSUME NEW e \in Effect, Switch(e).allow
  PROVE  /\ {d \in Effect : Switch(d).word = Switch(e).word} = {e}
         /\ {d \in Effect : Switch(d).offset = Switch(e).offset} = {e}
         /\ Switch(e).word \div 256 - \h1A = (Switch(e).offset - \h18) \div 4
<1>. USE DEF Switch, Open, Closed, Unauthorized
<1>1. e \in {8, 9, 10, 11}
  OBVIOUS
<1>2. \A d : d \notin {8, 9, 10, 11} => Switch(d).word = 0 /\ Switch(d).offset = 0
  OBVIOUS
<1>3. \A d : Switch(d).word = Switch(e).word => d = e
  BY <1>1, <1>2
<1>4. \A d : Switch(d).offset = Switch(e).offset => d = e
  BY <1>1, <1>2
<1>5. Switch(e).word \div 256 - \h1A = (Switch(e).offset - \h18) \div 4
  BY <1>1
<1>. QED
  BY <1>3, <1>4, <1>5

\* For any chunks in any order the gate names the effect asked for last, or none, and
\* a closure was asked for with both witnesses.
THEOREM GatesNameEffect == GateSpec => []GateNamesEffect
<1>1. GateInit => GateNamesEffect
  BY DEF GateInit, GateNamesEffect, Closed
<1>2. GateNamesEffect /\ [GateNext]_gateVars => GateNamesEffect'
  <2>. SUFFICES ASSUME GateNamesEffect, [GateNext]_gateVars PROVE GateNamesEffect'
    OBVIOUS
  <2>1. ASSUME NEW locked \in BOOLEAN, NEW hash \in Hash, NEW effect \in Effect,
               Arbitrate([locked |-> locked, hash |-> hash, effect |-> effect])
        PROVE  GateNamesEffect'
    <3>1. closure' = closure /\ chunk' = [locked |-> locked, hash |-> hash, effect |-> effect]
      BY <2>1 DEF Arbitrate
    <3>2. CASE locked /\ hash # 0
      <4>1. gate' = Switch(effect)
        BY <2>1, <3>2 DEF Arbitrate
      <4>2. ~gate'.allow => gate'.word = 0 /\ gate'.offset = 0
        BY <4>1 DEF Switch, Open, Closed, Unauthorized
      <4>. QED
        BY <3>1, <3>2, <4>1, <4>2, SwitchInjective DEF GateNamesEffect
    <3>3. CASE ~(locked /\ hash # 0)
      <4>1. ~gate'.allow /\ gate'.word = 0 /\ gate'.offset = 0
        BY <2>1, <3>3 DEF Arbitrate, Closed
      <4>. QED
        BY <3>1, <4>1 DEF GateNamesEffect
    <3>. QED
      BY <3>2, <3>3
  <2>2. CASE ArbitrateNull
    BY <2>2 DEF ArbitrateNull, GateNamesEffect, Closed
  <2>3. ASSUME NEW pattern \in PatternWitness, NEW sum \in DiagonalSum,
               Adjudicate(pattern, sum)
        PROVE  GateNamesEffect'
    BY <2>3 DEF Adjudicate, Confirmed, GateNamesEffect
  <2>4. CASE UNCHANGED gateVars
    BY <2>4 DEF GateNamesEffect, gateVars
  <2>. QED
    BY <2>1, <2>2, <2>3, <2>4 DEF GateNext
<1>. QED
  BY <1>1, <1>2, PTL DEF GateSpec

-----------------------------------------------------------------------------
(* The boot envelope *)

\* Where a byte of the second half lies: in an active scope, a carrier scope or one half
\* of a word.
LEMMA HalfOfByte ==
  ASSUME NEW i \in 0 .. 31
  PROVE  \E k \in 0 .. 15 :
           /\ k = i \div 2 /\ i = 2 * k + (i % 2) /\ i % 2 \in {0, 1}
           /\ \/ i < 8 /\ k \in 0 .. 3
              \/ i \in 8 .. 15 /\ \E j \in 0 .. 3 : j = (i - 8) \div 2 /\ k = 4 + j
              \/ i > 15 /\ \E j \in 0 .. 3 : /\ j = (i - 16) \div 4
                                             /\ k % 2 \in {0, 1} /\ k = 8 + 2 * j + (k % 2)
<1>. DEFINE k == i \div 2
<1>1. k \in 0 .. 15 /\ i = 2 * k + (i % 2) /\ i % 2 \in {0, 1}
  OBVIOUS
<1>2. i < 8 => k \in 0 .. 3
  OBVIOUS
<1>3. i \in 8 .. 15 => (i - 8) \div 2 \in 0 .. 3 /\ k = 4 + ((i - 8) \div 2)
  OBVIOUS
<1>4. i > 15 => /\ (i - 16) \div 4 \in 0 .. 3
                /\ k % 2 \in {0, 1} /\ k = 8 + 2 * ((i - 16) \div 4) + (k % 2)
  OBVIOUS
<1>5. i < 8 \/ i \in 8 .. 15 \/ i > 15
  OBVIOUS
<1>. QED
  BY <1>1, <1>2, <1>3, <1>4, <1>5

\* The half word of a frame that byte i is laid out from.
HalfAt(f, i) ==
  IF i < 8 THEN f.active[i \div 2]
  ELSE IF i < 16 THEN f.carrier[(i - 8) \div 2]
  ELSE f.words[(i - 16) \div 4][((i \div 2) % 2) + 1]

\* It is the one that was read there.
LEMMA FrameHalf ==
  ASSUME NEW envelope, NEW i \in 0 .. 31
  PROVE  \E n \in 0 .. 62 : /\ n + 1 \in 0 .. 63
                            /\ (i % 2 = 0 /\ n = 32 + i) \/ (i % 2 = 1 /\ n + 1 = 32 + i)
                            /\ HalfAt(FrameOf(envelope), i) = ReadU16(envelope, n)
<1>. DEFINE f == FrameOf(envelope)
            half == HalfAt(f, i)
<1>1. PICK k \in 0 .. 15 :
        /\ k = i \div 2 /\ i = 2 * k + (i % 2) /\ i % 2 \in {0, 1}
        /\ \/ i < 8 /\ k \in 0 .. 3
           \/ i \in 8 .. 15 /\ \E j \in 0 .. 3 : j = (i - 8) \div 2 /\ k = 4 + j
           \/ i > 15 /\ \E j \in 0 .. 3 : /\ j = (i - 16) \div 4
                                          /\ k % 2 \in {0, 1} /\ k = 8 + 2 * j + (k % 2)
  BY HalfOfByte
<1>2. \A j \in 0 .. 3 :
        /\ f.active[j] = ReadU16(envelope, 32 + 2 * j)
        /\ f.carrier[j] = ReadU16(envelope, 40 + 2 * j)
        /\ f.words[j] = <<ReadU16(envelope, 48 + 4 * j), ReadU16(envelope, 48 + 4 * j + 2)>>
  BY DEF FrameOf, ReadU32
<1>3. half = IF i < 8 THEN f.active[k]
             ELSE IF i < 16 THEN f.carrier[(i - 8) \div 2]
             ELSE f.words[(i - 16) \div 4][(k % 2) + 1]
  BY <1>1, Zenon DEF HalfAt
<1>. HIDE DEF f, half
<1>4. ASSUME i < 8, k \in 0 .. 3 PROVE half = ReadU16(envelope, 32 + 2 * k)
  <2>1. half = f.active[k]
    BY <1>3, <1>4
  <2>2. k \in 0 .. 3
    BY <1>4
  <2>3. f.active[k] = ReadU16(envelope, 32 + 2 * k)
    BY <1>2, <2>2, Zenon
  <2>. QED
    BY <2>1, <2>3
<1>5. ASSUME NEW j \in 0 .. 3, i \in 8 .. 15, j = (i - 8) \div 2, k = 4 + j
      PROVE  half = ReadU16(envelope, 32 + 2 * k)
  <2>1. half = f.carrier[j]
    BY <1>3, <1>5
  <2>2. 40 + 2 * j = 32 + 2 * k
    BY <1>5
  <2>. QED
    BY <1>2, <2>1, <2>2
<1>6. ASSUME NEW j \in 0 .. 3, i > 15, j = (i - 16) \div 4,
             k % 2 \in {0, 1}, k = 8 + 2 * j + (k % 2)
      PROVE  half = ReadU16(envelope, 32 + 2 * k)
  <2>1. half = f.words[j][(k % 2) + 1]
    BY <1>3, <1>6
  <2>2. f.words[j] = <<ReadU16(envelope, 48 + 4 * j), ReadU16(envelope, 48 + 4 * j + 2)>>
    BY <1>2
  <2>3. CASE k % 2 = 0
    <3>1. 48 + 4 * j = 32 + 2 * k /\ (k % 2) + 1 = 1
      BY <1>6, <2>3
    <3>. QED
      BY <2>1, <2>2, <3>1
  <2>4. CASE k % 2 = 1
    <3>1. 48 + 4 * j + 2 = 32 + 2 * k /\ (k % 2) + 1 = 2
      BY <1>6, <2>4
    <3>. QED
      BY <2>1, <2>2, <3>1
  <2>. QED
    BY <1>6, <2>3, <2>4
<1>7. half = ReadU16(envelope, 32 + 2 * k)
  <2>1. CASE i \in 8 .. 15 /\ \E j \in 0 .. 3 : j = (i - 8) \div 2 /\ k = 4 + j
    <3>1. PICK j \in 0 .. 3 : j = (i - 8) \div 2 /\ k = 4 + j
      BY <2>1
    <3>. QED
      BY <1>5, <2>1, <3>1, Zenon
  <2>2. CASE i > 15 /\ \E j \in 0 .. 3 : /\ j = (i - 16) \div 4
                                       /\ k % 2 \in {0, 1} /\ k = 8 + 2 * j + (k % 2)
    <3>1. PICK j \in 0 .. 3 : j = (i - 16) \div 4 /\ k % 2 \in {0, 1} /\ k = 8 + 2 * j + (k % 2)
      BY <2>2
    <3>. QED
      BY <1>6, <2>2, <3>1, Zenon
  <2>. QED
    BY <1>1, <1>4, <2>1, <2>2
<1>8. /\ 32 + 2 * k \in 0 .. 62 /\ 32 + 2 * k + 1 \in 0 .. 63
      /\ (i % 2 = 0 /\ 32 + 2 * k = 32 + i) \/ (i % 2 = 1 /\ 32 + 2 * k + 1 = 32 + i)
  BY <1>1
<1>. QED
  BY <1>7, <1>8 DEF f, half

LEMMA LayoutReads ==
  ASSUME NEW envelope, NEW i \in 0 .. 31
  PROVE  \E n \in 0 .. 62 :
           /\ n \in 0 .. 63 /\ n + 1 \in 0 .. 63
           /\ \/ n = 32 + i /\ Layout(FrameOf(envelope), i) = ReadU16(envelope, n) \div 256
              \/ n + 1 = 32 + i /\ Layout(FrameOf(envelope), i) = ReadU16(envelope, n) % 256
<1>. DEFINE half == HalfAt(FrameOf(envelope), i)
<1>1. Layout(FrameOf(envelope), i) = IF i % 2 = 0 THEN half \div 256 ELSE half % 256
  BY Zenon DEF Layout, HalfAt
<1>2. PICK n \in 0 .. 62 : /\ n + 1 \in 0 .. 63
                           /\ (i % 2 = 0 /\ n = 32 + i) \/ (i % 2 = 1 /\ n + 1 = 32 + i)
                           /\ half = ReadU16(envelope, n)
  BY FrameHalf
<1>. HIDE DEF half
<1>3. n \in 0 .. 63 /\ (i % 2 = 1 => i % 2 # 0)
  OBVIOUS
<1>. QED
  BY <1>1, <1>2, <1>3

LEMMA BytesOfHalf ==
  ASSUME NEW a \in 0 .. 255, NEW b \in 0 .. 255
  PROVE  (a * 256 + b) \div 256 = a /\ (a * 256 + b) % 256 = b
  OBVIOUS

IsEnvelope(e) == \A j \in 0 .. 63 : e[j] \in 0 .. 255

\* Laying out the frame read from an envelope gives its second half back.
LEMMA LayoutOfFrame ==
  ASSUME NEW envelope, IsEnvelope(envelope), NEW i \in 0 .. 31
  PROVE  Layout(FrameOf(envelope), i) = envelope[32 + i]
<1>1. PICK n \in 0 .. 62 :
        /\ n \in 0 .. 63 /\ n + 1 \in 0 .. 63
        /\ \/ n = 32 + i /\ Layout(FrameOf(envelope), i) = ReadU16(envelope, n) \div 256
           \/ n + 1 = 32 + i /\ Layout(FrameOf(envelope), i) = ReadU16(envelope, n) % 256
  BY LayoutReads
<1>. DEFINE a == envelope[n]
            b == envelope[n + 1]
<1>2. a \in 0 .. 255 /\ b \in 0 .. 255
  BY <1>1 DEF IsEnvelope
<1>3. ReadU16(envelope, n) = a * 256 + b
  BY DEF ReadU16
<1>4. /\ n = 32 + i => a = envelope[32 + i]
      /\ n + 1 = 32 + i => b = envelope[32 + i]
  OBVIOUS
<1>. HIDE DEF a, b
<1>5. (a * 256 + b) \div 256 = a /\ (a * 256 + b) % 256 = b
  BY <1>2, BytesOfHalf
<1>. QED
  BY <1>1, <1>3, <1>4, <1>5

FlashedInv ==
  frame # <<>> =>
    IsEnvelope(flashed) /\ Prefixed(flashed) /\ frame = FrameOf(flashed)

\* For any bytes at any position the frame is the second half of one envelope.
THEOREM BootFrameWhole == BootSpec => []FrameWhole
<1>1. BootInit => FlashedInv
  BY DEF BootInit, FlashedInv
<1>2. FlashedInv /\ [BootNext]_bootVars => FlashedInv'
  <2>. SUFFICES ASSUME FlashedInv, [BootNext]_bootVars PROVE FlashedInv'
    OBVIOUS
  <2>1. ASSUME NEW k \in Spot, NEW v \in BootByte, NEW length \in {63, 64},
               Parse(Envelope(k, v), length)
        PROVE  FlashedInv'
    <3>1. CASE boot' = "OK"
      <4>1. frame' = FrameOf(Envelope(k, v)) /\ flashed' = Envelope(k, v)
        BY <2>1, <3>1, Zenon DEF Parse
      <4>2. Prefixed(Envelope(k, v))
        BY <2>1, <3>1 DEF Parse
      <4>3. IsEnvelope(Envelope(k, v))
        <5>1. v \in 0 .. 255 /\ 0 \in 0 .. 255
          BY BootByteAssumption
        <5>2. \A j \in 0 .. 7 : Preheader[j + 1] \in 0 .. 255
          BY DEF Preheader
        <5>3. \A j \in 0 .. 63 : j < 8 => j \in 0 .. 7
          OBVIOUS
        <5>4. \A j \in 0 .. 63 :
                Envelope(k, v)[j] = IF j = k THEN v ELSE IF j < 8 THEN Preheader[j + 1] ELSE 0
          BY DEF Envelope
        <5>5. ASSUME NEW j \in 0 .. 63 PROVE Envelope(k, v)[j] \in 0 .. 255
          <6>1. CASE j = k
            BY <5>1, <5>4, <6>1
          <6>2. CASE j # k /\ j < 8
            BY <5>2, <5>3, <5>4, <6>2
          <6>3. CASE j # k /\ ~(j < 8)
            BY <5>1, <5>4, <6>3
          <6>. QED
            BY <6>1, <6>2, <6>3
        <5>. QED
          BY <5>5 DEF IsEnvelope
      <4>. QED
        BY <4>1, <4>2, <4>3 DEF FlashedInv
    <3>2. CASE boot' # "OK"
      BY <2>1, <3>2 DEF Parse, FlashedInv
    <3>. QED
      BY <3>1, <3>2
  <2>2. ASSUME NEW face \in Face, NEW x \in FieldX, NEW y \in FieldY,
               NEW attested \in BOOLEAN, Resolve(face, x, y, attested)
        PROVE  FlashedInv'
    BY <2>2 DEF Resolve, FlashedInv
  <2>3. CASE UNCHANGED bootVars
    BY <2>3 DEF FlashedInv, bootVars
  <2>. QED
    BY <2>1, <2>2, <2>3 DEF BootNext
<1>3. FlashedInv => FrameWhole
  BY LayoutOfFrame DEF FlashedInv, FrameWhole
<1>. QED
  BY <1>1, <1>2, <1>3, PTL DEF BootSpec

\* Within the bounds of the candidate check the energy tells the position.
LEMMA EnergyInjective ==
  ASSUME NEW x \in Nat, NEW y \in 0 .. 3, NEW u \in Nat, NEW v \in 0 .. 3,
         BootEnergy(x, y) = BootEnergy(u, v)
  PROVE  x = u /\ y = v
<1>1. ASSUME NEW a \in Nat, NEW b \in 0 .. 3, NEW c \in Nat, NEW d \in 0 .. 3, a < c
      PROVE  BootEnergy(a, b) < BootEnergy(c, d)
  <2>1. PICK n \in Nat : c = a + 1 + n
    <3>1. c - a - 1 \in Nat /\ c = a + 1 + (c - a - 1)
      BY <1>1
    <3>. QED
      BY <3>1
  <2>2. c * c = a * a + 2 * a + 1 + 2 * n + 2 * (a * n) + n * n
    BY <2>1
  <2>3. a * n \in Nat /\ n * n \in Nat /\ a * a \in Nat /\ c * d \in Nat
    BY <2>1
  <2>4. 60 * a * a + 16 * a * b + 4 * b * b <= 60 * (a * a) + 48 * a + 36
    <3>1. b = 0 \/ b = 1 \/ b = 2 \/ b = 3
      OBVIOUS
    <3>. QED
      BY <3>1
  <2>5. 60 * c * c + 16 * c * d + 4 * d * d >= 60 * (c * c)
    <3>1. d = 0 \/ d = 1 \/ d = 2 \/ d = 3
      OBVIOUS
    <3>. QED
      BY <3>1
  <2>6. 60 * (c * c) >= 60 * (a * a) + 120 * a + 60
    BY <2>1, <2>2, <2>3
  <2>. QED
    BY <2>3, <2>4, <2>5, <2>6 DEF BootEnergy
<1>2. x = u
  <2>1. BootEnergy(x, y) \in Int /\ BootEnergy(u, v) \in Int
    BY DEF BootEnergy
  <2>2. ~(x < u) /\ ~(u < x)
    BY <1>1, <2>1
  <2>. QED
    BY <2>2
<1>3. y = v
  <2>1. (y = 0 \/ y = 1 \/ y = 2 \/ y = 3) /\ (v = 0 \/ v = 1 \/ v = 2 \/ v = 3)
    OBVIOUS
  <2>. QED
    BY <1>2, <2>1 DEF BootEnergy
<1>. QED
  BY <1>2, <1>3

\* What the last call presented and answered, and the candidate the resolution is of.
ResolvedInv ==
  /\ presented # <<>> =>
       /\ presented.face \in Nat /\ presented.x \in Nat /\ presented.y \in Nat
       /\ presented.attested \in BOOLEAN
       /\ boot = IF ~InBounds(presented.face, presented.x, presented.y)
                 THEN "BQF_OUT_OF_BOUNDS"
                 ELSE IF presented.attested THEN "OK" ELSE "SECURE_REJECTION"
       /\ InBounds(presented.face, presented.x, presented.y) => candidate = presented
  /\ candidate # <<>> =>
       /\ InBounds(candidate.face, candidate.x, candidate.y)
       /\ candidate.face \in Nat /\ candidate.x \in Nat /\ candidate.y \in Nat
       /\ resolution = [energy |-> BootEnergy(candidate.x, candidate.y),
                        face |-> candidate.face,
                        core |-> candidate.x = 0 /\ candidate.y = 0]

\* The limits of the code are those of the field.
LEMMA BoundsAreField ==
  ASSUME NEW c, c.face \in Nat, c.x \in Nat, c.y \in Nat
  PROVE  InBounds(c.face, c.x, c.y) <=> InField(c)
  BY DEF InBounds, InField

\* For any candidates BOOT_OK is the answer exactly to one of the field that is
\* attested, and a resolution names one position of the field, its own.
THEOREM BootResolutionNames == BootSpec => []ResolutionNames
<1>1. BootInit => ResolvedInv
  BY DEF BootInit, ResolvedInv
<1>2. ResolvedInv /\ [BootNext]_bootVars => ResolvedInv'
  <2>. SUFFICES ASSUME ResolvedInv, [BootNext]_bootVars PROVE ResolvedInv'
    OBVIOUS
  <2>1. ASSUME NEW k \in Spot, NEW v \in BootByte, NEW length \in {63, 64},
               Parse(Envelope(k, v), length)
        PROVE  ResolvedInv'
    <3>1. UNCHANGED <<resolution, candidate>> /\ presented' = <<>>
      BY <2>1 DEF Parse
    <3>. QED
      BY <3>1 DEF ResolvedInv, InBounds
  <2>2. ASSUME NEW face \in Face, NEW x \in FieldX, NEW y \in FieldY,
               NEW attested \in BOOLEAN, Resolve(face, x, y, attested)
        PROVE  ResolvedInv'
    <3>1. /\ presented' = [face |-> face, x |-> x, y |-> y, attested |-> attested]
          /\ face \in Nat /\ x \in Nat /\ y \in Nat
      BY <2>2, CandidateAssumption DEF Resolve
    <3>2. CASE InBounds(face, x, y)
      <4>1. /\ resolution' = [energy |-> BootEnergy(x, y), face |-> face,
                              core |-> x = 0 /\ y = 0]
            /\ candidate' = presented'
            /\ boot' = IF attested THEN "OK" ELSE "SECURE_REJECTION"
        BY <2>2, <3>2 DEF Resolve
      <4>. QED
        BY <3>1, <3>2, <4>1 DEF ResolvedInv, InBounds
    <3>3. CASE ~InBounds(face, x, y)
      <4>1. boot' = "BQF_OUT_OF_BOUNDS" /\ UNCHANGED <<resolution, candidate>>
        BY <2>2, <3>3 DEF Resolve
      <4>. QED
        BY <3>1, <3>3, <4>1 DEF ResolvedInv, InBounds
    <3>. QED
      BY <3>2, <3>3
  <2>3. CASE UNCHANGED bootVars
    BY <2>3 DEF ResolvedInv, InBounds, bootVars
  <2>. QED
    BY <2>1, <2>2, <2>3 DEF BootNext
<1>3. ResolvedInv => ResolutionNames
  <2>. SUFFICES ASSUME ResolvedInv PROVE ResolutionNames
    OBVIOUS
  <2>1. ASSUME presented # <<>>
        PROVE  /\ boot = "OK" <=> InField(presented) /\ presented.attested
               /\ boot = "SECURE_REJECTION" <=> InField(presented) /\ ~presented.attested
               /\ InField(presented) => candidate = presented
    <3>1. InBounds(presented.face, presented.x, presented.y) <=> InField(presented)
      BY <2>1, BoundsAreField DEF ResolvedInv
    <3>. QED
      BY <2>1, <3>1 DEF ResolvedInv
  <2>2. ASSUME candidate # <<>>
        PROVE  /\ InField(candidate)
               /\ \A x \in 0 .. 239, y \in 0 .. 3 :
                    BootEnergy(x, y) = resolution.energy => x = candidate.x /\ y = candidate.y
               /\ resolution.core <=> resolution.energy = 0
               /\ resolution.face = candidate.face
    <3>1. InField(candidate)
      BY <2>2, BoundsAreField DEF ResolvedInv
    <3>2. /\ candidate.x \in Nat /\ candidate.y \in 0 .. 3
          /\ resolution.energy = BootEnergy(candidate.x, candidate.y)
          /\ resolution.core = (candidate.x = 0 /\ candidate.y = 0)
          /\ resolution.face = candidate.face
      BY <2>2 DEF ResolvedInv, InBounds
    <3>3. \A x \in Nat, y \in 0 .. 3 :
            BootEnergy(x, y) = resolution.energy => x = candidate.x /\ y = candidate.y
      BY <3>2, EnergyInjective
    <3>4. BootEnergy(0, 0) = 0
      BY DEF BootEnergy
    <3>5. candidate.x = 0 /\ candidate.y = 0 <=> resolution.energy = 0
      <4>1. resolution.energy = 0 => candidate.x = 0 /\ candidate.y = 0
        <5>1. 0 \in Nat /\ 0 \in 0 .. 3
          OBVIOUS
        <5>. QED
          BY <3>3, <3>4, <5>1, Zenon
      <4>2. candidate.x = 0 /\ candidate.y = 0 => resolution.energy = 0
        BY <3>2, <3>4, Zenon
      <4>. QED
        BY <4>1, <4>2
    <3>6. resolution.core <=> resolution.energy = 0
      BY <3>2, <3>5, Zenon
    <3>7. \A x \in 0 .. 239, y \in 0 .. 3 :
            BootEnergy(x, y) = resolution.energy => x = candidate.x /\ y = candidate.y
      <4>1. \A x \in 0 .. 239 : x \in Nat
        OBVIOUS
      <4>. QED
        BY <3>3, <4>1, Zenon
    <3>. QED
      BY <3>1, <3>2, <3>6, <3>7
  <2>. QED
    BY <2>1, <2>2 DEF ResolutionNames
<1>. QED
  BY <1>1, <1>2, <1>3, PTL DEF BootSpec

-----------------------------------------------------------------------------
(***************************************************************************)
(* The scrubbed store.  The syndrome and the parity of the received bits    *)
(* depend on the wrong bits alone (SyndromeInv): flipping a bit flips the   *)
(* same parities of the word and of its errors.                             *)
(***************************************************************************)
CheckSets == {{1, 3, 5, 7}, {2, 3, 6, 7}, {4, 5, 6, 7}, Position}

\* Sets of positions can be counted.
LEMMA PositionFinite ==
  ASSUME NEW w \in SUBSET Position, NEW s
  PROVE  IsFiniteSet(w) /\ IsFiniteSet(w \cap s) /\ Cardinality(w \cap s) \in Nat
         /\ Cardinality(w) \in Nat
<1>1. IsFiniteSet(Position)
  <2>1. IsFiniteSet(1 .. 8)
    BY FS_Interval, 1 \in Int, 8 \in Int
  <2>. QED
    BY <2>1 DEF Position
<1>2. IsFiniteSet(w)
  BY <1>1, FS_Subset
<1>. QED
  BY <1>2, FS_Intersection, FS_CardinalityType

\* Flipping a bit flips the parities it takes part in, and no other.
LEMMA ToggleParity ==
  ASSUME NEW w \in SUBSET Position, NEW p \in Position, NEW s
  PROVE  /\ Toggle(w, p) \in SUBSET Position
         /\ Parity(w, s) \in {0, 1}
         /\ Parity(Toggle(w, p), s) = IF p \in s THEN 1 - Parity(w, s) ELSE Parity(w, s)
<1>1. IsFiniteSet(w \cap s) /\ Cardinality(w \cap s) \in Nat
  BY PositionFinite
<1>2. Toggle(w, p) \in SUBSET Position
  BY DEF Toggle
<1>3. CASE p \notin s
  <2>1. Toggle(w, p) \cap s = w \cap s
    BY <1>3 DEF Toggle
  <2>. QED
    BY <1>1, <1>2, <1>3, <2>1 DEF Parity
<1>4. CASE p \in s /\ p \in w
  <2>1. Toggle(w, p) \cap s = (w \cap s) \ {p} /\ p \in w \cap s
    BY <1>4 DEF Toggle
  <2>2. Cardinality((w \cap s) \ {p}) = Cardinality(w \cap s) - 1
    BY <1>1, <2>1, FS_RemoveElement
  <2>3. \A n \in Nat : (n - 1) % 2 = 1 - (n % 2)
    OBVIOUS
  <2>4. Parity(Toggle(w, p), s) = (Cardinality(w \cap s) - 1) % 2
    BY <2>1, <2>2 DEF Parity
  <2>. QED
    BY <1>1, <1>2, <1>4, <2>3, <2>4 DEF Parity
<1>5. CASE p \in s /\ p \notin w
  <2>1. Toggle(w, p) \cap s = (w \cap s) \cup {p} /\ p \notin w \cap s
    BY <1>5 DEF Toggle
  <2>2. Cardinality(Toggle(w, p) \cap s) = Cardinality(w \cap s) + 1
    BY <1>1, <2>1, FS_AddElement
  <2>. QED
    BY <1>1, <1>2, <1>5, <2>2 DEF Parity
<1>. QED
  BY <1>3, <1>4, <1>5

\* Nothing flipped, no parity.
LEMMA EmptyParity == \A s : Parity({}, s) = 0
<1>1. \A s : {} \cap s = {}
  OBVIOUS
<1>. QED
  BY <1>1, FS_EmptySet DEF Parity

\* The parities of one wrong bit.
LEMMA SingleParity ==
  ASSUME NEW p \in Position, NEW s
  PROVE  Parity({p}, s) = IF p \in s THEN 1 ELSE 0
<1>1. Toggle({}, p) = {p}
  BY DEF Toggle
<1>. QED
  BY <1>1, EmptyParity, ToggleParity

\* The parities of two wrong bits.
LEMMA DoubleParity ==
  ASSUME NEW p \in Position, NEW q \in Position, p # q, NEW s
  PROVE  Parity({p, q}, s) = IF (p \in s) = (q \in s) THEN 0 ELSE 1
<1>1. Toggle({p}, q) = {p, q}
  BY DEF Toggle
<1>2. {p} \in SUBSET Position
  OBVIOUS
<1>3. Parity({p, q}, s) = IF q \in s THEN 1 - Parity({p}, s) ELSE Parity({p}, s)
  BY <1>1, <1>2, ToggleParity
<1>. QED
  BY <1>3, SingleParity

\* A bit set where a parity asks for it makes that parity even.
LEMMA CheckBit ==
  ASSUME NEW w \in SUBSET Position, NEW p \in Position, p \notin w, NEW s, p \in s
  PROVE  Parity(w \cup {x \in {p} : Parity(w, s) = 1}, s) = 0
<1>1. Parity(w, s) \in {0, 1}
  BY ToggleParity
<1>2. CASE Parity(w, s) = 0
  <2>1. w \cup {x \in {p} : Parity(w, s) = 1} = w
    BY <1>2
  <2>. QED
    BY <1>2, <2>1
<1>3. CASE Parity(w, s) = 1
  <2>1. w \cup {x \in {p} : Parity(w, s) = 1} = Toggle(w, p)
    BY <1>3 DEF Toggle
  <2>. QED
    BY <1>3, <2>1, ToggleParity
<1>. QED
  BY <1>1, <1>2, <1>3

\* Parity looks at the bits of its set alone.
LEMMA ParityLocal ==
  ASSUME NEW w, NEW v, NEW s, w \cap s = v \cap s PROVE Parity(w, s) = Parity(v, s)
  BY DEF Parity

\* A check bit makes the parity over its set even, whatever the bits outside it.
LEMMA CheckBitIn ==
  ASSUME NEW q \in SUBSET Data, NEW p \in Position, NEW s, NEW d, NEW w, p \notin q,
         p \in s, p \notin d, q \cap s = q \cap d,
         w \cap s = (q \cup {x \in {p} : Parity(q, d) = 1}) \cap s
  PROVE  Parity(w, s) = 0
<1>1. q \in SUBSET Position
  BY DEF Data, Position
<1>2. Parity(q, d) = Parity(q, s)
  BY DEF Parity
<1>3. Parity(q \cup {x \in {p} : Parity(q, s) = 1}, s) = 0
  BY <1>1, CheckBit
<1>. QED
  BY <1>2, <1>3, ParityLocal

\* A codeword passes its own four checks, and carries its data.
LEMMA EncodeEven ==
  ASSUME NEW q \in SUBSET Data
  PROVE  /\ Encode(q) \in SUBSET Position /\ Encode(q) \cap Data = q
         /\ \A s \in CheckSets : Parity(Encode(q), s) = 0
<1>. DEFINE c1 == {x \in {1} : Parity(q, {3, 5, 7}) = 1}
            c2 == {x \in {2} : Parity(q, {3, 6, 7}) = 1}
            c4 == {x \in {4} : Parity(q, {5, 6, 7}) = 1}
            code == q \cup c1 \cup c2 \cup c4
            o == {x \in {8} : Parity(code, 1 .. 7) = 1}
            all == code \cup o
<1>1. Encode(q) = all
  <2>1. {p \in {1, 2, 4} :
           Parity(q, IF p = 1 THEN {3, 5, 7} ELSE IF p = 2 THEN {3, 6, 7}
                     ELSE {5, 6, 7}) = 1} = c1 \cup c2 \cup c4
    OBVIOUS
  <2>. QED
    BY <2>1 DEF Encode, Omnion
<1>2. q \in SUBSET Data /\ c1 \in SUBSET {1} /\ c2 \in SUBSET {2} /\ c4 \in SUBSET {4}
      /\ o \in SUBSET {8}
  OBVIOUS
<1>3. Parity(all, {1, 3, 5, 7}) = 0
  <2>. HIDE DEF c2, c4, o
  <2>1. all \cap {1, 3, 5, 7} = (q \cup c1) \cap {1, 3, 5, 7}
    <3>. HIDE DEF c1
    <3>. QED
      BY <1>2
  <2>2. 1 \in Position /\ 1 \notin q /\ q \cap {1, 3, 5, 7} = q \cap {3, 5, 7}
        /\ 1 \in {1, 3, 5, 7} /\ 1 \notin {3, 5, 7}
    BY DEF Data, Position
  <2>. HIDE DEF all, code
  <2>. QED
    BY <2>1, <2>2, CheckBitIn
<1>4. Parity(all, {2, 3, 6, 7}) = 0
  <2>. HIDE DEF c1, c4, o
  <2>1. all \cap {2, 3, 6, 7} = (q \cup c2) \cap {2, 3, 6, 7}
    <3>. HIDE DEF c2
    <3>. QED
      BY <1>2
  <2>2. 2 \in Position /\ 2 \notin q /\ q \cap {2, 3, 6, 7} = q \cap {3, 6, 7}
        /\ 2 \in {2, 3, 6, 7} /\ 2 \notin {3, 6, 7}
    BY DEF Data, Position
  <2>. HIDE DEF all, code
  <2>. QED
    BY <2>1, <2>2, CheckBitIn
<1>5. Parity(all, {4, 5, 6, 7}) = 0
  <2>. HIDE DEF c1, c2, o
  <2>1. all \cap {4, 5, 6, 7} = (q \cup c4) \cap {4, 5, 6, 7}
    <3>. HIDE DEF c4
    <3>. QED
      BY <1>2
  <2>2. 4 \in Position /\ 4 \notin q /\ q \cap {4, 5, 6, 7} = q \cap {5, 6, 7}
        /\ 4 \in {4, 5, 6, 7} /\ 4 \notin {5, 6, 7}
    BY DEF Data, Position
  <2>. HIDE DEF all, code
  <2>. QED
    BY <2>1, <2>2, CheckBitIn
<1>6. code \in SUBSET (1 .. 7)
  <2>. HIDE DEF c1, c2, c4
  <2>. QED
    BY <1>2 DEF Data
<1>7. Parity(all, Position) = 0
  <2>. HIDE DEF code
  <2>1. code \in SUBSET Position /\ 8 \notin code /\ 8 \in Position
    BY <1>6 DEF Position
  <2>2. code \cap Position = code \cap (1 .. 7)
    BY <1>6 DEF Position
  <2>3. Parity(code, Position) = Parity(code, 1 .. 7)
    BY <2>2 DEF Parity
  <2>4. Parity(code \cup {x \in {8} : Parity(code, Position) = 1}, Position) = 0
    BY <2>1, CheckBit
  <2>. QED
    BY <2>3, <2>4, Zenon
<1>8. all \in SUBSET Position
  <2>. HIDE DEF code, o
  <2>. QED
    BY <1>2, <1>6 DEF Position
<1>9. all \cap Data = q
  <2>. HIDE DEF c1, c2, c4, o
  <2>1. c1 \cap Data = {} /\ c2 \cap Data = {} /\ c4 \cap Data = {} /\ o \cap Data = {}
    BY <1>2 DEF Data
  <2>. QED
    BY <1>2, <2>1
<1>. HIDE DEF all
<1>. QED
  BY <1>1, <1>3, <1>4, <1>5, <1>7, <1>8, <1>9 DEF CheckSets

\* The verdict on the wrong bits themselves: what one, two and three of them look like.
LEMMA VerdictNone == Verdict({}) = "OK"
  BY EmptyParity DEF Verdict, Syndrome

\* One wrong bit is told by its own syndrome, the OMNION bit by none.
LEMMA VerdictOne ==
  ASSUME NEW p \in Position
  PROVE  /\ p = Omnion => Verdict({p}) = "CORRECTED_EXTENSION"
         /\ p # Omnion => Verdict({p}) = "CORRECTED_SINGLE" /\ Syndrome({p}) = p
<1>1. Parity({p}, Position) = 1
  BY SingleParity
<1>2. /\ Parity({p}, {1, 3, 5, 7}) = IF p \in {1, 3, 5, 7} THEN 1 ELSE 0
      /\ Parity({p}, {2, 3, 6, 7}) = IF p \in {2, 3, 6, 7} THEN 1 ELSE 0
      /\ Parity({p}, {4, 5, 6, 7}) = IF p \in {4, 5, 6, 7} THEN 1 ELSE 0
  BY SingleParity
<1>3. Syndrome({p}) = IF p = 8 THEN 0 ELSE p
  BY <1>2 DEF Syndrome, Position
<1>. QED
  BY <1>1, <1>3 DEF Verdict, Omnion, Position

\* Two wrong bits never look like one: no two positions have the same syndrome.
LEMMA VerdictTwo ==
  ASSUME NEW p \in Position, NEW q \in Position, p # q
  PROVE  Verdict({p, q}) = "DOUBLE_ERROR_DETECTED"
<1>1. Parity({p, q}, Position) = 0
  BY DoubleParity
<1>2. /\ Parity({p, q}, {1, 3, 5, 7}) = IF (p \in {1, 3, 5, 7}) = (q \in {1, 3, 5, 7}) THEN 0 ELSE 1
      /\ Parity({p, q}, {2, 3, 6, 7}) = IF (p \in {2, 3, 6, 7}) = (q \in {2, 3, 6, 7}) THEN 0 ELSE 1
      /\ Parity({p, q}, {4, 5, 6, 7}) = IF (p \in {4, 5, 6, 7}) = (q \in {4, 5, 6, 7}) THEN 0 ELSE 1
  BY DoubleParity
<1>3. ~ (/\ (p \in {1, 3, 5, 7}) = (q \in {1, 3, 5, 7})
         /\ (p \in {2, 3, 6, 7}) = (q \in {2, 3, 6, 7})
         /\ (p \in {4, 5, 6, 7}) = (q \in {4, 5, 6, 7}))
  BY DEF Position
<1>4. Syndrome({p, q}) # 0
  BY <1>2, <1>3 DEF Syndrome
<1>. QED
  BY <1>1, <1>4 DEF Verdict

\* An odd number of wrong bits is always taken for an odd number.
LEMMA VerdictOdd ==
  ASSUME NEW w \in SUBSET Position, Parity(w, Position) = 1
  PROVE  Verdict(w) \in {"CORRECTED_SINGLE", "CORRECTED_EXTENSION"}
  BY DEF Verdict

\* The positions of the word tell only what is wrong with it.
SyndromeInv ==
  /\ sent \in SUBSET Data /\ word \in SUBSET Position
  /\ since \in Nat /\ worst \in Nat /\ since <= worst /\ warned \in BOOLEAN
  /\ \A s \in CheckSets : Parity(word, s) = Parity(Errors, s)

\* The wrong bits of a word without any are its data's codeword.
LEMMA NoErrors ==
  ASSUME sent \in SUBSET Data, word \in SUBSET Position, Errors = {}
  PROVE  word \cap Data = sent
<1>1. Encode(sent) \in SUBSET Position /\ Encode(sent) \cap Data = sent
  BY EncodeEven
<1>2. word = Encode(sent)
  BY <1>1 DEF Errors
<1>. QED
  BY <1>1, <1>2

\* Verdict and syndrome are those of the wrong bits.
LEMMA VerdictOfErrors ==
  ASSUME SyndromeInv
  PROVE  Syndrome(word) = Syndrome(Errors) /\ Verdict(word) = Verdict(Errors)
<1>1. /\ Parity(word, {1, 3, 5, 7}) = Parity(Errors, {1, 3, 5, 7})
      /\ Parity(word, {2, 3, 6, 7}) = Parity(Errors, {2, 3, 6, 7})
      /\ Parity(word, {4, 5, 6, 7}) = Parity(Errors, {4, 5, 6, 7})
      /\ Parity(word, Position) = Parity(Errors, Position)
  BY DEF SyndromeInv, CheckSets
<1>. QED
  BY <1>1 DEF Verdict, Syndrome

\* A flip of the word is a flip of its errors, and keeps the invariant's parities.
LEMMA ToggleErrors ==
  ASSUME SyndromeInv, NEW p \in Position, word' = Toggle(word, p), sent' = sent
  PROVE  /\ Errors' = Toggle(Errors, p)
         /\ word' \in SUBSET Position
         /\ \A s \in CheckSets : Parity(word', s) = Parity(Errors', s)
<1>1. Errors \in SUBSET Position /\ word \in SUBSET Position
  BY DEF Errors, SyndromeInv
<1>2. Errors' = {x \in Position : (x \in Toggle(word, p)) # (x \in Encode(sent))}
  BY DEF Errors
<1>3. Errors' = Toggle(Errors, p)
  BY <1>2 DEF Toggle, Errors
<1>4. ASSUME NEW s \in CheckSets PROVE Parity(Toggle(word, p), s) = Parity(Toggle(Errors, p), s)
  <2>1. Parity(word, s) = Parity(Errors, s)
    BY DEF SyndromeInv
  <2>. QED
    BY <1>1, <2>1, ToggleParity
<1>. QED
  BY <1>1, <1>3, <1>4, ToggleParity

\* One flip makes at most one more bit wrong.
LEMMA OneMoreWrong ==
  ASSUME NEW w \in SUBSET Position, NEW p \in Position
  PROVE  Cardinality(Toggle(w, p)) <= Cardinality(w) + 1
<1>1. IsFiniteSet(w) /\ Cardinality(w) \in Nat
  BY PositionFinite
<1>2. CASE p \in w
  <2>1. Toggle(w, p) = w \ {p}
    BY <1>2 DEF Toggle
  <2>2. Cardinality(w \ {p}) = Cardinality(w) - 1
    BY <1>1, <1>2, FS_RemoveElement
  <2>. QED
    BY <1>1, <2>1, <2>2
<1>3. CASE p \notin w
  <2>1. Toggle(w, p) = w \cup {p}
    BY <1>3 DEF Toggle
  <2>2. Cardinality(w \cup {p}) = Cardinality(w) + 1
    BY <1>1, <1>3, FS_AddElement
  <2>. QED
    BY <1>1, <2>1, <2>2
<1>. QED
  BY <1>2, <1>3

\* What a check leaves of no, one and two wrong bits, and what it says of three.
LEMMA CheckSays ==
  ASSUME SyndromeInv, Check
  PROVE  LET n == Cardinality(Errors)
         IN  /\ n = 0 => status' = "OK" /\ Errors' = {}
             /\ n = 1 => status' \in {"CORRECTED_SINGLE", "CORRECTED_EXTENSION"} /\ Errors' = {}
             /\ n = 2 => status' = "DOUBLE_ERROR_DETECTED" /\ Errors' = Errors
             /\ n = 3 => status' \notin {"OK", "DOUBLE_ERROR_DETECTED"}
<1>1. Errors \in SUBSET Position /\ IsFiniteSet(Errors)
  BY PositionFinite DEF Errors
<1>2. /\ status' = Verdict(Errors) /\ sent' = sent
      /\ Syndrome(word) = Syndrome(Errors)
      /\ word' = IF status' = "CORRECTED_SINGLE" THEN Toggle(word, Syndrome(word))
                 ELSE IF status' = "CORRECTED_EXTENSION" THEN Toggle(word, Omnion)
                 ELSE word
  BY VerdictOfErrors, Zenon DEF Check
<1>3. word' = word => Errors' = Errors
  BY <1>2 DEF Errors
<1>4. ASSUME Cardinality(Errors) = 0
      PROVE  status' = "OK" /\ Errors' = {}
  <2>1. Errors = {}
    BY <1>1, <1>4, FS_EmptySet
  <2>2. status' = "OK"
    BY <1>2, <2>1, VerdictNone
  <2>. QED
    BY <1>2, <1>3, <2>1, <2>2
<1>5. ASSUME Cardinality(Errors) = 1
      PROVE  status' \in {"CORRECTED_SINGLE", "CORRECTED_EXTENSION"} /\ Errors' = {}
  <2>1. PICK p \in Position : Errors = {p}
    BY <1>1, <1>5, FS_Singleton
  <2>2. /\ p = Omnion => status' = "CORRECTED_EXTENSION"
        /\ p # Omnion => status' = "CORRECTED_SINGLE" /\ Syndrome(word) = p
    BY <1>2, <2>1, VerdictOne
  <2>3. word' = Toggle(word, p)
    BY <1>2, <2>2
  <2>4. Errors' = Toggle(Errors, p)
    BY <1>2, <2>3, ToggleErrors
  <2>5. Toggle({p}, p) = {}
    BY DEF Toggle
  <2>. QED
    BY <2>1, <2>2, <2>4, <2>5
<1>6. ASSUME Cardinality(Errors) = 2
      PROVE  status' = "DOUBLE_ERROR_DETECTED" /\ Errors' = Errors
  <2>1. PICK p \in Errors : TRUE
    BY <1>6, FS_EmptySet
  <2>2. IsFiniteSet(Errors \ {p}) /\ Cardinality(Errors \ {p}) = 1
    BY <1>1, <1>6, <2>1, FS_RemoveElement
  <2>3. PICK q : Errors \ {p} = {q}
    BY <2>2, FS_Singleton
  <2>4. Errors = {p, q} /\ p # q /\ p \in Position /\ q \in Position
    BY <1>1, <2>1, <2>3
  <2>5. status' = "DOUBLE_ERROR_DETECTED"
    BY <1>2, <2>4, VerdictTwo
  <2>. QED
    BY <1>2, <1>3, <2>5
<1>7. ASSUME Cardinality(Errors) = 3
      PROVE  status' \notin {"OK", "DOUBLE_ERROR_DETECTED"}
  <2>1. Errors \cap Position = Errors
    BY <1>1
  <2>2. Parity(Errors, Position) = 1
    BY <1>7, <2>1 DEF Parity
  <2>. QED
    BY <1>1, <1>2, <2>2, VerdictOdd
<1>. QED
  BY <1>4, <1>5, <1>6, <1>7

\* A check answers the syndrome of a word whose check sets stay those of its errors.
LEMMA CheckSyndrome == SyndromeInv /\ Check => SyndromeInv'
<1>. SUFFICES ASSUME SyndromeInv, Check PROVE SyndromeInv'
  OBVIOUS
<1>1. /\ sent' = sent /\ since' = 0 /\ worst' = worst /\ warned' \in BOOLEAN
      /\ status' = Verdict(word)
      /\ word' = IF status' = "CORRECTED_SINGLE" THEN Toggle(word, Syndrome(word))
                 ELSE IF status' = "CORRECTED_EXTENSION" THEN Toggle(word, Omnion)
                 ELSE word
  BY Zenon DEF Check
<1>2. word' = word \/ \E p \in Position : word' = Toggle(word, p)
  <2>1. CASE status' = "CORRECTED_SINGLE"
    <3>1. \A s \in CheckSets : Parity(word, s) \in {0, 1}
      BY ToggleParity, 1 \in Position DEF SyndromeInv, Position
    <3>2. Parity(word, Position) \in {0, 1}
      BY <3>1 DEF CheckSets
    <3>3. Syndrome(word) # 0
      BY <1>1, <2>1, <3>2 DEF Verdict
    <3>4. Syndrome(word) \in Position
      BY <3>1, <3>3 DEF Syndrome, CheckSets, Position
    <3>. QED
      BY <1>1, <2>1, <3>4
  <2>2. CASE status' = "CORRECTED_EXTENSION"
    BY <1>1, <2>2 DEF Omnion, Position
  <2>3. CASE status' \notin {"CORRECTED_SINGLE", "CORRECTED_EXTENSION"}
    BY <1>1, <2>3
  <2>. QED
    BY <2>1, <2>2, <2>3
<1>3. CASE word' = word
  BY <1>1, <1>3 DEF SyndromeInv, Errors
<1>4. ASSUME NEW p \in Position, word' = Toggle(word, p) PROVE SyndromeInv'
  BY <1>1, <1>4, ToggleErrors DEF SyndromeInv
<1>. QED
  BY <1>2, <1>3, <1>4

\* As few bits are wrong as have flipped since the last check, as long as every check
\* could tell: one flip at a time, or two and none of them reported.
FewErrors == worst <= 1 \/ (worst <= 2 /\ ~warned) => Cardinality(Errors) <= since

StoreInv == SyndromeInv /\ FewErrors

LEMMA StoreInvariance == SecdedInit /\ [][SecdedNext]_secdedVars => []StoreInv
<1>1. SecdedInit => StoreInv
  <2>. SUFFICES ASSUME SecdedInit PROVE StoreInv
    OBVIOUS
  <2>1. Errors = {}
    BY DEF SecdedInit, Errors
  <2>2. \A s : Parity(Errors, s) = 0
    BY <2>1, EmptyParity
  <2>3. word \in SUBSET Position /\ \A s \in CheckSets : Parity(word, s) = 0
    BY EncodeEven DEF SecdedInit
  <2>4. SyndromeInv
    <3>1. since = 0 /\ worst = 0 /\ warned = FALSE /\ sent \in SUBSET Data
      BY DEF SecdedInit
    <3>2. \A s \in CheckSets : Parity(word, s) = Parity(Errors, s)
      BY <2>2, <2>3
    <3>3. since \in Nat /\ worst \in Nat /\ since <= worst
      BY <3>1
    <3>4. warned \in BOOLEAN
      BY <3>1, Zenon
    <3>. QED
      BY <2>3, <3>1, <3>2, <3>3, <3>4, Zenon DEF SyndromeInv
  <2>5. FewErrors
    BY <2>1, FS_EmptySet DEF SecdedInit, FewErrors
  <2>. QED
    BY <2>4, <2>5 DEF StoreInv
<1>2. StoreInv /\ [SecdedNext]_secdedVars => StoreInv'
  <2>. SUFFICES ASSUME StoreInv, [SecdedNext]_secdedVars PROVE StoreInv'
    OBVIOUS
  <2>1. Errors \in SUBSET Position /\ Cardinality(Errors) \in Nat /\ IsFiniteSet(Errors)
        /\ since \in Nat /\ worst \in Nat /\ since <= worst
    BY PositionFinite DEF Errors, StoreInv, SyndromeInv
  <2>2. ASSUME NEW p \in Position, Flip(p) PROVE StoreInv'
    <3>1. /\ word' = Toggle(word, p) /\ since' = since + 1
          /\ worst' = IF since' > worst THEN since' ELSE worst
          /\ sent' = sent /\ warned' = warned
      BY <2>2 DEF Flip
    <3>2. since' \in Nat /\ worst' \in Nat /\ since' <= worst' /\ worst <= worst'
      BY <2>1, <3>1
    <3>3. /\ Errors' = Toggle(Errors, p) /\ word' \in SUBSET Position
          /\ \A s \in CheckSets : Parity(word', s) = Parity(Errors', s)
      BY <3>1, ToggleErrors DEF StoreInv
    <3>4. SyndromeInv'
      BY <3>1, <3>2, <3>3 DEF StoreInv, SyndromeInv
    <3>5. Cardinality(Errors') <= Cardinality(Errors) + 1 /\ Cardinality(Errors') \in Nat
      BY <2>1, <3>3, OneMoreWrong, PositionFinite, ToggleParity
    <3>6. FewErrors'
      BY <2>1, <3>1, <3>2, <3>5 DEF FewErrors, StoreInv
    <3>. QED
      BY <3>4, <3>6 DEF StoreInv
  <2>3. CASE Check
    <3>1. SyndromeInv'
      BY <2>3, CheckSyndrome DEF StoreInv
    <3>2. since' = 0 /\ worst' = worst /\ warned' = (warned \/ status' = "DOUBLE_ERROR_DETECTED")
      BY <2>3 DEF Check
    <3>3. ASSUME worst <= 1 \/ (worst <= 2 /\ ~warned') PROVE Errors' = {}
      <4>1. Cardinality(Errors) <= since
        BY <3>2, <3>3 DEF StoreInv, FewErrors
      <4>2. Cardinality(Errors) \in {0, 1} \/ (Cardinality(Errors) = 2 /\ ~warned')
        <5>1. CASE worst <= 1
          <6>1. Cardinality(Errors) \in {0, 1}
            BY <2>1, <4>1, <5>1
          <6>. QED
            BY <6>1
        <5>2. CASE worst <= 2 /\ ~warned'
          <6>1. Cardinality(Errors) \in {0, 1, 2}
            BY <2>1, <4>1, <5>2
          <6>. QED
            BY <5>2, <6>1
        <5>. QED
          BY <3>3, <5>1, <5>2
      <4>3. Cardinality(Errors) # 2 \/ warned'
        BY <2>3, <3>2, CheckSays DEF StoreInv
      <4>. QED
        BY <2>3, <4>2, <4>3, CheckSays DEF StoreInv
    <3>4. FewErrors'
      BY <3>2, <3>3, FS_EmptySet DEF FewErrors
    <3>. QED
      BY <3>1, <3>4 DEF StoreInv
  <2>4. CASE UNCHANGED secdedVars
    BY <2>4 DEF secdedVars, StoreInv, SyndromeInv, FewErrors, Errors
  <2>. QED
    BY <2>2, <2>3, <2>4 DEF SecdedNext
<1>. QED
  BY <1>1, <1>2, PTL

\* However long the store is flipped and scrubbed, its data are the encoded ones after
\* every check, as long as no two bits flipped between two checks.
THEOREM StoreKeepsData == SecdedSpec => []ScrubbingKeepsData
<1>1. StoreInv => ScrubbingKeepsData
  <2>. SUFFICES ASSUME StoreInv, worst <= 1, since = 0 PROVE word \cap Data = sent
    BY DEF ScrubbingKeepsData
  <2>1. Errors \in SUBSET Position /\ Cardinality(Errors) \in Nat /\ IsFiniteSet(Errors)
    BY PositionFinite DEF Errors
  <2>2. Errors = {}
    BY <2>1, FS_EmptySet DEF StoreInv, FewErrors
  <2>. QED
    BY <2>2, NoErrors DEF StoreInv, SyndromeInv
<1>. QED
  BY <1>1, StoreInvariance, PTL DEF SecdedSpec

\* Data are wrong after a check only when a check has warned, or when three bits flipped
\* between two checks: two at a time are never lost in silence.
THEOREM StoreNoSilentLoss == SecdedSpec => []NoSilentLoss
<1>1. StoreInv => NoSilentLoss
  <2>. SUFFICES ASSUME StoreInv, since = 0, ~warned, ~(worst >= 3) PROVE word \cap Data = sent
    BY DEF NoSilentLoss
  <2>1. Errors \in SUBSET Position /\ Cardinality(Errors) \in Nat /\ IsFiniteSet(Errors)
    BY PositionFinite DEF Errors
  <2>2. worst <= 2
    BY DEF StoreInv, SyndromeInv
  <2>3. Errors = {}
    BY <2>1, <2>2, FS_EmptySet DEF StoreInv, FewErrors
  <2>. QED
    BY <2>3, NoErrors DEF StoreInv, SyndromeInv
<1>. QED
  BY <1>1, StoreInvariance, PTL DEF SecdedSpec

\* Every verdict counts the wrong bits it finds, whatever the history of the store.
THEOREM StoreVerdictCounts == SecdedSpec => VerdictCounts
<1>. DEFINE Counts == since' = 0 /\ status' # "NONE" =>
              LET n == Cardinality(Errors)
              IN  /\ n = 0 => status' = "OK"
                  /\ n = 1 => status' \in {"CORRECTED_SINGLE", "CORRECTED_EXTENSION"} /\ Errors' = {}
                  /\ n = 2 => status' = "DOUBLE_ERROR_DETECTED" /\ Errors' = Errors
                  /\ n = 3 => status' \notin {"OK", "DOUBLE_ERROR_DETECTED"}
<1>1. StoreInv /\ [SecdedNext]_secdedVars => [Counts]_<<word, status, since>>
  <2>1. CASE UNCHANGED secdedVars
    BY <2>1 DEF secdedVars
  <2>2. ASSUME StoreInv, NEW p \in Position, Flip(p) PROVE Counts
    <3>1. since' # 0
      BY <2>2 DEF Flip, StoreInv, SyndromeInv
    <3>. QED
      BY <3>1
  <2>3. ASSUME StoreInv, Check PROVE Counts
    BY <2>3, CheckSays DEF StoreInv
  <2>. QED
    BY <2>1, <2>2, <2>3 DEF SecdedNext
<1>2. SecdedSpec => [][Counts]_<<word, status, since>>
  BY <1>1, StoreInvariance, PTL DEF SecdedSpec
<1>. QED
  BY <1>2 DEF VerdictCounts

-----------------------------------------------------------------------------
(* The accumulator *)

\* A set of numbers that has a member has a least one.
LEMMA LeastNumber ==
  ASSUME NEW T \in SUBSET Nat, T # {}
  PROVE  \E n \in T : \A m \in T : n <= m
<1>. DEFINE R == {ss \in Nat \X Nat : ss[1] < ss[2]}
<1>1. IsWellFoundedOn(R, Nat)
  BY NatLessThanWellFounded DEF OpToRel
<1>. HIDE DEF R
<1>2. PICK n \in T : \A m \in T : ~(<<m, n>> \in R)
  BY <1>1, WFMin
<1>3. \A m \in T : ~(m < n)
  BY <1>2 DEF R
<1>. QED
  BY <1>3

\* A set of numbers that has 0, and the successor of each of its members below n,
\* has all numbers up to n.
LEMMA UpTo ==
  ASSUME NEW n \in Nat, NEW S, 0 \in S, \A k \in 0 .. n - 1 : k \in S => k + 1 \in S
  PROVE  0 .. n \subseteq S
<1>. DEFINE T == {k \in 0 .. n : k \notin S}
<1>1. T = {}
  <2>. SUFFICES ASSUME T # {} PROVE FALSE
    OBVIOUS
  <2>0. T \in SUBSET Nat
    OBVIOUS
  <2>1. PICK k \in T : \A m \in T : k <= m
    <3>. HIDE DEF T
    <3>. QED
      BY <2>0, LeastNumber
  <2>2. k \in 1 .. n /\ k \notin S
    BY <2>1
  <2>3. k - 1 \in 0 .. n - 1 /\ k - 1 \notin T /\ (k - 1) + 1 = k
    BY <2>1, <2>2
  <2>. QED
    BY <2>2, <2>3
<1>. QED
  BY <1>1

\* f holds the values of the first n digits of s.
Values(f, s, base, n) ==
  f = [k \in 0 .. n |-> IF k = 0 THEN 0 ELSE f[k - 1] * base + s[k]]

LEMMA ValuesExist ==
  ASSUME NEW s, NEW base \in Nat, NEW n \in Nat
  PROVE  \E f : Values(f, s, base, n)
<1>. DEFINE S == {k \in 0 .. n : \E f : Values(f, s, base, k)}
<1>1. 0 \in S
  <2>1. Values([k \in {0} |-> 0], s, base, 0)
    BY 0 .. 0 = {0} DEF Values
  <2>. QED
    BY <2>1
<1>2. ASSUME NEW k \in 0 .. n - 1, k \in S PROVE k + 1 \in S
  <2>1. PICK f : Values(f, s, base, k)
    BY <1>2
  <2>. DEFINE last == f[k] * base + s[k + 1]
              g == [i \in 0 .. k + 1 |-> IF i = k + 1 THEN last ELSE f[i]]
  <2>2. \A i \in 0 .. k : f[i] = IF i = 0 THEN 0 ELSE f[i - 1] * base + s[i]
    BY <2>1 DEF Values
  <2>3. \A i \in 1 .. k + 1 : g[i - 1] = f[i - 1]
    OBVIOUS
  <2>4. \A i \in 0 .. k + 1 : g[i] = IF i = 0 THEN 0 ELSE g[i - 1] * base + s[i]
    <3>. HIDE DEF last
    <3>1. ASSUME NEW i \in 0 .. k PROVE g[i] = IF i = 0 THEN 0 ELSE g[i - 1] * base + s[i]
      <4>1. g[i] = f[i]
        OBVIOUS
      <4>. HIDE DEF g
      <4>. QED
        BY <2>2, <2>3, <4>1
    <3>2. g[k + 1] = last /\ k + 1 # 0 /\ g[(k + 1) - 1] = f[k]
      OBVIOUS
    <3>3. last = f[k] * base + s[k + 1]
      BY DEF last
    <3>. HIDE DEF g
    <3>. QED
      BY <3>1, <3>2, <3>3
  <2>5. Values(g, s, base, k + 1)
    <3>1. g = [i \in 0 .. k + 1 |-> g[i]]
      OBVIOUS
    <3>. HIDE DEF g
    <3>. QED
      BY <2>4, <3>1 DEF Values
  <2>. QED
    BY <2>5
<1>3. 0 .. n \subseteq S
  <2>. HIDE DEF S
  <2>. QED
    BY <1>1, <1>2, UpTo
<1>. QED
  BY <1>3

\* The recursion that reads a number off its digits, one digit at a time.
LEMMA PositionalAppend ==
  ASSUME NEW base \in Nat, NEW s \in Seq(Nat), NEW d \in Nat
  PROVE  /\ Positional(<<>>, base) = 0
         /\ Positional(s, base) \in Nat
         /\ Positional(Append(s, d), base) = Positional(s, base) * base + d
<1>. DEFINE F(w) == CHOOSE f : Values(f, w, base, Len(w))
            t == Append(s, d)
<1>1. \A w : Positional(w, base) = F(w)[Len(w)]
  BY DEF Positional, Values
<1>2. \A w \in Seq(Nat) : Values(F(w), w, base, Len(w))
  <2>. SUFFICES ASSUME NEW w \in Seq(Nat) PROVE Values(F(w), w, base, Len(w))
    OBVIOUS
  <2>1. Len(w) \in Nat
    OBVIOUS
  <2>. QED
    BY <2>1, ValuesExist, Zenon
<1>3. \A w \in Seq(Nat) : \A k \in 0 .. Len(w) :
        F(w)[k] = IF k = 0 THEN 0 ELSE F(w)[k - 1] * base + w[k]
  <2>. HIDE DEF F
  <2>. QED
    BY <1>2 DEF Values
<1>4. Len(s) \in Nat /\ t \in Seq(Nat) /\ Len(t) = Len(s) + 1 /\ t[Len(t)] = d
      /\ \A k \in 1 .. Len(s) : t[k] = s[k] /\ s[k] \in Nat
  OBVIOUS
<1>. DEFINE f == F(s)
            g == F(t)
<1>. HIDE DEF F, t
<1>5. /\ \A k \in 0 .. Len(s) : f[k] = IF k = 0 THEN 0 ELSE f[k - 1] * base + s[k]
      /\ \A k \in 0 .. Len(s) + 1 : g[k] = IF k = 0 THEN 0 ELSE g[k - 1] * base + t[k]
  BY <1>3, <1>4
<1>. HIDE DEF f, g
<1>6. f[Len(s)] \in Nat /\ g[Len(s)] = f[Len(s)]
  <2>. DEFINE S == {k \in 0 .. Len(s) : f[k] \in Nat /\ g[k] = f[k]}
  <2>1. 0 \in S
    BY <1>4, <1>5
  <2>2. ASSUME NEW k \in 0 .. Len(s) - 1, k \in S PROVE k + 1 \in S
    <3>1. k + 1 \in 1 .. Len(s) /\ (k + 1) - 1 = k
      BY <1>4
    <3>2. t[k + 1] = s[k + 1] /\ s[k + 1] \in Nat
      BY <1>4, <3>1
    <3>3. f[k + 1] = f[k] * base + s[k + 1] /\ g[k + 1] = g[k] * base + t[k + 1]
      <4>1. k + 1 \in 0 .. Len(s) /\ k + 1 \in 0 .. Len(s) + 1 /\ k + 1 # 0
        BY <1>4, <3>1
      <4>2. f[k + 1] = f[(k + 1) - 1] * base + s[k + 1]
        BY <1>5, <4>1, Zenon
      <4>3. g[k + 1] = g[(k + 1) - 1] * base + t[k + 1]
        BY <1>5, <4>1, Zenon
      <4>. QED
        BY <3>1, <4>2, <4>3, Zenon
    <3>4. f[k] * base \in Nat
      BY <2>2
    <3>. QED
      BY <2>2, <3>1, <3>2, <3>3, <3>4
  <2>. HIDE DEF S
  <2>3. 0 .. Len(s) \subseteq S
    BY <1>4, <2>1, <2>2, UpTo
  <2>4. Len(s) \in S
    BY <1>4, <2>3
  <2>. QED
    BY <2>4 DEF S
<1>7. g[Len(s) + 1] = g[Len(s)] * base + d
  <2>1. Len(s) + 1 \in 0 .. Len(s) + 1 /\ Len(s) + 1 # 0 /\ (Len(s) + 1) - 1 = Len(s)
    BY <1>4
  <2>2. g[Len(s) + 1] = g[(Len(s) + 1) - 1] * base + t[Len(s) + 1]
    BY <1>5, <2>1
  <2>. QED
    BY <1>4, <2>1, <2>2
<1>8. Positional(<<>>, base) = 0
  <2>1. <<>> \in Seq(Nat) /\ Len(<<>>) = 0
    OBVIOUS
  <2>2. F(<<>>)[0] = 0
    <3>1. \A k \in 0 .. Len(<<>>) :
            F(<<>>)[k] = IF k = 0 THEN 0 ELSE F(<<>>)[k - 1] * base + <<>>[k]
      BY <1>3, <2>1, Zenon
    <3>2. 0 \in 0 .. Len(<<>>)
      BY <2>1
    <3>. QED
      BY <3>1, <3>2
  <2>. QED
    BY <1>1, <2>1, <2>2
<1>. QED
  BY <1>1, <1>4, <1>6, <1>7, <1>8 DEF f, g, t

\* An OR into the bits that a shift has just cleared adds: nothing is carried.
LEMMA OrAdds ==
  ASSUME NEW n \in Nat, NEW digit \in Nat,
         NEW base \in {2, 8, 16, 64}, digit < base
  PROVE  Or(n * base, digit) = n * base + digit
<1>1. CASE base = 2
  <2>1. digit \in {0, 1}
    BY <1>1
  <2>. QED
    BY <1>1, <2>1 DEF Or, NewBit
<1>2. CASE base = 8
  <2>1. digit \in 0 .. 7
    BY <1>2
  <2>. QED
    BY <1>2, <2>1 DEF Or, NewBit
<1>3. CASE base = 16
  <2>1. digit \in 0 .. 15
    BY <1>3
  <2>. QED
    BY <1>3, <2>1 DEF Or, NewBit
<1>4. CASE base = 64
  <2>1. digit \in 0 .. 63
    BY <1>4
  <2>. QED
    BY <1>4, <2>1 DEF Or, NewBit
<1>. QED
  BY <1>1, <1>2, <1>3, <1>4

\* A power of two is positive: it counts the subsets of a set.
LEMMA PowerPositive == ASSUME NEW n \in Nat PROVE 2 ^ n \in Nat /\ 2 ^ n > 0
<1>1. IsFiniteSet(1 .. n) /\ Cardinality(1 .. n) = n
  BY FS_Interval
<1>2. IsFiniteSet(SUBSET (1 .. n)) /\ Cardinality(SUBSET (1 .. n)) = 2 ^ n
  BY <1>1, FS_SUBSET
<1>3. Cardinality(SUBSET (1 .. n)) \in Nat /\ Cardinality(SUBSET (1 .. n)) # 0
  BY <1>2, FS_EmptySet, FS_CardinalityType
<1>. QED
  BY <1>2, <1>3

\* What has to hold besides: the shortcut is that of the base, and no digit has been
\* accepted before there is a base.
RadixInv ==
  /\ model = [base |-> model.base, shift |-> Shortcut(model.base), acc |-> model.acc]
  /\ model.base \in Supported \cup {0} /\ model.acc \in Nat
  /\ digits \in Seq(Nat) /\ (model.base = 0 => digits = <<>>)
  /\ RadixExact

\* By shift and OR or by multiplication, next_accum is the same number.
LEMMA NextAccumAdds ==
  ASSUME RadixInv, model.base \in Supported, NEW digit \in Nat, digit < model.base
  PROVE  NextAccum(digit) = model.acc * model.base + digit
<1>1. model.shift = Shortcut(model.base) /\ model.acc \in Nat
  BY DEF RadixInv
<1>2. 2 ^ 1 = 2 /\ 2 ^ 3 = 8 /\ 2 ^ 4 = 16 /\ 2 ^ 6 = 64
  OBVIOUS
<1>3. CASE model.base \in {2, 8, 16, 64}
  <2>1. model.shift > 0 /\ 2 ^ model.shift = model.base
    BY <1>1, <1>2, <1>3 DEF Shortcut
  <2>. QED
    BY <1>1, <1>3, <2>1, OrAdds DEF NextAccum
<1>4. CASE model.base \in {10, 58}
  BY <1>1, <1>4 DEF NextAccum, Shortcut
<1>. QED
  BY <1>3, <1>4 DEF Supported

\* However many digits and bases are presented, accepted or refused, the accumulator
\* is the value of the digits accepted since the base was chosen, in full.
THEOREM RadixAlwaysExact == RadixSpec => []RadixExact
<1>. USE RadixAssumption
<1>1. RadixInit => RadixInv
  <2>1. 2 ^ Width \in Nat /\ 2 ^ Width > 0
    BY PowerPositive
  <2>2. Positional(<<>>, 0) = 0 /\ <<>> \in Seq(Nat) /\ Len(<<>>) = 0
    <3>1. 0 \in Nat /\ <<>> \in Seq(Nat) /\ Len(<<>>) = 0
      OBVIOUS
    <3>2. Positional(<<>>, 0) = 0
      BY <3>1, PositionalAppend, Zenon
    <3>. QED
      BY <3>1, <3>2
  <2>. QED
    BY <2>1, <2>2 DEF RadixInit, RadixInv, RadixExact, Shortcut
<1>2. RadixInv /\ [RadixNext]_radixVars => RadixInv'
  <2>. SUFFICES ASSUME RadixInv, [RadixNext]_radixVars PROVE RadixInv'
    OBVIOUS
  <2>1. ASSUME NEW base \in Base, InitModel(base) PROVE RadixInv'
    <3>1. CASE base \in Supported
      <4>1. /\ model' = [base |-> base, shift |-> Shortcut(base), acc |-> 0] /\ digits' = <<>>
        BY <2>1, <3>1 DEF InitModel
      <4>2. 2 ^ Width \in Nat /\ 2 ^ Width > 0
        BY PowerPositive
      <4>3. base \in Nat /\ base # 0 /\ <<>> \in Seq(Nat) /\ Len(<<>>) = 0
        BY <3>1 DEF Supported
      <4>4. Positional(<<>>, base) = 0
        BY <4>3, PositionalAppend, Zenon
      <4>. QED
        BY <3>1, <4>1, <4>2, <4>3, <4>4 DEF RadixInv, RadixExact
    <3>2. CASE base \notin Supported
      <4>1. UNCHANGED <<model, digits>>
        BY <2>1, <3>2 DEF InitModel
      <4>. QED
        BY <4>1 DEF RadixInv, RadixExact
    <3>. QED
      BY <3>1, <3>2
  <2>2. ASSUME NEW digit \in Digit, InjectDigit(digit) PROVE RadixInv'
    <3>1. CASE radix' = "OK"
      <4>1. /\ model.base \in Supported /\ digit < model.base
            /\ NextAccum(digit) < 2 ^ Width
            /\ model' = [model EXCEPT !.acc = NextAccum(digit)]
            /\ digits' = Append(digits, digit)
        <5>1. /\ model.base \in Supported /\ ~(digit >= model.base)
              /\ ~(NextAccum(digit) >= 2 ^ Width)
              /\ model' = [model EXCEPT !.acc = NextAccum(digit)]
              /\ digits' = Append(digits, digit)
          BY <2>2, <3>1 DEF InjectDigit
        <5>2. /\ model.base \in Nat /\ digit \in Nat /\ model.acc \in Nat
              /\ 2 ^ Width \in Nat
          BY <5>1, PowerPositive DEF Supported, RadixInv
        <5>3. digit < model.base
          BY <5>1, <5>2
        <5>4. NextAccum(digit) = model.acc * model.base + digit
          BY <5>1, <5>2, <5>3, NextAccumAdds
        <5>. QED
          BY <5>1, <5>2, <5>3, <5>4
      <4>2. /\ digit \in Nat /\ model.base \in Nat /\ digits \in Seq(Nat)
            /\ model.acc = Positional(digits, model.base)
            /\ \A i \in 1 .. Len(digits) : digits[i] < model.base
        BY <4>1 DEF RadixInv, RadixExact, Supported
      <4>3. NextAccum(digit) = model.acc * model.base + digit
        BY <4>1, <4>2, NextAccumAdds
      <4>4. Positional(digits', model.base) = model.acc * model.base + digit
        <5>1. Positional(Append(digits, digit), model.base)
                = Positional(digits, model.base) * model.base + digit
          BY <4>2, PositionalAppend, Zenon
        <5>. QED
          BY <4>1, <4>2, <5>1
      <4>5. /\ digits' \in Seq(Nat)
            /\ \A i \in 1 .. Len(digits') : digits'[i] < model.base
        BY <4>1, <4>2
      <4>6. /\ model'.base = model.base /\ model'.shift = model.shift
            /\ model'.acc = NextAccum(digit)
            /\ model' = [base |-> model.base, shift |-> model.shift, acc |-> NextAccum(digit)]
        BY <4>1 DEF RadixInv
      <4>7. model.base # 0 /\ model.shift = Shortcut(model.base) /\ model.acc \in Nat
        BY <4>1 DEF RadixInv, Supported
      <4>8. NextAccum(digit) \in Nat
        BY <4>2, <4>3, <4>7
      <4>. QED
        BY <4>1, <4>3, <4>4, <4>5, <4>6, <4>7, <4>8 DEF RadixInv, RadixExact
    <3>2. CASE radix' # "OK"
      <4>1. UNCHANGED <<model, digits>>
        BY <2>2, <3>2 DEF InjectDigit
      <4>. QED
        BY <4>1 DEF RadixInv, RadixExact
    <3>. QED
      BY <3>1, <3>2
  <2>3. CASE UNCHANGED radixVars
    BY <2>3 DEF radixVars, RadixInv, RadixExact
  <2>. QED
    BY <2>1, <2>2, <2>3 DEF RadixNext
<1>3. RadixInv => RadixExact
  BY DEF RadixInv
<1>. QED
  BY <1>1, <1>2, <1>3, PTL DEF RadixSpec

-----------------------------------------------------------------------------
(* main: it is a client that pairs each witness with its union.  The script  *)
(* is a concatenation of concrete sections; the call a step makes is told    *)
(* from how many calls have been made.                                       *)

\* The contributions main injects or validates.
Given == {Rules, Facts, Combinators, Closures, BadScope}

\* The blackboard of a client that asks for a fresh witness (Paired) differs from the
\* one main uses (BB) only in what its union demands: every other call is the same call.
LEMMA SameInit == BB!Init => Paired!Init
  BY DEF BB!Init, Paired!Init, BB!UFInit, Paired!UFInit, BB!Elem, Paired!Elem

\* ... so is the injection,
LEMMA SameInject == ASSUME NEW c, BB!Inject(c) PROVE Paired!Inject(c)
  BY DEF BB!Inject, Paired!Inject, BB!HasRoom, Paired!HasRoom, BB!count, Paired!count,
         BB!ufvars, Paired!ufvars

\* ... the CONS of two contributions,
LEMMA SameCons == ASSUME NEW l, NEW r, NEW p, BB!Cons(l, r, p) PROVE Paired!Cons(l, r, p)
  BY DEF BB!Cons, Paired!Cons, BB!Index, Paired!Index, BB!count, Paired!count,
         BB!ufvars, Paired!ufvars, BB!board, Paired!board, BB!ConsResult, Paired!ConsResult,
         BB!At, Paired!At, BB!ConsFold, Paired!ConsFold, BB!Salt, Paired!Salt, BB!Xor, Paired!Xor,
         BB!Rotl, Paired!Rotl, BB!Up, Paired!Up, BB!Rotr, Paired!Rotr, BB!Down, Paired!Down,
         BB!Route, Paired!Route, BB!Selector, Paired!Selector,
         BB!NibbleCompress, Paired!NibbleCompress, BB!WordOf, Paired!WordOf, BB!Bits, Paired!Bits

\* ... a step of the union-find below,
LEMMA SameStep == BB!UnionFindStep => Paired!UnionFindStep
  BY DEF BB!UnionFindStep, Paired!UnionFindStep, BB!UFStep, Paired!UFStep,
   BB!Chase, Paired!Chase, BB!Compress, Paired!Compress, BB!FindReturn, Paired!FindReturn,
   BB!Link, Paired!Link, BB!Return, Paired!Return, BB!StartFind, Paired!StartFind,
   BB!ufstate, Paired!ufstate, BB!MergedClass, Paired!MergedClass, BB!Elem, Paired!Elem,
   BB!board, Paired!board

\* ... a find,
LEMMA SameFind == ASSUME NEW i, BB!Find(i) PROVE Paired!Find(i)
  BY DEF BB!Find, Paired!Find, BB!BeginFind, Paired!BeginFind, BB!StartFind, Paired!StartFind,
         BB!board, Paired!board

\* ... a union refused,
LEMMA SameUnionRefused ==
  ASSUME NEW l, NEW r, BB!UnionRefused(l, r) PROVE Paired!UnionRefused(l, r)
  BY DEF BB!UnionRefused, Paired!UnionRefused, BB!Valid, Paired!Valid, BB!Index, Paired!Index,
         BB!count, Paired!count, BB!board, Paired!board, BB!ufvars, Paired!ufvars

\* ... a union of exactly what the witness is about,
LEMMA SameUnion ==
  ASSUME NEW l, NEW r, BB!Union(l, r),
         BB!RefOf(BB!At(l)) = witness.about[1], BB!RefOf(BB!At(r)) = witness.about[2]
  PROVE Paired!Union(l, r)
  BY DEF BB!Union, Paired!Union, BB!Valid, Paired!Valid, BB!Index, Paired!Index, BB!Pairs, Paired!Pairs,
         BB!count, Paired!count, BB!board, Paired!board, BB!RefOf, Paired!RefOf, BB!At, Paired!At,
         BB!BeginUnion, Paired!BeginUnion, BB!StartFind, Paired!StartFind, BB!Elem, Paired!Elem

\* ... and a validation.
LEMMA SameValidate ==
  ASSUME NEW a, NEW b, BB!Validate(a, b) PROVE Paired!Validate(a, b)
  BY DEF BB!Validate, Paired!Validate, BB!Reason, Paired!Reason, BB!board, Paired!board,
         BB!ufvars, Paired!ufvars, BB!ScopeCloses, Paired!ScopeCloses, BB!Resolved, Paired!Resolved,
         BB!SegmentWitness, Paired!SegmentWitness, BB!SectorPrefix, Paired!SectorPrefix,
         BB!RelationWitness, Paired!RelationWitness,
         BB!ConsFold, Paired!ConsFold, BB!Salt, Paired!Salt, BB!Xor, Paired!Xor,
         BB!Rotl, Paired!Rotl, BB!Up, Paired!Up, BB!Rotr, Paired!Rotr, BB!Down, Paired!Down,
         BB!WordOf, Paired!WordOf, BB!Bits, Paired!Bits

\* s is a tuple of n elements.
Listing(s, n) == s = [i \in 1 .. n |-> s[i]]

\* u lists the n elements of s and then the m elements of t.
Lists(u, s, n, t, m) ==
  /\ Listing(u, n + m)
  /\ \A i \in 1 .. n : u[i] = s[i]
  /\ \A i \in 1 .. m : u[n + i] = t[i]

\* Two tuples one after the other.
LEMMA Joined ==
  ASSUME NEW n \in Nat, NEW m \in Nat, NEW s, NEW t, Listing(s, n), Listing(t, m)
  PROVE  Lists(s \o t, s, n, t, m)
<1>. DEFINE X == {s[i] : i \in 1 .. n} \cup {t[i] : i \in 1 .. m}
<1>1. s \in Seq(X) /\ Len(s) = n
  <2>1. s \in [1 .. n -> X]
    BY DEF Listing
  <2>. HIDE DEF X
  <2>. QED
    BY <2>1
<1>2. t \in Seq(X) /\ Len(t) = m
  <2>1. t \in [1 .. m -> X]
    BY DEF Listing
  <2>. HIDE DEF X
  <2>. QED
    BY <2>1
<1>. HIDE DEF X
<1>3. /\ s \o t \in Seq(X) /\ Len(s \o t) = n + m
      /\ \A i \in 1 .. n : (s \o t)[i] = s[i]
      /\ \A i \in 1 .. m : (s \o t)[n + i] = t[i]
  BY <1>1, <1>2
<1>4. Listing(s \o t, n + m)
  BY <1>3 DEF Listing
<1>. QED
  BY <1>3, <1>4 DEF Lists

\* A call that needs no contribution to have been injected.
Calm(call) == /\ call[1] \in {"show", "validate", "start", "tick", "compare", "count"}
              /\ call[1] = "validate" => call[2] \in Given /\ call[3] \in Given

CalmList(s) == \E n \in Nat : Listing(s, n) /\ \A i \in 1 .. n : Calm(s[i])

\* Calm lists one after the other are calm.
LEMMA CalmJoined == ASSUME NEW s, NEW t, CalmList(s), CalmList(t) PROVE CalmList(s \o t)
<1>1. PICK n \in Nat : Listing(s, n) /\ \A i \in 1 .. n : Calm(s[i])
  BY DEF CalmList
<1>2. PICK m \in Nat : Listing(t, m) /\ \A i \in 1 .. m : Calm(t[i])
  BY DEF CalmList
<1>. DEFINE u == s \o t
<1>3. Listing(u, n + m) /\ (\A i \in 1 .. n : u[i] = s[i])
      /\ \A i \in 1 .. m : u[n + i] = t[i]
  <2>1. n \in Nat /\ m \in Nat /\ Listing(s, n) /\ Listing(t, m)
    BY <1>1, <1>2
  <2>2. Lists(u, s, n, t, m)
    BY <2>1, Joined, Zenon
  <2>. HIDE DEF u
  <2>. QED
    BY <2>2 DEF Lists
<1>. HIDE DEF u
<1>4. ASSUME NEW i \in 1 .. n + m PROVE Calm(u[i])
  <2>1. CASE i <= n
    <3>1. i \in 1 .. n
      BY <2>1
    <3>2. u[i] = s[i] /\ Calm(s[i])
      BY <1>1, <1>3, <3>1
    <3>. QED
      BY <3>2, Zenon
  <2>2. CASE i > n
    <3>1. i - n \in 1 .. m /\ n + (i - n) = i
      BY <2>2
    <3>2. u[n + (i - n)] = t[i - n] /\ Calm(t[i - n])
      BY <1>2, <1>3, <3>1
    <3>. QED
      BY <3>1, <3>2, Zenon
  <2>. QED
    BY <2>1, <2>2
<1>5. n + m \in Nat
  OBVIOUS
<1>6. CalmList(u)
  BY <1>3, <1>4, <1>5, Zenon DEF CalmList
<1>. QED
  BY <1>6 DEF u

\* From section 7 on main only validates, shows and ticks clocks.
LEMMA CalmSections ==
  /\ CalmList(Section7) /\ CalmList(Section8) /\ CalmList(Section9)
  /\ CalmList(Section10) /\ CalmList(Section11Clock) /\ CalmList(Section11Centroid)
  /\ CalmList(Section11Peers)
<1>1. CalmList(Section7)
  <2>1. Listing(Section7, 4)
    BY DEF Section7, Listing
  <2>2. \A i \in 1 .. 4 : Calm(Section7[i])
    BY DEF Section7, Calm, Given
  <2>3. 4 \in Nat
    OBVIOUS
  <2>. QED
    BY <2>1, <2>2, <2>3, Zenon DEF CalmList
<1>2. CalmList(Section8)
  <2>1. Listing(Section8, 1)
    BY DEF Section8, Listing
  <2>2. \A i \in 1 .. 1 : Calm(Section8[i])
    BY DEF Section8, Calm
  <2>3. 1 \in Nat
    OBVIOUS
  <2>. QED
    BY <2>1, <2>2, <2>3, Zenon DEF CalmList
<1>3. CalmList(Section9)
  <2>1. Listing(Section9, 3)
    BY DEF Section9, Listing
  <2>2. \A i \in 1 .. 3 : Calm(Section9[i])
    BY DEF Section9, Calm
  <2>3. 3 \in Nat
    OBVIOUS
  <2>. QED
    BY <2>1, <2>2, <2>3, Zenon DEF CalmList
<1>4. CalmList(Section10)
  <2>1. Listing(Section10, 5)
    BY DEF Section10, Listing
  <2>2. \A i \in 1 .. 5 : Calm(Section10[i])
    BY DEF Section10, Calm
  <2>3. 5 \in Nat
    OBVIOUS
  <2>. QED
    BY <2>1, <2>2, <2>3, Zenon DEF CalmList
<1>5. CalmList(Section11Clock)
  <2>1. Listing(Section11Clock, 4)
    BY DEF Section11Clock, Listing
  <2>2. \A i \in 1 .. 4 : Calm(Section11Clock[i])
    BY DEF Section11Clock, Calm
  <2>3. 4 \in Nat
    OBVIOUS
  <2>. QED
    BY <2>1, <2>2, <2>3, Zenon DEF CalmList
<1>6. CalmList(Section11Centroid)
  <2>1. Listing(Section11Centroid, 4)
    BY DEF Section11Centroid, Listing
  <2>2. \A i \in 1 .. 4 : Calm(Section11Centroid[i])
    BY DEF Section11Centroid, Calm
  <2>3. 4 \in Nat
    OBVIOUS
  <2>. QED
    BY <2>1, <2>2, <2>3, Zenon DEF CalmList
<1>7. CalmList(Section11Peers)
  <2>. DEFINE starts == << <<"start", "local", WordOf(\h1234)>>, <<"start", "remote", WordOf(\h1234)>> >>
              between == << <<"compare", "local", "remote">>, <<"start", "drifted", WordOf(\hFFFF)>> >>
              last == << <<"compare", "local", "drifted">>, <<"count">> >>
  <2>1. ASSUME NEW p PROVE CalmList(Tock(p))
    <3>1. Listing(Tock(p), 1) /\ \A i \in 1 .. 1 : Calm(Tock(p)[i])
      BY DEF Tock, Listing, Calm
    <3>. QED
      BY <3>1 DEF CalmList
  <2>2. CalmList(starts)
    <3>1. Listing(starts, 2) /\ \A i \in 1 .. 2 : Calm(starts[i])
      BY DEF Listing, Calm
    <3>. HIDE DEF starts
    <3>. QED
      BY <3>1 DEF CalmList
  <2>3. CalmList(between)
    <3>1. Listing(between, 2) /\ \A i \in 1 .. 2 : Calm(between[i])
      BY DEF Listing, Calm
    <3>. HIDE DEF between
    <3>. QED
      BY <3>1 DEF CalmList
  <2>4. CalmList(last)
    <3>1. Listing(last, 2) /\ \A i \in 1 .. 2 : Calm(last[i])
      BY DEF Listing, Calm
    <3>. HIDE DEF last
    <3>. QED
      BY <3>1 DEF CalmList
  <2>5. \A s, t : CalmList(s) /\ CalmList(t) => CalmList(s \o t)
    BY CalmJoined
  <2>6. Section11Peers =
          starts \o Tock("local") \o Tock("remote") \o Tock("local") \o Tock("remote")
          \o Tock("local") \o Tock("remote") \o between
          \o Tock("drifted") \o Tock("drifted") \o Tock("drifted") \o last
    BY DEF Section11Peers
  <2>. HIDE DEF starts, between, last
  <2>. QED
    BY <2>1, <2>2, <2>3, <2>4, <2>5, <2>6, Zenon
<1>. QED
  BY <1>1, <1>2, <1>3, <1>4, <1>5, <1>6, <1>7

\* The sections that inject, cons, unite and find.
Opened == Section1 \o Section2And3 \o Section4 \o Section5 \o Section6

\* The calls of the first six sections, one by one.
LEMMA OpeningCalls ==
  /\ Listing(Opened, 20)
  /\ Opened[1] = <<"inject", "rules", Rules>> /\ Opened[2] = <<"inject", "facts", Facts>>
  /\ Opened[3][1] = "look"
  /\ \A i \in {4, 5} : Opened[i][1] = "cons" /\ {Opened[i][2], Opened[i][3]} = {"rules", "facts"}
  /\ Opened[6] = <<"validate", Rules, Facts>>
  /\ Opened[7][1] = "show"
  /\ Opened[8] = <<"union", "rules", "facts">>
  /\ \A i \in 9 .. 12 : Opened[i][1] = "find" /\ Opened[i][2] \in {"rules", "facts"}
  /\ Opened[13] = <<"inject", "comb", Combinators>> /\ Opened[14] = <<"inject", "clos", Closures>>
  /\ Opened[15] = <<"validate", Combinators, Closures>>
  /\ Opened[16] = <<"union", "comb", "clos">>
  /\ \A i \in 17 .. 20 : Opened[i][1] = "find" /\ Opened[i][2] \in {"comb", "clos"}
<1>. DEFINE A == Section1 \o Section2And3
            B == A \o Section4
            C == B \o Section5
            D == C \o Section6
<1>1. /\ Listing(Section1, 2) /\ Listing(Section2And3, 1)
      /\ Section1[1] = <<"inject", "rules", Rules>> /\ Section1[2] = <<"inject", "facts", Facts>>
      /\ Section2And3[1][1] = "look"
  BY DEF Section1, Section2And3, Listing
<1>2. /\ Listing(Section4, 2)
      /\ \A i \in 1 .. 2 : Section4[i][1] = "cons" /\ {Section4[i][2], Section4[i][3]} = {"rules", "facts"}
  BY DEF Section4, Listing
<1>3. ASSUME NEW a, NEW b
      PROVE  /\ Listing(Finds(a, b), 4)
             /\ \A i \in 1 .. 4 : Finds(a, b)[i][1] = "find" /\ Finds(a, b)[i][2] \in {a, b}
  BY DEF Finds, Listing
<1>4. /\ Listing(Section5, 7)
      /\ Section5[1] = <<"validate", Rules, Facts>>
      /\ Section5[2][1] = "show" /\ Section5[3] = <<"union", "rules", "facts">>
      /\ \A i \in 4 .. 7 : Section5[i][1] = "find" /\ Section5[i][2] \in {"rules", "facts"}
  <2>. DEFINE head == << <<"validate", Rules, Facts>>,
                         <<"show", BB!Resolved(BB!RefOf(Rules)), BB!Resolved(BB!RefOf(Facts))>>,
                         <<"union", "rules", "facts">> >>
              tail == Finds("rules", "facts")
  <2>1. /\ Listing(head, 3) /\ head[1] = <<"validate", Rules, Facts>>
        /\ head[2][1] = "show" /\ head[3] = <<"union", "rules", "facts">>
    BY DEF Listing
  <2>2. Section5 = head \o tail
    BY DEF Section5
  <2>3. Listing(tail, 4) /\ \A i \in 1 .. 4 : tail[i][1] = "find" /\ tail[i][2] \in {"rules", "facts"}
    BY <1>3
  <2>. HIDE DEF head, tail
  <2>4. Listing(Section5, 7) /\ (\A i \in 1 .. 3 : Section5[i] = head[i])
        /\ \A i \in 1 .. 4 : Section5[3 + i] = tail[i]
    <3>1. Lists(Section5, head, 3, tail, 4)
      BY <2>1, <2>2, <2>3, Joined, 3 \in Nat, 4 \in Nat, Zenon
    <3>. QED
      BY <3>1 DEF Lists
  <2>5. \A i \in 4 .. 7 : i - 3 \in 1 .. 4 /\ Section5[i] = tail[i - 3]
    BY <2>4
  <2>. QED
    BY <2>1, <2>3, <2>4, <2>5
<1>5. /\ Listing(Section6, 8)
      /\ Section6[1] = <<"inject", "comb", Combinators>> /\ Section6[2] = <<"inject", "clos", Closures>>
      /\ Section6[3] = <<"validate", Combinators, Closures>>
      /\ Section6[4] = <<"union", "comb", "clos">>
      /\ \A i \in 5 .. 8 : Section6[i][1] = "find" /\ Section6[i][2] \in {"comb", "clos"}
  <2>. DEFINE head == << <<"inject", "comb", Combinators>>, <<"inject", "clos", Closures>>,
                         <<"validate", Combinators, Closures>>, <<"union", "comb", "clos">> >>
              tail == Finds("comb", "clos")
  <2>1. /\ Listing(head, 4)
        /\ head[1] = <<"inject", "comb", Combinators>> /\ head[2] = <<"inject", "clos", Closures>>
        /\ head[3] = <<"validate", Combinators, Closures>> /\ head[4] = <<"union", "comb", "clos">>
    BY DEF Listing
  <2>2. Section6 = head \o tail
    BY DEF Section6
  <2>3. Listing(tail, 4) /\ \A i \in 1 .. 4 : tail[i][1] = "find" /\ tail[i][2] \in {"comb", "clos"}
    BY <1>3
  <2>. HIDE DEF head, tail
  <2>4. Listing(Section6, 8) /\ (\A i \in 1 .. 4 : Section6[i] = head[i])
        /\ \A i \in 1 .. 4 : Section6[4 + i] = tail[i]
    <3>1. Lists(Section6, head, 4, tail, 4)
      BY <2>1, <2>2, <2>3, Joined, 4 \in Nat, 4 \in Nat, Zenon
    <3>. QED
      BY <3>1 DEF Lists
  <2>5. \A i \in 5 .. 8 : i - 4 \in 1 .. 4 /\ Section6[i] = tail[i - 4]
    BY <2>4
  <2>. QED
    BY <2>1, <2>3, <2>4, <2>5
<1>6. Listing(A, 3) /\ (\A i \in 1 .. 2 : A[i] = Section1[i]) /\ A[3] = Section2And3[1]
  <2>1. Lists(A, Section1, 2, Section2And3, 1)
    BY <1>1, Joined, 2 \in Nat, 1 \in Nat, Zenon
  <2>. HIDE DEF A
  <2>. QED
    BY <2>1 DEF Lists
<1>. HIDE DEF A
<1>7. Listing(B, 5) /\ (\A i \in 1 .. 3 : B[i] = A[i]) /\ \A i \in 1 .. 2 : B[3 + i] = Section4[i]
  <2>1. Lists(B, A, 3, Section4, 2)
    BY <1>2, <1>6, Joined, 3 \in Nat, 2 \in Nat, Zenon
  <2>. HIDE DEF B
  <2>. QED
    BY <2>1 DEF Lists
<1>. HIDE DEF B
<1>8. Listing(C, 12) /\ (\A i \in 1 .. 5 : C[i] = B[i]) /\ \A i \in 1 .. 7 : C[5 + i] = Section5[i]
  <2>1. Lists(C, B, 5, Section5, 7)
    BY <1>4, <1>7, Joined, 5 \in Nat, 7 \in Nat, Zenon
  <2>. HIDE DEF C
  <2>. QED
    BY <2>1 DEF Lists
<1>. HIDE DEF C
<1>9. Listing(D, 20) /\ (\A i \in 1 .. 12 : D[i] = C[i]) /\ \A i \in 1 .. 8 : D[12 + i] = Section6[i]
  <2>1. Lists(D, C, 12, Section6, 8)
    BY <1>5, <1>8, Joined, 12 \in Nat, 8 \in Nat, Zenon
  <2>. HIDE DEF D
  <2>. QED
    BY <2>1 DEF Lists
<1>10. D = Opened
  BY DEF Opened, A, B, C
<1>. HIDE DEF D
<1>11. /\ D[1] = Section1[1] /\ D[2] = Section1[2] /\ D[3] = Section2And3[1]
       /\ D[4] = Section4[1] /\ D[5] = Section4[2]
       /\ D[6] = Section5[1] /\ D[7] = Section5[2] /\ D[8] = Section5[3]
       /\ D[9] = Section5[4] /\ D[10] = Section5[5] /\ D[11] = Section5[6] /\ D[12] = Section5[7]
       /\ D[13] = Section6[1] /\ D[14] = Section6[2] /\ D[15] = Section6[3] /\ D[16] = Section6[4]
       /\ D[17] = Section6[5] /\ D[18] = Section6[6] /\ D[19] = Section6[7] /\ D[20] = Section6[8]
  BY <1>6, <1>7, <1>8, <1>9
<1>12. \A i \in {4, 5} : D[i][1] = "cons" /\ {D[i][2], D[i][3]} = {"rules", "facts"}
  BY <1>2, <1>11
<1>13. \A i \in 9 .. 12 : D[i][1] = "find" /\ D[i][2] \in {"rules", "facts"}
  <2>1. \A i \in 9 .. 12 : i - 5 \in 4 .. 7 /\ D[i] = Section5[i - 5]
    BY <1>11
  <2>. QED
    BY <1>4, <2>1
<1>14. \A i \in 17 .. 20 : D[i][1] = "find" /\ D[i][2] \in {"comb", "clos"}
  <2>1. \A i \in 17 .. 20 : i - 12 \in 5 .. 8 /\ D[i] = Section6[i - 12]
    BY <1>11
  <2>. QED
    BY <1>5, <2>1
<1>15. /\ D[1] = <<"inject", "rules", Rules>> /\ D[2] = <<"inject", "facts", Facts>>
       /\ D[3][1] = "look" /\ D[6] = <<"validate", Rules, Facts>>
       /\ D[7][1] = "show" /\ D[8] = <<"union", "rules", "facts">>
       /\ D[13] = <<"inject", "comb", Combinators>> /\ D[14] = <<"inject", "clos", Closures>>
       /\ D[15] = <<"validate", Combinators, Closures>> /\ D[16] = <<"union", "comb", "clos">>
  BY <1>1, <1>4, <1>5, <1>11, Zenon
<1>. QED
  BY <1>9, <1>10, <1>12, <1>13, <1>14, <1>15, Zenon

\* The script is that and nothing but calm calls after it.
LEMMA ScriptCalls ==
  /\ Len(Script) \in Nat /\ Len(Script) >= 20
  /\ \A i \in 1 .. 20 : Script[i] = Opened[i]
  /\ \A i \in 21 .. Len(Script) : Calm(Script[i])
<1>. DEFINE Opens(s) == \E n \in Nat : /\ n >= 20 /\ Listing(s, n)
                                       /\ \A i \in 1 .. 20 : s[i] = Opened[i]
                                       /\ \A i \in 21 .. n : Calm(s[i])
<1>1. Opens(Opened)
  <2>1. Listing(Opened, 20)
    BY OpeningCalls, Zenon
  <2>2. 20 \in Nat /\ 20 >= 20 /\ \A i \in 21 .. 20 : FALSE
    OBVIOUS
  <2>. QED
    BY <2>1, <2>2, Zenon
<1>2. ASSUME NEW s, NEW t, Opens(s), CalmList(t) PROVE Opens(s \o t)
  <2>1. PICK n \in Nat : /\ n >= 20 /\ Listing(s, n)
                         /\ \A i \in 1 .. 20 : s[i] = Opened[i]
                         /\ \A i \in 21 .. n : Calm(s[i])
    BY <1>2
  <2>2. PICK m \in Nat : Listing(t, m) /\ \A i \in 1 .. m : Calm(t[i])
    BY <1>2 DEF CalmList
  <2>. DEFINE u == s \o t
  <2>3. Lists(u, s, n, t, m)
    <3>1. n \in Nat /\ m \in Nat /\ Listing(s, n) /\ Listing(t, m)
      BY <2>1, <2>2
    <3>. QED
      BY <3>1, Joined, Zenon
  <2>. HIDE DEF u
  <2>4. Listing(u, n + m) /\ (\A i \in 1 .. n : u[i] = s[i]) /\ \A i \in 1 .. m : u[n + i] = t[i]
    BY <2>3 DEF Lists
  <2>5. ASSUME NEW i \in 1 .. 20 PROVE u[i] = Opened[i]
    <3>1. i \in 1 .. n
      BY <2>1
    <3>. QED
      BY <2>1, <2>4, <3>1
  <2>6. ASSUME NEW i \in 21 .. n + m PROVE Calm(u[i])
    <3>1. CASE i <= n
      <4>1. i \in 1 .. n /\ i \in 21 .. n
        BY <3>1
      <4>. QED
        BY <2>1, <2>4, <4>1
    <3>2. CASE i > n
      <4>1. i - n \in 1 .. m /\ n + (i - n) = i
        BY <3>2
      <4>. QED
        BY <2>2, <2>4, <4>1
    <3>. QED
      BY <3>1, <3>2
  <2>7. n + m \in Nat /\ n + m >= 20
    BY <2>1
  <2>8. Opens(u)
    BY <2>4, <2>5, <2>6, <2>7
  <2>. QED
    BY <2>8 DEF u
<1>3. Opens(Script)
  <2>. HIDE DEF Opens
  <2>. QED
    BY <1>1, <1>2, CalmSections, Zenon DEF Script, Opened
<1>4. PICK n \in Nat : /\ n >= 20 /\ Listing(Script, n)
                       /\ \A i \in 1 .. 20 : Script[i] = Opened[i]
                       /\ \A i \in 21 .. n : Calm(Script[i])
  BY <1>3
<1>5. Len(Script) = n
  <2>. DEFINE X == {Script[i] : i \in 1 .. n}
  <2>1. Script \in [1 .. n -> X]
    BY <1>4 DEF Listing
  <2>. HIDE DEF X
  <2>. QED
    BY <2>1
<1>. QED
  BY <1>4, <1>5

\* The handle of that name leads to contribution c.
Held(name, c) ==
  /\ handle[name] \in 0 .. Len(contributions) - 1
  /\ contributions[handle[name] + 1] = c

\* Between the two injections of a pair and its union the handles name the pair, and
\* between the validation of a pair and its union the witness is about the pair.
MainInv ==
  /\ at \in Nat
  /\ contributions \in Seq(Given)
  /\ DOMAIN handle = Names
  /\ at >= 1 => Held("rules", Rules)
  /\ at >= 2 => Held("facts", Facts)
  /\ at >= 13 => Held("comb", Combinators)
  /\ at >= 14 => Held("clos", Closures)
  /\ at \in 6 .. 14 => witness.about = <<BB!RefOf(Rules), BB!RefOf(Facts)>>
  /\ at \in 15 .. 20 => witness.about = <<BB!RefOf(Combinators), BB!RefOf(Closures)>>

\* Steps that are no injection and no validation leave it alone.
LEMMA MainInvKept ==
  ASSUME MainInv, UNCHANGED <<handle, contributions, witness>>,
         at' = at \/ at' = at + 1, at' \notin {1, 2, 6, 13, 14, 15}
  PROVE  MainInv'
<1>1. \A n, c : Held(n, c)' <=> Held(n, c)
  BY DEF Held
<1>0. at \in Nat
  BY DEF MainInv
<1>2. /\ at' \in Nat
      /\ at' >= 1 => at >= 1
      /\ at' >= 2 => at >= 2
      /\ at' >= 13 => at >= 13
      /\ at' >= 14 => at >= 14
      /\ at' \in 6 .. 14 => at \in 6 .. 14
      /\ at' \in 15 .. 20 => at \in 15 .. 20
  BY <1>0
<1>. QED
  BY <1>1, <1>2, Zenon DEF MainInv

\* Which call is made tells how many have been made.
LEMMA CallAt ==
  ASSUME MainInv, at < Len(Script)
  PROVE  /\ Script[at + 1][1] = "inject" => at \in {0, 1, 12, 13}
         /\ Script[at + 1][1] = "validate" => at \in {5, 14} \/ at >= 20
         /\ Script[at + 1][1] = "union" => at \in {7, 15}
         /\ Script[at + 1][1] = "cons" => at \in {3, 4}
         /\ Script[at + 1][1] = "find" => at \in 8 .. 11 \cup 16 .. 19
         /\ Script[at + 1][1] \notin {"inject", "validate"} => at \notin {0, 1, 5, 12, 13, 14}
<1>0. Len(Script) \in Nat /\ at \in Nat
  BY ScriptCalls, Zenon DEF MainInv
<1>1. at \in Nat /\ at + 1 \in 1 .. Len(Script)
  BY <1>0
<1>2. CASE at >= 20
  <2>1. Calm(Script[at + 1])
    <3>1. at + 1 \in 21 .. Len(Script)
      BY <1>0, <1>1, <1>2
    <3>. QED
      BY <3>1, ScriptCalls, Zenon
  <2>2. /\ Script[at + 1][1] \notin {"inject", "union", "cons", "find"}
        /\ at >= 20 /\ at \notin {0, 1, 5, 12, 13, 14}
    <3>1. Script[at + 1][1] \in {"show", "validate", "start", "tick", "compare", "count"}
      BY <2>1, Zenon DEF Calm
    <3>. QED
      BY <1>0, <1>2, <3>1
  <2>. QED
    BY <2>2, Zenon
<1>3. CASE at < 20
  <2>1. at + 1 \in 1 .. 20 /\ Script[at + 1] = Opened[at + 1]
    <3>1. at + 1 \in 1 .. 20
      BY <1>1, <1>3
    <3>. QED
      BY <3>1, ScriptCalls, Zenon
  <2>2. /\ Opened[1][1] = "inject" /\ Opened[2][1] = "inject" /\ Opened[3][1] = "look"
        /\ Opened[4][1] = "cons" /\ Opened[5][1] = "cons" /\ Opened[6][1] = "validate"
        /\ Opened[7][1] = "show" /\ Opened[8][1] = "union"
        /\ Opened[9][1] = "find" /\ Opened[10][1] = "find"
        /\ Opened[11][1] = "find" /\ Opened[12][1] = "find"
        /\ Opened[13][1] = "inject" /\ Opened[14][1] = "inject"
        /\ Opened[15][1] = "validate" /\ Opened[16][1] = "union"
        /\ Opened[17][1] = "find" /\ Opened[18][1] = "find"
        /\ Opened[19][1] = "find" /\ Opened[20][1] = "find"
    BY OpeningCalls
  <2>3. \/ at \in {0, 1, 12, 13} /\ Script[at + 1][1] = "inject"
        \/ at = 2 /\ Script[at + 1][1] = "look"
        \/ at \in {3, 4} /\ Script[at + 1][1] = "cons"
        \/ at \in {5, 14} /\ Script[at + 1][1] = "validate"
        \/ at = 6 /\ Script[at + 1][1] = "show"
        \/ at \in {7, 15} /\ Script[at + 1][1] = "union"
        \/ at \in 8 .. 11 \cup 16 .. 19 /\ Script[at + 1][1] = "find"
    <3>. DEFINE call(i) == Opened[i][1]
    <3>1. /\ \A i \in {1, 2, 13, 14} : call(i) = "inject"
          /\ \A i \in {4, 5} : call(i) = "cons"
          /\ \A i \in {6, 15} : call(i) = "validate"
          /\ \A i \in {8, 16} : call(i) = "union"
          /\ \A i \in 9 .. 12 \cup 17 .. 20 : call(i) = "find"
          /\ call(3) = "look" /\ call(7) = "show"
      BY <2>2
    <3>2. Script[at + 1][1] = call(at + 1)
      BY <2>1
    <3>. HIDE DEF call
    <3>3. \/ at + 1 \in {1, 2, 13, 14} \/ at + 1 = 3 \/ at + 1 \in {4, 5} \/ at + 1 \in {6, 15}
          \/ at + 1 = 7 \/ at + 1 \in {8, 16} \/ at + 1 \in 9 .. 12 \cup 17 .. 20
      BY <1>1, <1>3
    <3>4. \/ at + 1 \in {1, 2, 13, 14} /\ call(at + 1) = "inject"
          \/ at + 1 = 3 /\ call(at + 1) = "look"
          \/ at + 1 \in {4, 5} /\ call(at + 1) = "cons"
          \/ at + 1 \in {6, 15} /\ call(at + 1) = "validate"
          \/ at + 1 = 7 /\ call(at + 1) = "show"
          \/ at + 1 \in {8, 16} /\ call(at + 1) = "union"
          \/ at + 1 \in 9 .. 12 \cup 17 .. 20 /\ call(at + 1) = "find"
      BY <3>1, <3>3, Zenon
    <3>. QED
      BY <1>1, <3>2, <3>4
  <2>. DEFINE name == Script[at + 1][1]
  <2>. HIDE DEF name
  <2>5. \/ at \in {0, 1, 12, 13} /\ name = "inject"
        \/ at = 2 /\ name = "look"
        \/ at \in {3, 4} /\ name = "cons"
        \/ at \in {5, 14} /\ name = "validate"
        \/ at = 6 /\ name = "show"
        \/ at \in {7, 15} /\ name = "union"
        \/ at \in 8 .. 11 \cup 16 .. 19 /\ name = "find"
    BY <2>3, Zenon DEF name
  <2>6. /\ name = "inject" => at \in {0, 1, 12, 13}
        /\ name = "validate" => at \in {5, 14} \/ at >= 20
        /\ name = "union" => at \in {7, 15}
        /\ name = "cons" => at \in {3, 4}
        /\ name = "find" => at \in 8 .. 11 \cup 16 .. 19
        /\ name \notin {"inject", "validate"} => at \notin {0, 1, 5, 12, 13, 14}
    BY <2>5
  <2>. QED
    BY <2>6, Zenon DEF name
<1>. QED
  BY <1>0, <1>2, <1>3

\* An injection fills the handle the invariant wants filled.
LEMMA MainInjectStep ==
  ASSUME MainInv, MainInject
  PROVE  MainInv' /\ Paired!Next
<1>. DEFINE n == Arg(1)
            c == Arg(2)
<1>1. /\ at < Len(Script) /\ Script[at + 1][1] = "inject" /\ BB!Inject(c)
      /\ handle' = [handle EXCEPT ![n] = out'.index] /\ at' = at + 1
  BY DEF MainInject, Calls, Done
<1>2. \/ at = 0 /\ n = "rules" /\ c = Rules
      \/ at = 1 /\ n = "facts" /\ c = Facts
      \/ at = 12 /\ n = "comb" /\ c = Combinators
      \/ at = 13 /\ n = "clos" /\ c = Closures
  <2>1. at \in {0, 1, 12, 13}
    BY <1>1, CallAt
  <2>2. Script[at + 1] = Opened[at + 1]
    <3>1. at + 1 \in 1 .. 20
      BY <2>1
    <3>. QED
      BY <3>1, ScriptCalls, Zenon
  <2>3. n = Opened[at + 1][2] /\ c = Opened[at + 1][3]
    BY <2>2 DEF Arg
  <2>. HIDE DEF n, c
  <2>4. /\ Opened[1][2] = "rules" /\ Opened[1][3] = Rules
        /\ Opened[2][2] = "facts" /\ Opened[2][3] = Facts
        /\ Opened[13][2] = "comb" /\ Opened[13][3] = Combinators
        /\ Opened[14][2] = "clos" /\ Opened[14][3] = Closures
    BY OpeningCalls
  <2>. QED
    BY <2>1, <2>3, <2>4
<1>. HIDE DEF n, c
<1>3. /\ contributions' = Append(contributions, c) /\ out'.index = Len(contributions)
      /\ witness' = witness
  BY <1>1 DEF BB!Inject, BB!count
<1>4. c \in Given /\ n \in Names
  BY <1>2 DEF Given, Names
<1>5. Paired!Next
  <2>1. Paired!Inject(c)
    BY <1>1, SameInject
  <2>. QED
    BY <1>4, <2>1 DEF Paired!Next, Given
<1>6. /\ contributions' \in Seq(Given) /\ DOMAIN handle' = Names
      /\ handle'[n] = Len(contributions)
      /\ \A m \in Names : m # n => handle'[m] = handle[m]
      /\ contributions'[Len(contributions) + 1] = c
      /\ Len(contributions') = Len(contributions) + 1 /\ Len(contributions) \in Nat
      /\ \A i \in 1 .. Len(contributions) : contributions'[i] = contributions[i]
  BY <1>1, <1>3, <1>4 DEF MainInv
<1>7. ASSUME NEW m \in Names, m = n, NEW d, d = c PROVE Held(m, d)'
  BY <1>6, <1>7 DEF Held
<1>8. ASSUME NEW m \in Names, m # n, NEW d, Held(m, d) PROVE Held(m, d)'
  BY <1>6, <1>8 DEF Held
<1>9. {"rules", "facts", "comb", "clos"} = Names
  BY DEF Names
<1>10. at \in Nat /\ at' = at + 1 /\ at' \notin 15 .. 20
       /\ (at' \in 6 .. 14 => at \in 6 .. 14)
  <2>1. at \in {0, 1, 12, 13} /\ at' = at + 1
    BY <1>1, <1>2, Zenon
  <2>. QED
    BY <2>1
<1>11. /\ at' >= 1 => Held("rules", Rules)'
       /\ at' >= 2 => Held("facts", Facts)'
       /\ at' >= 13 => Held("comb", Combinators)'
       /\ at' >= 14 => Held("clos", Closures)'
  <2>1. /\ at >= 1 => Held("rules", Rules)
        /\ at >= 2 => Held("facts", Facts)
        /\ at >= 13 => Held("comb", Combinators)
        /\ at >= 14 => Held("clos", Closures)
    BY DEF MainInv
  <2>2. /\ "rules" \in Names /\ "facts" \in Names /\ "comb" \in Names /\ "clos" \in Names
    BY DEF Names
  <2>3. /\ "rules" = n /\ Rules = c => Held("rules", Rules)'
        /\ "facts" = n /\ Facts = c => Held("facts", Facts)'
        /\ "comb" = n /\ Combinators = c => Held("comb", Combinators)'
        /\ "clos" = n /\ Closures = c => Held("clos", Closures)'
    BY <1>7, <2>2, Zenon
  <2>4. /\ "rules" # n /\ Held("rules", Rules) => Held("rules", Rules)'
        /\ "facts" # n /\ Held("facts", Facts) => Held("facts", Facts)'
        /\ "comb" # n /\ Held("comb", Combinators) => Held("comb", Combinators)'
        /\ "clos" # n /\ Held("clos", Closures) => Held("clos", Closures)'
    BY <1>8, <2>2, Zenon
  <2>. QED
    BY <1>2, <1>10, <2>1, <2>3, <2>4
<1>12. MainInv'
  BY <1>3, <1>6, <1>10, <1>11 DEF MainInv
<1>. QED
  BY <1>5, <1>12

\* A call on two contributions, or on one, names contributions that are held.
LEMMA HandlesInUse ==
  ASSUME MainInv, at < Len(Script)
  PROVE  /\ Script[at + 1][1] \in {"cons", "union"} =>
              /\ handle[Arg(1)] \in 0 .. Len(contributions) - 1
              /\ handle[Arg(2)] \in 0 .. Len(contributions) - 1
         /\ Script[at + 1][1] = "find" => handle[Arg(1)] \in 0 .. Len(contributions) - 1
<1>1. /\ at >= 2 => Held("rules", Rules) /\ Held("facts", Facts)
      /\ at >= 14 => Held("comb", Combinators) /\ Held("clos", Closures)
  BY DEF MainInv
<1>2. /\ at >= 2 => \A n \in {"rules", "facts"} : handle[n] \in 0 .. Len(contributions) - 1
      /\ at >= 14 => \A n \in {"comb", "clos"} : handle[n] \in 0 .. Len(contributions) - 1
  BY <1>1 DEF Held
<1>3. ASSUME at + 1 \in 1 .. 20 PROVE Arg(1) = Opened[at + 1][2] /\ Arg(2) = Opened[at + 1][3]
  <2>1. Script[at + 1] = Opened[at + 1]
    BY <1>3, ScriptCalls, Zenon
  <2>. QED
    BY <2>1 DEF Arg
<1>4. CASE Script[at + 1][1] = "cons"
  <2>1. at \in {3, 4}
    BY <1>4, CallAt, Zenon
  <2>2. {Opened[at + 1][2], Opened[at + 1][3]} = {"rules", "facts"}
    <3>1. at + 1 \in {4, 5}
      BY <2>1
    <3>. QED
      BY <3>1, OpeningCalls, Zenon
  <2>3. Arg(1) \in {"rules", "facts"} /\ Arg(2) \in {"rules", "facts"}
    <3>1. at + 1 \in 1 .. 20
      BY <2>1
    <3>2. {Arg(1), Arg(2)} = {"rules", "facts"}
      BY <1>3, <2>2, <3>1
    <3>. QED
      BY <3>2
  <2>. QED
    BY <1>2, <1>4, <2>1, <2>3
<1>5. CASE Script[at + 1][1] = "union"
  <2>1. at = 7 \/ at = 15
    BY <1>5, CallAt, Zenon
  <2>2. /\ at = 7 => Arg(1) = "rules" /\ Arg(2) = "facts"
        /\ at = 15 => Arg(1) = "comb" /\ Arg(2) = "clos"
    <3>1. /\ Opened[8][2] = "rules" /\ Opened[8][3] = "facts"
          /\ Opened[16][2] = "comb" /\ Opened[16][3] = "clos"
      BY OpeningCalls
    <3>. QED
      BY <1>3, <3>1
  <2>. QED
    BY <1>2, <1>5, <2>1, <2>2
<1>6. CASE Script[at + 1][1] = "find"
  <2>1. at + 1 \in 9 .. 12 \/ at + 1 \in 17 .. 20
    <3>1. at \in 8 .. 11 \cup 16 .. 19
      BY <1>6, CallAt, Zenon
    <3>. QED
      BY <3>1
  <2>2. /\ at + 1 \in 9 .. 12 => Opened[at + 1][2] \in {"rules", "facts"}
        /\ at + 1 \in 17 .. 20 => Opened[at + 1][2] \in {"comb", "clos"}
    BY OpeningCalls, Zenon
  <2>3. /\ at + 1 \in 9 .. 12 => at >= 2 /\ Arg(1) \in {"rules", "facts"}
        /\ at + 1 \in 17 .. 20 => at >= 14 /\ Arg(1) \in {"comb", "clos"}
    <3>1. at \in Nat
      BY DEF MainInv
    <3>. QED
      BY <1>3, <2>2, <3>1
  <2>. QED
    BY <1>2, <1>6, <2>1, <2>3
<1>. QED
  BY <1>4, <1>5, <1>6

\* Every step keeps the invariant, and what it does to the blackboard a paired client
\* could have done.
LEMMA MainStep ==
  MainInv /\ [HarnessNext]_harnessVars => MainInv' /\ [bbvars' # bbvars => Paired!Next]_bbvars
<1>. SUFFICES ASSUME MainInv, [HarnessNext]_harnessVars
              PROVE  MainInv' /\ (bbvars' # bbvars => Paired!Next)
  OBVIOUS
<1>1. CASE MainInject
  BY <1>1, MainInjectStep
<1>2. CASE MainCons
  <2>1. /\ at < Len(Script) /\ Script[at + 1][1] = "cons" /\ at' = at + 1
        /\ BB!Cons(handle[Arg(1)], handle[Arg(2)], {0}) /\ handle' = handle
    BY <1>2 DEF MainCons, Calls, Done
  <2>2. contributions' = contributions /\ witness' = witness
    BY <2>1 DEF BB!Cons, BB!board
  <2>3. at \in {3, 4}
    BY <2>1, CallAt, Zenon
  <2>4. MainInv'
    <3>1. at' \notin {1, 2, 6, 13, 14, 15}
      BY <2>1, <2>3
    <3>. QED
      BY <2>1, <2>2, <3>1, MainInvKept
  <2>5. handle[Arg(1)] \in 0 .. Len(contributions) - 1 /\ handle[Arg(2)] \in 0 .. Len(contributions) - 1
    BY <2>1, HandlesInUse
  <2>6. Paired!Cons(handle[Arg(1)], handle[Arg(2)], {0})
    BY <2>1, SameCons
  <2>7. Paired!Next
    <3>1. handle[Arg(1)] \in Paired!AnyIndex /\ handle[Arg(2)] \in Paired!AnyIndex
      BY <2>5 DEF Paired!AnyIndex, Paired!count
    <3>. QED
      BY <2>6, <3>1, Zenon DEF Paired!Next
  <2>. QED
    BY <2>4, <2>7
<1>3. CASE MainValidate
  <2>. DEFINE a == Arg(1)
              b == Arg(2)
  <2>1. /\ at < Len(Script) /\ Script[at + 1][1] = "validate" /\ at' = at + 1
        /\ BB!Validate(BB!RefOf(a), BB!RefOf(b)) /\ handle' = handle
    BY <1>3 DEF MainValidate, Calls, Done
  <2>2. contributions' = contributions /\ witness'.about = <<BB!RefOf(a), BB!RefOf(b)>>
    BY <2>1 DEF BB!Validate, BB!board
  <2>3. \/ at = 5 /\ a = Rules /\ b = Facts
        \/ at = 14 /\ a = Combinators /\ b = Closures
        \/ at >= 20 /\ a \in Given /\ b \in Given
    <3>1. at \in {5, 14} \/ at >= 20
      BY <2>1, CallAt, Zenon
    <3>2. CASE at \in {5, 14}
      <4>1. at + 1 \in 1 .. 20
        BY <3>2
      <4>2. Script[at + 1] = Opened[at + 1]
        BY <4>1, ScriptCalls, Zenon
      <4>3. a = Opened[at + 1][2] /\ b = Opened[at + 1][3]
        BY <4>2 DEF Arg
      <4>4. /\ Opened[6][2] = Rules /\ Opened[6][3] = Facts
            /\ Opened[15][2] = Combinators /\ Opened[15][3] = Closures
        BY OpeningCalls
      <4>. HIDE DEF a, b
      <4>. QED
        BY <3>2, <4>3, <4>4
    <3>3. CASE at >= 20
      <4>1. Len(Script) \in Nat /\ at \in Nat
        BY ScriptCalls, Zenon DEF MainInv
      <4>2. at + 1 \in 21 .. Len(Script)
        BY <2>1, <3>3, <4>1
      <4>3. Calm(Script[at + 1])
        BY <4>2, ScriptCalls, Zenon
      <4>4. a = Script[at + 1][2] /\ b = Script[at + 1][3]
        BY DEF Arg
      <4>. HIDE DEF a, b
      <4>. QED
        BY <2>1, <3>3, <4>3, <4>4 DEF Calm
    <3>. QED
      BY <3>1, <3>2, <3>3
  <2>. HIDE DEF a, b
  <2>4. MainInv'
    <3>0. at \in Nat
      BY DEF MainInv
    <3>1. \A n, c : Held(n, c)' <=> Held(n, c)
      BY <2>1, <2>2 DEF Held
    <3>2. /\ at' \in Nat
          /\ at' >= 1 => at >= 1
          /\ at' >= 2 => at >= 2
          /\ at' >= 13 => at >= 13
          /\ at' >= 14 => at >= 14
          /\ at' \in 6 .. 14 => at = 5
          /\ at' \in 15 .. 20 => at = 14 \/ at >= 20
      BY <2>1, <2>3, <3>0
    <3>3. /\ at' \in 6 .. 14 => witness'.about = <<BB!RefOf(Rules), BB!RefOf(Facts)>>
          /\ at' \in 15 .. 20 =>
               witness'.about = <<BB!RefOf(Combinators), BB!RefOf(Closures)>>
      <4>1. /\ at' \in 6 .. 14 => a = Rules /\ b = Facts
            /\ at' \in 15 .. 20 => a = Combinators /\ b = Closures
        BY <2>1, <2>3, <3>0
      <4>. QED
        BY <2>2, <4>1, Zenon
    <3>. QED
      BY <2>1, <2>2, <3>1, <3>2, <3>3, Zenon DEF MainInv
  <2>5. a \in Given /\ b \in Given
    BY <2>3 DEF Given
  <2>6. Paired!Validate(BB!RefOf(a), BB!RefOf(b))
    BY <2>1, SameValidate
  <2>7. BB!RefOf(a) \in Paired!Refs /\ BB!RefOf(b) \in Paired!Refs
    BY <2>5 DEF BB!RefOf, Paired!Refs, Paired!RefOf, Given
  <2>8. Paired!Next
    BY <2>6, <2>7, Zenon DEF Paired!Next
  <2>. QED
    BY <2>4, <2>8
<1>4. CASE MainUnion
  <2>. DEFINE l == handle[Arg(1)]
              r == handle[Arg(2)]
  <2>1. /\ at < Len(Script) /\ Script[at + 1][1] = "union" /\ at' = at + 1
        /\ BB!Union(l, r) \/ BB!UnionRefused(l, r)
        /\ handle' = handle
    BY <1>4 DEF MainUnion, Calls, Done
  <2>2. contributions' = contributions /\ witness' = witness
    BY <2>1 DEF BB!Union, BB!UnionRefused, BB!board
  <2>3. at = 7 \/ at = 15
    BY <2>1, CallAt, Zenon
  <2>4. MainInv'
    <3>1. at' \notin {1, 2, 6, 13, 14, 15}
      BY <2>1, <2>3
    <3>. QED
      BY <2>1, <2>2, <3>1, MainInvKept
  <2>5. \/ /\ l = handle["rules"] /\ r = handle["facts"] /\ Held("rules", Rules) /\ Held("facts", Facts)
           /\ witness.about = <<BB!RefOf(Rules), BB!RefOf(Facts)>>
        \/ /\ l = handle["comb"] /\ r = handle["clos"]
           /\ Held("comb", Combinators) /\ Held("clos", Closures)
           /\ witness.about = <<BB!RefOf(Combinators), BB!RefOf(Closures)>>
    <3>1. at + 1 \in 1 .. 20
      BY <2>3
    <3>2. Script[at + 1] = Opened[at + 1]
      BY <3>1, ScriptCalls, Zenon
    <3>3. Arg(1) = Opened[at + 1][2] /\ Arg(2) = Opened[at + 1][3]
      BY <3>2 DEF Arg
    <3>4. /\ Opened[8][2] = "rules" /\ Opened[8][3] = "facts"
          /\ Opened[16][2] = "comb" /\ Opened[16][3] = "clos"
      BY OpeningCalls
    <3>5. CASE at = 7
      BY <3>3, <3>4, <3>5 DEF MainInv
    <3>6. CASE at = 15
      BY <3>3, <3>4, <3>6 DEF MainInv
    <3>. QED
      BY <2>3, <3>5, <3>6
  <2>. HIDE DEF l, r
  <2>6. /\ l \in 0 .. Len(contributions) - 1 /\ r \in 0 .. Len(contributions) - 1
        /\ BB!RefOf(BB!At(l)) = witness.about[1] /\ BB!RefOf(BB!At(r)) = witness.about[2]
    BY <2>5 DEF Held, BB!At
  <2>7. Paired!Union(l, r) \/ Paired!UnionRefused(l, r)
    BY <2>1, <2>6, SameUnion, SameUnionRefused
  <2>8. Paired!Next
    <3>1. l \in Paired!AnyIndex /\ r \in Paired!AnyIndex
      BY <2>6 DEF Paired!AnyIndex, Paired!count
    <3>. QED
      BY <2>7, <3>1, Zenon DEF Paired!Next
  <2>. QED
    BY <2>4, <2>8
<1>5. CASE MainFind
  <2>1. /\ at < Len(Script) /\ Script[at + 1][1] = "find" /\ at' = at + 1
        /\ BB!Find(handle[Arg(1)]) /\ handle' = handle
    BY <1>5 DEF MainFind, Calls, Done
  <2>2. contributions' = contributions /\ witness' = witness
    BY <2>1 DEF BB!Find, BB!board
  <2>3. at' \notin {1, 2, 6, 13, 14, 15}
    <3>1. at \in 8 .. 11 \cup 16 .. 19
      BY <2>1, CallAt, Zenon
    <3>. QED
      BY <2>1, <3>1
  <2>4. MainInv'
    BY <2>1, <2>2, <2>3, MainInvKept
  <2>5. handle[Arg(1)] \in Paired!Index
    <3>1. handle[Arg(1)] \in 0 .. Len(contributions) - 1
      BY <2>1, HandlesInUse
    <3>. QED
      BY <3>1 DEF Paired!Index, Paired!count
  <2>6. Paired!Find(handle[Arg(1)])
    BY <2>1, SameFind
  <2>7. Paired!Next
    BY <2>5, <2>6, Zenon DEF Paired!Next
  <2>. QED
    BY <2>4, <2>7
<1>6. CASE MainUnionFindStep
  <2>1. /\ contributions' = contributions /\ witness' = witness
        /\ handle' = handle /\ at' = at
    BY <1>6 DEF MainUnionFindStep, BB!UnionFindStep, BB!board
  <2>2. MainInv'
    <3>1. \A n, c : Held(n, c)' <=> Held(n, c)
      BY <2>1 DEF Held
    <3>. QED
      BY <2>1, <3>1, Zenon DEF MainInv
  <2>3. Paired!UnionFindStep
    BY <1>6, SameStep DEF MainUnionFindStep
  <2>. QED
    BY <2>2, <2>3, Zenon DEF Paired!Next
<1>7. CASE MainLook \/ MainShow \/ MainStart \/ MainTick \/ MainCompare \/ MainCount
  <2>1. /\ at < Len(Script) /\ at' = at + 1 /\ UNCHANGED <<handle, bbvars>>
        /\ Script[at + 1][1] \in {"look", "show", "start", "tick", "compare", "count"}
    BY <1>7 DEF MainLook, MainShow, MainStart, MainTick, MainCompare, MainCount, Calls, Done
  <2>2. contributions' = contributions /\ witness' = witness /\ ~(bbvars' # bbvars)
    BY <2>1 DEF bbvars
  <2>3. at' \notin {1, 2, 6, 13, 14, 15}
    <3>1. at \notin {0, 1, 5, 12, 13, 14}
      BY <2>1, CallAt
    <3>2. at \in Nat
      BY DEF MainInv
    <3>. QED
      BY <2>1, <3>1, <3>2
  <2>. QED
    BY <2>1, <2>2, <2>3, MainInvKept
<1>8. CASE MainReturned \/ UNCHANGED harnessVars
  <2>1. UNCHANGED <<at, handle, contributions, witness>> /\ ~(bbvars' # bbvars)
    BY <1>8 DEF MainReturned, harnessVars, bbvars
  <2>2. \A n, c : Held(n, c)' <=> Held(n, c)
    BY <2>1 DEF Held
  <2>3. MainInv'
    BY <2>1, <2>2, Zenon DEF MainInv
  <2>. QED
    BY <2>1, <2>3
<1>. QED
  BY <1>1, <1>2, <1>3, <1>4, <1>5, <1>6, <1>7, <1>8, Zenon DEF HarnessNext

\* Whatever the capacity of the blackboard and the room of a fiber, main only ever
\* unites the two contributions its last witness is about: it never meets the union
\* that coproduct_union grants on the witness of another pair.
THEOREM MainPairs == HarnessSpec => MainIsPairedClient
<1>1. HarnessInit => MainInv /\ Paired!Init
  <2>. SUFFICES ASSUME HarnessInit PROVE MainInv /\ Paired!Init
    OBVIOUS
  <2>1. Paired!Init
    BY SameInit DEF HarnessInit
  <2>2. at = 0 /\ DOMAIN handle = Names /\ contributions = <<>>
    BY DEF HarnessInit, BB!Init
  <2>. QED
    BY <2>1, <2>2 DEF MainInv
<1>. QED
  BY <1>1, MainStep, PTL DEF HarnessSpec, MainIsPairedClient

-----------------------------------------------------------------------------
\* The programs side by side: a behaviour of the composition is one of every program,
\* so what is proved of each of them holds of all of them as they are checked together.
THEOREM ProgramsRun ==
  Spec => /\ HarnessSpec /\ SecdedSpec /\ BootSpec /\ RadixSpec /\ FrameSpec /\ GateSpec
          /\ CellSpec
<1>1. Init => /\ HarnessInit /\ SecdedInit /\ BootInit /\ RadixInit /\ FrameInit /\ GateInit
                /\ CellInit
  BY DEF Init
<1>2. [Next]_programVars => /\ [HarnessNext]_harnessVars /\ [SecdedNext]_secdedVars
                            /\ [BootNext]_bootVars /\ [RadixNext]_radixVars
                            /\ [FrameNext]_frameVars /\ [GateNext]_gateVars
                            /\ [CellNext]_cellVars
  <2>1. CASE UNCHANGED programVars
    BY <2>1 DEF programVars
  <2>2. CASE Next
    <3>1. /\ (bench = "main" /\ HarnessNext) \/ UNCHANGED harnessVars
          /\ (bench = "secded" /\ SecdedNext) \/ UNCHANGED secdedVars
          /\ (bench = "boot" /\ BootNext) \/ UNCHANGED bootVars
          /\ (bench = "radix" /\ RadixNext) \/ UNCHANGED radixVars
          /\ (bench = "frame" /\ FrameNext) \/ UNCHANGED frameVars
          /\ (bench = "gates" /\ GateNext) \/ UNCHANGED gateVars
          /\ (bench = "cell" /\ CellNext) \/ UNCHANGED cellVars
      <4>1. \A c \in Benches : c = bench \/ c \in Benches \ {bench}
        OBVIOUS
      <4>2. {"main", "secded", "boot", "radix", "frame", "gates", "cell"} = Benches
        BY DEF Benches
      <4>. QED
        BY <2>2, <4>1, <4>2 DEF Next, Idle
    <3>. QED
      BY <3>1
  <2>. QED
    BY <2>1, <2>2
<1>. QED
  BY <1>1, <1>2, PTL DEF Spec, HarnessSpec, SecdedSpec, BootSpec, RadixSpec, FrameSpec, GateSpec,
                    CellSpec
=============================================================================
