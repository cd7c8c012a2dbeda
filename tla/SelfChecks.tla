------------------------------ MODULE SelfChecks ------------------------------
(***************************************************************************)
(* The checks src/omnicron-coproduct-partition.c makes of its own tables    *)
(* and laws (the omi_verify functions of sections 6, 8 and 10) and the      *)
(* azimuth of section 10.  Angles are in 1/256 of a degree, which is exact. *)
(***************************************************************************)
EXTENDS ConsLaw, FiniteSets

LOCAL INSTANCE FiniteSetsExt

Selectors == 0 .. 7

Corners == 0 .. 3

\* omi_verify_car_cdr_mirror
VerifyCarCdrMirror ==
  \A s \in 0 .. 3 :
    PlaneMirror(WordOf(SelectorCorner(s, 0))) = WordOf(SelectorCorner(s + 4, 0))

\* omi_verify_selector_roundtrip
VerifySelectorRoundtrip ==
  \A s \in Selectors, k \in Corners :
    NibbleCompress(ForwardMap(s, k)) = WordOf(SelectorCorner(s, k))

DecodesTo(address, s) ==
  /\ Selector(address) = WordOf(s)
  /\ Route(address) = IF s >= 4 THEN "REMOTE" ELSE "LOCAL"

\* omi_verify_quadrant_corner_decode
VerifyQuadrantCornerDecode ==
  \A s \in Selectors, k \in Corners : DecodesTo(ForwardMap(s, k), s)

\* omi_verify_quadrant_interior_decode: one point inside each rectangle
VerifyQuadrantInteriorDecode ==
  LET representative == <<\h21, \h2A, \h51, \h5A, \h91, \h9A, \hD1, \hDA>>
  IN  \A s \in Selectors :
        DecodesTo(NibbleInterleave(WordOf(representative[s + 1])), s)

\* omi_verify_selector_bus_split: the base corners once more
VerifySelectorBusSplit == \A s \in Selectors : DecodesTo(ForwardMap(s, 0), s)

\* omi_verify_all_segment_witnesses
VerifyAllSegmentWitnesses ==
  \A i \in 0 .. 3 : SegmentWitness(SectorPrefix[i]) = RelationWitness

\* OMI_POLYBIUS_D_PLUS and OMI_POLYBIUS_D_MINUS
PolybiusPlus == {\h0, \h5, \hA, \hF}

PolybiusMinus == {\h3, \h6, \h9, \hC}

PolybiusXor(diagonal) ==
  {i \in 0 .. 7 : Cardinality({d \in diagonal : i \in WordOf(d)}) % 2 = 1}

PolybiusSum(diagonal) == FoldSet(LAMBDA d, s : d + s, 0, diagonal)

\* omi_verify_polybius_diagonals: they cancel under XOR and weigh 0x1E in sum
VerifyPolybiusDiagonals ==
  \A diagonal \in {PolybiusPlus, PolybiusMinus} :
    PolybiusXor(diagonal) = {} /\ WordOf(PolybiusSum(diagonal)) = RelationWitness

\* omi_azimuth_degrees
AzimuthDegrees(byte) == byte * 360

\* omi_verify_azimuth_anchors: 0x55 and 0xAA are complements, and balanced
VerifyAzimuthAnchors ==
  /\ Xor(WordOf(\h55), WordOf(\hAA)) = 0 .. 7
  /\ Cardinality(WordOf(\h55AA)) = 8 /\ Cardinality(WordOf(\hAA55)) = 8

\* omi_omnion_azimuth_byte
OmnionAzimuth(omnion) == (omnion % 2) * 128

\* omi_verify_omnion_azimuth_mirror
VerifyOmnionAzimuthMirror ==
  /\ PlaneMirror(WordOf(OmnionAzimuth(0))) = WordOf(OmnionAzimuth(1))
  /\ AzimuthDegrees(OmnionAzimuth(0)) = 0
  /\ AzimuthDegrees(OmnionAzimuth(1)) = 180 * 256
=============================================================================
