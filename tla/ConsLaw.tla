------------------------------- MODULE ConsLaw -------------------------------
(***************************************************************************)
(* The pure operators of src/omnicron-coproduct-partition.c, sections 6 to  *)
(* 9: the CONS fold and its inverses, the projection and routing of a       *)
(* resolved word, and the Tetragrammatron closure of a scope.  Words are    *)
(* 32 bits wide in the program; W says how wide they are here.              *)
(***************************************************************************)
EXTENDS Words

\* OMI_SECTOR_PREFIXES and the boundary XOR every sector must resolve to.
SectorPrefix == [s \in 0 .. 3 |-> WordOf(32 * s)]

RelationWitness == WordOf(30)

\* omi_segment_xor_witness: B ^ (B^0x1A) ^ (B^0x1B) ^ (B^0x1F)
SegmentWitness(b) ==
  Xor(Xor(Xor(b, Xor(b, WordOf(26))), Xor(b, WordOf(27))), Xor(b, WordOf(31)))

\* omi_tetragrammatron_scope_closes
ScopeCloses(scope) ==
  scope < 4 /\ SegmentWitness(SectorPrefix[scope]) = RelationWitness

\* omi_cons_profile_salt: the 16-bit profile in both halves of the word.
Salt(profile) == (profile \cup {i + 16 : i \in profile}) \cap Bits

\* omi_cons_fold
ConsFold(car, cdr, profile) ==
  Xor(Xor(Rotl(car, 1), Rotl(cdr, 3)), Salt(profile))

\* omi_cons_recover_car, omi_cons_recover_cdr
RecoverCar(cons, cdr, profile) ==
  Rotr(Xor(Xor(cons, Rotl(cdr, 3)), Salt(profile)), 1)

\* Mutant: the rotation of the other half is undone.
RecoverCdrTurnedOnce(car, cons, profile) ==
  Rotr(Xor(Xor(cons, Rotl(car, 1)), Salt(profile)), 1)

RecoverCdr(car, cons, profile) ==
  Rotr(Xor(Xor(cons, Rotl(car, 1)), Salt(profile)), 3)

\* omi_nibble_interleave and omi_nibble_compress: 0xYX <-> 0xY0X0.
NibbleInterleave(byte) ==
  {i \in 4 .. 7 : i - 4 \in byte} \cup {i \in 12 .. 15 : i - 8 \in byte}

NibbleCompress(address) ==
  {i \in 0 .. 3 : i + 4 \in address} \cup {i \in 4 .. 7 : i + 8 \in address}

\* Mutant: the band is taken from row bits 5 and 6.
SelectorLowBand(address) ==
  LET byte == NibbleCompress(address)
  IN  {b \in 0 .. 2 : <<3, 5, 6>>[b + 1] \in byte}

\* omi_reverse_route: selector bits 2 and 1 are row bits 7 and 6, selector bit
\* 0 is column bit 3; the bus is bit 2 of the selector.
Selector(address) ==
  LET byte == NibbleCompress(address)
  IN  {b \in 0 .. 2 : <<3, 6, 7>>[b + 1] \in byte}

Route(address) == IF 2 \in Selector(address) THEN "REMOTE" ELSE "LOCAL"

\* OMI_SELECTOR_TABLE: top left, top right, bottom right, bottom left.
SelectorCorner(selector, corner) ==
  LET base == (selector \div 2) * 64 + (selector % 2) * 8
  IN  base + <<0, 7, 55, 48>>[corner + 1]

\* omi_forward_map_quadrant: the address of a corner of a selector's rectangle.
ForwardMap(selector, corner) ==
  NibbleInterleave({i \in 0 .. 7 : (SelectorCorner(selector, corner) \div 2 ^ i) % 2 = 1})

\* omi_plane_mirror
PlaneMirror(byte) == Xor(byte, {7})
=============================================================================
