----------------------------- MODULE Words_proofs -----------------------------
(***************************************************************************)
(* What the word operators do, bit by bit, for every width.                 *)
(***************************************************************************)
EXTENDS Words, TLAPS

Shift == 0 .. W - 1

\* Moving up and down by the same number of places are inverse permutations.
LEMMA UpDown ==
  ASSUME NEW i \in Bits, NEW k \in Shift
  PROVE  /\ Up(i, k) \in Bits /\ Down(i, k) \in Bits
         /\ Down(Up(i, k), k) = i /\ Up(Down(i, k), k) = i
  BY WAssumption DEF Up, Down, Bits, Shift

\* A bit of a word rotated left (omi_rotl16, omi_rotl32).
LEMMA RotlBit ==
  ASSUME NEW w \in Word, NEW k \in Shift
  PROVE  /\ Rotl(w, k) \in Word
         /\ \A j \in Bits : j \in Rotl(w, k) <=> Down(j, k) \in w
  BY UpDown DEF Rotl, Word

\* A bit of a word rotated right (omi_rotr16, omi_rotr32).
LEMMA RotrBit ==
  ASSUME NEW w \in Word, NEW k \in Shift
  PROVE  /\ Rotr(w, k) \in Word
         /\ \A j \in Bits : j \in Rotr(w, k) <=> Up(j, k) \in w
  BY UpDown DEF Rotr, Word

\* Exclusive or on words: closed, commutative, associative and self-inverse.
LEMMA XorLaws ==
  ASSUME NEW a \in Word, NEW b \in Word, NEW c \in Word
  PROVE  /\ Xor(a, b) \in Word
         /\ Xor(a, b) = Xor(b, a)
         /\ Xor(Xor(a, b), c) = Xor(a, Xor(b, c))
         /\ Xor(a, a) = {} /\ Xor(a, {}) = a
         /\ Xor(Xor(a, b), b) = a
  BY DEF Xor, Word

\* Rotations by the same number of places undo each other.
LEMMA RotInverse ==
  ASSUME NEW w \in Word, NEW k \in Shift
  PROVE  Rotr(Rotl(w, k), k) = w /\ Rotl(Rotr(w, k), k) = w
<1>1. \A j \in Bits : j \in Rotr(Rotl(w, k), k) <=> j \in w
  BY RotlBit, RotrBit, UpDown
<1>2. \A j \in Bits : j \in Rotl(Rotr(w, k), k) <=> j \in w
  BY RotlBit, RotrBit, UpDown
<1>3. Rotr(Rotl(w, k), k) \in Word /\ Rotl(Rotr(w, k), k) \in Word
  BY RotlBit, RotrBit
<1>. QED
  BY <1>1, <1>2, <1>3 DEF Word
=============================================================================
