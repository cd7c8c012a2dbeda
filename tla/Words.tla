-------------------------------- MODULE Words --------------------------------
(***************************************************************************)
(* Unsigned machine words of W bits, as the C sources use them: never as    *)
(* numbers, only through XOR, AND, OR and rotations.  A word is the set of  *)
(* the positions of its 1 bits (position 0 is the least significant), as a  *)
(* board is the set of its claimed coordinates; AND and OR are then         *)
(* intersection and union.                                                  *)
(***************************************************************************)
EXTENDS Integers

CONSTANT W              \* width in bits: 16 or 32 in the program

ASSUME WAssumption == W \in Nat \ {0}

Bits == 0 .. W - 1

Word == SUBSET Bits

Xor(a, b) == (a \ b) \cup (b \ a)

\* Where a rotation by k places (0 <= k < W) takes the bit at i.
Up(i, k) == IF i + k < W THEN i + k ELSE i + k - W

Down(i, k) == IF i >= k THEN i - k ELSE i - k + W

\* Mutant: the left shift is not cast back to the width of the word.
RotlUncast(w, k) == {i + k : i \in w} \cup {Up(i, k) : i \in w}

Rotl(w, k) == {Up(i, k) : i \in w}

Rotr(w, k) == {Down(i, k) : i \in w}

\* The word with the value n < 2^16 (all the sources' constants are).
WordOf(n) == {i \in Bits : i < 16 /\ (n \div 2 ^ i) % 2 = 1}
=============================================================================
