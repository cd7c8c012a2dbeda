---------------------------- MODULE ConsCell_proofs ----------------------------
(***************************************************************************)
(* The recovery law of CONS for words of every width above three.           *)
(***************************************************************************)
EXTENDS ConsCell, Words_proofs

LEMMA SaltWord ==
  ASSUME NEW p
  PROVE  Salt(p) \in Word
  BY DEF Salt, Word

\* omi_cons_recover_car and omi_cons_recover_cdr are inverses of omi_cons_fold
\* in each argument, both ways round.
LEMMA RecoveryLaw ==
  ASSUME NEW a \in Word, NEW b \in Word, NEW c \in Word, NEW p
  PROVE  /\ ConsFold(a, b, p) \in Word
         /\ RecoverCar(c, b, p) \in Word /\ RecoverCdr(a, c, p) \in Word
         /\ RecoverCar(ConsFold(a, b, p), b, p) = a
         /\ RecoverCdr(a, ConsFold(a, b, p), p) = b
         /\ ConsFold(RecoverCar(c, b, p), b, p) = c
         /\ ConsFold(a, RecoverCdr(a, c, p), p) = c
<1>. DEFINE a1 == Rotl(a, 1)
            b3 == Rotl(b, 3)
            s == Salt(p)
<1>1. 1 \in Shift /\ 3 \in Shift
  BY CellAssumption, WAssumption DEF Shift
<1>2. /\ a1 \in Word /\ b3 \in Word /\ s \in Word
      /\ Rotr(a1, 1) = a /\ Rotr(b3, 3) = b
  BY <1>1, SaltWord, RotlBit, RotInverse
<1>3. Xor(Xor(a1, b3), s) \in Word
      /\ Xor(Xor(c, b3), s) \in Word /\ Xor(Xor(c, a1), s) \in Word
  BY <1>2, XorLaws
<1>4. /\ Xor(Xor(Xor(Xor(a1, b3), s), b3), s) = a1
      /\ Xor(Xor(Xor(Xor(a1, b3), s), a1), s) = b3
      /\ Xor(Xor(Xor(Xor(c, b3), s), b3), s) = c
      /\ Xor(Xor(a1, Xor(Xor(c, a1), s)), s) = c
  BY <1>2 DEF Xor, Word
<1>5. /\ Rotl(RecoverCar(c, b, p), 1) = Xor(Xor(c, b3), s)
      /\ Rotl(RecoverCdr(a, c, p), 3) = Xor(Xor(c, a1), s)
  BY <1>1, <1>3, RotInverse DEF RecoverCar, RecoverCdr
<1>6. RecoverCar(c, b, p) \in Word /\ RecoverCdr(a, c, p) \in Word
  BY <1>1, <1>3, RotrBit DEF RecoverCar, RecoverCdr
<1>. QED
  BY <1>2, <1>3, <1>4, <1>5, <1>6 DEF ConsFold, RecoverCar, RecoverCdr

\* Different profiles give different salts.
LEMMA SaltInjective ==
  ASSUME NEW p \in Profiles, NEW q \in Profiles, Salt(p) = Salt(q)
  PROVE  p = q
<1>1. \A r \in Profiles : r = Salt(r) \cap 0 .. 15
  <2>. SUFFICES ASSUME NEW r \in Profiles PROVE r = Salt(r) \cap 0 .. 15
    OBVIOUS
  <2>1. r \subseteq 0 .. 15 /\ r \subseteq Bits
    BY CellAssumption
  <2>2. ASSUME NEW i \in 0 .. 15, NEW j \in r, i = j + 16 PROVE FALSE
    BY <2>1, <2>2
  <2>3. \A i \in 0 .. 15 : i \in Salt(r) <=> i \in r
    BY <2>1, <2>2 DEF Salt
  <2>. QED
    BY <2>1, <2>3
<1>. QED
  BY <1>1

CellInv ==
  /\ CellTypeOK
  /\ cons = ConsFold(cell.car, cell.cdr, cell.profile)
  /\ RefoldsUnderLast
  /\ SameProfileRecovers
  /\ faithful => lastProfile = cell.profile

LEMMA CellWords ==
  ASSUME CellTypeOK
  PROVE  cell.car \in Word /\ cell.cdr \in Word /\ cell.profile \in Profiles
  BY CellAssumption DEF CellTypeOK, Composed

\* Both halves of the cell can be recovered from its word.
LEMMA CellRecovers ==
  ASSUME CellTypeOK
  PROVE  LET c == ConsFold(cell.car, cell.cdr, cell.profile)
         IN  /\ RecoverCar(c, cell.cdr, cell.profile) = cell.car
             /\ RecoverCdr(cell.car, c, cell.profile) = cell.cdr
<1>. DEFINE a == cell.car  b == cell.cdr  p == cell.profile
<1>1. a \in Word /\ b \in Word
  BY CellWords
<1>. HIDE DEF a, b, p
<1>2. RecoverCar(ConsFold(a, b, p), b, p) = a /\ RecoverCdr(a, ConsFold(a, b, p), p) = b
  BY <1>1, RecoveryLaw
<1>. QED
  BY <1>2 DEF a, b, p

LEMMA CellInitInv == CellInit => CellInv
<1>. SUFFICES ASSUME CellInit PROVE CellInv
  OBVIOUS
<1>1. cell.car \in Word /\ cell.cdr \in Word /\ cell.profile \in Profiles
  BY CellAssumption DEF CellInit, Composed
<1>2. cons \in Word
  BY <1>1, RecoveryLaw DEF CellInit
<1>. QED
  BY <1>1, <1>2 DEF CellInit, CellInv, CellTypeOK, Composed, RefoldsUnderLast,
                    SameProfileRecovers

LEMMA CellStepInv == CellInv /\ [CellNext]_cellVars => CellInv'
<1>. SUFFICES ASSUME CellInv, [CellNext]_cellVars PROVE CellInv'
  OBVIOUS
<1>. USE DEF CellInv
<1>1. cell.car \in Word /\ cell.cdr \in Word /\ cell.profile \in Profiles
      /\ car \in Word /\ cdr \in Word /\ cons \in Word
  BY CellWords DEF CellTypeOK, Composed
<1>2. ASSUME NEW profile \in Profiles, TakeCar(profile) PROVE CellInv'
  <2>1. car' \in Word /\ ConsFold(car', cdr, profile) = cons
    BY <1>1, <1>2, RecoveryLaw DEF TakeCar
  <2>2. faithful' => car' = cell.car
    BY <1>2, CellRecovers DEF TakeCar, Using, SameProfileRecovers
  <2>. QED
    BY <1>2, <2>1, <2>2 DEF TakeCar, Using, CellTypeOK, Composed, RefoldsUnderLast,
                             SameProfileRecovers
<1>3. ASSUME NEW profile \in Profiles, TakeCdr(profile) PROVE CellInv'
  <2>1. cdr' \in Word /\ ConsFold(car, cdr', profile) = cons
    BY <1>1, <1>3, RecoveryLaw DEF TakeCdr
  <2>2. faithful' => cdr' = cell.cdr
    BY <1>3, CellRecovers DEF TakeCdr, Using, SameProfileRecovers
  <2>. QED
    BY <1>3, <2>1, <2>2 DEF TakeCdr, Using, CellTypeOK, Composed, RefoldsUnderLast,
                             SameProfileRecovers
<1>4. ASSUME UNCHANGED cellVars PROVE CellInv'
  BY <1>4 DEF cellVars, CellTypeOK, Composed, RefoldsUnderLast, SameProfileRecovers
<1>. QED
  BY <1>2, <1>3, <1>4 DEF CellNext

\* Whatever is recovered in whatever order, the halves refold to the word, and they
\* are the composed ones as long as the cell's own profile is used.
THEOREM CellInvariance == CellSpec => []CellInv
  BY CellInitInv, CellStepInv, PTL DEF CellSpec

\* omi_verify_cons_recovery_law, for every cell, width and order of recoveries.
THEOREM CellSameProfileRecovers == CellSpec => []SameProfileRecovers
<1>1. CellInv => SameProfileRecovers
  BY DEF CellInv
<1>. QED
  BY <1>1, CellInvariance, PTL

\* Whatever profiles a holder has used, its halves refold to the word.
THEOREM CellRefoldsUnderLast == CellSpec => []RefoldsUnderLast
<1>1. CellInv => RefoldsUnderLast
  BY DEF CellInv
<1>. QED
  BY <1>1, CellInvariance, PTL

\* The first recovery under a wrong profile gives a wrong half.
THEOREM CellWrongProfileShows == CellSpec => WrongProfileShows
<1>1. CellInv /\ [CellNext]_cellVars =>
        [faithful /\ ~faithful' => car' # cell.car \/ cdr' # cell.cdr]_cellVars
  <2>. SUFFICES ASSUME CellInv, CellNext, faithful, ~faithful',
                       car' = cell.car, cdr' = cell.cdr
                PROVE  FALSE
    OBVIOUS
  <2>. DEFINE x == Xor(Rotl(cell.car, 1), Rotl(cell.cdr, 3))
  <2>1. PICK profile \in Profiles : profile # cell.profile /\ lastProfile' = profile
    BY DEF CellNext, TakeCar, TakeCdr, Using, CellInv, CellTypeOK, Composed
  <2>2. ConsFold(car', cdr', profile) = cons
    BY <2>1, CellStepInv DEF CellInv, RefoldsUnderLast, CellNext, TakeCar, TakeCdr, Using
  <2>3. Xor(x, Salt(profile)) = Xor(x, Salt(cell.profile))
    BY <2>2 DEF ConsFold, CellInv
  <2>4. Salt(profile) = Salt(cell.profile)
    BY <2>3 DEF Xor
  <2>. QED
    BY <2>1, <2>4, SaltInjective, CellWords DEF CellInv
<1>. QED
  BY <1>1, CellInvariance, PTL DEF CellSpec, WrongProfileShows

-----------------------------------------------------------------------------
(***************************************************************************)
(* The router, for every word: bytes are sets of bits on one side and       *)
(* coordinates of the table on the other, so the proof is about what the    *)
(* eight bits of a coordinate say.                                          *)
(***************************************************************************)
Bit(w, i) == IF i \in w THEN 1 ELSE 0

Value(w) == Bit(w, 0) + 2 * Bit(w, 1) + 4 * Bit(w, 2) + 8 * Bit(w, 3)
            + 16 * Bit(w, 4) + 32 * Bit(w, 5) + 64 * Bit(w, 6) + 128 * Bit(w, 7)

BitsOf(n) == {i \in 0 .. 7 : (n \div 2 ^ i) % 2 = 1}

LEMMA BitValue ==
  ASSUME NEW w, NEW i
  PROVE  Bit(w, i) \in {0, 1} /\ (i \in w <=> Bit(w, i) = 1)
  BY DEF Bit

\* The binary digit of n worth p.
Digit(n, p) == (n \div p) % 2

\* Which bits a coordinate has, without the powers.
LEMMA BitsOfByte ==
  ASSUME NEW n \in 0 .. 255
  PROVE  /\ BitsOf(n) \subseteq 0 .. 7
         /\ 0 \in BitsOf(n) <=> Digit(n, 1) = 1
         /\ 1 \in BitsOf(n) <=> Digit(n, 2) = 1
         /\ 2 \in BitsOf(n) <=> Digit(n, 4) = 1
         /\ 3 \in BitsOf(n) <=> Digit(n, 8) = 1
         /\ 4 \in BitsOf(n) <=> Digit(n, 16) = 1
         /\ 5 \in BitsOf(n) <=> Digit(n, 32) = 1
         /\ 6 \in BitsOf(n) <=> Digit(n, 64) = 1
         /\ 7 \in BitsOf(n) <=> Digit(n, 128) = 1
<1>1. /\ 2 ^ 0 = 1 /\ 2 ^ 1 = 2 /\ 2 ^ 2 = 4 /\ 2 ^ 3 = 8
      /\ 2 ^ 4 = 16 /\ 2 ^ 5 = 32 /\ 2 ^ 6 = 64 /\ 2 ^ 7 = 128
  BY SMT
<1>2. BitsOf(n) \subseteq 0 .. 7
      /\ \A i \in 0 .. 7 : i \in BitsOf(n) <=> Digit(n, 2 ^ i) = 1
  BY DEF BitsOf, Digit
<1>. QED
  BY <1>1, <1>2

\* Eight digits and the byte they spell.
LEMMA DigitsUnique ==
  ASSUME NEW n \in 0 .. 255
  PROVE  n = Digit(n, 1) + 2 * Digit(n, 2) + 4 * Digit(n, 4) + 8 * Digit(n, 8)
             + 16 * Digit(n, 16) + 32 * Digit(n, 32) + 64 * Digit(n, 64) + 128 * Digit(n, 128)
  BY SMT DEF Digit

\* A byte is the number of its bits, and no other.
LEMMA ValueOfBits ==
  ASSUME NEW n \in 0 .. 255
  PROVE  Value(BitsOf(n)) = n
<1>1. /\ 0 \in BitsOf(n) <=> Digit(n, 1) = 1
      /\ 1 \in BitsOf(n) <=> Digit(n, 2) = 1
      /\ 2 \in BitsOf(n) <=> Digit(n, 4) = 1
      /\ 3 \in BitsOf(n) <=> Digit(n, 8) = 1
      /\ 4 \in BitsOf(n) <=> Digit(n, 16) = 1
      /\ 5 \in BitsOf(n) <=> Digit(n, 32) = 1
      /\ 6 \in BitsOf(n) <=> Digit(n, 64) = 1
      /\ 7 \in BitsOf(n) <=> Digit(n, 128) = 1
  BY BitsOfByte
<1>2. /\ Digit(n, 1) \in {0, 1}
      /\ Digit(n, 2) \in {0, 1}
      /\ Digit(n, 4) \in {0, 1}
      /\ Digit(n, 8) \in {0, 1}
      /\ Digit(n, 16) \in {0, 1}
      /\ Digit(n, 32) \in {0, 1}
      /\ Digit(n, 64) \in {0, 1}
      /\ Digit(n, 128) \in {0, 1}
  BY DEF Digit
<1>3. /\ Bit(BitsOf(n), 0) = Digit(n, 1)
      /\ Bit(BitsOf(n), 1) = Digit(n, 2)
      /\ Bit(BitsOf(n), 2) = Digit(n, 4)
      /\ Bit(BitsOf(n), 3) = Digit(n, 8)
      /\ Bit(BitsOf(n), 4) = Digit(n, 16)
      /\ Bit(BitsOf(n), 5) = Digit(n, 32)
      /\ Bit(BitsOf(n), 6) = Digit(n, 64)
      /\ Bit(BitsOf(n), 7) = Digit(n, 128)
  BY <1>1, <1>2 DEF Bit
<1>. QED
  BY <1>3, DigitsUnique DEF Value

LEMMA BitsOfValue ==
  ASSUME NEW w \in SUBSET (0 .. 7)
  PROVE  Value(w) \in 0 .. 255 /\ BitsOf(Value(w)) = w
<1>. DEFINE b0 == Bit(w, 0)
            b1 == Bit(w, 1)
            b2 == Bit(w, 2)
            b3 == Bit(w, 3)
            b4 == Bit(w, 4)
            b5 == Bit(w, 5)
            b6 == Bit(w, 6)
            b7 == Bit(w, 7)
            n == Value(w)
<1>1. /\ b0 \in {0, 1} /\ b1 \in {0, 1} /\ b2 \in {0, 1} /\ b3 \in {0, 1}
      /\ b4 \in {0, 1} /\ b5 \in {0, 1} /\ b6 \in {0, 1} /\ b7 \in {0, 1}
  BY BitValue
<1>2. n = b0 + 2 * b1 + 4 * b2 + 8 * b3 + 16 * b4 + 32 * b5
          + 64 * b6 + 128 * b7
  BY DEF Value
<1>. HIDE DEF b0, b1, b2, b3, b4, b5, b6, b7, n
<1>3. n \in 0 .. 255
  BY <1>1, <1>2
<1>5. /\ Digit(n, 1) = b0
      /\ Digit(n, 2) = b1
      /\ Digit(n, 4) = b2
      /\ Digit(n, 8) = b3
      /\ Digit(n, 16) = b4
      /\ Digit(n, 32) = b5
      /\ Digit(n, 64) = b6
      /\ Digit(n, 128) = b7
  <2>0. Digit(n, 1) = b0
    BY <1>1, <1>2 DEF Digit
  <2>1. Digit(n, 2) = b1
    BY <1>1, <1>2 DEF Digit
  <2>2. Digit(n, 4) = b2
    BY <1>1, <1>2 DEF Digit
  <2>3. Digit(n, 8) = b3
    BY <1>1, <1>2 DEF Digit
  <2>4. Digit(n, 16) = b4
    BY <1>1, <1>2 DEF Digit
  <2>5. Digit(n, 32) = b5
    BY <1>1, <1>2 DEF Digit
  <2>6. Digit(n, 64) = b6
    BY <1>1, <1>2 DEF Digit
  <2>7. Digit(n, 128) = b7
    BY <1>1, <1>2 DEF Digit
  <2>. QED
    BY <2>0, <2>1, <2>2, <2>3, <2>4, <2>5, <2>6, <2>7
<1>6. /\ 0 \in BitsOf(n) <=> b0 = 1
      /\ 1 \in BitsOf(n) <=> b1 = 1
      /\ 2 \in BitsOf(n) <=> b2 = 1
      /\ 3 \in BitsOf(n) <=> b3 = 1
      /\ 4 \in BitsOf(n) <=> b4 = 1
      /\ 5 \in BitsOf(n) <=> b5 = 1
      /\ 6 \in BitsOf(n) <=> b6 = 1
      /\ 7 \in BitsOf(n) <=> b7 = 1
  BY <1>3, <1>5, BitsOfByte
<1>7. \A i \in 0 .. 7 : i \in BitsOf(n) <=> i \in w
  BY <1>6, BitValue DEF b0, b1, b2, b3, b4, b5, b6, b7
<1>8. BitsOf(n) \subseteq 0 .. 7
  BY <1>3, BitsOfByte
<1>. QED
  BY <1>3, <1>7, <1>8 DEF n

LEMMA NumberIsValue ==
  ASSUME NEW w \in SUBSET (0 .. 7)
  PROVE  Number[w] = Value(w)
<1>1. Value(w) \in 0 .. 255 /\ w = BitsOf(Value(w))
  BY BitsOfValue
<1>2. Number[w] = CHOOSE n \in 0 .. 255 : w = BitsOf(n)
  BY DEF Number, BitsOf
<1>3. Number[w] \in 0 .. 255 /\ w = BitsOf(Number[w])
  <2>. DEFINE bytes == 0 .. 255
  <2>1. Value(w) \in bytes /\ Number[w] = CHOOSE n \in bytes : w = BitsOf(n)
    BY <1>1, <1>2
  <2>. HIDE DEF bytes
  <2>2. Number[w] \in bytes /\ w = BitsOf(Number[w])
    BY <1>1, <2>1, Zenon
  <2>. QED
    BY <2>2 DEF bytes
<1>. QED
  BY <1>3, ValueOfBits

\* What the router reads of an address.
LEMMA SelectorBits ==
  ASSUME NEW a
  PROVE  LET byte == NibbleCompress(a)
         IN  /\ byte \in SUBSET (0 .. 7)
             /\ Selector(a) \in SUBSET (0 .. 7)
             /\ Number[Selector(a)] = Bit(byte, 3) + 2 * Bit(byte, 6) + 4 * Bit(byte, 7)
             /\ Route(a) = IF 7 \in byte THEN "REMOTE" ELSE "LOCAL"
<1>. DEFINE byte == NibbleCompress(a)
            s == Selector(a)
<1>1. byte \in SUBSET (0 .. 7)
  BY DEF NibbleCompress
<1>. HIDE DEF byte
<1>0. s = {i \in 0 .. 2 : <<3, 6, 7>>[i + 1] \in byte}
  BY DEF Selector, byte
<1>. HIDE DEF s
<1>2. /\ s \in SUBSET (0 .. 7)
      /\ 0 \in s <=> 3 \in byte
      /\ 1 \in s <=> 6 \in byte
      /\ 2 \in s <=> 7 \in byte
      /\ 3 \notin s /\ 4 \notin s /\ 5 \notin s /\ 6 \notin s /\ 7 \notin s
  <2>1. s \subseteq 0 .. 2
    BY <1>0
  <2>2. 0 \in s <=> 3 \in byte
    BY <1>0
  <2>3. 1 \in s <=> 6 \in byte
    BY <1>0
  <2>4. 2 \in s <=> 7 \in byte
    BY <1>0
  <2>. QED
    BY <2>1, <2>2, <2>3, <2>4
<1>3. Number[s] = Value(s)
  BY <1>2, NumberIsValue
<1>4. Value(s) = Bit(byte, 3) + 2 * Bit(byte, 6) + 4 * Bit(byte, 7)
  BY <1>2 DEF Value, Bit
<1>. QED
  BY <1>1, <1>2, <1>3, <1>4 DEF Route, s, byte

\* omi_reverse_route decodes the rectangle of the table a coordinate lies in: row
\* bits 7 and 6 are the band, column bit 3 the half.
LEMMA QuadrantDecodes == InQuadrant
<1>. DEFINE byte == NibbleCompress(routed)
            b(i) == Bit(byte, i)
            n == Number[byte]
            s == Number[Selector(routed)]
            corner(k) == SelectorCorner(s, k)
<1>1. byte \in SUBSET (0 .. 7) /\ s = b(3) + 2 * b(6) + 4 * b(7)
      /\ Route(routed) = IF 7 \in byte THEN "REMOTE" ELSE "LOCAL"
  BY SelectorBits
<1>2. n = Value(byte)
  BY <1>1, NumberIsValue
<1>3. n = b(0) + 2 * b(1) + 4 * b(2) + 8 * b(3) + 16 * b(4) + 32 * b(5)
          + 64 * b(6) + 128 * b(7)
  BY <1>2 DEF Value
<1>4. /\ b(0) \in {0, 1} /\ b(1) \in {0, 1} /\ b(2) \in {0, 1} /\ b(3) \in {0, 1}
      /\ b(4) \in {0, 1} /\ b(5) \in {0, 1} /\ b(6) \in {0, 1} /\ b(7) \in {0, 1}
      /\ 7 \in byte <=> b(7) = 1
  BY BitValue
<1>5. /\ corner(0) = (s \div 2) * 64 + (s % 2) * 8
      /\ corner(2) = (s \div 2) * 64 + (s % 2) * 8 + 55
  <2>1. <<0, 7, 55, 48>>[0 + 1] = 0 /\ <<0, 7, 55, 48>>[2 + 1] = 55
    OBVIOUS
  <2>2. s \div 2 \in Int /\ s % 2 \in Int
    <3>. HIDE DEF s, b
    <3>. QED
      BY <1>1, <1>4
  <2>. HIDE DEF s
  <2>. QED
    BY <2>1, <2>2 DEF SelectorCorner
<1>. HIDE DEF byte, b, n, s, corner
<1>6. s \div 2 = b(6) + 2 * b(7) /\ s % 2 = b(3)
  BY <1>1, <1>4
<1>7. /\ n \div 16 = b(4) + 2 * b(5) + 4 * b(6) + 8 * b(7)
      /\ n % 16 = b(0) + 2 * b(1) + 4 * b(2) + 8 * b(3)
  BY <1>3, <1>4
<1>8. /\ corner(0) \div 16 = 4 * b(6) + 8 * b(7) /\ corner(0) % 16 = 8 * b(3)
      /\ corner(2) \div 16 = 4 * b(6) + 8 * b(7) + 3 /\ corner(2) % 16 = 8 * b(3) + 7
  BY <1>4, <1>5, <1>6
<1>9. /\ Row(n) \in Row(corner(0)) .. Row(corner(2))
      /\ Column(n) \in Column(corner(0)) .. Column(corner(2))
  <2>1. n \div 16 \in corner(0) \div 16 .. corner(2) \div 16
    BY <1>4, <1>7, <1>8
  <2>2. n % 16 \in corner(0) % 16 .. corner(2) % 16
    BY <1>4, <1>7, <1>8
  <2>. QED
    BY <2>1, <2>2 DEF Row, Column
<1>10. s < 4 <=> 7 \notin byte
  BY <1>1, <1>4
<1>. QED
  BY <1>1, <1>9, <1>10 DEF InQuadrant, byte, n, s, corner

\* The coordinate with the highest digit turned.
Mirrored(n) == IF n < 128 THEN n + 128 ELSE n - 128

\* c is corner k of selector s, and tells so.
CornerOf(c, s, k) ==
  /\ c = SelectorCorner(s, k)
  /\ s = Digit(c, 8) + 2 * Digit(c, 64) + 4 * Digit(c, 128)
  /\ SelectorCorner((s + 4) % 8, k) = Mirrored(c)

LEMMA CornerInTable ==
  ASSUME NEW s \in 0 .. 7, NEW k \in 0 .. 3
  PROVE  \E c \in 0 .. 255 : CornerOf(c, s, k)
<1>. DEFINE off == <<0, 7, 55, 48>>[k + 1]
            c == SelectorCorner(s, k)
            t == (s + 4) % 8
<1>1. off \in {0, 7, 55, 48}
  <2>1. /\ <<0, 7, 55, 48>>[0 + 1] = 0 /\ <<0, 7, 55, 48>>[1 + 1] = 7
        /\ <<0, 7, 55, 48>>[2 + 1] = 55 /\ <<0, 7, 55, 48>>[3 + 1] = 48
    OBVIOUS
  <2>2. k = 0 \/ k = 1 \/ k = 2 \/ k = 3
    OBVIOUS
  <2>. QED
    BY <2>1, <2>2
<1>2. /\ c = (s \div 2) * 64 + (s % 2) * 8 + off
      /\ SelectorCorner(t, k) = (t \div 2) * 64 + (t % 2) * 8 + off
  BY DEF SelectorCorner
<1>. HIDE DEF off, c
<1>3. s \in Nat /\ t = IF s < 4 THEN s + 4 ELSE s - 4
  OBVIOUS
<1>. HIDE DEF t
<1>4. c \in 0 .. 255
  BY <1>1, <1>2
<1>5. s = Digit(c, 8) + 2 * Digit(c, 64) + 4 * Digit(c, 128)
  BY <1>1, <1>2 DEF Digit
<1>6. SelectorCorner(t, k) = Mirrored(c)
  BY <1>1, <1>2, <1>3 DEF Mirrored
<1>. QED
  BY <1>4, <1>5, <1>6 DEF CornerOf, c, t

\* omi_plane_mirror turns the highest digit.
LEMMA MirrorOfByte ==
  ASSUME NEW n \in 0 .. 255
  PROVE  Mirrored(n) \in 0 .. 255 /\ PlaneMirror(BitsOf(n)) = BitsOf(Mirrored(n))
<1>. DEFINE m == Mirrored(n)
            mirror == PlaneMirror(BitsOf(n))
<1>1. m \in 0 .. 255
  BY DEF Mirrored
<1>2. /\ Digit(m, 1) = Digit(n, 1)
      /\ Digit(m, 2) = Digit(n, 2)
      /\ Digit(m, 4) = Digit(n, 4)
      /\ Digit(m, 8) = Digit(n, 8)
      /\ Digit(m, 16) = Digit(n, 16)
      /\ Digit(m, 32) = Digit(n, 32)
      /\ Digit(m, 64) = Digit(n, 64)
      /\ Digit(m, 128) = 1 <=> Digit(n, 128) # 1
  <2>0. Digit(m, 1) = Digit(n, 1)
    BY DEF Digit, Mirrored
  <2>1. Digit(m, 2) = Digit(n, 2)
    BY DEF Digit, Mirrored
  <2>2. Digit(m, 4) = Digit(n, 4)
    BY DEF Digit, Mirrored
  <2>3. Digit(m, 8) = Digit(n, 8)
    BY DEF Digit, Mirrored
  <2>4. Digit(m, 16) = Digit(n, 16)
    BY DEF Digit, Mirrored
  <2>5. Digit(m, 32) = Digit(n, 32)
    BY DEF Digit, Mirrored
  <2>6. Digit(m, 64) = Digit(n, 64)
    BY DEF Digit, Mirrored
  <2>7. Digit(m, 128) = 1 <=> Digit(n, 128) # 1
    BY DEF Digit, Mirrored
  <2>. QED
    BY <2>0, <2>1, <2>2, <2>3, <2>4, <2>5, <2>6, <2>7
<1>3. \A i : i \in mirror <=> (i \in BitsOf(n) /\ i # 7) \/ (i = 7 /\ i \notin BitsOf(n))
  BY DEF PlaneMirror, Xor
<1>. HIDE DEF m, mirror
<1>4. /\ 0 \in BitsOf(m) <=> 0 \in mirror
      /\ 1 \in BitsOf(m) <=> 1 \in mirror
      /\ 2 \in BitsOf(m) <=> 2 \in mirror
      /\ 3 \in BitsOf(m) <=> 3 \in mirror
      /\ 4 \in BitsOf(m) <=> 4 \in mirror
      /\ 5 \in BitsOf(m) <=> 5 \in mirror
      /\ 6 \in BitsOf(m) <=> 6 \in mirror
      /\ 7 \in BitsOf(m) <=> 7 \in mirror
  <2>1. /\ 0 \in mirror <=> 0 \in BitsOf(n)
        /\ 1 \in mirror <=> 1 \in BitsOf(n)
        /\ 2 \in mirror <=> 2 \in BitsOf(n)
        /\ 3 \in mirror <=> 3 \in BitsOf(n)
        /\ 4 \in mirror <=> 4 \in BitsOf(n)
        /\ 5 \in mirror <=> 5 \in BitsOf(n)
        /\ 6 \in mirror <=> 6 \in BitsOf(n)
        /\ 7 \in mirror <=> 7 \notin BitsOf(n)
    BY <1>3
  <2>2. /\ 0 \in BitsOf(n) <=> Digit(n, 1) = 1
        /\ 1 \in BitsOf(n) <=> Digit(n, 2) = 1
        /\ 2 \in BitsOf(n) <=> Digit(n, 4) = 1
        /\ 3 \in BitsOf(n) <=> Digit(n, 8) = 1
        /\ 4 \in BitsOf(n) <=> Digit(n, 16) = 1
        /\ 5 \in BitsOf(n) <=> Digit(n, 32) = 1
        /\ 6 \in BitsOf(n) <=> Digit(n, 64) = 1
        /\ 7 \in BitsOf(n) <=> Digit(n, 128) = 1
    BY BitsOfByte
  <2>3. /\ 0 \in BitsOf(m) <=> Digit(m, 1) = 1
        /\ 1 \in BitsOf(m) <=> Digit(m, 2) = 1
        /\ 2 \in BitsOf(m) <=> Digit(m, 4) = 1
        /\ 3 \in BitsOf(m) <=> Digit(m, 8) = 1
        /\ 4 \in BitsOf(m) <=> Digit(m, 16) = 1
        /\ 5 \in BitsOf(m) <=> Digit(m, 32) = 1
        /\ 6 \in BitsOf(m) <=> Digit(m, 64) = 1
        /\ 7 \in BitsOf(m) <=> Digit(m, 128) = 1
    BY <1>1, BitsOfByte
  <2>. QED
    BY <1>2, <2>1, <2>2, <2>3, SMT
<1>5. BitsOf(m) \subseteq 0 .. 7 /\ mirror \subseteq 0 .. 7
  BY <1>3 DEF BitsOf
<1>6. \A i \in 0 .. 7 : i \in BitsOf(m) <=> i \in mirror
  BY <1>4
<1>. QED
  BY <1>1, <1>5, <1>6 DEF m, mirror

\* Compression undoes interleaving, and looks at the interleaved nibbles only.
LEMMA CompressInterleaved ==
  ASSUME NEW w \in SUBSET (0 .. 7), NEW a,
         a \cap ((4 .. 7) \cup (12 .. 15)) = NibbleInterleave(w)
  PROVE  NibbleCompress(a) = w
<1>1. /\ \A i \in 4 .. 7 : i \in a <=> i - 4 \in w
      /\ \A i \in 12 .. 15 : i \in a <=> i - 8 \in w
  BY DEF NibbleInterleave
<1>2. \A i \in 0 .. 3 : i + 4 \in a <=> i \in w
  <2>. SUFFICES ASSUME NEW i \in 0 .. 3 PROVE i + 4 \in a <=> i \in w
    OBVIOUS
  <2>1. i + 4 \in 4 .. 7 /\ (i + 4) - 4 = i
    OBVIOUS
  <2>. QED
    BY <1>1, <2>1
<1>3. \A i \in 4 .. 7 : i + 8 \in a <=> i \in w
  <2>. SUFFICES ASSUME NEW i \in 4 .. 7 PROVE i + 8 \in a <=> i \in w
    OBVIOUS
  <2>1. i + 8 \in 12 .. 15 /\ (i + 8) - 8 = i
    OBVIOUS
  <2>. QED
    BY <1>1, <2>1
<1>4. NibbleCompress(a) = {i \in 0 .. 3 : i \in w} \cup {i \in 4 .. 7 : i \in w}
  BY <1>2, <1>3, Zenon DEF NibbleCompress
<1>5. w \subseteq (0 .. 3) \cup (4 .. 7)
  OBVIOUS
<1>. QED
  BY <1>4, <1>5, Zenon

LEMMA InterleavedPlaces ==
  ASSUME NEW w
  PROVE  NibbleInterleave(w) \cap ((4 .. 7) \cup (12 .. 15)) = NibbleInterleave(w)
  BY DEF NibbleInterleave

\* A corner of the table is routed to its selector, its mirror to the same corner
\* of the selector behind the other bus.
LEMMA CornersRouted == CornersDecode
<1>. SUFFICES ASSUME NEW s \in 0 .. 7, NEW k \in 0 .. 3,
                     routed \cap ((4 .. 7) \cup (12 .. 15)) = ForwardMap(s, k)
              PROVE  LET mirrored == NibbleInterleave(PlaneMirror(NibbleCompress(routed)))
                     IN  /\ Number[Selector(routed)] = s
                         /\ mirrored = ForwardMap((s + 4) % 8, k)
                         /\ Route(mirrored) # Route(routed)
  <2>1. ASSUME NEW t \in 0 .. 7, NEW l \in 0 .. 3
        PROVE  CornerAddress[t][l] = ForwardMap(t, l)
    BY DEF CornerAddress
  <2>2. ASSUME NEW t \in 0 .. 7 PROVE (t + 4) % 8 \in 0 .. 7
    OBVIOUS
  <2>3. SUFFICES ASSUME NEW t \in 0 .. 7, NEW l \in 0 .. 3,
                        routed \cap ((4 .. 7) \cup (12 .. 15)) = CornerAddress[t][l]
        PROVE  LET mirrored == NibbleInterleave(PlaneMirror(NibbleCompress(routed)))
               IN  /\ Number[Selector(routed)] = t
                   /\ mirrored = CornerAddress[(t + 4) % 8][l]
                   /\ Route(mirrored) # Route(routed)
    BY Zenon DEF CornersDecode
  <2>4. /\ CornerAddress[t][l] = ForwardMap(t, l)
        /\ CornerAddress[(t + 4) % 8][l] = ForwardMap((t + 4) % 8, l)
    BY <2>1, <2>2, Zenon
  <2>. QED
    BY <2>3, <2>4, Zenon
<1>0. PICK c \in 0 .. 255 : CornerOf(c, s, k)
  BY CornerInTable
<1>1. /\ c = SelectorCorner(s, k)
      /\ s = Digit(c, 8) + 2 * Digit(c, 64) + 4 * Digit(c, 128)
      /\ SelectorCorner((s + 4) % 8, k) = Mirrored(c)
  BY <1>0 DEF CornerOf
<1>. DEFINE m == Mirrored(c)
            byte == BitsOf(c)
            mirrored == NibbleInterleave(PlaneMirror(byte))
<1>2. ForwardMap(s, k) = NibbleInterleave(byte)
      /\ ForwardMap((s + 4) % 8, k) = NibbleInterleave(BitsOf(m))
  BY <1>1 DEF ForwardMap, BitsOf
<1>3. byte \in SUBSET (0 .. 7) /\ PlaneMirror(byte) \in SUBSET (0 .. 7)
      /\ PlaneMirror(byte) = BitsOf(m)
  <2>1. m \in 0 .. 255 /\ PlaneMirror(byte) = BitsOf(m)
    BY <1>1, MirrorOfByte
  <2>2. byte \subseteq 0 .. 7
    BY BitsOfByte
  <2>3. BitsOf(m) \subseteq 0 .. 7
    BY <2>1, BitsOfByte
  <2>. QED
    BY <2>1, <2>2, <2>3
<1>4. NibbleCompress(routed) = byte
  BY <1>2, <1>3, CompressInterleaved
<1>5. NibbleCompress(mirrored) = PlaneMirror(byte)
  BY <1>3, CompressInterleaved, InterleavedPlaces
<1>6. Number[Selector(routed)] = s
  <2>1. Number[Selector(routed)] = Bit(byte, 3) + 2 * Bit(byte, 6) + 4 * Bit(byte, 7)
    BY <1>4, SelectorBits
  <2>2. /\ Bit(byte, 3) = Digit(c, 8) /\ Bit(byte, 6) = Digit(c, 64)
        /\ Bit(byte, 7) = Digit(c, 128)
    <3>1. /\ 3 \in byte <=> Digit(c, 8) = 1
          /\ 6 \in byte <=> Digit(c, 64) = 1
          /\ 7 \in byte <=> Digit(c, 128) = 1
      BY BitsOfByte
    <3>. HIDE DEF byte
    <3>2. Digit(c, 8) \in {0, 1} /\ Digit(c, 64) \in {0, 1} /\ Digit(c, 128) \in {0, 1}
      BY DEF Digit
    <3>. QED
      BY <3>1, <3>2 DEF Bit
  <2>3. s = Digit(c, 8) + 2 * Digit(c, 64) + 4 * Digit(c, 128)
    BY <1>1
  <2>. HIDE DEF byte
  <2>. QED
    BY <2>1, <2>2, <2>3
<1>7. Route(mirrored) # Route(routed)
  <2>1. /\ Route(routed) = IF 7 \in byte THEN "REMOTE" ELSE "LOCAL"
        /\ Route(mirrored) = IF 7 \in PlaneMirror(byte) THEN "REMOTE" ELSE "LOCAL"
    BY <1>4, <1>5, SelectorBits
  <2>2. 7 \in PlaneMirror(byte) <=> 7 \notin byte
    BY DEF PlaneMirror, Xor
  <2>. QED
    BY <2>1, <2>2
<1>. QED
  BY <1>2, <1>3, <1>4, <1>6, <1>7

\* omi_reverse_route and omi_forward_map_quadrant agree with OMI_SELECTOR_TABLE on
\* every address, whatever word of whatever width it is the low half of.
THEOREM CellRouterLawful == CellSpec => []RouterLawful
<1>1. RouterLawful
  BY QuadrantDecodes, CornersRouted DEF RouterLawful
<1>. QED
  BY <1>1, PTL
=============================================================================
