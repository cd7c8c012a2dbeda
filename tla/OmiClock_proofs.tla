---------------------------- MODULE OmiClock_proofs ----------------------------
(***************************************************************************)
(* The clock law of section 11 returns to where it started after eight      *)
(* ticks, from every state and for every constant; the replay of a peer     *)
(* from its seed, the meaning of the exact comparison and the drift it      *)
(* shows follow, and with them what the packets of the gossip tell.         *)
(*                                                                         *)
(* The law is affine over the two-element field: three rotations and a      *)
(* constant.  Applying such a map twice doubles the three rotations (the    *)
(* mixed terms cancel in pairs), so the 1, 3, 14 of the law become 2, 6, 12 *)
(* after two ticks, 4, 12, 8 after four and 8, 8, 0 after eight, where two  *)
(* rotations cancel and the third is none; what has gathered in the         *)
(* constant by then is zero.                                                *)
(***************************************************************************)
EXTENDS Gossip, Words_proofs, FiniteSetTheorems

\* Bit i of the exclusive or of three rotations of x and a constant.
Parity(p, q) == (p \/ q) /\ ~(p /\ q)

MixBit(x, a, b, c, d, i) ==
  Parity(Parity(Down(i, a) \in x, Down(i, b) \in x), Parity(Down(i, c) \in x, i \in d))

Mix(x, a, b, c, d) == {i \in Bits : MixBit(x, a, b, c, d, i)}

\* Rotations add up modulo the width of sixteen.
Sum16(a, b) == IF a + b < 16 THEN a + b ELSE a + b - 16

LEMMA DownDown ==
  ASSUME NEW i \in Bits, NEW a \in 0 .. 15, NEW b \in 0 .. 15
  PROVE  Down(i, a) \in Bits /\ Down(Down(i, a), b) = Down(i, Sum16(a, b))
  BY ClockAssumption DEF Down, Bits, Sum16

\* The law of omi_delta_c16 and omi_clock_oscillate as such a mix.
LEMMA DeltaIsMix ==
  ASSUME NEW x \in Word, NEW c \in Word
  PROVE  Delta(x, c) = Mix(x, 1, 3, 14, c) /\ Delta(x, c) \in Word
<1>1. \A i \in Bits : Up(i, 2) = Down(i, 14)
  BY ClockAssumption DEF Up, Down, Bits
<1>2. 1 \in Shift /\ 2 \in Shift /\ 3 \in Shift
  BY ClockAssumption DEF Shift
<1>3. /\ Rotl(x, 1) \in Word /\ Rotl(x, 3) \in Word /\ Rotr(x, 2) \in Word
      /\ \A i \in Bits : /\ i \in Rotl(x, 1) <=> Down(i, 1) \in x
                         /\ i \in Rotl(x, 3) <=> Down(i, 3) \in x
                         /\ i \in Rotr(x, 2) <=> Down(i, 14) \in x
  BY <1>1, <1>2, RotlBit, RotrBit
<1>4. Delta(x, c) \in Word
  BY <1>3 DEF Delta, Xor, Word
<1>5. \A i \in Bits : i \in Delta(x, c) <=> MixBit(x, 1, 3, 14, c, i)
  BY <1>3 DEF Delta, Xor, MixBit, Parity
<1>. QED
  BY <1>4, <1>5 DEF Mix, Word

\* Applying a mix twice doubles its rotations.
MixDoubles(x, a, b, c, d) ==
  Mix(Mix(x, a, b, c, d), a, b, c, d)
    = Mix(x, Sum16(a, a), Sum16(b, b), Sum16(c, c), Mix(d, a, b, c, d))

LEMMA MixTwice ==
  ASSUME NEW x \in Word, NEW d \in Word,
         NEW a \in 0 .. 15, NEW b \in 0 .. 15, NEW c \in 0 .. 15
  PROVE  MixDoubles(x, a, b, c, d)
<1>. DEFINE m == Mix(x, a, b, c, d)
            e == Mix(d, a, b, c, d)
<1>1. m \in Word
  BY DEF Mix, Word
<1>2. Sum16(a, b) = Sum16(b, a) /\ Sum16(a, c) = Sum16(c, a) /\ Sum16(b, c) = Sum16(c, b)
  BY DEF Sum16
<1>3. ASSUME NEW i \in Bits
      PROVE  MixBit(m, a, b, c, d, i)
               <=> MixBit(x, Sum16(a, a), Sum16(b, b), Sum16(c, c), e, i)
  <2>1. /\ Down(i, a) \in m <=> MixBit(x, a, b, c, d, Down(i, a))
        /\ Down(i, b) \in m <=> MixBit(x, a, b, c, d, Down(i, b))
        /\ Down(i, c) \in m <=> MixBit(x, a, b, c, d, Down(i, c))
        /\ i \in e <=> MixBit(d, a, b, c, d, i)
    BY DownDown DEF Mix
  <2>2. /\ Down(Down(i, a), a) = Down(i, Sum16(a, a))
        /\ Down(Down(i, b), b) = Down(i, Sum16(b, b))
        /\ Down(Down(i, c), c) = Down(i, Sum16(c, c))
        /\ Down(Down(i, a), b) = Down(Down(i, b), a)
        /\ Down(Down(i, a), c) = Down(Down(i, c), a)
        /\ Down(Down(i, b), c) = Down(Down(i, c), b)
    <3>1. \A p, q \in 0 .. 15 : Down(Down(i, p), q) = Down(i, Sum16(p, q))
      BY DownDown
    <3>. QED
      BY <1>2, <3>1
  <2>. HIDE DEF m, e
  <2>. QED
    BY <2>1, <2>2 DEF MixBit, Parity
<1>. QED
  BY <1>1, <1>3 DEF MixDoubles, Mix

\* After four doublings' worth of ticks the constant has cancelled: a word mixed
\* with its rotations by 2, 6 and 12, then by 4, 12 and 8, is zero.
LEMMA ConstantCancels ==
  ASSUME NEW d \in Word
  PROVE  LET e == Mix(d, 2, 6, 12, d) IN Mix(e, 4, 12, 8, e) = {}
<1>. DEFINE e == Mix(d, 2, 6, 12, d)
<1>1. ASSUME NEW i \in Bits PROVE ~MixBit(e, 4, 12, 8, e, i)
  <2>. DEFINE B(k) == Down(i, k) \in d
  <2>1. \A k \in 0 .. 15 :
          Down(i, k) \in e <=>
            Parity(Parity(B(Sum16(k, 2)), B(Sum16(k, 6))),
                   Parity(B(Sum16(k, 12)), B(k)))
    <3>. SUFFICES ASSUME NEW k \in 0 .. 15
                  PROVE  Down(i, k) \in e <=>
                           Parity(Parity(B(Sum16(k, 2)), B(Sum16(k, 6))),
                                  Parity(B(Sum16(k, 12)), B(k)))
      OBVIOUS
    <3>1. Down(i, k) \in Bits
      BY DownDown
    <3>2. \A q \in 0 .. 15 : Down(Down(i, k), q) = Down(i, Sum16(k, q))
      BY DownDown
    <3>. QED
      BY <3>1, <3>2 DEF Mix, MixBit
  <2>2. i = Down(i, 0)
    BY ClockAssumption DEF Down, Bits
  <2>3. /\ i \in e <=> Parity(Parity(B(2), B(6)), Parity(B(12), B(0)))
        /\ Down(i, 4) \in e <=> Parity(Parity(B(6), B(10)), Parity(B(0), B(4)))
        /\ Down(i, 8) \in e <=> Parity(Parity(B(10), B(14)), Parity(B(4), B(8)))
        /\ Down(i, 12) \in e <=> Parity(Parity(B(14), B(2)), Parity(B(8), B(12)))
    BY <2>1, <2>2 DEF Sum16
  <2>. HIDE DEF B, e
  <2>. QED
    BY <2>3 DEF MixBit, Parity
<1>. QED
  BY <1>1 DEF Mix

\* Eight applications of the delta law are the identity on 16-bit words, for
\* every constant: 0x1D1D of the clock and 0x5A3C of delta_C16 among them.
THEOREM DeltaPeriodEight ==
  ASSUME NEW x \in Word, NEW c \in Word
  PROVE  LET D(y) == Delta(y, c) IN D(D(D(D(D(D(D(D(x)))))))) = x
<1>. DEFINE D(y) == Delta(y, c)
            c2 == Mix(c, 1, 3, 14, c)
            c4 == Mix(c2, 2, 6, 12, c2)
<1>1. c2 \in Word /\ c4 \in Word
  BY DEF Mix, Word
<1>2. \A y \in Word : D(y) \in Word /\ D(y) = Mix(y, 1, 3, 14, c)
  BY DeltaIsMix
<1>3. \A y \in Word : D(D(y)) = Mix(y, 2, 6, 12, c2)
  <2>1. Sum16(1, 1) = 2 /\ Sum16(3, 3) = 6 /\ Sum16(14, 14) = 12
    BY DEF Sum16
  <2>2. \A y \in Word : MixDoubles(y, 1, 3, 14, c)
    BY MixTwice, 1 \in 0 .. 15, 3 \in 0 .. 15, 14 \in 0 .. 15
  <2>3. \A y \in Word : Mix(Mix(y, 1, 3, 14, c), 1, 3, 14, c) = Mix(y, 2, 6, 12, c2)
    BY <2>1, <2>2 DEF MixDoubles
  <2>. QED
    BY <1>2, <2>3
<1>4. \A y \in Word : D(D(D(D(y)))) = Mix(y, 4, 12, 8, c4)
  <2>1. Sum16(2, 2) = 4 /\ Sum16(6, 6) = 12 /\ Sum16(12, 12) = 8
    BY DEF Sum16
  <2>2. \A y \in Word : MixDoubles(y, 2, 6, 12, c2)
    BY <1>1, MixTwice, 2 \in 0 .. 15, 6 \in 0 .. 15, 12 \in 0 .. 15
  <2>3. \A y \in Word : Mix(Mix(y, 2, 6, 12, c2), 2, 6, 12, c2) = Mix(y, 4, 12, 8, c4)
    BY <2>1, <2>2 DEF MixDoubles
  <2>. QED
    BY <1>2, <1>3, <2>3
<1>5. \A y \in Word : D(D(D(D(D(D(D(D(y)))))))) = Mix(y, 8, 8, 0, {})
  <2>1. Sum16(4, 4) = 8 /\ Sum16(12, 12) = 8 /\ Sum16(8, 8) = 0
    BY DEF Sum16
  <2>2. Mix(c4, 4, 12, 8, c4) = {}
    BY <1>1, ConstantCancels
  <2>3. \A y \in Word : MixDoubles(y, 4, 12, 8, c4)
    BY <1>1, MixTwice, 4 \in 0 .. 15, 12 \in 0 .. 15, 8 \in 0 .. 15
  <2>4. \A y \in Word : Mix(Mix(y, 4, 12, 8, c4), 4, 12, 8, c4) = Mix(y, 8, 8, 0, {})
    BY <2>1, <2>2, <2>3 DEF MixDoubles
  <2>5. \A y \in Word : D(D(D(D(y)))) \in Word
    BY <1>2
  <2>. QED
    BY <1>4, <2>4, <2>5
<1>6. Mix(x, 8, 8, 0, {}) = x
  <2>1. \A i \in Bits : Down(i, 0) = i
    BY ClockAssumption DEF Down, Bits
  <2>2. \A i \in Bits : MixBit(x, 8, 8, 0, {}, i) <=> i \in x
    BY <2>1 DEF MixBit, Parity
  <2>. QED
    BY <2>2 DEF Mix, Word
<1>. QED
  BY <1>5, <1>6

-----------------------------------------------------------------------------
(* The peers *)

LEMMA OscillateWord ==
  ASSUME NEW x \in Word
  PROVE  Oscillate(x) \in Word
<1>1. WordOf(7453) \in Word
  BY DEF WordOf, Word
<1>. QED
  BY <1>1, DeltaIsMix DEF Oscillate

\* After(n, x) for n in 0 .. 7 as steps of one another.
LEMMA AfterSteps ==
  ASSUME NEW x \in Word
  PROVE  /\ After(0, x) = x
         /\ \A n \in 0 .. 7 : After(n, x) \in Word
         /\ \A n \in 0 .. 6 : After(n + 1, x) = Oscillate(After(n, x))
         /\ Oscillate(After(7, x)) = x
<1>. DEFINE walks(f) == f = [k \in 0 .. 7 |-> IF k = 0 THEN x ELSE Oscillate(f[k - 1])]
            x1 == Oscillate(x)
            x2 == Oscillate(x1)
            x3 == Oscillate(x2)
            x4 == Oscillate(x3)
            x5 == Oscillate(x4)
            x6 == Oscillate(x5)
            x7 == Oscillate(x6)
            state8 == <<x, x1, x2, x3, x4, x5, x6, x7>>
            walk == CHOOSE f : walks(f)
<1>1. walks(walk)
  <2>1. walks([k \in 0 .. 7 |-> state8[k + 1]])
    OBVIOUS
  <2>. QED
    BY <2>1, Zenon
<1>2. /\ \A n \in 0 .. 6 : After(n + 1, x) = Oscillate(After(n, x))
      /\ After(0, x) = x
  <2>1. \A n \in 0 .. 7 : After(n, x) = walk[n]
    BY DEF After
  <2>. HIDE DEF walk
  <2>2. \A n \in 0 .. 7 : walk[n] = IF n = 0 THEN x ELSE Oscillate(walk[n - 1])
    BY <1>1
  <2>. QED
    BY <2>1, <2>2
<1>. HIDE DEF x1, x2, x3, x4, x5, x6, x7, walk
<1>3. /\ After(1, x) = x1 /\ After(2, x) = x2 /\ After(3, x) = x3 /\ After(4, x) = x4
      /\ After(5, x) = x5 /\ After(6, x) = x6 /\ After(7, x) = x7
  BY <1>2, SMTT(30) DEF x1, x2, x3, x4, x5, x6, x7
<1>4. \A n \in 0 .. 7 : After(n, x) \in Word
  <2>1. /\ x1 \in Word /\ x2 \in Word /\ x3 \in Word /\ x4 \in Word
        /\ x5 \in Word /\ x6 \in Word /\ x7 \in Word
    BY OscillateWord DEF x1, x2, x3, x4, x5, x6, x7
  <2>. QED
    BY <1>2, <1>3, <2>1
<1>5. Oscillate(After(7, x)) = x
  <2>1. WordOf(7453) \in Word
    BY DEF WordOf, Word
  <2>. DEFINE D(y) == Delta(y, WordOf(7453))
  <2>2. D(D(D(D(D(D(D(D(x)))))))) = x
    BY <2>1, DeltaPeriodEight
  <2>. QED
    BY <1>3, <2>2 DEF Oscillate, x1, x2, x3, x4, x5, x6, x7
<1>. QED
  BY <1>2, <1>4, <1>5

\* No two seeds lead to one state in the same number of steps.
LEMMA AfterInjective ==
  ASSUME NEW x \in Word, NEW y \in Word, NEW n \in 0 .. 7, After(n, x) = After(n, y)
  PROVE  x = y
<1>1. After(7, x) = After(7, y)
  <2>1. \A k \in 0 .. 6 : After(k, x) = After(k, y) => After(k + 1, x) = After(k + 1, y)
    BY AfterSteps
  <2>. QED
    BY <2>1
<1>. QED
  BY <1>1, AfterSteps

\* The step count wraps at a multiple of eight.
LEMMA StepWrap ==
  ASSUME NEW s \in 0 .. StepModulus - 1
  PROVE  /\ (s + 1) % StepModulus \in 0 .. StepModulus - 1
         /\ ((s + 1) % StepModulus) % 8 = IF s % 8 = 7 THEN 0 ELSE (s % 8) + 1
<1>1. (s + 1) % StepModulus = IF s + 1 < StepModulus THEN s + 1 ELSE 0
  BY StepAssumption
<1>. QED
  BY <1>1, StepAssumption

ClockInv ==
  /\ TypeOK
  /\ Replay

LEMMA ClockInitInv == Init => ClockInv
<1>. SUFFICES ASSUME Init PROVE ClockInv
  OBVIOUS
<1>1. TypeOK
  BY SeedAssumption, StepAssumption DEF Init, TypeOK
<1>2. Replay
  BY <1>1, AfterSteps, SeedAssumption DEF Init, Replay, TypeOK
<1>. QED
  BY <1>1, <1>2 DEF Init, ClockInv

LEMMA ClockStepInv == ClockInv /\ [Next]_vars => ClockInv'
<1>. SUFFICES ASSUME ClockInv, [Next]_vars PROVE ClockInv'
  OBVIOUS
<1>. USE DEF ClockInv
<1>1. ASSUME NEW p \in Peer, Tick(p) PROVE ClockInv'
  <2>1. TypeOK'
    BY <1>1, OscillateWord, StepWrap DEF Tick, MakeClock, TypeOK
  <2>2. state'[p] = After(steps'[p] % 8, seed[p])
    <3>1. seed[p] \in Word /\ steps[p] \in 0 .. StepModulus - 1
      BY SeedAssumption DEF TypeOK
    <3>2. state'[p] = Oscillate(After(steps[p] % 8, seed[p]))
      BY <1>1 DEF Tick, MakeClock, TypeOK, Replay
    <3>3. steps'[p] % 8 = IF steps[p] % 8 = 7 THEN 0 ELSE (steps[p] % 8) + 1
      BY <1>1, <3>1, StepWrap DEF Tick, TypeOK
    <3>4. steps[p] % 8 \in 0 .. 7
      BY <3>1, StepAssumption
    <3>. QED
      BY <3>1, <3>2, <3>3, <3>4, AfterSteps
  <2>3. Replay'
    BY <1>1, <2>2 DEF Tick, MakeClock, TypeOK, Replay
  <2>. QED
    BY <2>1, <2>3
<1>2. ASSUME NEW p \in Peer, NEW x \in Seed, Restart(p, x) PROVE ClockInv'
  <2>1. TypeOK'
    BY <1>2, SeedAssumption, StepAssumption DEF Restart, MakeClock, TypeOK
  <2>2. Replay'
    BY <1>2, SeedAssumption, AfterSteps DEF Restart, MakeClock, TypeOK, Replay
  <2>. QED
    BY <2>1, <2>2
<1>3. ASSUME Reorient PROVE ClockInv'
  BY <1>3 DEF Reorient, TypeOK, Replay
<1>4. ASSUME UNCHANGED vars PROVE ClockInv'
  BY <1>4 DEF vars, TypeOK, Replay
<1>. QED
  BY <1>1, <1>2, <1>3, <1>4 DEF Next

\* Each peer's clock is what its seed and its step count say, in every reachable state.
THEOREM ClockInvariance == Spec => []ClockInv
  BY ClockInitInv, ClockStepInv, PTL DEF Spec

\* omi_clock_sync_peer_t: after any number of ticks and restarts, wrapping
\* included, a peer's state is the law applied to its seed steps % 8 times.
THEOREM ClockReplay == Spec => [](TypeOK /\ Replay)
<1>1. ClockInv => TypeOK /\ Replay
  BY DEF ClockInv
<1>. QED
  BY <1>1, ClockInvariance, PTL

\* omi_clock_sync_check_resolved: at equal step counts it answers exactly
\* whether the peers share a seed, for every set of seeds and peers.
THEOREM ClockLockstepFaithful == Spec => []LockstepFaithful
<1>1. ClockInv => LockstepFaithful
  <2>. SUFFICES ASSUME ClockInv, NEW p \in Peer, NEW r \in Peer, steps[p] = steps[r]
                PROVE  InSync(p, r) <=> seed[p] = seed[r]
    BY DEF LockstepFaithful
  <2>1. /\ state[p] \in Word /\ state[r] \in Word
        /\ seed[p] \in Word /\ seed[r] \in Word
        /\ steps[p] % 8 \in 0 .. 7
    BY SeedAssumption, StepAssumption DEF ClockInv, TypeOK
  <2>2. InSync(p, r) <=> state[p] = state[r]
    BY <2>1, XorLaws DEF InSync, CentroidResolution, CentroidState
  <2>3. state[p] = state[r] <=> seed[p] = seed[r]
    BY <2>1, AfterInjective DEF ClockInv, Replay
  <2>. QED
    BY <2>2, <2>3
<1>. QED
  BY <1>1, ClockInvariance, PTL

-----------------------------------------------------------------------------
(* Drift: the ticks that bring a state back *)

\* A walk round eight places on which equal places have equal successors: places equal
\* to each other are as far apart as places equal to the start.
LEMMA RoundShift ==
  ASSUME NEW f, \A i, j \in 0 .. 7 : f[i] = f[j] => f[(i + 1) % 8] = f[(j + 1) % 8]
  PROVE  \A i, j, k \in 0 .. 7 : f[i] = f[j] => f[(i + k) % 8] = f[(j + k) % 8]
<1>. DEFINE S(k) == \A i, j \in 0 .. 7 : f[i] = f[j] => f[(i + k) % 8] = f[(j + k) % 8]
<1>1. S(0)
  <2>1. \A i \in 0 .. 7 : (i + 0) % 8 = i
    OBVIOUS
  <2>. QED
    BY <2>1
<1>2. ASSUME NEW k \in 0 .. 6, S(k) PROVE S(k + 1)
  <2>1. \A i \in 0 .. 7 : (i + k) % 8 \in 0 .. 7 /\ (((i + k) % 8) + 1) % 8 = (i + (k + 1)) % 8
    OBVIOUS
  <2>2. ASSUME NEW i \in 0 .. 7, NEW j \in 0 .. 7, f[i] = f[j]
        PROVE  f[(i + (k + 1)) % 8] = f[(j + (k + 1)) % 8]
    <3>1. f[(i + k) % 8] = f[(j + k) % 8]
      BY <1>2, <2>2
    <3>2. f[(((i + k) % 8) + 1) % 8] = f[(((j + k) % 8) + 1) % 8]
      BY <2>1, <3>1
    <3>. QED
      BY <2>1, <3>2
  <2>. QED
    BY <2>2
<1>. HIDE DEF S
<1>3. S(1) /\ S(2) /\ S(3) /\ S(4) /\ S(5) /\ S(6) /\ S(7)
  <2>1. S(0 + 1)
    BY <1>1, <1>2
  <2>2. S(1 + 1)
    BY <2>1, <1>2
  <2>3. S(2 + 1)
    BY <2>2, <1>2
  <2>4. S(3 + 1)
    BY <2>3, <1>2
  <2>5. S(4 + 1)
    BY <2>4, <1>2
  <2>6. S(5 + 1)
    BY <2>5, <1>2
  <2>7. S(6 + 1)
    BY <2>6, <1>2
  <2>. QED
    BY <2>1, <2>2, <2>3, <2>4, <2>5, <2>6, <2>7
<1>4. \A k \in 0 .. 7 : S(k)
  BY <1>1, <1>3
<1>. QED
  BY <1>4 DEF S

LEMMA RoundDifference ==
  ASSUME NEW f, \A i, j \in 0 .. 7 : f[i] = f[j] => f[(i + 1) % 8] = f[(j + 1) % 8],
         NEW a \in 0 .. 7, NEW b \in 0 .. 7
  PROVE  f[a] = f[b] <=> f[(a - b) % 8] = f[0]
<1>1. \A i, j, k \in 0 .. 7 : f[i] = f[j] => f[(i + k) % 8] = f[(j + k) % 8]
  BY RoundShift
<1>2. ASSUME f[a] = f[b] PROVE f[(a - b) % 8] = f[0]
  <2>1. PICK k \in 0 .. 7 : (b + k) % 8 = 0 /\ (a + k) % 8 = (a - b) % 8
    <3>1. (b + ((8 - b) % 8)) % 8 = 0 /\ (a + ((8 - b) % 8)) % 8 = (a - b) % 8
          /\ (8 - b) % 8 \in 0 .. 7
      OBVIOUS
    <3>. QED
      BY <3>1
  <2>2. f[(a + k) % 8] = f[(b + k) % 8]
    BY <1>1, <1>2
  <2>. QED
    BY <2>1, <2>2
<1>3. ASSUME f[(a - b) % 8] = f[0] PROVE f[a] = f[b]
  <2>1. (a - b) % 8 \in 0 .. 7 /\ (((a - b) % 8) + b) % 8 = a /\ (0 + b) % 8 = b
    OBVIOUS
  <2>2. f[(((a - b) % 8) + b) % 8] = f[(0 + b) % 8]
    BY <1>1, <1>3, <2>1
  <2>. QED
    BY <2>1, <2>2
<1>. QED
  BY <1>2, <1>3

\* The places equal to the start are the multiples of the first of 1, 2, 4 and 8 that is.
LEMMA RoundCycle ==
  ASSUME NEW f, \A i, j \in 0 .. 7 : f[i] = f[j] => f[(i + 1) % 8] = f[(j + 1) % 8],
         NEW c \in {1, 2, 4, 8}, c < 8 => f[c] = f[0],
         \A m \in {1, 2, 4} : m < c => f[m] # f[0], NEW d \in 0 .. 7
  PROVE  f[d] = f[0] <=> d % c = 0
<1>1. \A i, j \in 0 .. 7 : f[i] = f[j] <=> f[(i - j) % 8] = f[0]
  BY RoundDifference
<1>2. \A i, j \in 0 .. 7 : f[i] = f[0] /\ f[j] = f[0] => f[(i - j) % 8] = f[0]
  BY <1>1
<1>. DEFINE Z(i) == f[i] = f[0]
<1>3. Z(0) /\ \A i, j \in 0 .. 7 : Z(i) /\ Z(j) => Z((i - j) % 8)
  BY <1>2
<1>. HIDE DEF Z
<1>4. \A i \in 1 .. 7 : Z(i) => Z(8 - i)
  <2>. SUFFICES ASSUME NEW i \in 1 .. 7, Z(i) PROVE Z(8 - i)
    OBVIOUS
  <2>. DEFINE o == 0
  <2>1. o \in 0 .. 7 /\ i \in 0 .. 7 /\ (o - i) % 8 = 8 - i /\ Z(o)
    BY <1>3
  <2>. HIDE DEF o
  <2>2. Z((o - i) % 8)
    BY <1>3, <2>1
  <2>. QED
    BY <2>1, <2>2
<1>5. CASE c = 1
  <2>1. Z(1)
    BY <1>5 DEF Z
  <2>2. Z(7)
    BY <1>4, <2>1
  <2>3. Z(6)
    BY <1>3, <2>1, <2>2
  <2>4. Z(5)
    BY <1>3, <2>1, <2>3
  <2>5. Z(4)
    BY <1>3, <2>1, <2>4
  <2>6. Z(3)
    BY <1>3, <2>1, <2>5
  <2>7. Z(2)
    BY <1>3, <2>1, <2>6
  <2>8. \A i \in 0 .. 7 : Z(i)
    BY <1>3, <2>1, <2>2, <2>3, <2>4, <2>5, <2>6, <2>7
  <2>9. d % 1 = 0
    OBVIOUS
  <2>. QED
    BY <1>5, <2>8, <2>9 DEF Z
<1>6. CASE c = 2
  <2>1. Z(2) /\ ~Z(1)
    BY <1>6 DEF Z
  <2>2. Z(6)
    BY <1>4, <2>1
  <2>3. Z(4)
    BY <1>3, <2>1, <2>2
  <2>4. ~Z(3)
    BY <1>3, <2>1
  <2>5. ~Z(5)
    BY <1>3, <2>1, <2>3
  <2>6. ~Z(7)
    BY <1>3, <2>1, <2>2
  <2>7. \A i \in 0 .. 7 : Z(i) <=> i % 2 = 0
    BY <1>3, <2>1, <2>2, <2>3, <2>4, <2>5, <2>6
  <2>. QED
    BY <1>6, <2>7 DEF Z
<1>7. CASE c = 4
  <2>1. Z(4) /\ ~Z(1) /\ ~Z(2)
    BY <1>7 DEF Z
  <2>2. ~Z(3)
    BY <1>3, <2>1
  <2>3. ~Z(5)
    BY <1>3, <2>1
  <2>4. ~Z(6)
    BY <1>3, <2>1
  <2>5. ~Z(7)
    BY <1>4, <2>1
  <2>6. \A i \in 0 .. 7 : Z(i) <=> i % 4 = 0
    BY <1>3, <2>1, <2>2, <2>3, <2>4, <2>5
  <2>. QED
    BY <1>7, <2>6 DEF Z
<1>8. CASE c = 8
  <2>1. ~Z(1) /\ ~Z(2) /\ ~Z(4)
    BY <1>8 DEF Z
  <2>2. ~Z(7) /\ ~Z(6)
    BY <1>4, <2>1
  <2>3. ~ (Z(3) /\ Z(5))
    BY <1>3, <2>1
  <2>4. (Z(3) => Z(5)) /\ (Z(5) => Z(3))
    BY <1>4
  <2>5. \A i \in 0 .. 7 : Z(i) <=> i % 8 = 0
    BY <1>3, <2>1, <2>2, <2>3, <2>4
  <2>. QED
    BY <1>8, <2>5 DEF Z
<1>. QED
  BY <1>5, <1>6, <1>7, <1>8

\* The clock from a seed is such a walk, and its cycle the first of 1, 2, 4 and 8 ticks
\* that brings the seed back.
LEMMA CycleKnown ==
  ASSUME NEW x \in Word, NEW a \in 0 .. 7, NEW b \in 0 .. 7
  PROVE  /\ Cycle(x) \in {1, 2, 4, 8}
         /\ After(a, x) = After(b, x) <=> ((a - b) % 8) % Cycle(x) = 0
<1>. DEFINE f == [n \in 0 .. 7 |-> After(n, x)]
            Good(n) == /\ n < 8 => After(n, x) = x
                       /\ \A m \in {1, 2, 4} : m < n => After(m, x) # x
<1>1. After(0, x) = x
  BY AfterSteps
<1>2. \A i, j \in 0 .. 7 : f[i] = f[j] => f[(i + 1) % 8] = f[(j + 1) % 8]
  <2>1. \A i \in 0 .. 7 : f[(i + 1) % 8] = Oscillate(f[i])
    <3>. SUFFICES ASSUME NEW i \in 0 .. 7 PROVE f[(i + 1) % 8] = Oscillate(f[i])
      OBVIOUS
    <3>1. CASE i = 7
      BY <3>1, AfterSteps
    <3>2. CASE i \in 0 .. 6
      <4>1. (i + 1) % 8 = i + 1 /\ i + 1 \in 0 .. 7
        BY <3>2
      <4>2. f[i + 1] = After(i + 1, x) /\ f[i] = After(i, x)
        BY <4>1
      <4>. QED
        BY <3>2, <4>1, <4>2, AfterSteps
    <3>. QED
      BY <3>1, <3>2
  <2>. QED
    BY <2>1
<1>3. Cycle(x) \in {1, 2, 4, 8} /\ Good(Cycle(x))
  <2>1. \E n \in {1, 2, 4, 8} : Good(n)
    <3>1. CASE After(1, x) = x
      <4>1. Good(1)
        BY <3>1
      <4>. QED
        BY <4>1
    <3>2. CASE After(1, x) # x /\ After(2, x) = x
      <4>1. Good(2)
        BY <3>2
      <4>. QED
        BY <4>1
    <3>3. CASE After(1, x) # x /\ After(2, x) # x /\ After(4, x) = x
      <4>1. Good(4)
        BY <3>3
      <4>. QED
        BY <4>1
    <3>4. CASE After(1, x) # x /\ After(2, x) # x /\ After(4, x) # x
      <4>1. Good(8)
        BY <3>4
      <4>. QED
        BY <4>1
    <3>. QED
      BY <3>1, <3>2, <3>3, <3>4
  <2>2. Cycle(x) = CHOOSE n \in {1, 2, 4, 8} : Good(n)
    BY DEF Cycle
  <2>. HIDE DEF Good
  <2>. QED
    BY <2>1, <2>2
<1>4. \A n \in 0 .. 7 : f[n] = After(n, x)
  OBVIOUS
<1>. HIDE DEF f
<1>5. /\ Cycle(x) < 8 => f[Cycle(x)] = f[0]
      /\ \A m \in {1, 2, 4} : m < Cycle(x) => f[m] # f[0]
  BY <1>1, <1>3, <1>4
<1>6. (a - b) % 8 \in 0 .. 7
  OBVIOUS
<1>7. f[(a - b) % 8] = f[0] <=> ((a - b) % 8) % Cycle(x) = 0
  BY <1>2, <1>3, <1>5, <1>6, RoundCycle
<1>8. f[a] = f[b] <=> f[(a - b) % 8] = f[0]
  BY <1>2, RoundDifference
<1>. QED
  BY <1>3, <1>4, <1>7, <1>8

\* Step counts are as far apart as their places in the walk, whatever the cycle.
LEMMA DriftOfSteps ==
  ASSUME NEW s \in Nat, NEW t \in Nat, NEW c \in {1, 2, 4, 8}
  PROVE  /\ s % 8 \in 0 .. 7
         /\ (s - t) % c = (((s % 8) - (t % 8)) % 8) % c
<1>1. CASE c = 1
  BY <1>1
<1>2. CASE c = 2
  BY <1>2
<1>3. CASE c = 4
  BY <1>3
<1>4. CASE c = 8
  BY <1>4
<1>. QED
  BY <1>1, <1>2, <1>3, <1>4

\* omi_clock_sync_check_resolved, for every seed: two peers of one seed are reported in
\* sync exactly when they are a multiple of that seed's cycle apart, wrapped counts
\* included.
THEOREM ClockDriftVisible == Spec => []DriftVisible
<1>1. ClockInv => DriftVisible
  <2>. SUFFICES ASSUME ClockInv, NEW p \in Peer, NEW r \in Peer, seed[p] = seed[r]
                PROVE  InSync(p, r) <=> (steps[p] - steps[r]) % Cycle(seed[p]) = 0
    BY DEF DriftVisible
  <2>1. /\ state[p] \in Word /\ state[r] \in Word /\ seed[p] \in Word
        /\ steps[p] \in Nat /\ steps[r] \in Nat
    BY SeedAssumption, StepAssumption DEF ClockInv, TypeOK
  <2>2. InSync(p, r) <=> state[p] = state[r]
    BY <2>1, XorLaws DEF InSync, CentroidResolution, CentroidState
  <2>3. state[p] = After(steps[p] % 8, seed[p]) /\ state[r] = After(steps[r] % 8, seed[p])
    BY DEF ClockInv, Replay
  <2>4. steps[p] % 8 \in 0 .. 7 /\ steps[r] % 8 \in 0 .. 7 /\ Cycle(seed[p]) \in {1, 2, 4, 8}
    BY <2>1, DriftOfSteps, CycleKnown
  <2>5. state[p] = state[r]
          <=> (((steps[p] % 8) - (steps[r] % 8)) % 8) % Cycle(seed[p]) = 0
    BY <2>1, <2>3, <2>4, CycleKnown
  <2>6. (steps[p] - steps[r]) % Cycle(seed[p])
          = (((steps[p] % 8) - (steps[r] % 8)) % 8) % Cycle(seed[p])
    BY <2>1, <2>4, DriftOfSteps
  <2>. QED
    BY <2>2, <2>5, <2>6
<1>. QED
  BY <1>1, ClockInvariance, PTL

-----------------------------------------------------------------------------
(***************************************************************************)
(* The gossip between the peers.  Every frame shows the clock of its source *)
(* as the law gives it from the seed and the step count the frame carries,  *)
(* for as long as it is under way.  As the law merges no two seeds, equal   *)
(* step counts then make equal clocks and equal seeds the same thing.       *)
(***************************************************************************)

\* A packet shows what its source had reached when it was packed.
Stamped(packet) == packet.at = After(packet.step % 8, packet.seed)

GossipInv ==
  /\ ClockInv
  /\ \A n \in Peer : steps[n] <= MaxStep
  /\ wire \subseteq Packet /\ IsFiniteSet(wire) /\ Cardinality(wire) <= MaxWire
  /\ \A packet \in wire : Stamped(packet)
  /\ out \in [Peer -> Packet \cup {None}]
  /\ \A n \in Peer : out[n] # None => out[n].step <= steps[n]

LEMMA GossipInitInv == GossipInit => GossipInv
<1>. SUFFICES ASSUME GossipInit PROVE GossipInv
  OBVIOUS
<1>1. ClockInv
  BY ClockInitInv DEF GossipInit
<1>2. \A n \in Peer : steps[n] <= MaxStep
  BY GossipAssumption DEF GossipInit, Init
<1>3. IsFiniteSet(wire) /\ Cardinality(wire) = 0
  BY FS_EmptySet DEF GossipInit
<1>. QED
  BY <1>1, <1>2, <1>3, GossipAssumption DEF GossipInit, GossipInv

\* The packet a node packs is well formed and stamped.
LEMMA PacketStamped ==
  ASSUME GossipInv, NEW n \in Peer
  PROVE  PacketOf(n) \in Packet /\ Stamped(PacketOf(n))
<1>1. steps[n] \in 0 .. MaxStep
  BY StepAssumption, GossipAssumption DEF GossipInv, ClockInv, TypeOK
<1>2. state[n] = After(steps[n] % 8, seed[n])
  BY DEF GossipInv, ClockInv, Replay
<1>. QED
  BY <1>1, <1>2 DEF GossipInv, ClockInv, TypeOK, PacketOf, Packet, Stamped

\* Frames that get fewer stay finitely many and within the bound.
LEMMA FewerFrames ==
  ASSUME GossipInv, NEW w \in SUBSET wire
  PROVE  IsFiniteSet(w) /\ Cardinality(w) <= MaxWire
<1>1. IsFiniteSet(wire) /\ Cardinality(wire) \in Nat
  BY FS_CardinalityType DEF GossipInv
<1>2. IsFiniteSet(w) /\ Cardinality(w) \in Nat /\ Cardinality(w) <= Cardinality(wire)
  BY <1>1, FS_Subset, FS_CardinalityType
<1>. QED
  BY <1>1, <1>2, GossipAssumption DEF GossipInv

LEMMA GossipStepInv == GossipInv /\ [GossipNext]_gossipvars => GossipInv'
<1>. SUFFICES ASSUME GossipInv, [GossipNext]_gossipvars PROVE GossipInv'
  OBVIOUS
<1>1. ASSUME UNCHANGED vars
      PROVE  ClockInv' /\ \A n \in Peer : steps'[n] <= MaxStep
  BY <1>1, ClockStepInv DEF GossipInv, vars
<1>2. ASSUME NEW n \in Peer, Send(n) PROVE GossipInv'
  <2>1. IsFiniteSet(wire \cup {PacketOf(n)})
    BY FS_AddElement DEF GossipInv
  <2>. QED
    BY <1>1, <1>2, <2>1, PacketStamped DEF Send, GossipInv, vars, Stamped
<1>3. ASSUME NEW packet \in wire, Lose(packet) PROVE GossipInv'
  BY <1>1, <1>3, FewerFrames DEF Lose, GossipInv, vars, Stamped
<1>4. ASSUME NEW n \in Peer, NEW packet \in wire, Deliver(n, packet) PROVE GossipInv'
  <2>1. wire' \in SUBSET wire
    BY <1>4 DEF Deliver
  <2>2. out'[n].step <= steps[n] /\ out' = [out EXCEPT ![n] = packet]
    BY <1>4, GossipAssumption DEF Deliver, Accepts, GossipInv, Packet
  <2>. QED
    BY <1>1, <1>4, <2>1, <2>2, FewerFrames DEF Deliver, GossipInv, vars, Stamped
<1>5. ASSUME NEW n \in Peer, NEW packet \in wire, Reject(n, packet) PROVE GossipInv'
  BY <1>1, <1>5, FewerFrames DEF Reject, GossipInv, vars, Stamped
<1>6. ASSUME NEW n \in Peer, NodeTick(n) PROVE GossipInv'
  <2>1. ClockInv'
    BY <1>6, ClockStepInv DEF NodeTick, Next, GossipInv
  <2>2. steps[n] \in Nat /\ steps' = [steps EXCEPT ![n] = steps[n] + 1]
    <3>1. steps[n] \in Nat /\ steps[n] + 1 < StepModulus
      BY <1>6, StepAssumption, GossipAssumption DEF NodeTick, GossipInv, ClockInv, TypeOK
    <3>2. (steps[n] + 1) % StepModulus = steps[n] + 1
      BY <3>1, StepAssumption
    <3>. QED
      BY <1>6, <3>1, <3>2 DEF NodeTick, Tick
  <2>3. \A m \in Peer : steps'[m] <= MaxStep /\ steps[m] <= steps'[m]
    BY <1>6, <2>2, StepAssumption, GossipAssumption
    DEF NodeTick, GossipInv, ClockInv, TypeOK
  <2>4. \A m \in Peer : out[m] # None => out[m].step <= steps'[m]
    BY <2>3, StepAssumption, GossipAssumption, <2>1 DEF GossipInv, Packet, ClockInv, TypeOK
  <2>. QED
    BY <1>6, <2>1, <2>3, <2>4 DEF NodeTick, GossipInv, Stamped
<1>7. ASSUME NEW n \in Peer, NEW x \in Seed, NodeRestart(n, x) PROVE GossipInv'
  <2>1. ClockInv'
    BY <1>7, ClockStepInv DEF NodeRestart, Next, GossipInv
  <2>2. \A m \in Peer : steps'[m] <= MaxStep
    BY <1>7, GossipAssumption DEF NodeRestart, Restart, GossipInv, ClockInv, TypeOK
  <2>. QED
    BY <1>7, <2>1, <2>2 DEF NodeRestart, Restart, GossipInv, ClockInv, TypeOK, Stamped
<1>8. ASSUME UNCHANGED gossipvars PROVE GossipInv'
  BY <1>1, <1>8 DEF gossipvars, GossipInv, vars, Stamped
<1>. QED
  BY <1>2, <1>3, <1>4, <1>5, <1>6, <1>7, <1>8 DEF GossipNext

\* What GossipInv says holds of every reachable state, for any nodes, seeds and
\* bounds.
THEOREM GossipInvariance == GossipSpec => []GossipInv
  BY GossipInitInv, GossipStepInv, PTL DEF GossipSpec

\* Packets, the frames on the wire and the packets of the nodes are well formed.
THEOREM GossipTypes == GossipSpec => []GossipTypeOK
<1>1. GossipInv => GossipTypeOK
  BY DEF GossipInv, GossipTypeOK, ClockInv
<1>. QED
  BY <1>1, GossipInvariance, PTL

\* esp32_gossip_decode_and_verify: at the equal step counts it demands, the
\* clocks of the two nodes agree exactly if their seeds do.
THEOREM GossipCommitInSync == GossipSpec => CommitInSync
<1>1. GossipInv /\ [GossipNext]_gossipvars =>
        [\A n \in Peer :
           out'[n] # out[n] /\ out'[n] # None =>
             (out'[n].at = state[n] <=> out'[n].seed = seed[n])]_gossipvars
  <2>. SUFFICES ASSUME GossipInv, GossipNext,
                       NEW n \in Peer, out'[n] # out[n], out'[n] # None
                PROVE  out'[n].at = state[n] <=> out'[n].seed = seed[n]
    OBVIOUS
  <2>1. PICK packet \in wire : Accepts(n, packet) /\ out'[n] = packet
    BY DEF GossipNext, Send, NodeTick, Lose, Deliver, Reject, NodeRestart, GossipInv
  <2>2. /\ packet.at = After(packet.step % 8, packet.seed)
        /\ state[n] = After(steps[n] % 8, seed[n])
    BY DEF GossipInv, Stamped, ClockInv, Replay
  <2>3. packet.seed \in Word /\ seed[n] \in Word
    BY SeedAssumption DEF GossipInv, Packet, ClockInv, TypeOK
  <2>4. packet.step = steps[n] /\ steps[n] % 8 \in 0 .. 7
    BY <2>1, StepAssumption DEF Accepts, GossipInv, ClockInv, TypeOK
  <2>. QED
    BY <2>1, <2>2, <2>3, <2>4, AfterInjective
<1>. QED
  BY <1>1, GossipInvariance, PTL DEF GossipSpec, CommitInSync

\* A node that is not restarted never goes back to a packet of an earlier step.
THEOREM GossipOutOrdered == GossipSpec => OutOrdered
<1>1. GossipInv /\ [GossipNext]_gossipvars =>
        [\A n \in Peer :
           out[n] # None /\ out'[n] # None => out'[n].step >= out[n].step]_gossipvars
  <2>. SUFFICES ASSUME GossipInv, GossipNext,
                       NEW n \in Peer, out[n] # None, out'[n] # None
                PROVE  out'[n].step >= out[n].step
    OBVIOUS
  <2>1. out[n].step \in Nat /\ out[n].step <= steps[n]
    BY DEF GossipInv, Packet
  <2>2. out'[n] = out[n] \/ out'[n].step = steps[n]
    BY DEF GossipNext, Send, NodeTick, Lose, Deliver, Reject, NodeRestart, Accepts, GossipInv
  <2>. QED
    BY <2>1, <2>2
<1>. QED
  BY <1>1, GossipInvariance, PTL DEF GossipSpec, OutOrdered
=============================================================================
