------------------------------- MODULE OmiClock -------------------------------
(***************************************************************************)
(* The algorithmic clock of src/omnicron-coproduct-partition.c, section 11, *)
(* and the two comparisons of section 11.6 between a User-Local and a       *)
(* User-Remote peer.  Each peer ticks on its own; a peer may be initialised *)
(* again at any moment, which loses its step count.                         *)
(***************************************************************************)
EXTENDS Words, FiniteSets

CONSTANTS
  Peer,           \* the peers
  Seed,           \* the seeds a peer may be initialised with
  StepModulus     \* 2^64: where the uint64_t step_accumulator wraps

ASSUME ClockAssumption == W = 16

ASSUME SeedAssumption == Seed \subseteq Word

ASSUME StepAssumption == StepModulus \in Nat \ {0} /\ StepModulus % 8 = 0

-----------------------------------------------------------------------------
(* 11.1 to 11.4: the law and the projections of a state *)

\* Mutant: the third rotation turns by three places.
DeltaWrongTurn(x, c) == Xor(Xor(Xor(Rotl(x, 1), Rotl(x, 3)), Rotr(x, 3)), c)

\* The delta law of section 8, with its constant as a parameter.
Delta(x, c) == Xor(Xor(Xor(Rotl(x, 1), Rotl(x, 3)), Rotr(x, 2)), c)

\* omi_clock_oscillate: the law with the constant 0x1D1D.
Oscillate(x) == Delta(x, WordOf(7453))

\* omi_classify_clock_state
Band(x) ==
  [width   |-> CHOOSE n \in 0 .. W : x \subseteq 0 .. n - 1 /\ (n = 0 \/ n - 1 \in x),
   density |-> Cardinality(x),
   texture |-> Cardinality({i \in 0 .. W - 1 : (i \in x) # (Up(i, 1) \in x)})]

\* omi_centroid_state: one fixed centroid, whatever the orientation.
CentroidState(omnion) == {}

CentroidResolution(x, omnion) == Xor(x, CentroidState(omnion))

-----------------------------------------------------------------------------
(* 11.6: the peers *)

VARIABLES
  state,          \* clock.state of each peer
  band,           \* clock.band of each peer
  steps,          \* step_accumulator of each peer
  seed,           \* history: what each peer was last initialised with
  omnion          \* the orientation the peers are compared under

vars == <<state, band, steps, seed, omnion>>

TypeOK ==
  /\ state \in [Peer -> Word]
  /\ steps \in [Peer -> 0 .. StepModulus - 1]
  /\ seed \in [Peer -> Seed]
  /\ omnion \in 0 .. 1

\* omi_make_clock: a state always carries its own band.
MakeClock(p, x) ==
  /\ state' = [state EXCEPT ![p] = x]
  /\ band' = [band EXCEPT ![p] = Band(x)]

Init ==
  /\ seed \in [Peer -> Seed]
  /\ state = seed
  /\ band = [p \in Peer |-> Band(seed[p])]
  /\ steps = [p \in Peer |-> 0]
  /\ omnion \in 0 .. 1

\* omi_clock_sync_peer_tick
Tick(p) ==
  /\ MakeClock(p, Oscillate(state[p]))
  /\ steps' = [steps EXCEPT ![p] = (@ + 1) % StepModulus]
  /\ UNCHANGED <<seed, omnion>>

\* Mutant: initialising a peer again forgets the step count.
RestartKeepsSteps(p, x) ==
  /\ MakeClock(p, x)
  /\ seed' = [seed EXCEPT ![p] = x]
  /\ UNCHANGED <<steps, omnion>>

\* omi_clock_sync_peer_init, after a restart
Restart(p, x) ==
  /\ MakeClock(p, x)
  /\ steps' = [steps EXCEPT ![p] = 0]
  /\ seed' = [seed EXCEPT ![p] = x]
  /\ UNCHANGED omnion

\* The caller compares under the other orientation from now on.
Reorient ==
  /\ omnion' = 1 - omnion
  /\ UNCHANGED <<state, band, steps, seed>>

Next ==
  \/ \E p \in Peer : Tick(p)
  \/ \E p \in Peer, x \in Seed : Restart(p, x)
  \/ Reorient

Spec == Init /\ [][Next]_vars

\* omi_clock_sync_check_resolved
InSync(p, r) ==
  CentroidResolution(state[p], omnion) = CentroidResolution(state[r], omnion)

\* omi_clock_sync_check_diagnostic: the deltas against the all-zero band
LooksInSync(p, r) == band[p] = band[r]

-----------------------------------------------------------------------------
(* Properties *)

\* The state after n steps, for n below the length of the clock's cycle.
After(n, x) ==
  LET walk[k \in 0 .. 7] == IF k = 0 THEN x ELSE Oscillate(walk[k - 1])
  IN  walk[n]

\* A peer's state is a function of its seed and its step count, even when the
\* step count has wrapped: the law returns to the seed after every eight ticks
\* and eight divides 2^64.
Replay == \A p \in Peer : state[p] = After(steps[p] % 8, seed[p])

\* At equal step counts the exact comparison answers exactly whether the peers
\* started from the same seed: the law never merges two histories.
LockstepFaithful ==
  \A p, r \in Peer : steps[p] = steps[r] => (InSync(p, r) <=> seed[p] = seed[r])

\* The number of ticks after which the clock first returns to the seed x.
Cycle(x) ==
  CHOOSE n \in {1, 2, 4, 8} :
    /\ n < 8 => After(n, x) = x
    /\ \A m \in {1, 2, 4} : m < n => After(m, x) # x

\* Two peers of one seed are reported in sync exactly when their step counts
\* differ by a multiple of the cycle of that seed: any other drift shows.
DriftVisible ==
  \A p, r \in Peer :
    seed[p] = seed[r] =>
      (InSync(p, r) <=> (steps[p] - steps[r]) % Cycle(seed[p]) = 0)
=============================================================================
