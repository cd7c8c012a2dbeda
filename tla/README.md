# Omino in TLA+

A verification development kept beside the Omino repository: TLA+ modules that
model its C programs, TLC configurations that check them on small instances, and
TLAPS proofs of what matters most for all sizes. Line numbers below are those of
`src/omnicron-coproduct-partition.c` ("the partition program") unless another
file is named. Paths are relative to the repository's root; `PROJECT.json` maps
each definition to the lines it models.

## 1. The system

The repository consists of one reference program in C, a handful of embedded C
examples that each carry one operation of it to a device, eleven small clocked
Verilog blocks, and documents, views and vectors.

| Component | State it keeps | Operations | Used by |
|---|---|---|---|
| Union-find, lines 135-202 | `parent`, `rank`, `size` | `omi_uf_init`, `omi_find` (with path compression), `omi_union_validated` | the blackboard |
| Coproduct blackboard, lines 205-278, 491-535, 632-695 | occupancy and conflict boards, one fiber of contributor indices per coordinate, the contributions, the union-find | init, inject, cons, validate equivalence, union | clients; the program's harness `main` |
| CONS law, lines 456-500 | none | fold, recover car, recover cdr | `cons` and `validate` of the blackboard |
| Tetragrammatron closure, lines 558-640 | none | sector witness, scope closure | `validate` |
| Quadrant router, lines 300-420 | none (a constant table) | interleave, forward map, reverse route | `cons` |
| LOGOS/NOMOS/PATHOS/OMNION code, lines 700-830 | the codeword, corrected in place | encode, syndrome, SECDED check | clients |
| Algorithmic clock, lines 850-1110 | per peer: state, band, step count | initialise, tick, exact and diagnostic comparison | peers |
| Azimuth and vector, sections 10 and 11.3 | none | azimuth bytes and mirrors, the vector to the centroid, the hands of the clock | `main`, for display |
| Harness, section 12 | the indices and peers in `main`'s frame | a fixed sequence of calls, fifty-six steps of the model beside those of the finds and unions | the user; its output is recorded in `tests/golden/c-runtime-output.txt` |
| COBS framing, `examples/esp32/esp32_p2p_gossip.c`, `esp32_omi_core.c` | the buffers and indices of a call | encode, decode, bounded decode | the gossip, the core |
| P2P gossip, `examples/esp32/esp32_p2p_gossip.c` | the caller's packet | pack, send, decode and verify | nodes that tick the clock |
| Reconciliation, epistemic core, media bridge, Metatron preclosure, export comparator | at most one structure of the caller | one or two calls each | devices |
| Boot envelope, `examples/esp32/omi_boot_envelope.c` | the caller's frame and resolution, which outlive refused calls | parse, resolve a candidate | a device that boots |
| Radix seed, `examples/radix/base_metric_seed_model.c` | the caller's accumulator | initialise in a base, inject a digit | a reader of digits |
| RTL blocks, `verilog/` | a few registers each | one clock edge, reset | isolated; the slot of the scheduler is the input of the assembler |

How they interact. A client injects contributions; each gets the next index and
an entry in the fiber of every coordinate it claims. CONS folds the `car` of one
contribution and the `cdr` of another and routes the result. `validate` compares
two *references* a client has copied out and answers with a witness; `union`
takes a witness and two *indices*. Nothing ties the one to the other: that is the
client's business. Clock peers and gossip nodes share nothing but packets.

What is hard in it. The partition program is sequential, so the hard behaviour is
not in threads but in sequences of calls: unions whose finds rewrite the very
structure they are about to link (lines 169-202); capacity reached in one of many
fibers half-way through an injection (243-252); witnesses used later, or for
other indices, than they were made for (684-695); repeated errors and repairs of
one codeword (778-798); peers that restart while the other one goes on
(1050-1101). The examples add a real distributed part: frames that are lost,
damaged, repeated, delayed and reordered. In the small programs it is the structure
of the caller that is hard: it is written before the last check is made, a refused
call leaves part of it or all of it behind, and the next call builds on that.

`PROJECT.json` lists these under `hazards`, each at the line where it bites, with
the properties that would catch it or the reason why none does yet.

## 2. Modules

| Module | Models | Composed of |
|---|---|---|
| `Equivalence` | abstract: a partition that only coarsens | |
| `UnionFind` | the union-find, one step per loop iteration, so per write | |
| `Coproduct` | abstract: an append-only log, the view of it, and a partition of it | |
| `Words`, `ConsLaw` | machine words as bit sets; fold, recovery, interleave, route, closure | |
| `Blackboard` | the blackboard; its unions run `UnionFind` step by step | `UnionFind`, `ConsLaw` |
| `ConsCell` | the recovery law as a system: a holder recovers halves in any order; and the routing of the resolved word | `ConsLaw` |
| `Secded` | the code under bit flips and scrubbing | |
| `OmiClock` | the clock law and the peers | `Words` |
| `Cobs` | encoder and decoders of frames, byte by byte, and a damaging wire | |
| `Gossip` | nodes, the wire, decode-and-verify, restarts | `OmiClock` |
| `Scribe` | the Metatron place register in C and clocked | |
| `Slots` | the slot scheduler, feeding the meta assembler | |
| `Export` | compilation and comparison of export images in C, and the clocked comparator of their streams | |
| `Lambda` | `esp32_reconcile_interface` and the clocked lambda canon core | |
| `Surface` | the epistemic core's two calls and the clocked BQF resolver | |
| `Rtl` | the testbenches: one of the five above at a time | all five |
| `SelfChecks` | the program's checks of its own tables, the Polybius diagonals, the azimuth | `ConsLaw` |
| `ClockViews` | what is read off a clock for display: hands, vector, orientation | `OmiClock` |
| `Harness` | `main` of the partition program | `Blackboard` (twice), `ClockViews`, `SelfChecks`, `Secded` |
| `Boot` | the boot envelope: parsing, and resolution of candidates | |
| `Radix` | the accumulator of digits | |
| `HexFrame` | the address text on its way to the reconciliation | |
| `Gates` | the media arbiter and the Tetragrammatron adjudication | |
| `Programs` | the five programs above, the scrubbed store and the holder of a CONS word: one of the seven at a time | `Harness`, `Boot`, `Radix`, `HexFrame`, `Gates`, `ConsCell` |
| `MC...` | instances for TLC | |
| `..._proofs` | theorems about the module of the same name; `OmiClock_proofs` also about `Gossip`, `Rtl_proofs` about the five modules behind `Rtl`, `Callers_proofs` about `HexFrame`, `Gates`, `Boot`, `Secded`, `Radix`, `Harness` and their composition | |

Correspondence with the code.

* **`UnionFind`.** `parent` and `rank` are the arrays; `element`, `root`, `rootL`
  the C locals; `pc` the place in the code: `chase` and `compress` are the two
  `while` loops, one iteration a step, `link` the comparison of ranks. `op` says
  which of the three calls of `omi_find` runs. `class` is a history variable: what
  the accepted unions mean, kept independently of the pointers. `RootsAbove(i)` is
  what a walk from `i` along `parent` arrives at: the roots that lie in every set that
  holds `i` and is closed under `parent`. It is the walk of `omi_find` without the
  count of its steps, and the same on any forest.
* **`Blackboard`.** Boards are the sets of their coordinates, arrays with a count
  are sequences. Each handler is one action, its refusals another
  (`InjectRefused`, `UnionRefused`), except that the union and the finds go on in
  `UnionFindStep`. A contribution is what the operations look at: source, car,
  cdr, board, profile, scope; digests, flags and types are carried along
  unread and left out. `PairedClient` chooses between clients that unite exactly
  the pair they validated (as `main` does, lines 1226-1240) and clients that use a
  witness with any indices, which the code lets them.
* **`ConsLaw`, `Words`.** A word is the set of its 1 bits, its width a constant;
  rotations move positions, XOR is symmetric difference.
* **`OmiClock`.** `Delta` is the rotation law with its constant as a parameter;
  the step count wraps at `StepModulus` as `uint64_t` does at 2^64. `seed` is a
  history variable.
* **`Secded`.** (Its `SecdedNext` is run by `Programs`.) The check runs at arbitrary moments on a word whose bits flip one
  at a time; `CORRECTED_EXTENSION` leaves the repair of OMNION to the caller, and
  the action includes that caller.
* **`Cobs`.** The loops of encoder and decoder with their C locals; between them
  `Damage` alters, removes or adds a byte. `Strict` selects the gossip decoder or
  `esp32_cobs_decode_bounded`, which differ in whether a zero inside a block is
  looked at and in whether the length of a frame is limited. The encoder's refusal of a
  missing packet or of a buffer below the largest frame, made before anything is
  written, is left out.
* **`Gossip`.** A frame is the packet it unpacks to; delivery leaves a copy or
  not, so frames may arrive twice, late, out of order, or after their sender or
  receiver has started again. `at` and `seed` are what the sender's clock was
  when it packed: history, not on the wire.

* **`Scribe`, `Slots`, `Export`, `Lambda`.** One action is one clock
  edge of the block and, beside it, the call of the C code that gets the same
  inputs; a second one is the reset. What the blocks compute between edges
  (`w_...`) is an operator, what they latch a variable. Widths are those of the
  declarations, except that squares are told by the sum they are of, the gauge header
  of an image is one byte, its root two, and a byte of an image has four values. The
  scheduler is wired to the assembler because the register and the input have one
  name and width, and sections 38 and 39 of `verilog/README.md` describe the one
  behind the other; the repository has no top level that wires anything.
  `Compare` leaves out the refusal of missing or oversized images, and the index of the
  mismatch: `Compile` makes no such image, and nothing reads the index.
* **`Surface`.** The two calls of the epistemic core, `ByteSurface` and `Quadrant`, are
  actions of their own, in any order on one structure, which may hold anything before the
  first; an edge of the block is a third action with inputs of its own. A refused field
  returns before the write (line 57), so an earlier energy stays; `field` remembers, as
  history, which one that is. The arithmetic and the classifiers of the block (`WireEnergy`,
  `WireBand`, `WireDelineated`) are written from the block, not shared with C.
* **`Rtl`.** Every block has a testbench of its own; `bench` says which one runs.
* **`Harness`.** `Script` is `main`, section by section; `at` says how many of its
  calls have been made, `handle` holds its index variables, `printed` what it has
  printed. A call is the very action of `Blackboard` or `OmiClock` that other runs
  give to arbitrary clients; a find or a union goes on in `MainUnionFindStep` until it
  returns. Pure calls, of the laws, the checks and the display, are `MainShow`. The
  radius of a vector is told by its square and its angle by a direction.
* **`Boot`, `Radix`, `HexFrame`, `Gates`.** The variables are the structures of the
  caller and the status returned last, the actions the calls; what was accepted last is
  history. An envelope is all 64 bytes of it, with one that differs from the emulated
  one; an address text is told by its segments and the one place that is spoilt, a segment by
  whether it parses: what value four digits stand for (lines 79-95 of `esp32_omi_core.c`)
  is left out; an effect class is its number.
* **`Programs`.** `bench` says which program runs. The scrubbed store of `Secded` and the
  word and halves of `ConsCell` are among them, since they too are kept by a caller.

## 3. What TLC checks

| Run | Instance | Shows |
|---|---|---|
| `union_find` | 5 slots, all sequences of finds and unions | the forest is the partition its unions generate and refines `Equivalence`; each step of a call takes at least one from a count that starts at four times the logarithm of the size, and each call returns |
| `blackboard` | 3 contributions at most, 2 coordinates, fibers of 2, five kinds of contribution, two of them equivalent, paired clients | boards and fibers are the view of the log; refused calls leave no trace; classes, which grow to three, hold equivalent contributions and no unused slot |
| `blackboard_refines` | the same with four kinds of contribution and no CONS calls | the blackboard refines `Coproduct`, through chains of unions |
| `clock` | 2 peers, 5 seeds with cycles 8, 4, 2, 1; the count wraps at 16 | replay, faithful comparison, visible drift |
| `programs` | `main` as written; the store: all 16 quartets, up to 3 wrong bits; the envelope: the seams of its fields; candidates on both sides of every bound; an accumulator of 8 bits, five bases of the six and an unsupported one; 2 address texts with any one place spoilt; effect classes 7 to 12; 32-bit words: 256 cars, 2 cdrs, 2 profiles, so every address the router tells apart | recovery in any order; the decoded selector is the rectangle of the table; `main` prints the recorded output and unites only what it validated; what the code corrects, reports and loses; no structure ever shows a mixture of calls or the leavings of a refused one as if they were accepted |
| `cobs` | frames of 3 bytes with every pattern of zeros, 2 damages | encoder and decoder invert each other and accept nothing else; no frame makes the decoder write past its buffer or read past the frame |
| `gossip` | 2 nodes, 2 seeds, steps 0 to 2, 2 frames under way | packets are taken over in step only, never backwards |
| `rtl` | every border of every range the blocks look at; coordinates whose sum is 2^18; images with equal and colliding signatures, also cut to their header; stalls and resets anywhere | the clocked blocks agree with the C code wherever both speak, and where they part it is exactly by the missing bit, the missing fault wire, the unseen tail of a longer image or the refused call; no order of byte and field calls shows the energy of one field as that of another |
| `blackboard_origin`, `blackboard_unpaired`, `cobs_core`, `rtl_void` | as above (`blackboard_unpaired`: three kinds of contribution that differ in profile or word, clients that use a witness with any indices) | the four findings of section 6 |

Why the bounds suffice. Five slots are the fewest at which two trees of rank one
can be linked and a path of length two be compressed with a slot to spare. Three
contributions with fibers of two let a fiber fill before the board does. Of the five kinds
of contribution `rules` and `facts` are the same by different words, and `facts` claims no
coordinate, so that three equivalent contributions fit in and a class grows to three by a chain of
unions; `strayed`, `salted` and `other` differ from them in scope, profile and word, one
for each way a validation fails once both references resolve. `RefinesCoproduct` has a run
of its own, since checking a step refinement is what takes the time; it leaves out the CONS
calls, which change nothing but their answer. The clock's law has cycles of length 8, 4, 2 and 1
only, and there is a seed of each; 16 is a multiple of eight, as 2^64 is. Three
wrong bits are the first number the code may miss. The coordinates 0xC000 and 0x8000 have the sum 2^18, the first that the
eighteen bits of the lambda core lose. The 256 cars turn
into all settings of the eight address bits the router reads, and the second cdr
wraps around both ends of the word. The harness gets six slots instead of
256: it injects four contributions and looks at no free slot. The
candidates of the boot envelope lie on both sides of the bounds on face, field and unit,
each with and without its attestation. The fields of the epistemic core are those at both
sides of its chart of 240, and 255, beyond which the block cannot go.
Eight bits overflow by shift and by multiplication after two or three digits, in the
bases 16, 64, 10 and 58. Three bytes give
an empty, a full and a mixed block at either end, and the noise includes codes
that fit, do not fit, and 0xFF. Two
frames are the fewest that can arrive in the wrong order.

Not covered by those bounds: most pairs of 32-bit words (covered by the proofs), a frame of 64 bytes (the encoder's proofs cover it), and blocks of 254 bytes,
which no frame of either layer can contain.

Deadlock is checked in every run. No system here can stop: a caller can always
make another call, and `main`, when it has returned, stutters (`MainReturned`).

**Fairness.** The one fairness assumption is weak fairness of the steps of a call
in progress (`UFStep`, `UnionFindStep`): it is straight-line sequential code that
waits for nobody. Nobody is ever obliged to make a call, to tick or to deliver a
frame, and no property says that they do. The liveness property `CallReturns` is
not trivial under it: it fails as soon as a link makes a cycle, which the mutant
`LinkFallsThrough` does.

**Mutants.** Each module has, next to the definition it concerns, variants of it
marked "Mutant" that make one plausible mistake: a wrong order, a missing else, a
check left out. `PROJECT.json` names for every property one that must break it.
They are no part of the specifications.

## 4. What is proved

All theorems hold for every value of the constants that satisfies the named
assumptions of the modules (sizes are positive, digits and the width of the accumulator are natural numbers, words are at least as wide as the
rotations, seeds are words of 16 bits, the step modulus is a multiple of eight,
frames are 1 to 253 bytes long, the bytes of an envelope are bytes, the base of an
image's bytes is positive, coordinates, indices and tokens are natural numbers, and
the fields and bytes of `Surface` have eight bits, which is what the block can take).
The theorems about `Rtl` are about its one specification and so about any interleaving
with resets; those about a program of `Programs` are about its own
specification, and `ProgramsRun` proves that a behaviour of the composition is one of each.

* **Union-find.** `UFInv` joins the shape of the forest (`RankIncreases`,
  `ParentInClass`, `RootDominates`) with what the call in progress knows
  (`FindCorrect`). Neither half is inductive: a compression writes `root` into
  `element`, and ranks keep increasing along the new pointer only because a root
  outranks its whole class; that `root` is one, and of that class, is
  `FindCorrect`; and `FindCorrect` survives other writes because classes have one
  root. The key step is a link: the two trees are known to be of different
  classes, the lower root gets under the higher one, and whoever was below either
  is still below the survivor. Consequences: `RankIncreases`, `RootDominates`,
  `FindCorrect`, `UnionDecides`.
* **Whose root is whose.** That a walk ends does not follow from `UFInv` without
  counting the steps of the walk, so it is an invariant of its own:
  `RootReached`, every element has a root above it. A compression keeps it because
  the root written was above the element already (`CompressReach`), a link because
  whoever was below the loser is now below the winner (`LinkReach`). With one root per
  class, `RootKnown` and `ClassesKnown` follow: the root above an element is that of
  its class, and the blocks the pointers show are the classes. Hence
  `CompressionPreservesRoots`, and `RefinesEquivalence`: a link fuses the two blocks of
  `Equivalence`, everything else stutters.
* **Ranks.** `RankLogarithmic` is inductive given `UFInv`: a rank grows only when two
  disjoint classes with 2^r members each are fused. Powers of two are not known to the
  provers beyond constants; `PowerDoubles` reads the doubling off the subsets of 1 .. n.
* **Short calls.** `CallShortens`: `WorkLeft` counts the steps a call may still take, by
  the ranks its walks have reached. The first walk climbs them up to the root, the second
  climbs them again from the element asked for; no rank is above `Height`, the logarithm
  of the size (`RankLogarithmic`, through the root `RootReached` gives, and
  `HeightKnown`); so a find is over within 2 log + 2 steps and a union within 4 log + 5. This is
  the safety half of `CallReturns`: what fairness has to add is only that the code runs.
* **Under the blackboard.** `BlackboardKeepsForest`: a step of the blackboard is a step of
  the union-find or none (`UFProjection`), whatever the clients do, so the lemmas about
  `UFRun` (the union-find without fairness) carry over: logarithmic ranks,
  compressions that change no answer, the abstract partition, short calls.
* **Blackboard.** `BoardInv` (types, `FibersExact`, `BoardsExact`) is inductive
  and needs nothing of the union-find; most of it is about what appending one index
  to some fibers does. `UFInv` carries over because each blackboard step is a
  union-find step or leaves it alone. `FreeInv` (slots without a contribution are
  singletons of rank zero, arguments of a union are in use) gives
  `FreeSlotsFresh`, for any client. With `PairedClient`, `PairInv` (a valid witness
  is about an equivalent pair; a union in progress has equivalent arguments) makes
  `ClassSound` inductive: a link fuses two classes through one equivalent pair,
  and equivalence is transitive. `OriginsPreserved` and `ConsOverlapFlagged` follow
  from `BoardInv`. `RefusedChangesNothing` needs that a call in progress has not
  answered yet (`BusyOK`).
* **The abstract blackboard.** `RefinesCoproduct`, for paired clients: `ViewKnown` (the
  boards and fibers are the view of the log, from `FibersExact` and `BoardsExact`) and
  `ClassesKnown` carry the refinement mapping; the limits an injection tests, stored
  counts and lengths, are the abstract ones on cardinalities (`InjectAccepts`); and a
  link is a step of the abstract partition because `ClassSound` makes the two blocks
  equivalent throughout (`LinkIdentifies`). For clients that are not paired it does
  not hold: that is the second finding.
* **CONS.** `RecoveryLaw`: fold and recoveries are inverses, for every width above
  three; hence `SameProfileRecovers`, `RefoldsUnderLast` and `WrongProfileShows`.
* **Router.** `RouterLawful` is a fact about the eight bits an address carries: a byte
  is the number of its bits and of no others (`NumberIsValue`), row and column are the
  sums of four of them, and three of them are the selector; compression undoes
  interleaving (`CompressInterleaved`) and the mirror turns the highest bit
  (`MirrorOfByte`). The run goes through the addresses of one width; the proof leaves the
  width, the words and the profiles open.
* **Clock.** `DeltaPeriodEight`: the law applied eight times is the identity on
  all 65536 words, for every constant. The law is affine over the two-element
  field; applying such a map twice doubles its rotations, because the mixed terms
  cancel; so 1, 3, 14 become 2, 6, 12, then 4, 12, 8, then 8, 8, 0, and the
  constant cancels. `ClockInv` adds the replay of each peer's state from its seed;
  from it `ClockReplay` and `ClockLockstepFaithful`.
* **Drift.** `DriftVisible` for every seed: the states of a seed are a walk round
  eight places on which equal places have equal successors, so the returns to the start
  are the multiples of 1, 2, 4 or 8 (`RoundCycle`), and the least is the cycle. The step
  modulus is a multiple of eight, so wrapping does not show.
* **COBS encoder.** The loop invariant `Encoding` says that everything behind the
  write position is final except the open code byte; `EncoderInBounds` (no write
  outside the buffer, the code byte never wraps) and `FrameEncodes` (the frame is
  the canonical encoding) follow for all frames up to 253 bytes.
* **COBS decoder.** `DecInv` counts: what has been read and what has been written are in
  step, and no block reaches the 254 bytes after which no zero is written, since no
  frame is that long. `DecoderInBounds` is part of it, for either decoder: also
  for that of the core, which takes frames of any length and has only its two limits. `CanonInv` (strict decoder) says that the frame, as far as it has
  been read, spells the bytes written; closed by the delimiter that is
  `AcceptedIsCanonical`, whatever the wire did. `FaithInv` (either decoder, undamaged
  frame) says that code bytes are read at the marks of the packet and nowhere else;
  at the end that is `RoundTrip`.
* **Gossip.** `GossipInv` says that every frame under way shows its source's clock
  as the law gives it from the seed and the step count, and that no node holds a
  packet of a step it has not reached. `GossipCommitInSync` then follows because
  the law merges no two seeds; `GossipOutOrdered` from the second part.
* **The scrubbed store.** `SyndromeInv`: syndrome and parity of the received word are
  those of its errors alone, because flipping a bit flips the same parities of both
  (`ToggleParity`) and an encoded word has none (`EncodeEven`). So a check is a function
  of the error set, and `VerdictCounts` needs only what one, two and three errors look
  like. `ScrubbingKeepsData` and `NoSilentLoss` need history: `FewErrors`, no more bits
  are wrong than have flipped since the last check, as long as checks could tell.
* **The RTL blocks.** `PlaceInv` lists the six values the accumulator can take.
  `SlotInv` bounds the slot by 5040, so that twelve bits lose at most one.
  `FormInv` adds to `LambdaAgrees` that the structure of an accepted call shows its own
  centroid, which a refused call after it may spoil and must report. `SurfaceInv` says
  that the structure is that of the last byte and of the last field accepted since, and the
  registers those of the last edge; products of two bytes fit the sixteen bits the block
  gives them (`WireEnergyFits`), and its classifiers are those of C (`NibbleIsBand`). `ExportInv` says of streams in step that one side is ahead only of one that has
  ended, and that the lock tells whether the bytes seen on both sides differ anywhere;
  at the end of both, two bytes of a root determine it (`RootInTwoBytes`).
* **The small programs.** `FramesUnmixed`: an accepted text has written all eight
  segments, so whatever refused ones had left is gone before anyone reconciles.
  `GatesNameEffect`: the switch is injective on the effects that open a gate
  (`SwitchInjective`), and every other answer starts from a closed gate.
  `BootFrameWhole`: laying out the frame read from an envelope gives its second half
  back, byte by byte (`LayoutOfFrame`), and the frame is that of the envelope accepted
  last. `BootResolutionNames`: 60xx + 16xy + 4yy is strictly increasing in x across
  all y below 4, the step of at least 120x + 60 outweighing the most y can add, 48x + 36;
  so the energy tells the position (`EnergyInjective`), for any x, not only below 240.
  That the status tells attested candidates of the field from all others, and that a
  refused one leaves the resolution of the one before, is `ResolvedInv`.
* **The accumulator.** `RadixAlwaysExact`: appending a digit multiplies the number the
  digits write by the base and adds the digit (`PositionalAppend`); multiply-and-add is
  that, and so is shift-and-OR, because after the shift the bits of a digit below the base
  are all free (`OrAdds`, bit by bit in each of the four bases). `PositionalAppend` is an
  induction over the digits. The library's induction theorems cannot be instantiated by
  the provers; what can is that a set of numbers has a least element (`LeastNumber`, from
  the library's well-foundedness of `<`), so the induction takes the least exception.
* **`main`.** `MainPairs`: whatever the capacity and the room of a fiber, every step of
  `main` is one a client could make that unites exactly the pair its last witness is
  about. `MainInv` says what is held between two calls: once a pair is injected, its
  handles lead to it; from the validation of a pair to its union the witness is about it.
  `OpeningCalls` and `ScriptCalls` read the twenty calls up to the last union off the
  script, and show that none after them injects, unites or looks anything up. The
  code itself asks for none of this: that is the second finding of section 6.

The type invariants, and `RankIncreases`, `RankLogarithmic`, `ConsOverlapFlagged`, `RefoldsUnderLast`, `WrongProfileShows` and `UnionDecides`, are
proved for all sizes and are not repeated in a run.

Only model-checked:

* `CallReturns`: liveness under fairness, which is out of the prover's reach. What it rests
  on, that each step of a call takes at least one from a number that is never negative
  (`UFCallShortens`), is proved.
* `PrintsGolden`: one fixed behaviour of `main`, which the run goes through in full. Its
  only parameters are the capacities; everything else is a concrete computation of some
  fifty displays, with folds over sequences, that TLC evaluates and a prover would
  only repeat.

The definitions and the proofs use no `CASE` expression, only nested conditions and
functions: `tlapm` 1.4.5 gives all the `CASE` expressions it passes to its SMT solver one
meaning, so that a proof that expands two of them would show nothing.

## 5. What is not modelled

* The epoch hand, which nothing calls; `omi_cons_tracking_square16` and the recovery
  check `main` begins with, whose results it throws away (`ConsCell` states and proves the
  law itself). The square root and the arctangent of the vector: library functions of
  doubles, which only the display reads.
* Digests, flags, contribution types and the sequence number of a media chunk: no
  operation looks at them.
* The bytes of a packet inside a gossip frame: packing and unpacking copy fields.
* The other RTL blocks (face router, Lagrange, layer 4, visual projector, interlock)
  and the scribe's witness and flags: functions of the inputs of one edge, latched.
  The face router repeats the selector of `ConsLaw`.
* Coordinates wider than eight bits in the epistemic core, where its quadratic form
  wraps: the clocked resolver cannot take them, and nothing says what C should answer.
* What the export block says of two streams one of which stalled alone while the other
  went on: it then compares bytes that do not belong together, and its lock means
  nothing. `ExportVerdict` is about streams in step.
* Refusals of missing pointers and of buffers or images of a wrong size in the frame
  encoder, the epistemic core and the export comparator: each returns before anything is
  written.
* `examples/tcg` (never compiled by the repository), `reference/` (an earlier copy of
  the partition program), the Haskell and Coq drafts, views, vectors and documents.

## 6. Findings

Each has a run that shows it; `PROJECT.json` quotes the lines.

1. One origin that injects two overlapping boards conflicts with itself, although
   the struct's comment promises conflicts between distinct origins only
   (`blackboard_origin`).
2. A valid witness authorises the union of any two contributions, not only of the
   pair it is about (`blackboard_unpaired`).
3. `esp32_cobs_decode_bounded` accepts a frame with a zero inside a block
   (`cobs_core`).
4. The lambda canon core sums in eighteen bits and flags x = 0xC000, y = 0x8000 as
   the void centroid (`rtl_void`).

Seen, without a run: section 11's doctrine promises an antipodal centroid under
`OMNION=1` (lines 858-859); `omi_centroid_state` returns 0x0000 either way, and the
model follows it. Two slots that differ by 4096 assemble to one word, and an index
in fault assembles as slot zero; no document says otherwise.

## 7. Plan

Done: the partition program with its harness, all the embedded examples, and the RTL
blocks that have a partner to agree with, with the theorems above.

Left, in this order:

1. Type correctness of the small programs as theorems of their own.
2. The backplane interlock over the clock's azimuths and the verdict of the code; the
   byte layout of a gossip packet.
