-------------------------------- MODULE Export --------------------------------
(***************************************************************************)
(* examples/compiler/binary_export_verifier.c and the clocked comparator    *)
(* verilog/eal_metamorphic_export_validator.v over the same two images: C   *)
(* compares them at once, the block sees their bytes as they are streamed,  *)
(* by sources that may stall.                                               *)
(***************************************************************************)
EXTENDS Naturals, Sequences, SequencesExt

CONSTANTS
  Byte,           \* the number of values of a byte
  Segments,       \* the coordinates images are compiled from
  Signature(_)    \* export_fnv1a32 of a sequence of bytes

ASSUME ExportAssumption == Byte \in Nat \ {0} /\ Segments \subseteq Nat

VARIABLES
  eal, void,      \* the two images
  sent,           \* how many bytes of each have been presented
  inStep,         \* history: no byte was presented while the other side stalled
  identityOk,     \* o_export_identity_ok
  lock            \* o_bus_interlock_lock

exportVars == <<eal, void, sent, inStep, identityOk, lock>>

LinearRoot(x, y) == 4 * x + 2 * y

\* meta_compile_to_eal: a fixed gauge header, the root big-endian, the signature.
Compile(x, y) ==
  LET root == LinearRoot(x, y)
      data == <<0, root \div Byte, root % Byte>>
  IN  [data |-> data, root |-> root, signature |-> Signature(data)]

\* An image whose caller cut the stream to its header and signed it again.
Shortened(image) ==
  [image EXCEPT !.data = <<Head(image.data)>>, !.signature = Signature(<<Head(image.data)>>)]

\* binary_export_compare, on images that fit the buffer.
Compare(a, b) ==
  IF Len(a.data) # Len(b.data) THEN "LENGTH_MISMATCH"
  ELSE IF a.signature # b.signature THEN "HASH_MISMATCH"
  ELSE IF a.data # b.data THEN "BYTE_MISMATCH"
  ELSE "OK"

Images ==
  LET full == {Compile(x, y) : x \in Segments, y \in Segments}
  IN  full \cup {Shortened(image) : image \in full}

ExportInit ==
  /\ eal \in Images /\ void \in Images
  /\ sent = [eal |-> 0, void |-> 0] /\ inStep = TRUE
  /\ identityOk = TRUE /\ lock = FALSE

\* Mutant: the lock follows the bytes of the last edge.
LatchFollows(mismatch) == identityOk' = ~mismatch /\ lock' = mismatch

Latch(mismatch) == identityOk' = ~mismatch /\ lock' = (lock \/ mismatch)

\* One edge: each side presents its next byte, or has i_..._valid low.
ExportEdge(ealValid, voidValid) ==
  /\ ealValid => sent.eal < Len(eal.data)
  /\ voidValid => sent.void < Len(void.data)
  /\ sent' = [eal  |-> sent.eal + (IF ealValid THEN 1 ELSE 0),
              void |-> sent.void + (IF voidValid THEN 1 ELSE 0)]
  /\ inStep' = (inStep /\ (ealValid # voidValid =>
                  \/ ealValid /\ sent.void = Len(void.data)
                  \/ voidValid /\ sent.eal = Len(eal.data)))
  /\ Latch(ealValid /\ voidValid /\ eal.data[sent'.eal] # void.data[sent'.void])
  /\ UNCHANGED <<eal, void>>

\* rst_n low, and the streams of two further images begin.
ExportReset ==
  /\ eal' \in Images /\ void' \in Images
  /\ sent' = [eal |-> 0, void |-> 0] /\ inStep' = TRUE
  /\ identityOk' = TRUE /\ lock' = FALSE

ExportNext ==
  \/ \E ealValid, voidValid \in BOOLEAN : ExportEdge(ealValid, voidValid)
  \/ ExportReset

Presented == sent.eal = Len(eal.data) /\ sent.void = Len(void.data)

\* Two streams presented in step to their ends leave the bus locked exactly when
\* the comparison in C refuses the images, which for images of full length is
\* when their roots differ; of images that differ in length the block sees the
\* common bytes only.  A lost identity is never seen without the lock.
ExportVerdict ==
  /\ ~identityOk => lock
  /\ Presented /\ inStep =>
       IF Len(eal.data) = Len(void.data)
       THEN /\ lock <=> Compare(eal, void) # "OK"
            /\ Len(eal.data) = 3 => (lock <=> eal.root # void.root)
       ELSE /\ Compare(eal, void) = "LENGTH_MISMATCH"
            /\ lock <=> ~IsPrefix(eal.data, void.data) /\ ~IsPrefix(void.data, eal.data)
=============================================================================
