------------------------------ MODULE ClockViews ------------------------------
(***************************************************************************)
(* What sections 11.1, 11.3 and 11.5 of the partition program read off a    *)
(* clock for display: the hands, the vector to the centroid and the         *)
(* orientation.  None of it is ever written back.  The square root and the  *)
(* arctangent are left out: a radius is told by its square, an angle by the *)
(* direction it is of and whether it has been turned half round.            *)
(***************************************************************************)
EXTENDS OmiClock

LOCAL INSTANCE FiniteSetsExt

\* omi_r0_reflection
R0Reflection(x) == Xor(x, WordOf(\hAAAA))

\* omi_minute_hand: r0 after r1
MinuteHand(x) == R0Reflection(Rotl(x, 1))

\* omi_hour_hand: r0 after r1 after r2
HourHand(x) == R0Reflection(Rotl(Rotl(x, 3), 1))

\* omi_verify_r0_involution
VerifyR0Involution(x) == R0Reflection(R0Reflection(x)) = x

Value(w) == FoldSet(LAMBDA i, n : 2 ^ i + n, 0, w)

\* omi_resolve_vector_to_centroid
VectorToCentroid(address, o) ==
  LET relative == Xor(address, CentroidState(o))
      row == Value({i - 8 : i \in relative \cap 8 .. 15})
      col == Value(relative \cap 0 .. 7)
  IN  [relative |-> relative, radius2 |-> row * row + col * col,
       direction |-> <<row, col>>, turned |-> o % 2 = 1]

\* omi_verify_centroid_alignment: radius and angle of the origin are zero
VerifyCentroidAlignment ==
  LET zero == VectorToCentroid({}, 0)
  IN  zero.radius2 = 0 /\ zero.direction[1] = 0 /\ ~zero.turned

\* omi_process_centroid_alignment
CentroidAlignment(x, o) == [state |-> x, steps |-> 0, azimuth |-> (o % 2) * 128]
=============================================================================
