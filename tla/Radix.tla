-------------------------------- MODULE Radix --------------------------------
(***************************************************************************)
(* The base metric seed model of examples/radix/base_metric_seed_model.c:   *)
(* digits are injected into an accumulator, by shift and OR in the bases    *)
(* that are powers of two and by multiplication in the others.              *)
(***************************************************************************)
EXTENDS Integers, Sequences

CONSTANTS
  Width,          \* width of the accumulator, 32 in the program
  Base,           \* the bases presented
  Digit,          \* the digit values presented
  MaxDigits       \* digits accepted between two initialisations

ASSUME RadixAssumption == Width \in Nat /\ Digit \subseteq Nat

VARIABLES
  model,          \* the BaseMetricSeedModel of the caller
  radix,          \* the radix_status returned last
  digits          \* history: the digits accepted since the base was chosen

radixVars == <<model, radix, digits>>

\* radix_base_is_supported
Supported == {2, 8, 10, 16, 58, 64}

\* A structure with static storage.
RadixInit ==
  model = [base |-> 0, shift |-> 0, acc |-> 0] /\ radix = "OK" /\ digits = <<>>

Shortcut(base) ==
  IF base = 2 THEN 1 ELSE IF base = 8 THEN 3
  ELSE IF base = 16 THEN 4 ELSE IF base = 64 THEN 6 ELSE 0

\* init_base_metric_model
InitModel(base) ==
  IF base \in Supported
  THEN /\ model' = [base |-> base, shift |-> Shortcut(base), acc |-> 0]
       /\ radix' = "OK" /\ digits' = <<>>
  ELSE radix' = "INVALID_BASE" /\ UNCHANGED <<model, digits>>

\* The bit of weight p, if it is set in digit and not in n.
NewBit(n, digit, p) == IF (digit \div p) % 2 > (n \div p) % 2 THEN p ELSE 0

\* n | digit, for a digit below the largest base.
Or(n, digit) ==
  n + NewBit(n, digit, 1) + NewBit(n, digit, 2) + NewBit(n, digit, 4)
    + NewBit(n, digit, 8) + NewBit(n, digit, 16) + NewBit(n, digit, 32)

\* next_accum, which is wider than the accumulator.
NextAccum(digit) ==
  IF model.shift > 0 THEN Or(model.acc * 2 ^ model.shift, digit)
                     ELSE model.acc * model.base + digit

\* Mutant: the sum is cut to the width before it is compared with it.
InjectDigitCut(digit) ==
  LET cut == NextAccum(digit) % 2 ^ Width
  IN  /\ model.base \in Supported /\ digit < model.base
      /\ Len(digits) < MaxDigits
      /\ model' = [model EXCEPT !.acc = cut]
      /\ radix' = "OK" /\ digits' = Append(digits, digit)

\* inject_radix_digit
InjectDigit(digit) ==
  LET refusal == IF model.base \notin Supported THEN "INVALID_BASE"
                 ELSE IF digit >= model.base THEN "CHARACTER_OUT_OF_BOUNDS"
                 ELSE IF NextAccum(digit) >= 2 ^ Width THEN "OVERFLOW_FAIL" ELSE "OK"
  IN  /\ radix' = refusal
      /\ Len(digits) < MaxDigits
      /\ IF refusal = "OK"
         THEN /\ model' = [model EXCEPT !.acc = NextAccum(digit)]
              /\ digits' = Append(digits, digit)
         ELSE UNCHANGED <<model, digits>>

RadixNext ==
  \/ \E base \in Base : InitModel(base)
  \/ \E digit \in Digit : InjectDigit(digit)

RadixSpec == RadixInit /\ [][RadixNext]_radixVars

\* The value of the digits s in a base, the most significant one first.
Positional(s, base) ==
  LET value[n \in 0 .. Len(s)] == IF n = 0 THEN 0 ELSE value[n - 1] * base + s[n]
  IN  value[Len(s)]

\* By shift or by multiplication, the accumulator is the value of the digits
\* accepted, in full: a refused digit, or a refused base, is as if it had never been
\* presented, and nothing accepted has gone over the top.
RadixExact ==
  /\ model.acc = Positional(digits, model.base)
  /\ model.acc < 2 ^ Width
  /\ \A i \in 1 .. Len(digits) : digits[i] < model.base
=============================================================================
