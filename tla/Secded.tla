-------------------------------- MODULE Secded --------------------------------
(***************************************************************************)
(* The extended Hamming code over FS, GS, RS, US with LOGOS, NOMOS, PATHOS  *)
(* and OMNION (src/omnicron-coproduct-partition.c, section 10.1), used the  *)
(* way a store is scrubbed: bits flip one at a time, the check runs now and *)
(* then and corrects in place.  A codeword is the set of the positions of   *)
(* its 1 bits, 1 .. 7 in the order of OmiHammingCodeword, and 8 for the     *)
(* OMNION bit that travels beside it.                                       *)
(***************************************************************************)
EXTENDS Integers, FiniteSets

CONSTANT MaxErrors      \* bits that may be wrong at the same time

ASSUME ErrorsAssumption == MaxErrors \in 0 .. 8

Omnion == 8

Data == {3, 5, 6, 7}    \* FS, GS, RS, US

Position == 1 .. 8

VARIABLES
  sent,           \* the scope quartet that was encoded
  word,           \* the received codeword and OMNION bit
  status,         \* what the last check answered
  since,          \* history: flips since the last check
  worst,          \* history: most flips there were between two checks
  warned          \* history: a check has answered DOUBLE_ERROR_DETECTED

secdedVars == <<sent, word, status, since, worst, warned>>

\* The parity of the bits of w at the positions s.
Parity(w, s) == Cardinality(w \cap s) % 2

\* omi_compute_epistemic_check and omi_encode_hamming
Encode(q) ==
  LET check == {p \in {1, 2, 4} :
                  Parity(q, IF p = 1 THEN {3, 5, 7} ELSE IF p = 2 THEN {3, 6, 7}
                            ELSE {5, 6, 7}) = 1}
      code == q \cup check
  IN  code \cup {p \in {Omnion} : Parity(code, 1 .. 7) = 1}

\* Mutant: sPATHOS leaves out the check bit it belongs to.
SyndromeNoPathos(w) ==
  Parity(w, {1, 3, 5, 7}) + 2 * Parity(w, {2, 3, 6, 7}) + 4 * Parity(w, {5, 6, 7})

\* omi_hamming_syndrome
Syndrome(w) ==
  Parity(w, {1, 3, 5, 7}) + 2 * Parity(w, {2, 3, 6, 7}) + 4 * Parity(w, {4, 5, 6, 7})

\* omi_hamming_secded_check: the parity of all eight received bits, and with it
\* the verdict.
Verdict(w) ==
  IF Parity(w, Position) = 0
  THEN IF Syndrome(w) = 0 THEN "OK" ELSE "DOUBLE_ERROR_DETECTED"
  ELSE IF Syndrome(w) = 0 THEN "CORRECTED_EXTENSION" ELSE "CORRECTED_SINGLE"

Toggle(w, p) == (w \ {p}) \cup ({p} \ w)

\* The bits that are wrong.
Errors == {p \in Position : (p \in word) # (p \in Encode(sent))}

SecdedInit ==
  /\ sent \in SUBSET Data
  /\ word = Encode(sent)
  /\ status = "NONE"
  /\ since = 0 /\ worst = 0 /\ warned = FALSE

Flip(p) ==
  /\ since < MaxErrors
  /\ Cardinality(Errors) < MaxErrors
  /\ word' = Toggle(word, p)
  /\ since' = since + 1
  /\ worst' = IF since' > worst THEN since' ELSE worst
  /\ UNCHANGED <<sent, status, warned>>

\* Mutant: every odd parity is taken for a flip of OMNION.
CheckExtensionFirst ==
  /\ status' = IF Parity(word, Position) = 1 THEN "CORRECTED_EXTENSION" ELSE Verdict(word)
  /\ word' = IF Parity(word, Position) = 1 THEN Toggle(word, Omnion) ELSE word
  /\ since' = 0
  /\ warned' = (warned \/ status' = "DOUBLE_ERROR_DETECTED")
  /\ UNCHANGED <<sent, worst>>

\* Mutant: a non-zero syndrome is always corrected, whatever the parity.
CheckAlwaysCorrects ==
  /\ status' = IF Syndrome(word) # 0 THEN "CORRECTED_SINGLE" ELSE Verdict(word)
  /\ word' = IF Syndrome(word) # 0 THEN Toggle(word, Syndrome(word)) ELSE word
  /\ since' = 0
  /\ warned' = (warned \/ status' = "DOUBLE_ERROR_DETECTED")
  /\ UNCHANGED <<sent, worst>>

\* The check, and the caller that repairs its OMNION bit when told to.
Check ==
  /\ status' = Verdict(word)
  /\ word' = IF status' = "CORRECTED_SINGLE" THEN Toggle(word, Syndrome(word))
             ELSE IF status' = "CORRECTED_EXTENSION" THEN Toggle(word, Omnion)
             ELSE word
  /\ since' = 0
  /\ warned' = (warned \/ status' = "DOUBLE_ERROR_DETECTED")
  /\ UNCHANGED <<sent, worst>>

SecdedNext == Check \/ \E p \in Position : Flip(p)

SecdedSpec == SecdedInit /\ [][SecdedNext]_secdedVars

-----------------------------------------------------------------------------
(* Properties *)

\* The verdict counts the wrong bits: none is OK, one is corrected (all of the
\* word, OMNION by the caller), two are reported and left alone, and no odd
\* number of them is ever taken for an even one.
VerdictCounts ==
  [][since' = 0 /\ status' # "NONE" =>
       LET n == Cardinality(Errors)
       IN  /\ n = 0 => status' = "OK"
           /\ n = 1 => status' \in {"CORRECTED_SINGLE", "CORRECTED_EXTENSION"} /\ Errors' = {}
           /\ n = 2 => status' = "DOUBLE_ERROR_DETECTED" /\ Errors' = Errors
           /\ n = 3 => status' \notin {"OK", "DOUBLE_ERROR_DETECTED"}]_<<word, status, since>>

\* As long as no two bits flip between two checks, the quartet read after a
\* check is the one encoded, however many bits have flipped altogether.
ScrubbingKeepsData ==
  worst <= 1 /\ since = 0 => word \cap Data = sent

\* Data can be wrong after a check only if a check has said so before, or if
\* three bits flipped between two checks.
NoSilentLoss ==
  since = 0 /\ word \cap Data # sent => warned \/ worst >= 3
=============================================================================
