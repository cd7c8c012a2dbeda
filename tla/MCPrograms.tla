------------------------------ MODULE MCPrograms ------------------------------
(***************************************************************************)
(* The programs at the borders of every range they look at: the last byte   *)
(* of the preheader, both ends of the frame and the seams of its fields;    *)
(* the last face, field and unit coordinate accepted and the first ones     *)
(* refused; the digits that just fit eight bits, and every effect class     *)
(* beside the four that are known.                                          *)
(***************************************************************************)
EXTENDS Programs

MCSpot == {0, 7, 31, 32, 39, 40, 47, 48, 51, 63, 64}

MCEffect == 7 .. 12

\* The cars turn into every address the router can tell apart; the second cdr wraps
\* around both ends of the word and sets two address bits the router must ignore.
MCCars == SUBSET ((3 .. 6) \cup (11 .. 14))

MCCdrs == {{}, {30, 31}}

MCProfiles == {{0}, {0, 2}}
=============================================================================
