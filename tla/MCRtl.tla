-------------------------------- MODULE MCRtl --------------------------------
(***************************************************************************)
(* The benches at the borders of every range their blocks look at; 49152    *)
(* and 32768 are coordinates whose sum is 2^18.                             *)
(***************************************************************************)
EXTENDS Rtl

MCSegment == {0, 1, 3, 32768, 49152, 65535}

MCSignature(data) == (data[Len(data)] \div 2) % 2
=============================================================================
