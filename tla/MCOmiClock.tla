------------------------------ MODULE MCOmiClock ------------------------------
(***************************************************************************)
(* Two peers and seeds whose cycles under the clock law have every length   *)
(* there is: 0x1234 and its successor 0xAC58 (eight), 0x0000 (four), and    *)
(* one seed each of cycle two and one.  The step count wraps at sixteen     *)
(* instead of 2^64; both are multiples of eight.                            *)
(***************************************************************************)
EXTENDS OmiClock

CONSTANTS local, remote

MCPeer == {local, remote}

MCSeed == {WordOf(4660), WordOf(44120), {}, WordOf(170), WordOf(5310)}
=============================================================================
