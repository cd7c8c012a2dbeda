-------------------------------- MODULE MCCobs --------------------------------
(***************************************************************************)
(* Frames of three bytes: every pattern of zeros, and payload bytes that    *)
(* can be taken for code bytes.  Two bytes of a frame may be damaged, into  *)
(* any code that fits, one that does not fit, or 0xFF.                      *)
(***************************************************************************)
EXTENDS Cobs

MCRaws == [0 .. RawSize - 1 -> {0, 1, 3}]

MCNoise == {0, 1, 2, 3, 4, 5, 255}
=============================================================================
