--------------------------------- MODULE Cobs ---------------------------------
(***************************************************************************)
(* The zero-free framing of examples/esp32: the encoder and the decoder of  *)
(* esp32_p2p_gossip.c with their loops as steps, and a wire between them    *)
(* that damages frames.  Strict = FALSE gives the other decoder of the      *)
(* repository, esp32_cobs_decode_bounded of esp32_omi_core.c, which is      *)
(* handed the frame without its delimiter.                                  *)
(***************************************************************************)
EXTENDS Integers, Sequences, FiniteSets

CONSTANTS
  RawSize,        \* OMI_GOSSIP_RAW_FRAME_SIZE; OMI_COBS_BUFFER_SIZE
  Raws,           \* the raw frames packets pack to
  Noise,          \* the bytes a damaged byte may turn into
  MaxDamage,      \* how often a frame may be damaged
  Strict          \* the decoder of the gossip layer, or that of the core

Byte == 0 .. 255

ASSUME CobsAssumption ==
  /\ RawSize \in 1 .. 253
  /\ Raws \subseteq [0 .. RawSize - 1 -> Byte]
  /\ Noise \subseteq Byte

VARIABLES
  phase,          \* "idle", "encode", "transit", "code", "copy", "end", "done"
  raw,            \* esp32_gossip_encode_frame: raw
  wire,           \* out_wire_buf
  i, dst, codeAt, code,   \* its locals: i, dst_idx, code_idx, code (and the decoder's code)
  frame,          \* the bytes that arrive
  damage,         \* history: how often they have been damaged
  src, decoded, left,     \* decoder: src_idx, raw[0 .. dst_idx - 1], code - i
  verdict         \* what the decoder returned

encoder == <<raw, wire, i, dst, codeAt>>
decoder == <<src, decoded, left, verdict>>
vars == <<phase, encoder, code, frame, damage, decoder>>

Cap == RawSize + 2      \* OMI_GOSSIP_WIRE_FRAME_MAX

Init ==
  /\ phase = "idle"
  /\ raw = [k \in 0 .. RawSize - 1 |-> 0] /\ wire = [k \in 0 .. Cap - 1 |-> 0]
  /\ i = 0 /\ dst = 0 /\ codeAt = 0 /\ code = 0
  /\ frame = <<>> /\ damage = 0
  /\ src = 0 /\ decoded = <<>> /\ left = 0 /\ verdict = "NONE"

-----------------------------------------------------------------------------
(* esp32_gossip_encode_frame, on a buffer that holds the largest frame: without such a    *)
(* buffer, or without a packet, the call returns before it writes anything.               *)

BeginEncode(r) ==
  /\ phase \in {"idle", "done"}
  /\ phase' = "encode"
  /\ raw' = r /\ wire' = [k \in 0 .. Cap - 1 |-> 0]
  /\ i' = 0 /\ dst' = 1 /\ codeAt' = 0 /\ code' = 1
  /\ frame' = <<>> /\ damage' = 0
  /\ src' = 0 /\ decoded' = <<>> /\ left' = 0 /\ verdict' = "NONE"

\* Mutant: the count goes on over a zero.
EncodeByteKeepsCode ==
  /\ phase = "encode" /\ i < RawSize
  /\ i' = i + 1 /\ dst' = dst + 1
  /\ IF raw[i] = 0
     THEN /\ wire' = [wire EXCEPT ![codeAt] = code]
          /\ codeAt' = dst
          /\ UNCHANGED code
     ELSE /\ wire' = [wire EXCEPT ![dst] = raw[i]]
          /\ code' = (code + 1) % 256
          /\ UNCHANGED codeAt
  /\ UNCHANGED <<phase, raw, frame, damage, decoder>>

EncodeByte ==
  /\ phase = "encode" /\ i < RawSize
  /\ i' = i + 1 /\ dst' = dst + 1
  /\ IF raw[i] = 0
     THEN /\ wire' = [wire EXCEPT ![codeAt] = code]
          /\ codeAt' = dst
          /\ code' = 1
     ELSE /\ wire' = [wire EXCEPT ![dst] = raw[i]]
          /\ code' = (code + 1) % 256
          /\ UNCHANGED codeAt
  /\ UNCHANGED <<phase, raw, frame, damage, decoder>>

EncodeEnd ==
  /\ phase = "encode" /\ i = RawSize
  /\ phase' = "transit"
  /\ wire' = [wire EXCEPT ![codeAt] = code, ![dst] = 0]
  /\ dst' = dst + 1
  /\ frame' = [k \in 1 .. dst' |-> wire'[k - 1]]
  /\ UNCHANGED <<raw, i, codeAt, code, damage, decoder>>

-----------------------------------------------------------------------------
(* The wire: a byte is altered, lost or added. *)

Damage ==
  /\ phase = "transit" /\ damage < MaxDamage
  /\ damage' = damage + 1
  /\ \E k \in DOMAIN frame :
       \/ \E b \in Noise : frame' = [frame EXCEPT ![k] = b]
       \/ \E b \in Noise : frame' = SubSeq(frame, 1, k - 1) \o <<b>> \o SubSeq(frame, k, Len(frame))
       \/ frame' = SubSeq(frame, 1, k - 1) \o SubSeq(frame, k + 1, Len(frame))
  /\ UNCHANGED <<phase, encoder, code, decoder>>

-----------------------------------------------------------------------------
(* esp32_gossip_decode_and_verify up to the unpacking, and                  *)
(* esp32_cobs_decode_bounded                                                *)

Target == Len(frame) - 1      \* target_decode_len: the delimiter is left out

Stop(v) ==
  /\ verdict' = v /\ phase' = "done"
  /\ UNCHANGED <<encoder, code, frame, damage, src, decoded, left>>

\* The core takes frames of any length.
WellDelimited ==
  /\ Len(frame) >= 2 /\ frame[Len(frame)] = 0
  /\ Strict => Len(frame) <= Cap

BeginDecode ==
  /\ phase = "transit"
  /\ IF WellDelimited
     THEN phase' = "code" /\ UNCHANGED <<encoder, code, frame, damage, decoder>>
     ELSE Stop("CORRUPT_FRAME")

\* uint8_t code = wire_buf[src_idx++];
ReadCode ==
  /\ phase = "code" /\ src < Target
  /\ IF frame[src + 1] = 0 THEN Stop("ZERO_LEAK")
     ELSE /\ code' = frame[src + 1] /\ left' = frame[src + 1] - 1
          /\ src' = src + 1
          /\ phase' = "copy"
          /\ UNCHANGED <<encoder, frame, damage, decoded, verdict>>

\* Mutant: a byte is copied whatever it is.
CopyByteUntrapped ==
  /\ phase = "copy" /\ left > 0
  /\ IF src >= Target \/ Len(decoded) >= RawSize THEN Stop("CORRUPT_FRAME")
     ELSE /\ decoded' = Append(decoded, frame[src + 1])
          /\ src' = src + 1 /\ left' = left - 1
          /\ UNCHANGED <<phase, encoder, code, frame, damage, verdict>>

\* One iteration of the inner loop; only the strict decoder looks at the byte.
CopyByte ==
  /\ phase = "copy" /\ left > 0
  /\ IF src >= Target \/ Len(decoded) >= RawSize THEN Stop("CORRUPT_FRAME")
     ELSE IF Strict /\ frame[src + 1] = 0 THEN Stop("ZERO_LEAK")
     ELSE /\ decoded' = Append(decoded, frame[src + 1])
          /\ src' = src + 1 /\ left' = left - 1
          /\ UNCHANGED <<phase, encoder, code, frame, damage, verdict>>

\* Mutant: the last block, too, stands for a zero.
BlockEndAlwaysZero ==
  /\ phase = "copy" /\ left = 0
  /\ IF code < 255
     THEN IF Len(decoded) >= RawSize THEN Stop("CORRUPT_FRAME")
          ELSE /\ decoded' = Append(decoded, 0)
               /\ phase' = "code"
               /\ UNCHANGED <<encoder, code, frame, damage, src, left, verdict>>
     ELSE phase' = "code" /\ UNCHANGED <<encoder, code, frame, damage, decoder>>

\* Mutant: every block stands for a zero, and there is always room for it.
BlockEndUnbounded ==
  /\ phase = "copy" /\ left = 0
  /\ decoded' = IF code < 255 THEN Append(decoded, 0) ELSE decoded
  /\ phase' = "code"
  /\ UNCHANGED <<encoder, code, frame, damage, src, left, verdict>>

\* The zero a block stands for, unless it is the last one.
BlockEnd ==
  /\ phase = "copy" /\ left = 0
  /\ IF code < 255 /\ src < Target
     THEN IF Len(decoded) >= RawSize THEN Stop("CORRUPT_FRAME")
          ELSE /\ decoded' = Append(decoded, 0)
               /\ phase' = "code"
               /\ UNCHANGED <<encoder, code, frame, damage, src, left, verdict>>
     ELSE phase' = "code" /\ UNCHANGED <<encoder, code, frame, damage, decoder>>

DecodeEnd ==
  /\ phase = "code" /\ src >= Target
  /\ Stop(IF Strict /\ Len(decoded) # RawSize THEN "CORRUPT_FRAME" ELSE "OK")

Next ==
  \/ \E r \in Raws : BeginEncode(r)
  \/ EncodeByte \/ EncodeEnd
  \/ Damage
  \/ BeginDecode \/ ReadCode \/ CopyByte \/ BlockEnd \/ DecodeEnd

Spec == Init /\ [][Next]_vars

-----------------------------------------------------------------------------
(* Properties *)

\* What it is for the frame f to encode the raw bytes r, without the loops: the
\* byte in front of r and every zero of r are replaced by the distance to the
\* next such place (the delimiter being the last), everything else stands as it
\* is.  Bytes of r are counted from 0, those of f from 1.
IsEncoding(f, r) ==
  LET n == Len(f) - 2
      Marks == {1} \cup {k + 2 : k \in {m \in 0 .. n - 1 : r[m] = 0}} \cup {n + 2}
  IN  /\ n >= 0 /\ f[n + 2] = 0
      /\ \A k \in 1 .. n + 1 :
           IF k \in Marks
           THEN /\ k + f[k] \in Marks /\ f[k] > 0
                /\ \A m \in Marks : m > k => m >= k + f[k]
           ELSE f[k] = r[k - 2]

\* The encoder stays within out_wire_buf, the open code byte lies behind the
\* write position, and uint8_t code never wraps: it is the distance of the two.
EncoderInBounds ==
  phase = "encode" =>
    /\ dst = i + 1 /\ dst <= Cap - 1
    /\ codeAt < dst /\ code = dst - codeAt

\* The frame sent is the encoding of the packet's bytes: full length, no zero
\* before the delimiter.
FrameEncodes ==
  phase = "transit" /\ damage = 0 => Len(frame) = Cap /\ IsEncoding(frame, raw)

\* The bytes decoded, counted from 0.
Out == [k \in 0 .. Len(decoded) - 1 |-> decoded[k + 1]]

\* An undamaged frame is accepted, and gives back the bytes packed.
RoundTrip ==
  phase = "done" /\ damage = 0 => verdict = "OK" /\ Out = raw

\* Whatever the wire has done to it, a frame is accepted only if it is the
\* encoding of the bytes decoded: no two frames mean the same bytes, and no frame
\* with a misplaced zero or code byte is read as one.
AcceptedIsCanonical ==
  verdict = "OK" => Len(decoded) = RawSize /\ Len(frame) = Cap /\ IsEncoding(frame, Out)

\* No frame, whatever its code bytes and however long, makes the decoder write past
\* the buffer it was given, or read past the frame: the bytes of a block and the
\* zero a block stands for are written in two places, and each looks at the limit.
DecoderInBounds ==
  /\ Len(decoded) <= RawSize
  /\ phase \in {"code", "copy"} => src <= Target

\* "COBS zero trapping": a frame with a zero before its delimiter is rejected.
ZeroTrapped ==
  verdict = "OK" => \A k \in 1 .. Target : frame[k] # 0
=============================================================================
