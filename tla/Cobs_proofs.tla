------------------------------ MODULE Cobs_proofs ------------------------------
(***************************************************************************)
(* The encoder of esp32_p2p_gossip.c writes the encoding of its packet, and *)
(* only into its buffer, for every frame size up to 253 bytes.              *)
(*                                                                         *)
(* The loop invariant says of the places already passed that everything but *)
(* the open code byte is final: a closed mark counts the bytes to the next  *)
(* mark, every other place holds its byte.                                  *)
(***************************************************************************)
EXTENDS Cobs, TLAPS

\* Place k of the wire is a mark: the first place, or that of a zero.
Mark(k) == k = 0 \/ raw[k - 1] = 0

\* The mark at k counts the bytes to the mark, or the end, at k + wire[k].
Closed(k, wr, end) ==
  /\ wr[k] \in 1 .. end - k
  /\ \A m \in k + 1 .. k + wr[k] - 1 : ~Mark(m)

Encoding ==
  /\ i \in 0 .. RawSize
  /\ wire \in [0 .. Cap - 1 -> Byte]
  /\ dst = i + 1 /\ codeAt \in 0 .. i /\ code = dst - codeAt
  /\ Mark(codeAt)
  /\ \A k \in codeAt + 1 .. i : ~Mark(k) /\ wire[k] = raw[k - 1]
  /\ \A k \in 0 .. codeAt - 1 :
       IF Mark(k) THEN Closed(k, wire, codeAt) /\ Mark(k + wire[k])
       ELSE wire[k] = raw[k - 1]

\* The same of a whole frame f, counted from 1 and the bytes r it stands for: the
\* places before s are final but for the open code byte at c.
MarkIn(r, k) == k = 0 \/ r[k - 1] = 0

Hops(f, r, k, c) ==
  /\ f[k + 1] \in 1 .. c - k /\ MarkIn(r, k + f[k + 1])
  /\ \A m \in k + 1 .. k + f[k + 1] - 1 : ~MarkIn(r, m)

Spells(f, r, c, s) ==
  /\ MarkIn(r, c)
  /\ \A k \in 0 .. c - 1 : IF MarkIn(r, k) THEN Hops(f, r, k, c) ELSE f[k + 1] = r[k - 1]
  /\ \A k \in c + 1 .. s - 1 : ~MarkIn(r, k) /\ f[k + 1] = r[k - 1]

\* The marks of IsEncoding, by their places.
LEMMA MarkPlaces ==
  ASSUME NEW n \in Nat, NEW r, NEW k \in 0 .. n
  PROVE  k + 1 \in {1} \cup {j + 2 : j \in {m \in 0 .. n - 1 : r[m] = 0}} \cup {n + 2}
           <=> MarkIn(r, k)
<1>1. k + 1 # n + 2 /\ (k + 1 = 1 <=> k = 0)
  OBVIOUS
<1>2. (\E m \in 0 .. n - 1 : r[m] = 0 /\ k + 1 = m + 2) <=> k # 0 /\ r[k - 1] = 0
  <2>1. k # 0 => k - 1 \in 0 .. n - 1 /\ k + 1 = (k - 1) + 2
    OBVIOUS
  <2>2. \A m \in 0 .. n - 1 : k + 1 = m + 2 => m = k - 1 /\ k # 0
    OBVIOUS
  <2>. QED
    BY <2>1, <2>2
<1>. QED
  BY <1>1, <1>2 DEF MarkIn

\* A frame whose last code byte reaches the delimiter encodes its bytes.
LEMMA SpellsEncodes ==
  ASSUME NEW n \in Nat, NEW f, NEW r, NEW c \in 0 .. n,
         Len(f) = n + 2, f[n + 2] = 0, f[c + 1] = n + 1 - c, Spells(f, r, c, n + 1)
  PROVE  IsEncoding(f, r)
<1>. DEFINE Marks == {1} \cup {k + 2 : k \in {m \in 0 .. n - 1 : r[m] = 0}} \cup {n + 2}
<1>1. \A k \in 0 .. n : k + 1 \in Marks <=> MarkIn(r, k)
  BY MarkPlaces
<1>2. n + 2 \in Marks /\ \A m \in Marks : m \in 1 .. n + 2
  OBVIOUS
<1>. HIDE DEF Marks
<1>3. ASSUME NEW k \in 0 .. n, MarkIn(r, k)
      PROVE  /\ f[k + 1] \in Nat \ {0} /\ k + 1 + f[k + 1] \in Marks
             /\ \A m \in Marks : m > k + 1 => m >= k + 1 + f[k + 1]
  <2>1. CASE k < c
    <3>1. Hops(f, r, k, c)
      BY <1>3, <2>1 DEF Spells
    <3>2. f[k + 1] \in Nat \ {0} /\ k + f[k + 1] \in 0 .. n /\ MarkIn(r, k + f[k + 1])
      BY <2>1, <3>1 DEF Hops
    <3>3. ASSUME NEW m \in Marks, m > k + 1, m < k + 1 + f[k + 1] PROVE FALSE
      <4>. DEFINE d == f[k + 1]
      <4>0. m \in 1 .. n + 2 /\ d \in Nat \ {0} /\ k + d \in 0 .. n /\ m > k + 1 /\ m < k + 1 + d
        BY <1>2, <3>2, <3>3
      <4>. HIDE DEF d
      <4>2. m - 1 \in k + 1 .. k + d - 1 /\ m - 1 \in 0 .. n /\ (m - 1) + 1 = m
        BY <4>0
      <4>1. m - 1 \in k + 1 .. k + f[k + 1] - 1 /\ m - 1 \in 0 .. n /\ (m - 1) + 1 = m
        BY <4>2 DEF d
      <4>. QED
        BY <1>1, <3>1, <3>3, <4>1 DEF Hops
    <3>4. (k + f[k + 1]) + 1 \in Marks
      BY <1>1, <3>2
    <3>5. (k + f[k + 1]) + 1 = k + 1 + f[k + 1]
      BY <3>2
    <3>6. ASSUME NEW m \in Marks, m > k + 1 PROVE m >= k + 1 + f[k + 1]
      <4>. DEFINE d == f[k + 1]
      <4>1. m \in 1 .. n + 2 /\ d \in Nat /\ ~(m < k + 1 + d)
        BY <1>2, <3>2, <3>3, <3>6
      <4>. HIDE DEF d
      <4>2. m >= k + 1 + d
        BY <4>1
      <4>. QED
        BY <4>2 DEF d
    <3>. QED
      BY <3>2, <3>4, <3>5, <3>6
  <2>2. CASE k = c
    <3>1. ASSUME NEW m \in Marks, m > k + 1, m < n + 2 PROVE FALSE
      <4>1. m - 1 \in c + 1 .. n /\ m - 1 \in 0 .. n /\ (m - 1) + 1 = m
        BY <1>2, <2>2, <3>1
      <4>. QED
        BY <1>1, <3>1, <4>1 DEF Spells
    <3>. QED
      BY <1>2, <2>2, <3>1
  <2>3. CASE k > c
    BY <1>3, <2>3 DEF Spells
  <2>. QED
    BY <2>1, <2>2, <2>3
<1>4. ASSUME NEW k \in 0 .. n, ~MarkIn(r, k) PROVE f[k + 1] = r[k - 1]
  BY <1>4 DEF Spells
<1>5. ASSUME NEW k \in 1 .. n + 1
      PROVE  IF k \in Marks
             THEN /\ k + f[k] \in Marks /\ f[k] > 0
                  /\ \A m \in Marks : m > k => m >= k + f[k]
             ELSE f[k] = r[k - 2]
  <2>1. k - 1 \in 0 .. n /\ (k - 1) + 1 = k /\ (k - 1) - 1 = k - 2
    OBVIOUS
  <2>2. CASE MarkIn(r, k - 1)
    <3>1. /\ k \in Marks
          /\ f[k] \in Nat \ {0} /\ k + f[k] \in Marks
          /\ \A m \in Marks : m > k => m >= k + f[k]
      BY <1>1, <1>3, <2>1, <2>2
    <3>. QED
      BY <3>1
  <2>3. CASE ~MarkIn(r, k - 1)
    BY <1>1, <1>4, <2>1, <2>3
  <2>. QED
    BY <2>2, <2>3
<1>. QED
  BY <1>5 DEF IsEncoding, Marks

\* The other way round: what an encoding says of each of its places.
LEMMA EncodingHops ==
  ASSUME NEW n \in Nat, NEW f \in Seq(Byte), NEW r, Len(f) = n + 2, IsEncoding(f, r),
         NEW k \in 0 .. n
  PROVE  IF MarkIn(r, k)
         THEN /\ f[k + 1] \in 1 .. n + 1 - k
              /\ k + f[k + 1] = n + 1 \/ MarkIn(r, k + f[k + 1])
              /\ \A m \in k + 1 .. k + f[k + 1] - 1 : ~MarkIn(r, m)
         ELSE f[k + 1] = r[k - 1]
<1>. DEFINE Marks == {1} \cup {j + 2 : j \in {m \in 0 .. n - 1 : r[m] = 0}} \cup {n + 2}
<1>1. \A m \in 0 .. n : m + 1 \in Marks <=> MarkIn(r, m)
  BY MarkPlaces
<1>2. n + 2 \in Marks /\ \A m \in Marks : m \in 1 .. n + 2
  OBVIOUS
<1>3. k + 1 \in 1 .. n + 1 /\ f[k + 1] \in Int /\ Len(f) - 2 = n
  <2>1. k + 1 \in 1 .. Len(f) /\ k + 1 \in 1 .. n + 1 /\ Len(f) - 2 = n
    OBVIOUS
  <2>2. f[k + 1] \in Byte
    BY <2>1
  <2>3. \A b \in Byte : b \in Int
    BY DEF Byte
  <2>. QED
    BY <2>1, <2>2, <2>3
<1>4. IF k + 1 \in Marks
      THEN /\ (k + 1) + f[k + 1] \in Marks /\ f[k + 1] > 0
           /\ \A m \in Marks : m > k + 1 => m >= (k + 1) + f[k + 1]
      ELSE f[k + 1] = r[(k + 1) - 2]
  BY <1>3 DEF IsEncoding
<1>. HIDE DEF Marks
<1>5. CASE MarkIn(r, k)
  <2>1. /\ (k + 1) + f[k + 1] \in Marks /\ f[k + 1] > 0
        /\ \A m \in Marks : m > k + 1 => m >= (k + 1) + f[k + 1]
    BY <1>1, <1>4, <1>5
  <2>2. f[k + 1] \in 1 .. n + 1 - k
    BY <1>2, <1>3, <2>1
  <2>3. k + f[k + 1] # n + 1 => MarkIn(r, k + f[k + 1])
    <3>1. k + f[k + 1] # n + 1 => k + f[k + 1] \in 0 .. n
      BY <2>2
    <3>2. (k + f[k + 1]) + 1 \in Marks
      BY <1>3, <2>1
    <3>. QED
      BY <1>1, <3>1, <3>2
  <2>4. ASSUME NEW m \in k + 1 .. k + f[k + 1] - 1, MarkIn(r, m) PROVE FALSE
    <3>1. m \in 0 .. n /\ m + 1 > k + 1 /\ m + 1 < (k + 1) + f[k + 1]
      BY <2>2
    <3>2. m + 1 \in Marks
      BY <1>1, <2>4, <3>1
    <3>3. m + 1 >= (k + 1) + f[k + 1]
      BY <2>1, <3>1, <3>2
    <3>. QED
      BY <2>2, <3>1, <3>3
  <2>. QED
    BY <1>5, <2>2, <2>3, <2>4
<1>6. CASE ~MarkIn(r, k)
  BY <1>1, <1>4, <1>6, (k + 1) - 2 = k - 1
<1>. QED
  BY <1>5, <1>6

EncInv ==
  /\ damage \in Nat
  /\ raw \in [0 .. RawSize - 1 -> Byte]
  /\ phase = "encode" => Encoding
  /\ FrameEncodes

LEMMA EncInit == Init => EncInv
  BY CobsAssumption DEF Init, EncInv, FrameEncodes, Byte

LEMMA EncBegin ==
  ASSUME EncInv, NEW r \in Raws, BeginEncode(r)
  PROVE  EncInv'
<1>1. /\ raw' \in [0 .. RawSize - 1 -> Byte]
      /\ wire' \in [0 .. Cap - 1 -> Byte]
      /\ i' = 0 /\ dst' = 1 /\ codeAt' = 0 /\ code' = 1
      /\ phase' = "encode" /\ damage' = 0
  <2>1. 0 \in Byte
    BY DEF Byte
  <2>. QED
    BY <2>1, CobsAssumption DEF BeginEncode
<1>2. Encoding'
  BY <1>1, CobsAssumption DEF Encoding, Mark
<1>. QED
  BY <1>1, <1>2 DEF EncInv, FrameEncodes

LEMMA EncByte ==
  ASSUME EncInv, EncodeByte
  PROVE  EncInv'
<1>1. Encoding /\ i < RawSize /\ raw' = raw /\ damage' = damage /\ phase' = "encode"
  BY DEF EncodeByte, EncInv
<1>2. \A k \in 0 .. RawSize : Mark(k)' <=> Mark(k)
  BY <1>1 DEF Mark
<1>3. CASE raw[i] = 0
  <2>1. /\ wire' = [wire EXCEPT ![codeAt] = code]
        /\ codeAt' = dst /\ code' = 1 /\ i' = i + 1 /\ dst' = dst + 1
    BY <1>3 DEF EncodeByte
  <2>2. code \in Byte
    BY <1>1, CobsAssumption DEF Encoding, Byte
  <2>3. wire' \in [0 .. Cap - 1 -> Byte] /\ codeAt \in 0 .. Cap - 1
    BY <1>1, <2>1, <2>2, CobsAssumption DEF Encoding, Cap
  <2>4. /\ wire'[codeAt] = code
        /\ \A k \in 0 .. Cap - 1 : k # codeAt => wire'[k] = wire[k]
    BY <1>1, <2>1, <2>3 DEF Encoding
  <2>5. Mark(codeAt')
    BY <1>1, <1>3, <2>1 DEF Encoding, Mark
  <2>6. ASSUME NEW k \in 0 .. codeAt' - 1
        PROVE  IF Mark(k) THEN Closed(k, wire', codeAt') /\ Mark(k + wire'[k])
               ELSE wire'[k] = raw[k - 1]
    <3>1. CASE k < codeAt
      BY <1>1, <2>1, <2>4, <3>1, CobsAssumption DEF Encoding, Closed, Cap
    <3>2. CASE k = codeAt
      BY <1>1, <2>1, <2>4, <2>5, <3>2, CobsAssumption DEF Encoding, Closed, Cap
    <3>3. CASE k > codeAt
      BY <1>1, <2>1, <2>4, <3>3, CobsAssumption DEF Encoding, Cap
    <3>. QED
      BY <1>1, <2>1, <3>1, <3>2, <3>3 DEF Encoding
  <2>7. Encoding'
    BY <1>1, <1>2, <2>1, <2>3, <2>5, <2>6, CobsAssumption DEF Encoding, Closed, Cap, Mark
  <2>. QED
    BY <1>1, <2>7 DEF EncInv, FrameEncodes
<1>4. CASE raw[i] # 0
  <2>1. /\ wire' = [wire EXCEPT ![dst] = raw[i]]
        /\ codeAt' = codeAt /\ code' = (code + 1) % 256 /\ i' = i + 1 /\ dst' = dst + 1
    BY <1>4 DEF EncodeByte
  <2>2. code' = code + 1
    <3>1. code \in 0 .. 254
      BY <1>1, CobsAssumption DEF Encoding
    <3>. QED
      BY <2>1, <3>1
  <2>3. /\ wire' \in [0 .. Cap - 1 -> Byte]
        /\ wire'[dst] = raw[i]
        /\ \A k \in 0 .. Cap - 1 : k # dst => wire'[k] = wire[k]
    BY <1>1, <2>1, CobsAssumption DEF Encoding, EncInv, Cap
  <2>4. ~Mark(dst)
    BY <1>1, <1>4 DEF Encoding, Mark
  <2>5. \A k \in codeAt + 1 .. i + 1 : ~Mark(k) /\ wire'[k] = raw[k - 1]
    BY <1>1, <2>3, <2>4, CobsAssumption DEF Encoding, Cap
  <2>6. \A k \in 0 .. codeAt - 1 :
          IF Mark(k) THEN Closed(k, wire', codeAt) /\ Mark(k + wire'[k])
          ELSE wire'[k] = raw[k - 1]
    BY <1>1, <2>3, CobsAssumption DEF Encoding, Closed, Cap
  <2>7. Encoding'
    BY <1>1, <1>2, <2>1, <2>2, <2>3, <2>5, <2>6, CobsAssumption
    DEF Encoding, Closed, Cap, Mark
  <2>. QED
    BY <1>1, <2>7 DEF EncInv, FrameEncodes
<1>. QED
  BY <1>3, <1>4

LEMMA EncEnd ==
  ASSUME EncInv, EncodeEnd
  PROVE  EncInv'
<1>1. /\ Encoding /\ i = RawSize /\ raw' = raw /\ damage' = damage /\ phase' = "transit"
      /\ wire' = [wire EXCEPT ![codeAt] = code, ![dst] = 0]
      /\ frame' = [k \in 1 .. dst + 1 |-> wire'[k - 1]]
  BY DEF EncodeEnd, EncInv
<1>2. code \in 1 .. RawSize + 1 /\ dst = RawSize + 1 /\ codeAt \in 0 .. RawSize
  BY <1>1, CobsAssumption DEF Encoding
<1>3. /\ wire'[codeAt] = code /\ wire'[dst] = 0
      /\ \A k \in 0 .. Cap - 1 : k # codeAt /\ k # dst => wire'[k] = wire[k]
  BY <1>1, <1>2, CobsAssumption DEF Encoding, Cap
<1>4. Len(frame') = Cap /\ \A k \in 1 .. Cap : frame'[k] = wire'[k - 1]
  BY <1>1, <1>2, CobsAssumption DEF Cap
<1>5. \A k \in 0 .. RawSize : Mark(k) <=> MarkIn(raw, k)
  BY DEF Mark, MarkIn
<1>6. \A k \in 0 .. RawSize : frame'[k + 1] = IF k = codeAt THEN code ELSE wire[k]
  <2>. SUFFICES ASSUME NEW k \in 0 .. RawSize
                PROVE  frame'[k + 1] = IF k = codeAt THEN code ELSE wire[k]
    OBVIOUS
  <2>1. k + 1 \in 1 .. Cap /\ (k + 1) - 1 = k /\ k \in 0 .. Cap - 1 /\ k # dst
    BY <1>2, CobsAssumption DEF Cap
  <2>. QED
    BY <1>3, <1>4, <2>1
<1>7. Spells(frame', raw, codeAt, RawSize + 1)
  <2>1. MarkIn(raw, codeAt)
    BY <1>1, <1>2, <1>5 DEF Encoding
  <2>2. ASSUME NEW k \in 0 .. codeAt - 1
        PROVE  IF MarkIn(raw, k) THEN Hops(frame', raw, k, codeAt)
               ELSE frame'[k + 1] = raw[k - 1]
    <3>1. frame'[k + 1] = wire[k] /\ k \in 0 .. RawSize
      BY <1>2, <1>6, CobsAssumption
    <3>2. Mark(k) => /\ wire[k] \in 1 .. codeAt - k /\ Mark(k + wire[k])
                     /\ \A m \in k + 1 .. k + wire[k] - 1 : ~Mark(m)
      BY <1>1 DEF Encoding, Closed
    <3>. QED
      BY <1>1, <1>2, <1>5, <3>1, <3>2 DEF Encoding, Hops, Mark, MarkIn
  <2>3. ASSUME NEW k \in codeAt + 1 .. RawSize
        PROVE  ~MarkIn(raw, k) /\ frame'[k + 1] = raw[k - 1]
    <3>1. k \in 0 .. RawSize /\ k # codeAt /\ k \in codeAt + 1 .. i
      BY <1>1, <1>2, CobsAssumption
    <3>2. ~Mark(k) /\ wire[k] = raw[k - 1]
      BY <1>1, <3>1 DEF Encoding
    <3>3. frame'[k + 1] = wire[k]
      BY <1>6, <3>1
    <3>. QED
      BY <1>5, <3>1, <3>2, <3>3
  <2>4. \A k \in codeAt + 1 .. (RawSize + 1) - 1 : k \in codeAt + 1 .. RawSize
    BY CobsAssumption
  <2>. QED
    BY <2>1, <2>2, <2>3, <2>4 DEF Spells
<1>8. IsEncoding(frame', raw)
  <2>1. RawSize \in Nat /\ Len(frame') = RawSize + 2 /\ frame'[RawSize + 2] = 0
    BY <1>2, <1>3, <1>4, CobsAssumption DEF Cap
  <2>2. frame'[codeAt + 1] = RawSize + 1 - codeAt
    <3>1. frame'[codeAt + 1] = code
      BY <1>2, <1>6
    <3>2. code = dst - codeAt
      BY <1>1 DEF Encoding
    <3>. QED
      BY <1>2, <3>1, <3>2, CobsAssumption
  <2>. QED
    BY <1>2, <1>7, <2>1, <2>2, SpellsEncodes
<1>. QED
  BY <1>1, <1>4, <1>8 DEF EncInv, FrameEncodes

LEMMA EncOther ==
  ASSUME EncInv, \/ Damage \/ BeginDecode \/ ReadCode \/ CopyByte \/ BlockEnd \/ DecodeEnd
                 \/ UNCHANGED vars
  PROVE  EncInv'
<1>1. CASE Damage
  <2>1. /\ damage' = damage + 1 /\ phase' = phase /\ phase = "transit"
        /\ UNCHANGED encoder
    BY <1>1 DEF Damage
  <2>. QED
    BY <2>1 DEF EncInv, FrameEncodes, encoder
<1>2. CASE BeginDecode \/ ReadCode \/ CopyByte \/ BlockEnd \/ DecodeEnd
  <2>1. raw' = raw /\ damage' = damage /\ phase' \in {"code", "copy", "done"}
    BY <1>2 DEF BeginDecode, ReadCode, CopyByte, BlockEnd, DecodeEnd, Stop, encoder
  <2>. QED
    BY <2>1 DEF EncInv, FrameEncodes
<1>3. CASE UNCHANGED vars
  BY <1>3 DEF EncInv, Encoding, FrameEncodes, Mark, Closed, vars, encoder
<1>. QED
  BY <1>1, <1>2, <1>3

\* The loop invariant of the encoder holds throughout, while frames are decoded and
\* damaged too.
THEOREM EncInvariance == Spec => []EncInv
<1>1. EncInv /\ [Next]_vars => EncInv'
  BY EncBegin, EncByte, EncEnd, EncOther DEF Next
<1>. QED
  BY EncInit, <1>1, PTL DEF Spec

\* esp32_gossip_encode_frame never writes outside out_wire_buf and its uint8_t
\* code never wraps.
THEOREM CobsEncoderInBounds == Spec => []EncoderInBounds
<1>1. EncInv => EncoderInBounds
  BY CobsAssumption DEF EncInv, Encoding, EncoderInBounds, Cap
<1>. QED
  BY <1>1, EncInvariance, PTL

\* Every frame it sends is the encoding of the packet, delimiter included.
THEOREM CobsFrameEncodes == Spec => []FrameEncodes
<1>1. EncInv => FrameEncodes
  BY DEF EncInv
<1>. QED
  BY <1>1, EncInvariance, PTL

-----------------------------------------------------------------------------
(***************************************************************************)
(* The decoder.  What it has read of a frame and what it has written are in *)
(* step: after src bytes of the frame the bytes decoded number src, or one  *)
(* less inside a block and at the end of the frame.  No block of 254 bytes  *)
(* fits a frame, so that a code byte of 255, the one that stands for no     *)
(* zero, is never followed to its end.                                      *)
(***************************************************************************)
\* The code byte of the block being copied.
Start == src + left - code

DecInv ==
  /\ phase \in {"idle", "encode", "transit", "code", "copy", "done"}
  /\ frame \in Seq(Byte) /\ decoded \in Seq(Byte) /\ Len(decoded) <= RawSize
  /\ phase \in {"idle", "encode", "transit"} => src = 0 /\ decoded = <<>>
  /\ phase # "done" => verdict = "NONE"
  /\ phase \in {"code", "copy"} => WellDelimited /\ src \in 0 .. Target
  /\ phase = "code" => Len(decoded) = IF src < Target THEN src ELSE src - 1
  /\ phase = "copy" =>
       /\ left \in Nat /\ code \in 1 .. 255 /\ Start \in 0 .. src - 1
       /\ code = frame[Start + 1] /\ Len(decoded) = src - 1

\* Where the decoder stands.
LEMMA DecTyped ==
  ASSUME DecInv, phase \in {"code", "copy"}
  PROVE  /\ Len(frame) \in Nat /\ Target \in Nat /\ Target > 0
         /\ src \in Nat /\ src <= Target
         /\ Len(decoded) \in Nat /\ Len(decoded) <= RawSize
         /\ WellDelimited
<1>1. Len(frame) \in Nat /\ Len(decoded) \in Nat /\ Len(decoded) <= RawSize
  BY DEF DecInv
<1>2. WellDelimited /\ src \in 0 .. Target
  BY DEF DecInv
<1>3. Target \in Nat /\ Target > 0
  BY <1>1, <1>2 DEF Target, WellDelimited
<1>. QED
  BY <1>1, <1>2, <1>3

\* Inside a block, it is left bytes away from the end of the block.
LEMMA CopyTyped ==
  ASSUME DecInv, phase = "copy"
  PROVE  /\ left \in Nat /\ code \in 1 .. 255 /\ Start \in 0 .. src - 1
         /\ src = Start + code - left
         /\ code = frame[Start + 1] /\ Len(decoded) = src - 1
<1>1. /\ left \in Nat /\ code \in 1 .. 255 /\ Start \in 0 .. src - 1
      /\ code = frame[Start + 1] /\ Len(decoded) = src - 1
  BY DEF DecInv
<1>2. src \in Nat
  BY DecTyped
<1>3. src = Start + code - left
  BY <1>1, <1>2 DEF Start
<1>. QED
  BY <1>1, <1>3

\* The bytes the decoder reads are bytes.
LEMMA FrameByte ==
  ASSUME DecInv, phase \in {"code", "copy"}, src < Target
  PROVE  /\ Target \in Nat /\ src + 1 \in 1 .. Len(frame)
         /\ frame[src + 1] \in Byte /\ frame[src + 1] \in 0 .. 255
<1>1. Len(frame) \in Nat /\ src \in Nat
  BY DEF DecInv, Target
<1>2. src + 1 \in 1 .. Len(frame) /\ Target \in Nat
  BY <1>1 DEF Target
<1>3. frame[src + 1] \in Byte
  BY <1>2 DEF DecInv
<1>. QED
  BY <1>2, <1>3 DEF Byte

\* Appending a byte keeps the bytes decoded before it.
LEMMA AppendOut ==
  ASSUME decoded \in Seq(Byte), NEW b \in Byte, decoded' = Append(decoded, b)
  PROVE  /\ decoded' \in Seq(Byte) /\ Len(decoded) \in Nat
         /\ Len(decoded') = Len(decoded) + 1
         /\ Out'[Len(decoded)] = b
         /\ \A k \in 0 .. Len(decoded) - 1 : Out'[k] = Out[k]
<1>1. /\ decoded' \in Seq(Byte) /\ Len(decoded) \in Nat
      /\ Len(decoded') = Len(decoded) + 1 /\ decoded'[Len(decoded) + 1] = b
      /\ \A k \in 1 .. Len(decoded) : decoded'[k] = decoded[k]
  OBVIOUS
<1>2. Out' = [k \in 0 .. Len(decoded) |-> decoded'[k + 1]]
  BY <1>1 DEF Out
<1>. QED
  BY <1>1, <1>2 DEF Out

\* Reading a code byte opens a block.
LEMMA ReadCodeInv == ASSUME DecInv, ReadCode PROVE DecInv'
<1>1. PICK b \in 0 .. 255 : b = frame[src + 1]
  BY FrameByte DEF ReadCode
<1>2. /\ src \in Nat /\ Target \in Nat /\ src < Target /\ WellDelimited
      /\ Len(decoded) = src
  BY DecTyped DEF ReadCode, DecInv
<1>3. CASE b = 0
  BY <1>1, <1>3 DEF ReadCode, Stop, DecInv
<1>4. CASE b # 0
  <2>1. /\ code' = b /\ left' = b - 1 /\ src' = src + 1
        /\ phase' = "copy" /\ frame' = frame /\ decoded' = decoded /\ verdict' = verdict
    BY <1>1, <1>4 DEF ReadCode, encoder
  <2>2. Start' = src /\ left' \in Nat /\ code' \in 1 .. 255 /\ src' \in 0 .. Target
    BY <1>2, <1>4, <2>1 DEF Start
  <2>3. WellDelimited' /\ Target' = Target
    BY <1>2, <2>1 DEF WellDelimited, Target
  <2>4. /\ frame \in Seq(Byte) /\ decoded \in Seq(Byte) /\ Len(decoded) <= RawSize
        /\ verdict = "NONE"
    BY DEF DecInv, ReadCode
  <2>5. Start' \in 0 .. src' - 1 /\ code' = frame'[Start' + 1] /\ Len(decoded') = src' - 1
    BY <1>1, <1>2, <2>1, <2>2
  <2>. HIDE DEF Start, Target, WellDelimited
  <2>. QED
    BY <2>1, <2>2, <2>3, <2>4, <2>5 DEF DecInv
<1>. QED
  BY <1>3, <1>4

\* Copying a byte keeps the reading and the writing in step.
LEMMA CopyByteInv == ASSUME DecInv, CopyByte PROVE DecInv'
<1>1. CASE phase' = "done"
  BY <1>1 DEF CopyByte, Stop, DecInv
<1>2. CASE phase' # "done"
  <2>1. /\ decoded' = Append(decoded, frame[src + 1]) /\ src' = src + 1 /\ left' = left - 1
        /\ phase' = "copy" /\ frame' = frame /\ code' = code /\ verdict' = verdict
        /\ ~(src >= Target) /\ ~(Len(decoded) >= RawSize) /\ left > 0
    BY <1>2 DEF CopyByte, Stop
  <2>2. Target \in Nat /\ src \in Nat /\ src < Target
    <3>1. phase = "copy"
      BY DEF CopyByte
    <3>2. Target \in Nat /\ src \in Nat
      BY <3>1, DecTyped
    <3>3. ~(src >= Target)
      BY <2>1
    <3>. QED
      BY <3>2, <3>3
  <2>3. frame[src + 1] \in Byte
    BY <2>2, FrameByte DEF CopyByte
  <2>4. /\ decoded' \in Seq(Byte) /\ Len(decoded') = Len(decoded) + 1
        /\ Len(decoded') <= RawSize
    BY <2>1, <2>3, AppendOut, CobsAssumption DEF DecInv
  <2>5. /\ left \in Nat /\ code \in 1 .. 255 /\ Start \in 0 .. src - 1
        /\ code = frame[Start + 1] /\ Len(decoded) = src - 1
    BY CopyTyped DEF CopyByte
  <2>6. Start' = Start
    BY <2>1, <2>2, <2>5 DEF Start
  <2>7. WellDelimited' /\ Target' = Target
    BY <2>1, DecTyped DEF CopyByte, WellDelimited, Target
  <2>8. left' \in Nat /\ src' \in 0 .. Target /\ Start \in 0 .. src' - 1
    BY <2>1, <2>2, <2>5
  <2>9. /\ frame' \in Seq(Byte) /\ verdict' = "NONE"
        /\ code' = frame'[Start' + 1] /\ Len(decoded') = src' - 1
    BY <2>1, <2>2, <2>4, <2>5, <2>6 DEF DecInv, CopyByte
  <2>. QED
    BY <2>1, <2>4, <2>5, <2>6, <2>7, <2>8, <2>9 DEF DecInv
<1>. QED
  BY <1>1, <1>2

\* A block of 254 bytes would not have fitted.
LEMMA NoFullBlock ==
  ASSUME DecInv, phase = "copy", left = 0
  PROVE  code < 255 /\ src = Start + code /\ Start \in 0 .. src - 1 /\ src \in Nat
<1>1. src \in Nat /\ Len(decoded) <= RawSize
  BY DecTyped
<1>2. /\ code \in 1 .. 255 /\ Start \in 0 .. src - 1
      /\ src = Start + code - left /\ Len(decoded) = src - 1
  BY CopyTyped
<1>. HIDE DEF Start
<1>. QED
  BY <1>1, <1>2, CobsAssumption

\* The end of a block keeps them in step.
LEMMA BlockEndInv == ASSUME DecInv, BlockEnd PROVE DecInv'
<1>1. CASE phase' = "done"
  BY <1>1 DEF BlockEnd, Stop, DecInv
<1>2. code < 255 /\ src \in Nat /\ src > 0 /\ Target \in Int /\ src <= Target
  BY NoFullBlock DEF BlockEnd, DecInv, Target
<1>3. CASE phase' # "done" /\ src < Target
  <2>1. /\ decoded' = Append(decoded, 0) /\ src' = src /\ phase' = "code"
        /\ frame' = frame /\ verdict' = verdict /\ ~(Len(decoded) >= RawSize)
    BY <1>2, <1>3 DEF BlockEnd, Stop
  <2>2. 0 \in Byte
    BY DEF Byte
  <2>3. decoded' \in Seq(Byte) /\ Len(decoded') = Len(decoded) + 1 /\ Len(decoded') <= RawSize
    BY <2>1, <2>2, AppendOut, CobsAssumption DEF DecInv
  <2>. QED
    BY <1>2, <1>3, <2>1, <2>3 DEF DecInv, BlockEnd, WellDelimited, Target
<1>4. CASE ~(src < Target)
  <2>1. /\ decoded' = decoded /\ src' = src /\ phase' = "code"
        /\ frame' = frame /\ verdict' = verdict
    BY <1>4 DEF BlockEnd, decoder
  <2>. QED
    BY <1>2, <1>4, <2>1 DEF DecInv, BlockEnd, WellDelimited, Target
<1>. QED
  BY <1>1, <1>3, <1>4

\* So do the steps before the decoder starts and the one it ends with.
LEMMA DecOtherInv ==
  ASSUME EncInv, DecInv,
         \/ \E r \in Raws : BeginEncode(r)
         \/ EncodeByte \/ EncodeEnd \/ Damage \/ BeginDecode \/ DecodeEnd
         \/ UNCHANGED vars
  PROVE  DecInv'
<1>1. CASE \E r \in Raws : BeginEncode(r)
  BY <1>1, CobsAssumption DEF BeginEncode, DecInv
<1>2. CASE EncodeByte
  BY <1>2 DEF EncodeByte, DecInv, decoder
<1>3. CASE EncodeEnd
  <2>1. /\ phase' = "transit" /\ dst + 1 \in Nat
        /\ wire' \in [0 .. Cap - 1 -> Byte] /\ dst + 1 = Cap
        /\ frame' = [k \in 1 .. dst + 1 |-> wire'[k - 1]]
    <3>1. /\ Encoding /\ i = RawSize
          /\ wire' = [wire EXCEPT ![codeAt] = code, ![dst] = 0]
      BY <1>3 DEF EncodeEnd, EncInv
    <3>2. code \in Byte /\ 0 \in Byte
      BY <3>1, CobsAssumption DEF Encoding, Byte
    <3>3. /\ codeAt \in 0 .. Cap - 1 /\ dst \in 0 .. Cap - 1
          /\ dst + 1 \in Nat /\ dst + 1 = Cap /\ wire \in [0 .. Cap - 1 -> Byte]
      BY <3>1, CobsAssumption DEF Encoding, Cap
    <3>4. wire' \in [0 .. Cap - 1 -> Byte]
      BY <3>1, <3>2, <3>3
    <3>5. phase' = "transit" /\ frame' = [k \in 1 .. dst + 1 |-> wire'[k - 1]]
      BY <1>3 DEF EncodeEnd
    <3>. QED
      BY <3>3, <3>4, <3>5
  <2>2. \A k \in 1 .. Cap : wire'[k - 1] \in Byte
    BY <2>1, CobsAssumption DEF Cap
  <2>3. frame' \in Seq(Byte)
    BY <2>1, <2>2
  <2>. QED
    BY <1>3, <2>3 DEF EncodeEnd, DecInv, decoder
<1>4. CASE Damage
  <2>1. frame' \in Seq(Byte)
    <3>1. PICK k \in DOMAIN frame :
            \/ \E b \in Noise : frame' = [frame EXCEPT ![k] = b]
            \/ \E b \in Noise :
                 frame' = SubSeq(frame, 1, k - 1) \o <<b>> \o SubSeq(frame, k, Len(frame))
            \/ frame' = SubSeq(frame, 1, k - 1) \o SubSeq(frame, k + 1, Len(frame))
      BY <1>4 DEF Damage
    <3>2. frame \in Seq(Byte) /\ k \in 1 .. Len(frame) /\ Len(frame) \in Nat
      BY <3>1 DEF DecInv
    <3>3. \A b \in Noise : b \in Byte /\ <<b>> \in Seq(Byte)
      BY CobsAssumption
    <3>4. /\ SubSeq(frame, 1, k - 1) \in Seq(Byte) /\ SubSeq(frame, k, Len(frame)) \in Seq(Byte)
          /\ SubSeq(frame, k + 1, Len(frame)) \in Seq(Byte)
      BY <3>2
    <3>5. \A s, t \in Seq(Byte) : s \o t \in Seq(Byte)
      OBVIOUS
    <3>6. ASSUME NEW b \in Noise, frame' = [frame EXCEPT ![k] = b] PROVE frame' \in Seq(Byte)
      BY <3>2, <3>3, <3>6
    <3>7. ASSUME NEW b \in Noise,
                 frame' = SubSeq(frame, 1, k - 1) \o <<b>> \o SubSeq(frame, k, Len(frame))
          PROVE  frame' \in Seq(Byte)
      <4>1. SubSeq(frame, 1, k - 1) \o <<b>> \in Seq(Byte)
        BY <3>3, <3>4, <3>5
      <4>. QED
        BY <4>1, <3>4, <3>5, <3>7, Zenon
    <3>8. ASSUME frame' = SubSeq(frame, 1, k - 1) \o SubSeq(frame, k + 1, Len(frame))
          PROVE  frame' \in Seq(Byte)
      BY <3>4, <3>5, <3>8, Zenon
    <3>. QED
      BY <3>1, <3>6, <3>7, <3>8, Zenon
  <2>. QED
    BY <1>4, <2>1 DEF Damage, DecInv, decoder
<1>5. CASE BeginDecode
  <2>1. CASE WellDelimited
    <3>1. Len(frame) \in Nat /\ Target \in Nat /\ Target > 0
      BY <2>1 DEF DecInv, WellDelimited, Target
    <3>2. /\ phase' = "code" /\ frame' = frame /\ decoded' = <<>> /\ src' = 0
          /\ verdict' = verdict
      BY <1>5, <2>1 DEF BeginDecode, decoder, DecInv
    <3>3. WellDelimited' /\ Target' = Target
      BY <2>1, <3>2 DEF WellDelimited, Target
    <3>4. verdict = "NONE" /\ frame \in Seq(Byte) /\ Len(<<>>) = 0 /\ <<>> \in Seq(Byte)
      BY <1>5 DEF BeginDecode, DecInv
    <3>5. RawSize >= 0 /\ 0 \in 0 .. Target
      BY <3>1, CobsAssumption
    <3>. QED
      BY <3>1, <3>2, <3>3, <3>4, <3>5 DEF DecInv
  <2>2. CASE ~WellDelimited
    BY <1>5, <2>2 DEF BeginDecode, Stop, DecInv
  <2>. QED
    BY <2>1, <2>2
<1>6. CASE DecodeEnd
  BY <1>6 DEF DecodeEnd, Stop, DecInv
<1>7. CASE UNCHANGED vars
  BY <1>7 DEF vars, encoder, decoder, DecInv, WellDelimited, Target, Start
<1>. QED
  BY <1>1, <1>2, <1>3, <1>4, <1>5, <1>6, <1>7

\* The encoder's and the decoder's invariants hold of every behaviour.
LEMMA DecInvariance == Spec => [](EncInv /\ DecInv)
<1>1. Init => DecInv
  BY CobsAssumption DEF Init, DecInv
<1>2. EncInv /\ DecInv /\ [Next]_vars => DecInv'
  BY ReadCodeInv, CopyByteInv, BlockEndInv, DecOtherInv DEF Next
<1>. QED
  BY <1>1, <1>2, EncInvariance, PTL DEF Spec

\* Neither decoder writes past its buffer or reads past the frame, whatever frame it
\* is given.
THEOREM CobsDecoderInBounds == Spec => []DecoderInBounds
<1>1. DecInv => DecoderInBounds
  <2>. SUFFICES ASSUME DecInv PROVE DecoderInBounds
    OBVIOUS
  <2>1. Len(decoded) <= RawSize
    BY DEF DecInv
  <2>2. phase \in {"code", "copy"} => src <= Target
    BY DecTyped
  <2>. QED
    BY <2>1, <2>2 DEF DecoderInBounds
<1>. QED
  BY <1>1, DecInvariance, PTL

-----------------------------------------------------------------------------
(***************************************************************************)
(* What is accepted.  As far as the strict decoder has read, the frame      *)
(* spells the bytes decoded, with the block in progress open; the last      *)
(* block is closed by the delimiter.                                        *)
(***************************************************************************)
CanonInv ==
  /\ phase = "code" /\ src < Target => Spells(frame, Out, src, src)
  /\ phase = "code" /\ src = Target =>
       \E c \in 0 .. src - 1 : Spells(frame, Out, c, src) /\ frame[c + 1] = src - c
  /\ phase = "copy" => Spells(frame, Out, Start, src)
  /\ AcceptedIsCanonical

\* What has been spelled depends on the bytes before it only.
LEMMA SpellsLocal ==
  ASSUME NEW f, NEW r, NEW t, NEW s \in Nat, NEW c \in 0 .. s,
         \A k \in 0 .. s - 2 : t[k] = r[k],
         c = s => MarkIn(t, s),
         Spells(f, r, c, s)
  PROVE  Spells(f, t, c, s)
<1>1. \A k \in 0 .. s - 1 : MarkIn(t, k) <=> MarkIn(r, k)
  <2>. SUFFICES ASSUME NEW k \in 0 .. s - 1, k # 0 PROVE t[k - 1] = r[k - 1]
    BY DEF MarkIn
  <2>1. k - 1 \in 0 .. s - 2
    OBVIOUS
  <2>. QED
    BY <2>1
<1>2. MarkIn(r, c) /\ (c # s => c \in 0 .. s - 1)
  BY DEF Spells
<1>3. ASSUME NEW k \in 0 .. c - 1
      PROVE  IF MarkIn(t, k) THEN Hops(f, t, k, c) ELSE f[k + 1] = t[k - 1]
  <2>1. k \in 0 .. s - 1
    OBVIOUS
  <2>2. CASE MarkIn(r, k)
    <3>1. Hops(f, r, k, c)
      BY <2>2 DEF Spells
    <3>2. f[k + 1] \in 1 .. c - k /\ MarkIn(r, k + f[k + 1])
          /\ \A m \in k + 1 .. k + f[k + 1] - 1 : ~MarkIn(r, m)
      BY <3>1 DEF Hops
    <3>3. \A m \in k + 1 .. k + f[k + 1] - 1 : ~MarkIn(t, m)
      BY <1>1, <3>2
    <3>4. MarkIn(t, k + f[k + 1])
      <4>1. CASE k + f[k + 1] = s
        BY <3>2, <4>1
      <4>2. CASE k + f[k + 1] # s
        BY <1>1, <3>2, <4>2
      <4>. QED
        BY <4>1, <4>2
    <3>. QED
      BY <1>1, <2>1, <2>2, <3>2, <3>3, <3>4 DEF Hops
  <2>3. CASE ~MarkIn(r, k)
    <3>1. k - 1 \in 0 .. s - 2 /\ f[k + 1] = r[k - 1] /\ ~MarkIn(t, k)
      BY <1>1, <2>1, <2>3 DEF Spells, MarkIn
    <3>. QED
      BY <3>1
  <2>. QED
    BY <2>2, <2>3
<1>4. ASSUME NEW k \in c + 1 .. s - 1 PROVE ~MarkIn(t, k) /\ f[k + 1] = t[k - 1]
  <2>1. ~MarkIn(r, k) /\ f[k + 1] = r[k - 1] /\ k \in 0 .. s - 1 /\ k - 1 \in 0 .. s - 2
    BY DEF Spells
  <2>. QED
    BY <1>1, <2>1
<1>5. MarkIn(t, c)
  BY <1>1, <1>2
<1>. QED
  BY <1>3, <1>4, <1>5 DEF Spells

\* A block that has come to its end, at s, closes its code byte at c: if another
\* one follows, s is a mark and everything before it is final.
LEMMA SpellsClose ==
  ASSUME NEW f, NEW r, NEW s \in Nat, NEW c \in 0 .. s - 1,
         Spells(f, r, c, s), f[c + 1] = s - c, MarkIn(r, s)
  PROVE  Spells(f, r, s, s)
<1>1. ASSUME NEW k \in 0 .. s - 1
      PROVE  IF MarkIn(r, k) THEN Hops(f, r, k, s) ELSE f[k + 1] = r[k - 1]
  <2>1. CASE k < c
    <3>1. IF MarkIn(r, k) THEN Hops(f, r, k, c) ELSE f[k + 1] = r[k - 1]
      BY <2>1 DEF Spells
    <3>. QED
      BY <2>1, <3>1 DEF Hops
  <2>2. CASE k = c
    <3>1. \A m \in k + 1 .. s - 1 : ~MarkIn(r, m)
      BY <2>2 DEF Spells
    <3>2. f[k + 1] \in 1 .. s - k /\ k + f[k + 1] = s
      BY <2>2
    <3>. QED
      BY <2>2, <3>1, <3>2 DEF Hops, Spells
  <2>3. CASE k > c
    BY <2>3 DEF Spells
  <2>. QED
    BY <2>1, <2>2, <2>3
<1>. QED
  BY <1>1 DEF Spells

\* A block in progress goes on with a byte that is no zero.
LEMMA SpellsByte ==
  ASSUME NEW f, NEW r, NEW s \in Nat, NEW c \in 0 .. s - 1,
         Spells(f, r, c, s), r[s - 1] # 0, f[s + 1] = r[s - 1], s # 0
  PROVE  Spells(f, r, c, s + 1)
<1>1. ASSUME NEW k \in c + 1 .. (s + 1) - 1 PROVE ~MarkIn(r, k) /\ f[k + 1] = r[k - 1]
  <2>1. CASE k = s
    BY <2>1 DEF MarkIn
  <2>2. CASE k # s
    BY <2>2 DEF Spells
  <2>. QED
    BY <2>1, <2>2
<1>. QED
  BY <1>1 DEF Spells

\* A code byte opens a block with nothing in it.
LEMMA ReadCodeCanon == ASSUME DecInv, CanonInv, ReadCode PROVE CanonInv'
<1>1. src \in Nat /\ src < Target /\ phase = "code" /\ verdict = "NONE"
  BY DecTyped DEF ReadCode, DecInv
<1>2. CASE phase' = "done"
  <2>1. verdict' = "ZERO_LEAK"
    BY <1>2 DEF ReadCode, Stop
  <2>. QED
    BY <1>2, <2>1 DEF CanonInv, AcceptedIsCanonical
<1>3. CASE phase' # "done"
  <2>1. PICK b : /\ code' = b /\ left' = b - 1 /\ src' = src + 1 /\ b = frame[src + 1]
                 /\ phase' = "copy" /\ frame' = frame /\ decoded' = decoded
                 /\ verdict' = verdict
    BY <1>3 DEF ReadCode, Stop, encoder
  <2>2. b \in Int
    <3>1. b \in 0 .. 255
      BY <1>1, <2>1, FrameByte
    <3>. QED
      BY <3>1
  <2>3. Start' = src /\ Out' = Out
    BY <1>1, <2>1, <2>2 DEF Start, Out
  <2>4. Spells(frame, Out, src, src + 1)
    BY <1>1 DEF CanonInv, Spells
  <2>. QED
    BY <1>1, <2>1, <2>3, <2>4 DEF CanonInv, AcceptedIsCanonical
<1>. QED
  BY <1>2, <1>3

\* A byte copied is no zero, so that the block stays open.
LEMMA CopyByteCanon == ASSUME Strict, DecInv, CanonInv, CopyByte PROVE CanonInv'
<1>1. /\ phase = "copy" /\ verdict = "NONE" /\ src \in Nat /\ Target \in Nat
      /\ left \in Nat /\ code \in 1 .. 255 /\ Start \in 0 .. src - 1
      /\ Len(decoded) = src - 1 /\ decoded \in Seq(Byte)
  BY DecTyped, CopyTyped DEF CopyByte, DecInv
<1>2. CASE phase' = "done"
  <2>1. verdict' # "OK"
    BY <1>2 DEF CopyByte, Stop
  <2>. QED
    BY <1>2, <2>1 DEF CanonInv, AcceptedIsCanonical
<1>3. CASE phase' # "done"
  <2>1. PICK b : /\ decoded' = Append(decoded, b) /\ b = frame[src + 1] /\ b # 0
                 /\ src' = src + 1 /\ left' = left - 1 /\ src < Target
                 /\ phase' = "copy" /\ frame' = frame /\ code' = code /\ verdict' = verdict
    BY <1>1, <1>3 DEF CopyByte, Stop
  <2>2. b \in Byte
    BY <1>1, <2>1, FrameByte
  <2>3. Out'[src - 1] = b /\ \A k \in 0 .. src - 2 : Out'[k] = Out[k]
    BY <1>1, <2>1, <2>2, AppendOut
  <2>4. Spells(frame, Out', Start, src)
    BY <1>1, <2>3, SpellsLocal DEF CanonInv
  <2>5. Spells(frame, Out', Start, src + 1)
    BY <1>1, <2>1, <2>3, <2>4, SpellsByte
  <2>6. Start' = Start
    BY <1>1, <2>1 DEF Start
  <2>. QED
    BY <1>1, <2>1, <2>5, <2>6 DEF CanonInv, AcceptedIsCanonical
<1>. QED
  BY <1>2, <1>3

\* The zero behind a block is a mark that closes it; the last block is left to
\* the delimiter.
LEMMA BlockEndCanon == ASSUME DecInv, CanonInv, BlockEnd PROVE CanonInv'
<1>1. /\ phase = "copy" /\ verdict = "NONE" /\ src \in Nat /\ Target \in Nat /\ src <= Target
      /\ code \in 1 .. 255 /\ Start \in 0 .. src - 1 /\ code = src - Start /\ code < 255
      /\ code = frame[Start + 1]
      /\ Len(decoded) = src - 1 /\ decoded \in Seq(Byte)
  <2>1. phase = "copy" /\ left = 0
    BY DEF BlockEnd
  <2>2. /\ code \in 1 .. 255 /\ Start \in 0 .. src - 1 /\ src = Start + code /\ code < 255
        /\ code = frame[Start + 1] /\ Len(decoded) = src - 1
    BY <2>1, NoFullBlock, CopyTyped
  <2>3. src \in Nat /\ Target \in Nat /\ src <= Target
    BY <2>1, DecTyped
  <2>4. verdict = "NONE" /\ decoded \in Seq(Byte)
    BY <2>1 DEF DecInv
  <2>. HIDE DEF Start, Target
  <2>. QED
    BY <2>1, <2>2, <2>3, <2>4
<1>2. CASE phase' = "done"
  <2>1. verdict' # "OK"
    BY <1>2 DEF BlockEnd, Stop
  <2>. QED
    BY <1>2, <2>1 DEF CanonInv, AcceptedIsCanonical
<1>3. CASE phase' # "done" /\ src < Target
  <2>1. /\ decoded' = Append(decoded, 0) /\ src' = src /\ phase' = "code"
        /\ frame' = frame /\ verdict' = verdict
    BY <1>1, <1>3 DEF BlockEnd, Stop
  <2>2. Out'[src - 1] = 0 /\ \A k \in 0 .. src - 2 : Out'[k] = Out[k]
    <3>1. 0 \in Byte
      BY DEF Byte
    <3>. QED
      BY <1>1, <2>1, <3>1, AppendOut
  <2>3. Spells(frame, Out', Start, src) /\ MarkIn(Out', src)
    BY <1>1, <2>2, SpellsLocal DEF CanonInv, MarkIn
  <2>4. Spells(frame, Out', src, src)
    BY <1>1, <2>3, SpellsClose
  <2>5. Target' = Target
    BY <2>1 DEF Target
  <2>. QED
    BY <1>1, <1>3, <2>1, <2>4, <2>5 DEF CanonInv, AcceptedIsCanonical
<1>4. CASE ~(src < Target)
  <2>1. /\ decoded' = decoded /\ src' = src /\ phase' = "code"
        /\ frame' = frame /\ verdict' = verdict
    BY <1>4 DEF BlockEnd, decoder
  <2>2. Target' = Target /\ Out' = Out
    BY <2>1 DEF Target, Out
  <2>3. Spells(frame, Out, Start, src) /\ frame[Start + 1] = src - Start
    BY <1>1 DEF CanonInv
  <2>. QED
    BY <1>1, <1>4, <2>1, <2>2, <2>3 DEF CanonInv, AcceptedIsCanonical
<1>. QED
  BY <1>2, <1>3, <1>4

\* The decoder says OK to frames that spell what it decoded, and to no others.
LEMMA DecodeEndCanon == ASSUME Strict, DecInv, CanonInv, DecodeEnd PROVE CanonInv'
<1>1. /\ phase = "code" /\ phase' = "done" /\ src = Target /\ src \in Nat /\ src > 0
      /\ frame' = frame /\ decoded' = decoded /\ Len(decoded) = src - 1
      /\ Len(frame) \in Nat /\ frame[Len(frame)] = 0
  BY DecTyped DEF DecodeEnd, Stop, DecInv, WellDelimited
<1>2. ASSUME verdict' = "OK" PROVE AcceptedIsCanonical'
  <2>1. Len(decoded) = RawSize
    BY <1>2 DEF DecodeEnd, Stop
  <2>2. Target = RawSize + 1 /\ Len(frame) = RawSize + 2 /\ src = RawSize + 1
    BY <1>1, <2>1, CobsAssumption DEF Target
  <2>3. PICK c \in 0 .. src - 1 : Spells(frame, Out, c, src) /\ frame[c + 1] = src - c
    BY <1>1 DEF CanonInv
  <2>4. c \in 0 .. RawSize /\ RawSize \in Nat
    BY <2>2, CobsAssumption
  <2>5. IsEncoding(frame, Out)
    BY <1>1, <2>2, <2>3, <2>4, SpellsEncodes
  <2>6. Out' = Out /\ IsEncoding(frame, Out)' = IsEncoding(frame, Out)
    BY <1>1 DEF Out, IsEncoding
  <2>. QED
    BY <1>1, <2>1, <2>2, <2>5, <2>6 DEF AcceptedIsCanonical, Cap
<1>. QED
  BY <1>1, <1>2 DEF CanonInv, AcceptedIsCanonical

\* Nothing is accepted before the decoder has started.
LEMMA CanonOther ==
  ASSUME DecInv, DecInv', CanonInv,
         \/ \E r \in Raws : BeginEncode(r)
         \/ EncodeByte \/ EncodeEnd \/ Damage \/ BeginDecode
         \/ UNCHANGED vars
  PROVE  CanonInv'
<1>1. CASE (\E r \in Raws : BeginEncode(r)) \/ EncodeByte \/ EncodeEnd \/ Damage
  <2>1. phase' \in {"encode", "transit"}
    BY <1>1 DEF BeginEncode, EncodeByte, EncodeEnd, Damage
  <2>. QED
    BY <2>1 DEF DecInv, CanonInv, AcceptedIsCanonical
<1>2. CASE BeginDecode
  <2>1. CASE WellDelimited
    <3>1. phase' = "code" /\ src' = 0 /\ verdict' = "NONE"
      BY <1>2, <2>1 DEF BeginDecode, decoder, DecInv
    <3>2. Target' \in Nat /\ Target' > 0
      <4>1. Len(frame') \in Nat /\ WellDelimited'
        BY <3>1 DEF DecInv
      <4>. QED
        BY <4>1 DEF WellDelimited, Target
    <3>3. Spells(frame, Out, 0, 0)'
      BY DEF Spells, MarkIn
    <3>. QED
      BY <3>1, <3>2, <3>3 DEF CanonInv, AcceptedIsCanonical
  <2>2. CASE ~WellDelimited
    BY <1>2, <2>2 DEF BeginDecode, Stop, CanonInv, AcceptedIsCanonical
  <2>. QED
    BY <2>1, <2>2
<1>3. CASE UNCHANGED vars
  <2>1. /\ phase' = phase /\ src' = src /\ frame' = frame /\ decoded' = decoded
        /\ verdict' = verdict /\ Target' = Target /\ Out' = Out /\ Start' = Start
    BY <1>3 DEF vars, decoder, Target, Out, Start
  <2>. QED
    BY <2>1 DEF CanonInv, AcceptedIsCanonical
<1>. QED
  BY <1>1, <1>2, <1>3

\* The strict decoder accepts a frame only if it is the encoding of the bytes it
\* decoded, whatever the wire has done to it, for every frame size up to 253.
THEOREM CobsAcceptedIsCanonical == Strict => (Spec => []AcceptedIsCanonical)
<1>. SUFFICES ASSUME Strict PROVE Spec => []AcceptedIsCanonical
  OBVIOUS
<1>1. Init => CanonInv
  BY DEF Init, CanonInv, AcceptedIsCanonical
<1>2. DecInv /\ DecInv' /\ CanonInv /\ [Next]_vars => CanonInv'
  BY ReadCodeCanon, CopyByteCanon, BlockEndCanon, DecodeEndCanon, CanonOther DEF Next
<1>3. CanonInv => AcceptedIsCanonical
  BY DEF CanonInv
<1>. QED
  BY <1>1, <1>2, <1>3, DecInvariance, PTL DEF Spec

-----------------------------------------------------------------------------
(***************************************************************************)
(* What arrives undamaged.  Both decoders walk the marks of the packet: a   *)
(* code byte is read at a mark only, and its block ends at the next one.    *)
(***************************************************************************)
FaithInv ==
  damage = 0 =>
    /\ phase \in {"transit", "code", "copy"} => Len(frame) = Cap /\ IsEncoding(frame, raw)
    /\ phase \in {"code", "copy"} => \A k \in 0 .. Len(decoded) - 1 : Out[k] = raw[k]
    /\ phase = "code" /\ src < Target => MarkIn(raw, src)
    /\ phase = "copy" => MarkIn(raw, Start)
    /\ RoundTrip

\* The place the decoder has reached in an undamaged frame, seen from the packet.
LEMMA WholeFrame ==
  ASSUME DecInv, EncInv, FaithInv, damage = 0, phase \in {"code", "copy"}
  PROVE  /\ RawSize \in Nat /\ Target = RawSize + 1 /\ raw \in [0 .. RawSize - 1 -> Byte]
         /\ \A k \in 0 .. RawSize :
              IF MarkIn(raw, k)
              THEN /\ frame[k + 1] \in 1 .. RawSize + 1 - k
                   /\ k + frame[k + 1] = RawSize + 1 \/ MarkIn(raw, k + frame[k + 1])
                   /\ \A m \in k + 1 .. k + frame[k + 1] - 1 : ~MarkIn(raw, m)
              ELSE frame[k + 1] = raw[k - 1]
<1>1. /\ RawSize \in Nat /\ Len(frame) = RawSize + 2 /\ frame \in Seq(Byte)
      /\ IsEncoding(frame, raw) /\ raw \in [0 .. RawSize - 1 -> Byte]
  BY CobsAssumption DEF FaithInv, DecInv, EncInv, Cap
<1>2. Target = RawSize + 1
  BY <1>1 DEF Target
<1>. QED
  BY <1>1, <1>2, EncodingHops

\* At a mark there is a code byte to read, not a zero.
LEMMA ReadCodeFaith == ASSUME DecInv, EncInv, FaithInv, ReadCode PROVE FaithInv'
<1>. SUFFICES ASSUME damage' = 0 PROVE FaithInv'
  BY DEF FaithInv
<1>1. damage = 0 /\ raw' = raw /\ frame' = frame
  BY DEF ReadCode, Stop, encoder
<1>2. src \in 0 .. RawSize /\ MarkIn(raw, src) /\ Target = RawSize + 1
  BY <1>1, DecTyped, WholeFrame DEF ReadCode, FaithInv
<1>3. PICK b \in 1 .. 255 : b = frame[src + 1]
  <2>1. frame[src + 1] \in 1 .. RawSize + 1 - src
    BY <1>1, <1>2, WholeFrame DEF ReadCode
  <2>2. frame[src + 1] \in 0 .. 255
    BY FrameByte DEF ReadCode
  <2>. QED
    BY <1>2, <2>1, <2>2
<1>4. /\ code' = b /\ left' = b - 1 /\ src' = src + 1 /\ phase' = "copy"
      /\ decoded' = decoded
  BY <1>3 DEF ReadCode
<1>5. Start' = src /\ Out' = Out
  BY <1>2, <1>3, <1>4 DEF Start, Out
<1>. QED
  BY <1>1, <1>2, <1>4, <1>5 DEF FaithInv, ReadCode, RoundTrip

\* Inside a block every byte is one of the packet, and no zero.
LEMMA CopyByteFaith == ASSUME DecInv, EncInv, FaithInv, CopyByte PROVE FaithInv'
<1>. SUFFICES ASSUME damage' = 0 PROVE FaithInv'
  BY DEF FaithInv
<1>1. damage = 0 /\ raw' = raw /\ frame' = frame /\ phase = "copy" /\ left > 0
  BY DEF CopyByte, Stop, encoder
<1>2. /\ left \in Nat /\ code \in Nat /\ Start \in 0 .. src - 1 /\ src \in Nat
      /\ src = Start + code - left /\ Len(decoded) = src - 1
      /\ RawSize \in Nat /\ Target = RawSize + 1 /\ src <= Target
  <2>1. /\ left \in Nat /\ code \in 1 .. 255 /\ Start \in 0 .. src - 1
        /\ src = Start + code - left /\ Len(decoded) = src - 1
    BY <1>1, CopyTyped
  <2>2. src \in Nat /\ src <= Target
    BY <1>1, DecTyped
  <2>3. RawSize \in Nat /\ Target = RawSize + 1
    BY <1>1, WholeFrame
  <2>. QED
    BY <2>1, <2>2, <2>3
<1>. HIDE DEF Start
<1>3. /\ code \in 1 .. RawSize + 1 - Start
      /\ \A m \in Start + 1 .. Start + code - 1 : ~MarkIn(raw, m)
  <2>1. code = frame[Start + 1] /\ MarkIn(raw, Start) /\ Start \in 0 .. RawSize
    BY <1>1, <1>2, CopyTyped DEF FaithInv
  <2>. QED
    BY <1>1, <2>1, WholeFrame
<1>4. src \in 1 .. RawSize /\ src - 1 \in 0 .. RawSize - 1 /\ src < Target
  BY <1>1, <1>2, <1>3
<1>5. ~MarkIn(raw, src)
  <2>1. src \in Start + 1 .. Start + code - 1
    BY <1>1, <1>2
  <2>. QED
    BY <1>3, <2>1
<1>6. PICK b \in Byte : b = frame[src + 1] /\ b = raw[src - 1] /\ b # 0
  <2>1. src \in 0 .. RawSize
    BY <1>4
  <2>2. frame[src + 1] = raw[src - 1]
    BY <1>1, <1>5, <2>1, WholeFrame
  <2>3. raw[src - 1] # 0
    BY <1>5 DEF MarkIn
  <2>4. frame[src + 1] \in Byte
    BY <1>1, <1>4, FrameByte
  <2>. QED
    BY <2>2, <2>3, <2>4
<1>7. /\ decoded' = Append(decoded, b) /\ src' = src + 1 /\ left' = left - 1
      /\ phase' = "copy" /\ code' = code
  <2>1. ~(src >= Target) /\ ~(Len(decoded) >= RawSize)
    BY <1>2, <1>4
  <2>. QED
    BY <1>1, <1>6, <2>1 DEF CopyByte
<1>8. Start' = Start
  BY <1>2, <1>7 DEF Start
<1>9. ASSUME NEW k \in 0 .. Len(decoded') - 1 PROVE Out'[k] = raw[k]
  <2>1. /\ Len(decoded') = Len(decoded) + 1 /\ Out'[Len(decoded)] = b
        /\ \A j \in 0 .. Len(decoded) - 1 : Out'[j] = Out[j]
    BY <1>7, AppendOut DEF DecInv
  <2>2. \A j \in 0 .. Len(decoded) - 1 : Out[j] = raw[j]
    BY <1>1 DEF FaithInv
  <2>3. k = Len(decoded) \/ k \in 0 .. Len(decoded) - 1
    BY <1>2, <2>1
  <2>. QED
    BY <1>2, <1>6, <2>1, <2>2, <2>3
<1>10. MarkIn(raw, Start)
  BY <1>1 DEF FaithInv
<1>. QED
  BY <1>1, <1>7, <1>8, <1>9, <1>10 DEF FaithInv, RoundTrip

\* A block ends at the next zero of the packet, or with the frame.
LEMMA BlockEndFaith == ASSUME DecInv, EncInv, FaithInv, BlockEnd PROVE FaithInv'
<1>. SUFFICES ASSUME damage' = 0 PROVE FaithInv'
  BY DEF FaithInv
<1>1. damage = 0 /\ raw' = raw /\ frame' = frame /\ phase = "copy" /\ left = 0
  BY DEF BlockEnd, Stop, encoder
<1>2. /\ code < 255 /\ src = Start + code /\ Start \in 0 .. src - 1 /\ src \in Nat
      /\ code = frame[Start + 1] /\ Len(decoded) = src - 1
      /\ decoded \in Seq(Byte) /\ MarkIn(raw, Start)
      /\ RawSize \in Nat /\ Target = RawSize + 1 /\ src <= Target
  BY <1>1, DecTyped, CopyTyped, NoFullBlock, WholeFrame DEF DecInv, FaithInv
<1>3. src = RawSize + 1 \/ MarkIn(raw, src)
  <2>1. Start \in 0 .. RawSize
    BY <1>2
  <2>. HIDE DEF Start
  <2>. QED
    BY <1>1, <1>2, <2>1, WholeFrame
<1>4. CASE src < Target
  <2>1. /\ decoded' = Append(decoded, 0) /\ src' = src /\ phase' = "code"
    BY <1>1, <1>2, <1>4 DEF BlockEnd
  <2>2. MarkIn(raw, src) /\ raw[src - 1] = 0
    BY <1>2, <1>3, <1>4 DEF MarkIn
  <2>3. ASSUME NEW k \in 0 .. Len(decoded') - 1 PROVE Out'[k] = raw[k]
    <3>1. 0 \in Byte
      BY DEF Byte
    <3>2. /\ Len(decoded') = Len(decoded) + 1 /\ Out'[Len(decoded)] = 0
          /\ \A j \in 0 .. Len(decoded) - 1 : Out'[j] = Out[j]
      BY <1>2, <2>1, <3>1, AppendOut
    <3>3. \A j \in 0 .. Len(decoded) - 1 : Out[j] = raw[j]
      BY <1>1 DEF FaithInv
    <3>4. Len(decoded) = src - 1 /\ src \in Nat
      BY <1>2
    <3>5. k = Len(decoded) \/ k \in 0 .. Len(decoded) - 1
      BY <3>2, <3>4
    <3>6. CASE k = Len(decoded)
      BY <2>2, <3>2, <3>4, <3>6
    <3>7. CASE k \in 0 .. Len(decoded) - 1
      BY <3>2, <3>3, <3>7
    <3>. QED
      BY <3>5, <3>6, <3>7
  <2>. QED
    BY <1>1, <2>1, <2>2, <2>3 DEF FaithInv, RoundTrip
<1>5. CASE ~(src < Target)
  <2>1. decoded' = decoded /\ src' = src /\ phase' = "code"
    BY <1>5 DEF BlockEnd, decoder
  <2>2. Target' = Target /\ Out' = Out
    BY <1>1, <2>1 DEF Target, Out
  <2>. QED
    BY <1>1, <1>5, <2>1, <2>2 DEF FaithInv, RoundTrip
<1>. QED
  BY <1>4, <1>5

\* The frame over, all of the packet has been decoded.
LEMMA DecodeEndFaith == ASSUME DecInv, EncInv, FaithInv, DecodeEnd PROVE FaithInv'
<1>. SUFFICES ASSUME damage' = 0 PROVE FaithInv'
  BY DEF FaithInv
<1>1. /\ damage = 0 /\ raw' = raw /\ decoded' = decoded /\ phase = "code"
      /\ phase' = "done" /\ src >= Target
  BY DEF DecodeEnd, Stop, encoder
<1>2. Len(decoded) = RawSize /\ raw \in [0 .. RawSize - 1 -> Byte]
  <2>1. RawSize \in Nat /\ Target = RawSize + 1 /\ raw \in [0 .. RawSize - 1 -> Byte]
    BY <1>1, WholeFrame
  <2>2. Len(decoded) = src - 1 /\ src = Target
    BY <1>1, DecTyped DEF DecInv
  <2>. QED
    BY <2>1, <2>2
<1>3. verdict' = "OK"
  BY <1>2 DEF DecodeEnd, Stop
<1>4. Out = raw
  BY <1>1, <1>2 DEF Out, FaithInv
<1>5. Out' = Out
  BY <1>1 DEF Out
<1>. QED
  BY <1>1, <1>3, <1>4, <1>5 DEF FaithInv, RoundTrip

\* Up to the decoder, an undamaged frame is the one sent.
LEMMA FaithOther ==
  ASSUME DecInv, EncInv, EncInv', FaithInv,
         \/ \E r \in Raws : BeginEncode(r)
         \/ EncodeByte \/ EncodeEnd \/ Damage \/ BeginDecode
         \/ UNCHANGED vars
  PROVE  FaithInv'
<1>1. CASE (\E r \in Raws : BeginEncode(r)) \/ EncodeByte
  BY <1>1 DEF BeginEncode, EncodeByte, FaithInv, RoundTrip
<1>2. CASE EncodeEnd
  BY <1>2 DEF EncodeEnd, EncInv, FrameEncodes, FaithInv, RoundTrip
<1>3. CASE Damage
  <2>1. damage \in Nat
    BY DEF EncInv
  <2>2. damage' = damage + 1
    BY <1>3, Zenon DEF Damage
  <2>3. damage' # 0
    BY <2>1, <2>2
  <2>. QED
    BY <2>3 DEF FaithInv
<1>4. CASE BeginDecode
  <2>. SUFFICES ASSUME damage' = 0 PROVE FaithInv'
    BY DEF FaithInv
  <2>1. /\ damage = 0 /\ raw' = raw /\ frame' = frame /\ phase = "transit"
        /\ Len(frame) = Cap /\ IsEncoding(frame, raw) /\ src = 0 /\ decoded = <<>>
    BY <1>4 DEF BeginDecode, Stop, encoder, FaithInv, DecInv
  <2>2. WellDelimited
    <3>1. Len(frame) = RawSize + 2 /\ RawSize \in Nat
      BY <2>1, CobsAssumption DEF Cap
    <3>2. frame[Len(frame)] = 0
      <4>1. frame[(Len(frame) - 2) + 2] = 0
        BY <2>1 DEF IsEncoding
      <4>. QED
        BY <3>1, <4>1
    <3>. QED
      BY <2>1, <3>1, <3>2 DEF WellDelimited
  <2>3. phase' = "code" /\ src' = 0 /\ decoded' = <<>>
    BY <1>4, <2>1, <2>2 DEF BeginDecode, decoder
  <2>. QED
    BY <2>1, <2>3 DEF FaithInv, RoundTrip, MarkIn
<1>5. CASE UNCHANGED vars
  <2>1. /\ phase' = phase /\ src' = src /\ frame' = frame /\ decoded' = decoded
        /\ verdict' = verdict /\ damage' = damage /\ raw' = raw
        /\ Target' = Target /\ Out' = Out /\ Start' = Start
    BY <1>5 DEF vars, encoder, decoder, Target, Out, Start
  <2>. QED
    BY <2>1 DEF FaithInv, RoundTrip
<1>. QED
  BY <1>1, <1>2, <1>3, <1>4, <1>5

\* A frame nobody damaged is accepted by either decoder, and the bytes decoded
\* are those of the packet, for every frame size up to 253.
THEOREM CobsRoundTrip == Spec => []RoundTrip
<1>1. Init => FaithInv
  BY DEF Init, FaithInv, RoundTrip
<1>2. DecInv /\ EncInv /\ EncInv' /\ FaithInv /\ [Next]_vars => FaithInv'
  BY ReadCodeFaith, CopyByteFaith, BlockEndFaith, DecodeEndFaith, FaithOther DEF Next
<1>3. EncInv /\ FaithInv => RoundTrip
  BY DEF FaithInv, RoundTrip
<1>. QED
  BY <1>1, <1>2, <1>3, DecInvariance, PTL DEF Spec
=============================================================================
