------------------------------- MODULE Surface -------------------------------
(***************************************************************************)
(* The byte surface and the address energy, twice: the two calls of         *)
(* examples/esp32/omnicron_epistemic_core.c on one structure of the caller, *)
(* and the clocked verilog/omnicron_bqf_resolver.v, which does both at once *)
(* and checks no bound.  The caller makes the two calls in any order and as *)
(* often as it likes, and the block runs beside it on inputs of its own.    *)
(***************************************************************************)
EXTENDS Naturals

CONSTANTS
  FieldX, UnitY,  \* the coordinates presented, eight bits wide as in the block
  StreamByte      \* the bytes presented

ASSUME SurfaceAssumption == FieldX \cup UnitY \cup StreamByte \subseteq 0 .. 255

VARIABLES
  res,            \* the OmnicronResolution of the caller
  surface,        \* what omnicron_resolve_byte_surface returned last
  quadrant,       \* what omnicron_resolve_epistemic_quadrant returned last
  resolver,       \* the output registers of the block
  input,          \* history: x, y and byte of its last edge, <<>> after a reset
  byte,           \* history: the byte the caller resolved last, 256 before any
  asked,          \* history: the field it presented last, <<>> before any
  field           \* history: the field accepted last since that byte, <<>> if none

surfaceVars == <<res, surface, quadrant, resolver, input, byte, asked, field>>

\* omnicron_calculate_bqf: the form 60x^2 + 16xy + 4y^2.
Energy(x, y) == 60 * x * x + 16 * x * y + 4 * y * y

ByteBand(b) ==
  IF b <= 31 THEN 0 ELSE IF b <= 127 THEN 1 ELSE IF b <= 175 THEN 3 ELSE 2

\* High nibble 0xB and above.
Delineated(b) == b \div 16 >= 11

\* omnicron_resolve_byte_surface: energy zero, whatever an earlier call put there.
ByteSurface(b) ==
  /\ res' = [energy |-> 0, band |-> ByteBand(b), delineation |-> Delineated(b)]
  /\ surface' = IF b = 0 THEN "ZERO_LEAK" ELSE "OK"
  /\ byte' = b /\ field' = <<>>
  /\ UNCHANGED <<quadrant, asked, resolver, input>>

\* Mutant: the energy is written before the chart is looked at.
QuadrantWritesFirst(x, y) ==
  /\ res' = [res EXCEPT !.energy = Energy(x, y)]
  /\ asked' = <<x, y>>
  /\ IF x >= 240 THEN quadrant' = "DELINEATION_BREACH" /\ UNCHANGED field
                 ELSE quadrant' = "OK" /\ field' = <<x, y>>
  /\ UNCHANGED <<surface, byte, resolver, input>>

\* omnicron_resolve_epistemic_quadrant: fields outside the chart of 240 are
\* refused and leave the structure, an earlier energy included, as it is.
Quadrant(x, y) ==
  /\ asked' = <<x, y>>
  /\ IF x >= 240
     THEN quadrant' = "DELINEATION_BREACH" /\ UNCHANGED <<res, field>>
     ELSE /\ quadrant' = "OK" /\ field' = <<x, y>>
          /\ res' = [res EXCEPT !.energy = Energy(x, y)]
  /\ UNCHANGED <<surface, byte, resolver, input>>

\* The block's energy: products of sixteen bits, then shifts and a sum of 32.
WireEnergy(x, y) ==
  LET x2 == (x * x) % 2 ^ 16
      y2 == (y * y) % 2 ^ 16
      xy == (x * y) % 2 ^ 16
  IN  60 * x2 + 16 * xy + 4 * y2

WireBand(b) ==
  IF b <= \h1F THEN 0 ELSE IF b <= \h7F THEN 1 ELSE IF b <= \hAF THEN 3 ELSE 2

\* i_stream_byte[7:4]
WireDelineated(b) == (b \div 2 ^ 4) % 2 ^ 4 >= \hB

\* One edge of the block.
ResolverEdge(x, y, b) ==
  /\ resolver' = [energy |-> WireEnergy(x, y), band |-> WireBand(b),
                  delineation |-> WireDelineated(b), trap |-> b = 0]
  /\ input' = [x |-> x, y |-> y, byte |-> b]
  /\ UNCHANGED <<res, surface, quadrant, byte, asked, field>>

ResetResolver == [energy |-> 0, band |-> 0, delineation |-> FALSE, trap |-> FALSE]

\* rst_n low
SurfaceReset ==
  /\ resolver' = ResetResolver /\ input' = <<>>
  /\ UNCHANGED <<res, surface, quadrant, byte, asked, field>>

\* What the caller's structure may hold before the first call, which nothing
\* initialises: an energy no field has, and a band that need not fit the flag.
Leftover == [energy : {1}, band : {1}, delineation : BOOLEAN]

SurfaceInit ==
  /\ res \in Leftover
  /\ surface = "OK" /\ quadrant = "OK"
  /\ resolver = ResetResolver /\ input = <<>>
  /\ byte = 256 /\ asked = <<>> /\ field = <<>>

SurfaceNext ==
  \/ \E b \in StreamByte : ByteSurface(b)
  \/ \E x \in FieldX, y \in UnitY : Quadrant(x, y)
  \/ \E x \in FieldX, y \in UnitY, b \in StreamByte : ResolverEdge(x, y, b)
  \/ SurfaceReset

\* After any calls in any order the structure of the caller is that of the last
\* byte and of the last field accepted since: a refused field neither shows its own
\* energy nor takes away the one before it, and a byte takes it away.  A field is
\* refused exactly outside the chart, so an OK says that the energy is that of the
\* field asked for.  Where the block's last edge had that byte or that field, the
\* two agree on what it decides; and on either side a byte is delineated, by its
\* nibble, exactly in the highest band, by its value.
SurfaceAgrees ==
  /\ field # <<>> => res.energy = Energy(field[1], field[2])
  /\ byte # 256 => /\ field = <<>> => res.energy = 0
                   /\ res.delineation <=> res.band = 2
  /\ asked # <<>> => (quadrant = "OK" <=> asked[1] < 240)
  /\ field # <<>> /\ quadrant = "OK" => field = asked
  /\ resolver.delineation <=> resolver.band = 2
  /\ input # <<>> /\ field = <<input.x, input.y>> => res.energy = resolver.energy
  /\ input # <<>> /\ byte = input.byte =>
       /\ <<res.band, res.delineation>> = <<resolver.band, resolver.delineation>>
       /\ (surface = "ZERO_LEAK") = resolver.trap
=============================================================================
