-------------------------------- MODULE Gossip --------------------------------
(***************************************************************************)
(* The gossip of examples/esp32/esp32_p2p_gossip.c between nodes that tick  *)
(* the clock of module OmiClock: a node stamps a packet with its step       *)
(* count, the wire loses, repeats, delays and reorders frames, and          *)
(* esp32_gossip_decode_and_verify commits a packet only to a node at the    *)
(* very same step.  Module Cobs has the bytes of a frame; here a frame is   *)
(* the packet it unpacks to.  The payload, which nobody looks at, is left   *)
(* out; that of a packet is what its source was when it was packed.         *)
(***************************************************************************)
EXTENDS OmiClock

CONSTANTS
  MaxStep,        \* bound on the step counts
  MaxWire,        \* bound on the frames on the wire
  None            \* no packet yet

ASSUME GossipAssumption ==
  /\ MaxStep \in Nat /\ MaxStep < StepModulus
  /\ MaxWire \in Nat

VARIABLES
  wire,           \* the frames under way
  out             \* the out_packet of each node

gossipvars == <<vars, wire, out>>

\* source_node_id and step_accumulator of a packet; its payload is the clock of
\* the source, and the seed is remembered beside it.
Packet == [source : Peer, step : 0 .. MaxStep, at : Word, seed : Seed]

GossipTypeOK ==
  /\ TypeOK
  /\ wire \subseteq Packet /\ Cardinality(wire) <= MaxWire
  /\ out \in [Peer -> Packet \cup {None}]

GossipInit ==
  /\ Init
  /\ wire = {}
  /\ out = [n \in Peer |-> None]

-----------------------------------------------------------------------------

PacketOf(n) ==
  [source |-> n, step |-> steps[n], at |-> state[n], seed |-> seed[n]]

Send(n) ==
  /\ Cardinality(wire \cup {PacketOf(n)}) <= MaxWire
  /\ wire' = wire \cup {PacketOf(n)}
  /\ UNCHANGED <<vars, out>>

\* A frame is lost, or arrives so damaged that the decoder refuses it.
Lose(packet) ==
  /\ wire' = wire \ {packet}
  /\ UNCHANGED <<vars, out>>

\* Mutant: the step is not looked at.
AcceptsAny(n, packet) == packet.seed \in Seed

\* Mutant: a packet of an earlier step is taken, too.
AcceptsLate(n, packet) == packet.step <= steps[n]

\* candidate.step_accumulator != local_accumulator
Accepts(n, packet) == packet.step = steps[n]

\* A frame reaches n; a copy of it may come again.  The candidate becomes the
\* caller's packet only after the last check.
Deliver(n, packet) ==
  /\ Accepts(n, packet)
  /\ out' = [out EXCEPT ![n] = packet]
  /\ wire' \in {wire, wire \ {packet}}
  /\ UNCHANGED vars

\* GOSSIP_ERROR_SYNC_MISMATCH: the caller's packet stays as it was.
Reject(n, packet) ==
  /\ ~Accepts(n, packet)
  /\ wire' \in {wire, wire \ {packet}}
  /\ UNCHANGED <<vars, out>>

NodeTick(n) ==
  /\ steps[n] < MaxStep
  /\ Tick(n)
  /\ UNCHANGED <<wire, out>>

\* A node that starts again has lost its packet with the rest of its memory; the
\* frames it sent are still under way.
NodeRestart(n, x) ==
  /\ Restart(n, x)
  /\ out' = [out EXCEPT ![n] = None]
  /\ UNCHANGED wire

GossipNext ==
  \/ \E n \in Peer : Send(n) \/ NodeTick(n)
  \/ \E packet \in wire : Lose(packet)
  \/ \E n \in Peer, packet \in wire : Deliver(n, packet) \/ Reject(n, packet)
  \/ \E n \in Peer, x \in Seed : NodeRestart(n, x)

GossipSpec == GossipInit /\ [][GossipNext]_gossipvars

-----------------------------------------------------------------------------
(* Properties *)

\* A node takes over a packet exactly while its own clock shows what that of the
\* source showed when it packed it, provided the two started from one seed; from
\* different seeds they never show the same.  So the step check stands in for a
\* comparison of the clocks, whatever was delayed and whoever restarted.
CommitInSync ==
  [][\A n \in Peer :
       out'[n] # out[n] /\ out'[n] # None =>
         (out'[n].at = state[n] <=> out'[n].seed = seed[n])]_gossipvars

\* Until it restarts, a node never goes back to a packet of an earlier step than
\* the one it has, although frames arrive late, twice and out of order.
OutOrdered ==
  [][\A n \in Peer :
       out[n] # None /\ out'[n] # None => out'[n].step >= out[n].step]_gossipvars
=============================================================================
