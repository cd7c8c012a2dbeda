------------------------------- MODULE MCGossip -------------------------------
(***************************************************************************)
(* Two nodes, two seeds, three steps, and two frames on the wire: enough    *)
(* for a late frame, a frame of a node's former life, and two frames in the *)
(* wrong order.                                                             *)
(***************************************************************************)
EXTENDS Gossip, TLC

CONSTANTS local, remote

MCPeer == {local, remote}

MCSeed == {WordOf(4660), {}}

Nodes == Permutations(MCPeer)
=============================================================================
