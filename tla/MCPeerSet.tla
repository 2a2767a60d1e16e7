------------------------------- MODULE MCPeerSet -------------------------------
(* PeerSet for TLC: a peer that can leave and come back as a new object. *)
EXTENDS PeerSet, TLC

CONSTANTS i1, p1, p2

MCReturning == (p1 :> i1) @@ (p2 :> i1)
===============================================================================
