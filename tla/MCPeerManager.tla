--------------------------- MODULE MCPeerManager ---------------------------
(***************************************************************************)
(* Instances of PeerManager for TLC.                                       *)
(***************************************************************************)
EXTENDS PeerManager, TLC

\* Peers are only compared for equality.  Not for liveness.
Symmetry == Permutations(Peers)
=============================================================================
