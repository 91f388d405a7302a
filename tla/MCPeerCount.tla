----------------------------- MODULE MCPeerCount -----------------------------
(***************************************************************************)
(* Instances of PeerCount for TLC.  The factors are larger than the code's, *)
(* so that a few peers already exceed the target by more than one.          *)
(***************************************************************************)
EXTENDS PeerCount

Peer(outbound, attnets, syncnets) ==
    [negative |-> FALSE, outbound |-> outbound, duty |-> FALSE, metadata |-> TRUE,
     attnets |-> attnets, enr_attnets |-> {}, syncnets |-> syncnets, gossip |-> TRUE]

\* Peers that differ in what the steps of the pruning look at, one with metadata and a
\* stale ENR and one with an ENR only among them, and outbound peers for the first and
\* for the third step.
SomeProfiles ==
    {Peer(TRUE, {1}, {}), Peer(FALSE, {1, 2}, {1}), Peer(FALSE, {}, {1}),
     [Peer(FALSE, {}, {}) EXCEPT !.enr_attnets = {2}],
     [Peer(FALSE, {}, {}) EXCEPT !.metadata = FALSE, !.enr_attnets = {2}, !.gossip = FALSE],
     [Peer(FALSE, {1}, {}) EXCEPT !.duty = TRUE, !.negative = TRUE],
     [Peer(TRUE, {2}, {1}) EXCEPT !.negative = TRUE]}
=============================================================================
