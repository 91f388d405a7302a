---------------------------- MODULE MCChainStatus ----------------------------
(***************************************************************************)
(* Instances of ChainStatus, and with it of Gossip, for TLC: the topics of  *)
(* one subnet, under each fork digest, whose messages are kept for a tick.  *)
(***************************************************************************)
EXTENDS ChainStatus

Attestation == "attestation"

KeptForATick == [kind \in {Attestation} |-> 1]
=============================================================================
