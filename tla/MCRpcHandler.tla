---------------------------- MODULE MCRpcHandler ----------------------------
(***************************************************************************)
(* Instances of RpcHandler for TLC.                                        *)
(***************************************************************************)
EXTENDS RpcHandler, TLC
=============================================================================
