------------------------------ MODULE MCSentry ------------------------------
(***************************************************************************)
(* Instances of Sentry for TLC.                                            *)
(***************************************************************************)
EXTENDS Sentry, TLC

\* Peers are only compared for equality.
Symmetry == Permutations(Peers)
=============================================================================
