------------------------------- MODULE MCOutbox -------------------------------
(****************************************************************************)
(* Outbox.tla on a few addresses.                                           *)
(****************************************************************************)
EXTENDS Outbox, TLC

Symmetry == Permutations(Node)
=============================================================================
