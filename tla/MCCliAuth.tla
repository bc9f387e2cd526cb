----------------------------- MODULE MCCliAuth ------------------------------
(* CliAuth on small instances. *)
EXTENDS CliAuth, TLC

CallSymmetry == Permutations(Approvals) \cup Permutations(Exchanges)
=============================================================================
