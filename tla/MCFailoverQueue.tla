-------------------------- MODULE MCFailoverQueue --------------------------
(* Small instances of FailoverQueue for TLC. *)
EXTENDS FailoverQueue, TLC

Symmetry == Permutations(IPs) \cup Permutations(MsgIds) \cup Permutations(Sentinels)
=============================================================================
