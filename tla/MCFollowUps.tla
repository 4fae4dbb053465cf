---------------------------- MODULE MCFollowUps ----------------------------
(* Instances of FollowUps for TLC. *)
EXTENDS FollowUps, TLC

CONSTANTS c1, c2

MCConvs == {c1, c2}
Interchangeable == Permutations(MCConvs)
=============================================================================
