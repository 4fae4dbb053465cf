---------------------------- MODULE MCLlmAttempt ----------------------------
(* Small instances of LlmAttempt for TLC. *)
EXTENDS LlmAttempt, TLC
RunnerSymmetry == Permutations(Runners)
=============================================================================
