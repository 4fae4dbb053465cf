-------------------------- MODULE MCOrderDecision --------------------------
(* Small instances of OrderDecision for TLC. *)
EXTENDS OrderDecision, TLC
HandlerSymmetry == Permutations(Handlers)
=============================================================================
