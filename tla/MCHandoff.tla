----------------------------- MODULE MCHandoff -----------------------------
(* Instances of Handoff for TLC. *)
EXTENDS Handoff, TLC

CONSTANTS c1, h1, h2

MCConvs == {c1}
MCHandlers == {h1, h2}
Interchangeable == Permutations(MCHandlers)
=============================================================================
