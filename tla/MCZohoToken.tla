----------------------------- MODULE MCZohoToken -----------------------------
(* Callers are interchangeable: Permutations is a sound symmetry for safety. *)
EXTENDS ZohoToken, TLC
CallerSymmetry == Permutations(Callers)
=============================================================================
