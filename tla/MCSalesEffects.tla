--------------------------- MODULE MCSalesEffects ---------------------------
(* The tools of up to two messages with two calls each and two faults,      *)
(* beside two other writers of the metadata.  The writers are alike.        *)
EXTENDS SalesEffects, TLC

AlikeWriters == Permutations(Outsiders)
=============================================================================
