-------------------------- MODULE MCOutboundAudit --------------------------
(* Small instances of OutboundAudit for TLC. *)
EXTENDS OutboundAudit, TLC
CallerSymmetry == Permutations(Callers)
=============================================================================
