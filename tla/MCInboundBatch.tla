--------------------------- MODULE MCInboundBatch ---------------------------
(* Small instances of InboundBatch for TLC: what may fail, and how often. *)
EXTENDS InboundBatch, TLC

NoFault == [kind \in FaultKinds |-> 0]
TurnFault == [NoFault EXCEPT !["turn"] = 1]
Restart == [NoFault EXCEPT !["shutdown"] = 1]
RedisFault == [TurnFault EXCEPT !["redis"] = 1]
KillAnd(kind) == [NoFault EXCEPT !["crash"] = 1, ![kind] = 1]

\* Behaviours without failures.
Quiet == {NoFault}
\* Behaviours in which every queued message is promised an end.
Benign == {TurnFault, Restart}
\* Behaviours with a kill and a shutdown or a job timeout, and behaviours
\* with a failing turn and a failing Redis command.
Hostile == {KillAnd("shutdown"), KillAnd("timeout"), RedisFault}
Payloads == Permutations(Content)
=============================================================================
