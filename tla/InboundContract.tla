-------------------------- MODULE InboundContract --------------------------
(***************************************************************************)
(* What the durable batching of src/services/chat.py promises about the    *)
(* accepted messages of one chat, whatever fails in between: messages are  *)
(* settled in arrival order, in batches; the side effects of a batch begin *)
(* at most once, before it is settled and after every earlier batch is; a  *)
(* batch whose side effects began is settled as exactly that batch.        *)
(***************************************************************************)
EXTENDS Integers, Sequences

CONSTANTS Content, MaxArrivals

Numbers == 1..MaxArrivals

VARIABLES
    raw,       \* payloads accepted by the webhook, in arrival order
    effects,   \* how often the side effects of each arrival began
    outcome    \* how each arrival was settled

vars == <<raw, effects, outcome>>

Init ==
    /\ raw = << >>
    /\ effects = [k \in Numbers |-> 0]
    /\ outcome = [k \in Numbers |-> "pending"]

Open == {k \in 1..Len(raw) : outcome[k] = "pending"}
Begun == {k \in Open : effects[k] > 0}

\* A batch is a non-empty block of the open messages that leaves none older.
IsBatch(b) == b # {} /\ \A k \in b, l \in Open : l =< k => l \in b

Accept(c) ==
    /\ Len(raw) < MaxArrivals
    /\ raw' = Append(raw, c)
    /\ UNCHANGED <<effects, outcome>>

Begin(b) ==
    /\ IsBatch(b) /\ Begun = {}
    /\ effects' = [k \in Numbers |-> IF k \in b THEN effects[k] + 1 ELSE effects[k]]
    /\ UNCHANGED <<raw, outcome>>

Settle(b, how) ==
    /\ IsBatch(b) /\ (Begun = {} \/ Begun = b)
    /\ outcome' = [k \in Numbers |-> IF k \in b THEN how ELSE outcome[k]]
    /\ UNCHANGED <<raw, effects>>

Next ==
    \/ \E c \in Content : Accept(c)
    \/ \E b \in SUBSET Open :
          Begin(b) \/ \E how \in {"acknowledged", "quarantined"} : Settle(b, how)

Spec == Init /\ [][Next]_vars
=============================================================================
