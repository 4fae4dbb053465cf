------------------------- MODULE OrderDecisionProofs -------------------------
(* A decision is recorded, and an escalation resolved, only after the send: *)
(* for every number of taps, handlers and faults.  With several orders in a *)
(* conversation the identifier does not tell them apart, so what is proved  *)
(* of all orders is weaker than what is proved of a single one.             *)
EXTENDS OrderDecision, TLAPS

Labels == Ends \cup {"idle", "check", "keyboard", "lookup", "send", "load", "resolve"}

\* A handler past its send has one that the provider accepted, and every
\* accepted text was told about some order.
SentInv ==
    /\ \A m \in Modes : Active(audit[m]) => m \in accepted
    /\ \A h \in Handlers : pc[h] \in {"load", "resolve"} => mode[h] \in accepted
    /\ \A h \in Handlers : pc[h] # "idle" => order[h] \in Orders
    /\ \A m \in accepted : \E o \in Orders : m \in told[o]

\* A decision is recorded, and a row resolved, only with an accepted text.
RecordedInv ==
    /\ \A o \in Orders : recorded[o] \subseteq accepted
    /\ \A o \in escalated : o \in open \/ accepted # {}

DecisionInv == TypeOK /\ SentInv /\ RecordedInv

\* The bounds are natural numbers.
LEMMA Bounds == MaxOrders \in Nat /\ MaxTaps \in Nat /\ MaxFaults \in Nat
  BY BoundsAssumption

\* The labels a handler may be at.
LEMMA LabelsType ==
    ASSUME DecisionInv
    PROVE  /\ pc \in [Handlers -> Labels]
           /\ "load" \in Labels /\ "failed" \in Labels /\ "check" \in Labels /\ "done" \in Labels
  BY DEF DecisionInv, TypeOK, Labels, Ends

\* The initial state has the invariant.
LEMMA InitDecision == Init => DecisionInv
<1> SUFFICES ASSUME Init PROVE DecisionInv
  OBVIOUS
<1>1. NoAudit \in Audits /\ ~Active(NoAudit)
  BY DEF NoAudit, Audits, Active
<1>2. NothingSeen \in [audit : Audits, status : Statuses, open : SUBSET Orders]
  BY <1>1 DEF NothingSeen, Statuses
<1>3. TypeOK
  BY <1>1, <1>2, Bounds DEF Init, TypeOK, Statuses, Modes, Ends
<1>4. SentInv
  BY <1>1 DEF Init, SentInv
<1>5. RecordedInv
  BY DEF Init, RecordedInv
<1> QED BY <1>3, <1>4, <1>5 DEF DecisionInv

\* What the bot does.
LEMMA BotDecision ==
    ASSUME DecisionInv, BeginTurn \/ EndTurn \/ \E o \in Orders : Escalate(o) PROVE DecisionInv'
<1> USE DEF DecisionInv, conversationVars, turnVars, tapVars, sendVars
<1>1. CASE BeginTurn \/ EndTurn
  BY <1>1 DEF BeginTurn, EndTurn, TypeOK, SentInv, RecordedInv
<1>2. ASSUME NEW o \in Orders, Escalate(o) PROVE DecisionInv'
  <2>1. TypeOK'
    <3>1. faults' \in 0..MaxFaults
      BY <1>2, Bounds DEF Escalate, Fault, TypeOK
    <3> QED BY <1>2, <3>1 DEF Escalate, TypeOK, Statuses
  <2>2. SentInv' /\ RecordedInv'
    BY <1>2 DEF Escalate, SentInv, RecordedInv
  <2> QED BY <2>1, <2>2
<1> QED BY <1>1, <1>2

\* Steps of a handler that send nothing and decide nothing.
LEMMA QuietDecision ==
    ASSUME DecisionInv, NEW h \in Handlers,
           \/ Check(h) \/ RemoveKeyboard(h) \/ Lookup(h) \/ Load(h)
           \/ \E o \in Orders, m \in Modes : Tap(h, o, m)
    PROVE  DecisionInv'
<1> USE DEF DecisionInv, conversationVars, turnVars, tapVars, sendVars, Goto
<1>1. CASE Check(h)
  BY <1>1 DEF Check, TypeOK, SentInv, RecordedInv, Ends
<1>2. CASE RemoveKeyboard(h)
  <2>1. faults' \in 0..MaxFaults
    BY <1>2, Bounds DEF RemoveKeyboard, Fault, TypeOK
  <2>2. TypeOK'
    BY <1>2, <2>1 DEF RemoveKeyboard, TypeOK
  <2>3. SentInv' /\ RecordedInv'
    BY <1>2 DEF RemoveKeyboard, TypeOK, SentInv, RecordedInv
  <2> QED BY <2>2, <2>3
<1>3. CASE Lookup(h)
  BY <1>3 DEF Lookup, TypeOK, SentInv, RecordedInv
<1>4. CASE Load(h)
  BY <1>4 DEF Load, TypeOK, SentInv, RecordedInv
<1>5. ASSUME NEW o \in Orders, NEW m \in Modes, Tap(h, o, m) PROVE DecisionInv'
  <2>1. TypeOK'
    <3>1. order' \in [Handlers -> 0..MaxOrders] /\ taps' \in 0..MaxTaps
      BY <1>5, Bounds DEF Tap, TypeOK, Orders
    <3> QED BY <1>5, <3>1 DEF Tap, TypeOK
  <2>2. SentInv' /\ RecordedInv'
    BY <1>5 DEF Tap, TypeOK, SentInv, RecordedInv
  <2> QED BY <2>1, <2>2
<1> QED BY <1>1, <1>2, <1>3, <1>4, <1>5

\* The provider takes a text: it is told about the order of the handler.
LEMMA AcceptDecision ==
    ASSUME DecisionInv, NEW h \in Handlers, pc[h] # "idle",
           Accept(h) \/ UNCHANGED <<accepted, told>>
    PROVE  /\ accepted \subseteq accepted' /\ accepted' \subseteq Modes
           /\ told' \in [Orders -> SUBSET accepted']
           /\ \A m \in accepted' : \E o \in Orders : m \in told'[o]
<1>1. order[h] \in Orders /\ mode[h] \in Modes /\ told \in [Orders -> SUBSET accepted]
      /\ accepted \subseteq Modes
  BY DEF DecisionInv, SentInv, TypeOK
<1>2. CASE UNCHANGED <<accepted, told>>
  BY <1>1, <1>2 DEF DecisionInv, SentInv
<1>3. CASE Accept(h)
  <2>1. accepted' = accepted \cup {mode[h]} /\ told' = [told EXCEPT ![order[h]] = @ \cup {mode[h]}]
    BY <1>3 DEF Accept
  <2>2. \A o \in Orders : told[o] \subseteq told'[o]
    BY <1>1, <2>1
  <2>3. mode[h] \in told'[order[h]]
    BY <1>1, <2>1
  <2> QED BY <1>1, <2>1, <2>2, <2>3 DEF DecisionInv, SentInv
<1> QED BY <1>2, <1>3

\* A send leaves an active row only for an accepted text.
LEMMA SendDecision ==
    ASSUME DecisionInv, NEW h \in Handlers, Send(h) PROVE DecisionInv'
<1> USE DEF conversationVars, turnVars, tapVars, sendVars
<1>1. Accept(h) \/ UNCHANGED <<accepted, told>>
  BY DEF Send
<1>2. pc[h] = "send" /\ mode[h] \in Modes
  BY DEF Send, DecisionInv, TypeOK
<1>3. /\ accepted \subseteq accepted' /\ accepted' \subseteq Modes
      /\ told' \in [Orders -> SUBSET accepted']
      /\ \A m \in accepted' : \E o \in Orders : m \in told'[o]
  BY <1>1, <1>2, AcceptDecision
<1>4. UNCHANGED <<status, open, escalated, turn, keyboards, taps, order, mode, seen, saved, recorded>>
  BY DEF Send
<1>5. faults' \in 0..MaxFaults
  <2>1. faults' = faults \/ Fault
    BY DEF Send
  <2> QED BY <2>1, Bounds DEF Fault, DecisionInv, TypeOK
<1>6. \/ pc' = [pc EXCEPT ![h] = "load"] /\ mode[h] \in accepted'
      \/ pc' = [pc EXCEPT ![h] = "failed"]
  BY DEF Send, Goto, StaysOpen, Accept
<1>7. PICK row \in Audits : /\ audit' = audit \/ audit' = [audit EXCEPT ![mode[h]] = row]
                            /\ audit' # audit => (Active(row) => mode[h] \in accepted')
  <2>1. audit[mode[h]] \in Audits
    BY <1>2 DEF DecisionInv, TypeOK
  <2> QED BY <2>1 DEF Send, Audit, Accept, FailedRow, Active, Audits, DecisionInv, TypeOK
<1>8. TypeOK'
  <2>1. audit' \in [Modes -> Audits]
    BY <1>2, <1>7 DEF DecisionInv, TypeOK
  <2>2. pc' \in [Handlers -> Labels]
    BY <1>6, LabelsType
  <2> QED BY <1>3, <1>4, <1>5, <2>1, <2>2 DEF DecisionInv, TypeOK, Labels
<1>9. SentInv'
  <2>1. ASSUME NEW m \in Modes, Active(audit'[m]) PROVE m \in accepted'
    BY <1>3, <1>7, <2>1 DEF DecisionInv, SentInv, TypeOK
  <2>2. ASSUME NEW k \in Handlers, pc'[k] \in {"load", "resolve"} PROVE mode[k] \in accepted'
    BY <1>3, <1>6, <2>2 DEF DecisionInv, SentInv, TypeOK
  <2>3. \A k \in Handlers : order[k] \in Orders \/ pc'[k] = "idle"
    BY <1>2, <1>6 DEF DecisionInv, SentInv, TypeOK
  <2> QED BY <1>3, <1>4, <2>1, <2>2, <2>3 DEF SentInv, Active
<1>10. RecordedInv'
  BY <1>3, <1>4 DEF DecisionInv, RecordedInv
<1> QED BY <1>8, <1>9, <1>10 DEF DecisionInv

\* The decision is recorded by a handler past its send.
LEMMA ResolveDecision ==
    ASSUME DecisionInv, NEW h \in Handlers, Resolve(h) PROVE DecisionInv'
<1> USE DEF conversationVars, turnVars, tapVars, sendVars
<1>1. mode[h] \in accepted /\ order[h] \in Orders /\ mode[h] \in Modes
  BY DEF Resolve, DecisionInv, SentInv, TypeOK
<1>2. UNCHANGED <<escalated, turn, keyboards, taps, order, mode, seen, audit, accepted, told, faults>>
  BY DEF Resolve
<1>3. pc' = [pc EXCEPT ![h] = "check"] \/ pc' = [pc EXCEPT ![h] = "done"]
  BY DEF Resolve, Goto
<1>4. /\ status' \in Statuses /\ open' \subseteq open /\ saved' \subseteq accepted
      /\ \/ recorded' = recorded /\ open' = open
         \/ recorded' = [recorded EXCEPT ![order[h]] = @ \cup {mode[h]}]
  BY <1>1 DEF Resolve, DecisionInv, TypeOK, Statuses
<1>5. TypeOK'
  <2>1. recorded' \in [Orders -> SUBSET Modes]
    BY <1>1, <1>4 DEF DecisionInv, TypeOK
  <2>2. pc' \in [Handlers -> Labels]
    BY <1>3, LabelsType
  <2> QED BY <1>2, <1>4, <2>1, <2>2 DEF DecisionInv, TypeOK, Labels
<1>6. SentInv'
  <2>1. \A k \in Handlers : pc'[k] = pc[k] \/ (k = h /\ pc'[k] \in {"check", "done"})
    BY <1>3, LabelsType
  <2>2. pc[h] # "idle"
    BY DEF Resolve
  <2> QED BY <1>2, <2>1, <2>2 DEF DecisionInv, SentInv, Active
<1>7. RecordedInv'
  <2>1. \A o \in Orders : recorded'[o] \subseteq accepted
    BY <1>1, <1>4 DEF DecisionInv, RecordedInv, TypeOK
  <2> QED BY <1>1, <1>2, <1>4, <2>1 DEF DecisionInv, RecordedInv
<1> QED BY <1>5, <1>6, <1>7 DEF DecisionInv

\* A dead handler may leave an accepted text without a row.
LEMMA DieDecision ==
    ASSUME DecisionInv, NEW h \in Handlers, Die(h) PROVE DecisionInv'
<1> USE DEF conversationVars, turnVars, tapVars
<1>1. pc[h] # "idle" /\ (Accept(h) \/ UNCHANGED <<accepted, told>>)
  BY DEF Die
<1>2. /\ accepted \subseteq accepted' /\ accepted' \subseteq Modes
      /\ told' \in [Orders -> SUBSET accepted']
      /\ \A m \in accepted' : \E o \in Orders : m \in told'[o]
  BY <1>1, AcceptDecision
<1>3. /\ UNCHANGED <<status, open, escalated, turn, keyboards, taps, order, mode, seen, audit,
                     saved, recorded>>
      /\ pc' = [pc EXCEPT ![h] = "check"]
  BY DEF Die, Goto
<1>4. faults' \in 0..MaxFaults
  BY Bounds DEF Die, Fault, DecisionInv, TypeOK
<1>5. TypeOK'
  BY <1>2, <1>3, <1>4 DEF DecisionInv, TypeOK
<1>6. SentInv'
  BY <1>1, <1>2, <1>3 DEF DecisionInv, SentInv, TypeOK, Active
<1>7. RecordedInv'
  BY <1>2, <1>3 DEF DecisionInv, RecordedInv
<1> QED BY <1>5, <1>6, <1>7 DEF DecisionInv

\* Every step keeps the invariant.
LEMMA NextDecision == DecisionInv /\ [Next]_vars => DecisionInv'
<1> SUFFICES ASSUME DecisionInv, [Next]_vars PROVE DecisionInv'
  OBVIOUS
<1>1. CASE UNCHANGED vars
  BY <1>1 DEF vars, conversationVars, turnVars, tapVars, sendVars, DecisionInv, TypeOK, SentInv,
              RecordedInv, Active
<1>2. CASE BeginTurn \/ EndTurn \/ \E o \in Orders : Escalate(o)
  BY <1>2, BotDecision
<1>3. ASSUME NEW h \in Handlers, Handle(h) \/ Die(h) PROVE DecisionInv'
  BY <1>3, QuietDecision, SendDecision, ResolveDecision, DieDecision DEF Handle
<1>4. ASSUME NEW h \in Handlers, NEW o \in Orders, NEW m \in Modes, Tap(h, o, m) PROVE DecisionInv'
  BY <1>4, QuietDecision
<1> QED BY <1>1, <1>2, <1>3, <1>4 DEF Next

\* _handle_order_decision records a decision, and takes an escalation off
\* the open ones, only when the provider has accepted a text with the
\* decision: for every number of orders, taps, handlers and faults.
THEOREM DecisionHolds == Spec => []DecisionInv
<1>1. Init => DecisionInv
  BY InitDecision
<1>2. DecisionInv /\ [Next]_vars => DecisionInv'
  BY NextDecision
<1> QED BY <1>1, <1>2, PTL DEF Spec

\* The variables keep their types.
THEOREM TypeCorrect == Spec => []TypeOK
<1>1. DecisionInv => TypeOK
  BY DEF DecisionInv
<1> QED BY <1>1, DecisionHolds, PTL

\* CR-5, with one order in the conversation: the text that was accepted was
\* about this order.
THEOREM ResolvedOnlyAfterSendHolds ==
    ASSUME MaxOrders = 1 PROVE Spec => []ResolvedOnlyAfterSend
<1>1. DecisionInv => ResolvedOnlyAfterSend
  <2> SUFFICES ASSUME DecisionInv, NEW o \in escalated
               PROVE  recorded[o] \subseteq told[o] /\ (o \in open \/ told[o] # {})
    BY DEF ResolvedOnlyAfterSend
  <2>1. Orders = {1} /\ o = 1
    BY DEF Orders, DecisionInv, TypeOK
  <2>2. told[o] = accepted
    <3>1. told[o] \subseteq accepted
      BY <2>1 DEF DecisionInv, TypeOK
    <3>2. \A m \in accepted : m \in told[o]
      BY <2>1 DEF DecisionInv, SentInv
    <3> QED BY <3>1, <3>2
  <2> QED BY <2>1, <2>2 DEF DecisionInv, RecordedInv
<1> QED BY <1>1, DecisionHolds, PTL
=============================================================================
