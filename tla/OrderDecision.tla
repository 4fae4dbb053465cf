--------------------------- MODULE OrderDecision ---------------------------
(***************************************************************************)
(* The manager's decision on an order, for one conversation:               *)
(*   src/integrations/notifications/escalation.py   the alert and its      *)
(*                                                  buttons                *)
(*   src/api/telegram_webhook.py   _handle_order_decision                  *)
(*   src/services/escalation_state.py   resolve_conversation_pending_...   *)
(*                                                                         *)
(* A turn of the bot escalates an order: a pending row, and an alert whose *)
(* buttons carry the conversation, not the order.  A tap runs a handler;   *)
(* when the handler raises or dies, Telegram delivers the tap again.       *)
(*                                                                         *)
(* Abstractions.  A lookup and an audited send are one step each, as       *)
(* OutboundAudit shows that the audit row serialises the requests for one  *)
(* identifier.  The identifier of a text is its mode: nothing in src/      *)
(* writes the quotation_meta key, so the quote number in the identifier is *)
(* always DRAFT (and the PDF is never found).  TelegramClient does not     *)
(* raise; the phone is known.                                              *)
(***************************************************************************)
EXTENDS Integers, FiniteSets

CONSTANTS
    Handlers,   \* taps handled at the same time
    MaxOrders,  \* bound: orders the bot escalates
    MaxTaps,    \* bound: taps
    MaxFaults   \* bound: failed sends, dead handlers, keyboards not removed

ASSUME BoundsAssumption == MaxOrders \in Nat /\ MaxTaps \in Nat /\ MaxFaults \in Nat

Orders == 1..MaxOrders
Modes == {"confirm", "reject"}
Statuses == {"none", "pending", "resolved"}
Ends == {"done", "failed", "already"}

VARIABLES
    status,     \* conversation.escalation_status
    open,       \* orders whose escalation row is pending
    escalated,  \* orders escalated so far
    turn,       \* the status in the running turn's Conversation object, or "ended"
    keyboards,  \* orders whose alert still shows its buttons
    taps,
    pc, order, mode,  \* of each handler: where it is and what was tapped
    seen,       \* of each handler: the audit row, then the conversation, it read
    audit,      \* the audit row of each identifier
    accepted,   \* identifiers the provider has accepted
    saved,      \* identifiers whose provider message id a Message row holds
    told,       \* of each order: the decisions the customer got (history)
    recorded,   \* of each order: the decisions written to the conversation (history)
    faults

conversationVars == <<status, open>>
turnVars == <<escalated, turn>>
tapVars == <<keyboards, taps, order, mode>>
sendVars == <<audit, accepted, told>>
vars == <<conversationVars, turnVars, tapVars, pc, seen, sendVars, saved, recorded, faults>>

NoAudit == [status |-> "absent", known |-> FALSE]
Audits == [status : {"absent", "sent", "error", "provider_duplicate"}, known : BOOLEAN]
NothingSeen == [audit |-> NoAudit, status |-> "none", open |-> {}]

Init ==
    /\ status = "none" /\ open = {}
    /\ escalated = {} /\ turn = "ended"
    /\ keyboards = {} /\ taps = 0
    /\ pc = [h \in Handlers |-> "idle"]
    /\ order = [h \in Handlers |-> 0]
    /\ mode = [h \in Handlers |-> "confirm"]
    /\ seen = [h \in Handlers |-> NothingSeen]
    /\ audit = [m \in Modes |-> NoAudit]
    /\ accepted = {} /\ saved = {}
    /\ told = [o \in Orders |-> {}]
    /\ recorded = [o \in Orders |-> {}]
    /\ faults = 0

Goto(h, label) == pc' = [pc EXCEPT ![h] = label]
Fault == faults < MaxFaults /\ faults' = faults + 1

-----------------------------------------------------------------------------
(* The bot.                                                                *)

\* A turn starts only while the bot is not paused.
BeginTurn ==
    /\ turn = "ended" /\ status # "pending"
    /\ turn' = status
    /\ UNCHANGED <<conversationVars, escalated, tapVars, pc, seen, sendVars, saved, recorded, faults>>

\* notify_manager_escalation: the row and the status are committed, then the
\* alert is sent (or lost).  The status is written if the turn's object had
\* another one.
Escalate(o) ==
    /\ turn # "ended" /\ o \notin escalated
    /\ escalated' = escalated \cup {o}
    /\ open' = open \cup {o}
    /\ status' = IF turn = "pending" THEN status ELSE "pending"
    /\ turn' = "pending"
    /\ \/ keyboards' = keyboards \cup {o} /\ UNCHANGED faults
       \/ UNCHANGED keyboards /\ Fault
    /\ UNCHANGED <<taps, order, mode, pc, seen, sendVars, saved, recorded>>

EndTurn ==
    /\ turn # "ended"
    /\ turn' = "ended"
    /\ UNCHANGED <<conversationVars, escalated, tapVars, pc, seen, sendVars, saved, recorded, faults>>

-----------------------------------------------------------------------------
(* _handle_order_decision.                                                 *)

Tap(h, o, m) ==
    /\ pc[h] \in {"idle"} \cup Ends /\ o \in keyboards /\ taps < MaxTaps
    /\ taps' = taps + 1
    /\ order' = [order EXCEPT ![h] = o]
    /\ mode' = [mode EXCEPT ![h] = m]
    /\ Goto(h, "check")
    /\ UNCHANGED <<conversationVars, turnVars, keyboards, seen, sendVars, saved, recorded, faults>>

\* CR-1 (the mutant has no such check).
NeverDecided == FALSE
AlreadyDecided == status = "resolved"

Check(h) ==
    /\ pc[h] = "check"
    /\ Goto(h, IF AlreadyDecided THEN "already" ELSE "keyboard")
    /\ UNCHANGED <<conversationVars, turnVars, tapVars, seen, sendVars, saved, recorded, faults>>

\* CR-2.
RemoveKeyboard(h) ==
    /\ pc[h] = "keyboard"
    /\ \/ keyboards' = keyboards \ {order[h]} /\ UNCHANGED faults
       \/ UNCHANGED keyboards /\ Fault
    /\ Goto(h, "lookup")
    /\ UNCHANGED <<conversationVars, turnVars, taps, order, mode, seen, sendVars, saved, recorded>>

\* send_wazzup_text_with_audit: an active row means there is nothing to send.
Active(row) == row.status \in {"sent", "provider_duplicate"}

Lookup(h) ==
    /\ pc[h] = "lookup"
    /\ seen' = [seen EXCEPT ![h].audit = audit[mode[h]]]
    /\ Goto(h, IF Active(audit[mode[h]]) THEN "load" ELSE "send")
    /\ UNCHANGED <<conversationVars, turnVars, tapVars, sendVars, saved, recorded, faults>>

\* The provider takes the text of h, for the order that h was tapped for.
Accept(h) ==
    /\ mode[h] \notin accepted
    /\ accepted' = accepted \cup {mode[h]}
    /\ told' = [told EXCEPT ![order[h]] = @ \cup {mode[h]}]
Audit(h, row) == audit' = [audit EXCEPT ![mode[h]] = row]

\* The except block: the escalation stays open (the mutant goes on).
GoesOn(h) == Goto(h, "load")
StaysOpen(h) == Goto(h, "failed")

\* The row of a failed send.
FailedRow(known) == [status |-> "error", known |-> known]

Send(h) ==
    /\ pc[h] = "send"
    /\ LET conflict == seen[h].audit = NoAudit /\ audit[mode[h]] # NoAudit
           known == audit[mode[h]].known
       IN  \/ conflict /\ StaysOpen(h) /\ UNCHANGED <<sendVars, faults>>
           \/ /\ ~conflict /\ Accept(h)
              /\ \E id \in BOOLEAN : Audit(h, [status |-> "sent", known |-> id])
              /\ Goto(h, "load") /\ UNCHANGED faults
           \/ /\ ~conflict /\ mode[h] \in accepted
              /\ Audit(h, [status |-> "provider_duplicate", known |-> known])
              /\ StaysOpen(h) /\ UNCHANGED <<accepted, told, faults>>
           \/ /\ ~conflict /\ Fault
              /\ Accept(h) \/ UNCHANGED <<accepted, told>>
              /\ Audit(h, FailedRow(known))
              /\ StaysOpen(h)
    /\ UNCHANGED <<conversationVars, turnVars, tapVars, seen, saved, recorded>>

\* resolve_conversation_pending_escalations reads the conversation and its rows.
Load(h) ==
    /\ pc[h] = "load"
    /\ seen' = [seen EXCEPT ![h].status = status, ![h].open = open]
    /\ Goto(h, "resolve")
    /\ UNCHANGED <<conversationVars, turnVars, tapVars, sendVars, saved, recorded, faults>>

\* The commit of the decision, the Message row and the resolved rows, or
\* the unique index of messages refuses the provider's message id again.
Resolve(h) ==
    /\ pc[h] = "resolve"
    /\ IF audit[mode[h]].known /\ mode[h] \in saved
       THEN Goto(h, "check") /\ UNCHANGED <<conversationVars, saved, recorded>>
       ELSE /\ status' = IF seen[h].status = "resolved" THEN status ELSE "resolved"
            /\ open' = open \ seen[h].open
            /\ saved' = IF audit[mode[h]].known THEN saved \cup {mode[h]} ELSE saved
            /\ recorded' = [recorded EXCEPT ![order[h]] = @ \cup {mode[h]}]
            /\ Goto(h, "done")
    /\ UNCHANGED <<turnVars, tapVars, seen, sendVars, faults>>

\* The process dies or PostgreSQL or Redis fails: Telegram delivers the tap
\* again.  The provider may have the text although its audit row is lost.
Die(h) ==
    /\ pc[h] \notin {"idle", "check"} \cup Ends /\ Fault
    /\ Goto(h, "check")
    /\ \/ UNCHANGED <<accepted, told>>
       \/ pc[h] = "send" /\ (seen[h].audit = audit[mode[h]]) /\ Accept(h)
    /\ UNCHANGED <<conversationVars, turnVars, tapVars, seen, audit, saved, recorded>>

-----------------------------------------------------------------------------
Handle(h) ==
    Check(h) \/ RemoveKeyboard(h) \/ Lookup(h) \/ Send(h) \/ Load(h) \/ Resolve(h)

Next ==
    \/ BeginTurn \/ EndTurn
    \/ \E o \in Orders : Escalate(o)
    \/ \E h \in Handlers : Handle(h) \/ Die(h)
    \/ \E h \in Handlers, o \in Orders, m \in Modes : Tap(h, o, m)

Spec == Init /\ [][Next]_vars
FairSpec == Spec /\ \A h \in Handlers : WF_vars(Handle(h))

-----------------------------------------------------------------------------
(* Properties.                                                             *)

\* Every variable stays in its type; an audit row is never committed as pending.
TypeOK ==
    /\ status \in Statuses /\ open \subseteq escalated /\ escalated \subseteq Orders
    /\ turn \in Statuses \cup {"ended"}
    /\ keyboards \subseteq escalated /\ taps \in 0..MaxTaps
    /\ pc \in [Handlers -> Ends \cup {"idle", "check", "keyboard", "lookup", "send",
                                      "load", "resolve"}]
    /\ order \in [Handlers -> 0..MaxOrders] /\ mode \in [Handlers -> Modes]
    /\ seen \in [Handlers -> [audit : Audits, status : Statuses, open : SUBSET Orders]]
    /\ audit \in [Modes -> Audits]
    /\ accepted \subseteq Modes /\ saved \subseteq accepted
    /\ told \in [Orders -> SUBSET accepted] /\ recorded \in [Orders -> SUBSET Modes]
    /\ faults \in 0..MaxFaults

\* CR-5: an escalation is resolved, and a decision recorded, only when the
\* customer has got that decision, whatever taps are repeated, handlers die
\* and sends fail.
ResolvedOnlyAfterSend ==
    \A o \in escalated : /\ recorded[o] \subseteq told[o]
                         /\ o \in open \/ told[o] # {}

\* The manager's tap comes to an end: the decision is made, has been made
\* already, or the escalation is reported to stay open.
TapIsAnswered == \A h \in Handlers : pc[h] = "check" ~> pc[h] \in Ends
=============================================================================
