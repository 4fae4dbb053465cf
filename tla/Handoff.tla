------------------------------ MODULE Handoff ------------------------------
(***************************************************************************)
(* Conversations between the bot and the managers:                         *)
(*   src/api/telegram_webhook.py   the reply a manager types, /reset       *)
(*   src/services/escalation_state.py, src/services/conversation_reset.py  *)
(*   src/services/chat.py          turns, takeover by a manager's message  *)
(*   src/services/admin_crm.py     escalations in the admin panel          *)
(*   scripts/escalation_guard.py   audit and apply of stale escalations    *)
(*                                                                         *)
(* A manager presses a button under an alert: the chat gets a draft slot   *)
(* and a mark in Redis.  The next text typed in the chat takes the slot,   *)
(* is adapted, sent with an audit row, and resolves the escalations of its *)
(* conversation.  A text without a slot is ignored, unless the mark says   *)
(* that the chat was asked for one.                                        *)
(*                                                                         *)
(* Abstractions.  One managers' chat.  A turn holds the chat's lock, so a  *)
(* conversation has one at a time.  The audit row of a send is read, and   *)
(* then written with the send.  A conversation that a reset archived takes *)
(* no customer's turn any more, and its successor is another one; a reply  *)
(* still reaches its customer.  Wazzup answers with an identifier, or with *)
(* none for a repeated one.  Days do not pass while a text is handled.     *)
(* TelegramClient does not raise; to tell is to try.                       *)
(***************************************************************************)
EXTENDS Integers, FiniteSets

CONSTANTS
    Convs, None,  \* conversations, and no conversation
    Handlers,     \* texts handled at the same time
    MaxTexts, MaxPresses, MaxRows, MaxAdmin, MaxFaults  \* bounds

ASSUME BoundsAssumption == {MaxTexts, MaxPresses, MaxRows, MaxAdmin, MaxFaults} \subseteq Nat
ASSUME NoneAssumption == None \notin Convs

Texts == 1..MaxTexts
Rows == 1..MaxRows
Paused == {"pending", "in_progress", "manual_takeover"}
Statuses == Paused \cup {"none", "resolved"}
Open == {"pending", "in_progress"}
Week == 2  \* ticks; a day is one
Audits == {"none", "error", "duplicate", "sent"}

VARIABLES
    slot, mark,         \* Redis: the conversation of the draft, and the life of the mark
    press,              \* a press between its writes
    promise, owed,      \* how long its prompt is good for; the text that answered it
    pc, text, conv,     \* of each handler: where it is, its text and its conversation
    seen,               \* of each handler: the audit, the status and the rows it read
    audit, accepted,    \* audit rows; what the provider accepted, as <<conversation, text>>
    saved,              \* Message rows of replies; after one the manager is told "sent"
    swallowed, cut,     \* answers that were ignored; texts that lost a handler and its keys
    status, archived,   \* of the conversations
    owner, state,       \* of the escalation rows
    before,             \* of the rows: the replies saved before they were opened
    answered,           \* rows that a reply resolved, its text and the audit it read
    turn, late,         \* the running turn; messages since ruled out by the status, in a row
    reset, manifest,    \* what a reset and an audit of the rows found
    typed, presses, admin, faults

redis == <<slot, mark>>
desk == <<redis, press, promise, owed, presses>>
handlers == <<pc, text, conv, seen, typed>>
sends == <<audit, accepted, saved>>
fates == <<swallowed, cut>>
escalations == <<status, archived, owner, state, before, answered>>
bot == <<turn, late>>
tools == <<reset, manifest, admin>>
vars == <<desk, handlers, sends, fates, escalations, bot, tools, faults>>

Nothing == [audit |-> "none", resolved |-> FALSE, rows |-> {}]
Turns == {"ended", "llm", "escalated", "ack", "voice", "takeover"}

Init ==
    /\ slot = None /\ mark = 0 /\ press = None /\ promise = 0 /\ owed = 0 /\ presses = 0
    /\ pc = [h \in Handlers |-> "idle"] /\ text = [h \in Handlers |-> 0]
    /\ conv = [h \in Handlers |-> None]
    /\ seen = [h \in Handlers |-> Nothing] /\ typed = 0
    /\ audit = [i \in Convs \X Texts |-> "none"] /\ accepted = {} /\ saved = {}
    /\ swallowed = {} /\ cut = {}
    /\ status = [c \in Convs |-> "none"] /\ archived = {}
    /\ owner = [r \in Rows |-> None] /\ state = [r \in Rows |-> "none"]
    /\ before = [r \in Rows |-> {}] /\ answered = {}
    /\ turn = [c \in Convs |-> "ended"] /\ late = [c \in Convs |-> 0]
    /\ reset = [c \in Convs |-> {}] /\ manifest = {} /\ admin = 0 /\ faults = 0

Fault == faults < MaxFaults /\ faults' = faults + 1
RowsOf(c) == {r \in Rows : owner[r] = c}

\* A new row of c.
OpenRow(c, s) ==
    \E r \in Rows :
        /\ state[r] = "none" /\ \A q \in 1..(r - 1) : state[q] # "none"
        /\ owner' = [owner EXCEPT ![r] = c] /\ state' = [state EXCEPT ![r] = s]
        /\ before' = [before EXCEPT ![r] = {t \in Texts : <<c, t>> \in saved}]
CloseRows(S) == state' = [r \in Rows |-> IF r \in S THEN "resolved" ELSE state[r]]
\* The session writes the status only if it differs from the one it loaded.
Resolve(c, already) == status' = IF already THEN status ELSE [status EXCEPT ![c] = "resolved"]

-----------------------------------------------------------------------------
(* The bot (chat.py).                                                      *)

\* The status that a turn has loaded decides what it sends: a paused
\* conversation has no LLM turn (the mutant asks nothing), one with an open
\* escalation an acknowledgement, one that a manager has taken over nothing.
NeverPaused(c) == FALSE
BotPaused(c) == status[c] \in Paused
Acknowledged(c) == status[c] \in Open

Begin(c, place) ==
    /\ turn[c] = "ended" /\ c \notin archived
    /\ turn' = [turn EXCEPT ![c] = place]
    /\ UNCHANGED <<desk, handlers, sends, fates, escalations, tools, faults>>

BeginTurn(c) ==
    /\ ~BotPaused(c) /\ Begin(c, "llm")
    /\ late' = IF status[c] \in Paused THEN late ELSE [late EXCEPT ![c] = 0]

BeginAcknowledgement(c) ==
    /\ Acknowledged(c) /\ Begin(c, "ack")
    /\ late' = IF status[c] \in Open THEN [late EXCEPT ![c] = 0] ELSE late

\* A voice message that cannot be transcribed: nothing asks for the status.
BeginVoice(c) == Begin(c, "voice") /\ UNCHANGED late

\* A message of a manager in the customer's chat; while paused it changes nothing.
BeginTakeover(c) == status[c] \notin Paused /\ Begin(c, "takeover") /\ UNCHANGED late

TakeOver(c) ==
    /\ turn[c] = "takeover" /\ turn' = [turn EXCEPT ![c] = "ended"]
    /\ status' = [status EXCEPT ![c] = "manual_takeover"]
    /\ UNCHANGED <<desk, handlers, sends, fates, archived, owner, state, before, answered, late,
                   tools, faults>>

\* notify_manager_escalation; a turn that has escalated has pending loaded.
Escalate(c) ==
    /\ turn[c] \in {"llm", "escalated"} /\ OpenRow(c, "pending")
    /\ status' = IF turn[c] = "llm" THEN [status EXCEPT ![c] = "pending"] ELSE status
    /\ turn' = [turn EXCEPT ![c] = "escalated"]
    /\ UNCHANGED <<desk, handlers, sends, fates, archived, answered, late, tools, faults>>

\* The turn sends its message and ends; it counts if the status rules it out now.
Says(c, kind, ruledOut) ==
    /\ turn[c] = kind /\ turn' = [turn EXCEPT ![c] = "ended"]
    /\ late' = IF ruledOut THEN [late EXCEPT ![c] = @ + 1] ELSE late
    /\ UNCHANGED <<desk, handlers, sends, fates, escalations, tools, faults>>

\* The model's reply, or the apology for its timeout; after its own escalation
\* a turn says that a manager comes.
BotReplies(c) == Says(c, "llm", status[c] \in Paused) \/ Says(c, "escalated", FALSE)
\* "A manager has been notified"; not for a text repeated within minutes.
Acknowledge(c) == \E sent \in BOOLEAN : Says(c, "ack", sent /\ status[c] \notin Open)
VoiceFallback(c) == Says(c, "voice", FALSE)

-----------------------------------------------------------------------------
(* The manager's desk (telegram_webhook.py).                               *)

\* A button under an alert; nothing removes the buttons.
Press(c) ==
    /\ press = None /\ presses < MaxPresses /\ RowsOf(c) # {}
    /\ slot' = c /\ press' = c /\ presses' = presses + 1
    /\ UNCHANGED <<mark, promise, owed, handlers, sends, fates, escalations, bot, tools, faults>>

\* How long the mark lives (the mutant lets it expire with the draft).
AsLongAsDraft == 1
MarkLife == Week

AtKeys(h) == pc[h] \in {"holds", "asks", "warns"}
Prompt ==
    /\ press # None /\ press' = None /\ mark' = MarkLife
    /\ IF \E h \in Handlers : AtKeys(h) THEN UNCHANGED <<promise, owed>>
       ELSE promise' = Week /\ owed' = 0
    /\ UNCHANGED <<slot, presses, handlers, sends, fates, escalations, bot, tools, faults>>

\* A handler starts by reading the slot.  The first text after a prompt is its
\* answer, until another text comes.
Arrive(h, t) ==
    /\ pc[h] = "idle"
    /\ pc' = [pc EXCEPT ![h] = IF slot = None THEN "asks" ELSE "holds"]
    /\ text' = [text EXCEPT ![h] = t] /\ conv' = [conv EXCEPT ![h] = slot]
    /\ IF promise > 0 /\ owed \in {0, t} THEN owed' = t /\ UNCHANGED promise
       ELSE owed' = 0 /\ promise' = 0
    /\ UNCHANGED <<redis, press, presses, seen, sends, fates, escalations, bot, tools>>

Type(h) ==
    /\ typed < MaxTexts /\ typed' = typed + 1 /\ Arrive(h, typed + 1) /\ UNCHANGED faults
\* Telegram delivers a text again whose handler failed or is slow.
Redeliver(h) == Fault /\ \E t \in 1..typed : Arrive(h, t) /\ UNCHANGED typed

Goto(h, place) == pc' = [pc EXCEPT ![h] = place]
Stay == UNCHANGED <<text, conv, typed>>
\* The handler of h ends.
Leave(h) ==
    /\ Goto(h, "idle") /\ text' = [text EXCEPT ![h] = 0] /\ conv' = [conv EXCEPT ![h] = None]
    /\ seen' = [seen EXCEPT ![h] = Nothing] /\ UNCHANGED typed
\* It ends with a message to the manager: sent, not sent, or an error.
Tells(h) ==
    /\ Leave(h)
    /\ IF owed = text[h] THEN owed' = 0 /\ promise' = 0 ELSE UNCHANGED <<owed, promise>>

\* A handler that has taken its keys, and has not told the manager yet.
HasKeys(h) == pc[h] \in {"tells", "send", "post", "load", "rows", "commit"}

\* No slot: the text is ignored, unless the mark is there.
Ask(h) ==
    /\ pc[h] = "asks"
    /\ IF mark > 0
       THEN Goto(h, "warns") /\ Stay /\ UNCHANGED <<seen, swallowed>>
       ELSE /\ Leave(h)
            /\ swallowed' = swallowed \cup
                  {t \in {text[h]} : owed = t /\ ~\E g \in Handlers : HasKeys(g) /\ text[g] = t}
    /\ UNCHANGED <<desk, sends, cut, escalations, bot, tools, faults>>

Unmark(h) ==
    /\ pc[h] = "warns" /\ Goto(h, "tells") /\ mark' = 0 /\ Stay
    /\ UNCHANGED <<slot, press, promise, owed, presses, seen, sends, fates, escalations, bot,
                   tools, faults>>

Warn(h) ==
    /\ pc[h] = "tells" /\ Tells(h)
    /\ UNCHANGED <<redis, press, presses, sends, fates, escalations, bot, tools, faults>>

\* The keys are deleted and the phone is read; the draft may fail to be adapted.
Adapt(h) ==
    /\ pc[h] = "holds" /\ slot' = None /\ mark' = 0
    /\ \/ Goto(h, "send") /\ Stay /\ UNCHANGED <<seen, promise, owed, faults>>
       \/ Fault /\ Tells(h)
    /\ UNCHANGED <<press, presses, sends, fates, escalations, bot, tools>>

Id(h) == <<conv[h], text[h]>>
\* Audit rows that suppress a send (the mutant takes any row).
AnyRow(row) == row # "none"
Suppresses(row) == row \in {"sent", "duplicate"}

Look(h) ==
    /\ pc[h] = "send" /\ seen' = [seen EXCEPT ![h].audit = audit[Id(h)]]
    /\ Goto(h, IF Suppresses(audit[Id(h)]) THEN "load" ELSE "post") /\ Stay
    /\ UNCHANGED <<desk, sends, fates, escalations, bot, tools, faults>>

\* A handler whose audit row is written and not committed; others wait for it.
Wrote(h) == pc[h] \in {"load", "rows", "commit"} /\ ~Suppresses(seen[h].audit)

\* A failed send commits its audit row and ends the handler with an error; so
\* does the row that another handler has inserted meanwhile.
Post(h) ==
    /\ pc[h] = "post" /\ ~\E g \in Handlers : Wrote(g) /\ Id(g) = Id(h)
    /\ \/ /\ seen[h].audit = "none" /\ audit[Id(h)] # "none" /\ Tells(h)
          /\ UNCHANGED <<audit, accepted, faults>>
       \/ /\ seen[h].audit # "none" \/ audit[Id(h)] = "none"
          /\ \/ /\ Id(h) \notin accepted /\ accepted' = accepted \cup {Id(h)} /\ Goto(h, "load")
                /\ Stay /\ UNCHANGED <<seen, audit, promise, owed, faults>>
             \/ /\ Id(h) \in accepted /\ audit' = [audit EXCEPT ![Id(h)] = "duplicate"] /\ Tells(h)
                /\ UNCHANGED <<accepted, faults>>
             \/ /\ Fault /\ accepted' \in {accepted, accepted \cup {Id(h)}}
                /\ audit' = [audit EXCEPT ![Id(h)] = "error"] /\ Tells(h)
    /\ UNCHANGED <<redis, press, presses, saved, fates, escalations, bot, tools>>

\* resolve_conversation_pending_escalations: the conversation, then its rows.
LoadConversation(h) ==
    /\ pc[h] = "load" /\ Goto(h, "rows") /\ Stay
    /\ seen' = [seen EXCEPT ![h].resolved = status[conv[h]] = "resolved"]
    /\ UNCHANGED <<desk, sends, fates, escalations, bot, tools, faults>>

LoadRows(h) ==
    /\ pc[h] = "rows" /\ Goto(h, "commit") /\ Stay
    /\ seen' = [seen EXCEPT ![h].rows = {r \in RowsOf(conv[h]) : state[r] = "pending"}]
    /\ UNCHANGED <<desk, sends, fates, escalations, bot, tools, faults>>

\* A second Message row with the same provider message is refused (the mutant
\* has no such index); a duplicate's row has none.
Unrefused(h) == FALSE
Refused(h) == Id(h) \in saved /\ seen[h].audit = "sent"

Commit(h) ==
    /\ pc[h] = "commit"
    /\ IF Refused(h)
       THEN UNCHANGED <<audit, saved, status, state, answered>>
       ELSE /\ saved' = saved \cup {Id(h)}
            /\ audit' = IF Wrote(h) THEN [audit EXCEPT ![Id(h)] = "sent"] ELSE audit
            /\ Resolve(conv[h], seen[h].resolved)
            /\ CloseRows(seen[h].rows)
            /\ answered' = answered \cup (seen[h].rows \X {text[h]} \X {seen[h].audit})
    /\ Tells(h)
    /\ UNCHANGED <<redis, press, presses, accepted, fates, archived, owner, before, bot, tools,
                   faults>>

\* The process dies; what it has not committed is lost.
Die(h) ==
    /\ pc[h] # "idle" /\ Fault /\ Leave(h)
    /\ cut' = IF HasKeys(h) THEN cut \cup {text[h]} ELSE cut
    /\ UNCHANGED <<desk, sends, swallowed, escalations, bot, tools>>

Handle(h) ==
    \/ Type(h) \/ Redeliver(h) \/ Ask(h) \/ Unmark(h) \/ Warn(h) \/ Adapt(h) \/ Look(h) \/ Post(h)
    \/ LoadConversation(h) \/ LoadRows(h) \/ Commit(h) \/ Die(h)

-----------------------------------------------------------------------------
(* The admin panel, resets and the reconciliation of stale rows.           *)

Admin == admin < MaxAdmin /\ admin' = admin + 1
toolsLeft == <<desk, handlers, sends, fates, answered, bot, faults>>

AdminEscalates(c) ==
    /\ Admin
    /\ \E s \in Open : OpenRow(c, s) /\ status' = [status EXCEPT ![c] = s]
    /\ UNCHANGED <<toolsLeft, archived, reset, manifest>>

\* The panel closes a row without its conversation, or sets a status.
AdminCloses(r) ==
    /\ Admin /\ state[r] \in Open /\ CloseRows({r})
    /\ UNCHANGED <<toolsLeft, status, archived, owner, before, reset, manifest>>

AdminSets(c) ==
    /\ Admin /\ \E s \in Statuses : status' = [status EXCEPT ![c] = s]
    /\ UNCHANGED <<toolsLeft, archived, owner, state, before, reset, manifest>>

\* /reset reads the conversation and its open rows, then commits.
ResetReads(c) ==
    /\ Admin /\ reset[c] = {} /\ c \notin archived
    /\ LET open == {r \in RowsOf(c) : state[r] \in Open} IN
       reset' = [reset EXCEPT ![c] = {<<status[c] = "resolved", open>>}]
    /\ UNCHANGED <<toolsLeft, status, archived, owner, state, before, manifest>>

ResetCommits(c) ==
    /\ \E p \in reset[c] : Resolve(c, p[1]) /\ CloseRows(p[2])
    /\ archived' = archived \cup {c} /\ reset' = [reset EXCEPT ![c] = {}]
    /\ UNCHANGED <<toolsLeft, owner, before, manifest, admin>>

\* classify_pending_escalation: pending rows that may be resolved; "old" says
\* whether they are past the threshold.
Stale(r, old) ==
    LET c == owner[r] IN
    /\ state[r] = "pending"
    /\ \/ c \in archived /\ status[c] = "resolved"
       \/ c \notin archived /\ status[c] = "none" /\ old
Expected(r) == <<r, status[owner[r]], owner[r] \in archived>>

Audit ==
    /\ manifest = {}
    /\ \E old \in BOOLEAN : manifest' = {Expected(r) : r \in {q \in Rows : Stale(q, old)}}
    /\ manifest' # {}
    /\ UNCHANGED <<toolsLeft, status, archived, owner, state, before, reset, admin>>

\* All rows of the manifest are as they were audited, or already resolved
\* (the mutant trusts the manifest); the rows are locked meanwhile.
Trusted == TRUE
Verified ==
    \A m \in manifest : Expected(m[1]) = m /\ (Stale(m[1], TRUE) \/ state[m[1]] = "resolved")

Apply ==
    /\ manifest # {} /\ manifest' = {}
    /\ IF Verified THEN CloseRows({m[1] : m \in manifest}) ELSE UNCHANGED state
    /\ UNCHANGED <<toolsLeft, status, archived, owner, before, reset, admin>>

\* A day passes.
Tick ==
    /\ press = None /\ \A h \in Handlers : pc[h] = "idle"
    /\ slot # None \/ mark + promise > 0
    /\ slot' = None
    /\ mark' = IF mark > 0 THEN mark - 1 ELSE 0
    /\ promise' = IF promise > 0 THEN promise - 1 ELSE 0
    /\ owed' = IF promise > 1 THEN owed ELSE 0
    /\ UNCHANGED <<press, presses, handlers, sends, fates, escalations, bot, tools, faults>>

Tools ==
    \/ \E c \in Convs : AdminEscalates(c) \/ AdminSets(c) \/ ResetReads(c) \/ ResetCommits(c)
    \/ \E r \in Rows : AdminCloses(r)
    \/ Audit \/ Apply
Bot(c) ==
    \/ BeginTurn(c) \/ BeginAcknowledgement(c) \/ BeginVoice(c) \/ BeginTakeover(c)
    \/ TakeOver(c) \/ Escalate(c) \/ BotReplies(c) \/ Acknowledge(c) \/ VoiceFallback(c)

Next ==
    \/ \E c \in Convs : Bot(c) \/ Press(c)
    \/ Prompt \/ Tick \/ Tools
    \/ \E h \in Handlers : Handle(h)

Spec == Init /\ [][Next]_vars

-----------------------------------------------------------------------------
(* Properties.                                                             *)

TypeOK ==
    /\ slot \in Convs \cup {None} /\ mark \in 0..Week
    /\ press \in Convs \cup {None} /\ promise \in 0..Week /\ owed \in 0..MaxTexts
    /\ presses \in 0..MaxPresses
    /\ pc \in [Handlers -> {"idle", "holds", "asks", "warns", "tells", "send", "post", "load",
                            "rows", "commit"}]
    /\ text \in [Handlers -> 0..typed] /\ typed \in 0..MaxTexts
    /\ conv \in [Handlers -> Convs \cup {None}]
    /\ seen \in [Handlers -> [audit : Audits, resolved : BOOLEAN, rows : SUBSET Rows]]
    /\ audit \in [Convs \X Texts -> Audits]
    /\ accepted \in SUBSET (Convs \X Texts) /\ saved \in SUBSET (Convs \X Texts)
    /\ swallowed \in SUBSET Texts /\ cut \in SUBSET Texts
    /\ status \in [Convs -> Statuses] /\ archived \in SUBSET Convs
    /\ owner \in [Rows -> Convs \cup {None}] /\ state \in [Rows -> Open \cup {"none", "resolved"}]
    /\ before \in [Rows -> SUBSET Texts] /\ answered \in SUBSET (Rows \X Texts \X Audits)
    /\ turn \in [Convs -> Turns]
    /\ late \in [Convs -> Nat]
    /\ reset \in [Convs -> SUBSET (BOOLEAN \X SUBSET Rows)]
    /\ manifest \in SUBSET (Rows \X Statuses \X BOOLEAN)
    /\ admin \in 0..MaxAdmin /\ faults \in 0..MaxFaults

\* A reply that the manager is told was sent, and that the conversation's
\* history holds, reached the customer, whatever handlers share a slot, texts
\* come twice and answers are lost.
SentIsDelivered == saved \subseteq accepted

\* An escalation that a reply resolved is one that the customer got the reply
\* to: a reply that was in the history before the escalation was opened does
\* not resolve it, however often its text is handled.  Two escalations are not
\* told apart from those the manager answers: one opened between the reply and
\* its commit, and any that meets a reply known only as the provider's
\* duplicate, which has no identifier that would give it away.
ResolvedIsAnswered ==
    \A p \in answered :
        LET id == <<owner[p[1]], p[2]>> IN
        id \in accepted /\ (p[2] \in before[p[1]] => p[3] = "duplicate")

\* A text that answers a prompt is ignored only if a handler of it has died with
\* its keys: for a week, and until another text is handled, its manager is told
\* something, at least that the draft is no longer active.
LateReplyIsNotSwallowed == swallowed \subseteq cut

\* A conversation whose status rules out an answer of the model, or the
\* acknowledgement that a manager will come, gets one more of them at most, from
\* the turn that was under way: the status is read before the LLM call and not
\* before the reply, and another turn begins only as the status allows.  (The
\* voice fallback looks at no status and is not counted.)
OneLateReply == \A c \in Convs : late[c] <= 1

\* Reconciliation does not close the row of a conversation that waits for a
\* manager or has one, however old its manifest is.
WaitingIsNotReconciled ==
    [][\A m \in manifest :
          manifest' = {} /\ state'[m[1]] # state[m[1]] => status[owner[m[1]]] \notin Paused]_vars
=============================================================================
