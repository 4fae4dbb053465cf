---------------------------- MODULE SalesEffects ----------------------------
(***************************************************************************)
(* What the tools of a turn do outside the database:                       *)
(*   src/llm/engine.py   create_deal, _create_or_reuse_sales_opportunity,  *)
(*                       create_quotation and its effect journal           *)
(*   src/services/outbound_audit.py   send_wazzup_media_with_audit         *)
(*   src/integrations/...   the POST requests of both Zoho clients         *)
(*   src/services/chat.py   the LLM timeout, the commit after the turn     *)
(*   src/services/followup.py, proposal_followup.py, conversation_reset.py,*)
(*   src/api/telegram_webhook.py   the other writers of the metadata       *)
(*                                                                         *)
(* The LLM calls the tools as often as it likes, all in one session.  The  *)
(* CRM opportunity is guarded by a write state in the conversation, the    *)
(* sale order and its PDF by a journal entry per inbound message.  Both    *)
(* are keys of one JSON column, which every writer of it writes whole from *)
(* the copy it read: the jobs and handlers outside the turn do not hold    *)
(* the chat's lock, and what they write may be older than the write state  *)
(* and the journal.                                                        *)
(*                                                                         *)
(* Abstractions.  One conversation; its turns follow one another, since    *)
(* the chat's lock admits one at a time, and a turn is not run again.  A   *)
(* new message has a new fingerprint: its journal entry and its audit rows *)
(* are fresh.  "obj" is the session's copy of the conversation and of the  *)
(* rows, "db" what is committed.  The row lock of a flush is left out: it  *)
(* only takes away interleavings of the column's writers.  Zoho finds a    *)
(* contact only some time after it was created.  Consent, items and prices *)
(* are in order, and the Inventory customer exists.                        *)
(***************************************************************************)
EXTENDS Integers, FiniteSets

CONSTANTS
    MaxRetries,  \* max_retries of ZohoInventoryClient._request
    Outsiders,   \* the jobs and handlers that write the metadata beside the turns
    MaxReopened, \* bound: writes of theirs that erase an unfinished write state
    MaxTurns,    \* bound: messages of the customer
    MaxCalls,    \* bound: tool calls of a turn
    MaxFaults    \* bound: lost or refused requests, timeouts, dead jobs

ASSUME RetriesAssumption == MaxRetries \in Nat \ {0}
ASSUME BoundsAssumption == MaxReopened \in Nat /\ MaxTurns \in Nat /\ MaxCalls \in Nat /\ MaxFaults \in Nat

RowStatuses == {"absent", "pending", "sent", "provider_duplicate", "error"}
Conversations ==
    [contact : Nat,                                        \* zoho_contact_id, or 0
     deal : BOOLEAN,                                       \* zoho_deal_id is set
     write : {"none", "pending", "unknown", "created"},    \* the opportunity write state
     effect : {"none", "sale_order_created", "pdf_sending", "pdf_sent"},
     order : Nat,                                          \* sale_order_id of the effect
     media : RowStatuses, caption : RowStatuses,
     handoff : BOOLEAN]                                    \* an active escalation

\* The keys of metadata that count here.
Columns ==
    [write : {"none", "pending", "unknown", "created"},
     effect : {"none", "sale_order_created", "pdf_sending", "pdf_sent"}, order : Nat]
Column(o) == [write |-> o.write, effect |-> o.effect, order |-> o.order]
WithColumn(o, k) == [o EXCEPT !.write = k.write, !.effect = k.effect, !.order = k.order]

VARIABLES
    db, obj,
    base,       \* the column as the session loaded or last committed it
    copy,       \* per outsider: the column as it was loaded
    reopened,   \* outsiders' writes that erased an unfinished write state
    forgotten,  \* an outsider's write erased this message's journal entry
    pc,         \* where the turn is
    reuse,      \* allow_reuse of the running call
    again,      \* the PDF is being sent the second time
    attempt,    \* the attempt of the Inventory request
    turns, calls,
    contacts,   \* contacts in the CRM, numbered as they were created
    found,      \* those of them a search finds
    deals,      \* deals in the CRM for this conversation
    orders,     \* sale orders in the Inventory for this message
    accepted,   \* what the provider has of this message: "media", "caption"
    told,       \* what the last call told the LLM
    faults

turnVars == <<pc, reuse, again, attempt, turns, calls, told>>
zohoVars == <<contacts, found, deals, orders>>
outsideVars == <<copy, reopened, forgotten>>
vars == <<db, obj, base, outsideVars, turnVars, zohoVars, accepted, faults>>

Nothing == [contact |-> 0, deal |-> FALSE, write |-> "none", effect |-> "none", order |-> 0,
            media |-> "absent", caption |-> "absent", handoff |-> FALSE]

Init ==
    /\ db = Nothing /\ obj = Nothing /\ base = Column(Nothing)
    /\ copy = [o \in Outsiders |-> Column(Nothing)] /\ reopened = 0 /\ forgotten = FALSE
    /\ pc = "over" /\ reuse = FALSE /\ again = FALSE /\ attempt = 0
    /\ turns = 0 /\ calls = 0 /\ told = "nothing"
    /\ contacts = 0 /\ found = {} /\ deals = 0 /\ orders = 0
    /\ accepted = {} /\ faults = 0

Fault == faults < MaxFaults /\ faults' = faults + 1

\* The session commits o.  The column is in the UPDATE only if it is not as the
\* session knows it; another of its keys may be what has changed.
Commit(o) ==
    /\ base' = Column(o)
    /\ \/ db' = o
       \/ Column(o) = base /\ db' = WithColumn(o, Column(db))

\* Nothing is committed.
NoCommit == UNCHANGED <<db, base>>

\* A message begins a turn without an active handoff (a manager resolved it).
BeginTurn ==
    /\ pc = "over" /\ turns < MaxTurns
    /\ turns' = turns + 1 /\ calls' = 0 /\ told' = "nothing"
    /\ db' = [db EXCEPT !.effect = "none", !.order = 0, !.media = "absent",
                        !.caption = "absent", !.handoff = FALSE]
    /\ obj' = db' /\ base' = Column(db')
    /\ copy' = [o \in Outsiders |-> [copy[o] EXCEPT !.effect = "none", !.order = 0]]
    /\ forgotten' = FALSE
    /\ orders' = 0 /\ accepted' = {}
    /\ pc' = "ready"
    /\ UNCHANGED <<reopened, reuse, again, attempt, contacts, found, deals, faults>>

\* The tool returns to the LLM.
Return(result) == pc' = "ready" /\ told' = result
Frame == UNCHANGED <<turns, calls, outsideVars>>
QuoteFrame == UNCHANGED <<contacts, found, deals, reuse>> /\ Frame
DealFrame == UNCHANGED <<orders, accepted, again, attempt>> /\ Frame

-----------------------------------------------------------------------------
(* _create_or_reuse_sales_opportunity.                                     *)

CallDeal ==
    /\ pc = "ready" /\ calls < MaxCalls
    /\ calls' = calls + 1
    /\ reuse' \in BOOLEAN
    /\ \/ ~obj.deal /\ pc' = "find_contact" /\ told' = "nothing"
       \/ obj.deal /\ reuse' /\ pc' = "read_deal" /\ told' = "nothing"
       \/ obj.deal /\ ~reuse' /\ Return("unverified")
    /\ NoCommit
    /\ UNCHANGED <<obj, outsideVars, zohoVars, again, attempt, turns, accepted, faults>>

\* A contact that is found and is not another than the known one goes on.
FindContact ==
    /\ pc = "find_contact"
    /\ NoCommit /\ UNCHANGED <<zohoVars, reuse, faults>> /\ DealFrame
    /\ \/ /\ found = {}
          /\ pc' = "post_contact" /\ UNCHANGED <<told, obj>>
       \/ \E id \in found :
             IF obj.contact \in {0, id}
             THEN /\ obj' = [obj EXCEPT !.contact = id]
                  /\ pc' = "claim" /\ UNCHANGED told
             ELSE Return("unverified") /\ UNCHANGED obj

\* The created contact is committed and must be found to go on.
PostContact ==
    /\ pc = "post_contact"
    /\ contacts' = contacts + 1
    /\ UNCHANGED <<deals, orders, reuse, faults>> /\ DealFrame
    /\ obj' = [obj EXCEPT !.contact = contacts'] /\ Commit(obj')
    /\ \/ found' = found \cup {contacts'} /\ pc' = "claim" /\ UNCHANGED told
       \/ UNCHANGED found /\ Return("unverified")

\* A search or a contact request fails: no write state is set.
ContactFails ==
    /\ pc \in {"find_contact", "post_contact"} /\ Fault
    /\ \/ UNCHANGED contacts
       \/ pc = "post_contact" /\ contacts' = contacts + 1
    /\ Return("unverified")
    /\ NoCommit /\ UNCHANGED <<obj, found, deals, orders, reuse>> /\ DealFrame

\* Zoho's search catches up with the contacts.
Index ==
    /\ \E id \in 1..contacts \ found : found' = found \cup {id}
    /\ NoCommit
    /\ UNCHANGED <<obj, outsideVars, turnVars, contacts, deals, orders, accepted, faults>>

\* The write state is committed before the request (the mutant only flushes it).
FlushOnly(o) == NoCommit
Durable(o) == Commit(o)

\* A write state that stops a further request (the mutant tries again when the
\* outcome is unknown).
PendingOnly == {"pending"}
Unfinished == {"pending", "unknown"}

Claim ==
    /\ pc = "claim"
    /\ IF obj.write \in Unfinished
       THEN Return("unverified") /\ NoCommit /\ UNCHANGED obj
       ELSE /\ obj' = [obj EXCEPT !.write = "pending"] /\ Durable(obj')
            /\ pc' = "post_deal" /\ UNCHANGED told
    /\ UNCHANGED <<zohoVars, reuse, faults>> /\ DealFrame

\* The deal is created and its id known, or the answer has no id.
PostDeal ==
    /\ pc = "post_deal"
    /\ deals' = deals + 1
    /\ \/ /\ obj' = [obj EXCEPT !.deal = TRUE, !.write = "created"]
          /\ pc' = "read_deal" /\ UNCHANGED told
       \/ obj' = [obj EXCEPT !.write = "unknown"] /\ Return("unverified")
    /\ Commit(obj')
    /\ UNCHANGED <<contacts, found, orders, reuse, faults>> /\ DealFrame

\* The write state after a failed request (the mutant frees the way again).
Forgotten == "none"
AfterFailure == "unknown"

\* The request is refused or lost, with or without effect.  It is not repeated.
DealFails ==
    /\ pc = "post_deal" /\ Fault
    /\ deals' \in {deals, deals + 1}
    /\ obj' = [obj EXCEPT !.write = AfterFailure] /\ Commit(obj')
    /\ Return("unverified")
    /\ UNCHANGED <<contacts, found, orders, reuse>> /\ DealFrame

\* The deal is read back; any failure leaves it unverified.
ReadDeal ==
    /\ pc = "read_deal"
    /\ \/ Return("verified") /\ UNCHANGED faults
       \/ Return("unverified") /\ Fault
    /\ NoCommit /\ UNCHANGED <<obj, zohoVars, reuse>> /\ DealFrame

-----------------------------------------------------------------------------
(* create_quotation: the sale order.                                       *)

\* A sent PDF is only reported again; a known order is read back (the mutant
\* posts another one).
NothingResumed == {}
Resumable == {"sale_order_created", "pdf_sending"}
CallQuote ==
    /\ pc = "ready" /\ calls < MaxCalls
    /\ calls' = calls + 1 /\ attempt' = 1 /\ again' = FALSE
    /\ IF obj.effect = "pdf_sent" THEN Return("prepared")
       ELSE /\ told' = "nothing"
            /\ pc' = IF obj.effect \in Resumable THEN "read_order" ELSE "post_order"
    /\ NoCommit
    /\ UNCHANGED <<obj, outsideVars, zohoVars, reuse, turns, accepted, faults>>

\* _fail_closed_exact_quote_request: an escalation, unless one is active,
\* commits whatever the session holds.
FailClosed(o) ==
    /\ obj' = [o EXCEPT !.handoff = TRUE]
    /\ IF o.handoff THEN NoCommit ELSE Commit(obj')
    /\ Return("failed")

\* The order of a resumed call is read back.
ReadOrder ==
    /\ pc = "read_order"
    /\ \/ /\ obj.order # 0 /\ pc' = "pdf"
          /\ obj' = [obj EXCEPT !.effect = "sale_order_created"]
          /\ NoCommit /\ UNCHANGED <<told, faults>>
       \/ obj.order = 0 /\ FailClosed(obj) /\ UNCHANGED faults
       \/ Fault /\ FailClosed(obj)
    /\ UNCHANGED <<orders, accepted, again, attempt>> /\ QuoteFrame

\* The order is journaled with its id, unless the answer has none.
PostOrder ==
    /\ pc = "post_order"
    /\ orders' = orders + 1
    /\ \/ obj' = [obj EXCEPT !.effect = "sale_order_created", !.order = orders']
       \/ UNCHANGED obj
    /\ pc' = "pdf"
    /\ NoCommit /\ UNCHANGED <<told, faults, accepted, again, attempt>> /\ QuoteFrame

\* A timeout, a network error or 429 is repeated while attempts are left.
AttemptsLeft == attempt < MaxRetries

OrderFails ==
    /\ pc = "post_order" /\ Fault
    /\ orders' \in {orders, orders + 1}
    /\ \/ /\ AttemptsLeft
          /\ attempt' = attempt + 1
          /\ NoCommit /\ UNCHANGED <<obj, pc, told>>
       \/ FailClosed(obj) /\ UNCHANGED attempt
    /\ UNCHANGED <<accepted, again>> /\ QuoteFrame

-----------------------------------------------------------------------------
(* create_quotation: the PDF and its caption.                              *)

\* The journal is committed before the PDF is sent.
Journal ==
    /\ pc = "pdf"
    /\ obj' = [obj EXCEPT !.effect = "pdf_sending"] /\ Durable(obj')
    /\ pc' = "media"
    /\ UNCHANGED <<told, orders, accepted, again, attempt, faults>> /\ QuoteFrame

\* _is_active (the mutant skips what failed).
SkipsErrors(status) == status # "absent"
Active(status) == status \notin {"absent", "error"}

\* The PDF went through: only flushed.
Prepared(o) ==
    /\ obj' = [o EXCEPT !.effect = "pdf_sent"]
    /\ Return("prepared") /\ NoCommit /\ UNCHANGED again

\* The rows of a failed attempt are committed.  A repeated identifier sends the
\* pair once more, another error ends the call.
Raise(o, repeated) ==
    /\ IF repeated /\ ~again
       THEN again' = TRUE /\ pc' = "media" /\ obj' = o /\ UNCHANGED told
       ELSE obj' = [o EXCEPT !.handoff = TRUE] /\ Return("failed") /\ UNCHANGED again
    /\ Commit(obj')

\* Both rows are active: nothing is sent.
SkipBoth ==
    /\ pc = "media" /\ Active(obj.media) /\ Active(obj.caption)
    /\ Prepared(obj)
    /\ UNCHANGED <<orders, accepted, attempt, faults>> /\ QuoteFrame

\* The file and, whatever becomes of it, the caption.
SendMedia ==
    /\ pc = "media" /\ ~Active(obj.media) /\ "media" \notin accepted
    /\ \/ /\ accepted' = accepted \cup {"media", "caption"}
          /\ Prepared([obj EXCEPT !.media = "sent", !.caption = "sent"])
          /\ UNCHANGED faults
       \/ /\ Fault
          /\ accepted' \in {accepted \cup {"media"}, accepted \cup {"media", "caption"}}
          /\ Prepared([obj EXCEPT !.media = "sent", !.caption = "error"])
    /\ UNCHANGED <<orders, attempt>> /\ QuoteFrame

\* The identifier is refused as repeated, also when _request repeated it.
MediaRepeated ==
    /\ pc = "media" /\ ~Active(obj.media)
    /\ \/ "media" \in accepted /\ UNCHANGED <<accepted, faults>>
       \/ "media" \notin accepted /\ accepted' = accepted \cup {"media"} /\ Fault
    /\ Raise([obj EXCEPT !.media = "provider_duplicate", !.caption = "error"], TRUE)
    /\ UNCHANGED <<orders, attempt>> /\ QuoteFrame

MediaFails ==
    /\ pc = "media" /\ ~Active(obj.media) /\ Fault
    /\ accepted' \in {accepted, accepted \cup {"media"}}
    /\ Raise([obj EXCEPT !.media = "error", !.caption = "error"], FALSE)
    /\ UNCHANGED <<orders, attempt>> /\ QuoteFrame

\* Only the caption is left: accepted (with or without an id), refused as
\* repeated, or failed.
SendCaption ==
    /\ pc = "media" /\ Active(obj.media) /\ ~Active(obj.caption)
    /\ \/ /\ "caption" \notin accepted /\ accepted' = accepted \cup {"caption"}
          /\ \E status \in {"sent", "error"} : Prepared([obj EXCEPT !.caption = status])
          /\ UNCHANGED faults
       \/ /\ "caption" \in accepted /\ UNCHANGED <<accepted, faults>>
          /\ Raise([obj EXCEPT !.caption = "provider_duplicate"], TRUE)
       \/ /\ Fault /\ accepted' \in {accepted, accepted \cup {"caption"}}
          /\ Raise([obj EXCEPT !.caption = "error"], FALSE)
    /\ UNCHANGED <<orders, attempt>> /\ QuoteFrame

-----------------------------------------------------------------------------
(* The end of a turn.                                                      *)

\* The reply is persisted with everything the session holds.
EndTurn ==
    /\ pc = "ready"
    /\ pc' = "over" /\ Commit(obj)
    /\ UNCHANGED <<obj, outsideVars, reuse, again, attempt, turns, calls, told, zohoVars, accepted,
                   faults>>

\* What a request under way may still do.
InFlight ==
    \/ UNCHANGED <<contacts, deals, orders, accepted>>
    \/ pc = "post_contact" /\ contacts' = contacts + 1 /\ UNCHANGED <<deals, orders, accepted>>
    \/ pc = "post_deal" /\ deals' = deals + 1 /\ UNCHANGED <<contacts, orders, accepted>>
    \/ pc = "post_order" /\ orders' = orders + 1 /\ UNCHANGED <<contacts, deals, accepted>>
    \/ /\ pc = "media"
       /\ accepted' \in {accepted \cup {"media"}, accepted \cup {"media", "caption"}}
       /\ UNCHANGED <<contacts, deals, orders>>

\* wait_for cancels the turn; the session lives on and is committed with the
\* text that asks the customer to try again.
LlmTimeout ==
    /\ pc # "over" /\ Fault
    /\ InFlight
    /\ obj' = IF pc # "media" THEN obj
              ELSE [obj EXCEPT !.media = IF Active(@) THEN @ ELSE "pending",
                               !.caption = IF Active(@) THEN @ ELSE "pending"]
    /\ Commit(obj')
    /\ pc' = "over" /\ told' = "nothing"
    /\ UNCHANGED <<outsideVars, reuse, again, attempt, turns, calls, found>>

\* The job dies or an error leaves the turn: the session is rolled back.
Abort ==
    /\ pc # "over" /\ Fault
    /\ InFlight
    /\ obj' = db /\ base' = Column(db) /\ UNCHANGED db
    /\ pc' = "over" /\ told' = "nothing"
    /\ UNCHANGED <<outsideVars, reuse, again, attempt, turns, calls, found>>

-----------------------------------------------------------------------------
(* The other writers of the column: the follow-up jobs, the order decision  *)
(* and the conversation reset.                                             *)

OutsiderLoads(o) ==
    /\ copy' = [copy EXCEPT ![o] = Column(db)]
    /\ NoCommit
    /\ UNCHANGED <<obj, reopened, forgotten, turnVars, zohoVars, accepted, faults>>

\* Keys of its own are added to what it loaded, however long ago; after the
\* commit it still has its copy.
OutsiderWrites(o) ==
    /\ db' = WithColumn(db, copy[o])
    /\ reopened' = IF ~db.deal /\ db.write # "none" /\ db'.write = "none"
                   THEN reopened + 1 ELSE reopened
    /\ reopened' <= MaxReopened
    /\ forgotten' = ((forgotten \/ db.effect # "none") /\ db'.effect = "none")
    /\ UNCHANGED <<obj, base, copy, turnVars, zohoVars, accepted, faults>>

-----------------------------------------------------------------------------
DealTool ==
    \/ CallDeal \/ FindContact \/ PostContact \/ ContactFails \/ Claim \/ PostDeal
    \/ DealFails \/ ReadDeal
QuoteTool ==
    \/ CallQuote \/ ReadOrder \/ PostOrder \/ OrderFails \/ Journal \/ SkipBoth \/ SendMedia
    \/ MediaRepeated \/ MediaFails \/ SendCaption

Outside == \E o \in Outsiders : OutsiderLoads(o) \/ OutsiderWrites(o)

Next == BeginTurn \/ Index \/ DealTool \/ QuoteTool \/ EndTurn \/ LlmTimeout \/ Abort \/ Outside

Spec == Init /\ [][Next]_vars

-----------------------------------------------------------------------------
(* Properties.                                                             *)

TypeOK ==
    /\ db \in Conversations /\ obj \in Conversations
    /\ base \in Columns /\ copy \in [Outsiders -> Columns]
    /\ reopened \in 0..MaxReopened /\ forgotten \in BOOLEAN
    /\ pc \in {"over", "ready", "find_contact", "post_contact", "claim", "post_deal",
              "read_deal", "read_order", "post_order", "pdf", "media"}
    /\ reuse \in BOOLEAN /\ again \in BOOLEAN /\ attempt \in 0..MaxRetries
    /\ turns \in 0..MaxTurns /\ calls \in 0..MaxCalls
    /\ told \in {"nothing", "verified", "unverified", "prepared", "failed"}
    /\ contacts \in Nat /\ found \in SUBSET (1..contacts)
    /\ deals \in Nat /\ orders \in Nat
    /\ accepted \in SUBSET {"media", "caption"} /\ faults \in 0..MaxFaults

\* However often the tools are called, in this turn or in later ones, whatever
\* requests are lost, cut off by the LLM timeout or outlived by their job: one
\* conversation opens at most one opportunity (the write state's purpose), and
\* one more for each time that a job or handler beside the turn wrote an older
\* column over a write state that was still pending or unknown.
OneDeal == deals <= 1 + reopened

\* A PDF the customer has belongs to an order of the committed journal, also
\* after the turn was cancelled or rolled back, unless a job or handler beside
\* the turn wrote an older column over the entry.  (Not necessarily as
\* "pdf_sending": a resumed call writes "sale_order_created" over it.)
DeliveredIsJournaled == "media" \in accepted => db.effect # "none" \/ forgotten

\* What the LLM hears of a quotation is true: "sent" only if the provider has
\* the file, also when its identifier was refused as repeated or an earlier call
\* failed; "failed, a manager will look" only if the handoff is committed, so
\* that no rollback of the turn loses it.
TruthIsTold ==
    /\ told = "prepared" => "media" \in accepted
    /\ told = "failed" => db.handoff

\* A second order for a message is posted only while no call knows the id of
\* the first: an order that was journaled is resumed, also after its PDF failed.
KnownOrderIsResumed == [][orders' > orders /\ orders > 0 => obj.order = 0]_vars

\* What the conversation says of its opportunity: a deal's id is a column of its
\* own, which only a turn writes.
Recorded == IF db.deal THEN "created" ELSE db.write

\* The opportunity's write state is announced, carried out and recorded as
\* EffectContract says, in one turn or over many, with lost answers, the LLM
\* timeout, dead jobs and the column's other writers.
Opportunity == INSTANCE EffectContract
    WITH record <- Recorded, underway <- pc = "post_deal", done <- deals
ImplementsEffectContract == Opportunity!Spec
=============================================================================
