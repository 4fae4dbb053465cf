# Treejar sales bot: models and proofs

TLA+ models of the parts of the Treejar WhatsApp sales bot whose correctness
depends on the order of things: what happens to a message between the webhook
and its answer, what is sent and recorded twice or not at all, who may speak in
a conversation, and when a quotation may be made. TLC model-checks small
instances; TLAPS proves the safety properties for every instance.
`PROJECT.json` lists components, runs, mutants, findings, hazards and theorems,
and maps every definition to the lines it models.

## 1. The system

The program is a FastAPI application and an ARQ worker (two jobs at a time,
600 s per job, three tries, results kept for an hour) over Redis and
PostgreSQL. WhatsApp arrives and leaves through Wazzup, managers use Telegram
and an admin panel, orders and contacts live in Zoho, and the LLM is called
through OpenRouter.

    customer -> Wazzup -> POST /webhook/wazzup -> RPUSH wazzup_msgs:<chat>
                                              -> ARQ job "<chat>:<10 s window>"
    ARQ worker -> process_incoming_batch (lock, processing list, guard)
               -> turn: kernel, consent, LLM -> tools -> Zoho CRM, Inventory (token)
                                             -> audited sends -> Wazzup
                                             -> escalation -> Telegram alert
    manager -> Telegram buttons, replies, /reset; admin panel -> audited sends
    Wazzup statuses -> POST /webhook/wazzup -> update_wazzup_statuses
    cron jobs -> follow-ups, payment reminders, quality reviews, catalog sync
    operator  -> escalation_guard (audit and reconciliation of stale rows)

### Inventory

| component | state | what is hard | correct when |
|---|---|---|---|
| Inbound pipeline (`services/chat.py`, `api/v1/webhook.py`, `worker.py`) | queue, processing list, lock and guard of a chat in Redis, ARQ's job records | two slots, kills, shutdowns, timeouts, Redis commands with or without effect, a lease that is not renewed | one owner, immutable batches, side effects once and in order, nothing lost, every message settled |
| Outbound audit (`services/outbound_audit.py`, `integrations/messaging/wazzup.py`) | an audit row per `crm_message_id` | concurrent callers, lost answers, crashes before the commit, status webhooks beside the callers | one request at a time, a skipped call means the provider has it, a second request only after a fault |
| Order decision (`api/telegram_webhook.py`, `notifications/escalation.py`) | escalation status and rows, buttons of alerts | concurrent and repeated taps, crashes after the send | resolved only when the customer was told, every tap answered |
| Human handoff (`api/telegram_webhook.py`, `escalation_state.py`, `chat.py`, `admin_crm.py`, `scripts/escalation_guard.py`) | draft slot and mark in Redis, escalation rows, the conversation's status | texts and presses that overlap, redelivery, rows read before they are written, turns and automated replies while a manager takes over, a reset under a reply | a reply said to be sent was, what it resolves it answers, no late reply swallowed, the bot late at most once, nobody who waits reconciled away |
| Conversation reset (`services/conversation_reset.py`) | the archived conversation and its rows | a reset beside a turn, a reply or the panel | as above |
| LLM attempt lease (`llm/attempts.py`, `quality/job.py`, `quality/manager_job.py`) | attempt row, Redis lock, review row, marker | the row is read before the lock; looks die between success, review and alert | one LLM call at a time, no alert without a saved review, a success is followed up |
| Zoho OAuth token (`integrations/zoho_oauth.py`, both Zoho clients) | cached token and refresh lock, both with a TTL | a refresh that outlasts its lock, dead holders, refused tokens, lost answers | no expired token handed out, pollers served, writes carried out once |
| Commercial side effects (`llm/engine.py`, the Zoho clients, `send_wazzup_media_with_audit`) | opportunity write state, journal of a message's quotation (both in the metadata column), CRM and Inventory records | the LLM repeats calls, timeouts cut them off, answers get lost, the job dies, other jobs rewrite the column from stale copies | no opportunity beyond those a stale copy reopens, delivered PDFs journaled until one erases them, known orders resumed, the LLM hears the truth |
| Dialogue order runtime (`dialogue/*`, `order_quote_routes.py`, the consent code of `engine.py`) | consent three times over: canonical workflow, kernel state, older keys; the request the name gate keeps | seven writers and several readers over many turns, a turn that goes on with an earlier text | no quotation against the customer's last word, a refusal lifted only by a text that is read |
| Proposal follow-ups, payment reminders (`proposal_followup.py`, `followup.py`) | one JSON column, audit rows | whole-column writes beside turns, in-place changes, a limit counted once | the limit holds, what is recorded was delivered, a reply stops the chain |
| Conversation summary, referrals, catalog sync | a text; a row; a table | read, change and write without a lock | see section 6 |
| LLM engine and grounding, quality evaluation, knowledge base, customer memory, admin and reports | texts, scores, CRUD | the wording | not modelled |
| Acceptance and orchestration scripts | reports | - | not modelled |

Components meet in three places. The chat's lock of the inbound pipeline makes the turns of a
conversation follow one another, which `SalesEffects`, `QuoteConsent` and `Handoff` use. The
audit row of `OutboundAudit` makes a send one step (or a look and a send) for `OrderDecision`, `Handoff` and
`FollowUps`. The `metadata` column and the escalation rows are shared by turns, managers and jobs, which
`FollowUps`, `SalesEffects`, `OrderDecision` and `Handoff` compose.

The hazards of the code, each at its line, are in `PROJECT.json` with the properties
that are about them.

## 2. Modules

| module | models | MC module | proofs |
|---|---|---|---|
| `InboundContract`, `InboundBatch` | the promise, and the pipeline of one chat | `MCInboundBatch` | `InboundBatchProofs` |
| `SendContract`, `OutboundAudit` | the promise, and one `crm_message_id` | `MCOutboundAudit` | `OutboundAuditProofs` |
| `OrderDecision` | orders of one conversation | `MCOrderDecision` | `OrderDecisionProofs` |
| `Handoff` | managers' chat, conversations, their rows | `MCHandoff` | `HandoffProofs` |
| `LlmAttempt` | one attempt key, and what each of three jobs delivers | `MCLlmAttempt` | `JobProofs` |
| `Lease`, `ZohoToken` | what a lock with a TTL promises; the token of one API | `MCZohoToken` | `ZohoTokenProofs` |
| `EffectContract`, `SalesEffects` | the promise of the write state, and a conversation's tools with their effects | `MCSalesEffects` | `SalesEffectsProofs` |
| `QuoteConsent` | a conversation's consent to a quotation | `MCQuoteConsent` | `QuoteConsentProofs` |
| `FollowUps` | the two jobs, turns and decisions on the column | `MCFollowUps` | `JobProofs` |

An operator whose comment names a "mutant" is a plausible bug, put in place of
the definition beside it to see that a property notices.

### InboundBatch

The variables are named after the Redis keys and ARQ's job fields:

| model | code |
|---|---|
| `queue`, `processing`, `lock` | `wazzup_msgs:<ref>`, `wazzup:inbound:processing:<ref>`, `wazzup:inbound:lock:<ref>` |
| `started`, `completed`, `expiring` | execution guards by value; those with a TTL |
| `status`, `try`, `timer` | ARQ's queue, in-progress key and job_try |
| `pc[j]`, `batch[j]`, `error[j]`, `again[j]` | the await a coroutine is at, its `raw_messages`, the exception it handles, whether it is `arq.Retry` |
| `effects`, `outcome`, `since`, `raw` | history: side effects begun, how a message left Redis, what was queued when a job was created, payloads by arrival |

`PushMessage` and `EnqueueJob` are the webhook; `StartRun`, `Crash`, `Cancel` and
`Tick` are ARQ; `AcquireLock`, `Recover`, `MoveOne`, `Inspect`, `BeginSideEffects`, `Work`,
`MarkCompleted`, `HandleError`, `StoreQuarantine`, `Finalize`, `ReleaseOrContinue` and
`Unwind` are `process_incoming_batch` in its order, one action per await; each
`...Fails` is the same Redis command failing, with or without its effect.

Abstractions. The id of a batch is a digest of its payloads: here, the sequence of payloads,
so two deliveries of equal payloads are told apart as arrivals and not as ids, as
in the code. The turn is one step that succeeds or raises a retryable or
terminal error. Ticks are coarse: of the configured times only the order matters
(job timeout 600 s < ARQ's in-progress key 610 s < lock TTL 660 s < back-off of a contender).
`Prompt = TRUE` says a tick does not pass while something takes less than a tick
(a poll, a Redis call) is due; it is used in the runs that ask for progress, and
FALSE lets time pass anywhere.

`InboundContract` is what the pipeline promises: accepted messages are settled in order
and in batches, side effects of a batch begin once, before it is settled and after every earlier
one is. `ImplementsContract` is the refinement (the identity on `raw`, `effects`, `outcome`).

### OutboundAudit

`row` is the committed audit row, `writer`/`dirty` the open
transaction that wrote it, `seen[c]` the object a caller loaded. `Lookup`, `Flush`,
`SendAccepted`/`SendRefused`/`SendLost`, `Commit` are `send_wazzup_text_with_audit` around
`WazzupProvider._request`. `Flush` blocks
while another transaction holds the row, as the unique index and the row lock make it;
`FlushConflicts` is its IntegrityError. The provider is known from its answers
only: it accepts an identifier once and refuses it afterwards.
`send_wazzup_template_with_audit` repeats the same steps with another provider call.

`SendContract` is what the callers of the audited send build on: one of them at the provider, one delivery, "sent" or
"skipped" only for a delivered message, suppression only by one; a caller that fails knows nothing. Under
`ImplementsSendContract` `delivered` is `accepted`, `suppressed` an active row, `holder` the transaction's `writer`, and what a caller was
told follows from its `pc`. `OrderDecision`, `Handoff` and `FollowUps` send in one step on the strength of it.

The callers are the only writers of the row. `update_wazzup_statuses` is meant to be another, but in the deployed
configuration it leaves every row as it is: the columns are `timestamptz` (`outbound_message.py:54`), which asyncpg reads
back with their zone, the time of the event is made naive (`outbound_audit.py:69`), and the comparison of the two (`outbound_audit.py:641`) raises for
each row the event finds. So the model has no action for it.

### OrderDecision

One conversation: `status` and `open` are its escalation status and pending rows, `turn` the
status that the Conversation object of a running turn holds (objects are not
refreshed after a commit), `keyboards` the alerts with buttons. `Check` (CR-1),
`RemoveKeyboard` (CR-2), `Lookup`, `Send`, `Load`, `Resolve` are `_handle_order_decision` with
`resolve_conversation_pending_escalations`; `Die` is a handler that raises, after
which Telegram delivers the update again. A lookup and a send are one step each. The
identifier is the mode alone, because `quotation_meta:<conversation>`, the key the
handler takes the quote number from, is written nowhere in `src/`, so the number is always `DRAFT`.

### Handoff

`slot` is the pending draft of the managers' chat, `mark` the week in which a late text is recognised. `Press` and
`Prompt` are the two writes of a button. A typed text is handled in the handler's order: `Type` or `Redeliver` reads the slot;
with one `Adapt` takes the keys and adapts the text, `Look` and `Post` read the audit row and send, `LoadConversation`,
`LoadRows` and `Commit` resolve; without one `Ask` looks for the mark, `Unmark` deletes it and `Warn` says that the draft is no
longer active. `Die` is a handler at any of these places. `Bot(c)` holds a turn's look at the status, its reply, the
acknowledgement while an escalation is open (`chat.py:1492`), the fallback for a voice message (`chat.py:1459`) and the
takeover by a manager's own message; `AdminEscalates`, `AdminCloses` and `AdminSets` the panel;
`ResetReads`/`ResetCommits` `execute_conversation_reset`; `Audit`/`Apply` the guard script, whose
`Verified` classifies each row again. A reply to a conversation archived meanwhile reaches the
customer: Wazzup's adapter strips the `#archived` suffix from the phone (`wazzup.py:238`).

Abstractions. One managers' chat; days do not pass while a text is handled; `in_progress` counts as `pending`
where the code treats them alike. The FAQ buttons, two resets of one phone at the same time and the reset
without a phone are left out. The session writes only what differs from what it loaded, as the unit of work does.
`promise` and `owed` (the prompt an answer is due to), `swallowed`, `cut`, `before`, `answered` and `late` are history.

### LlmAttempt

One evaluation, of one `kind`: the final review of a conversation at one activity time, the warning about its red flags,
or the review of a manager's escalation. `row` is the committed
`llm_attempts` row, `object[r]` the copy in the session of look `r`, `lock` the key
`llm_attempt:lock:<key>` (free, owned, or left by a dead owner), `review` the row in `quality_reviews` or
`manager_reviews`, `marker` the Redis key that says it is done. `Read`, `Lock` and `Begin` are
`begin_llm_attempt`; `EvaluateSucceeds` and `EvaluateFails` the call and `record_llm_attempt_*`; `Compare`, `SelectReview`,
`SaveReview`, `Alert`, `SetMarker` what follows a success in the three jobs, for the look that called and for a
replay (`_replay_terminal_...`) alike; `Interrupt` a look that raises, is cancelled or
is killed. `earlier` says that the conversation has a review of an earlier activity, which a replay takes for its own.
`tried` says that an alert was attempted: whether Telegram took it the job does not learn, as `notifications.py:570` and
`TelegramClient` swallow every error, and the marker is set all the same. So no property speaks of delivery.

Abstractions. Looks overlap as jobs do that ARQ delays past the next hour or runs again. The settings, the
prompt and the transcript stay the same, so the hashes of the key match; the LLM finds the same flags each time, and
a success is one to alert about. An LLM call and the commit
of its outcome are one step: a look that dies between them is one that died before. The lock's TTL equals the
job timeout (600 s both), so a key expires only after its owner. `reached` stands for the choice of candidates and the
daily quota: whether a run gets to this one.

### ZohoToken and Lease

`token` is the cached token with what is left of it at Zoho and in Redis, `lock` and `lease` the refresh lock with
its TTL. `Ensure(c)` holds the steps of `_ensure_token` (get, lock, poll, recheck, refresh, release), `Answer(c)` and
`Trouble(c)` those of `_request` with its retries. Time passes in ticks while everybody waits. The two APIs
differ in whether a lost request is repeated whatever its method (`RetriesWrites`). `Lease` is
the lock without keys, tokens and timers; `LockIsLease` is the refinement.

### SalesEffects

`obj` is the session's copy of the conversation and of its audit rows, `db` what is committed; the actions are the
tools' requests and commits in their order, and every fault (lost answer, refused request, LLM timeout,
dead job) at every one of them. The write state and the journal are keys of one JSON column. The follow-up jobs, the order
decision and the reset do not hold the chat's lock: they read that column and later write it whole (`OutsiderLoads`, `OutsiderWrites`), and the session
writes it only if its own copy has changed (`Commit`, `base`). `reopened` counts the writes that erase a
pending or unknown write state, `forgotten` says that one erased the message's journal entry. Tool calls of a turn follow one another, and all ask
for the items of their message; the Inventory customer exists; Zoho's search finds a contact some time
after it was created, or not yet.

`EffectContract` is what the write state of the opportunity is for: a request that must not be repeated is announced in
the database first, made once for an announcement, and not taken back by the turns, whatever becomes of its answer; every stale write of
somebody else that erases an announcement allows one more, and an effect that is known to have happened bars all others. `ImplementsEffectContract` reads it from
the committed record (`Recorded`: a deal's id, else the write state), the deals in the CRM, `reopened` and whether a turn is at the request. The sale
order has no such state, and no such promise.

### QuoteConsent

One conversation and an endless series of turns. A text is a record of what each reader's patterns make of it:
`hold`, `signal`, `optIn`, `yes`, `consult`, `items`, `name`. The twenty in `MCQuoteConsent` are sentences with
their readings; the proofs hold for any set of texts that satisfies `TextsOK`. The actions are the readers in
their order: the explicit hold (`Hear`), the kernel (`dialogue_kernel_mode` is `enforce`, its default), the explicit
consent, the name gate, the offered quotation, the routes, the model with its tools. `Flows`, what an operator enforces, may
change at every turn. `word` is the customer's last word as the turns read it: history, for the properties.

The name gate keeps the first request of a customer without a name (`AskName`, or the kernel's answer of flow `name_gate`) and
puts it in the place of the text that gives the name, whenever that comes (`ResumeRequest`, `engine.py:15931`): from there on the turn reads
the old request. `AnswerEarly` is a turn that ends before the hold and the kernel (`engine.py:15493`-`15566`).

Abstractions. An aborted turn rolls back and is no turn. Detail capture and the fixed texts about
details only end the turn. The frame and the pending selection are one. `last_quote_status`
has no writer in `src/`, so the kernel's `sent` comes from a quoted frame alone.

### FollowUps

`db` is the committed column of each conversation, `copy` the column in a session, `todo` the rows a job has chosen.
A session writes the column whole, and only if the value differs from the loaded one: a change
in place is not seen. A job sends, records and commits row by row; a manager's decision and a customer's turn
load and write between. One proposal and one order per conversation, sends switched on; an approval
is old enough for a reminder at once. The names of state, stages and mishaps differ from those of `LlmAttempt`, so that one
module can extend both and prove about the jobs. The rejection after an unanswered last follow-up is left out, as no
follow-up is ever stored and the code does not get there.

## 3. What the runs show

| run | question | bounds |
|---|---|---|
| `inbound_faults` | do the lock, the claim and the guard survive a kill, a shutdown and a job timeout at any await, in any order? Is anything lost, repeated or out of quarantine when a Redis command fails before or after its effect? Does it all implement the contract? | 2 messages with equal or different payloads, 2 jobs on 2 slots, 2 tries; the failures kill + shutdown, kill + timeout, or turn error + Redis fault; time unconstrained |
| `inbound_settles` | is every message settled that was queued when a job was created? | 2 messages, 3 tries, one turn error, or one shutdown |
| `inbound_stranded` | is there always somebody who will look at a queued message? No. | no failures |
| `outbound_callers` | are requests serialised, is a message never suppressed without having been accepted, is the provider asked once while nothing fails, does it all implement the contract? | 3 callers with 2 calls each, 4 faults, 3 HTTP attempts |
| `orders_single` | is an escalation resolved only after the customer was told, and every tap answered? | 1 order, 3 taps on 2 handlers, 3 faults |
| `handoff` | with overlapping texts, presses, turns, panel, reset and reconciliation: is what the manager hears true, does a reply resolve only what it answers, is no late reply swallowed, does the bot talk over a manager once at most, is no waiting customer reconciled away? | 1 conversation, 2 texts on 2 handlers, 1 press, 2 rows, 1 step of the panel or reset, 2 faults |
| `llm_looks` | with looks that die anywhere: one LLM call at a time, alerts only about saved reviews, attempts that end, successes that are followed up? | the three kinds, 2 looks, 2 attempts, 2 faults |
| `zoho_token` | is every token handed out alive, does everybody get one in the end, is no write carried out twice, is the lock a lease? | 2 callers, 3 attempts, 3 faults; refreshes up to twice the lock's TTL |
| `sales_effects` | one opportunity and one more per erased write state, journaled PDFs, resumed orders, and the truth for the LLM; is the write state announced and used once? | 2 messages with 2 tool calls each, 2 HTTP attempts, 2 faults, 2 other writers of the column, 1 erased write state |
| `quote_consent` | can a quotation be made against the customer's last word, and what lifts a refusal? | none but 20 texts, 4 requests to keep and 4 flows: turns are endless |
| `followups` | does the daily limit hold, was every recorded reminder delivered? | 2 conversations, 1 follow-up, limit 1, 2 turns or decisions, 1 fault |
| `followup_reply` | does a customer's reply stop the chain? No. | 2 follow-ups, 3 turns |

Why the bounds are enough. The interesting inbound cases need a batch that was interrupted,
a message that arrives meanwhile and a second job that contends, so two messages and two jobs;
two messages suffice for order and for equal payloads; with two tries or three every
branch of the error handling is taken. A lost answer, its retry, a second caller and one that looked the row up before either
are reached with three callers of two calls. Two taps are a double click; a third is one after a failure. Two looks
and two deaths reach every place a success can be interrupted, its replay included, and a lock left
behind. Two texts of a manager can share a slot, one can take the keys of the other, and a text can come again after its
reply was saved; a second row is the one that is opened while the first is being closed, or after the reply. A refresh of twice the TTL lets a second run beside it and store the
newer token first. Two tool calls are an attempt and its repetition or one after a failure; the second message shows that the
opportunity outlives a turn; two other writers of the column write over each other and over the session. A second conversation is what a limit of one turns away. Every
bound is a named constant with a named assumption, and the proofs hold for all of them.

The runs with `CHECK_DEADLOCK FALSE` end by exhausting a bound (texts, taps, calls, turns) or, in `LlmAttempt`,
because a conversation that is done is not looked at again. The inbound runs, `zoho_token` and `quote_consent`
check for deadlock.

`JobSettlesItsMessages` is checked with one failing turn or one shutdown only, because the
code does not promise more: a kill, a job timeout, a failed Redis command or two
failing turns may use up the tries of the one job that a contender or a later message
depends on, and messages then wait for the next customer message. What holds even then
is `NothingLost`: they are still in Redis, in order, once.

Passing runs list no type invariant where one is proved, but `followups` does: its says that no audit row is committed as pending.

### Fairness

`InboundBatch!Fairness` is weak fairness of `EnqueueJob` (the webhook handler runs to its end),
`StartRun(j)` (ARQ polls), `Progress(j)` (the event loop runs ready coroutines, and Redis, database,
LLM and sends answer or raise: all have client timeouts) and `Tick`. `OrderDecision` has weak fairness of
`Handle(h)`, one step of a handler, and of the redelivered tap, which is the handler at its first step again.
`LlmAttempt` has weak fairness of `Step(r)` (the cron looks every hour or half hour and a started look goes on), of
`LockExpires` (a TTL) and of `BackoffEnds` (a time that passes); its liveness properties assume that from some time on the runs get to the
conversation (`<>[]reached`), which the code does not promise. `ZohoToken` has weak fairness of `Ensure(c)` (Redis
answers), `Answer(c)` (a request is answered or given up) and `Tick`.
Nothing is assumed about failures, new messages, taps, calls or clock windows; failures are bounded.

## 4. Findings and observations

Two statements of the repository are refuted by a run with `expect: violation` (quotations in `PROJECT.json`):

* `inbound_stranded`: a message that arrives in the ten-second window of a job that has finished is
  pushed and gets no job, as ARQ refuses the id of a job whose result is kept.
* `followup_reply`: a reply changes the chain's state in place, and an equal copy is assigned: nothing is
  written, and the next run sends the follow-up. (An ordinary turn of the model persists the stop at its end,
  `chat.py:1604`; the turns that end before do not.)

Met while modelling, without a run of their own. They are left out of the properties or are why a
property says no more than it does.

Consent. An explicit hold is stored with what `quote_consent_signal` reads in its words: "we are not ready for a
quotation now" is stored as a grant (`engine.py:15571`). "Ok, no quote please" is declined by the kernel and
granted in the same turn by its "ok" (`engine.py:15749`-`15769`); "send the quotation later please" is granted by
the opt-in. The request that the name gate keeps is read, in the turn that brings the name, as if it had just been made: after "Prepare a quotation"
and "No quotation yet", the reply "Ahmed" lifts the stored refusal (`engine.py:15931`, `16017`; `Resumes` in the model, an exception `RefusalHolds` names).
A text about past orders, or a reply to a quotation, is answered before its words are read for a hold (`engine.py:15493`). A postponement that only the kernel sees is not stored once a quotation was sent (`reducer.py:66`), and
with a legacy hold and ordering words it is quoted (`order_state.py:225`). Customer details are stored
without consent (`order_quote_routes.py:843`, while the remediation specification of 2026-08-03, line 104, says otherwise).
Consent stays granted after a quotation was created, and one made by the tool leaves the frame
pending, so that a later "ok" quotes again. `word` in the model is what the turns read, not what the customer meant.

Jobs on the JSON column. Follow-ups are recorded in place, so the second and third are never reached and the
first is tried again every hour as a duplicate; such rows fill the limit of a run. The payments job writes the
whole column from its copy and may bring back a rejected decision. Every such write, and those of a decision and of a reset, may erase a pending or
unknown write state of the opportunity, after which a second deal is opened, or the journal of a PDF the customer has
(`reopened` and `forgotten` in `SalesEffects`).

Managers. After "Please try again" (`telegram_webhook.py:694`) the slot is gone and the text typed again is ignored;
an overlapping second text or press can take the keys. A row opened between the two SELECTs of the resolution is
closed with the others, or a conversation stays pending without a row. `close_admin_escalation` closes a
row without its conversation, and the bot stays paused. A turn under way talks over a manager who takes over,
once; and where `docs/manager-guide.md:110` says that the bot stops sending while an escalation is pending or in progress, the code
goes on with an acknowledgement for each text (`chat.py:1492`) and, whatever the status, a fallback for each voice message (`chat.py:1459`).
A reply that is known only as the provider's duplicate has no provider identifier and, delivered to its handler again, resolves
escalations opened since. A handler that dies after it took the keys (`telegram_webhook.py:518`) leaves its redelivered text
without slot and mark: it is ignored silently. A reset tapped twice makes two conversations. Confirm and reject tapped
before either resolves both pass CR-1 (`telegram_webhook.py:791`). A second order of a conversation has the identifier
of the first, and its decision is skipped (`telegram_webhook.py:819`).

Sends and calls. A naive and a zoned time are compared for every row a status webhook finds, and the statuses of the call are lost
(`outbound_audit.py:641`), while `tests/test_outbound_audit.py:684` has them update the row; were the times
comparable, two overlapping calls might write the earlier status last (`outbound_audit.py:630`). An alert that Telegram does not take is
lost, and its marker set (`notifications.py:570`). A quarantine write
that fails on the last try raises Retry, but ARQ starts no fourth. A look that read the attempt row before another finished
takes the lock afterwards and calls the LLM again (`attempts.py:256`). A replay with a review of an earlier activity alerts about a result
that it does not save (`job.py:238`); a manager's review whose job dies before the alert is never alerted about (`manager_job.py:457`); the newest
`max_calls` candidates are chosen before those that are done or still active are skipped, so older ones may never be looked at (`job.py:746`). The Inventory client repeats a POST whose
answer was lost, and one quotation may have two sale orders (`zoho_inventory.py:391`).

## 5. What is proved

For every value of the constants that their named assumptions allow, all safety properties of the passing
runs, type correctness, and the four refinements (`InboundContract`, `SendContract`, `Lease`, `EffectContract`):

* `InboundBatchProofs`. `TypeOK` is not inductive: that
  `created` stays within `1..MaxArrivals` needs `JobsFromPushes`, every job has a push of its own.
  The lock is not renewed in a turn, so `OneOwnerHolds` is an argument about ages. `LeaseInv`: a job in its turn owns the
  lock, the lock is no older than its run, and a run is no older than `JobTimeout`. A tick that would expire the lock would
  need a lock of age `LockTtl - 1 >= JobTimeout`, and `Tick` waits for runs of that age to be cancelled.
  `TimesAssumption` (`JobTimeout < LockTtl`) is the fact the configuration must keep.
  The lease lets a step of one job be looked at alone. `ClaimInv`: the batch of a job is the durable list
  (`ImmutableBatchHolds`). `NothingLost` is inductive with it, as a finalizing script then settles
  exactly the list it deletes. `GuardInv`: a message in the list with effects has a guard without a TTL, a message
  in the queue has none (`AtMostOnceHolds`). `WholeInv`: effects begin for whole batches
  (`AnswersInOrderHolds`). `CleanInv` and `QuarantineInv`: an error is reached in the except block only, and the finalizing
  step only past the stored copy (`QuarantineHolds`). With these every step is a step of `InboundContract` or
  leaves its variables alone: `ContractImplemented`, `Spec => ImplementsContract`.
* `OutboundAuditProofs`. `WriterInv`: a caller
  past its flush holds the row's transaction, which is why requests do not overlap although several
  callers looked the row up first. `AcceptedInv` carries "the provider has it" from the answer through
  the uncommitted copy to the row. `QuietInv`: without a fault every waiting caller saw no row and the one at the provider is the first, so
  that the others fail at their INSERT and ask nobody (`AskedAgainOnlyAfterFaultHolds`). `SendContractImplemented`: every step is one of `SendContract`. It needs `ToldInv`: the row
  is held by callers at the provider only (`RowIsReleased`: nobody waits for a caller that is over), and "sent" is reached with an
  accepted message and an active row. That the contract suffices is proved of the contract (`ContractIsTruthful`) and
  carried over by the refinement (`CallersToldTheTruth`).
* `JobProofs`, about `LlmAttempt`. `LeaseInv`: a look with a lease
  owns the lock, which no expiry takes away; `SavedInv`: a look of a review job that alerts has found or saved
  the review, one that marks has tried the alert, and reviews are never deleted. `LeaseIsUsed`: the owner of a key is on its way to
  the release, and any other key expires (`LeaseIsReturned`).
* `JobProofs`, about `FollowUps`. `RemindedInv`: a row that suppresses, a reminder under way, and `reminded` in the column or in
  any session's copy of it stand for a reminder that the provider accepted; so a stale write may undo "reminded" and not
  invent it. `DayInv` is the daily limit. It is not inductive by itself, since the count of a run misses reminders: those whose row says "error", was rolled
  back, or was created on an earlier day (`Hidden`). Each of them is paid for by a fault of its own and stays so, `Cardinality(Hidden) <= mishaps`;
  and what a run has counted, still has to do and is sending never exceeds the limit together. With these the reminders of
  a day are at most the limit and the faults (`DailyLimitHeld`). The set of conversations is finite (`ConvsAssumption`), as the
  cardinalities need.
* `OrderDecisionProofs`. `DecisionInv`: decisions are recorded and escalations resolved only with a text the
  provider has accepted, for any number of orders; and for `MaxOrders = 1`, `ResolvedOnlyAfterSend`. With a
  second order it is false (the identifier again), which is why the theorem assumes one.
* `HandoffProofs`. `DeliveryInv` carries "the provider has it" from the audit row to the Message row, and `WriterInv` says that the
  handler which has written an audit row is alone with its reply, whose Message row does not exist yet. With them `AnsweredInv`: the rows a
  handler is about to close keep their owner (`RowsStay`), the replies counted when a row was opened are in the history, and a reply of
  the history is refused at its second Message row unless it is a duplicate. So an earlier reply does not
  resolve a later escalation (`ResolvedIsAnsweredHolds`). `PromiseInv`: a prompt is good only while its mark lives and no
  other handler is at the keys; when the mark is gone a handler of the answer has the keys, or died with them (`cut`, the exception that
  `LateReplyIsNotSwallowed` names). `LateInv`: a turn whose message the status can rule out begins with none said since it did.
* `ZohoTokenProofs`. `OnTheWay` and `CacheInv` are about ages: a token on its way has aged by no more than its caller has waited,
  and the buffer covers that, so Redis drops it before Zoho does. `LeaseInv`: who is inside owns the lock exactly until its TTL is over.
  `CalmInv`: a poller that saw no trouble waits for a refresh older than its poll; `TimeoutOnlyInTrouble` assumes
  `LockTtl <= PollWindow` (both 20 s), `CarriedOnce` a client that does not repeat writes (the CRM's);
  the Inventory's does, see above. `LeaseImplemented` is the refinement.
* `SalesEffectsProofs`. `OpportunityInv` is `DealInv` and `FirstInv`. `Barred` is 1 where database or session know of a request and 0 where none
  bars another; `deals <= reopened + Barred` is inductive with the agreement of session, database and the others' copies on a deal's id, and
  `FirstInv` keeps them agreed on the write state until a copy erases one (`OneDealHolds`). `JournalInv`, `FileInv`, `HandoffInv` and `OrderInv` relate session, database,
  copies and provider at each step of the quotation, the LLM's timeout and a dead job included; `SavedQuote` is what a commit leaves
  of the session's entry when its UPDATE leaves the column out. `EffectContractImplemented`: with `OpportunityInv`
  every step is one of `EffectContract` under `record <- Recorded`, `underway <- pc = "post_deal"`, `done <- deals`. `WriteStateIsTrustworthy` is what
  follows for a reader of the record.
* `QuoteConsentProofs`. `RefusalKept`: while the last word is a refusal the record says so; only between the arrival
  of a text and the kernel may it lag behind what the kernel's patterns alone read, and what the readers before the kernel make of such a text asks
  for nothing. The text that a name resumes takes the customer's text's place, and where it could lift the refusal (`Resumes`) the word is no refusal any
  more: that is the exception, and the proof shows that no other resumed request is one. `QuotedByGrant`: a quotation is made under a canonical grant.
  `GrantIsOfTheText`: what turns a canonical refusal into a grant is a text that is read, of this turn or resumed in it.

Assumed are the named assumptions on the constants and what is said above, nothing else. Budgets of failures are
any numbers.

Model-checked only: the liveness properties `JobSettlesItsMessages`, `TapIsAnswered`, `AttemptEnds`, `SuccessIsFollowedUp` and
`CallersServed`, as TLAPS does neither fairness nor ENABLED. Of `AttemptEnds` the safety part is proved (`LeaseIsReturned`). What the code does
not keep (`NoMessageStranded`, `ReplyStopsChain`) TLC refutes.

## 6. Not modelled

Most of the repository is text: `llm/engine.py` and its neighbours classify what customers write and check what the
LLM answers, with hundreds of patterns, and the scripts drive acceptance tests and development. What is mapped is a small share
of the 97,000 lines for that reason; it is where state, concurrency and failures are.

* **LLM engine and grounding** beyond consent and side effects: functions of single texts. A model would repeat the patterns or
  leave out what they decide.
* **Order lines, customer details, expected-answer frames** of the dialogue runtime: data that one turn computes from one text.
* **Conversation summary**: two refreshes may merge from one old summary; what a merged summary should contain is not stated.
* **Referrals**: a read, a check and a write of one row; its race is listed as a hazard.
* **Catalog sync**: a daily job that upserts in batches and deactivates what it has not seen.
* **Quality evaluation, knowledge base, customer memory, admin, reports, monitoring**: scoring, search, CRUD and queries.
* **Acceptance and orchestration scripts**: test harnesses outside the product, single processes that write reports.
* Within modelled components: media captions and identifier look-ups of the panel, the FAQ buttons, the counters of the
  daily quota of LLM calls, the feedback request and the legacy follow-up (switched off by default).

Hazards without a property have a note with the reason. Most of them are observations of section 4: the code
does not keep what a property would say.
