---------------------------- MODULE QuoteConsent ----------------------------
(***************************************************************************)
(* When the bot may make a quotation: src/llm/engine.py, order_quote_      *)
(* routes.py and src/dialogue/ (order_state, state, reducer, runner).      *)
(*                                                                         *)
(* A conversation's metadata hold the customer's consent three times over: *)
(* the canonical workflow, the state of the dialogue kernel, and older     *)
(* keys (the source of a stored quote frame, a hold in the sales memory)   *)
(* which count while there is no canonical workflow.  Each turn of the     *)
(* customer passes through several readers of its text, each with patterns *)
(* of its own, before the routes and the model's tools may make a          *)
(* quotation.  The model is one conversation and an endless series of      *)
(* turns, one at a time because the chat's lock is held (InboundBatch);    *)
(* dialogue_kernel_mode is "enforce", its default.                         *)
(***************************************************************************)
CONSTANTS
    Texts,    \* the customer's texts, by how the patterns of the readers read them
    Requests, \* the texts that are more than a greeting: the name gate keeps them
    Flows     \* kernel flows an operator may enforce, or not, from turn to turn

Signals == {"none", "granted", "deferred", "declined"}
Refused == {"deferred", "declined"}
\* hold: is_quote_or_proposal_hold; signal: the patterns of quote_consent_signal;
\* optIn: _has_explicit_quote_opt_in; yes: _has_affirmative_quote_resume_intent;
\* consult: _has_quote_resume_consultative_priority; items: what it selects;
\* name: _is_name_gate_completion_reply.
Readings == [hold : BOOLEAN, signal : Signals, optIn : BOOLEAN, yes : BOOLEAN,
             consult : BOOLEAN, items : {"none", "selection", "order"}, name : BOOLEAN]
NoText == [signal |-> "no text"]

\* The patterns for an opt-in and for a plain yes exclude a hold.
ASSUME TextsOK ==
    /\ Flows \subseteq {"name_gate", "quote_details", "post_quotation_hold", "other"}
    /\ Texts # {} /\ Texts \subseteq Readings /\ Requests \subseteq Texts
    /\ \A t \in Texts : /\ t.hold => t.consult /\ ~t.optIn
                        /\ t.consult => ~t.yes

Consents == {"not_requested", "deferred", "declined", "granted"}
Lifecycles == {"consultation", "quote_offered", "quote_requested", "collecting_details",
               "creating", "created"}
Workflows == [consent : Consents, lifecycle : Lifecycles]
Fresh == [consent |-> "not_requested", lifecycle |-> "consultation"]
None == [consent |-> "none", lifecycle |-> "none"]
Frames == [source : {"selection", "order"}, status : {"unresolved", "collecting", "quoted"}]
NoFrame == [source |-> "none", status |-> "none"]
Kernels == [consent : Consents, lifecycle : Lifecycles, selected : BOOLEAN, sent : BOOLEAN]
NoKernel == [consent |-> "none", lifecycle |-> "none", selected |-> FALSE, sent |-> FALSE]
\* create_quotation runs, called by a route or by the model.
Quoting == {"quoting_route", "quoting_tool"}
Histories == [offered : BOOLEAN, asked : BOOLEAN, mentions : BOOLEAN]

VARIABLES
    wf,      \* order_runtime.quote_workflow, the canonical workflow, or None
    frame,   \* order_runtime.quote_frame with pending_quote_selection, or NoFrame
    kernel,  \* dialogue_kernel.state, or NoKernel
    hold,    \* sales_memory.quotation_hold of an older conversation
    stored,  \* name_gate_pending_request: the request kept while the name is asked
    first,   \* no turn was answered yet, and the customer's name is unknown
    pc,      \* where the turn is
    text,    \* the text the turn reads: the customer's, or the request it resumes
    past,    \* what the bot's last message was: an offer, a question for details
    word     \* the customer's last word on a quotation: refused, or open to one

meta == <<wf, frame, kernel, hold>>
gate == <<stored, first>>
turn == <<text, past>>
vars == <<wf, frame, kernel, hold, stored, first, pc, text, past, word>>

----------------------------------------------------------------------------
(* Reading the metadata. *)

\* quote_workflow_from_metadata: the canonical workflow, else the source of
\* the frame, else the hold.
WorkflowFrameFirst(w, f, h) ==
    IF f.source = "order" THEN [consent |-> "granted", lifecycle |-> "collecting_details"]
    ELSE IF w # None THEN w
    ELSE IF h THEN [consent |-> "deferred", lifecycle |-> "quote_offered"]
    ELSE Fresh
Workflow(w, f, h) ==
    IF w # None THEN w
    ELSE IF f.source = "order" THEN [consent |-> "granted", lifecycle |-> "collecting_details"]
    ELSE IF h THEN [consent |-> "deferred", lifecycle |-> "quote_offered"]
    ELSE Fresh
Current == Workflow(wf, frame, hold)
Pending == frame.status \in {"unresolved", "collecting"}

\* DialogueState.load and from_conversation: the canonical workflow replaces
\* the kernel's own, but only where there is a kernel state already.
Loaded ==
    [consent |-> IF kernel = NoKernel THEN "not_requested"
                 ELSE IF wf # None THEN wf.consent ELSE kernel.consent,
     lifecycle |-> IF kernel = NoKernel THEN "consultation"
                   ELSE IF wf # None THEN wf.lifecycle ELSE kernel.lifecycle,
     selected |-> kernel.selected \/ frame.status = "collecting",
     sent |-> kernel.sent \/ frame.status = "quoted"]

\* reconcile_dialogue_state
Reconcile(k) ==
    IF k.consent = "declined"
    THEN [k EXCEPT !.lifecycle = IF k.sent THEN "created" ELSE "consultation"]
    ELSE IF k.sent
    THEN [k EXCEPT !.consent = "granted", !.lifecycle = "created"]
    ELSE IF k.consent # "granted"
    THEN [k EXCEPT !.lifecycle =
             IF k.selected \/ @ # "consultation" THEN "quote_offered" ELSE @]
    ELSE IF k.selected
    THEN [k EXCEPT !.lifecycle = IF @ \in {"creating", "created"} THEN @ ELSE "collecting_details"]
    ELSE [k EXCEPT !.lifecycle = "quote_requested"]

\* quote_consent_signal: a bare yes is a request when the history speaks of
\* a quotation.
Signal == IF text.signal = "none" /\ text.yes /\ past.mentions THEN "granted" ELSE text.signal

\* _decide_node of the runner: the state after the turn, the flow of the
\* kernel's answer and the consent it reports.
Answer(k, flow, consent) == [after |-> Reconcile(k), flow |-> flow, consent |-> consent]
Decide(k) ==
    IF Signal \in Refused
    THEN Answer([k EXCEPT !.consent = Signal,
                          !.lifecycle = IF Signal = "declined" THEN "consultation" ELSE "quote_offered"],
                "none", Signal)
    ELSE IF k.sent THEN Answer(k, "post_quotation_hold", "none")
    ELSE IF Signal = "granted" /\ k.selected
    THEN Answer([k EXCEPT !.consent = "granted", !.lifecycle = "quote_requested"],
                "quote_details", "granted")
    ELSE IF first THEN Answer(k, "name_gate", "none")
    ELSE Answer([k EXCEPT !.selected = @ \/ text.items # "none"],
                IF k.consent = "granted" /\ k.selected THEN "quote_details" ELSE "other", "none")

----------------------------------------------------------------------------
(* The customer's last word, for the properties. *)

\* The text asks for a quotation, or agrees to the one offered.
Asks(r, h, pending) ==
    r.optIn \/ (r.yes /\ (h.offered \/ (pending /\ h.asked)))

\* The text refuses or postpones it.  A postponement that only the kernel
\* reads is lost once a quotation was sent, when Reconcile turns it into a
\* grant, and when the same text orders and an older conversation's hold says
\* as much already: nothing is stored and the order's frame outweighs the hold.
Lost(r) == Loaded.sent \/ (wf = None /\ hold /\ r.items = "order")
Refuses(r) ==
    r.hold \/ r.signal = "declined" \/ (r.signal = "deferred" /\ ~Lost(r))

\* A hold with the words of a request ("we are not ready for a quotation now")
\* is stored as the grant that quote_consent_signal reads in it.
Misread(r) == r.hold /\ r.signal = "granted"

WordAfter(r, h) ==
    IF /\ ~Misread(r) /\ ~Asks(r, h, Pending)
       /\ Refuses(r) \/ (word = "refused" /\ r.items # "order")
    THEN "refused" ELSE "open"

\* The request the name gate kept is read again in the turn of the name, as if
\* the customer had just made it, whatever was said in between: these requests
\* lift a refusal made after them.
Resumes(r) == r.optIn \/ Misread(r) \/ (wf = None /\ r.items = "order")

----------------------------------------------------------------------------
TypeOK ==
    /\ wf \in Workflows \cup {None}
    /\ frame \in Frames \cup {NoFrame}
    /\ kernel \in Kernels \cup {NoKernel}
    /\ hold \in BOOLEAN
    /\ stored \in Requests \cup {NoText}
    /\ first \in BOOLEAN
    /\ pc \in {"idle", "kernel", "consent", "gate", "offer", "route", "calling", "tools"}
              \cup Quoting
    /\ text \in Texts
    /\ past \in Histories
    /\ word \in {"open", "refused"}

\* A new conversation, or one from before the canonical workflow.
Init ==
    /\ wf = None
    /\ kernel = NoKernel
    /\ hold \in BOOLEAN
    /\ frame \in IF hold THEN {NoFrame}
                 ELSE {NoFrame} \cup [source : {"order"}, status : {"collecting"}]
    /\ first \in IF hold \/ frame # NoFrame THEN {FALSE} ELSE BOOLEAN
    /\ stored \in IF first THEN {NoText} ELSE Requests \cup {NoText}
    /\ pc = "idle"
    /\ text = CHOOSE t \in Texts : TRUE
    /\ past = [offered |-> FALSE, asked |-> FALSE, mentions |-> FALSE]
    /\ word = IF hold THEN "refused" ELSE "open"

\* _suspend_quote_workflow: the quote's routing state is cleared and the
\* consent given, or else the current one, becomes canonical.  (The mutant
\* leaves the lifecycle alone.)
SuspendKeepingLifecycle(consent) ==
    LET resolved == IF consent = "none" THEN Workflow(wf, NoFrame, hold).consent ELSE consent
    IN /\ wf' = [consent |-> resolved, lifecycle |-> Current.lifecycle]
       /\ frame' = NoFrame
       /\ kernel' = [kernel EXCEPT !.selected = FALSE]
Suspend(consent) ==
    LET resolved == IF consent = "none" THEN Workflow(wf, NoFrame, hold).consent ELSE consent
    IN /\ wf' = [consent |-> resolved,
                 lifecycle |-> IF resolved = "deferred" THEN "quote_offered" ELSE "consultation"]
       /\ frame' = NoFrame
       /\ kernel' = [kernel EXCEPT !.selected = FALSE]

HoldConsent(r) == IF r.signal = "none" THEN "declined" ELSE r.signal

\* A text arrives; an explicit hold suspends the workflow first of all.
Hear(t, h) ==
    /\ pc = "idle"
    /\ text' = t
    /\ past' = h
    /\ word' = WordAfter(t, h)
    /\ IF t.hold THEN Suspend(HoldConsent(t)) ELSE UNCHANGED <<wf, frame, kernel>>
    /\ pc' = "kernel"
    /\ UNCHANGED <<hold, gate>>

\* A text about past orders, and a reply to the quotation sent, are answered
\* before anything else of them is read.
AnswerEarly ==
    /\ pc = "idle"
    /\ first' = FALSE
    /\ UNCHANGED <<meta, stored, pc, turn, word>>

\* _store_name_gate_pending_request
Keep(t) == stored' \in {stored} \cup ({t} \cap Requests)

\* The kernel runs and its state is stored; what it reports of the consent
\* becomes canonical only if it is the customer's of this turn (the mutant
\* stores whatever the kernel ends with when the text speaks of a quotation).
GrantOfThisTurn(d) ==
    d.consent = "granted" /\ (text.optIn \/ (past.offered /\ text.yes))
StaleGrant(d) ==
    /\ wf # None
    /\ Current.consent \in Refused
    /\ d.after.consent = "granted"
    /\ ~GrantOfThisTurn(d)
StoresAnyWord(d) ==
    \/ GrantOfThisTurn(d)
    \/ d.consent # "none"
    \/ wf = None /\ Current.consent = "not_requested" /\ d.after.consent # "granted"
Stores(d) ==
    \/ GrantOfThisTurn(d)
    \/ d.consent # "none" /\ d.after.consent # "granted"
    \/ wf = None /\ Current.consent = "not_requested" /\ d.after.consent # "granted"
RunKernel ==
    LET d == Decide(Reconcile(Loaded))
        seen == [consent |-> d.after.consent, lifecycle |-> d.after.lifecycle]
    IN /\ pc = "kernel"
       /\ kernel' = d.after
       /\ wf' = IF seen # Current /\ Stores(d) THEN seen ELSE wf
       /\ pc' \in IF /\ d.flow \in Flows
                     /\ ~StaleGrant(d)
                     /\ Pending => d.flow = "quote_details"
                  THEN {"idle", "consent"} ELSE {"consent"}
       /\ IF pc' = "idle" /\ d.flow = "name_gate" THEN Keep(text) ELSE UNCHANGED stored
       /\ first' = (first /\ pc' = "consent")
       /\ UNCHANGED <<frame, hold, turn, word>>

\* explicit_quote_consent
ExplicitConsent == ~text.consult /\ Asks(text, past, Pending)
ReadConsent ==
    /\ pc = "consent"
    /\ wf' = IF ExplicitConsent
             THEN [consent |-> "granted", lifecycle |-> "quote_requested"] ELSE wf
    /\ pc' = "gate"
    /\ UNCHANGED <<frame, kernel, hold, gate, turn, word>>

\* _store_name_gate_quote_context, which gives up when a lookup fails.
KeepOrder ==
    \/ UNCHANGED frame
    \/ /\ text.items = "order"
       /\ \E status \in {"unresolved", "collecting"} :
              frame' = [source |-> "order", status |-> status]

\* A first text without a name is answered with the question for it; the
\* request and the order in it are kept.
AskName ==
    /\ pc = "gate" /\ first /\ ~text.name
    /\ Keep(text) /\ KeepOrder
    /\ first' = FALSE
    /\ pc' = "idle"
    /\ UNCHANGED <<wf, kernel, hold, turn, word>>

\* The name has come: the turn goes on with the request kept, not with the
\* text that gave the name.  Afterwards, and in PassGate, it may end with a
\* fixed text (details sent without consent, a name noted).
ResumeRequest ==
    /\ pc = "gate" /\ text.name /\ stored # NoText
    /\ text' = stored
    /\ stored' = NoText
    /\ word' = IF Resumes(stored) THEN "open" ELSE word
    /\ first' = FALSE
    /\ pc' \in {"idle", "offer"}
    /\ UNCHANGED <<meta, past>>

\* The details of a quotation under way come with the name: the request is
\* dropped.
DropRequest ==
    /\ pc = "gate" /\ text.name /\ stored # NoText
    /\ Current.consent = "granted"
    /\ stored' = NoText
    /\ first' = FALSE
    /\ pc' \in {"idle", "offer"}
    /\ UNCHANGED <<meta, turn, word>>

PassGate ==
    /\ pc = "gate"
    /\ IF text.name THEN stored = NoText ELSE ~first
    /\ first' = FALSE
    /\ pc' \in {"idle", "offer"}
    /\ UNCHANGED <<meta, stored, turn, word>>

\* _quote_offer_allowed_for_turn: a hold is stored again, an opt-in lifts
\* the hold of the sales memory.
OfferAllowed == ~text.hold /\ (hold => text.optIn)
Offer ==
    /\ pc = "offer"
    /\ wf' = IF text.hold
             THEN [consent |-> HoldConsent(text),
                   lifecycle |-> IF HoldConsent(text) = "deferred" THEN "quote_offered"
                                 ELSE "consultation"]
             ELSE IF text.optIn
             THEN [consent |-> "granted", lifecycle |-> "quote_requested"]
             ELSE wf
    /\ hold' = (hold /\ ~text.optIn)
    /\ pc' \in {"idle", "route"}
    /\ UNCHANGED <<frame, kernel, gate, turn, word>>

\* _clear_pending_quote_selection calls the frame quoted.
Quoted == IF frame = NoFrame THEN NoFrame ELSE [frame EXCEPT !.status = "quoted"]

\* _resolve_purchase_selection_confirmation: the items chosen are stored, or
\* none was found, or only variants of them, or they are not quoted this turn.
StoreSelection(status) ==
    /\ frame' = [source |-> "selection", status |-> status]
    /\ wf' = IF Current.consent = "granted" THEN wf
             ELSE [consent |-> Current.consent, lifecycle |-> "quote_offered"]
    /\ kernel' = kernel
Select ==
    /\ pc = "route"
    /\ text.items = "selection"
    /\ \/ OfferAllowed /\ \E status \in {"unresolved", "collecting"} : StoreSelection(status)
       \/ OfferAllowed /\ frame' = NoFrame /\ UNCHANGED <<wf, kernel>>
       \/ frame' = Quoted /\ UNCHANGED <<wf, kernel>>
       \/ ~OfferAllowed /\ Suspend("none")
    /\ pc' = "idle"
    /\ UNCHANGED <<hold, gate, turn, word>>

\* The customer names the items to quote: they are stored as an order's frame
\* when something is missing, and before a sales order is quoted.
Order ==
    /\ pc = "route"
    /\ text.items = "order"
    /\ \E status \in {"unresolved", "collecting"} : frame' = [source |-> "order", status |-> status]
    /\ pc' \in IF frame'.status = "collecting" THEN {"idle", "calling"} ELSE {"idle"}
    /\ UNCHANGED <<wf, kernel, hold, gate, turn, word>>

\* A yes to the one option the bot offered, when no frame is pending, makes
\* that option the frame.
RepairFrame ==
    /\ pc = "route" /\ ~Pending
    /\ past.offered /\ text.yes
    /\ \E status \in {"unresolved", "collecting"} : frame' = [source |-> "selection", status |-> status]
    /\ pc' \in IF frame'.status = "collecting" THEN {"idle", "calling"} ELSE {"idle"}
    /\ UNCHANGED <<wf, kernel, hold, gate, turn, word>>

\* create_quotation, called by a route for an exact item or for the pending
\* frame, or by the model: no tool is offered after a refusal, and the guard
\* admits nothing but a grant.
Withdrawn == Current.consent = "declined"
BeginQuote(by) ==
    /\ Current.consent = "granted"
    /\ wf' = [consent |-> "granted", lifecycle |-> "creating"]
    /\ pc' = by
    /\ UNCHANGED <<frame, kernel, hold, gate, turn, word>>
QuoteByRoute ==
    /\ \/ pc = "calling"
       \/ pc = "route" /\ (text.items = "order" \/ frame.status = "collecting")
    /\ BeginQuote("quoting_route")
QuoteByTool ==
    /\ pc = "tools"
    /\ ~Withdrawn
    /\ BeginQuote("quoting_tool")

\* The quotation is sent, or a check, Zoho or the send fails and the
\* lifecycle stays where it is.  Only a route marks the frame quoted.
EndQuote ==
    /\ pc \in Quoting
    /\ \/ /\ wf' = [consent |-> "granted", lifecycle |-> "created"]
          /\ frame' = IF pc = "quoting_route" THEN Quoted ELSE frame
       \/ UNCHANGED <<wf, frame>>
    /\ pc' = IF pc = "quoting_route" THEN "idle" ELSE "tools"
    /\ UNCHANGED <<kernel, hold, gate, turn, word>>

\* No route answers and the model does; or the turn ends with its answer.
AskModel == pc = "route" /\ pc' = "tools" /\ UNCHANGED <<meta, gate, turn, word>>
EndTurn == pc \in {"route", "calling", "tools"} /\ pc' = "idle" /\ UNCHANGED <<meta, gate, turn, word>>

Next ==
    \/ \E t \in Texts, h \in Histories : Hear(t, h)
    \/ AnswerEarly
    \/ RunKernel \/ ReadConsent
    \/ AskName \/ ResumeRequest \/ DropRequest \/ PassGate
    \/ Offer \/ Select \/ Order \/ RepairFrame
    \/ QuoteByRoute \/ QuoteByTool \/ EndQuote
    \/ AskModel \/ EndTurn

Spec == Init /\ [][Next]_vars

----------------------------------------------------------------------------
(* No quotation is being made for a customer whose last word on it was a    *)
(* refusal or a postponement: neither a grant the kernel derives from an    *)
(* earlier quotation, nor a frame or a key from an earlier turn, nor the    *)
(* model's own initiative passes create_quotation's guard.  Four things the *)
(* code does lose, each named above: what is said in a text answered early, *)
(* a misread hold, the postponements of Lost, and a refusal that comes      *)
(* between a request kept at the name gate and the name that resumes it     *)
(* ("prepare a quotation", "no quotation yet", "Ahmed").                    *)
RefusalHolds == pc \in Quoting => word # "refused"

(* A canonical refusal or postponement becomes a grant only by a text the   *)
(* turn reads that asks for a quotation, agrees to the one offered or in    *)
(* the making, or is a misread hold: never by the kernel's memory, a frame  *)
(* or the model.  The text is the customer's of this turn, or the request   *)
(* kept at the name gate, which may be older than the refusal.              *)
GrantIsRead ==
    [][wf.consent \in Refused /\ wf'.consent = "granted"
           => Misread(text') \/ Asks(text', past', Pending)]_vars

(* The consent and the lifecycle of the canonical workflow never contradict *)
(* each other, whichever of its seven writers wrote it: without a grant no  *)
(* details are collected and no quotation is requested or made.             *)
WorkflowCoherent ==
    wf.consent # "granted" =>
        wf.lifecycle \notin {"quote_requested", "collecting_details", "creating"}
=============================================================================
