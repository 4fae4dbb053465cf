------------------------- MODULE QuoteConsentProofs -------------------------
(* No quotation after a refusal, for texts of every kind the patterns can   *)
(* tell apart, every history and every choice of enforced flows.            *)
EXTENDS QuoteConsent, TLAPS

\* Nothing in the turn's text can lift a refusal.
Silent == ~text.optIn /\ ~Misread(text)

\* While the customer's last word is a refusal, the record of the
\* conversation says so.  Between the arrival of the text and the kernel the
\* record may still lag behind a text that only the kernel's patterns read,
\* and a frame of an order, which speaks for itself without a canonical
\* workflow, is never stored without one.
RefusalKept ==
    word = "refused" =>
        /\ pc # "idle" => Silent
        /\ pc \in {"kernel", "consent"} => ~Asks(text, past, Pending)
        /\ pc = "kernel" =>
              /\ text.hold => wf.consent \in Refused
              /\ text.items = "order" => Refuses(text)
              /\ Current.consent \in Refused \/ Refuses(text)
        /\ pc # "kernel" => Current.consent \in Refused
        /\ pc \notin {"idle", "kernel"} /\ text.items = "order" => wf # None

\* A quotation is made under a canonical grant.
QuotedByGrant == pc \in Quoting => wf.consent = "granted"

QInv == TypeOK /\ RefusalKept /\ QuotedByGrant /\ WorkflowCoherent

----------------------------------------------------------------------------
(* Types.                                                                  *)

\* A text's readings.
LEMMA ReadingType ==
    ASSUME NEW t \in Texts
    PROVE  /\ t \in Readings
           /\ t.hold \in BOOLEAN /\ t.optIn \in BOOLEAN /\ t.yes \in BOOLEAN
           /\ t.consult \in BOOLEAN /\ t.signal \in Signals
           /\ t.items \in {"none", "selection", "order"} /\ t.name \in BOOLEAN
           /\ t.hold => t.consult /\ ~t.optIn /\ ~t.yes
  BY TextsOK DEF Readings

\* The workflow that is read is a workflow, and the canonical one is itself.
LEMMA WorkflowType ==
    ASSUME NEW w \in Workflows \cup {None}, NEW f \in Frames \cup {NoFrame}, NEW h \in BOOLEAN
    PROVE  /\ Workflow(w, f, h) \in Workflows
           /\ Workflow(w, f, h).consent \in Consents
           /\ w # None => Workflow(w, f, h) = w
           /\ w = None => Workflow(w, f, h).consent # "declined"
           /\ w = None /\ f.source # "order" /\ h => Workflow(w, f, h).consent = "deferred"
           /\ w = None /\ Workflow(w, f, h).consent \in Refused => f.source # "order" /\ h
  BY DEF Workflow, Workflows, Fresh, Consents, Lifecycles, Refused

\* None is not a workflow: its consent is none.
LEMMA NoneType == None \notin Workflows /\ None.consent = "none"
  BY DEF None, Workflows, Consents

\* What the kernel loads is a state of the kernel.
LEMMA LoadedType ==
    ASSUME TypeOK
    PROVE  Loaded \in Kernels
<1>1. kernel = NoKernel => kernel.selected = FALSE /\ kernel.sent = FALSE
  BY DEF NoKernel
<1>2. kernel # NoKernel => kernel.consent \in Consents /\ kernel.lifecycle \in Lifecycles
                           /\ kernel.selected \in BOOLEAN /\ kernel.sent \in BOOLEAN
  BY DEF TypeOK, Kernels
<1>3. wf # None => wf.consent \in Consents /\ wf.lifecycle \in Lifecycles
  BY DEF TypeOK, Workflows
<1>4. "not_requested" \in Consents /\ "consultation" \in Lifecycles
  BY DEF Consents, Lifecycles
<1> QED BY <1>1, <1>2, <1>3, <1>4 DEF Loaded, Kernels

\* The reconciled state: its type, what it does to a consent, and that no
\* consent but a grant is left with a lifecycle of the quotation itself.
LEMMA ReconcileFacts ==
    ASSUME NEW k \in Kernels
    PROVE  /\ Reconcile(k) \in Kernels
           /\ Reconcile(k).sent = k.sent
           /\ k.consent = "declined" => Reconcile(k).consent = "declined"
           /\ k.consent = "deferred" /\ ~k.sent => Reconcile(k).consent = "deferred"
           /\ k.consent = "granted" => Reconcile(k).consent = "granted"
           /\ Reconcile(k).consent \in {k.consent, "granted"}
           /\ Reconcile(k).consent # "granted" =>
                 Reconcile(k).lifecycle \in {"consultation", "quote_offered", "created"}
<1>1. k.consent \in Consents /\ k.lifecycle \in Lifecycles
      /\ k.selected \in BOOLEAN /\ k.sent \in BOOLEAN
  BY DEF Kernels
<1>2. CASE k.consent = "declined"
  BY <1>1, <1>2 DEF Reconcile, Kernels, Lifecycles, Consents
<1>3. CASE k.consent # "declined" /\ k.sent
  BY <1>1, <1>3 DEF Reconcile, Kernels, Lifecycles, Consents
<1>4. CASE k.consent # "declined" /\ ~k.sent /\ k.consent # "granted"
  <2> DEFINE life == IF k.selected \/ k.lifecycle # "consultation" THEN "quote_offered" ELSE
         k.lifecycle
  <2>1. Reconcile(k) = [k EXCEPT !.lifecycle = life]
    BY <1>1, <1>4 DEF Reconcile
  <2>2. life \in {"consultation", "quote_offered"}
    OBVIOUS
  <2> HIDE DEF life
  <2> QED BY <1>1, <1>4, <2>1, <2>2 DEF Kernels, Lifecycles, Consents
<1>5. CASE k.consent = "granted" /\ ~k.sent
  BY <1>1, <1>5 DEF Reconcile, Kernels, Lifecycles, Consents
<1> QED BY <1>1, <1>2, <1>3, <1>4, <1>5

\* The kernel's signal is the text's, unless a bare yes makes it a request.
LEMMA SignalFacts ==
    ASSUME TypeOK
    PROVE  /\ Signal \in Signals
           /\ Signal \in Refused <=> text.signal \in Refused
           /\ Signal \in Refused => Signal = text.signal
<1>1. text.signal \in Signals
  BY ReadingType DEF TypeOK
<1> QED BY <1>1 DEF Signal, Signals, Refused

\* The kernel's answer: its type, and how a refusal and a grant come out.
LEMMA DecideFacts ==
    ASSUME TypeOK, NEW k \in Kernels
    PROVE  /\ Decide(k).after \in Kernels
           /\ Decide(k).consent \in {"none", "granted", "deferred", "declined"}
           /\ Decide(k).consent = "granted" => Decide(k).after.consent = "granted"
           /\ Decide(k).after.consent # "granted" =>
                 Decide(k).after.lifecycle \in {"consultation", "quote_offered", "created"}
           /\ Decide(k).consent \in Refused => Decide(k).after.consent \in Refused \cup {"granted"}
           /\ text.signal \in Refused => Decide(k).consent = text.signal
           /\ text.signal = "declined" => Decide(k).after.consent = "declined"
           /\ text.signal = "deferred" /\ ~k.sent => Decide(k).after.consent = "deferred"
<1>0. k.consent \in Consents /\ k.lifecycle \in Lifecycles
      /\ k.selected \in BOOLEAN /\ k.sent \in BOOLEAN
  BY DEF Kernels
<1>1. CASE Signal \in Refused
  <2> DEFINE asked == [k EXCEPT !.consent = Signal,
                                !.lifecycle = IF Signal = "declined" THEN "consultation"
                                              ELSE "quote_offered"]
  <2>1. asked \in Kernels /\ asked.consent = Signal /\ asked.sent = k.sent
    BY <1>0, <1>1 DEF Kernels, Consents, Lifecycles, Refused
  <2>2. Decide(k) = Answer(asked, "none", Signal)
    BY <1>1 DEF Decide
  <2> HIDE DEF asked
  <2>3. Decide(k).after = Reconcile(asked) /\ Decide(k).consent = Signal
    BY <2>2 DEF Answer
  <2> QED BY <1>1, <2>1, <2>3, ReconcileFacts, SignalFacts DEF Refused
<1>2. CASE Signal \notin Refused /\ k.sent
  <2>1. Decide(k).after = Reconcile(k) /\ Decide(k).consent = "none"
    BY <1>2 DEF Decide, Answer
  <2> QED BY <1>2, <2>1, ReconcileFacts, SignalFacts DEF Refused
<1>3. CASE Signal \notin Refused /\ ~k.sent /\ Signal = "granted" /\ k.selected
  <2> DEFINE asked == [k EXCEPT !.consent = "granted", !.lifecycle = "quote_requested"]
  <2>1. asked \in Kernels /\ asked.consent = "granted"
    BY <1>0 DEF Kernels, Consents, Lifecycles
  <2>2. Decide(k) = Answer(asked, "quote_details", "granted")
    BY <1>3 DEF Decide
  <2> HIDE DEF asked
  <2>3. Decide(k).after = Reconcile(asked) /\ Decide(k).consent = "granted"
    BY <2>2 DEF Answer
  <2> QED BY <1>3, <2>1, <2>3, ReconcileFacts, SignalFacts DEF Refused
<1>4. CASE Signal \notin Refused /\ ~k.sent /\ ~(Signal = "granted" /\ k.selected) /\ first
  <2>1. Decide(k).after = Reconcile(k) /\ Decide(k).consent = "none"
    BY <1>4 DEF Decide, Answer
  <2> QED BY <1>4, <2>1, ReconcileFacts, SignalFacts DEF Refused
<1>5. CASE Signal \notin Refused /\ ~k.sent /\ ~(Signal = "granted" /\ k.selected) /\ ~first
  <2> DEFINE chosen == [k EXCEPT !.selected = k.selected \/ text.items # "none"]
  <2>1. chosen \in Kernels
    BY <1>0 DEF Kernels
  <2>2. Decide(k).after = Reconcile(chosen) /\ Decide(k).consent = "none"
    BY <1>5 DEF Decide, Answer
  <2> HIDE DEF chosen
  <2> QED BY <1>5, <2>1, <2>2, ReconcileFacts, SignalFacts DEF Refused
<1> QED BY <1>1, <1>2, <1>3, <1>4, <1>5

----------------------------------------------------------------------------
(* The invariant.                                                          *)

\* A refusing canonical workflow is what is read.
LEMMA CanonicalIsCurrent ==
    ASSUME TypeOK
    PROVE  /\ Current \in Workflows
           /\ wf # None => Current = wf
           /\ wf.consent \in Consents => wf # None /\ Current = wf
           /\ wf = None /\ Current.consent \in Refused =>
                 frame.source # "order" /\ hold /\ Current.consent = "deferred"
  BY WorkflowType, NoneType DEF TypeOK, Current, Consents, Refused

\* The consent of a hold.
LEMMA HoldFacts ==
    ASSUME NEW t \in Texts
    PROVE  /\ HoldConsent(t) \in {"granted", "deferred", "declined"}
           /\ t.hold /\ HoldConsent(t) = "granted" => Misread(t)
           /\ t.hold /\ ~Misread(t) => HoldConsent(t) \in Refused
  BY ReadingType DEF HoldConsent, Signals, Misread, Refused

\* The initial state has the invariant.
LEMMA InitQuote == Init => QInv
<1> SUFFICES ASSUME Init PROVE QInv
  OBVIOUS
<1>1. text \in Texts
  BY TextsOK DEF Init
<1>2. TypeOK
  BY <1>1 DEF Init, TypeOK, Frames, Histories
<1>3. RefusalKept
  BY <1>2 DEF Init, RefusalKept, Current, Workflow, Refused, None, NoFrame
<1> QED BY <1>2, <1>3, NoneType
        DEF QInv, Init, QuotedByGrant, Quoting, WorkflowCoherent, None

\* Suspending stores a workflow without a quotation under way.
LEMMA SuspendFacts ==
    ASSUME TypeOK, NEW consent \in Consents \cup {"none"}, Suspend(consent)
    PROVE  /\ wf' \in Workflows /\ frame' = NoFrame /\ kernel' \in Kernels \cup {NoKernel}
           /\ wf'.lifecycle \in {"quote_offered", "consultation"}
           /\ consent # "none" => wf'.consent = consent
           /\ consent = "none" /\ wf # None => wf'.consent = wf.consent
           /\ consent = "none" /\ wf = None /\ Current.consent \in Refused =>
                 wf'.consent \in Refused
<1> DEFINE resolved == IF consent = "none" THEN Workflow(wf, NoFrame, hold).consent ELSE consent
           life == IF resolved = "deferred" THEN "quote_offered" ELSE "consultation"
<1>1. /\ resolved \in Consents
      /\ consent = "none" /\ wf # None => resolved = wf.consent
      /\ consent = "none" /\ wf = None /\ Current.consent \in Refused => resolved = "deferred"
  <2>1. NoFrame \in Frames \cup {NoFrame} /\ NoFrame.source # "order"
    BY DEF NoFrame
  <2> QED BY <2>1, WorkflowType, CanonicalIsCurrent DEF TypeOK
<1>2. wf' = [consent |-> resolved, lifecycle |-> life] /\ frame' = NoFrame
      /\ kernel' = [kernel EXCEPT !.selected = FALSE]
  BY DEF Suspend
<1>3. life \in Lifecycles /\ life \in {"quote_offered", "consultation"}
  BY DEF Lifecycles
<1>4. kernel' \in Kernels \cup {NoKernel}
  <2>1. CASE kernel = NoKernel
    BY <1>2, <2>1 DEF NoKernel
  <2>2. CASE kernel \in Kernels
    BY <1>2, <2>2 DEF Kernels
  <2> QED BY <2>1, <2>2 DEF TypeOK
<1> HIDE DEF resolved, life
<1>5. wf' \in Workflows /\ wf'.consent = resolved /\ wf'.lifecycle = life
  BY <1>1, <1>2, <1>3 DEF Workflows
<1>6. "deferred" \in Refused
  BY DEF Refused
<1>7. consent # "none" => resolved = consent
  BY DEF resolved
<1> QED BY <1>1, <1>2, <1>3, <1>4, <1>5, <1>6, <1>7

\* A text arrives.
LEMMA HearQuote ==
    ASSUME QInv, NEW t \in Texts, NEW h \in Histories, Hear(t, h)
    PROVE  QInv'
<1>1. TypeOK
  BY DEF QInv
<1>2. /\ pc = "idle" /\ pc' = "kernel" /\ text' = t /\ past' = h /\ hold' = hold
      /\ word' = WordAfter(t, h) /\ UNCHANGED <<stored, first>>
  BY DEF Hear, gate
<1>3. "kernel" \notin Quoting /\ "idle" # "kernel"
  BY DEF Quoting
<1>4. word' \in {"open", "refused"}
  BY <1>1, <1>2 DEF WordAfter, TypeOK
<1>5. CASE t.hold
  <2>1. Suspend(HoldConsent(t))
    BY <1>5 DEF Hear
  <2>2. /\ wf' \in Workflows /\ frame' = NoFrame /\ kernel' \in Kernels \cup {NoKernel}
        /\ wf'.lifecycle \in {"quote_offered", "consultation"} /\ wf'.consent = HoldConsent(t)
    BY <1>1, <2>1, HoldFacts, SuspendFacts DEF Consents
  <2>3. TypeOK'
    BY <1>1, <1>2, <1>3, <1>4, <2>2 DEF TypeOK
  <2>4. wf' # None /\ Current' = wf'
    BY <2>2, <2>3, WorkflowType, NoneType DEF TypeOK, Current
  <2>5. wf'.consent = "granted" => word' # "refused"
    BY <1>2, <1>5, <2>2, HoldFacts DEF WordAfter
  <2>6. word' = "refused" => wf'.consent \in Refused /\ ~Misread(t)
    BY <1>2, <1>5, <2>2, HoldFacts DEF WordAfter
  <2>7. ~Asks(t, h, FALSE) /\ Pending' = FALSE /\ ~t.optIn /\ ~t.yes
    BY <1>5, <2>2, ReadingType DEF Asks, Pending, NoFrame
  <2>8. RefusalKept'
    BY <1>2, <1>3, <1>5, <2>4, <2>6, <2>7 DEF RefusalKept, Silent, Refuses, Asks
  <2> QED BY <1>2, <1>3, <2>2, <2>3, <2>8
          DEF QInv, QuotedByGrant, WorkflowCoherent
<1>6. CASE ~t.hold
  <2>1. UNCHANGED <<wf, frame, kernel>>
    BY <1>6 DEF Hear
  <2>2. TypeOK'
    BY <1>1, <1>2, <1>4, <2>1 DEF TypeOK
  <2>3. /\ Current' = Current /\ Pending' = Pending /\ Loaded' = Loaded
        /\ Refuses(t)' <=> Refuses(t)
    BY <1>2, <2>1 DEF Current, Pending, Loaded, Refuses, Lost
  <2>4. word' = "refused" => ~Misread(t) /\ ~Asks(t, h, Pending)
    BY <1>2 DEF WordAfter
  <2>5. word' = "refused" =>
          \/ Refuses(t)
          \/ word = "refused" /\ t.items # "order"
    BY <1>2 DEF WordAfter
  <2>6. word = "refused" => Current.consent \in Refused
    BY <1>2 DEF QInv, RefusalKept
  <2>7. RefusalKept'
    BY <1>2, <1>6, <2>3, <2>4, <2>5, <2>6 DEF RefusalKept, Silent, Asks, Refuses, Lost
  <2> QED BY <1>2, <1>3, <2>1, <2>2, <2>7 DEF QInv, QuotedByGrant, WorkflowCoherent
<1> QED BY <1>5, <1>6

\* Whatever the kernel's state is stored as canonical is a refusal while the
\* customer's last word is one.
LEMMA KernelQuote ==
    ASSUME QInv, RunKernel
    PROVE  QInv'
<1> DEFINE k == Reconcile(Loaded)
           d == Decide(k)
           seen == [consent |-> d.after.consent, lifecycle |-> d.after.lifecycle]
<1>1. /\ TypeOK /\ k \in Kernels /\ k.sent = Loaded.sent
  BY LoadedType, ReconcileFacts DEF QInv
<1>2. /\ d.after \in Kernels /\ d.consent \in {"none", "granted", "deferred", "declined"}
      /\ d.consent = "granted" => d.after.consent = "granted"
      /\ d.after.consent # "granted" =>
            d.after.lifecycle \in {"consultation", "quote_offered", "created"}
      /\ d.consent \in Refused => d.after.consent \in Refused \cup {"granted"}
      /\ text.signal \in Refused => d.consent = text.signal
      /\ text.signal = "declined" => d.after.consent = "declined"
      /\ text.signal = "deferred" /\ ~Loaded.sent => d.after.consent = "deferred"
  BY <1>1, DecideFacts
<1>3. /\ pc = "kernel" /\ pc' \in {"idle", "consent"}
      /\ UNCHANGED <<frame, hold, text, past, word>>
      /\ kernel' = d.after
      /\ wf' = IF seen # Current /\ Stores(d) THEN seen ELSE wf
      /\ first' = (first /\ pc' = "consent")
      /\ stored' \in {stored} \cup ({text} \cap Requests)
  BY DEF RunKernel, turn, Keep
<1> HIDE DEF k, d
<1>4. /\ seen \in Workflows /\ seen.consent = d.after.consent
      /\ seen.lifecycle = d.after.lifecycle /\ seen # None
  BY <1>2, NoneType DEF Kernels, Workflows
<1> HIDE DEF seen
<1>5. TypeOK'
  BY <1>1, <1>2, <1>3, <1>4 DEF TypeOK
<1>6. WorkflowCoherent'
  BY <1>2, <1>3, <1>4 DEF QInv, WorkflowCoherent
<1>7. /\ wf' # None => Current' = wf'
      /\ wf' = wf => Current' = Current
  BY <1>3, <1>5, WorkflowType DEF TypeOK, Current
<1>8. ASSUME word = "refused"
      PROVE  /\ Current'.consent \in Refused
             /\ text.items = "order" => wf' # None
  <2>1. /\ Silent /\ ~GrantOfThisTurn(d)
        /\ text.items = "order" => Refuses(text)
        /\ Current.consent \in Refused \/ Refuses(text)
        /\ text.hold => wf.consent \in Refused
    BY <1>3, <1>8 DEF QInv, RefusalKept, Silent, GrantOfThisTurn, Asks
  <2>2. CASE wf' = seen /\ seen # Current /\ Stores(d)
    <3>1. Current.consent \in Refused => Current.consent # "not_requested"
      BY DEF Refused
    <3>2. CASE d.consent # "none" /\ d.after.consent # "granted"
      BY <1>2, <1>4, <1>7, <2>2, <3>2 DEF Refused
    <3>3. CASE wf = None /\ Current.consent = "not_requested"
      <4>1. ~text.hold /\ Refuses(text)
        BY <2>1, <3>1, <3>3, NoneType DEF Refused
      <4> QED BY <1>2, <1>4, <1>7, <2>2, <4>1 DEF Refuses, Lost, Refused
    <3> QED BY <2>1, <2>2, <3>2, <3>3 DEF Stores
  <2>3. CASE wf' = wf /\ Stores(d) /\ seen = Current
    <3>1. Current' = seen
      BY <1>7, <2>3
    <3>2. CASE text.hold
      BY <1>1, <1>7, <2>1, <2>3, <3>2, CanonicalIsCurrent, NoneType DEF Refused, None
    <3>3. CASE ~text.hold /\ Refuses(text)
      <4>1. seen.consent = text.signal /\ text.signal \in Refused
        BY <1>2, <1>4, <3>3 DEF Refuses, Lost, Refused
      <4>2. text.items = "order" => wf # None
        BY <1>1, <2>3, <3>3, <4>1, CanonicalIsCurrent DEF Refuses, Lost, Refused
      <4> QED BY <2>3, <3>1, <4>1, <4>2
    <3>4. CASE ~Refuses(text)
      BY <1>7, <2>1, <2>3, <3>4
    <3> QED BY <3>2, <3>3, <3>4
  <2>4. CASE wf' = wf /\ ~Stores(d)
    <3>1. CASE text.hold
      BY <1>1, <1>7, <2>1, <2>4, <3>1, CanonicalIsCurrent, NoneType DEF Refused, None
    <3>2. CASE ~text.hold /\ Refuses(text)
      <4>1. d.consent = text.signal /\ text.signal \in Refused /\ d.after.consent = text.signal
        BY <1>2, <3>2 DEF Refuses, Lost, Refused
      <4> QED BY <2>4, <4>1 DEF Stores, Refused
    <3>3. CASE ~Refuses(text)
      BY <1>7, <2>1, <2>4, <3>3
    <3> QED BY <3>1, <3>2, <3>3
  <2> QED BY <1>3, <2>2, <2>3, <2>4
<1>9. Pending' = Pending
  BY <1>3 DEF Pending
<1>10. RefusalKept'
  BY <1>3, <1>8, <1>9 DEF QInv, RefusalKept, Silent, Misread, Asks
<1>11. QuotedByGrant'
  BY <1>3 DEF QuotedByGrant, Quoting
<1> QED BY <1>5, <1>6, <1>10, <1>11 DEF QInv

\* The text is read for an explicit consent.
LEMMA ReadQuote == ASSUME QInv, ReadConsent PROVE QInv'
<1>1. /\ TypeOK /\ pc = "consent" /\ pc' = "gate"
      /\ UNCHANGED <<frame, kernel, hold, stored, first, text, past, word>>
  BY DEF QInv, ReadConsent, turn, gate
<1> DEFINE granted == [consent |-> "granted", lifecycle |-> "quote_requested"]
<1>2. wf' = IF ExplicitConsent THEN granted ELSE wf
  BY DEF ReadConsent
<1>3. granted \in Workflows /\ granted.consent = "granted"
  BY DEF Workflows, Consents, Lifecycles
<1> HIDE DEF granted
<1>4. TypeOK'
  BY <1>1, <1>2, <1>3 DEF TypeOK
<1>5. word = "refused" => wf' = wf /\ Current' = Current
  BY <1>1, <1>2 DEF QInv, RefusalKept, ExplicitConsent, Current
<1>6. RefusalKept'
  BY <1>1, <1>5 DEF QInv, RefusalKept, Silent, Misread
<1> QED BY <1>1, <1>2, <1>3, <1>4, <1>6 DEF QInv, WorkflowCoherent, QuotedByGrant, Quoting

\* What only moves the turn past the name gate keeps the invariant.
LEMMA GateStep ==
    ASSUME QInv, pc = "gate", pc' \in {"idle", "offer"},
           UNCHANGED <<wf, kernel, hold, past>>, TypeOK', first' = FALSE,
           word' = "refused" =>
              /\ Current'.consent \in Refused
              /\ pc' = "offer" => ~text'.optIn /\ ~Misread(text')
              /\ pc' = "offer" /\ text'.items = "order" => wf # None
    PROVE  QInv'
<1>1. RefusalKept'
  <2>1. pc' \notin {"kernel", "consent"} /\ (pc' # "idle" => pc' = "offer") /\ wf' = wf
    OBVIOUS
  <2>2. word' = "refused" /\ pc' # "idle" =>
          Silent' /\ (text'.items = "order" => wf' # None)
    BY <2>1 DEF Silent, Misread
  <2>3. word' = "refused" => Current'.consent \in Refused
    OBVIOUS
  <2> QED BY <2>1, <2>2, <2>3 DEF RefusalKept
<1>2. WorkflowCoherent' /\ QuotedByGrant'
  BY DEF QInv, WorkflowCoherent, QuotedByGrant, Quoting
<1> QED BY <1>1, <1>2 DEF QInv

\* The name is asked for: the order's frame that is kept speaks for itself
\* only without a canonical workflow.
LEMMA AskNameQuote == ASSUME QInv, AskName PROVE QInv'
<1>1. /\ TypeOK /\ pc = "gate" /\ pc' = "idle" /\ first' = FALSE /\ text \in Texts
      /\ UNCHANGED <<wf, kernel, hold, text, past, word>>
      /\ stored' \in {stored} \cup ({text} \cap Requests)
  BY DEF QInv, TypeOK, AskName, Keep, turn
<1>2. frame' \in Frames \cup {NoFrame} /\ (frame' # frame => text.items = "order")
  BY <1>1 DEF AskName, KeepOrder, TypeOK, Frames
<1>3. TypeOK'
  BY <1>1, <1>2 DEF TypeOK
<1>4. word = "refused" =>
        Current.consent \in Refused /\ (text.items = "order" => wf # None)
  BY <1>1 DEF QInv, RefusalKept
<1>5. frame' = frame \/ wf # None => (word = "refused" => Current'.consent \in Refused)
  <2>1. CASE frame' = frame
    BY <1>1, <1>4, <2>1 DEF Current
  <2>2. CASE wf # None
    BY <1>1, <1>3, <1>4, <2>2, WorkflowType DEF TypeOK, Current
  <2> QED BY <2>1, <2>2
<1> QED BY <1>1, <1>2, <1>3, <1>4, <1>5, GateStep

\* The request kept takes the text's place: what lifts the refusal is named.
LEMMA ResumeQuote == ASSUME QInv, ResumeRequest PROVE QInv'
<1>1. /\ TypeOK /\ pc = "gate" /\ pc' \in {"idle", "offer"} /\ first' = FALSE
      /\ UNCHANGED <<wf, frame, kernel, hold, past>>
      /\ stored \in Requests /\ text' = stored /\ stored' = NoText
      /\ word' = IF Resumes(stored) THEN "open" ELSE word
  BY DEF QInv, TypeOK, ResumeRequest, meta
<1>2. TypeOK'
  BY <1>1, TextsOK DEF TypeOK
<1>3. word' = "refused" => word = "refused" /\ ~Resumes(stored)
  BY <1>1
<1>4. word = "refused" => Current.consent \in Refused
  BY <1>1 DEF QInv, RefusalKept
<1>5. Current' = Current
  BY <1>1 DEF Current
<1> QED BY <1>1, <1>2, <1>3, <1>4, <1>5, GateStep DEF Resumes, Misread

\* The request is dropped, or there is none.
LEMMA PassGateQuote == ASSUME QInv, DropRequest \/ PassGate PROVE QInv'
<1>1. /\ TypeOK /\ pc = "gate" /\ pc' \in {"idle", "offer"} /\ first' = FALSE
      /\ UNCHANGED <<wf, frame, kernel, hold, text, past, word>>
      /\ stored' \in {stored, NoText}
  BY DEF QInv, DropRequest, PassGate, meta, turn
<1>2. TypeOK' /\ Current' = Current
  BY <1>1 DEF TypeOK, Current
<1>3. word = "refused" =>
        /\ Current.consent \in Refused /\ ~text.optIn /\ ~Misread(text)
        /\ text.items = "order" => wf # None
  BY <1>1 DEF QInv, RefusalKept, Silent
<1> QED BY <1>1, <1>2, <1>3, GateStep DEF Misread

\* A text answered early leaves the record alone.
LEMMA EarlyQuote == ASSUME QInv, AnswerEarly PROVE QInv'
<1>1. /\ TypeOK /\ pc = "idle" /\ first' = FALSE
      /\ UNCHANGED <<wf, frame, kernel, hold, stored, pc, text, past, word>>
  BY DEF QInv, AnswerEarly, meta, turn
<1>2. TypeOK' /\ Current' = Current
  BY <1>1 DEF TypeOK, Current
<1>3. RefusalKept'
  BY <1>1, <1>2 DEF QInv, RefusalKept
<1> QED BY <1>1, <1>2, <1>3 DEF QInv, QuotedByGrant, Quoting, WorkflowCoherent

\* The offer: a hold is stored again, an opt-in is stored.
LEMMA OfferQuote == ASSUME QInv, Offer PROVE QInv'
<1>1. /\ TypeOK /\ pc = "offer" /\ pc' \in {"idle", "route"} /\ text \in Texts
      /\ UNCHANGED <<frame, kernel, stored, first, text, past, word>>
      /\ hold' = (hold /\ ~text.optIn)
  BY DEF QInv, Offer, turn, gate, TypeOK
<1> DEFINE held == [consent |-> HoldConsent(text),
                    lifecycle |-> IF HoldConsent(text) = "deferred" THEN "quote_offered"
                                  ELSE "consultation"]
           granted == [consent |-> "granted", lifecycle |-> "quote_requested"]
<1>2. wf' = IF text.hold THEN held ELSE IF text.optIn THEN granted ELSE wf
  BY DEF Offer
<1>3. /\ granted \in Workflows /\ granted.consent = "granted"
      /\ held \in Workflows /\ held.consent = HoldConsent(text)
      /\ held.lifecycle \in {"quote_offered", "consultation"}
  BY <1>1, HoldFacts DEF Workflows, Consents, Lifecycles
<1> HIDE DEF granted, held
<1>4. TypeOK'
  BY <1>1, <1>2, <1>3 DEF TypeOK
<1>5. ASSUME word = "refused"
      PROVE  Current'.consent \in Refused /\ (text.items = "order" => wf' # None)
  <2>1. Silent /\ Current.consent \in Refused /\ (text.items = "order" => wf # None)
    BY <1>1, <1>5 DEF QInv, RefusalKept
  <2>2. CASE text.hold
    <3>1. wf' = held /\ held # None /\ held.consent \in Refused
      BY <1>1, <1>2, <1>3, <2>1, <2>2, HoldFacts, NoneType DEF Silent
    <3> QED BY <1>3, <1>4, <3>1, WorkflowType DEF TypeOK, Current
  <2>3. CASE ~text.hold
    <3>1. wf' = wf /\ hold' = hold
      BY <1>1, <1>2, <2>1, <2>3 DEF Silent, TypeOK
    <3> QED BY <1>1, <2>1, <3>1 DEF Current
  <2> QED BY <2>2, <2>3
<1>6. RefusalKept'
  BY <1>1, <1>5 DEF QInv, RefusalKept, Silent, Misread
<1> QED BY <1>1, <1>2, <1>3, <1>4, <1>6 DEF QInv, WorkflowCoherent, QuotedByGrant, Quoting

\* The frame of another status keeps its source.
LEMMA QuotedFrame ==
    ASSUME TypeOK
    PROVE  Quoted \in Frames \cup {NoFrame} /\ (Quoted.source = frame.source)
  BY DEF TypeOK, Quoted, Frames, NoFrame

\* A step of the routes or the tools keeps the invariant when it keeps the
\* types, the coherence and the refusal.
LEMMA RoutedStep ==
    ASSUME QInv, pc \notin {"idle", "kernel", "consent"}, pc' \notin {"kernel", "consent"},
           UNCHANGED <<text, past, word>>, TypeOK', WorkflowCoherent',
           pc' \in Quoting => wf'.consent = "granted",
           word = "refused" =>
              /\ Current'.consent \in Refused
              /\ pc' # "idle" /\ text.items = "order" => wf' # None
    PROVE  QInv'
<1>1. RefusalKept'
  BY DEF QInv, RefusalKept, Silent, Misread
<1> QED BY <1>1 DEF QInv, QuotedByGrant

\* A selection is stored, dropped, called quoted or suspended.
LEMMA SelectQuote == ASSUME QInv, Select PROVE QInv'
<1>1. /\ TypeOK /\ pc = "route" /\ pc' = "idle"
      /\ UNCHANGED <<hold, stored, first, text, past, word>>
  BY DEF QInv, Select, turn, gate
<1>2. Current \in Workflows /\ (word = "refused" => Current.consent \in Refused)
  BY <1>1, CanonicalIsCurrent DEF QInv, RefusalKept
<1>3. "idle" \notin Quoting
  BY DEF Quoting
<1>4. ASSUME NEW status \in {"unresolved", "collecting"}, StoreSelection(status) PROVE QInv'
  <2> DEFINE offered == [consent |-> Current.consent, lifecycle |-> "quote_offered"]
  <2>1. /\ frame' \in Frames /\ kernel' = kernel
        /\ wf' = IF Current.consent = "granted" THEN wf ELSE offered
    BY <1>4 DEF StoreSelection, Frames
  <2>2. /\ offered \in Workflows /\ offered.consent = Current.consent
        /\ offered.lifecycle = "quote_offered" /\ offered # None
    BY <1>2, NoneType DEF Workflows, Lifecycles
  <2> HIDE DEF offered
  <2>3. TypeOK'
    BY <1>1, <2>1, <2>2 DEF TypeOK
  <2>4. Current.consent # "granted" => Current' = offered
    BY <2>1, <2>2, <2>3, WorkflowType DEF TypeOK, Current
  <2>5. WorkflowCoherent'
    BY <2>1, <2>2 DEF QInv, WorkflowCoherent
  <2> QED BY <1>1, <1>2, <1>3, <2>2, <2>3, <2>4, <2>5, RoutedStep DEF Refused
<1>5. ASSUME frame' = NoFrame, UNCHANGED <<wf, kernel>> PROVE QInv'
  <2>1. TypeOK' /\ WorkflowCoherent'
    BY <1>1, <1>5 DEF TypeOK, QInv, WorkflowCoherent
  <2>2. word = "refused" => Current'.consent \in Refused
    <3>1. CASE wf # None
      BY <1>1, <1>2, <1>5, <2>1, <3>1, WorkflowType DEF TypeOK, Current
    <3>2. CASE wf = None
      <4>1. NoFrame.source # "order" /\ "deferred" \in Refused
        BY DEF NoFrame, Refused
      <4> QED BY <1>1, <1>2, <1>5, <2>1, <3>2, <4>1, WorkflowType DEF TypeOK, Current
    <3> QED BY <3>1, <3>2
  <2> QED BY <1>1, <1>3, <2>1, <2>2, RoutedStep
<1>6. ASSUME frame' = Quoted, UNCHANGED <<wf, kernel>> PROVE QInv'
  <2>1. TypeOK' /\ WorkflowCoherent' /\ frame'.source = frame.source
    BY <1>1, <1>6, QuotedFrame DEF TypeOK, QInv, WorkflowCoherent
  <2>2. Current' = Current
    BY <1>1, <1>6, <2>1 DEF Current, Workflow
  <2> QED BY <1>1, <1>2, <1>3, <2>1, <2>2, RoutedStep
<1>7. ASSUME Suspend("none") PROVE QInv'
  <2>1. /\ wf' \in Workflows /\ frame' = NoFrame /\ kernel' \in Kernels \cup {NoKernel}
        /\ wf'.lifecycle \in {"quote_offered", "consultation"}
        /\ wf # None => wf'.consent = wf.consent
        /\ wf = None /\ Current.consent \in Refused => wf'.consent \in Refused
    BY <1>1, <1>7, SuspendFacts
  <2>2. TypeOK' /\ WorkflowCoherent'
    BY <1>1, <2>1 DEF TypeOK, WorkflowCoherent
  <2>3. Current' = wf'
    BY <2>1, <2>2, WorkflowType, NoneType DEF TypeOK, Current
  <2>4. word = "refused" => wf'.consent \in Refused
    BY <1>1, <1>2, <2>1, CanonicalIsCurrent
  <2> QED BY <1>1, <1>3, <2>2, <2>3, <2>4, RoutedStep
<1> QED BY <1>4, <1>5, <1>6, <1>7 DEF Select

\* The frame of an order never speaks over a refusal: there is a canonical
\* workflow by then.
LEMMA OrderQuote == ASSUME QInv, Order PROVE QInv'
<1>1. /\ TypeOK /\ pc = "route" /\ pc' \in {"idle", "calling"} /\ text.items = "order"
      /\ UNCHANGED <<wf, kernel, hold, stored, first, text, past, word>> /\ frame' \in Frames
  BY DEF QInv, Order, turn, gate, Frames
<1>2. "idle" \notin Quoting /\ "calling" \notin Quoting
  BY DEF Quoting
<1>3. TypeOK' /\ WorkflowCoherent'
  BY <1>1 DEF TypeOK, QInv, WorkflowCoherent
<1>4. word = "refused" => wf # None /\ Current.consent \in Refused
  BY <1>1 DEF QInv, RefusalKept
<1>5. wf # None => Current' = wf /\ Current = wf
  BY <1>1, <1>3, WorkflowType DEF TypeOK, Current
<1> QED BY <1>1, <1>2, <1>3, <1>4, <1>5, RoutedStep

\* The frame made of the bot's option is a selection's: it says nothing about
\* the consent.
LEMMA RepairQuote == ASSUME QInv, RepairFrame PROVE QInv'
<1>1. /\ TypeOK /\ pc = "route" /\ pc' \in {"idle", "calling"} /\ past.offered /\ text.yes
      /\ UNCHANGED <<wf, kernel, hold, stored, first, text, past, word>> /\ frame' \in Frames
  BY DEF QInv, RepairFrame, turn, gate, Frames
<1>2. "idle" \notin Quoting /\ "calling" \notin Quoting
  BY DEF Quoting
<1>3. TypeOK' /\ WorkflowCoherent'
  BY <1>1 DEF TypeOK, QInv, WorkflowCoherent
<1>4. frame'.source # "order"
  BY DEF RepairFrame
<1>5. word = "refused" =>
        Current'.consent \in Refused /\ (text.items = "order" => wf' # None)
  <2> SUFFICES ASSUME word = "refused"
               PROVE  Current'.consent \in Refused /\ (text.items = "order" => wf' # None)
    OBVIOUS
  <2>1. Current.consent \in Refused /\ (text.items = "order" => wf # None)
    BY <1>1 DEF QInv, RefusalKept
  <2>2. CASE wf # None
    BY <1>1, <1>3, <2>1, <2>2, WorkflowType DEF TypeOK, Current
  <2>3. CASE wf = None
    <3>1. hold /\ "deferred" \in Refused
      BY <1>1, <2>1, <2>3, CanonicalIsCurrent DEF Refused
    <3> QED BY <1>1, <1>3, <1>4, <2>1, <2>3, <3>1, WorkflowType DEF TypeOK, Current
  <2> QED BY <2>2, <2>3
<1> QED BY <1>1, <1>2, <1>3, <1>5, RoutedStep

\* create_quotation begins: its guard excludes a refusal.
LEMMA BeginQuoteStep ==
    ASSUME QInv, pc \in {"calling", "route", "tools"}, NEW by \in Quoting, BeginQuote(by)
    PROVE  QInv'
<1>1. /\ TypeOK /\ pc' = by /\ Current.consent = "granted"
      /\ UNCHANGED <<frame, kernel, hold, stored, first, text, past, word>>
      /\ wf' = [consent |-> "granted", lifecycle |-> "creating"]
  BY DEF QInv, BeginQuote, turn, gate
<1>2. wf' \in Workflows /\ wf'.consent = "granted"
  BY <1>1 DEF Workflows, Consents, Lifecycles
<1>3. TypeOK' /\ WorkflowCoherent'
  BY <1>1, <1>2 DEF TypeOK, WorkflowCoherent
<1>4. word # "refused"
  BY <1>1 DEF QInv, RefusalKept, Refused
<1>5. by \notin {"kernel", "consent"}
  BY DEF Quoting
<1> QED BY <1>1, <1>2, <1>3, <1>4, <1>5, RoutedStep

\* create_quotation ends.
LEMMA EndQuoteStep == ASSUME QInv, EndQuote PROVE QInv'
<1>1. /\ TypeOK /\ pc \in Quoting /\ pc' \in {"idle", "tools"} /\ wf.consent = "granted"
      /\ UNCHANGED <<kernel, hold, stored, first, text, past, word>>
  BY DEF QInv, EndQuote, turn, gate, QuotedByGrant
<1>2. pc \notin {"idle", "kernel", "consent"} /\ "idle" \notin Quoting /\ "tools" \notin Quoting
  BY <1>1 DEF Quoting
<1>3. word # "refused"
  BY <1>1, <1>2, CanonicalIsCurrent DEF QInv, RefusalKept, Refused, Consents
<1>4. wf' \in Workflows \cup {None} /\ WorkflowCoherent'
  BY <1>1 DEF EndQuote, TypeOK, QInv, WorkflowCoherent, Workflows, Consents, Lifecycles
<1>5. frame' \in Frames \cup {NoFrame}
  BY <1>1, QuotedFrame DEF EndQuote, TypeOK
<1>6. TypeOK'
  BY <1>1, <1>4, <1>5 DEF TypeOK
<1> QED BY <1>1, <1>2, <1>3, <1>4, <1>6, RoutedStep

\* The model is asked, or the turn ends.
LEMMA PassQuote == ASSUME QInv, AskModel \/ EndTurn PROVE QInv'
<1>1. /\ TypeOK /\ pc \in {"route", "calling", "tools"} /\ pc' \in {"tools", "idle"}
      /\ UNCHANGED <<wf, frame, kernel, hold, stored, first, text, past, word>>
  BY DEF QInv, AskModel, EndTurn, meta, turn, gate
<1>2. "idle" \notin Quoting /\ "tools" \notin Quoting
  BY DEF Quoting
<1>3. TypeOK' /\ WorkflowCoherent' /\ Current' = Current
  BY <1>1 DEF TypeOK, QInv, WorkflowCoherent, Current
<1>4. word = "refused" => Current.consent \in Refused /\ (text.items = "order" => wf # None)
  BY <1>1 DEF QInv, RefusalKept
<1> QED BY <1>1, <1>2, <1>3, <1>4, RoutedStep

\* The invariant is inductive.
LEMMA NextQuote == QInv /\ [Next]_vars => QInv'
<1> SUFFICES ASSUME QInv, [Next]_vars PROVE QInv'
  OBVIOUS
<1>1. CASE UNCHANGED vars
  BY <1>1 DEF vars, QInv, TypeOK, RefusalKept, QuotedByGrant, WorkflowCoherent, Silent, Misread,
              Asks, Pending, Refuses, Lost, Loaded, Current
<1>2. ASSUME NEW t \in Texts, NEW h \in Histories, Hear(t, h) PROVE QInv'
  BY <1>2, HearQuote
<1>3. CASE RunKernel \/ AnswerEarly
  BY <1>3, KernelQuote, EarlyQuote
<1>4. CASE QuoteByRoute \/ QuoteByTool
  BY <1>4, BeginQuoteStep DEF QuoteByRoute, QuoteByTool, Quoting
<1>5. CASE ReadConsent \/ Offer \/ Select \/ Order \/ RepairFrame
  BY <1>5, ReadQuote, OfferQuote, SelectQuote, OrderQuote, RepairQuote
<1>6. CASE EndQuote \/ AskModel \/ EndTurn
  BY <1>6, EndQuoteStep, PassQuote
<1>7. CASE AskName \/ ResumeRequest \/ DropRequest \/ PassGate
  BY <1>7, AskNameQuote, ResumeQuote, PassGateQuote
<1> QED BY <1>1, <1>2, <1>3, <1>4, <1>5, <1>6, <1>7 DEF Next

LEMMA QuoteInvariant == Spec => []QInv
<1> QED BY InitQuote, NextQuote, PTL DEF Spec

----------------------------------------------------------------------------
\* The types of the metadata and of the turn.
THEOREM TypeCorrect == Spec => []TypeOK
<1>1. QInv => TypeOK
  BY DEF QInv
<1> QED BY <1>1, QuoteInvariant, PTL

\* No quotation is being made while the customer's last word on it is a
\* refusal or a postponement, however the texts and the flows are chosen.
THEOREM RefusalHeld == Spec => []RefusalHolds
<1>1. QInv => RefusalHolds
  <2> SUFFICES ASSUME QInv, pc \in Quoting, word = "refused" PROVE FALSE
    BY DEF RefusalHolds
  <2>1. pc # "kernel" /\ wf.consent = "granted"
    BY DEF Quoting, QInv, QuotedByGrant
  <2> QED BY <2>1, CanonicalIsCurrent DEF QInv, RefusalKept, Refused, Consents
<1> QED BY <1>1, QuoteInvariant, PTL

\* The canonical consent and lifecycle never contradict each other.
THEOREM WorkflowIsCoherent == Spec => []WorkflowCoherent
<1>1. QInv => WorkflowCoherent
  BY DEF QInv
<1> QED BY <1>1, QuoteInvariant, PTL

\* A canonical refusal becomes a grant only by a text the turn reads.
THEOREM GrantIsOfTheText == Spec => GrantIsRead
<1> DEFINE Step == wf.consent \in Refused /\ wf'.consent = "granted"
                     => Misread(text') \/ Asks(text', past', Pending)
<1>1. QInv /\ [Next]_vars => [Step]_vars
  <2> SUFFICES ASSUME QInv, Next, wf.consent \in Refused, wf'.consent = "granted"
               PROVE  Misread(text') \/ Asks(text', past', Pending)
    BY DEF vars
  <2>1. /\ TypeOK /\ wf # None /\ Current = wf /\ wf' # wf /\ wf.consent # "granted"
    BY CanonicalIsCurrent DEF QInv, Refused, Consents
  <2>2. ASSUME NEW t \in Texts, NEW h \in Histories, Hear(t, h)
        PROVE  Misread(text')
    <3>1. t.hold /\ Suspend(HoldConsent(t)) /\ text' = t
      BY <2>1, <2>2 DEF Hear
    <3>2. wf'.consent = HoldConsent(t)
      BY <2>1, <3>1, HoldFacts, SuspendFacts DEF Consents
    <3> QED BY <3>1, <3>2, HoldFacts
  <2>3. CASE RunKernel
    <3> DEFINE d == Decide(Reconcile(Loaded))
    <3>1. /\ Stores(d) /\ wf'.consent = d.after.consent
          /\ UNCHANGED <<text, past>>
      BY <2>1, <2>3 DEF RunKernel, turn, gate
    <3>2. GrantOfThisTurn(d)
      BY <2>1, <3>1 DEF Stores, None
    <3> QED BY <3>1, <3>2 DEF GrantOfThisTurn, Asks
  <2>4. CASE ReadConsent
    BY <2>1, <2>4 DEF ReadConsent, ExplicitConsent, turn, gate
  <2>5. CASE Offer
    <3>1. UNCHANGED <<text, past>> /\ text \in Texts
      BY <2>1, <2>5 DEF Offer, turn, gate, TypeOK
    <3>2. CASE text.hold
      BY <2>5, <3>1, <3>2, HoldFacts DEF Offer
    <3>3. CASE ~text.hold
      BY <2>1, <2>5, <3>1, <3>3 DEF Offer, Asks
    <3> QED BY <3>2, <3>3
  <2>6. ~Select
    BY <2>1, SuspendFacts DEF Select, StoreSelection
  <2>7. ~(QuoteByRoute \/ QuoteByTool)
    BY <2>1 DEF QuoteByRoute, QuoteByTool, BeginQuote
  <2>8. ~EndQuote
    BY <2>1 DEF EndQuote, QInv, QuotedByGrant
  <2>9. ~(Order \/ RepairFrame \/ AskModel \/ EndTurn \/ AnswerEarly)
    BY <2>1 DEF Order, RepairFrame, AskModel, EndTurn, AnswerEarly, meta
  <2>10. ~(AskName \/ ResumeRequest \/ DropRequest \/ PassGate)
    BY <2>1 DEF AskName, ResumeRequest, DropRequest, PassGate, meta
  <2> QED BY <2>2, <2>3, <2>4, <2>5, <2>6, <2>7, <2>8, <2>9, <2>10 DEF Next
<1> QED BY <1>1, QuoteInvariant, PTL DEF Spec, GrantIsRead
=============================================================================
