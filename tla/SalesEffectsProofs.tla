------------------------- MODULE SalesEffectsProofs -------------------------
(* Proofs about SalesEffects, for every number of messages, tool calls,     *)
(* repetitions, faults and other writers of the metadata.  The opportunity: *)
(* session, database and the others' copies may differ in the write state,  *)
(* but only a copy written over an unfinished one bars less than the        *)
(* opportunities opened (DealInv).  The quotation: they may differ in the   *)
(* journal, in the direction a rollback can bear, and where a copy erased   *)
(* an entry it is said so (QuoteInv).                                       *)
EXTENDS SalesEffects, TLAPS

\* The opportunity that may still exist beside the reopened ones: none where
\* the database, or the session that is to ask, knows of no request.
Barred == IF ~db.deal /\ (db.write = "none" \/ (pc # "over" /\ obj.write = "none")) THEN 0 ELSE 1

\* A deal's id is known to session and database alike, a request is made only
\* while there is none, and its write state is the session's.
DealInv ==
    /\ obj.deal = db.deal
    /\ obj.write = "created" \/ db.write = "created" => db.deal
    /\ \A o \in Outsiders : copy[o].write = "created" => db.deal
    /\ pc # "over" => base.write = obj.write
    /\ pc \in {"find_contact", "post_contact", "claim", "post_deal"} => ~obj.deal
    /\ pc = "post_deal" => obj.write = "pending" /\ deals + 1 <= reopened + Barred
    /\ deals <= reopened + Barred
    /\ db.deal => deals >= 1

\* As long as no copy erased a write state, all agree whether there was one.
FirstInv ==
    reopened = 0 /\ ~db.deal =>
        /\ db.write = "none" => \A o \in Outsiders : copy[o].write = "none"
        /\ pc # "over" => (obj.write = "none" <=> db.write = "none")

\* The committed journal is never ahead of the session's, and what the session
\* knows to be committed is, or was erased.
JournalInv ==
    /\ pc # "over" /\ obj.effect = "none" =>
          db.effect = "none" /\ \A o \in Outsiders : copy[o].effect = "none"
    /\ base.effect # "none" => db.effect # "none" \/ forgotten
    /\ pc = "media" => db.effect # "none" \/ forgotten
    /\ "media" \in accepted => db.effect # "none" \/ forgotten

\* A sent file and an active row stand for a file the provider has; a row that
\* is left pending by a timeout belongs to a message whose turn is over.
FileInv ==
    /\ obj.effect = "pdf_sent" \/ db.effect = "pdf_sent" => "media" \in accepted
    /\ \A o \in Outsiders : copy[o].effect = "pdf_sent" => "media" \in accepted
    /\ pc # "over" => (Active(obj.media) \/ Active(db.media) => "media" \in accepted)
    /\ told = "prepared" => "media" \in accepted

\* The handoff is committed with every change.
HandoffInv ==
    /\ obj.handoff = db.handoff
    /\ told = "failed" => db.handoff

\* An order is posted while the journal knows none.
OrderInv ==
    /\ obj.effect = "none" => obj.order = 0
    /\ db.effect = "none" => db.order = 0
    /\ \A o \in Outsiders : copy[o].effect = "none" => copy[o].order = 0
    /\ pc = "post_order" => obj.effect = "none"

QuoteInv == JournalInv /\ FileInv /\ HandoffInv /\ OrderInv

-----------------------------------------------------------------------------
(* Types.                                                                  *)

\* What the assumptions say of the constants.
LEMMA Parameters ==
    /\ MaxRetries \in Nat /\ MaxRetries > 0 /\ MaxReopened \in Nat /\ MaxTurns \in Nat
    /\ MaxCalls \in Nat /\ MaxFaults \in Nat
  BY RetriesAssumption, BoundsAssumption

\* The changes of a conversation that the steps make.
LEMMA Changes ==
    ASSUME NEW o \in Conversations
    PROVE  /\ \A n \in Nat : [o EXCEPT !.contact = n] \in Conversations
           /\ \A w \in {"pending", "unknown"} : [o EXCEPT !.write = w] \in Conversations
           /\ [o EXCEPT !.deal = TRUE, !.write = "created"] \in Conversations
           /\ \A e \in {"sale_order_created", "pdf_sending", "pdf_sent"} :
                 [o EXCEPT !.effect = e] \in Conversations
           /\ \A n \in Nat :
                 [o EXCEPT !.effect = "sale_order_created", !.order = n] \in Conversations
           /\ [o EXCEPT !.handoff = TRUE] \in Conversations
           /\ \A s \in RowStatuses : [o EXCEPT !.caption = s] \in Conversations
           /\ \A s, t \in RowStatuses : [o EXCEPT !.media = s, !.caption = t] \in Conversations
           /\ [o EXCEPT !.effect = "none", !.order = 0, !.media = "absent",
                        !.caption = "absent", !.handoff = FALSE] \in Conversations
           /\ o.media \in RowStatuses /\ o.caption \in RowStatuses
           /\ o.handoff \in BOOLEAN /\ o.order \in Nat
  BY DEF Conversations, RowStatuses

\* The column of a conversation, and a conversation with a column.
LEMMA ColumnType ==
    ASSUME NEW o \in Conversations
    PROVE  /\ Column(o) \in Columns
           /\ Column(o).write = o.write /\ Column(o).effect = o.effect /\ Column(o).order = o.order
           /\ \A k \in Columns :
                 LET p == WithColumn(o, k)
                 IN /\ p \in Conversations
                    /\ p.write = k.write /\ p.effect = k.effect /\ p.order = k.order
                    /\ p.contact = o.contact /\ p.deal = o.deal /\ p.media = o.media
                    /\ p.caption = o.caption /\ p.handoff = o.handoff
  BY DEF Conversations, Columns, Column, WithColumn

\* A commit writes the session's conversation, with its column or, where the
\* session knows of no change, with the one that is there.
LEMMA CommitFields ==
    ASSUME db \in Conversations, base \in Columns, NEW o \in Conversations, Commit(o)
    PROVE  /\ db' \in Conversations /\ base' \in Columns
           /\ db'.deal = o.deal /\ db'.media = o.media /\ db'.handoff = o.handoff
           /\ base'.write = o.write /\ base'.effect = o.effect
           /\ \/ db'.write = o.write /\ db'.effect = o.effect /\ db'.order = o.order
              \/ /\ o.write = base.write /\ o.effect = base.effect
                 /\ db'.write = db.write /\ db'.effect = db.effect /\ db'.order = db.order
<1>1. /\ Column(o) \in Columns /\ Column(db) \in Columns
      /\ Column(o).write = o.write /\ Column(o).effect = o.effect
      /\ Column(db).write = db.write /\ Column(db).effect = db.effect /\ Column(db).order = db.order
  BY ColumnType
<1>2. base' = Column(o)
  BY DEF Commit
<1>3. CASE db' = o
  BY <1>1, <1>2, <1>3
<1>4. CASE Column(o) = base /\ db' = WithColumn(o, Column(db))
  BY <1>1, <1>2, <1>4, ColumnType
<1> QED BY <1>3, <1>4 DEF Commit

\* A conversation that tells nothing.
LEMMA NothingType == Nothing \in Conversations
  BY DEF Nothing, Conversations, RowStatuses

\* The initial state is typed.
LEMMA InitType == Init => TypeOK
<1> SUFFICES ASSUME Init PROVE TypeOK
  OBVIOUS
<1>1. /\ db \in Conversations /\ obj \in Conversations
      /\ base \in Columns /\ copy \in [Outsiders -> Columns] /\ reopened \in 0..MaxReopened
  BY NothingType, ColumnType, Parameters DEF Init
<1>2. faults \in 0..MaxFaults /\ attempt \in 0..MaxRetries
  BY Parameters DEF Init
<1>3. turns \in 0..MaxTurns /\ calls \in 0..MaxCalls
  BY Parameters DEF Init
<1> QED BY <1>1, <1>2, <1>3 DEF Init, TypeOK

\* What a tool may leave in the database: nothing new, or its session's commit.
Saved == NoCommit \/ Commit(obj')

LEMMA SavedType ==
    ASSUME TypeOK, obj' \in Conversations, Saved
    PROVE  db' \in Conversations /\ base' \in Columns
  BY CommitFields DEF Saved, NoCommit, TypeOK

\* The other writers stand still while a tool runs.
LEMMA OutsideType ==
    ASSUME TypeOK, UNCHANGED outsideVars
    PROVE  /\ copy' \in [Outsiders -> Columns] /\ reopened' \in 0..MaxReopened
           /\ forgotten' \in BOOLEAN
  BY DEF TypeOK, outsideVars

\* A fault stays within its bound.
LEMMA FaultType == ASSUME TypeOK, Fault PROVE faults' \in 0..MaxFaults
  BY Parameters DEF TypeOK, Fault

\* The tools of the opportunity keep the types.
LEMMA DealToolType == ASSUME TypeOK, DealTool PROVE TypeOK'
<1>1. UNCHANGED outsideVars /\ UNCHANGED <<orders, accepted, turns>>
  BY DEF DealTool, CallDeal, FindContact, PostContact, ContactFails, Claim, PostDeal, DealFails,
         ReadDeal, DealFrame, Frame, zohoVars
<1>2. obj' \in Conversations /\ Saved
  <2>1. obj \in Conversations /\ contacts \in Nat /\ found \in SUBSET (1..contacts)
    BY DEF TypeOK
  <2>2. CASE FindContact
    <3>1. \A id \in found : id \in Nat
      BY <2>1
    <3>2. obj' = obj \/ \E id \in found : obj' = [obj EXCEPT !.contact = id]
      BY <2>2 DEF FindContact
    <3>3. \A n \in Nat : [obj EXCEPT !.contact = n] \in Conversations
      BY <2>1, Changes
    <3> QED BY <2>1, <2>2, <3>1, <3>2, <3>3 DEF FindContact, Saved
  <2>3. CASE PostContact
    <3>1. contacts' \in Nat /\ obj' = [obj EXCEPT !.contact = contacts'] /\ Saved
      BY <2>1, <2>3 DEF PostContact, Saved
    <3> QED BY <2>1, <3>1, Changes
  <2>4. CASE CallDeal \/ ContactFails \/ ReadDeal
    BY <2>1, <2>4 DEF CallDeal, ContactFails, ReadDeal, Saved
  <2>5. CASE Claim
    BY <2>1, <2>5, Changes DEF Claim, Durable, Saved
  <2>6. CASE PostDeal
    BY <2>1, <2>6, Changes DEF PostDeal, Saved
  <2>7. CASE DealFails
    BY <2>1, <2>7, Changes DEF DealFails, AfterFailure, Saved
  <2> QED BY <2>2, <2>3, <2>4, <2>5, <2>6, <2>7 DEF DealTool
<1>3. contacts' \in Nat /\ found' \in SUBSET (1..contacts') /\ deals' \in Nat
  BY DEF TypeOK, DealTool, CallDeal, FindContact, PostContact, ContactFails, Claim, PostDeal,
         DealFails, ReadDeal, zohoVars
<1>4. faults' \in 0..MaxFaults /\ calls' \in 0..MaxCalls
  BY Parameters, FaultType
  DEF TypeOK, DealTool, CallDeal, FindContact, PostContact, ContactFails, Claim, PostDeal,
      DealFails, ReadDeal, DealFrame, Frame
<1>5. /\ pc' \in {"ready", "find_contact", "post_contact", "claim", "post_deal", "read_deal"}
      /\ told' \in {told, "nothing", "verified", "unverified"}
      /\ reuse' \in BOOLEAN /\ again' = again /\ attempt' = attempt
  BY DEF TypeOK, DealTool, CallDeal, FindContact, PostContact, ContactFails, Claim, PostDeal,
         DealFails, ReadDeal, DealFrame, Return
<1> QED BY <1>1, <1>2, <1>3, <1>4, <1>5, SavedType, OutsideType DEF TypeOK

\* A call that fails closed keeps the types of session and database.
LEMMA FailClosedType ==
    ASSUME NEW o \in Conversations, FailClosed(o)
    PROVE  obj' \in Conversations /\ Saved /\ pc' = "ready" /\ told' = "failed"
  BY Changes DEF FailClosed, Return, Saved

\* So does one that goes on with the rows of a failed attempt.
LEMMA RaiseType ==
    ASSUME TypeOK, pc = "media", NEW o \in Conversations, NEW r \in BOOLEAN, Raise(o, r)
    PROVE  /\ obj' \in Conversations /\ Saved /\ again' \in BOOLEAN
           /\ pc' \in {"ready", "media"} /\ told' \in {told, "failed"}
  BY Changes DEF Raise, Return, TypeOK, Saved

LEMMA PreparedType ==
    ASSUME TypeOK, NEW o \in Conversations, Prepared(o)
    PROVE  /\ obj' \in Conversations /\ Saved /\ again' \in BOOLEAN
           /\ pc' = "ready" /\ told' = "prepared"
  BY Changes DEF Prepared, Return, TypeOK, Saved

\* The rows a send leaves.
LEMMA RowsType ==
    ASSUME TypeOK
    PROVE  /\ obj \in Conversations
           /\ \A s, t \in {"sent", "error", "provider_duplicate"} :
                 [obj EXCEPT !.media = s, !.caption = t] \in Conversations
           /\ \A s \in {"sent", "error", "provider_duplicate"} :
                 [obj EXCEPT !.caption = s] \in Conversations
  BY Changes DEF TypeOK, RowStatuses

\* The tools of the quotation keep the types.
LEMMA QuoteToolType == ASSUME TypeOK, QuoteTool PROVE TypeOK'
<1> USE SavedType, OutsideType DEF QuoteFrame, Frame, Saved
<1>1. CASE CallQuote
  <2>1. calls' \in 0..MaxCalls /\ attempt' \in 0..MaxRetries
    BY <1>1, Parameters DEF CallQuote, TypeOK
  <2> QED BY <1>1, <2>1 DEF CallQuote, zohoVars, Return, TypeOK
<1>2. CASE ReadOrder
  <2>1. faults' \in 0..MaxFaults
    BY <1>2, FaultType DEF ReadOrder, TypeOK
  <2>2. /\ obj' \in Conversations /\ Saved
        /\ pc' \in {"pdf", "ready"} /\ told' \in {told, "failed"}
    BY <1>2, FailClosedType, Changes DEF ReadOrder, TypeOK
  <2> QED BY <1>2, <2>1, <2>2 DEF ReadOrder, TypeOK
<1>3. CASE PostOrder
  <2>1. orders' \in Nat
    BY <1>3 DEF PostOrder, TypeOK
  <2>2. obj' \in Conversations
    <3>1. obj \in Conversations
      BY DEF TypeOK
    <3>2. obj' \in {obj, [obj EXCEPT !.effect = "sale_order_created", !.order = orders']}
      BY <1>3 DEF PostOrder
    <3>3. [obj EXCEPT !.effect = "sale_order_created", !.order = orders'] \in Conversations
      BY <2>1, <3>1, Changes
    <3> QED BY <3>1, <3>2, <3>3
  <2> QED BY <1>3, <2>1, <2>2 DEF PostOrder, TypeOK
<1>4. CASE OrderFails
  <2>1. faults' \in 0..MaxFaults /\ attempt' \in 0..MaxRetries /\ orders' \in Nat
    BY <1>4, FaultType, Parameters DEF OrderFails, AttemptsLeft, TypeOK
  <2>2. /\ obj' \in Conversations /\ Saved
        /\ pc' \in {pc, "ready"} /\ told' \in {told, "failed"}
    BY <1>4, FailClosedType DEF OrderFails, TypeOK
  <2> QED BY <1>4, <2>1, <2>2 DEF OrderFails, TypeOK
<1>5. CASE Journal
  <2>1. obj' \in Conversations /\ Saved
    BY <1>5, Changes DEF Journal, Durable, TypeOK
  <2> QED BY <1>5, <2>1 DEF Journal, TypeOK
<1>6. CASE SkipBoth
  BY <1>6, PreparedType, RowsType DEF SkipBoth, TypeOK
<1>7. CASE SendMedia
  <2>1. faults' \in 0..MaxFaults /\ accepted' \in SUBSET {"media", "caption"}
    BY <1>7, FaultType DEF SendMedia, TypeOK
  <2>2. /\ obj' \in Conversations /\ Saved /\ again' \in BOOLEAN
        /\ pc' = "ready" /\ told' = "prepared"
    BY <1>7, PreparedType, RowsType DEF SendMedia
  <2> QED BY <1>7, <2>1, <2>2 DEF SendMedia, TypeOK
<1>8. CASE MediaRepeated \/ MediaFails
  <2>1. faults' \in 0..MaxFaults /\ accepted' \in SUBSET {"media", "caption"}
    BY <1>8, FaultType DEF MediaRepeated, MediaFails, TypeOK
  <2>2. /\ obj' \in Conversations /\ Saved /\ again' \in BOOLEAN
        /\ pc' \in {"ready", "media"} /\ told' \in {told, "failed"}
    BY <1>8, RaiseType, RowsType DEF MediaRepeated, MediaFails
  <2> QED BY <1>8, <2>1, <2>2 DEF MediaRepeated, MediaFails, TypeOK
<1>9. CASE SendCaption
  <2>1. faults' \in 0..MaxFaults /\ accepted' \in SUBSET {"media", "caption"}
    BY <1>9, FaultType DEF SendCaption, TypeOK
  <2>2. /\ obj' \in Conversations /\ Saved /\ again' \in BOOLEAN
        /\ pc' \in {"ready", "media"} /\ told' \in {told, "prepared", "failed"}
    BY <1>9, PreparedType, RaiseType, RowsType DEF SendCaption
  <2> QED BY <1>9, <2>1, <2>2 DEF SendCaption, TypeOK
<1> QED BY <1>1, <1>2, <1>3, <1>4, <1>5, <1>6, <1>7, <1>8, <1>9 DEF QuoteTool

\* What a request under way may still do keeps the types.
LEMMA InFlightType ==
    ASSUME TypeOK, InFlight
    PROVE  /\ contacts' \in Nat /\ contacts' >= contacts /\ deals' \in Nat /\ orders' \in Nat
           /\ accepted' \in SUBSET {"media", "caption"}
<1>1. /\ contacts' \in {contacts, contacts + 1} /\ deals' \in {deals, deals + 1}
      /\ orders' \in {orders, orders + 1}
  BY DEF InFlight
<1>2. accepted' \in SUBSET {"media", "caption"}
  BY DEF InFlight, TypeOK
<1> QED BY <1>1, <1>2 DEF TypeOK

\* The other writers keep the types.
LEMMA OutsideKeepsTypes == ASSUME TypeOK, Outside PROVE TypeOK'
<1>1. PICK o \in Outsiders : OutsiderLoads(o) \/ OutsiderWrites(o)
  BY DEF Outside
<1>2. db' \in Conversations /\ copy' \in [Outsiders -> Columns]
  <2>1. CASE OutsiderLoads(o)
    BY <2>1, ColumnType DEF OutsiderLoads, NoCommit, TypeOK
  <2>2. CASE OutsiderWrites(o)
    BY <2>2, ColumnType DEF OutsiderWrites, TypeOK
  <2> QED BY <1>1, <2>1, <2>2
<1>3. reopened' \in 0..MaxReopened
  BY <1>1, Parameters, SMT DEF OutsiderLoads, OutsiderWrites, TypeOK
<1>4. forgotten' \in BOOLEAN
  BY <1>1, Zenon DEF OutsiderLoads, OutsiderWrites, TypeOK
<1>5. base' = base /\ obj' = obj
  BY <1>1 DEF OutsiderLoads, OutsiderWrites, NoCommit
<1>6. UNCHANGED <<turnVars, zohoVars, accepted, faults>>
  BY <1>1 DEF OutsiderLoads, OutsiderWrites
<1> QED BY <1>2, <1>3, <1>4, <1>5, <1>6 DEF TypeOK, turnVars, zohoVars

\* Every step keeps the types.
LEMMA StepType == ASSUME TypeOK, [Next]_vars PROVE TypeOK'
<1>1. CASE BeginTurn
  <2>1. db' \in Conversations /\ obj' \in Conversations /\ base' \in Columns
    BY <1>1, Changes, ColumnType DEF BeginTurn, TypeOK
  <2>2. copy' \in [Outsiders -> Columns]
    <3>1. \A k \in Columns : [k EXCEPT !.effect = "none", !.order = 0] \in Columns
      BY DEF Columns
    <3> QED BY <1>1, <3>1 DEF BeginTurn, TypeOK
  <2>3. turns' \in 0..MaxTurns /\ calls' \in 0..MaxCalls
    <3>1. turns < MaxTurns /\ turns' = turns + 1 /\ calls' = 0 /\ turns \in 0..MaxTurns
      BY <1>1 DEF BeginTurn, TypeOK
    <3> QED BY <3>1, Parameters
  <2>4. orders' = 0 /\ accepted' = {} /\ pc' = "ready" /\ told' = "nothing" /\ forgotten' = FALSE
    BY <1>1 DEF BeginTurn
  <2>5. UNCHANGED <<reopened, reuse, again, attempt, contacts, found, deals, faults>>
    BY <1>1 DEF BeginTurn
  <2> QED BY <2>1, <2>2, <2>3, <2>4, <2>5 DEF TypeOK
<1>2. CASE Index
  BY <1>2, OutsideType DEF Index, turnVars, NoCommit, TypeOK
<1>3. CASE EndTurn
  <2>1. obj' \in Conversations /\ Saved /\ UNCHANGED outsideVars
    BY <1>3 DEF EndTurn, Saved, TypeOK
  <2> QED BY <1>3, <2>1, SavedType, OutsideType DEF EndTurn, zohoVars, TypeOK
<1>4. CASE LlmTimeout
  <2>1. obj' \in Conversations /\ Saved /\ UNCHANGED outsideVars
    <3>1. \E s, t \in RowStatuses : obj' = obj \/ obj' = [obj EXCEPT !.media = s, !.caption = t]
      BY <1>4, Changes DEF LlmTimeout, TypeOK, RowStatuses
    <3> QED BY <1>4, <3>1, Changes DEF LlmTimeout, TypeOK, Saved
  <2>2. found' \in SUBSET (1..contacts')
    BY <1>4, InFlightType DEF LlmTimeout, TypeOK
  <2>3. db' \in Conversations /\ base' \in Columns
    BY <2>1, SavedType
  <2> QED BY <1>4, <2>1, <2>2, <2>3, FaultType, InFlightType, OutsideType DEF LlmTimeout, TypeOK
<1>5. CASE Abort
  <2>1. found' \in SUBSET (1..contacts')
    BY <1>5, InFlightType DEF Abort, TypeOK
  <2>2. base' \in Columns /\ UNCHANGED outsideVars
    BY <1>5, ColumnType DEF Abort, TypeOK
  <2> QED BY <1>5, <2>1, <2>2, FaultType, InFlightType, OutsideType DEF Abort, TypeOK
<1>6. CASE UNCHANGED vars
  BY <1>6 DEF vars, turnVars, zohoVars, outsideVars, TypeOK
<1> QED BY <1>1, <1>2, <1>3, <1>4, <1>5, <1>6, DealToolType, QuoteToolType, OutsideKeepsTypes DEF Next

\* Session, database and world keep their types (TypeOK).
THEOREM TypeCorrect == Spec => []TypeOK
  BY InitType, StepType, PTL DEF Spec

-----------------------------------------------------------------------------
(* The opportunity.                                                        *)

\* A conversation is a record whose fields change one by one.
LEMMA OtherFields ==
    ASSUME NEW o \in Conversations
    PROVE  /\ \A n : [o EXCEPT !.contact = n].write = o.write
           /\ \A n : [o EXCEPT !.contact = n].deal = o.deal
           /\ \A e : [o EXCEPT !.effect = e].write = o.write
           /\ \A e : [o EXCEPT !.effect = e].deal = o.deal
           /\ \A e, n : [o EXCEPT !.effect = e, !.order = n].write = o.write
           /\ \A e, n : [o EXCEPT !.effect = e, !.order = n].deal = o.deal
           /\ \A h : [o EXCEPT !.handoff = h].write = o.write
           /\ \A h : [o EXCEPT !.handoff = h].deal = o.deal
           /\ \A s : [o EXCEPT !.caption = s].write = o.write
           /\ \A s : [o EXCEPT !.caption = s].deal = o.deal
           /\ \A s, t : [o EXCEPT !.media = s, !.caption = t].write = o.write
           /\ \A s, t : [o EXCEPT !.media = s, !.caption = t].deal = o.deal
  BY DEF Conversations

\* What decides about the opportunity is the same in two conversations.
SameDeal(o, p) == o.write = p.write /\ o.deal = p.deal

\* The tools of the quotation leave the opportunity alone.
LEMMA QuoteKeepsDeal ==
    ASSUME TypeOK, QuoteTool
    PROVE  /\ SameDeal(obj', obj) /\ Saved
           /\ pc \in {"ready", "read_order", "post_order", "pdf", "media"}
           /\ pc' \in {"ready", "read_order", "post_order", "pdf", "media"}
           /\ deals' = deals /\ UNCHANGED outsideVars
<1> USE DEF SameDeal, Return, Saved
<1>1. obj \in Conversations
  BY DEF TypeOK
<1>2. ASSUME NEW o \in Conversations, SameDeal(o, obj), FailClosed(o)
      PROVE  SameDeal(obj', obj) /\ Saved /\ pc' = "ready"
  BY <1>2, OtherFields DEF FailClosed
<1>3. ASSUME NEW o \in Conversations, SameDeal(o, obj), NEW r \in BOOLEAN, Raise(o, r)
      PROVE  SameDeal(obj', obj) /\ Saved /\ pc' \in {"ready", "media"}
  <2>1. obj' \in {o, [o EXCEPT !.handoff = TRUE]} /\ Commit(obj') /\ pc' \in {"ready", "media"}
    BY <1>3 DEF Raise
  <2>2. \A h : SameDeal([o EXCEPT !.handoff = h], o)
    BY OtherFields
  <2> QED BY <1>3, <2>1, <2>2
<1>4. ASSUME NEW o \in Conversations, SameDeal(o, obj), Prepared(o)
      PROVE  SameDeal(obj', obj) /\ Saved /\ pc' = "ready"
  BY <1>4, OtherFields DEF Prepared
<1>5. /\ \A s, t : SameDeal([obj EXCEPT !.media = s, !.caption = t], obj)
      /\ \A s : SameDeal([obj EXCEPT !.caption = s], obj)
      /\ \A e : SameDeal([obj EXCEPT !.effect = e], obj)
      /\ \A e, n : SameDeal([obj EXCEPT !.effect = e, !.order = n], obj)
  BY <1>1, OtherFields
<1>6. CASE CallQuote
  BY <1>6 DEF CallQuote, zohoVars
<1>7. CASE ReadOrder
  <2>1. \/ FailClosed(obj)
        \/ obj' = [obj EXCEPT !.effect = "sale_order_created"] /\ NoCommit /\ pc' = "pdf"
    BY <1>7 DEF ReadOrder
  <2>2. deals' = deals /\ UNCHANGED outsideVars /\ pc = "read_order"
    BY <1>7 DEF ReadOrder, QuoteFrame, Frame
  <2> QED BY <1>1, <1>2, <1>5, <2>1, <2>2
<1>8. CASE PostOrder
  <2>1. obj' \in {obj, [obj EXCEPT !.effect = "sale_order_created", !.order = orders']}
    BY <1>8 DEF PostOrder
  <2>2. NoCommit /\ pc = "post_order" /\ pc' = "pdf" /\ deals' = deals /\ UNCHANGED outsideVars
    BY <1>8 DEF PostOrder, QuoteFrame, Frame
  <2>3. SameDeal([obj EXCEPT !.effect = "sale_order_created", !.order = orders'], obj)
    BY <1>5
  <2> QED BY <2>1, <2>2, <2>3
<1>9. CASE OrderFails
  BY <1>1, <1>2, <1>9 DEF OrderFails, QuoteFrame, Frame
<1>10. CASE Journal
  <2>1. obj' = [obj EXCEPT !.effect = "pdf_sending"] /\ Commit(obj') /\ pc = "pdf" /\ pc' = "media"
    BY <1>10 DEF Journal, Durable
  <2> QED BY <1>10, <1>5, <2>1 DEF Journal, QuoteFrame, Frame
<1>11. CASE SkipBoth
  BY <1>1, <1>4, <1>11 DEF SkipBoth, QuoteFrame, Frame
<1>12. CASE SendMedia
  BY <1>4, <1>5, <1>12, RowsType DEF SendMedia, QuoteFrame, Frame
<1>13. CASE MediaRepeated \/ MediaFails
  BY <1>3, <1>5, <1>13, RowsType DEF MediaRepeated, MediaFails, QuoteFrame, Frame
<1>14. CASE SendCaption
  BY <1>3, <1>4, <1>5, <1>14, RowsType DEF SendCaption, QuoteFrame, Frame
<1> QED BY <1>6, <1>7, <1>8, <1>9, <1>10, <1>11, <1>12, <1>13, <1>14 DEF QuoteTool

-----------------------------------------------------------------------------
(* The invariant of the opportunity, step by step.                         *)

\* What both parts say, of the fields they speak about.
OpportunityInv == DealInv /\ FirstInv

\* A step that is not about the opportunity: the session keeps its knowledge
\* and saves it or nothing.
KeepsDeal ==
    /\ SameDeal(obj', obj) /\ db'.deal \in {db.deal, obj.deal}
    /\ \/ db'.write = db.write
       \/ db'.write = obj.write
    /\ base'.write \in {base.write, obj.write}
    /\ deals' = deals /\ UNCHANGED outsideVars
    /\ pc # "over" /\ pc # "post_deal" /\ pc' # "post_deal"
    /\ pc' \in {"find_contact", "post_contact", "claim"} => ~obj.deal

LEMMA SavedKeepsDeal ==
    ASSUME TypeOK, obj' \in Conversations, Saved, SameDeal(obj', obj)
    PROVE  /\ db'.deal \in {db.deal, obj.deal}
           /\ db'.write = db.write \/ db'.write = obj.write
           /\ base'.write \in {base.write, obj.write}
<1>1. CASE NoCommit
  BY <1>1 DEF NoCommit
<1>2. CASE Commit(obj')
  BY <1>2, CommitFields DEF SameDeal, TypeOK
<1> QED BY <1>1, <1>2 DEF Saved

LEMMA KeepsDealInv == ASSUME TypeOK, OpportunityInv, KeepsDeal PROVE OpportunityInv'
<1> USE DEF OpportunityInv, DealInv, FirstInv, KeepsDeal, SameDeal, outsideVars, Barred
<1>1. /\ deals \in Nat /\ reopened \in Nat
      /\ obj.deal \in BOOLEAN /\ db.deal \in BOOLEAN
  BY Parameters DEF TypeOK, Conversations
<1>2. FirstInv'
  BY <1>1
<1>3. deals' <= reopened' + Barred'
  BY <1>1, SMTT(30)
<1> QED BY <1>1, <1>2, <1>3

\* The tools of the opportunity that are not about the request itself.
LEMMA LookingKeepsDeal ==
    ASSUME TypeOK, DealInv,
           CallDeal \/ FindContact \/ PostContact \/ ContactFails \/ ReadDeal
           \/ (Claim /\ obj.write \in Unfinished)
    PROVE  KeepsDeal
<1>1. obj \in Conversations /\ contacts \in Nat
  BY DEF TypeOK
<1>2. SameDeal(obj', obj) /\ Saved
  <2>1. Saved /\ (obj' = obj \/ \E id : obj' = [obj EXCEPT !.contact = id])
    BY DEF CallDeal, FindContact, PostContact, ContactFails, ReadDeal, Claim, Saved
  <2>2. \A n : SameDeal([obj EXCEPT !.contact = n], obj)
    BY <1>1, OtherFields DEF SameDeal
  <2> QED BY <2>1, <2>2 DEF SameDeal
<1>3. obj' \in Conversations
  BY DealToolType DEF DealTool, TypeOK
<1>4. deals' = deals /\ UNCHANGED outsideVars /\ pc # "over" /\ pc # "post_deal" /\ pc' # "post_deal"
  BY DEF CallDeal, FindContact, PostContact, ContactFails, ReadDeal, Claim, zohoVars, DealFrame,
         Frame, Return
<1>5. pc' \in {"find_contact", "post_contact", "claim"} => ~obj.deal
  BY DEF CallDeal, FindContact, PostContact, ContactFails, ReadDeal, Claim, Return, DealInv
<1> QED BY <1>2, <1>3, <1>4, <1>5, SavedKeepsDeal DEF KeepsDeal

\* The tools of the quotation.
LEMMA QuotingKeepsDeal == ASSUME TypeOK, QuoteTool PROVE KeepsDeal
<1>1. obj' \in Conversations
  BY QuoteToolType DEF TypeOK
<1> QED BY <1>1, QuoteKeepsDeal, SavedKeepsDeal DEF KeepsDeal

\* The claim finds no write state in the session and commits its announcement.
LEMMA ClaimAnnounces ==
    ASSUME TypeOK, OpportunityInv, Claim, obj.write \notin Unfinished
    PROVE  /\ obj.write = "none" /\ obj'.write = "pending" /\ db'.write = "pending"
           /\ base'.write = "pending" /\ ~obj.deal /\ ~db.deal /\ ~obj'.deal /\ ~db'.deal
           /\ pc = "claim" /\ pc' = "post_deal" /\ deals' = deals /\ UNCHANGED outsideVars
           /\ deals <= reopened /\ obj'.deal = db'.deal
<1>1. obj \in Conversations /\ db \in Conversations /\ base \in Columns
  BY DEF TypeOK
<1>2. pc = "claim" /\ ~obj.deal /\ ~db.deal /\ obj.write = "none" /\ base.write = "none"
  BY <1>1 DEF Claim, OpportunityInv, DealInv, Unfinished, Conversations
<1>3. obj' = [obj EXCEPT !.write = "pending"] /\ Commit(obj') /\ pc' = "post_deal"
  BY DEF Claim, Durable
<1>4. obj' \in Conversations /\ obj'.write = "pending" /\ obj'.deal = obj.deal
  BY <1>1, <1>3 DEF Conversations
<1>5. db'.deal = obj'.deal /\ db'.write = "pending" /\ base'.write = "pending"
  BY <1>1, <1>2, <1>3, <1>4, CommitFields
<1>6. deals' = deals /\ UNCHANGED outsideVars
  BY DEF Claim, zohoVars, DealFrame, Frame
<1>7. deals <= reopened
  BY <1>2, Parameters DEF OpportunityInv, DealInv, Barred, TypeOK
<1> QED BY <1>2, <1>3, <1>4, <1>5, <1>6, <1>7

\* The request's answer, or its loss, is committed.
LEMMA RequestEnds ==
    ASSUME TypeOK, OpportunityInv, PostDeal \/ DealFails
    PROVE  /\ pc = "post_deal" /\ pc' \in {"ready", "read_deal"}
           /\ ~obj.deal /\ ~db.deal /\ obj'.deal = db'.deal /\ obj'.write = db'.write
           /\ base'.write = obj'.write /\ UNCHANGED outsideVars
           /\ \/ obj'.write = "created" /\ obj'.deal /\ deals' = deals + 1
              \/ obj'.write = "unknown" /\ ~obj'.deal /\ deals' \in {deals, deals + 1}
<1>1. obj \in Conversations /\ db \in Conversations /\ base \in Columns
  BY DEF TypeOK
<1>2. pc = "post_deal" /\ ~obj.deal /\ ~db.deal /\ obj.write = "pending" /\ base.write = "pending"
  BY <1>1 DEF PostDeal, DealFails, OpportunityInv, DealInv
<1>3. Commit(obj') /\ pc' \in {"ready", "read_deal"} /\ UNCHANGED outsideVars
  BY DEF PostDeal, DealFails, DealFrame, Frame, Return
<1>4. \/ obj'.write = "created" /\ obj'.deal /\ deals' = deals + 1
      \/ obj'.write = "unknown" /\ ~obj'.deal /\ deals' \in {deals, deals + 1}
  BY <1>1, <1>2 DEF PostDeal, DealFails, AfterFailure, Conversations
<1>5. obj' \in Conversations
  BY DealToolType DEF DealTool, TypeOK
<1>6. db'.deal = obj'.deal /\ db'.write = obj'.write /\ base'.write = obj'.write
  BY <1>1, <1>2, <1>3, <1>4, <1>5, CommitFields
<1> QED BY <1>2, <1>3, <1>4, <1>6

\* The tools of the opportunity keep its invariant.
LEMMA DealToolDeal == ASSUME TypeOK, OpportunityInv, DealTool PROVE OpportunityInv'
<1>1. deals \in Nat /\ reopened \in Nat
  BY Parameters DEF TypeOK
<1>2. CASE Claim /\ obj.write \notin Unfinished
  <2>1. Barred' = 1
    BY <1>2, ClaimAnnounces DEF Barred
  <2>2. /\ deals' = deals /\ deals <= reopened /\ reopened' = reopened /\ copy' = copy
        /\ pc = "claim" /\ pc' = "post_deal"
    BY <1>2, ClaimAnnounces DEF outsideVars
  <2>3. /\ obj'.deal = db'.deal /\ ~obj'.deal /\ ~db'.deal /\ ~db.deal /\ obj'.write = "pending" /\ db'.write = "pending"
        /\ base'.write = "pending"
    BY <1>2, ClaimAnnounces
  <2>4. DealInv'
    BY <1>1, <2>1, <2>2, <2>3 DEF OpportunityInv, DealInv
  <2>5. FirstInv'
    BY <2>2, <2>3 DEF FirstInv
  <2> QED BY <2>4, <2>5 DEF OpportunityInv
<1>3. CASE PostDeal \/ DealFails
  <2>1. deals + 1 <= reopened + Barred /\ Barred \in {0, 1}
    BY <1>3, RequestEnds DEF OpportunityInv, DealInv, Barred
  <2>2. deals' <= reopened' + 1 /\ Barred' = 1
    BY <1>1, <1>3, <2>1, RequestEnds DEF Barred, outsideVars
  <2>3. DealInv'
    BY <1>1, <1>3, <2>2, RequestEnds DEF OpportunityInv, DealInv, outsideVars
  <2>4. FirstInv'
    BY <1>3, RequestEnds DEF OpportunityInv, FirstInv, outsideVars
  <2> QED BY <2>3, <2>4 DEF OpportunityInv
<1>4. CASE ~(Claim /\ obj.write \notin Unfinished) /\ ~(PostDeal \/ DealFails)
  BY <1>4, LookingKeepsDeal, KeepsDealInv DEF DealTool, OpportunityInv
<1> QED BY <1>2, <1>3, <1>4

\* A request under way opens an opportunity only if it is the one to do so.
LEMMA InFlightDeals ==
    ASSUME InFlight PROVE deals' = deals \/ (pc = "post_deal" /\ deals' = deals + 1)
<1>1. CASE deals' = deals
  BY <1>1
<1>2. CASE pc = "post_deal" /\ deals' = deals + 1
  BY <1>2
<1> QED BY <1>1, <1>2 DEF InFlight

\* The end of a turn, by itself, by the timeout or by a rollback, leaves the
\* session with what it knew or with what is committed.
LEMMA TurnEnds ==
    ASSUME TypeOK, OpportunityInv, EndTurn \/ LlmTimeout \/ Abort
    PROVE  /\ pc # "over" /\ pc' = "over" /\ UNCHANGED outsideVars
           /\ obj'.deal = db.deal /\ db'.deal = db.deal
           /\ db'.write = db.write \/ db'.write = obj.write
           /\ obj'.write \in {obj.write, db.write}
           /\ deals' = deals \/ (pc = "post_deal" /\ deals' = deals + 1)
<1>1. obj \in Conversations /\ db \in Conversations /\ base \in Columns /\ obj.deal = db.deal
  BY DEF TypeOK, OpportunityInv, DealInv
<1>2. CASE EndTurn
  BY <1>1, <1>2, CommitFields DEF EndTurn, zohoVars
<1>3. CASE LlmTimeout
  <2>1. SameDeal(obj', obj) /\ obj' \in Conversations /\ Commit(obj')
    <3>1. obj' \in Conversations
      BY <1>3, StepType DEF Next, TypeOK
    <3> QED BY <1>1, <1>3, <3>1, OtherFields DEF LlmTimeout, SameDeal
  <2> QED BY <1>1, <1>3, <2>1, CommitFields, InFlightDeals DEF LlmTimeout, SameDeal
<1>4. CASE Abort
  BY <1>1, <1>4, InFlightDeals DEF Abort
<1> QED BY <1>2, <1>3, <1>4

\* Another writer's copy allows what it erases.
LEMMA OutsideEffect ==
    ASSUME TypeOK, OpportunityInv, Outside
    PROVE  /\ UNCHANGED <<obj, base, pc, deals>> /\ db'.deal = db.deal
           /\ \/ UNCHANGED reopened /\ db'.write = db.write
                 /\ \A o \in Outsiders : copy'[o].write \in {copy[o].write, db.write}
              \/ /\ copy' = copy /\ \E o \in Outsiders : db'.write = copy[o].write
                 /\ IF ~db.deal /\ db.write # "none" /\ db'.write = "none"
                    THEN reopened' = reopened + 1 ELSE reopened' = reopened
<1>1. PICK o \in Outsiders : OutsiderLoads(o) \/ OutsiderWrites(o)
  BY DEF Outside
<1>2. db \in Conversations /\ copy \in [Outsiders -> Columns]
  BY DEF TypeOK
<1>3. CASE OutsiderLoads(o)
  BY <1>2, <1>3, ColumnType DEF OutsiderLoads, NoCommit, turnVars, zohoVars
<1>4. CASE OutsiderWrites(o)
  <2>1. db' = WithColumn(db, copy[o]) /\ copy[o] \in Columns /\ copy' = copy
    BY <1>2, <1>4 DEF OutsiderWrites
  <2>2. db'.write = copy[o].write /\ db'.deal = db.deal
    BY <1>2, <2>1, ColumnType
  <2>3. UNCHANGED <<obj, base, pc, deals>>
    BY <1>4 DEF OutsiderWrites, turnVars, zohoVars
  <2>4. IF ~db.deal /\ db.write # "none" /\ db'.write = "none"
        THEN reopened' = reopened + 1 ELSE reopened' = reopened
    BY <1>4 DEF OutsiderWrites
  <2> QED BY <2>1, <2>2, <2>3, <2>4
<1> QED BY <1>1, <1>3, <1>4

LEMMA OutsideDeal == ASSUME TypeOK, OpportunityInv, Outside PROVE OpportunityInv'
<1>1. /\ deals \in Nat /\ reopened \in Nat /\ db.deal \in BOOLEAN
      /\ \A o \in Outsiders : copy[o].write \in {"none", "pending", "unknown", "created"}
  BY Parameters DEF TypeOK, Conversations, Columns
<1>2. reopened' \in {reopened, reopened + 1} /\ reopened + Barred <= reopened' + Barred'
  BY <1>1, OutsideEffect, SMTT(30) DEF Barred
<1>3. DealInv'
  <2>1. UNCHANGED <<obj, base, pc, deals>> /\ db'.deal = db.deal
    BY OutsideEffect
  <2>2. Barred \in {0, 1} /\ Barred' \in {0, 1}
    BY DEF Barred
  <2>3. deals <= reopened' + Barred' /\ (pc = "post_deal" => deals + 1 <= reopened' + Barred')
    <3>1. deals <= reopened + Barred /\ (pc = "post_deal" => deals + 1 <= reopened + Barred)
      BY DEF OpportunityInv, DealInv
    <3>2. /\ deals \in Int /\ reopened + Barred \in Int /\ reopened' + Barred' \in Int
          /\ reopened + Barred <= reopened' + Barred'
      <4>1. Barred \in Nat /\ Barred' \in Nat
        BY <2>2
      <4>2. reopened \in Nat /\ reopened' \in Nat /\ deals \in Nat
        BY <1>1, <1>2
      <4>3. reopened + Barred \in Int
        BY <4>1, <4>2
      <4>4. reopened' + Barred' \in Int
        BY <4>1, <4>2
      <4> QED BY <1>2, <4>2, <4>3, <4>4
    <3> DEFINE before == reopened + Barred
               after == reopened' + Barred'
    <3>3. /\ deals \in Int /\ before \in Int /\ after \in Int /\ before <= after
          /\ deals <= before /\ (pc = "post_deal" => deals + 1 <= before)
      BY <3>1, <3>2
    <3> HIDE DEF before, after
    <3>4. deals <= after /\ (pc = "post_deal" => deals + 1 <= after)
      BY <3>3
    <3> QED BY <3>4 DEF after
  <2>4. db'.write = "created" => db.deal
    BY OutsideEffect DEF OpportunityInv, DealInv
  <2>5. \A o \in Outsiders : copy'[o].write = "created" => db.deal
    BY OutsideEffect DEF OpportunityInv, DealInv
  <2> QED BY <2>1, <2>3, <2>4, <2>5 DEF OpportunityInv, DealInv
<1>4. FirstInv'
  BY <1>1, OutsideEffect, SMTT(30) DEF OpportunityInv, DealInv, FirstInv
<1> QED BY <1>3, <1>4 DEF OpportunityInv

\* The initial state satisfies the invariant of the opportunity.
LEMMA InitDeal == Init => OpportunityInv
  BY DEF Init, OpportunityInv, DealInv, FirstInv, Barred, Nothing, Column

\* Every step keeps it.
LEMMA StepDeal == ASSUME TypeOK, OpportunityInv, [Next]_vars PROVE OpportunityInv'
<1>1. obj \in Conversations /\ db \in Conversations /\ deals \in Nat /\ reopened \in Nat
  BY Parameters DEF TypeOK
<1>2. CASE BeginTurn
  <2>1. SameDeal(db', db) /\ obj' = db' /\ base'.write = db'.write
    <3>1. db' \in Conversations /\ obj' = db' /\ base' = Column(db')
      BY <1>1, <1>2, Changes DEF BeginTurn
    <3>2. SameDeal(db', db)
      BY <1>1, <1>2 DEF BeginTurn, SameDeal, Conversations
    <3> QED BY <3>1, <3>2, ColumnType
  <2>2. \A o \in Outsiders : copy'[o].write = copy[o].write
    BY <1>2 DEF BeginTurn, TypeOK, Columns
  <2>3. deals' = deals /\ reopened' = reopened /\ pc = "over" /\ pc' = "ready"
    BY <1>2 DEF BeginTurn
  <2>4. Barred' = Barred
    BY <2>1, <2>3 DEF Barred, SameDeal
  <2> QED BY <2>1, <2>2, <2>3, <2>4 DEF SameDeal, OpportunityInv, DealInv, FirstInv
<1>3. CASE Index \/ UNCHANGED vars
  BY <1>3 DEF Index, vars, turnVars, outsideVars, zohoVars, NoCommit, OpportunityInv, DealInv,
              FirstInv, Barred
<1>4. CASE QuoteTool
  BY <1>4, QuotingKeepsDeal, KeepsDealInv
<1>5. CASE EndTurn \/ LlmTimeout \/ Abort
  <2>1. deals' <= reopened + Barred'
    BY <1>1, <1>5, TurnEnds, SMTT(30) DEF OpportunityInv, DealInv, Barred
  <2>2. DealInv'
    BY <1>1, <1>5, <2>1, TurnEnds DEF OpportunityInv, DealInv, outsideVars
  <2>3. FirstInv'
    BY <1>5, TurnEnds DEF OpportunityInv, FirstInv, outsideVars
  <2> QED BY <2>2, <2>3 DEF OpportunityInv
<1> QED BY <1>2, <1>3, <1>4, <1>5, DealToolDeal, OutsideDeal DEF Next

\* The invariant of the opportunity holds in every state.
LEMMA DealHolds == Spec => []OpportunityInv
  BY InitDeal, StepDeal, TypeCorrect, PTL DEF Spec

\* One conversation opens at most one opportunity, and one more for each write
\* of another's older copy over a write state that was pending or unknown
\* (OneDeal): the write state is committed before the request, no failure frees
\* it, and no copy touches the deal's id.
THEOREM OneDealHolds == Spec => []OneDeal
<1>1. TypeOK /\ OpportunityInv => OneDeal
  BY Parameters DEF TypeOK, OpportunityInv, DealInv, Barred, OneDeal
<1> QED BY <1>1, DealHolds, TypeCorrect, PTL

-----------------------------------------------------------------------------
(* The write state implements EffectContract.                              *)

\* No opportunity is announced at first.
LEMMA InitEffect == Init => Opportunity!Init
  BY DEF Init, Nothing, Recorded, Opportunity!Init

\* A step that is not about the opportunity, and the end of a turn that has no
\* request under way, may put the session's record in place.
LEMMA RewriteEffect ==
    ASSUME TypeOK, OpportunityInv, pc # "over", db'.deal = db.deal, deals' = deals,
           db'.write = db.write \/ db'.write = obj.write, UNCHANGED outsideVars,
           pc # "post_deal", pc' # "post_deal"
    PROVE  [Opportunity!Next]_(Opportunity!vars)
<1>1. obj \in Conversations /\ db \in Conversations /\ deals \in Nat /\ reopened \in Nat
  BY Parameters DEF TypeOK
<1>2. obj.write \in {"none", "pending", "unknown", "created"} /\ reopened' = reopened
  BY <1>1 DEF Conversations, outsideVars
<1>3. CASE db.deal \/ db'.write = db.write
  <2>1. Recorded' = Recorded
    BY <1>3 DEF Recorded
  <2> QED BY <1>2, <2>1 DEF Opportunity!vars
<1>4. CASE ~db.deal /\ db'.write = obj.write
  <2>1. Recorded = db.write /\ Recorded' = obj.write /\ db.write # "created" /\ obj.write # "created"
    BY <1>4 DEF Recorded, OpportunityInv, DealInv
  <2>2. reopened > 0 \/ (obj.write = "none" <=> db.write = "none")
    BY <1>1, <1>4 DEF OpportunityInv, FirstInv
  <2> QED BY <1>1, <1>2, <2>1, <2>2 DEF Opportunity!Rewrite, Opportunity!Next
<1> QED BY <1>3, <1>4

\* A request that ends, or is cut off, finishes.
LEMMA FinishEffect ==
    ASSUME pc = "post_deal", pc' # "post_deal", deals \in Nat, reopened' = reopened,
           \/ deals' = deals + 1 /\ Recorded' = "created"
           \/ deals' \in {deals, deals + 1} /\ Recorded' \in {Recorded, "pending", "unknown"}
    PROVE  [Opportunity!Next]_(Opportunity!vars)
  BY DEF Opportunity!Finish, Opportunity!Next

\* Every step.
LEMMA StepEffect ==
    ASSUME TypeOK, OpportunityInv, [Next]_vars PROVE [Opportunity!Next]_(Opportunity!vars)
<1>1. obj \in Conversations /\ db \in Conversations /\ deals \in Nat /\ reopened \in Nat
  BY Parameters DEF TypeOK
<1>2. CASE BeginTurn \/ Index \/ UNCHANGED vars
  <2>1. db'.write = db.write /\ db'.deal = db.deal
    BY <1>1, <1>2 DEF BeginTurn, Index, NoCommit, vars, Conversations
  <2>2. deals' = deals /\ (pc' = "post_deal" <=> pc = "post_deal") /\ reopened' = reopened
    BY <1>2 DEF BeginTurn, Index, vars, turnVars, outsideVars, zohoVars
  <2> QED BY <2>1, <2>2 DEF Recorded, Opportunity!vars
<1>3. CASE Claim /\ obj.write \notin Unfinished
  <2>1. Recorded # "created" /\ (Recorded = "none" \/ reopened > 0)
    BY <1>1, <1>3, ClaimAnnounces DEF Recorded, OpportunityInv, DealInv, FirstInv
  <2>2. Recorded' = "pending" /\ deals <= reopened /\ pc # "post_deal" /\ pc' = "post_deal"
        /\ UNCHANGED <<deals, reopened>>
    BY <1>3, ClaimAnnounces DEF Recorded, outsideVars
  <2> QED BY <2>1, <2>2 DEF Opportunity!Announce, Opportunity!Next
<1>4. CASE PostDeal \/ DealFails
  <2>1. \/ deals' = deals + 1 /\ Recorded' = "created"
        \/ deals' \in {deals, deals + 1} /\ Recorded' = "unknown"
    BY <1>4, RequestEnds DEF Recorded
  <2>2. pc = "post_deal" /\ pc' # "post_deal" /\ reopened' = reopened
    BY <1>4, RequestEnds DEF outsideVars
  <2> QED BY <1>1, <2>1, <2>2, FinishEffect
<1>5. CASE (DealTool /\ ~(Claim /\ obj.write \notin Unfinished) /\ ~(PostDeal \/ DealFails)) \/ QuoteTool
  <2>1. KeepsDeal
    BY <1>5, LookingKeepsDeal, QuotingKeepsDeal DEF DealTool, OpportunityInv
  <2> QED BY <2>1, RewriteEffect DEF KeepsDeal, OpportunityInv, DealInv
<1>6. CASE EndTurn \/ LlmTimeout \/ Abort
  <2>1. CASE pc # "post_deal"
    BY <1>6, <2>1, TurnEnds, RewriteEffect
  <2>2. CASE pc = "post_deal"
    <3>1. Recorded' \in {Recorded, "pending"}
      BY <1>6, <2>2, TurnEnds DEF Recorded, OpportunityInv, DealInv
    <3> QED BY <1>1, <1>6, <2>2, <3>1, TurnEnds, FinishEffect DEF outsideVars
  <2> QED BY <2>1, <2>2
<1>7. CASE Outside
  <2>1. UNCHANGED <<pc, deals>> /\ db'.deal = db.deal
    BY <1>7, OutsideEffect
  <2>2. CASE db.deal \/ db'.write = db.write
    BY <1>7, <2>1, <2>2, OutsideEffect DEF Recorded, Opportunity!vars
  <2>3. CASE ~db.deal /\ db'.write # db.write
    <3>1. PICK o \in Outsiders : db'.write = copy[o].write
      BY <1>7, <2>3, OutsideEffect
    <3>2. /\ Recorded = db.write /\ Recorded' = copy[o].write
          /\ copy[o].write \in {"none", "pending", "unknown"} /\ db.write # "created"
      BY <2>1, <2>3, <3>1 DEF Recorded, OpportunityInv, DealInv, TypeOK, Columns
    <3>3. db.write = "none" => reopened > 0
      BY <1>1, <2>3, <3>1 DEF OpportunityInv, FirstInv
    <3>4. \/ db'.write = "none" /\ reopened' = reopened + 1
          \/ db'.write # "none" /\ reopened' = reopened
      BY <1>7, <2>3, OutsideEffect
    <3> QED BY <2>1, <2>3, <3>1, <3>2, <3>3, <3>4 DEF Opportunity!Rewrite, Opportunity!Next
  <2> QED BY <2>2, <2>3
<1> QED BY <1>2, <1>3, <1>4, <1>5, <1>6, <1>7 DEF Next

\* _create_or_reuse_sales_opportunity keeps the promise of EffectContract
\* (ImplementsEffectContract): announced in a commit of its own, requested once
\* for an announcement, and forgotten only by another writer of the column.
THEOREM EffectContractImplemented == Spec => ImplementsEffectContract
  BY DealHolds, TypeCorrect, InitEffect, StepEffect, PTL
  DEF Spec, ImplementsEffectContract, Opportunity!Spec

\* The contract is enough to build on: the effect happens at most once and once
\* more for each announcement that was erased, the record says "none" only if it
\* never did or one was erased, and "created" only if it did.
LEMMA ContractIsTrustworthy == Opportunity!Spec => []Opportunity!Trustworthy
<1> DEFINE Inv == /\ Opportunity!Trustworthy /\ deals \in Nat /\ reopened \in Nat
                  /\ pc = "post_deal" => /\ deals <= reopened /\ Recorded # "created"
                                         /\ reopened = 0 => Recorded # "none"
<1> USE DEF Opportunity!Trustworthy
<1>1. Opportunity!Init => Inv
  BY DEF Opportunity!Init
<1>2. Inv /\ [Opportunity!Next]_(Opportunity!vars) => Inv'
  <2> SUFFICES ASSUME Inv, [Opportunity!Next]_(Opportunity!vars) PROVE Inv'
    OBVIOUS
  <2>1. CASE Opportunity!Announce
    BY <2>1 DEF Opportunity!Announce
  <2>2. CASE Opportunity!Finish
    BY <2>2 DEF Opportunity!Finish
  <2>3. CASE Opportunity!Rewrite
    BY <2>3 DEF Opportunity!Rewrite
  <2>4. CASE UNCHANGED Opportunity!vars
    BY <2>4 DEF Opportunity!vars
  <2> QED BY <2>1, <2>2, <2>3, <2>4 DEF Opportunity!Next
<1>3. Inv => Opportunity!Trustworthy
  OBVIOUS
<1> QED BY <1>1, <1>2, <1>3, PTL DEF Opportunity!Spec

\* What a retry, another turn or a manager may build on when reading the write
\* state, as long as no other writer erased one.
THEOREM WriteStateIsTrustworthy == Spec => []Opportunity!Trustworthy
  BY EffectContractImplemented, ContractIsTrustworthy, PTL DEF ImplementsEffectContract

-----------------------------------------------------------------------------
(* The quotation.                                                          *)

\* What the tools of the opportunity leave alone, in session and database.
SameQuote(o, p) ==
    /\ o.effect = p.effect /\ o.order = p.order
    /\ o.media = p.media /\ o.caption = p.caption /\ o.handoff = p.handoff

\* The tools of the opportunity commit the session or nothing, and change
\* nothing of the quotation.
LEMMA DealKeepsQuote ==
    ASSUME TypeOK, DealTool
    PROVE  /\ SameQuote(obj', obj) /\ Saved /\ UNCHANGED outsideVars
           /\ pc # "over" /\ pc' \notin {"over", "media", "post_order"}
           /\ told' \in {told, "nothing", "verified", "unverified"}
           /\ accepted' = accepted /\ orders' = orders
<1> USE DEF SameQuote, DealFrame, Frame, Return, Saved
<1>1. obj \in Conversations
  BY DEF TypeOK
<1>2. /\ \A n : SameQuote([obj EXCEPT !.contact = n], obj)
      /\ \A w : SameQuote([obj EXCEPT !.write = w], obj)
      /\ \A d, w : SameQuote([obj EXCEPT !.deal = d, !.write = w], obj)
  BY <1>1 DEF Conversations
<1>3. CASE CallDeal
  BY <1>3 DEF CallDeal, zohoVars
<1>4. CASE FindContact
  <2>1. obj' = obj \/ \E n : obj' = [obj EXCEPT !.contact = n]
    BY <1>4 DEF FindContact
  <2>2. SameQuote(obj', obj)
    BY <1>2, <2>1
  <2> QED BY <1>4, <2>2 DEF FindContact, zohoVars
<1>5. CASE PostContact
  <2>1. SameQuote(obj', obj)
    BY <1>2, <1>5 DEF PostContact
  <2> QED BY <1>5, <2>1 DEF PostContact
<1>6. CASE ContactFails
  BY <1>6 DEF ContactFails
<1>7. CASE Claim
  <2>1. SameQuote(obj', obj)
    <3>1. obj' \in {obj, [obj EXCEPT !.write = "pending"]}
      BY <1>7 DEF Claim
    <3> QED BY <1>1, <3>1 DEF Conversations
  <2> QED BY <1>7, <2>1 DEF Claim, zohoVars, Durable
<1>8. CASE PostDeal
  <2>1. SameQuote(obj', obj)
    <3>1. obj' \in {[obj EXCEPT !.write = "unknown"],
                    [obj EXCEPT !.deal = TRUE, !.write = "created"]}
      BY <1>8 DEF PostDeal
    <3> QED BY <1>1, <3>1 DEF Conversations
  <2> QED BY <1>8, <2>1 DEF PostDeal
<1>9. CASE DealFails
  <2>1. SameQuote(obj', obj)
    BY <1>2, <1>9 DEF DealFails
  <2> QED BY <1>9, <2>1 DEF DealFails
<1>10. CASE ReadDeal
  BY <1>10 DEF ReadDeal, zohoVars
<1> QED BY <1>3, <1>4, <1>5, <1>6, <1>7, <1>8, <1>9, <1>10 DEF DealTool

\* The initial state satisfies the invariant of the quotation.
LEMMA InitQuote == Init => QuoteInv
  BY DEF Init, QuoteInv, JournalInv, FileInv, HandoffInv, OrderInv, Nothing, Column, Active

\* What the database has of the quotation after a tool: the session's journal
\* entry, or the one it had where the session knows of no change.
SavedQuote ==
    /\ obj'.handoff = db'.handoff
    /\ Active(db'.media) => Active(obj'.media) \/ Active(db.media)
    /\ \/ db'.effect = obj'.effect /\ db'.order = obj'.order
       \/ /\ db'.effect = db.effect /\ db'.order = db.order
          /\ base'.effect # "none" => base.effect # "none"
    /\ base'.effect # "none" => base.effect # "none" \/ db'.effect # "none"

LEMMA SavedFields ==
    ASSUME TypeOK, obj' \in Conversations, Saved, NoCommit => obj'.handoff = db.handoff
    PROVE  SavedQuote
<1>1. CASE NoCommit
  BY <1>1 DEF NoCommit, SavedQuote
<1>2. CASE Commit(obj')
  BY <1>2, CommitFields DEF SavedQuote, TypeOK
<1> QED BY <1>1, <1>2 DEF Saved

\* A step within a turn keeps the invariant if it takes no entry from the
\* session's journal, and delivers or finds a PDF only after the journal's commit.
LEMMA TurnStepQuote ==
    ASSUME TypeOK, QuoteInv, SavedQuote, UNCHANGED outsideVars, pc # "over",
           obj'.effect = "none" => obj.effect = "none" /\ obj'.order = obj.order,
           obj'.effect = "pdf_sent" => obj.effect = "pdf_sent" \/ "media" \in accepted',
           pc' = "over" \/ (Active(obj'.media) => Active(obj.media) \/ "media" \in accepted'),
           told' = "prepared" => told = "prepared" \/ "media" \in accepted',
           told' = "failed" => obj'.handoff \/ (told = "failed" /\ obj'.handoff = obj.handoff),
           pc' = "post_order" => obj'.effect = "none",
           pc' = "media" => pc = "media" \/ db'.effect # "none" \/ forgotten,
           "media" \in accepted => "media" \in accepted',
           "media" \in accepted' => "media" \in accepted \/ pc = "media"
    PROVE  QuoteInv'
<1> USE DEF QuoteInv
<1>1. UNCHANGED <<copy, forgotten>>
  BY DEF outsideVars
<1>2. db.effect # "none" \/ forgotten => db'.effect # "none" \/ forgotten
  BY DEF SavedQuote, JournalInv
<1>3. JournalInv'
  BY <1>1, <1>2 DEF SavedQuote, JournalInv
<1>4. FileInv'
  <2>1. obj'.effect = "pdf_sent" \/ db'.effect = "pdf_sent" => "media" \in accepted'
    BY DEF SavedQuote, FileInv
  <2>2. \A o \in Outsiders : copy'[o].effect = "pdf_sent" => "media" \in accepted'
    BY <1>1 DEF FileInv
  <2>3. pc' # "over" => (Active(obj'.media) \/ Active(db'.media) => "media" \in accepted')
    BY DEF SavedQuote, FileInv
  <2>4. told' = "prepared" => "media" \in accepted'
    BY DEF FileInv
  <2> QED BY <2>1, <2>2, <2>3, <2>4 DEF FileInv, Active
<1>5. HandoffInv'
  BY DEF SavedQuote, HandoffInv
<1>6. OrderInv'
  BY <1>1 DEF SavedQuote, OrderInv
<1> QED BY <1>3, <1>4, <1>5, <1>6

\* The tools of the opportunity keep it.
LEMMA DealToolQuote == ASSUME TypeOK, QuoteInv, DealTool PROVE QuoteInv'
<1>1. SavedQuote /\ SameQuote(obj', obj) /\ UNCHANGED outsideVars
  BY DealKeepsQuote, DealToolType, SavedFields DEF TypeOK, QuoteInv, HandoffInv, SameQuote
<1> QED BY <1>1, DealKeepsQuote, TurnStepQuote DEF SameQuote, QuoteInv, OrderInv

\* The conversations the tools of the quotation make, field by field.
LEMMA QuoteChanges ==
    ASSUME NEW o \in Conversations
    PROVE  /\ LET p == [o EXCEPT !.handoff = TRUE]
              IN /\ p.effect = o.effect /\ p.order = o.order /\ p.media = o.media
                 /\ p.handoff = TRUE
           /\ \A e : LET p == [o EXCEPT !.effect = e]
                     IN /\ p.effect = e /\ p.order = o.order /\ p.media = o.media
                        /\ p.handoff = o.handoff
           /\ \A n : LET p == [o EXCEPT !.effect = "sale_order_created", !.order = n]
                     IN /\ p.effect = "sale_order_created" /\ p.media = o.media
                        /\ p.handoff = o.handoff
           /\ \A s : LET p == [o EXCEPT !.caption = s]
                     IN /\ p.effect = o.effect /\ p.order = o.order /\ p.media = o.media
                        /\ p.handoff = o.handoff
           /\ \A s, t : LET p == [o EXCEPT !.media = s, !.caption = t]
                        IN /\ p.effect = o.effect /\ p.order = o.order /\ p.media = s
                           /\ p.handoff = o.handoff
  BY DEF Conversations

\* A call that fails closed hands off, and commits the session if it must.
LEMMA FailClosedQuote ==
    ASSUME TypeOK, QuoteInv, FailClosed(obj), UNCHANGED <<accepted, outsideVars>>, pc # "over"
    PROVE  QuoteInv'
<1>1. obj \in Conversations /\ obj.handoff \in BOOLEAN
  BY Changes DEF TypeOK
<1>2. obj' = [obj EXCEPT !.handoff = TRUE] /\ pc' = "ready" /\ told' = "failed"
  BY DEF FailClosed, Return
<1>3. /\ obj'.effect = obj.effect /\ obj'.order = obj.order /\ obj'.media = obj.media
      /\ obj'.handoff = TRUE
  BY <1>1, <1>2, QuoteChanges
<1>4. NoCommit => obj'.handoff = db.handoff
  <2>1. CASE obj.handoff
    BY <1>1, <1>3, <2>1 DEF QuoteInv, HandoffInv
  <2>2. CASE ~obj.handoff
    <3>1. Commit(obj')
      BY <2>2 DEF FailClosed
    <3>2. obj' \in Conversations
      BY <1>1, FailClosedType
    <3>3. db'.handoff = obj'.handoff
      BY <3>1, <3>2, CommitFields DEF TypeOK
    <3> QED BY <3>3 DEF NoCommit
  <2> QED BY <2>1, <2>2
<1>5. SavedQuote
  BY <1>1, <1>4, FailClosedType, SavedFields
<1> QED BY <1>2, <1>3, <1>5, TurnStepQuote

\* Of a failed send the rows alone change, before the handoff.
KeepsQuote(o) == o.effect = obj.effect /\ o.order = obj.order /\ o.handoff = obj.handoff

\* A failed send commits its rows, and hands off if it is not repeated.
LEMMA RaiseKeepsQuote ==
    ASSUME TypeOK, QuoteInv, pc = "media", NEW o \in Conversations, NEW r \in BOOLEAN,
           Raise(o, r), KeepsQuote(o), UNCHANGED outsideVars,
           Active(o.media) => "media" \in accepted',
           "media" \in accepted => "media" \in accepted'
    PROVE  QuoteInv'
<1>1. \/ obj' = o /\ pc' = "media" /\ told' = told
      \/ obj' = [o EXCEPT !.handoff = TRUE] /\ pc' = "ready" /\ told' = "failed"
  BY DEF Raise, Return
<1>2. /\ obj' \in Conversations /\ obj'.effect = o.effect /\ obj'.order = o.order
      /\ obj'.media = o.media /\ obj'.handoff \in {o.handoff, TRUE}
      /\ told' = "failed" => obj'.handoff = TRUE \/ (told = "failed" /\ obj'.handoff = o.handoff)
  <2>1. obj' \in Conversations
    BY <1>1, Changes
  <2>2. CASE obj' = o /\ told' = told
    BY <1>1, <2>1, <2>2
  <2>3. CASE obj' = [o EXCEPT !.handoff = TRUE]
    BY <2>1, <2>3, QuoteChanges
  <2> QED BY <1>1, <2>2, <2>3
<1>3. SavedQuote
  <2>1. Commit(obj')
    BY DEF Raise
  <2> QED BY <1>2, <2>1, CommitFields DEF SavedQuote, TypeOK
<1> QED BY <1>1, <1>2, <1>3, TurnStepQuote DEF KeepsQuote

\* A PDF that went through is flushed.
LEMMA PreparedQuote ==
    ASSUME TypeOK, QuoteInv, pc = "media", NEW o \in Conversations, Prepared(o),
           o.handoff = obj.handoff, "media" \in accepted', UNCHANGED outsideVars
    PROVE  QuoteInv'
<1>1. /\ NoCommit /\ pc' = "ready" /\ told' = "prepared"
      /\ obj'.effect = "pdf_sent" /\ obj'.handoff = o.handoff /\ obj' \in Conversations
  <2>1. NoCommit /\ pc' = "ready" /\ told' = "prepared" /\ obj' = [o EXCEPT !.effect = "pdf_sent"]
    BY DEF Prepared, Return
  <2>2. obj' \in Conversations
    BY <2>1, Changes
  <2> QED BY <2>1, <2>2, QuoteChanges
<1>2. SavedQuote
  BY <1>1, SavedFields DEF Saved, QuoteInv, HandoffInv
<1> QED BY <1>1, <1>2, TurnStepQuote

\* The tools of the quotation keep its invariant.
LEMMA QuoteToolQuote == ASSUME TypeOK, QuoteInv, QuoteTool PROVE QuoteInv'
<1> USE DEF QuoteFrame, Frame
<1>1. /\ obj \in Conversations /\ db \in Conversations /\ accepted \in SUBSET {"media", "caption"}
      /\ obj' \in Conversations /\ obj.handoff = db.handoff
  BY QuoteToolType DEF TypeOK, QuoteInv, HandoffInv
<1>2. ASSUME NoCommit, obj'.handoff = obj.handoff PROVE SavedQuote
  BY <1>1, <1>2, SavedFields DEF Saved
<1>3. CASE CallQuote
  <2>1. obj' = obj /\ NoCommit /\ UNCHANGED <<accepted, outsideVars>> /\ pc = "ready"
    BY <1>3 DEF CallQuote
  <2>2. \/ pc' = "ready" /\ told' = "prepared" /\ obj.effect = "pdf_sent"
        \/ pc' = "read_order" /\ told' = "nothing"
        \/ pc' = "post_order" /\ told' = "nothing" /\ obj.effect = "none"
    BY <1>1, <1>3 DEF CallQuote, Return, Resumable, Conversations
  <2> QED BY <1>2, <2>1, <2>2, TurnStepQuote DEF QuoteInv, FileInv
<1>4. CASE ReadOrder
  <2>1. UNCHANGED <<accepted, outsideVars>> /\ pc = "read_order"
    BY <1>4 DEF ReadOrder
  <2>2. CASE FailClosed(obj)
    BY <2>1, <2>2, FailClosedQuote
  <2>3. CASE obj' = [obj EXCEPT !.effect = "sale_order_created"] /\ pc' = "pdf"
             /\ NoCommit /\ told' = told
    BY <1>1, <1>2, <2>1, <2>3, QuoteChanges, TurnStepQuote
  <2> QED BY <1>4, <2>2, <2>3 DEF ReadOrder
<1>5. CASE PostOrder
  <2>1. UNCHANGED <<accepted, outsideVars, told>> /\ NoCommit /\ pc = "post_order" /\ pc' = "pdf"
    BY <1>5 DEF PostOrder
  <2>2. CASE obj' = obj
    BY <1>2, <2>1, <2>2, TurnStepQuote
  <2>3. CASE obj' = [obj EXCEPT !.effect = "sale_order_created", !.order = orders']
    BY <1>1, <1>2, <2>1, <2>3, QuoteChanges, TurnStepQuote
  <2> QED BY <1>5, <2>2, <2>3 DEF PostOrder
<1>6. CASE OrderFails
  <2>1. UNCHANGED <<accepted, outsideVars>> /\ pc = "post_order"
    BY <1>6 DEF OrderFails
  <2>2. CASE FailClosed(obj)
    BY <2>1, <2>2, FailClosedQuote
  <2>3. CASE NoCommit /\ UNCHANGED <<obj, pc, told>>
    BY <1>2, <2>1, <2>3, TurnStepQuote DEF QuoteInv, OrderInv
  <2> QED BY <1>6, <2>2, <2>3 DEF OrderFails
<1>7. CASE Journal
  <2>1. /\ obj' = [obj EXCEPT !.effect = "pdf_sending"] /\ Commit(obj') /\ pc = "pdf" /\ pc' = "media"
        /\ UNCHANGED <<told, accepted, outsideVars>>
    BY <1>7 DEF Journal, Durable
  <2>2. obj'.effect = "pdf_sending" /\ obj'.media = obj.media /\ obj'.handoff = obj.handoff
    BY <1>1, <2>1, QuoteChanges
  <2>3. SavedQuote
    BY <1>1, <2>1, CommitFields DEF SavedQuote, TypeOK
  <2>4. db'.effect # "none" \/ forgotten
    BY <1>1, <2>1, <2>2, CommitFields DEF TypeOK, QuoteInv, JournalInv
  <2> QED BY <2>1, <2>2, <2>3, <2>4, TurnStepQuote
<1>8. CASE SkipBoth
  <2>1. "media" \in accepted' /\ pc = "media" /\ UNCHANGED outsideVars /\ Prepared(obj)
    BY <1>8 DEF SkipBoth, QuoteInv, FileInv
  <2> QED BY <1>1, <2>1, PreparedQuote
<1>9. CASE SendMedia
  <2>1. PICK s, t \in {"sent", "error"} : Prepared([obj EXCEPT !.media = s, !.caption = t])
    BY <1>9 DEF SendMedia
  <2> DEFINE o == [obj EXCEPT !.media = s, !.caption = t]
  <2>2. o \in Conversations /\ o.handoff = obj.handoff
    <3>1. o \in Conversations
      BY RowsType
    <3> QED BY <1>1, <3>1 DEF Conversations
  <2>3. "media" \in accepted' /\ pc = "media" /\ UNCHANGED outsideVars /\ Prepared(o)
    BY <1>9, <2>1 DEF SendMedia
  <2> HIDE DEF o
  <2> QED BY <2>2, <2>3, PreparedQuote
<1>10. CASE MediaRepeated
  <2> DEFINE o == [obj EXCEPT !.media = "provider_duplicate", !.caption = "error"]
  <2>1. o \in Conversations /\ KeepsQuote(o)
    BY <1>1, RowsType, QuoteChanges DEF KeepsQuote
  <2>2. Raise(o, TRUE) /\ pc = "media" /\ "media" \in accepted' /\ UNCHANGED outsideVars
    BY <1>10 DEF MediaRepeated
  <2> HIDE DEF o
  <2> QED BY <2>1, <2>2, RaiseKeepsQuote
<1>11. CASE MediaFails
  <2> DEFINE o == [obj EXCEPT !.media = "error", !.caption = "error"]
  <2>1. o \in Conversations /\ KeepsQuote(o) /\ o.media = "error"
    BY <1>1, RowsType, QuoteChanges DEF KeepsQuote
  <2>2. /\ Raise(o, FALSE) /\ pc = "media" /\ ("media" \in accepted => "media" \in accepted')
        /\ UNCHANGED outsideVars
    BY <1>11 DEF MediaFails
  <2> HIDE DEF o
  <2> QED BY <2>1, <2>2, RaiseKeepsQuote DEF Active
<1>12. CASE SendCaption
  <2>1. "media" \in accepted /\ "media" \in accepted' /\ pc = "media" /\ UNCHANGED outsideVars
    BY <1>1, <1>12 DEF SendCaption, QuoteInv, FileInv
  <2>2. CASE \E s \in {"sent", "error"} : Prepared([obj EXCEPT !.caption = s])
    <3>1. PICK s \in {"sent", "error"} : Prepared([obj EXCEPT !.caption = s])
      BY <2>2
    <3> DEFINE o == [obj EXCEPT !.caption = s]
    <3>2. o \in Conversations /\ o.handoff = obj.handoff
      BY <1>1, RowsType, QuoteChanges
    <3>3. Prepared(o)
      BY <3>1
    <3> HIDE DEF o
    <3> QED BY <2>1, <3>2, <3>3, PreparedQuote
  <2>3. CASE \E s \in {"provider_duplicate", "error"}, r \in BOOLEAN :
                Raise([obj EXCEPT !.caption = s], r)
    <3>1. PICK s \in {"provider_duplicate", "error"}, r \in BOOLEAN :
                  Raise([obj EXCEPT !.caption = s], r)
      BY <2>3
    <3> DEFINE o == [obj EXCEPT !.caption = s]
    <3>2. o \in Conversations /\ KeepsQuote(o)
      BY <1>1, RowsType, QuoteChanges DEF KeepsQuote
    <3>3. Raise(o, r)
      BY <3>1
    <3> HIDE DEF o
    <3> QED BY <2>1, <3>2, <3>3, RaiseKeepsQuote
  <2> QED BY <1>12, <2>2, <2>3 DEF SendCaption
<1> QED BY <1>3, <1>4, <1>5, <1>6, <1>7, <1>8, <1>9, <1>10, <1>11, <1>12 DEF QuoteTool

\* What a request under way may do adds to what the provider has.
LEMMA InFlightAccepted ==
    ASSUME InFlight
    PROVE  /\ "media" \in accepted => "media" \in accepted'
           /\ "media" \in accepted' => "media" \in accepted \/ pc = "media"
  BY DEF InFlight

\* Another writer's copy has an entry only if it is this message's, and what it
\* erases is remembered.
LEMMA OutsideQuote == ASSUME TypeOK, QuoteInv, Outside PROVE QuoteInv'
<1>1. PICK o \in Outsiders : OutsiderLoads(o) \/ OutsiderWrites(o)
  BY DEF Outside
<1>2. db \in Conversations /\ copy \in [Outsiders -> Columns]
  BY DEF TypeOK
<1>3. UNCHANGED <<obj, base, pc, told, orders, accepted>>
  BY <1>1 DEF OutsiderLoads, OutsiderWrites, NoCommit, turnVars, zohoVars
<1>4. CASE OutsiderLoads(o)
  <2>1. db' = db /\ forgotten' = forgotten /\ copy' = [copy EXCEPT ![o] = Column(db)]
    BY <1>4 DEF OutsiderLoads, NoCommit
  <2>2. \A p \in Outsiders :
           \/ copy'[p] = copy[p]
           \/ copy'[p].effect = db.effect /\ copy'[p].order = db.order
    BY <1>2, <2>1, ColumnType
  <2> QED BY <1>3, <2>1, <2>2
          DEF QuoteInv, JournalInv, FileInv, HandoffInv, OrderInv, Active
<1>5. CASE OutsiderWrites(o)
  <2>1. db' = WithColumn(db, copy[o]) /\ copy' = copy /\ copy[o] \in Columns
    BY <1>2, <1>5 DEF OutsiderWrites
  <2>2. /\ db'.effect = copy[o].effect /\ db'.order = copy[o].order /\ db'.media = db.media
        /\ db'.handoff = db.handoff
    BY <1>2, <2>1, ColumnType
  <2>3. db.effect # "none" \/ forgotten => db'.effect # "none" \/ forgotten'
    BY <1>5 DEF OutsiderWrites
  <2> QED BY <1>3, <2>1, <2>2, <2>3
          DEF QuoteInv, JournalInv, FileInv, HandoffInv, OrderInv, Active
<1> QED BY <1>1, <1>4, <1>5

\* A turn that ends, by itself or by the timeout, keeps the journal.
LEMMA TurnEndsQuote ==
    ASSUME TypeOK, QuoteInv, EndTurn \/ LlmTimeout PROVE QuoteInv'
<1>1. obj \in Conversations /\ db \in Conversations /\ obj' \in Conversations
  BY StepType DEF Next, TypeOK
<1>2. /\ obj'.effect = obj.effect /\ obj'.order = obj.order /\ obj'.handoff = obj.handoff
      /\ Commit(obj') /\ pc # "over" /\ pc' = "over" /\ told' \in {told, "nothing"}
      /\ UNCHANGED outsideVars
  <2>1. CASE EndTurn
    BY <2>1 DEF EndTurn
  <2>2. CASE LlmTimeout
    BY <1>1, <2>2 DEF LlmTimeout, Conversations
  <2> QED BY <2>1, <2>2
<1>3. SavedQuote
  BY <1>1, <1>2, CommitFields DEF SavedQuote, TypeOK
<1>4. /\ "media" \in accepted => "media" \in accepted'
      /\ "media" \in accepted' => "media" \in accepted \/ pc = "media"
  BY InFlightAccepted DEF EndTurn, LlmTimeout
<1> QED BY <1>2, <1>3, <1>4, TurnStepQuote

\* Every step keeps the invariant of the quotation.
LEMMA StepQuote == ASSUME TypeOK, QuoteInv, [Next]_vars PROVE QuoteInv'
<1> USE DEF QuoteInv, JournalInv, FileInv, HandoffInv, OrderInv
<1>1. obj \in Conversations /\ db \in Conversations /\ copy \in [Outsiders -> Columns]
  BY DEF TypeOK
<1>2. CASE BeginTurn
  <2>1. /\ db'.effect = "none" /\ db'.order = 0 /\ db'.media = "absent"
        /\ db'.handoff = FALSE /\ obj' = db' /\ accepted' = {} /\ pc' = "ready" /\ told' = "nothing"
    BY <1>1, <1>2 DEF BeginTurn, Conversations
  <2>2. base'.effect = "none"
    BY <1>1, <1>2, <2>1, Changes, ColumnType DEF BeginTurn
  <2>3. \A o \in Outsiders : copy'[o].effect = "none" /\ copy'[o].order = 0
    BY <1>1, <1>2 DEF BeginTurn, Columns
  <2> QED BY <2>1, <2>2, <2>3 DEF Active
<1>3. CASE Index
  BY <1>3 DEF Index, turnVars, outsideVars, NoCommit, Active
<1>4. CASE Abort
  <2>1. /\ obj' = db /\ db' = db /\ base'.effect = db.effect /\ pc' = "over" /\ told' = "nothing"
        /\ UNCHANGED outsideVars
    BY <1>1, <1>4, ColumnType DEF Abort
  <2> QED BY <1>4, <2>1, InFlightAccepted DEF Abort, outsideVars
<1>5. CASE UNCHANGED vars
  BY <1>5 DEF vars, turnVars, outsideVars, zohoVars, Active
<1> QED BY <1>2, <1>3, <1>4, <1>5, DealToolQuote, QuoteToolQuote, OutsideQuote, TurnEndsQuote DEF Next

\* The invariant of the quotation holds in every state.
LEMMA QuoteHolds == Spec => []QuoteInv
  BY InitQuote, StepQuote, TypeCorrect, PTL DEF Spec

\* A delivered PDF is in the committed journal (DeliveredIsJournaled), also
\* when the turn that sent it was cancelled or rolled back, unless another
\* writer's older copy erased the entry.
THEOREM DeliveredIsJournaledHolds == Spec => []DeliveredIsJournaled
<1>1. QuoteInv => DeliveredIsJournaled
  BY DEF QuoteInv, JournalInv, DeliveredIsJournaled
<1> QED BY <1>1, QuoteHolds, PTL

\* What the LLM hears of a quotation is true (TruthIsTold).
THEOREM TruthIsToldHolds == Spec => []TruthIsTold
<1>1. QuoteInv => TruthIsTold
  BY DEF QuoteInv, FileInv, HandoffInv, TruthIsTold
<1> QED BY <1>1, QuoteHolds, PTL

\* An order whose number the journal has is never posted again
\* (KnownOrderIsResumed).
THEOREM KnownOrderIsResumedHolds == Spec => KnownOrderIsResumed
<1>1. ASSUME TypeOK, QuoteInv, [Next]_vars
      PROVE  [orders' > orders /\ orders > 0 => obj.order = 0]_vars
  <2>1. orders' = orders \/ orders' = 0 \/ pc = "post_order"
    <3>1. CASE QuoteTool
      BY <3>1 DEF QuoteTool, CallQuote, ReadOrder, PostOrder, OrderFails, Journal, SkipBoth,
                  SendMedia, MediaRepeated, MediaFails, SendCaption, zohoVars
    <3>2. CASE LlmTimeout \/ Abort
      BY <3>2 DEF LlmTimeout, Abort, InFlight
    <3>3. CASE BeginTurn \/ Index \/ EndTurn \/ Outside \/ UNCHANGED vars
      BY <3>3 DEF BeginTurn, Index, EndTurn, Outside, OutsiderLoads, OutsiderWrites, vars, zohoVars
    <3> QED BY <1>1, <3>1, <3>2, <3>3, DealKeepsQuote DEF Next
  <2>2. orders \in Nat
    BY <1>1 DEF TypeOK
  <2> QED BY <1>1, <2>1, <2>2 DEF QuoteInv, OrderInv
<1> QED BY <1>1, QuoteHolds, TypeCorrect, PTL DEF Spec, KnownOrderIsResumed

=============================================================================
