--------------------------- MODULE HandoffProofs ---------------------------
(* Proofs about Handoff, for every number of conversations, texts handled  *)
(* at the same time, presses, escalation rows and faults: replies that are *)
(* said to be sent were accepted, rows that a reply resolves have one that *)
(* is not older, the answer to a prompt is not ignored, and the bot says   *)
(* once at most what the status has ruled out.                             *)
EXTENDS Handoff, TLAPS

\* A handler with the slot has a text and a conversation.
Serving == {"holds", "send", "post", "load", "rows", "commit"}
HandlerInv ==
    /\ \A h \in Handlers : pc[h] # "idle" => text[h] # 0
    /\ \A h \in Handlers : pc[h] \in Serving => conv[h] # None

\* An open row belongs to a conversation.
OwnerInv == \A r \in Rows : state[r] \in Open => owner[r] # None

\* What is recorded as sent has been accepted.
Sent == {"load", "rows", "commit"}
DeliveryInv ==
    /\ \A i \in Convs \X Texts : Suppresses(audit[i]) => i \in accepted
    /\ \A h \in Handlers : pc[h] \in Sent => Id(h) \in accepted
    /\ SentIsDelivered

\* A handler that has written its audit row is alone with its reply, which is
\* not in the history yet.
WriterInv ==
    \A h \in Handlers : Wrote(h) =>
        /\ Id(h) \notin saved /\ ~Suppresses(audit[Id(h)])
        /\ \A g \in Handlers : pc[g] \in Sent /\ Id(g) = Id(h) => g = h

\* The rows a handler is about to resolve are of its conversation, and stay so;
\* the replies counted when a row was opened are in the history.
AnsweredInv ==
    /\ \A h \in Handlers : pc[h] = "commit" =>
          \A r \in seen[h].rows : owner[r] = conv[h] /\ state[r] # "none"
    /\ \A p \in answered : state[p[1]] # "none"
    /\ \A r \in Rows : \A t \in before[r] : <<owner[r], t>> \in saved
    /\ ResolvedIsAnswered

\* Until it is answered, a prompt is good while its mark is there, and nobody is
\* at the keys.  Then only its answer is, and when the mark is gone a handler of
\* the answer has the keys, or died with them.
PromiseInv ==
    /\ owed # 0 => promise > 0
    /\ promise > 0 /\ owed = 0 => promise =< mark /\ \A h \in Handlers : ~AtKeys(h)
    /\ owed # 0 => \A h \in Handlers : AtKeys(h) => text[h] = owed
    /\ owed # 0 => \/ promise =< mark \/ owed \in cut
                   \/ \E h \in Handlers : HasKeys(h) /\ text[h] = owed
    /\ LateReplyIsNotSwallowed

\* A turn that can say what the status rules out begins with nothing of it said.
LateInv == OneLateReply /\ \A c \in Convs : turn[c] \in {"llm", "ack"} => late[c] = 0

-----------------------------------------------------------------------------
(* Types.                                                                  *)

Places == {"idle", "holds", "asks", "warns", "tells", "send", "post", "load", "rows", "commit"}
Readings == [audit : Audits, resolved : BOOLEAN, rows : SUBSET Rows]
DeskType ==
    /\ slot \in Convs \cup {None} /\ mark \in 0..Week
    /\ press \in Convs \cup {None} /\ promise \in 0..Week /\ owed \in 0..MaxTexts
    /\ presses \in 0..MaxPresses
HandlerType ==
    /\ pc \in [Handlers -> Places]
    /\ text \in [Handlers -> 0..typed] /\ typed \in 0..MaxTexts
    /\ conv \in [Handlers -> Convs \cup {None}] /\ seen \in [Handlers -> Readings]
    /\ HandlerInv
SendType ==
    /\ audit \in [Convs \X Texts -> Audits]
    /\ accepted \in SUBSET (Convs \X Texts) /\ saved \in SUBSET (Convs \X Texts)
    /\ swallowed \in SUBSET Texts /\ cut \in SUBSET Texts
RowType ==
    /\ status \in [Convs -> Statuses] /\ archived \in SUBSET Convs
    /\ owner \in [Rows -> Convs \cup {None}] /\ state \in [Rows -> Open \cup {"none", "resolved"}]
    /\ before \in [Rows -> SUBSET Texts] /\ answered \in SUBSET (Rows \X Texts \X Audits)
    /\ OwnerInv
BotType ==
    /\ turn \in [Convs -> Turns] /\ late \in [Convs -> Nat]
ToolType ==
    /\ reset \in [Convs -> SUBSET (BOOLEAN \X SUBSET Rows)]
    /\ manifest \in SUBSET (Rows \X Statuses \X BOOLEAN)
    /\ admin \in 0..MaxAdmin /\ faults \in 0..MaxFaults
TypeInv == DeskType /\ HandlerType /\ SendType /\ RowType /\ BotType /\ ToolType

\* The groups are the type invariant.
LEMMA Groups == TypeInv <=> TypeOK /\ HandlerInv /\ OwnerInv
  BY DEF TypeInv, TypeOK, DeskType, HandlerType, SendType, RowType, BotType, ToolType, Places, Readings

\* The bounds are natural numbers.
LEMMA Bounds ==
    /\ MaxTexts \in Nat /\ MaxPresses \in Nat /\ MaxRows \in Nat
    /\ MaxAdmin \in Nat /\ MaxFaults \in Nat
  BY BoundsAssumption

\* The initial state is typed.
LEMMA InitType == Init => TypeInv
<1> SUFFICES ASSUME Init PROVE TypeInv
  OBVIOUS
<1>1. DeskType
  BY Bounds DEF Init, DeskType, Week
<1>2. HandlerType
  <2>1. Nothing \in Readings
    BY DEF Nothing, Readings, Audits
  <2> QED BY <2>1, Bounds DEF Init, HandlerType, HandlerInv, Places, Serving
<1>3. SendType
  BY DEF Init, SendType, Audits
<1>4. RowType
  BY DEF Init, RowType, Statuses, OwnerInv, Open
<1>5. BotType
  BY DEF Init, BotType, Turns
<1>6. ToolType
  BY Bounds DEF Init, ToolType
<1> QED BY <1>1, <1>2, <1>3, <1>4, <1>5, <1>6 DEF TypeInv

\* What leaves a group alone keeps its types.
LEMMA Unchanged ==
    /\ DeskType /\ UNCHANGED desk => DeskType'
    /\ HandlerType /\ UNCHANGED handlers => HandlerType'
    /\ SendType /\ UNCHANGED <<sends, fates>> => SendType'
    /\ RowType /\ UNCHANGED escalations => RowType'
    /\ BotType /\ UNCHANGED bot => BotType'
    /\ ToolType /\ UNCHANGED <<tools, faults>> => ToolType'
  BY DEF desk, redis, handlers, sends, fates, escalations, bot, tools, DeskType, HandlerType, HandlerInv,
         SendType, RowType, OwnerInv, BotType, ToolType

\* A fault keeps the types of the tools.
LEMMA FaultType == ASSUME ToolType, Fault, UNCHANGED tools PROVE ToolType'
  BY Bounds DEF ToolType, Fault, tools

\* The statuses and rows that bot, handlers and tools write.
LEMMA WriteTypes ==
    ASSUME RowType
    PROVE  /\ \A c \in Convs, b \in BOOLEAN : Resolve(c, b) => status' \in [Convs -> Statuses]
           /\ \A S : CloseRows(S) /\ owner' = owner =>
                 OwnerInv' /\ state' \in [Rows -> Open \cup {"none", "resolved"}]
           /\ \A c \in Convs, s \in Open :
                 OpenRow(c, s) => /\ OwnerInv' /\ state' \in [Rows -> Open \cup {"none", "resolved"}]
                                  /\ owner' \in [Rows -> Convs \cup {None}]
                                  /\ before' \in [Rows -> SUBSET Texts]
<1>1. ASSUME NEW c \in Convs, NEW b \in BOOLEAN, Resolve(c, b)
      PROVE  status' \in [Convs -> Statuses]
  BY <1>1 DEF RowType, Resolve, Statuses
<1>2. ASSUME NEW S, CloseRows(S), owner' = owner
      PROVE  OwnerInv' /\ state' \in [Rows -> Open \cup {"none", "resolved"}]
  BY <1>2 DEF RowType, CloseRows, OwnerInv, Open
<1>3. ASSUME NEW c \in Convs, NEW s \in Open, OpenRow(c, s)
      PROVE  /\ OwnerInv' /\ state' \in [Rows -> Open \cup {"none", "resolved"}]
             /\ owner' \in [Rows -> Convs \cup {None}] /\ before' \in [Rows -> SUBSET Texts]
  <2>1. PICK r \in Rows :
          /\ owner' = [owner EXCEPT ![r] = c] /\ state' = [state EXCEPT ![r] = s]
          /\ before' = [before EXCEPT ![r] = {t \in Texts : <<c, t>> \in saved}]
    BY <1>3 DEF OpenRow
  <2>2. before' \in [Rows -> SUBSET Texts]
    BY <2>1 DEF RowType
  <2>3. OwnerInv'
    BY <2>1, NoneAssumption DEF RowType, OwnerInv
  <2> QED BY <2>1, <2>2, <2>3 DEF RowType
<1> QED BY <1>1, <1>2, <1>3

\* The beginning of a turn and its message keep the types.
LEMMA BeginType ==
    ASSUME TypeInv, NEW c \in Convs, NEW place \in Turns, Begin(c, place),
           late' \in [Convs -> Nat]
    PROVE  TypeInv'
<1>1. BotType'
  BY DEF Begin, TypeInv, BotType
<1> QED BY <1>1, Unchanged DEF TypeInv, Begin

LEMMA SaysType ==
    ASSUME TypeInv, NEW c \in Convs, NEW kind, NEW ruledOut, Says(c, kind, ruledOut)
    PROVE  TypeInv'
<1>1. BotType'
  BY DEF Says, TypeInv, BotType, Turns
<1> QED BY <1>1, Unchanged DEF TypeInv, Says

\* Turns, takeovers and fallbacks keep the types.
LEMMA BotStepType == ASSUME TypeInv, NEW c \in Convs, Bot(c) PROVE TypeInv'
<1> USE DEF TypeInv
<1>1. CASE BeginTurn(c) \/ BeginAcknowledgement(c) \/ BeginVoice(c) \/ BeginTakeover(c)
  <2>1. \E place \in Turns : Begin(c, place)
    BY <1>1 DEF BeginTurn, BeginAcknowledgement, BeginVoice, BeginTakeover, Turns
  <2>2. late' \in [Convs -> Nat]
    BY <1>1 DEF BeginTurn, BeginAcknowledgement, BeginVoice, BeginTakeover, BotType
  <2> QED BY <2>1, <2>2, BeginType
<1>2. CASE TakeOver(c)
  <2>1. BotType'
    BY <1>2 DEF TakeOver, BotType, Turns
  <2>2. RowType'
    BY <1>2 DEF TakeOver, RowType, OwnerInv, Statuses, Paused
  <2> QED BY <1>2, <2>1, <2>2, Unchanged DEF TakeOver
<1>3. CASE Escalate(c)
  <2>1. BotType'
    BY <1>3 DEF Escalate, BotType, Turns
  <2>2. RowType'
    <3>1. "pending" \in Open
      BY DEF Open
    <3>2. status' \in [Convs -> Statuses]
      BY <1>3 DEF Escalate, RowType, Statuses, Paused
    <3> QED BY <1>3, <3>1, <3>2, WriteTypes DEF Escalate, RowType
  <2> QED BY <1>3, <2>1, <2>2, Unchanged DEF Escalate
<1>4. CASE BotReplies(c) \/ Acknowledge(c) \/ VoiceFallback(c)
  BY <1>4, SaysType DEF BotReplies, Acknowledge, VoiceFallback
<1> QED BY <1>1, <1>2, <1>3, <1>4 DEF Bot

\* The buttons, the prompt and the clock keep them.
LEMMA DeskStepType ==
    ASSUME TypeInv, (\E c \in Convs : Press(c)) \/ Prompt \/ Tick PROVE TypeInv'
<1> USE DEF TypeInv
<1>1. ASSUME NEW c \in Convs, Press(c) PROVE TypeInv'
  <2>1. DeskType'
    BY <1>1, Bounds DEF Press, DeskType
  <2> QED BY <1>1, <2>1, Unchanged DEF Press
<1>2. CASE Prompt
  <2>1. DeskType'
    BY <1>2, Bounds DEF Prompt, DeskType, MarkLife, Week
  <2> QED BY <1>2, <2>1, Unchanged DEF Prompt
<1>3. CASE Tick
  <2>1. DeskType'
    BY <1>3, Bounds DEF Tick, DeskType, Week
  <2> QED BY <1>3, <2>1, Unchanged DEF Tick
<1> QED BY <1>1, <1>2, <1>3

\* The end of a handler, and its move to another place, keep its types.
LEMMA LeaveType ==
    ASSUME HandlerType, NEW h \in Handlers, Leave(h) PROVE HandlerType'
<1>1. Nothing \in Readings
  BY DEF Nothing, Readings, Audits
<1>2. /\ pc' \in [Handlers -> Places] /\ text' \in [Handlers -> 0..typed']
      /\ conv' \in [Handlers -> Convs \cup {None}] /\ seen' \in [Handlers -> Readings]
      /\ typed' = typed
  BY <1>1 DEF Leave, Goto, HandlerType, Places
<1>3. HandlerInv'
  BY DEF Leave, Goto, HandlerType, HandlerInv, Serving
<1> QED BY <1>2, <1>3 DEF HandlerType

LEMMA TellsType ==
    ASSUME HandlerType, NEW h \in Handlers, Tells(h)
    PROVE  HandlerType' /\ owed' \in {owed, 0} /\ promise' \in {promise, 0}
  BY LeaveType DEF Tells

LEMMA GotoType ==
    ASSUME HandlerType, NEW h \in Handlers, NEW place \in Places, Goto(h, place), Stay,
           seen' \in [Handlers -> Readings],
           pc[h] \in Serving \/ (pc[h] # "idle" /\ place \notin Serving)
    PROVE  HandlerType'
<1>1. pc' \in [Handlers -> Places]
  BY DEF Goto, HandlerType
<1>2. HandlerInv'
  BY DEF Goto, Stay, HandlerType, HandlerInv, Serving
<1> QED BY <1>1, <1>2 DEF HandlerType, Stay

\* A text that arrives keeps the types.
LEMMA ArriveType ==
    ASSUME TypeInv, NEW h \in Handlers, NEW t \in 1..MaxTexts, Arrive(h, t),
           typed' \in 0..MaxTexts, typed' >= typed, t =< typed'
    PROVE  DeskType' /\ HandlerType'
<1> USE DEF TypeInv
<1>1. DeskType'
  BY Bounds DEF Arrive, DeskType, redis, Week
<1>2. pc' \in [Handlers -> Places] /\ conv' \in [Handlers -> Convs \cup {None}]
  BY DEF Arrive, HandlerType, DeskType, Places
<1>3. text' \in [Handlers -> 0..typed']
  <2>1. text \in [Handlers -> 0..typed'] /\ t \in 0..typed'
    BY Bounds DEF HandlerType
  <2> QED BY <2>1 DEF Arrive
<1>4. HandlerInv'
  <2>1. \A g \in Handlers : pc'[g] # "idle" => text'[g] # 0
    BY DEF Arrive, HandlerType, HandlerInv
  <2>2. \A g \in Handlers : pc'[g] \in Serving => conv'[g] # None
    BY DEF Arrive, HandlerType, HandlerInv, Serving
  <2> QED BY <2>1, <2>2 DEF HandlerInv
<1>5. seen' = seen
  BY DEF Arrive
<1> QED BY <1>1, <1>2, <1>3, <1>4, <1>5 DEF HandlerType

\* A handler at work has a text; one with the slot sends for a conversation.
LEMMA IdType ==
    ASSUME TypeInv, NEW h \in Handlers
    PROVE  /\ pc[h] # "idle" => text[h] \in Texts
           /\ pc[h] \in Serving => Id(h) \in Convs \X Texts /\ conv[h] \in Convs
<1>1. pc[h] # "idle" => text[h] \in Texts
  BY Bounds DEF TypeInv, HandlerType, HandlerInv, Texts
<1>2. pc[h] \in Serving => conv[h] \in Convs /\ pc[h] # "idle"
  BY DEF TypeInv, HandlerType, HandlerInv, Serving
<1> QED BY <1>1, <1>2 DEF Id

\* Every step of a handler keeps the types.
LEMMA HandleType == ASSUME TypeInv, NEW h \in Handlers, Handle(h) PROVE TypeInv'
<1> USE DEF TypeInv
<1>0. seen \in [Handlers -> Readings]
  BY DEF HandlerType
<1>1. CASE Type(h)
  <2>1. typed \in Nat /\ typed < MaxTexts /\ typed' = typed + 1 /\ Arrive(h, typed + 1)
    BY <1>1, Bounds DEF Type, HandlerType
  <2>2. DeskType' /\ HandlerType'
    BY <2>1, ArriveType, Bounds
  <2> QED BY <1>1, <2>1, <2>2, Unchanged DEF Type, Arrive
<1>2. CASE Redeliver(h)
  <2>1. PICK t \in 1..typed : Arrive(h, t)
    BY <1>2 DEF Redeliver
  <2>2. DeskType' /\ HandlerType'
    BY <1>2, <2>1, ArriveType, Bounds DEF Redeliver, HandlerType
  <2>3. ToolType'
    BY <1>2, <2>1, FaultType DEF Redeliver, Arrive
  <2> QED BY <2>1, <2>2, <2>3, Unchanged DEF Arrive
<1>3. CASE Ask(h)
  <2>1. HandlerType'
    BY <1>0, <1>3, LeaveType, GotoType DEF Ask, Places, Serving
  <2>2. SendType'
    <3>1. text[h] \in Texts
      BY <1>3, IdType DEF Ask
    <3>2. swallowed' \in SUBSET Texts
      BY <1>3, <3>1 DEF Ask, SendType
    <3> QED BY <1>3, <3>2 DEF Ask, SendType, sends
  <2> QED BY <1>3, <2>1, <2>2, Unchanged DEF Ask
<1>4. CASE Unmark(h)
  <2>1. DeskType'
    BY <1>4 DEF Unmark, DeskType, Week
  <2>2. HandlerType'
    BY <1>0, <1>4, GotoType DEF Unmark, Places, Serving
  <2> QED BY <1>4, <2>1, <2>2, Unchanged DEF Unmark
<1>5. CASE Warn(h)
  <2>1. DeskType' /\ HandlerType'
    BY <1>5, TellsType, Bounds DEF Warn, DeskType, Week, redis
  <2> QED BY <1>5, <2>1, Unchanged DEF Warn
<1>6. CASE Adapt(h)
  <2>1. HandlerType' /\ owed' \in {owed, 0} /\ promise' \in {promise, 0}
    BY <1>0, <1>6, TellsType, GotoType DEF Adapt, Places, Serving
  <2>2. DeskType'
    BY <1>6, <2>1, Bounds DEF Adapt, DeskType, Week
  <2>3. ToolType'
    BY <1>6, FaultType, Unchanged DEF Adapt
  <2> QED BY <1>6, <2>1, <2>2, <2>3, Unchanged DEF Adapt
<1>7. CASE Look(h)
  <2>1. Id(h) \in Convs \X Texts
    BY <1>7, IdType DEF Look, Serving
  <2>2. seen' \in [Handlers -> Readings]
    BY <1>0, <1>7, <2>1 DEF Look, SendType, Readings
  <2>3. HandlerType'
    BY <1>7, <2>2, GotoType DEF Look, Places, Serving
  <2> QED BY <1>7, <2>3, Unchanged DEF Look
<1>8. CASE Post(h)
  <2>1. Id(h) \in Convs \X Texts
    BY <1>8, IdType DEF Post, Serving
  <2>2. HandlerType' /\ owed' \in {owed, 0} /\ promise' \in {promise, 0}
    BY <1>0, <1>8, TellsType, GotoType DEF Post, Places, Serving
  <2>3. SendType'
    <3>1. accepted' \in SUBSET (Convs \X Texts)
      BY <1>8, <2>1 DEF Post, SendType
    <3>2. audit' \in [Convs \X Texts -> Audits]
      BY <1>8 DEF Post, SendType, Audits
    <3> QED BY <1>8, <3>1, <3>2 DEF Post, SendType, fates
  <2>4. DeskType'
    BY <1>8, <2>2, Bounds DEF Post, DeskType, redis, Week
  <2>5. ToolType'
    BY <1>8, FaultType, Unchanged DEF Post
  <2> QED BY <1>8, <2>2, <2>3, <2>4, <2>5, Unchanged DEF Post
<1>9. CASE LoadConversation(h)
  <2>1. seen' \in [Handlers -> Readings]
    BY <1>0, <1>9 DEF LoadConversation, Readings
  <2>2. HandlerType'
    BY <1>9, <2>1, GotoType DEF LoadConversation, Places, Serving
  <2> QED BY <1>9, <2>2, Unchanged DEF LoadConversation
<1>10. CASE LoadRows(h)
  <2>1. seen' \in [Handlers -> Readings]
    BY <1>0, <1>10 DEF LoadRows, Readings, RowsOf
  <2>2. HandlerType'
    BY <1>10, <2>1, GotoType DEF LoadRows, Places, Serving
  <2> QED BY <1>10, <2>2, Unchanged DEF LoadRows
<1>11. CASE Commit(h)
  <2>1. Id(h) \in Convs \X Texts /\ conv[h] \in Convs /\ text[h] \in Texts
    BY <1>11, IdType DEF Commit, Serving
  <2>2. seen[h].audit \in Audits /\ seen[h].resolved \in BOOLEAN /\ seen[h].rows \in SUBSET Rows
    BY <1>0 DEF Readings
  <2>3. HandlerType' /\ owed' \in {owed, 0} /\ promise' \in {promise, 0}
    BY <1>11, TellsType DEF Commit
  <2>4. DeskType'
    BY <1>11, <2>3, Bounds DEF Commit, DeskType, redis, Week
  <2>5. SendType'
    <3>1. audit' \in [Convs \X Texts -> Audits] /\ saved' \in SUBSET (Convs \X Texts)
      BY <1>11, <2>1 DEF Commit, SendType, Audits
    <3> QED BY <1>11, <3>1 DEF Commit, SendType, fates
  <2>6. RowType'
    <3>1. status' \in [Convs -> Statuses]
      BY <1>11, <2>1, <2>2, WriteTypes DEF Commit, RowType
    <3>2. OwnerInv' /\ state' \in [Rows -> Open \cup {"none", "resolved"}]
      BY <1>11, WriteTypes DEF Commit, RowType, OwnerInv
    <3>3. answered' \in SUBSET (Rows \X Texts \X Audits)
      BY <1>11, <2>1, <2>2 DEF Commit, RowType
    <3> QED BY <1>11, <3>1, <3>2, <3>3 DEF Commit, RowType
  <2> QED BY <1>11, <2>3, <2>4, <2>5, <2>6, Unchanged DEF Commit
<1>12. CASE Die(h)
  <2>1. ToolType'
    BY <1>12, FaultType DEF Die
  <2>2. text[h] \in Texts
    BY <1>12, IdType DEF Die
  <2>3. SendType'
    BY <1>12, <2>2 DEF Die, SendType, sends
  <2> QED BY <1>12, <2>1, <2>3, LeaveType, Unchanged DEF Die
<1> QED BY <1>1, <1>2, <1>3, <1>4, <1>5, <1>6, <1>7, <1>8, <1>9, <1>10, <1>11, <1>12 DEF Handle

\* The admin panel, resets and the reconciliation keep the types.
LEMMA ToolStepType == ASSUME TypeInv, Tools PROVE TypeInv'
<1> USE DEF TypeInv
<1>1. ASSUME Admin PROVE admin' \in 0..MaxAdmin
  BY <1>1, Bounds DEF Admin, ToolType
<1>2. ASSUME NEW c \in Convs, AdminEscalates(c) PROVE TypeInv'
  <2>1. PICK s \in Open : OpenRow(c, s) /\ status' = [status EXCEPT ![c] = s]
    BY <1>2 DEF AdminEscalates
  <2>2. status' \in [Convs -> Statuses]
    BY <2>1 DEF RowType, Open, Statuses, Paused
  <2>3. RowType'
    BY <1>2, <2>1, <2>2, WriteTypes DEF AdminEscalates, toolsLeft, RowType
  <2>4. ToolType'
    BY <1>1, <1>2 DEF AdminEscalates, toolsLeft, ToolType
  <2> QED BY <1>2, <2>3, <2>4, Unchanged DEF AdminEscalates, toolsLeft
<1>3. ASSUME NEW r \in Rows, AdminCloses(r) PROVE TypeInv'
  <2>1. RowType'
    BY <1>3, WriteTypes DEF AdminCloses, toolsLeft, RowType
  <2>2. ToolType'
    BY <1>1, <1>3 DEF AdminCloses, toolsLeft, ToolType
  <2> QED BY <1>3, <2>1, <2>2, Unchanged DEF AdminCloses, toolsLeft
<1>4. ASSUME NEW c \in Convs, AdminSets(c) PROVE TypeInv'
  <2>1. RowType'
    BY <1>4 DEF AdminSets, toolsLeft, RowType, OwnerInv
  <2>2. ToolType'
    BY <1>1, <1>4 DEF AdminSets, toolsLeft, ToolType
  <2> QED BY <1>4, <2>1, <2>2, Unchanged DEF AdminSets, toolsLeft
<1>5. ASSUME NEW c \in Convs, ResetReads(c) PROVE TypeInv'
  <2>1. reset' \in [Convs -> SUBSET (BOOLEAN \X SUBSET Rows)]
    <3>1. {r \in RowsOf(c) : state[r] \in Open} \in SUBSET Rows
      BY DEF RowsOf
    <3>2. (status[c] = "resolved") \in BOOLEAN
      OBVIOUS
    <3>3. <<status[c] = "resolved", {r \in RowsOf(c) : state[r] \in Open}>>
            \in BOOLEAN \X SUBSET Rows
      BY <3>1, <3>2, Zenon
    <3> QED BY <1>5, <3>3 DEF ResetReads, ToolType
  <2>2. ToolType'
    BY <1>1, <1>5, <2>1 DEF ResetReads, toolsLeft, ToolType
  <2> QED BY <1>5, <2>2, Unchanged DEF ResetReads, toolsLeft, escalations
<1>6. ASSUME NEW c \in Convs, ResetCommits(c) PROVE TypeInv'
  <2>1. PICK p \in reset[c] : Resolve(c, p[1]) /\ CloseRows(p[2])
    BY <1>6 DEF ResetCommits
  <2>2. p[1] \in BOOLEAN
    BY DEF ToolType
  <2>3. RowType'
    BY <1>6, <2>1, <2>2, WriteTypes DEF ResetCommits, toolsLeft, RowType
  <2>4. ToolType'
    BY <1>6 DEF ResetCommits, toolsLeft, ToolType
  <2> QED BY <1>6, <2>3, <2>4, Unchanged DEF ResetCommits, toolsLeft
<1>7. CASE Audit
  <2>1. PICK old \in BOOLEAN : manifest' = {Expected(r) : r \in {q \in Rows : Stale(q, old)}}
    BY <1>7 DEF Audit
  <2>2. \A r \in Rows : Stale(r, old) => Expected(r) \in Rows \X Statuses \X BOOLEAN
    <3> SUFFICES ASSUME NEW r \in Rows, Stale(r, old)
                 PROVE  Expected(r) \in Rows \X Statuses \X BOOLEAN
      OBVIOUS
    <3>1. owner[r] \in Convs
      BY DEF Stale, RowType, OwnerInv, Open
    <3>2. status[owner[r]] \in Statuses
      BY <3>1 DEF RowType
    <3>3. (owner[r] \in archived) \in BOOLEAN
      OBVIOUS
    <3> QED BY <3>2, <3>3, Zenon DEF Expected
  <2>3. ToolType'
    BY <1>7, <2>1, <2>2 DEF Audit, toolsLeft, ToolType
  <2> QED BY <1>7, <2>3, Unchanged DEF Audit, toolsLeft, escalations
<1>8. CASE Apply
  <2>1. RowType'
    BY <1>8, WriteTypes DEF Apply, toolsLeft, RowType, OwnerInv
  <2>2. ToolType'
    BY <1>8 DEF Apply, toolsLeft, ToolType
  <2> QED BY <1>8, <2>1, <2>2, Unchanged DEF Apply, toolsLeft
<1> QED BY <1>2, <1>3, <1>4, <1>5, <1>6, <1>7, <1>8 DEF Tools

\* Every step keeps the types.
LEMMA StepType == ASSUME TypeInv, [Next]_vars PROVE TypeInv'
<1>1. CASE UNCHANGED vars
  BY <1>1, Unchanged DEF TypeInv, vars
<1>2. ASSUME NEW c \in Convs, Bot(c) PROVE TypeInv'
  BY <1>2, BotStepType
<1>3. CASE (\E c \in Convs : Press(c)) \/ Prompt \/ Tick
  BY <1>3, DeskStepType
<1>4. ASSUME NEW h \in Handlers, Handle(h) PROVE TypeInv'
  BY <1>4, HandleType
<1> QED BY <1>1, <1>2, <1>3, <1>4, ToolStepType DEF Next

\* The types hold in every state, with the owners of rows and of slots.
LEMMA TypeHolds == Spec => []TypeInv
  BY InitType, StepType, PTL DEF Spec

\* Keys, handlers, rows and conversations keep their types (TypeOK).
THEOREM TypeCorrect == Spec => []TypeOK
<1>1. TypeInv => TypeOK
  BY Groups
<1> QED BY <1>1, TypeHolds, PTL

-----------------------------------------------------------------------------
(* Replies.                                                                *)

\* What is at stake for a handler that sends.
replies == <<pc, text, conv, seen, sends>>

\* Bot, desk, clock and tools leave the replies alone.
LEMMA OthersLeaveReplies ==
    ASSUME [Next]_vars, \A h \in Handlers : ~Handle(h) PROVE UNCHANGED <<replies, answered>>
<1> USE DEF replies, handlers, escalations
<1>1. CASE \E c \in Convs : Bot(c)
  BY <1>1 DEF Bot, BeginTurn, BeginAcknowledgement, BeginVoice, BeginTakeover, Begin, TakeOver,
              Escalate, BotReplies, Acknowledge, VoiceFallback, Says
<1>2. CASE (\E c \in Convs : Press(c)) \/ Prompt \/ Tick
  BY <1>2 DEF Press, Prompt, Tick
<1>3. CASE Tools
  BY <1>3 DEF Tools, AdminEscalates, AdminCloses, AdminSets, ResetReads, ResetCommits, Audit,
              Apply, toolsLeft
<1>4. CASE UNCHANGED vars
  BY <1>4 DEF vars
<1> QED BY <1>1, <1>2, <1>3, <1>4 DEF Next

\* The steps that neither send nor commit: the handler ends, or moves to a place
\* where it has not sent, or has sent already with the same reading of the audit.
Quiet(h) ==
    /\ UNCHANGED sends
    /\ \A g \in Handlers : g # h => /\ pc'[g] = pc[g] /\ Id(g)' = Id(g)
                                    /\ seen'[g].audit = seen[g].audit
    /\ pc'[h] \in Sent => pc[h] \in Sent /\ Id(h)' = Id(h) /\ seen'[h].audit = seen[h].audit

LEMMA QuietSteps ==
    ASSUME TypeInv, NEW h \in Handlers,
           \/ Type(h) \/ Redeliver(h) \/ Ask(h) \/ Unmark(h) \/ Warn(h) \/ Adapt(h)
           \/ LoadConversation(h) \/ LoadRows(h) \/ Die(h)
    PROVE  Quiet(h)
<1> USE DEF Quiet, Sent, Id
<1>1. /\ pc \in [Handlers -> Places] /\ DOMAIN text = Handlers /\ DOMAIN conv = Handlers
      /\ seen \in [Handlers -> Readings]
  BY DEF TypeInv, HandlerType
<1>2. CASE Type(h) \/ Redeliver(h)
  <2>1. \E t : Arrive(h, t)
    BY <1>2 DEF Type, Redeliver
  <2> QED BY <1>1, <2>1 DEF Arrive
<1>3. ASSUME Leave(h), UNCHANGED sends PROVE Quiet(h)
  BY <1>1, <1>3 DEF Leave, Goto
<1>4. ASSUME NEW p, Goto(h, p), p \notin Sent, Stay, seen' = seen, UNCHANGED sends PROVE Quiet(h)
  BY <1>1, <1>4 DEF Stay, Goto
<1>5. CASE Ask(h)
  BY <1>3, <1>4, <1>5 DEF Ask
<1>6. CASE Unmark(h)
  BY <1>4, <1>6 DEF Unmark
<1>7. CASE Warn(h)
  BY <1>3, <1>7 DEF Warn, Tells
<1>8. CASE Adapt(h)
  BY <1>3, <1>4, <1>8 DEF Adapt, Tells
<1>9. CASE LoadConversation(h) \/ LoadRows(h)
  BY <1>1, <1>9 DEF LoadConversation, LoadRows, Goto, Stay, Readings
<1>10. CASE Die(h)
  BY <1>3, <1>10 DEF Die
<1> QED BY <1>2, <1>5, <1>6, <1>7, <1>8, <1>9, <1>10

\* Nothing is sent or said at first.
LEMMA InitDelivery == Init => DeliveryInv /\ WriterInv
  BY DEF Init, DeliveryInv, SentIsDelivered, WriterInv, Wrote, Suppresses, Sent

\* What is recorded as sent stays within what was accepted, and a handler with
\* an uncommitted audit row stays alone with its reply.
LEMMA HandleDelivery ==
    ASSUME TypeInv, DeliveryInv, WriterInv, NEW h \in Handlers, Handle(h)
    PROVE  DeliveryInv' /\ WriterInv'
<1> USE DEF Sent
<1>1. /\ pc \in [Handlers -> Places] /\ DOMAIN text = Handlers /\ DOMAIN conv = Handlers
      /\ seen \in [Handlers -> Readings] /\ audit \in [Convs \X Texts -> Audits]
  BY DEF TypeInv, HandlerType, SendType
<1>2. pc[h] \in Serving => Id(h) \in Convs \X Texts
  BY IdType
<1>3. CASE Quiet(h)
  <2>1. DeliveryInv'
    BY <1>3 DEF Quiet, DeliveryInv, SentIsDelivered, sends
  <2>2. WriterInv'
    BY <1>3 DEF Quiet, WriterInv, Wrote, sends
  <2> QED BY <2>1, <2>2
<1>4. CASE Look(h)
  <2>1. /\ pc[h] = "send" /\ UNCHANGED <<audit, accepted, saved, text, conv>>
        /\ \A g \in Handlers : g # h => pc'[g] = pc[g] /\ seen'[g].audit = seen[g].audit
        /\ pc'[h] \in Sent => pc'[h] = "load" /\ Suppresses(audit[Id(h)])
        /\ seen'[h].audit = audit[Id(h)]
    BY <1>1, <1>4 DEF Look, Goto, Stay, sends, Readings
  <2>2. DeliveryInv'
    BY <1>2, <2>1 DEF DeliveryInv, SentIsDelivered, Id, Serving
  <2>3. ~Wrote(h)' /\ \A g \in Handlers : Wrote(g)' => Wrote(g) /\ g # h
    BY <2>1 DEF Wrote
  <2>4. WriterInv'
    BY <2>1, <2>3 DEF WriterInv, Id
  <2> QED BY <2>2, <2>4
<1>5. CASE Post(h)
  <2>1. /\ pc[h] = "post" /\ saved' = saved
        /\ \A g \in Handlers : Wrote(g) => Id(g) # Id(h)
    BY <1>5 DEF Post
  <2>2. CASE /\ Id(h) \notin accepted /\ accepted' = accepted \cup {Id(h)} /\ Goto(h, "load")
             /\ Stay /\ UNCHANGED <<seen, audit>>
    <3>1. /\ pc'[h] = "load" /\ \A g \in Handlers : g # h => pc'[g] = pc[g]
          /\ \A g \in Handlers : Id(g)' = Id(g)
      BY <1>1, <2>2 DEF Goto, Stay, Id
    <3>2. /\ Id(h) \notin saved /\ ~Suppresses(audit[Id(h)])
          /\ \A g \in Handlers : pc[g] \in Sent => Id(g) # Id(h)
      BY <1>2, <2>1, <2>2 DEF DeliveryInv, SentIsDelivered, Serving
    <3>3. DeliveryInv'
      BY <2>1, <2>2, <3>1 DEF DeliveryInv, SentIsDelivered
    <3>4. \A g \in Handlers : Wrote(g)' => g = h \/ Wrote(g)
      BY <2>2, <3>1 DEF Wrote
    <3>5. WriterInv'
      BY <2>1, <2>2, <3>1, <3>2, <3>4 DEF WriterInv
    <3> QED BY <3>3, <3>5
  <2>3. CASE /\ Leave(h) /\ accepted' \in {accepted, accepted \cup {Id(h)}}
             /\ \/ audit' = audit
                \/ audit' = [audit EXCEPT ![Id(h)] = "error"]
                \/ audit' = [audit EXCEPT ![Id(h)] = "duplicate"] /\ Id(h) \in accepted
    <3>1. /\ pc'[h] = "idle"
          /\ \A g \in Handlers : g # h => pc'[g] = pc[g] /\ Id(g)' = Id(g) /\ seen'[g] = seen[g]
      BY <1>1, <2>3 DEF Leave, Goto, Id
    <3>2. \A i \in Convs \X Texts :
            /\ Suppresses(audit'[i]) => i \in accepted'
            /\ i # Id(h) => audit'[i] = audit[i]
      BY <1>1, <2>3 DEF DeliveryInv, Suppresses
    <3>3. DeliveryInv'
      BY <2>1, <2>3, <3>1, <3>2 DEF DeliveryInv, SentIsDelivered
    <3>4. \A g \in Handlers : Wrote(g)' => g # h /\ Wrote(g) /\ Id(g) \in Convs \X Texts
      BY <3>1, IdType DEF Wrote, Serving
    <3>5. WriterInv'
      BY <2>1, <3>1, <3>2, <3>4 DEF WriterInv
    <3> QED BY <3>3, <3>5
  <2> QED BY <1>5, <2>2, <2>3 DEF Post, Tells
<1>6. CASE Commit(h)
  <2>1. /\ Id(h) \in accepted /\ accepted' = accepted /\ pc[h] = "commit"
        /\ saved' \in {saved, saved \cup {Id(h)}} /\ pc'[h] = "idle"
        /\ \A g \in Handlers : g # h => pc'[g] = pc[g] /\ Id(g)' = Id(g) /\ seen'[g] = seen[g]
    BY <1>1, <1>6 DEF Commit, DeliveryInv, Tells, Leave, Goto, Id
  <2>2. \A i \in Convs \X Texts :
          /\ Suppresses(audit'[i]) => i \in accepted
          /\ i # Id(h) => audit'[i] = audit[i]
    <3>1. audit' = audit \/ audit' = [audit EXCEPT ![Id(h)] = "sent"]
      BY <1>6 DEF Commit
    <3> QED BY <1>1, <2>1, <3>1 DEF DeliveryInv
  <2>3. DeliveryInv'
    BY <2>1, <2>2 DEF DeliveryInv, SentIsDelivered
  <2>4. \A g \in Handlers : Wrote(g)' => /\ g # h /\ Wrote(g) /\ Id(g) \in Convs \X Texts
                                         /\ Id(g) # Id(h)
    BY <2>1, IdType DEF Wrote, Serving, WriterInv
  <2>5. WriterInv'
    BY <2>1, <2>2, <2>4 DEF WriterInv
  <2> QED BY <2>3, <2>5
<1> QED BY <1>3, <1>4, <1>5, <1>6, QuietSteps DEF Handle

\* Every step keeps what is recorded as sent within what was accepted.
LEMMA StepDelivery ==
    ASSUME TypeInv, DeliveryInv, WriterInv, [Next]_vars PROVE DeliveryInv' /\ WriterInv'
<1>1. CASE \E h \in Handlers : Handle(h)
  BY <1>1, HandleDelivery
<1>2. CASE \A h \in Handlers : ~Handle(h)
  <2>1. UNCHANGED <<pc, text, conv, seen, audit, accepted, saved>>
    BY <1>2, OthersLeaveReplies DEF replies, sends
  <2>2. DeliveryInv'
    BY <2>1 DEF DeliveryInv, SentIsDelivered, Id
  <2>3. WriterInv'
    BY <2>1 DEF WriterInv, Wrote, Id
  <2> QED BY <2>2, <2>3
<1> QED BY <1>1, <1>2

LEMMA DeliveryHolds == Spec => [](DeliveryInv /\ WriterInv)
  BY InitDelivery, StepDelivery, TypeHolds, PTL DEF Spec

\* What the manager is told was sent, the customer has (SentIsDelivered).
THEOREM SentIsDeliveredHolds == Spec => []SentIsDelivered
<1>1. DeliveryInv => SentIsDelivered
  BY DEF DeliveryInv
<1> QED BY <1>1, DeliveryHolds, PTL

-----------------------------------------------------------------------------
(* Escalations.                                                            *)

\* A row that was opened keeps its conversation, and the replies before it; a
\* new one counts the replies in the history.
RowsStay ==
    \A r \in Rows :
        \/ /\ owner'[r] = owner[r] /\ before'[r] = before[r]
           /\ state[r] # "none" => state'[r] # "none"
        \/ state[r] = "none" /\ \A t \in before'[r] : <<owner'[r], t>> \in saved

\* The statements that write rows keep them so.
LEMMA WritesStay ==
    ASSUME RowType
    PROVE  /\ UNCHANGED <<owner, state, before>> => RowsStay
           /\ \A S : CloseRows(S) /\ UNCHANGED <<owner, before>> => RowsStay
           /\ \A c, s : OpenRow(c, s) => RowsStay
<1>1. UNCHANGED <<owner, state, before>> => RowsStay
  BY DEF RowsStay
<1>2. ASSUME NEW S, CloseRows(S), UNCHANGED <<owner, before>> PROVE RowsStay
  BY <1>2 DEF RowsStay, CloseRows
<1>3. ASSUME NEW c, NEW s, OpenRow(c, s) PROVE RowsStay
  <2>1. PICK r \in Rows :
          /\ state[r] = "none" /\ owner' = [owner EXCEPT ![r] = c]
          /\ state' = [state EXCEPT ![r] = s]
          /\ before' = [before EXCEPT ![r] = {t \in Texts : <<c, t>> \in saved}]
    BY <1>3 DEF OpenRow
  <2> QED BY <2>1 DEF RowsStay, RowType
<1> QED BY <1>1, <1>2, <1>3

\* So does every step.
LEMMA StepRows == ASSUME TypeInv, [Next]_vars PROVE RowsStay
<1> USE DEF TypeInv, escalations
<1>1. ASSUME NEW c \in Convs, Bot(c) PROVE RowsStay
  <2>1. CASE Escalate(c)
    BY <2>1, WritesStay DEF Escalate
  <2>2. CASE ~Escalate(c)
    <3>1. UNCHANGED <<owner, state, before>>
      BY <1>1, <2>2 DEF Bot, BeginTurn, BeginAcknowledgement, BeginVoice, BeginTakeover, Begin,
                        TakeOver, BotReplies, Acknowledge, VoiceFallback, Says
    <3> QED BY <3>1, WritesStay
  <2> QED BY <2>1, <2>2
<1>2. CASE (\E c \in Convs : Press(c)) \/ Prompt \/ Tick
  <2>1. UNCHANGED <<owner, state, before>>
    BY <1>2 DEF Press, Prompt, Tick
  <2> QED BY <2>1, WritesStay
<1>3. CASE Tools
  <2>1. ASSUME NEW c \in Convs, AdminEscalates(c) PROVE RowsStay
    BY <2>1, WritesStay DEF AdminEscalates
  <2>2. ASSUME NEW c \in Convs, AdminSets(c) \/ ResetReads(c) PROVE RowsStay
    BY <2>2, WritesStay DEF AdminSets, ResetReads
  <2>3. ASSUME NEW c \in Convs, ResetCommits(c) PROVE RowsStay
    BY <2>3, WritesStay DEF ResetCommits, toolsLeft
  <2>4. ASSUME NEW r \in Rows, AdminCloses(r) PROVE RowsStay
    BY <2>4, WritesStay DEF AdminCloses
  <2>5. CASE Audit
    BY <2>5, WritesStay DEF Audit
  <2>6. CASE Apply
    BY <2>6, WritesStay DEF Apply
  <2> QED BY <1>3, <2>1, <2>2, <2>3, <2>4, <2>5, <2>6 DEF Tools
<1>4. ASSUME NEW h \in Handlers, Handle(h) PROVE RowsStay
  <2>1. CASE Commit(h)
    BY <2>1, WritesStay DEF Commit
  <2>2. CASE ~Commit(h)
    <3>1. UNCHANGED <<owner, state, before>>
      BY <1>4, <2>2 DEF Handle, Type, Redeliver, Arrive, Ask, Unmark, Warn, Adapt, Look, Post,
                        LoadConversation, LoadRows, Die
    <3> QED BY <3>1, WritesStay
  <2> QED BY <2>1, <2>2
<1>5. CASE UNCHANGED vars
  BY <1>5, WritesStay DEF vars
<1> QED BY <1>1, <1>2, <1>3, <1>4, <1>5 DEF Next

\* No row is resolved at first.
LEMMA InitAnswered == Init => AnsweredInv
  BY DEF Init, AnsweredInv, ResolvedIsAnswered

\* A step that resolves nothing by a reply keeps what was resolved answered.
LEMMA KeptAnswered ==
    ASSUME TypeInv, AnsweredInv, RowsStay, answered' = answered,
           saved \subseteq saved', accepted \subseteq accepted',
           \A h \in Handlers : pc'[h] = "commit" =>
              \A r \in seen'[h].rows : r \in Rows /\ owner[r] = conv'[h] /\ state[r] # "none"
    PROVE  AnsweredInv'
<1>1. answered \in SUBSET (Rows \X Texts \X Audits)
  BY DEF TypeInv, RowType
<1>2. \A h \in Handlers : pc'[h] = "commit" =>
         \A r \in seen'[h].rows : owner'[r] = conv'[h] /\ state'[r] # "none"
  BY DEF RowsStay
<1>3. \A p \in answered : p[1] \in Rows /\ state[p[1]] # "none"
  BY <1>1 DEF AnsweredInv
<1>4. \A p \in answered' : state'[p[1]] # "none"
  BY <1>3 DEF RowsStay
<1>5. \A r \in Rows : \A t \in before'[r] : <<owner'[r], t>> \in saved'
  BY DEF RowsStay, AnsweredInv
<1>6. ResolvedIsAnswered'
  BY <1>3 DEF RowsStay, AnsweredInv, ResolvedIsAnswered
<1> QED BY <1>2, <1>4, <1>5, <1>6 DEF AnsweredInv

\* A handler resolves the rows of its conversation by its reply: one in their
\* history would be refused, or is known as a duplicate.
LEMMA HandleAnswered ==
    ASSUME TypeInv, DeliveryInv, WriterInv, AnsweredInv, RowsStay, NEW h \in Handlers, Handle(h)
    PROVE  AnsweredInv'
<1>1. /\ pc \in [Handlers -> Places] /\ DOMAIN text = Handlers /\ DOMAIN conv = Handlers
      /\ seen \in [Handlers -> Readings]
  BY DEF TypeInv, HandlerType
<1>2. \A g \in Handlers : pc[g] = "commit" =>
         \A r \in seen[g].rows : r \in Rows /\ owner[r] = conv[g] /\ state[r] # "none"
  BY <1>1 DEF AnsweredInv, Readings
<1>3. CASE Type(h) \/ Redeliver(h) \/ Ask(h) \/ Unmark(h) \/ Warn(h) \/ Adapt(h) \/ Look(h)
           \/ Post(h) \/ LoadConversation(h) \/ Die(h)
  <2>1. \A g \in Handlers : pc'[g] = "commit" =>
           g # h /\ pc[g] = "commit" /\ conv'[g] = conv[g] /\ seen'[g] = seen[g]
    BY <1>1, <1>3 DEF Type, Redeliver, Arrive, Ask, Unmark, Warn, Adapt, Look, Post,
                      LoadConversation, Die, Tells, Leave, Goto, Stay
  <2>2. answered' = answered /\ saved \subseteq saved' /\ accepted \subseteq accepted'
    BY <1>3 DEF Type, Redeliver, Arrive, Ask, Unmark, Warn, Adapt, Look, Post,
                LoadConversation, Die, escalations, sends
  <2> QED BY <1>2, <2>1, <2>2, KeptAnswered
<1>4. CASE LoadRows(h)
  <2>1. /\ \A g \in Handlers : g # h /\ pc'[g] = "commit" =>
              pc[g] = "commit" /\ conv'[g] = conv[g] /\ seen'[g] = seen[g]
        /\ conv'[h] = conv[h]
        /\ seen'[h].rows = {r \in RowsOf(conv[h]) : state[r] = "pending"}
    BY <1>1, <1>4 DEF LoadRows, Goto, Stay, Readings
  <2>2. answered' = answered /\ saved \subseteq saved' /\ accepted \subseteq accepted'
    BY <1>4 DEF LoadRows, escalations, sends
  <2> QED BY <1>2, <2>1, <2>2, KeptAnswered DEF RowsOf
<1>5. CASE Commit(h)
  <2>1. \A g \in Handlers : pc'[g] = "commit" =>
           g # h /\ pc[g] = "commit" /\ conv'[g] = conv[g] /\ seen'[g] = seen[g]
    BY <1>1, <1>5 DEF Commit, Tells, Leave, Goto
  <2>2. CASE Refused(h)
    BY <1>2, <1>5, <2>1, <2>2, KeptAnswered DEF Commit
  <2>3. CASE ~Refused(h)
    <3>1. /\ accepted' = accepted /\ owner' = owner /\ before' = before
          /\ saved' = saved \cup {Id(h)}
          /\ answered' = answered \cup (seen[h].rows \X {text[h]} \X {seen[h].audit})
          /\ CloseRows(seen[h].rows) /\ pc[h] = "commit"
      BY <1>5, <2>3 DEF Commit
    <3>2. \A r \in seen[h].rows : r \in Rows /\ owner[r] = conv[h] /\ state[r] # "none"
      BY <1>2, <3>1
    <3>3. \A g \in Handlers : pc'[g] = "commit" =>
             \A r \in seen'[g].rows : owner'[r] = conv'[g] /\ state'[r] # "none"
      BY <1>2, <2>1, <3>1 DEF RowsStay
    <3>4. answered \in SUBSET (Rows \X Texts \X Audits)
      BY DEF TypeInv, RowType
    <3>5. \A p \in answered' : state'[p[1]] # "none"
      BY <3>1, <3>2, <3>4 DEF AnsweredInv, RowsStay
    <3>6. \A r \in Rows : \A t \in before'[r] : <<owner'[r], t>> \in saved'
      BY <3>1 DEF AnsweredInv
    <3>7. ASSUME NEW r \in seen[h].rows, text[h] \in before[r] PROVE seen[h].audit = "duplicate"
      <4>1. Id(h) \in saved
        BY <3>2, <3>7 DEF AnsweredInv, Id
      <4>2. ~Wrote(h) /\ seen[h].audit # "sent"
        BY <2>3, <4>1 DEF WriterInv, Refused
      <4> QED BY <3>1, <4>2 DEF Wrote, Suppresses
    <3>8. Id(h) \in accepted
      BY <3>1 DEF DeliveryInv, Sent
    <3>9. ASSUME NEW p \in answered'
          PROVE  /\ <<owner'[p[1]], p[2]>> \in accepted'
                 /\ p[2] \in before'[p[1]] => p[3] = "duplicate"
      <4>1. CASE p \in answered
        BY <3>1, <4>1 DEF AnsweredInv, ResolvedIsAnswered
      <4>2. CASE p \in seen[h].rows \X {text[h]} \X {seen[h].audit}
        BY <3>1, <3>2, <3>7, <3>8, <4>2 DEF Id
      <4> QED BY <3>1, <3>9, <4>1, <4>2
    <3>10. ResolvedIsAnswered'
      BY <3>9 DEF ResolvedIsAnswered
    <3> QED BY <3>3, <3>5, <3>6, <3>10 DEF AnsweredInv
  <2> QED BY <2>2, <2>3
<1> QED BY <1>3, <1>4, <1>5 DEF Handle

\* Every step keeps the rows that a reply resolved answered.
LEMMA StepAnswered ==
    ASSUME TypeInv, DeliveryInv, WriterInv, AnsweredInv, [Next]_vars PROVE AnsweredInv'
<1>1. RowsStay
  BY StepRows
<1>2. CASE \E h \in Handlers : Handle(h)
  BY <1>1, <1>2, HandleAnswered
<1>3. CASE \A h \in Handlers : ~Handle(h)
  <2>1. UNCHANGED <<pc, conv, seen, accepted, saved, answered>>
    BY <1>3, OthersLeaveReplies DEF replies, sends
  <2>2. \A h \in Handlers : pc[h] = "commit" => seen[h].rows \subseteq Rows
    BY DEF TypeInv, HandlerType, Readings
  <2> QED BY <1>1, <2>1, <2>2, KeptAnswered DEF AnsweredInv
<1> QED BY <1>2, <1>3

\* A row that a reply resolved has one that its customer got, and that was not
\* there before it, duplicates apart (ResolvedIsAnswered).
THEOREM ResolvedIsAnsweredHolds == Spec => []ResolvedIsAnswered
<1>1. Spec => []AnsweredInv
  BY InitAnswered, StepAnswered, TypeHolds, DeliveryHolds, PTL DEF Spec
<1>2. AnsweredInv => ResolvedIsAnswered
  BY DEF AnsweredInv
<1> QED BY <1>1, <1>2, PTL

\* A manifest is applied only to rows that are as they were audited, so not to
\* those of a conversation that waits for a manager (WaitingIsNotReconciled).
THEOREM WaitingIsNotReconciledHolds == Spec => WaitingIsNotReconciled
<1> DEFINE Spared ==
      \A m \in manifest :
         manifest' = {} /\ state'[m[1]] # state[m[1]] => status[owner[m[1]]] \notin Paused
<1>1. ASSUME TypeInv, Next PROVE Spared
  <2>1. CASE Apply
    <3>1. SUFFICES ASSUME NEW m \in manifest, state'[m[1]] # state[m[1]]
                   PROVE  status[owner[m[1]]] \notin Paused
      OBVIOUS
    <3>2. m[1] \in Rows /\ state \in [Rows -> Open \cup {"none", "resolved"}]
      <4>1. m \in Rows \X Statuses \X BOOLEAN
        BY <1>1 DEF TypeInv, ToolType
      <4> QED BY <1>1, <4>1 DEF TypeInv, RowType
    <3>3. Verified /\ state[m[1]] # "resolved"
      BY <2>1, <3>1, <3>2 DEF Apply, CloseRows
    <3>4. Stale(m[1], TRUE)
      BY <3>3 DEF Verified
    <3> QED BY <3>4 DEF Stale, Paused
  <2>2. CASE ~Apply
    <3>1. CASE Tools
      BY <2>2, <3>1 DEF Tools, AdminEscalates, AdminCloses, AdminSets, ResetReads, ResetCommits, Audit
    <3>2. CASE \E c \in Convs : Bot(c) \/ Press(c)
      BY <3>2 DEF Bot, BeginTurn, BeginAcknowledgement, BeginVoice, BeginTakeover, Begin, TakeOver,
                  Escalate, BotReplies, Acknowledge, VoiceFallback, Says, Press, tools
    <3>3. CASE Prompt \/ Tick
      BY <3>3 DEF Prompt, Tick, tools
    <3>4. CASE \E h \in Handlers : Handle(h)
      BY <3>4 DEF Handle, Type, Redeliver, Arrive, Ask, Unmark, Warn, Adapt, Look, Post,
                  LoadConversation, LoadRows, Commit, Die, tools
    <3> QED BY <1>1, <3>1, <3>2, <3>3, <3>4 DEF Next
  <2> QED BY <2>1, <2>2
<1>2. TypeInv /\ [Next]_vars => [Spared]_vars
  BY <1>1
<1>3. Spec => [][Spared]_vars
  BY <1>2, TypeHolds, PTL DEF Spec
<1> QED BY <1>3 DEF WaitingIsNotReconciled

-----------------------------------------------------------------------------
(* Prompts.                                                                *)

\* No prompt is out at first.
LEMMA InitPromise == Init => PromiseInv
  BY DEF Init, PromiseInv, LateReplyIsNotSwallowed

\* A step of a handler that takes no keys and keeps those it has.
LEMMA KeysStay ==
    ASSUME PromiseInv, UNCHANGED <<mark, promise, owed, fates, text>>,
           \A g \in Handlers : (AtKeys(g)' <=> AtKeys(g)) /\ (HasKeys(g) => HasKeys(g)')
    PROVE  PromiseInv'
  BY DEF PromiseInv, LateReplyIsNotSwallowed, fates

\* A handler takes its keys: it is the answer's, if there is an answer.
LEMMA KeysTaken ==
    ASSUME PromiseInv, NEW h \in Handlers, AtKeys(h), UNCHANGED <<promise, owed, fates, text>>,
           \A g \in Handlers : (AtKeys(g)' => AtKeys(g)) /\ (HasKeys(g) => HasKeys(g)'),
           HasKeys(h)'
    PROVE  PromiseInv'
  BY DEF PromiseInv, LateReplyIsNotSwallowed, fates

\* A handler tells its manager: an answer is not owed any more.
LEMMA KeysTold ==
    ASSUME TypeInv, PromiseInv, NEW h \in Handlers, Tells(h), UNCHANGED fates,
           \/ HasKeys(h) /\ mark' = mark
           \/ AtKeys(h)
    PROVE  PromiseInv'
<1>1. \A g \in Handlers : g # h => pc'[g] = pc[g] /\ text'[g] = text[g]
  BY DEF TypeInv, HandlerType, Tells, Leave, Goto
<1>2. pc'[h] = "idle" /\ text[h] # 0
  BY DEF TypeInv, HandlerType, HandlerInv, Tells, Leave, Goto, AtKeys, HasKeys
<1>3. CASE owed = text[h]
  BY <1>3 DEF Tells, PromiseInv, LateReplyIsNotSwallowed, fates
<1>4. CASE owed # text[h]
  <2>1. UNCHANGED <<owed, promise>>
    BY <1>4 DEF Tells
  <2>2. promise \in Nat
    BY DEF TypeInv, DeskType, Week
  <2>3. CASE HasKeys(h) /\ mark' = mark
    BY <1>1, <1>2, <1>4, <2>1, <2>3 DEF PromiseInv, LateReplyIsNotSwallowed, fates, AtKeys, HasKeys
  <2>4. CASE AtKeys(h)
    <3>1. owed = 0 /\ ~(promise > 0)
      BY <1>4, <2>4 DEF PromiseInv
    <3> QED BY <2>1, <3>1 DEF PromiseInv, LateReplyIsNotSwallowed, fates
  <2> QED BY <2>3, <2>4
<1> QED BY <1>3, <1>4

\* A text arrives: it answers the prompt, or nothing answers it any more.
LEMMA ArrivePromise ==
    ASSUME TypeInv, PromiseInv, NEW h \in Handlers, NEW t \in Nat \ {0}, Arrive(h, t)
    PROVE  PromiseInv'
<1>1. /\ \A g \in Handlers : g # h => pc'[g] = pc[g] /\ text'[g] = text[g]
      /\ pc[h] = "idle" /\ AtKeys(h)' /\ ~HasKeys(h)' /\ text'[h] = t /\ ~HasKeys(h)
      /\ UNCHANGED <<mark, swallowed, cut>>
  BY DEF TypeInv, HandlerType, Arrive, redis, fates, AtKeys, HasKeys
<1>2. CASE promise > 0 /\ owed \in {0, t}
  <2>1. owed' = t /\ promise' = promise
    BY <1>2 DEF Arrive
  <2>2. \A g \in Handlers : AtKeys(g)' => text'[g] = t
    BY <1>1, <1>2 DEF PromiseInv, AtKeys
  <2>3. \/ promise =< mark \/ t \in cut
        \/ \E g \in Handlers : HasKeys(g)' /\ text'[g] = t
    <3>1. CASE owed = 0
      BY <1>2, <3>1 DEF PromiseInv
    <3>2. CASE owed = t
      <4>1. ASSUME NEW g \in Handlers, HasKeys(g), text[g] = t
            PROVE  HasKeys(g)' /\ text'[g] = t
        BY <1>1, <4>1 DEF HasKeys
      <4> QED BY <3>2, <4>1 DEF PromiseInv
    <3> QED BY <1>2, <3>1, <3>2
  <2> QED BY <1>1, <1>2, <2>1, <2>2, <2>3 DEF PromiseInv, LateReplyIsNotSwallowed
<1>3. CASE ~(promise > 0 /\ owed \in {0, t})
  BY <1>1, <1>3 DEF Arrive, PromiseInv, LateReplyIsNotSwallowed
<1> QED BY <1>2, <1>3

\* Every step of a handler keeps the answer's keys with it.
LEMMA HandlePromise ==
    ASSUME TypeInv, PromiseInv, NEW h \in Handlers, Handle(h) PROVE PromiseInv'
<1>1. /\ pc \in [Handlers -> Places] /\ DOMAIN text = Handlers /\ typed \in Nat
      /\ mark \in Nat /\ promise \in Nat
  BY Bounds DEF TypeInv, HandlerType, DeskType, Week
<1>2. CASE Type(h) \/ Redeliver(h)
  <2>1. \E t \in Nat \ {0} : Arrive(h, t)
    BY <1>1, <1>2 DEF Type, Redeliver
  <2> QED BY <2>1, ArrivePromise
<1>3. CASE Ask(h)
  <2>1. CASE mark > 0
    <3>1. Goto(h, "warns") /\ UNCHANGED <<mark, promise, owed, fates, text>> /\ pc[h] = "asks"
      BY <1>3, <2>1 DEF Ask, desk, redis, fates, Stay
    <3> QED BY <1>1, <3>1, KeysStay DEF Goto, AtKeys, HasKeys
  <2>2. CASE ~(mark > 0)
    <3>1. /\ UNCHANGED <<mark, promise, owed, cut>> /\ pc[h] = "asks" /\ pc'[h] = "idle"
          /\ \A g \in Handlers : g # h => pc'[g] = pc[g] /\ text'[g] = text[g]
          /\ swallowed' = swallowed \cup
               {t \in {text[h]} : owed = t /\ ~\E g \in Handlers : HasKeys(g) /\ text[g] = t}
      BY <1>1, <1>3, <2>2 DEF Ask, desk, redis, Leave, Goto
    <3>2. text[h] # 0
      BY <3>1 DEF TypeInv, HandlerType, HandlerInv
    <3>3. LateReplyIsNotSwallowed'
      BY <1>1, <2>2, <3>1, <3>2 DEF PromiseInv, LateReplyIsNotSwallowed
    <3>4. \A g \in Handlers : /\ AtKeys(g)' => AtKeys(g) /\ text'[g] = text[g]
                              /\ HasKeys(g) => HasKeys(g)' /\ text'[g] = text[g]
      BY <3>1 DEF AtKeys, HasKeys
    <3> QED BY <3>1, <3>3, <3>4 DEF PromiseInv
  <2> QED BY <2>1, <2>2
<1>4. CASE Unmark(h)
  <2>1. Goto(h, "tells") /\ UNCHANGED <<promise, owed, fates, text>> /\ pc[h] = "warns"
    BY <1>4 DEF Unmark, Stay
  <2> QED BY <1>1, <2>1, KeysTaken DEF Goto, AtKeys, HasKeys
<1>5. CASE Warn(h)
  BY <1>5, KeysTold DEF Warn, redis, HasKeys
<1>6. CASE Adapt(h)
  <2>1. CASE Tells(h)
    BY <1>6, <2>1, KeysTold DEF Adapt, AtKeys
  <2>2. CASE Goto(h, "send") /\ Stay /\ UNCHANGED <<promise, owed>>
    <3>1. UNCHANGED <<promise, owed, fates, text>> /\ pc[h] = "holds"
      BY <1>6, <2>2 DEF Adapt, Stay
    <3> QED BY <1>1, <2>2, <3>1, KeysTaken DEF Goto, AtKeys, HasKeys
  <2> QED BY <1>6, <2>1, <2>2 DEF Adapt
<1>7. CASE Look(h) \/ LoadConversation(h) \/ LoadRows(h)
  <2>1. /\ UNCHANGED <<mark, promise, owed, fates, text>> /\ HasKeys(h)
        /\ \E place \in {"load", "post", "rows", "commit"} : Goto(h, place)
    BY <1>7 DEF Look, LoadConversation, LoadRows, desk, redis, Stay, HasKeys
  <2> QED BY <1>1, <2>1, KeysStay DEF Goto, AtKeys, HasKeys
<1>8. CASE Post(h)
  <2>1. UNCHANGED <<mark, fates>> /\ HasKeys(h)
    BY <1>8 DEF Post, redis, HasKeys
  <2>2. CASE Tells(h)
    BY <2>1, <2>2, KeysTold
  <2>3. CASE Goto(h, "load") /\ Stay /\ UNCHANGED <<promise, owed>>
    <3>1. UNCHANGED <<mark, promise, owed, fates, text>>
      BY <2>1, <2>3 DEF Stay
    <3> QED BY <1>1, <2>1, <2>3, <3>1, KeysStay DEF Goto, AtKeys, HasKeys
  <2> QED BY <1>8, <2>2, <2>3 DEF Post
<1>9. CASE Commit(h)
  BY <1>9, KeysTold DEF Commit, redis, HasKeys
<1>10. CASE Die(h)
  <2>1. /\ UNCHANGED <<mark, promise, owed, swallowed>> /\ pc'[h] = "idle"
        /\ \A g \in Handlers : g # h => pc'[g] = pc[g] /\ text'[g] = text[g]
        /\ cut' = IF HasKeys(h) THEN cut \cup {text[h]} ELSE cut
    BY <1>1, <1>10 DEF Die, desk, redis, Leave, Goto
  <2>2. \A g \in Handlers : AtKeys(g)' => AtKeys(g) /\ text'[g] = text[g]
    BY <2>1 DEF AtKeys
  <2>3. \A g \in Handlers : HasKeys(g) => text[g] \in cut' \/ (HasKeys(g)' /\ text'[g] = text[g])
    BY <2>1 DEF HasKeys
  <2> QED BY <2>1, <2>2, <2>3 DEF PromiseInv, LateReplyIsNotSwallowed
<1> QED BY <1>2, <1>3, <1>4, <1>5, <1>6, <1>7, <1>8, <1>9, <1>10 DEF Handle

\* Every step keeps a prompt good, or answered.
LEMMA StepPromise == ASSUME TypeInv, PromiseInv, [Next]_vars PROVE PromiseInv'
<1>1. CASE \E h \in Handlers : Handle(h)
  BY <1>1, HandlePromise
<1>2. CASE Prompt
  <2>1. UNCHANGED <<pc, text, swallowed, cut>> /\ mark' = 2 /\ promise \in 0..2
    BY <1>2 DEF Prompt, handlers, fates, MarkLife, Week, TypeInv, DeskType
  <2>2. CASE \E h \in Handlers : AtKeys(h)
    BY <1>2, <2>1, <2>2 DEF Prompt, PromiseInv, LateReplyIsNotSwallowed, AtKeys, HasKeys
  <2>3. CASE \A h \in Handlers : ~AtKeys(h)
    <3>1. promise' = 2 /\ owed' = 0 /\ \A h \in Handlers : ~AtKeys(h)'
      BY <1>2, <2>1, <2>3 DEF Prompt, Week, AtKeys
    <3> QED BY <2>1, <3>1 DEF PromiseInv, LateReplyIsNotSwallowed
  <2> QED BY <2>2, <2>3
<1>3. CASE Tick
  <2>1. /\ UNCHANGED <<pc, text, swallowed, cut>> /\ mark \in Nat /\ promise \in Nat
        /\ \A h \in Handlers : ~AtKeys(h) /\ ~AtKeys(h)' /\ ~HasKeys(h)
    BY <1>3 DEF Tick, handlers, fates, AtKeys, HasKeys, TypeInv, DeskType, Week
  <2> QED BY <1>3, <2>1 DEF Tick, PromiseInv, LateReplyIsNotSwallowed
<1>4. CASE (\E c \in Convs : Bot(c) \/ Press(c)) \/ Tools \/ UNCHANGED vars
  <2>1. UNCHANGED <<mark, promise, owed, pc, text, fates>>
    BY <1>4 DEF Bot, BeginTurn, BeginAcknowledgement, BeginVoice, BeginTakeover, Begin, TakeOver,
                Escalate, BotReplies, Acknowledge, VoiceFallback, Says, Press, Tools,
                AdminEscalates, AdminCloses, AdminSets, ResetReads, ResetCommits, Audit, Apply,
                toolsLeft, vars, desk, redis, handlers
  <2> QED BY <2>1, KeysStay DEF AtKeys, HasKeys
<1> QED BY <1>1, <1>2, <1>3, <1>4 DEF Next

\* A text that answers a prompt is ignored only if one of its handlers died with
\* the keys (LateReplyIsNotSwallowed).
THEOREM LateReplyIsNotSwallowedHolds == Spec => []LateReplyIsNotSwallowed
<1>1. Spec => []PromiseInv
  BY InitPromise, StepPromise, TypeHolds, PTL DEF Spec
<1>2. PromiseInv => LateReplyIsNotSwallowed
  BY DEF PromiseInv
<1> QED BY <1>1, <1>2, PTL

-----------------------------------------------------------------------------
(* Turns.                                                                  *)

\* No turn runs at first.
LEMMA InitLate == Init => LateInv
  BY DEF Init, LateInv, OneLateReply

\* A turn begins with nothing said of what the status rules out, and ends when it
\* says it.
LEMMA BotLate == ASSUME TypeInv, LateInv, NEW c \in Convs, Bot(c) PROVE LateInv'
<1>1. turn \in [Convs -> Turns] /\ late \in [Convs -> Nat]
  BY DEF TypeInv, BotType
<1>2. CASE BeginTurn(c)
  <2>1. late' = [late EXCEPT ![c] = 0] /\ turn' = [turn EXCEPT ![c] = "llm"]
    BY <1>2 DEF BeginTurn, BotPaused, Begin
  <2> QED BY <1>1, <2>1 DEF LateInv, OneLateReply
<1>3. CASE BeginAcknowledgement(c)
  <2>1. late' = [late EXCEPT ![c] = 0] /\ turn' = [turn EXCEPT ![c] = "ack"]
    BY <1>3 DEF BeginAcknowledgement, Acknowledged, Begin
  <2> QED BY <1>1, <2>1 DEF LateInv, OneLateReply
<1>4. CASE BeginVoice(c) \/ BeginTakeover(c) \/ TakeOver(c) \/ Escalate(c)
  <2>1. /\ late' = late
        /\ \E place \in Turns \ {"llm", "ack"} : turn' = [turn EXCEPT ![c] = place]
    BY <1>4 DEF BeginVoice, BeginTakeover, Begin, TakeOver, Escalate, Turns
  <2> QED BY <1>1, <2>1 DEF LateInv, OneLateReply
<1>5. ASSUME NEW kind, NEW ruledOut, Says(c, kind, ruledOut), ruledOut => kind \in {"llm", "ack"}
      PROVE  LateInv'
  <2>1. turn[c] = kind /\ turn' = [turn EXCEPT ![c] = "ended"]
    BY <1>5 DEF Says
  <2>2. CASE ruledOut
    <3>1. late[c] = 0
      BY <1>5, <2>1, <2>2 DEF LateInv
    <3>2. late' = [late EXCEPT ![c] = late[c] + 1]
      BY <1>5, <2>2 DEF Says
    <3> QED BY <1>1, <2>1, <3>1, <3>2 DEF LateInv, OneLateReply
  <2>3. CASE ~ruledOut
    <3>1. late' = late
      BY <1>5, <2>3 DEF Says
    <3> QED BY <1>1, <2>1, <3>1 DEF LateInv, OneLateReply
  <2> QED BY <2>2, <2>3
<1>6. CASE BotReplies(c) \/ Acknowledge(c) \/ VoiceFallback(c)
  BY <1>5, <1>6 DEF BotReplies, Acknowledge, VoiceFallback
<1> QED BY <1>2, <1>3, <1>4, <1>6 DEF Bot

\* Only the bot says anything.
LEMMA StepLate == ASSUME TypeInv, LateInv, [Next]_vars PROVE LateInv'
<1>1. CASE \E c \in Convs : Bot(c)
  BY <1>1, BotLate
<1>2. CASE \A c \in Convs : ~Bot(c)
  <2>1. CASE (\E c \in Convs : Press(c)) \/ Prompt \/ Tick \/ Tools \/ UNCHANGED vars
    BY <2>1 DEF Press, Prompt, Tick, Tools, AdminEscalates, AdminCloses, AdminSets, ResetReads,
                ResetCommits, Audit, Apply, toolsLeft, vars, bot, LateInv, OneLateReply
  <2>2. CASE \E h \in Handlers : Handle(h)
    BY <2>2 DEF Handle, Type, Redeliver, Arrive, Ask, Unmark, Warn, Adapt, Look, Post,
                LoadConversation, LoadRows, Commit, Die, bot, LateInv, OneLateReply
  <2> QED BY <1>2, <2>1, <2>2 DEF Next
<1> QED BY <1>1, <1>2

\* The bot says once at most what the status has ruled out (OneLateReply).
THEOREM OneLateReplyHolds == Spec => []OneLateReply
<1>1. Spec => []LateInv
  BY InitLate, StepLate, TypeHolds, PTL DEF Spec
<1>2. LateInv => OneLateReply
  BY DEF LateInv
<1> QED BY <1>1, <1>2, PTL
=============================================================================
