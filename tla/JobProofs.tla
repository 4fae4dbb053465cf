----------------------------- MODULE JobProofs -----------------------------
(* Proofs about what runs by the clock, in two parts.                      *)
(*                                                                         *)
(* LlmAttempt: the lease, and what its alerts may rely on, for every job   *)
(* and every number of overlapping looks, attempts and faults.             *)
(*                                                                         *)
(* FollowUps: for every number of conversations, rows per run and faults,  *)
(* and every daily limit, what a conversation says of its reminder is true *)
(* (RemindedInv), and the reminders of a day keep to the limit (DayInv).   *)
(* The limit is counted from audit rows: the argument is that a reminder   *)
(* the count does not see (Hidden) is paid for by a fault of its own, for  *)
(* ever, and that what a run has counted, chosen and sent together never   *)
(* exceeds the limit.                                                      *)
EXTENDS LlmAttempt, FollowUps, FiniteSetTheorems, TLAPS

----------------------------------------------------------------------------
(* LlmAttempt.                                                             *)

RowType == [status : Statuses, count : Nat, retry : {"none", "later", "due"}]

\* The initial state has the invariant.
LEMMA InitIInv == Init => IInv
<1> SUFFICES ASSUME Init PROVE IInv
  OBVIOUS
<1>1. NoRow \in RowType
  BY DEF NoRow, RowType, Statuses
<1>2. row \in RowType /\ object \in [Runners -> RowType]
  BY <1>1 DEF Init
<1>3. TypeOK
  <2>1. faults \in 0..MaxFaults
    BY FaultsAssumption DEF Init
  <2>2. pc \in [Runners -> {"idle", "lock", "begin", "evaluate", "replay", "select", "save",
                            "compare", "alert", "mark", "release"}]
    BY DEF Init
  <2>3. lock \in Runners \cup {Free, Dead} /\ inserts \in [Runners -> BOOLEAN]
    BY DEF Init
  <2>4. review \in BOOLEAN /\ tried \in BOOLEAN /\ marker \in BOOLEAN
    BY DEF Init
  <2>5. kind \in Kinds /\ earlier \in BOOLEAN /\ reached \in BOOLEAN
    BY DEF Init
  <2> QED BY <1>2, <2>1, <2>2, <2>3, <2>4, <2>5 DEF TypeOK, RowType
<1>4. LeaseInv /\ SavedInv
  BY DEF Init, LeaseInv, SavedInv, AlertedOnlyIfSaved
<1> QED BY <1>3, <1>4 DEF IInv

\* Only the token of r is deleted by r.
LEMMA ReleasedLock ==
    ASSUME TypeOK, NEW r \in Runners
    PROVE  /\ Released(r) \in Runners \cup {Free, Dead}
           /\ \A s \in Runners : s # r /\ lock = s => Released(r) = s
  BY DEF TypeOK, Released

\* Every step of every look, and the two clocks, keep the types.
LEMMA StepType ==
    ASSUME TypeOK, [Next]_vars PROVE TypeOK'
<1> USE DEF TypeOK, job
<1>1. CASE UNCHANGED vars
  BY <1>1 DEF vars, job
<1>2. ASSUME NEW r \in Runners, Read(r) \/ Lock(r) PROVE TypeOK'
  BY <1>2 DEF Read, Lock, Goto
<1>3. ASSUME NEW r \in Runners, Begin(r) PROVE TypeOK'
  <2>1. CASE object[r] = NoRow /\ row # NoRow /\ lock' = Released(r) /\ Goto(r, "idle")
             /\ UNCHANGED <<row, object>>
    BY <1>3, <2>1, ReleasedLock DEF Begin, Goto
  <2>2. CASE UNCHANGED lock /\ Goto(r, "evaluate")
    <3>1. object[r].count + 1 \in Nat /\ object[r].count \in Nat
      OBVIOUS
    <3>2. row' \in RowType
      BY <1>3, <2>2, <3>1 DEF Begin, Goto, RowType, Statuses
    <3>3. object' \in [Runners -> RowType]
      BY <1>3, <2>2, <3>1 DEF Begin, Goto, RowType, Statuses
    <3>4. pc' \in [Runners -> {"idle", "lock", "begin", "evaluate", "replay", "select", "save",
                               "compare", "alert", "mark", "release"}]
      BY <2>2 DEF Goto
    <3> QED BY <1>3, <2>2, <3>2, <3>3, <3>4 DEF Begin, RowType
  <2> QED BY <1>3, <2>1, <2>2 DEF Begin
<1>4. ASSUME NEW r \in Runners, EvaluateSucceeds(r) \/ EvaluateFails(r) PROVE TypeOK'
  BY <1>4 DEF EvaluateSucceeds, EvaluateFails, FirstDelivery, Recorded, Goto, Statuses, Terminal, Kinds
<1>5. ASSUME NEW r \in Runners, Replay(r) \/ Compare(r) \/ SelectReview(r) \/ SaveReview(r) PROVE TypeOK'
  BY <1>5 DEF Replay, Owed, Compare, SelectReview, SaveReview, Goto, Kinds
<1>6. ASSUME NEW r \in Runners, Alert(r) \/ SetMarker(r) PROVE TypeOK'
  BY <1>6 DEF Alert, SetMarker, Goto
<1>7. ASSUME NEW r \in Runners, Release(r) PROVE TypeOK'
  BY <1>7, ReleasedLock DEF Release, Goto
<1>8. ASSUME NEW r \in Runners, Interrupt(r) PROVE TypeOK'
  <2>1. faults' \in 0..MaxFaults
    BY <1>8, FaultsAssumption DEF Interrupt
  <2>2. lock' \in Runners \cup {Free, Dead}
    BY <1>8, ReleasedLock DEF Interrupt
  <2> QED BY <1>8, <2>1, <2>2 DEF Interrupt, Goto
<1>9. CASE LockExpires \/ BackoffEnds \/ Reach
  BY <1>9 DEF LockExpires, BackoffEnds, Reach
<1> QED
  BY <1>1, <1>2, <1>3, <1>4, <1>5, <1>6, <1>7, <1>8, <1>9 DEF Next, Step

\* A lease is lost only by its own look: another look releases its own
\* token only, and a key that expires has no owner.
LEMMA StepLease ==
    ASSUME TypeOK, LeaseInv, [Next]_vars PROVE LeaseInv'
<1> USE DEF TypeOK, job, LeaseInv
<1>1. CASE UNCHANGED vars
  BY <1>1 DEF vars, job
<1>2. ASSUME NEW r \in Runners, Read(r) PROVE LeaseInv'
  BY <1>2 DEF Read, Goto
<1>3. ASSUME NEW r \in Runners, Lock(r) PROVE LeaseInv'
  BY <1>3, OwnersAssumption DEF Lock, Goto
<1>4. ASSUME NEW r \in Runners, Begin(r) PROVE LeaseInv'
  BY <1>4, ReleasedLock DEF Begin, Goto
<1>5. ASSUME NEW r \in Runners, EvaluateSucceeds(r) \/ EvaluateFails(r) PROVE LeaseInv'
  BY <1>5 DEF EvaluateSucceeds, EvaluateFails, FirstDelivery, Goto, Kinds
<1>6. ASSUME NEW r \in Runners, Replay(r) \/ Compare(r) \/ SelectReview(r) \/ SaveReview(r) PROVE LeaseInv'
  BY <1>6 DEF Replay, Owed, Compare, SelectReview, SaveReview, Goto, Kinds
<1>7. ASSUME NEW r \in Runners, Alert(r) \/ SetMarker(r) PROVE LeaseInv'
  BY <1>7 DEF Alert, SetMarker, Goto
<1>8. ASSUME NEW r \in Runners, Release(r) \/ Interrupt(r) PROVE LeaseInv'
  BY <1>8, ReleasedLock DEF Release, Interrupt, Goto
<1>9. CASE LockExpires \/ BackoffEnds \/ Reach
  BY <1>9, OwnersAssumption DEF LockExpires, Expirable, BackoffEnds, Reach
<1> QED
  BY <1>1, <1>2, <1>3, <1>4, <1>5, <1>6, <1>7, <1>8, <1>9 DEF Next, Step

\* A review is never deleted, and no look gets to the alert without one.
LEMMA StepSaved ==
    ASSUME TypeOK, SavedInv, [Next]_vars PROVE SavedInv'
<1> USE DEF TypeOK, job, SavedInv, AlertedOnlyIfSaved, Found
<1>1. CASE UNCHANGED vars
  BY <1>1 DEF vars, job
<1>2. ASSUME NEW r \in Runners, Read(r) \/ Lock(r) \/ Begin(r) PROVE SavedInv'
  BY <1>2 DEF Read, Lock, Begin, Goto
<1>3. ASSUME NEW r \in Runners, EvaluateSucceeds(r) \/ EvaluateFails(r) PROVE SavedInv'
  BY <1>3 DEF EvaluateSucceeds, EvaluateFails, FirstDelivery, Goto, Kinds
<1>4. ASSUME NEW r \in Runners, Replay(r) PROVE SavedInv'
  BY <1>4 DEF Replay, Owed, Goto, Kinds
<1>5. ASSUME NEW r \in Runners, Compare(r) \/ SelectReview(r) \/ SaveReview(r) PROVE SavedInv'
  BY <1>5 DEF Compare, SelectReview, SaveReview, Goto, Kinds
<1>6. ASSUME NEW r \in Runners, Alert(r) \/ SetMarker(r) PROVE SavedInv'
  BY <1>6 DEF Alert, SetMarker, Goto
<1>7. ASSUME NEW r \in Runners, Release(r) \/ Interrupt(r) PROVE SavedInv'
  BY <1>7 DEF Release, Interrupt, Goto
<1>8. CASE LockExpires \/ BackoffEnds \/ Reach
  BY <1>8 DEF LockExpires, BackoffEnds, Reach
<1> QED
  BY <1>1, <1>2, <1>3, <1>4, <1>5, <1>6, <1>7, <1>8 DEF Next, Step

\* The invariant holds in every reachable state of src/llm/attempts.py and
\* the quality jobs.
THEOREM IInvHolds == Spec => []IInv
<1>1. Init => IInv
  BY InitIInv
<1>2. IInv /\ [Next]_vars => IInv'
  BY StepType, StepLease, StepSaved DEF IInv
<1> QED BY <1>1, <1>2, PTL DEF Spec

\* The Redis lock of begin_llm_attempt prevents concurrent LLM calls for one
\* attempt, although the row is read before it is taken.
THEOREM OneEvaluationHolds == Spec => []OneEvaluation
<1>1. IInv => OneEvaluation
  BY DEF IInv, LeaseInv, OneEvaluation
<1> QED BY <1>1, IInvHolds, PTL

\* Every alert that the two review jobs or their replays try is about a saved
\* review, and a marker stands for an alert that was tried, not for one that
\* arrived.
THEOREM AlertedOnlyIfSavedHolds == Spec => []AlertedOnlyIfSaved
<1>1. IInv => AlertedOnlyIfSaved
  BY DEF IInv, SavedInv
<1> QED BY <1>1, IInvHolds, PTL

\* A key with an owner has one that is on its way to release it.
LeaseIsUsed ==
    \A r \in Runners : lock = r => pc[r] \notin {"idle", "lock", "replay"}

\* Every way out of begin_llm_attempt and of a look's finally block gives the
\* lock back, or leaves a key that expires: no attempt is blocked by a look
\* that is over.  This is the safety part of AttemptEnds.
THEOREM LeaseIsReturned ==
    /\ Spec => []LeaseIsUsed
    /\ Spec => [](lock # Free => lock \in Expirable \/ \E r \in Runners : lock = r /\ pc[r] # "idle")
<1>1. Init => LeaseIsUsed
  BY OwnersAssumption DEF Init, LeaseIsUsed
<1>2. TypeOK /\ LeaseIsUsed /\ [Next]_vars => LeaseIsUsed'
  <2> SUFFICES ASSUME TypeOK, LeaseIsUsed, [Next]_vars PROVE LeaseIsUsed'
    OBVIOUS
  <2> USE OwnersAssumption DEF TypeOK, job, LeaseIsUsed, Goto
  <2>1. CASE UNCHANGED vars
    BY <2>1 DEF vars, job
  <2>2. ASSUME NEW r \in Runners, Read(r) \/ Lock(r) PROVE LeaseIsUsed'
    BY <2>2 DEF Read, Lock
  <2>3. ASSUME NEW r \in Runners, Begin(r) \/ Release(r) \/ Interrupt(r) PROVE LeaseIsUsed'
    BY <2>3 DEF Begin, Release, Interrupt, Released
  <2>4. ASSUME NEW r \in Runners, EvaluateSucceeds(r) \/ EvaluateFails(r) PROVE LeaseIsUsed'
    BY <2>4 DEF EvaluateSucceeds, EvaluateFails, FirstDelivery, Kinds
  <2>5. ASSUME NEW r \in Runners,
               Replay(r) \/ Compare(r) \/ SelectReview(r) \/ SaveReview(r) \/ Alert(r) \/ SetMarker(r)
        PROVE  LeaseIsUsed'
    BY <2>5 DEF Replay, Owed, Compare, SelectReview, SaveReview, Alert, SetMarker, Kinds
  <2>6. CASE LockExpires \/ BackoffEnds \/ Reach
    BY <2>6 DEF LockExpires, BackoffEnds, Reach
  <2> QED BY <2>1, <2>2, <2>3, <2>4, <2>5, <2>6 DEF Next, Step
<1>3. IInv => TypeOK
  BY DEF IInv
<1>4. Spec => []LeaseIsUsed
  BY <1>1, <1>2, <1>3, IInvHolds, PTL DEF Spec
<1>5. IInv /\ LeaseIsUsed
      => (lock # Free => lock \in Expirable \/ \E r \in Runners : lock = r /\ pc[r] # "idle")
  BY DEF IInv, TypeOK, LeaseIsUsed, Expirable
<1> QED BY <1>4, <1>5, IInvHolds, PTL

----------------------------------------------------------------------------
(* FollowUps.                                                              *)

\* The identifiers of reminders, and of one that is sent and not recorded.
Reminder(c) == <<"reminder", c, 0>>
Reminders == {Reminder(c) : c \in Convs}
Underway == {Reminder(c) : c \in cur["payments"]}

\* A row is chosen once and is out of the list when it is sent.
QueueInv ==
    \A j \in Jobs :
        /\ at[j] # "record" => cur[j] = {}
        /\ at[j] = "idle" => todo[j] = {}
        /\ \A c, d \in cur[j] : c = d /\ c \notin todo[j]

\* A chosen proposal has a follow-up left in the column the job loaded.
DueInv ==
    \A c \in todo["proposals"] \cup cur["proposals"] : copy["proposals"][c].sent < Steps

\* A row that suppresses a reminder, one under way, and what any session or the
\* database says of a reminder stand for one that the provider accepted.
RemindedInv ==
    /\ \A c \in Convs : rows[Reminder(c)] = "active" => Reminder(c) \in accepted
    /\ Underway \subseteq accepted
    /\ \A c \in Convs : db[c].reminded => Reminder(c) \in accepted
    /\ \A s \in People \cup Jobs, c \in Convs : copy[s][c].reminded => Reminder(c) \in accepted

\* Reminders that a fault hides from the count of a day: the row says "error",
\* is missing, or was created on an earlier day than it was sent.
Hidden ==
    {i \in Reminders : \/ rows[i] = "error"
                       \/ rows[i] = "none" /\ i \in accepted /\ i \notin Underway
                       \/ rows[i] = "active" /\ i \in today.accepted /\ i \notin today.created}

\* There are no more of them than faults, and what a run has counted, chosen and
\* sent together stays within the limit.
DayInv ==
    /\ today.accepted \subseteq accepted \cap Reminders /\ today.created \subseteq Reminders
    /\ Cardinality(Hidden) =< mishaps
    /\ Cardinality(Counted) + Cardinality(todo["payments"]) + Cardinality(cur["payments"]) =< DailyLimit

FollowInv == FollowTypeOK /\ QueueInv /\ DueInv /\ RemindedInv /\ DayInv

----------------------------------------------------------------------------
(* Types, and what the jobs have chosen.                                   *)

Stages == {"idle", "loaded", "replied"}
Places == {"idle", "next", "record"}
Sessions == People \cup Jobs

\* The bounds are natural numbers.
LEMMA FollowBounds ==
    /\ Steps \in Nat /\ Steps > 0 /\ MaxPerRun \in Nat /\ MaxPerRun > 0 /\ DailyLimit \in Nat
    /\ MaxTurns \in Nat /\ MaxMishaps \in Nat
  BY StepsAssumption, LimitAssumption, BoundsAssumption

\* The columns that turns, decisions and jobs write are typed.
LEMMA ColumnType ==
    ASSUME NEW column \in Columns
    PROVE  /\ column.sent \in 0..Steps /\ column.reminded \in BOOLEAN
           /\ [column EXCEPT !.stopped = TRUE] \in Columns
           /\ [column EXCEPT !.stopped = TRUE, !.decision = "rejected"] \in Columns
           /\ [column EXCEPT !.stopped = TRUE, !.decision = "approved"] \in Columns
           /\ [column EXCEPT !.paused = TRUE] \in Columns
           /\ \A d \in {"approved", "rejected"} : [column EXCEPT !.decision = d] \in Columns
           /\ [column EXCEPT !.reminded = TRUE] \in Columns
           /\ column.sent < Steps =>
                 column.sent + 1 \in 1..Steps /\ [column EXCEPT !.sent = @ + 1] \in Columns
<1>1. column.sent \in 0..Steps /\ column.reminded \in BOOLEAN
  BY DEF Columns
<1>2. column.sent < Steps => column.sent + 1 \in 1..Steps /\ column.sent + 1 \in 0..Steps
  BY <1>1, FollowBounds
<1>3. column.sent < Steps => [column EXCEPT !.sent = @ + 1] \in Columns
  BY <1>2 DEF Columns
<1>4. \A d \in {"approved", "rejected"} : [column EXCEPT !.decision = d] \in Columns
  BY DEF Columns
<1>5. /\ [column EXCEPT !.stopped = TRUE] \in Columns
      /\ [column EXCEPT !.stopped = TRUE, !.decision = "rejected"] \in Columns
      /\ [column EXCEPT !.stopped = TRUE, !.decision = "approved"] \in Columns
      /\ [column EXCEPT !.paused = TRUE] \in Columns
      /\ [column EXCEPT !.reminded = TRUE] \in Columns
  BY DEF Columns
<1> QED BY <1>1, <1>2, <1>3, <1>4, <1>5

LEMMA ProposedType == Proposed \in Columns /\ Proposed.reminded = FALSE
  BY FollowBounds DEF Proposed, Columns

\* What is written back keeps the database and the session typed.
LEMMA FlushType ==
    ASSUME db \in [Convs -> Columns], NEW c \in Convs, NEW column \in Columns, NEW e,
           Flush(c, column, e)
    PROVE  db' \in [Convs -> Columns]
  BY DEF Flush, Written

LEMMA KeepType ==
    ASSUME copy \in [Sessions -> [Convs -> Columns]], NEW s \in Sessions, NEW c \in Convs,
           NEW column \in Columns, Keep(s, c, column)
    PROVE  copy' \in [Sessions -> [Convs -> Columns]]
  BY DEF Keep

\* Identifiers are typed, and only those of payment reminders are reminders.
LEMMA IdType ==
    ASSUME FollowTypeOK, NEW j \in Jobs, NEW c \in Convs,
           j = "proposals" => copy[j][c].sent < Steps
    PROVE  /\ Id(j, c) \in Ids
           /\ j = "payments" => Id(j, c) = Reminder(c) /\ IsReminder(Id(j, c))
           /\ j = "proposals" => Id(j, c) \notin Reminders /\ ~IsReminder(Id(j, c))
<1>1. CASE j = "payments"
  BY <1>1 DEF Id, Ids, Reminder, IsReminder
<1>2. CASE j = "proposals"
  <2>1. copy[j][c] \in Columns
    BY <1>2 DEF FollowTypeOK, People, Jobs
  <2>2. copy[j][c].sent + 1 \in 1..Steps
    BY <1>2, <2>1, ColumnType
  <2>3. Id(j, c) = <<"followup", c, copy[j][c].sent + 1>>
    BY <1>2 DEF Id
  <2> QED BY <1>2, <2>2, <2>3 DEF Ids, Reminders, Reminder, IsReminder
<1> QED BY <1>1, <1>2 DEF Jobs

\* A reminder is one of the identifiers, and conversations have their own.
LEMMA ReminderType ==
    /\ Reminders \subseteq Ids
    /\ \A c, d \in Convs : Reminder(c) = Reminder(d) => c = d
  BY DEF Reminders, Reminder, Ids

\* The initial state is typed and nothing is chosen.
LEMMA InitTypes == FollowInit => FollowTypeOK /\ QueueInv /\ DueInv
<1> SUFFICES ASSUME FollowInit PROVE FollowTypeOK /\ QueueInv /\ DueInv
  OBVIOUS
<1>1. db \in [Convs -> Columns] /\ copy \in [Sessions -> [Convs -> Columns]]
  BY ProposedType DEF FollowInit, Sessions
<1>2. age \in 0..Steps /\ used \in 0..MaxTurns /\ mishaps \in 0..MaxMishaps
  BY FollowBounds DEF FollowInit
<1>3. stage \in [People -> [Convs -> Stages]]
  BY DEF FollowInit, Stages
<1>4. todo \in [Jobs -> SUBSET Convs] /\ at \in [Jobs -> Places] /\ cur \in [Jobs -> SUBSET Convs]
  BY DEF FollowInit, Places
<1>5. today \in [created : SUBSET Ids, accepted : SUBSET Ids]
  BY DEF FollowInit, Morning
<1>6. rows \in [Ids -> {"none", "error", "active"}] /\ accepted \in SUBSET Ids
      /\ quiet \in SUBSET Convs /\ told \in SUBSET Convs
  BY DEF FollowInit
<1>7. FollowTypeOK
  BY <1>1, <1>2, <1>3, <1>4, <1>5, <1>6 DEF FollowTypeOK, Sessions, Stages, Places
<1>8. QueueInv /\ DueInv
  BY DEF FollowInit, QueueInv, DueInv, Jobs
<1> QED BY <1>7, <1>8

\* A turn or a decision keeps the types, and leaves the jobs alone.
LEMMA PersonTypes ==
    ASSUME FollowTypeOK, NEW c \in Convs,
           Load("turn", c) \/ Reply(c) \/ EndTurn(c) \/ Load("manager", c) \/ Decide(c)
    PROVE  /\ FollowTypeOK' /\ UNCHANGED <<jobs, world, told, mishaps>>
           /\ copy'["proposals"] = copy["proposals"] /\ copy'["payments"] = copy["payments"]
<1> USE DEF FollowTypeOK, jobs, world
<1>1. ASSUME NEW s \in People, Load(s, c)
      PROVE  /\ FollowTypeOK' /\ UNCHANGED <<jobs, world, told, mishaps>>
             /\ copy'["proposals"] = copy["proposals"] /\ copy'["payments"] = copy["payments"]
  BY <1>1, FollowBounds DEF Load, People, Jobs
<1>2. CASE Reply(c)
  <2>1. "turn" \in Sessions /\ "turn" \in People /\ copy["turn"][c] \in Columns
    BY DEF Sessions, People
  <2>2. PICK column \in Columns : Keep("turn", c, column) /\ \E e \in BOOLEAN : Flush(c, column, e)
    BY <1>2, <2>1, ColumnType DEF Reply
  <2>3. db' \in [Convs -> Columns] /\ copy' \in [Sessions -> [Convs -> Columns]]
    BY <2>1, <2>2, FlushType, KeepType DEF Sessions
  <2>4. stage' \in [People -> [Convs -> {"idle", "loaded", "replied"}]] /\ quiet' \in SUBSET Convs
    BY <1>2 DEF Reply, People
  <2>5. copy'["proposals"] = copy["proposals"] /\ copy'["payments"] = copy["payments"]
    BY <2>2 DEF Keep
  <2> QED BY <1>2, <2>3, <2>4, <2>5 DEF Reply, Sessions
<1>3. CASE EndTurn(c)
  <2>1. "turn" \in Sessions /\ "turn" \in People /\ copy["turn"][c] \in Columns
    BY DEF Sessions, People
  <2>2. PICK column \in Columns : \E e \in BOOLEAN : Flush(c, column, e)
    BY <1>3, <2>1, ColumnType DEF EndTurn
  <2>3. db' \in [Convs -> Columns] /\ copy' \in [Sessions -> [Convs -> Columns]]
    BY <1>3, <2>1, <2>2, FlushType, KeepType, ProposedType DEF EndTurn, Sessions
  <2>4. stage' \in [People -> [Convs -> {"idle", "loaded", "replied"}]]
    BY <1>3 DEF EndTurn, People
  <2>5. copy'["proposals"] = copy["proposals"] /\ copy'["payments"] = copy["payments"]
    BY <1>3 DEF EndTurn, Keep
  <2> QED BY <1>3, <2>3, <2>4, <2>5 DEF EndTurn, Sessions
<1>4. CASE Decide(c)
  <2>1. "manager" \in Sessions /\ "manager" \in People /\ copy["manager"][c] \in Columns
    BY DEF Sessions, People
  <2>2. PICK column \in Columns : \E e \in BOOLEAN : Flush(c, column, e)
    BY <1>4, <2>1, ColumnType DEF Decide
  <2>3. db' \in [Convs -> Columns] /\ copy' \in [Sessions -> [Convs -> Columns]]
    BY <1>4, <2>1, <2>2, FlushType, KeepType, ProposedType DEF Decide, Sessions
  <2>4. stage' \in [People -> [Convs -> {"idle", "loaded", "replied"}]]
    BY <1>4 DEF Decide, People
  <2>5. copy'["proposals"] = copy["proposals"] /\ copy'["payments"] = copy["payments"]
    BY <1>4 DEF Decide, Keep
  <2> QED BY <1>4, <2>3, <2>4, <2>5 DEF Decide, Sessions
<1> QED BY <1>1, <1>2, <1>3, <1>4 DEF People

\* A run begins with rows it may choose.
LEMMA ChooseTypes ==
    ASSUME FollowTypeOK, QueueInv, DueInv, ChooseProposals \/ ChoosePayments
    PROVE  FollowTypeOK' /\ QueueInv' /\ DueInv'
<1> USE DEF FollowTypeOK, Jobs, world
<1>1. ASSUME NEW j \in Jobs, NEW candidates \in SUBSET Convs, NEW limit, Choose(j, candidates, limit),
             j = "proposals" => \A c \in candidates : Due(db[c])
      PROVE  FollowTypeOK' /\ QueueInv' /\ DueInv'
  <2>1. PICK S \in SUBSET candidates : todo' = [todo EXCEPT ![j] = S]
    BY <1>1 DEF Choose
  <2>2. /\ at[j] = "idle" /\ at' = [at EXCEPT ![j] = "next"] /\ copy' = [copy EXCEPT ![j] = db]
        /\ told' \in SUBSET Convs /\ UNCHANGED cur
    BY <1>1 DEF Choose
  <2>3. copy' \in [People \cup Jobs -> [Convs -> Columns]]
    BY <2>2
  <2>4. todo' \in [Jobs -> SUBSET Convs] /\ at' \in [Jobs -> {"idle", "next", "record"}]
    BY <2>1, <2>2
  <2>5. FollowTypeOK'
    BY <1>1, <2>2, <2>3, <2>4 DEF Choose
  <2>6. QueueInv'
    BY <2>1, <2>2 DEF QueueInv
  <2>7. \A c \in Convs : Due(db[c]) => db[c].sent < Steps
    <3>1. ASSUME NEW c \in Convs, Due(db[c]) PROVE db[c].sent < Steps
      <4>1. db[c].sent \in 0..Steps
        BY ColumnType
      <4> QED BY <3>1, <4>1, FollowBounds DEF Due
    <3> QED BY <3>1
  <2>8. DueInv'
    <3>1. CASE j = "proposals"
      <4>1. cur["proposals"] = {}
        BY <2>2, <3>1 DEF QueueInv
      <4>2. todo'["proposals"] \subseteq candidates /\ copy'["proposals"] = db
        BY <2>1, <2>2, <3>1
      <4> QED BY <1>1, <2>2, <2>7, <3>1, <4>1, <4>2 DEF DueInv
    <3>2. CASE j = "payments"
      BY <2>1, <2>2, <3>2 DEF DueInv
    <3> QED BY <1>1, <3>1, <3>2
  <2> QED BY <2>5, <2>6, <2>8
<1>2. CASE ChooseProposals
  <2>1. PICK over \in BOOLEAN :
           Choose("proposals", {c \in Convs : Due(db[c]) /\ (db[c].paused => over)}, MaxPerRun)
    BY <1>2 DEF ChooseProposals
  <2> QED BY <1>1, <2>1
<1>3. CASE ChoosePayments
  <2>1. Choose("payments", {c \in Convs : db[c].decision = "approved"}, Attempts)
    BY <1>3 DEF ChoosePayments
  <2> QED BY <1>1, <2>1
<1> QED BY <1>2, <1>3

\* A row that is taken to its send, or was, has a typed identifier.
LEMMA TakenId ==
    ASSUME FollowTypeOK, DueInv, NEW j \in Jobs, NEW c \in Convs, c \in todo[j] \/ c \in cur[j]
    PROVE  /\ Id(j, c) \in Ids
           /\ j = "payments" => Id(j, c) = Reminder(c) /\ IsReminder(Id(j, c))
           /\ j = "proposals" => Id(j, c) \notin Reminders /\ ~IsReminder(Id(j, c))
  BY IdType DEF DueInv

\* Fewer rows, and none at the send, are as good.
LEMMA QueueShrinks ==
    ASSUME FollowTypeOK, QueueInv, DueInv, NEW j \in Jobs, NEW c \in Convs,
           todo' = [todo EXCEPT ![j] = @ \ {c}] \/ UNCHANGED todo,
           UNCHANGED <<at, cur, copy>>
    PROVE  QueueInv' /\ DueInv' /\ todo' \in [Jobs -> SUBSET Convs]
<1>1. \A k \in Jobs : todo'[k] \subseteq todo[k]
  BY DEF FollowTypeOK
<1> QED BY <1>1 DEF FollowTypeOK, QueueInv, DueInv, Jobs

\* Accepting and committing keep the rows typed.
LEMMA RowTypes ==
    ASSUME FollowTypeOK, NEW id \in Ids
    PROVE  /\ Accept(id) => accepted' \in SUBSET Ids
                            /\ today' \in [created : SUBSET Ids, accepted : SUBSET Ids]
           /\ \A status \in {"error", "active"} : CommitRow(id, status) =>
                 /\ rows' \in [Ids -> {"none", "error", "active"}]
                 /\ today' \in [created : SUBSET Ids, accepted : SUBSET Ids]
<1> USE DEF FollowTypeOK
<1>1. [today EXCEPT !.accepted = @ \cup {id}] \in [created : SUBSET Ids, accepted : SUBSET Ids]
  OBVIOUS
<1>2. [today EXCEPT !.created = @ \cup {id}] \in [created : SUBSET Ids, accepted : SUBSET Ids]
  OBVIOUS
<1> QED BY <1>1, <1>2 DEF Accept, CommitRow

\* A job's step keeps the types and the lists.
LEMMA JobTypes ==
    ASSUME FollowTypeOK, QueueInv, DueInv, NEW j \in Jobs, Job(j)
    PROVE  FollowTypeOK' /\ QueueInv' /\ DueInv'
<1> USE DEF people, world
<1>1. CASE Duplicate(j)
  <2>1. PICK c \in Convs : todo' = [todo EXCEPT ![j] = @ \ {c}]
    BY <1>1 DEF Duplicate, FollowTypeOK
  <2>2. QueueInv' /\ DueInv' /\ todo' \in [Jobs -> SUBSET Convs]
    BY <1>1, <2>1, QueueShrinks DEF Duplicate
  <2> QED BY <1>1, <2>2 DEF Duplicate, FollowTypeOK
<1>2. CASE Send(j)
  <2>1. PICK c \in Convs :
           /\ Take(j, c)
           /\ \/ UNCHANGED <<accepted, today>>
              \/ Accept(Id(j, c))
           /\ cur' = [cur EXCEPT ![j] = {c}]
    BY <1>2 DEF Send
  <2>2. c \in todo[j] /\ at[j] = "next" /\ todo' = [todo EXCEPT ![j] = @ \ {c}]
    BY <2>1 DEF Take
  <2>3. at' = [at EXCEPT ![j] = "record"] /\ UNCHANGED copy
    BY <1>2 DEF Send
  <2>4. accepted' \in SUBSET Ids /\ today' \in [created : SUBSET Ids, accepted : SUBSET Ids]
    BY <2>1, <2>2, TakenId, RowTypes DEF FollowTypeOK
  <2>5. /\ todo' \in [Jobs -> SUBSET Convs] /\ cur' \in [Jobs -> SUBSET Convs]
        /\ at' \in [Jobs -> {"idle", "next", "record"}]
    BY <2>1, <2>2, <2>3 DEF FollowTypeOK
  <2>6. FollowTypeOK'
    BY <1>2, <2>4, <2>5 DEF Send, FollowTypeOK
  <2>7. QueueInv'
    <3>1. \A k \in Jobs : k # j => todo'[k] = todo[k] /\ cur'[k] = cur[k] /\ at'[k] = at[k]
      BY <2>1, <2>2, <2>3 DEF FollowTypeOK
    <3>2. todo'[j] = todo[j] \ {c} /\ cur'[j] = {c} /\ at'[j] = "record"
      BY <2>1, <2>2, <2>3 DEF FollowTypeOK
    <3> QED BY <3>1, <3>2 DEF QueueInv
  <2>8. todo'["proposals"] \cup cur'["proposals"] \subseteq todo["proposals"] \cup cur["proposals"]
    BY <2>1, <2>2 DEF FollowTypeOK, Jobs
  <2> QED BY <2>3, <2>6, <2>7, <2>8 DEF DueInv
<1>3. CASE Repeated(j)
  <2>1. PICK c \in Convs : Take(j, c) /\ CommitRow(Id(j, c), "active")
    BY <1>3 DEF Repeated
  <2>2. c \in todo[j] /\ todo' = [todo EXCEPT ![j] = @ \ {c}]
    BY <2>1 DEF Take
  <2>3. QueueInv' /\ DueInv' /\ todo' \in [Jobs -> SUBSET Convs]
    BY <1>3, <2>2, QueueShrinks DEF Repeated
  <2>4. /\ rows' \in [Ids -> {"none", "error", "active"}]
        /\ today' \in [created : SUBSET Ids, accepted : SUBSET Ids]
    BY <2>1, <2>2, TakenId, RowTypes
  <2> QED BY <1>3, <2>3, <2>4 DEF Repeated, FollowTypeOK
<1>4. CASE Refused(j)
  <2>1. PICK c \in Convs : Take(j, c) /\ CommitRow(Id(j, c), "error")
    BY <1>4 DEF Refused
  <2>2. c \in todo[j] /\ todo' = [todo EXCEPT ![j] = @ \ {c}]
    BY <2>1 DEF Take
  <2>3. QueueInv' /\ DueInv' /\ todo' \in [Jobs -> SUBSET Convs]
    BY <1>4, <2>2, QueueShrinks DEF Refused
  <2>4. /\ rows' \in [Ids -> {"none", "error", "active"}]
        /\ today' \in [created : SUBSET Ids, accepted : SUBSET Ids]
    BY <2>1, <2>2, TakenId, RowTypes
  <2>5. mishaps' \in 0..MaxMishaps
    BY <1>4, FollowBounds DEF Refused, Mishap, FollowTypeOK
  <2> QED BY <1>4, <2>3, <2>4, <2>5 DEF Refused, FollowTypeOK
<1>5. CASE AnswerLost(j)
  <2>1. PICK c \in Convs :
          /\ Take(j, c) /\ accepted' = accepted \cup {Id(j, c)}
          /\ rows' = [rows EXCEPT ![Id(j, c)] = "error"]
          /\ today' = IF ~IsReminder(Id(j, c)) THEN today
                      ELSE [created |-> today.created \cup (IF rows[Id(j, c)] = "none" THEN {Id(j, c)} ELSE {}),
                            accepted |-> today.accepted \cup {Id(j, c)}]
    BY <1>5 DEF AnswerLost
  <2>2. c \in todo[j] /\ todo' = [todo EXCEPT ![j] = @ \ {c}]
    BY <2>1 DEF Take
  <2>3. QueueInv' /\ DueInv' /\ todo' \in [Jobs -> SUBSET Convs]
    BY <1>5, <2>2, QueueShrinks DEF AnswerLost
  <2>4. Id(j, c) \in Ids
    BY <2>2, TakenId
  <2>5. /\ rows' \in [Ids -> {"none", "error", "active"}] /\ accepted' \in SUBSET Ids
        /\ today' \in [created : SUBSET Ids, accepted : SUBSET Ids]
    BY <2>1, <2>4 DEF FollowTypeOK
  <2>6. mishaps' \in 0..MaxMishaps
    BY <1>5, FollowBounds DEF AnswerLost, Mishap, FollowTypeOK
  <2> QED BY <1>5, <2>3, <2>5, <2>6 DEF AnswerLost, FollowTypeOK
<1>6. CASE Record(j)
  <2>1. PICK c \in cur[j] :
          /\ Flush(c, AfterSend(j, copy[j][c]), j = "payments")
          /\ Keep(j, c, AfterSend(j, copy[j][c]))
          /\ CommitRow(Id(j, c), "active")
    BY <1>6 DEF Record
  <2>2. c \in Convs /\ copy[j][c] \in Columns /\ j \in Sessions
    BY DEF FollowTypeOK, Sessions
  <2>3. AfterSend(j, copy[j][c]) \in Columns
    BY <2>2, ColumnType DEF AfterSend, DueInv, Jobs
  <2>4. db' \in [Convs -> Columns] /\ copy' \in [Sessions -> [Convs -> Columns]]
    BY <2>1, <2>2, <2>3, FlushType, KeepType DEF FollowTypeOK, Sessions
  <2>5. /\ rows' \in [Ids -> {"none", "error", "active"}]
        /\ today' \in [created : SUBSET Ids, accepted : SUBSET Ids]
    BY <2>1, <2>2, TakenId, RowTypes
  <2>6. /\ at' = [at EXCEPT ![j] = "next"] /\ cur' = [cur EXCEPT ![j] = {}] /\ UNCHANGED todo
        /\ at[j] = "record"
    BY <1>6 DEF Record
  <2>7. cur' \in [Jobs -> SUBSET Convs] /\ at' \in [Jobs -> {"idle", "next", "record"}]
    BY <2>6 DEF FollowTypeOK
  <2>8. FollowTypeOK'
    BY <1>6, <2>4, <2>5, <2>7 DEF Record, FollowTypeOK, Sessions
  <2>9. QueueInv'
    BY <2>6 DEF QueueInv, FollowTypeOK
  <2>10. DueInv'
    <3>1. c \notin todo[j]
      BY DEF QueueInv
    <3>2. \A k \in Sessions, d \in Convs : k # j \/ d # c => copy'[k][d] = copy[k][d]
      BY <2>1, <2>2 DEF Keep, FollowTypeOK, Sessions
    <3>3. todo'["proposals"] \cup cur'["proposals"] \subseteq todo["proposals"] \cup cur["proposals"]
          /\ cur'[j] = {}
      BY <2>6 DEF FollowTypeOK, Jobs
    <3>4. ASSUME NEW d \in todo'["proposals"] \cup cur'["proposals"]
          PROVE  copy'["proposals"][d] = copy["proposals"][d] /\ d \in todo["proposals"] \cup cur["proposals"]
      BY <2>6, <3>1, <3>2, <3>3 DEF FollowTypeOK, Jobs, Sessions
    <3> QED BY <3>4 DEF DueInv
  <2> QED BY <2>8, <2>9, <2>10
<1>7. CASE Finish(j) \/ Die(j)
  <2>1. Close(j)
    BY <1>7 DEF Finish, Die
  <2>2. mishaps' \in 0..MaxMishaps
    BY <1>7, FollowBounds DEF Finish, Die, Mishap, FollowTypeOK
  <2>3. /\ at' = [at EXCEPT ![j] = "idle"] /\ todo' = [todo EXCEPT ![j] = {}]
        /\ cur' = [cur EXCEPT ![j] = {}] /\ copy' = [copy EXCEPT ![j] = [d \in Convs |-> Proposed]]
        /\ told' \in SUBSET Convs
    BY <2>1 DEF Close, FollowTypeOK
  <2>4. copy' \in [People \cup Jobs -> [Convs -> Columns]]
    BY <2>3, ProposedType DEF FollowTypeOK
  <2>5. /\ todo' \in [Jobs -> SUBSET Convs] /\ cur' \in [Jobs -> SUBSET Convs]
        /\ at' \in [Jobs -> {"idle", "next", "record"}]
    BY <2>3 DEF FollowTypeOK
  <2>6. FollowTypeOK'
    BY <2>1, <2>2, <2>3, <2>4, <2>5 DEF Close, FollowTypeOK
  <2>7. QueueInv'
    BY <2>3 DEF QueueInv, FollowTypeOK
  <2>8. DueInv'
    BY <2>3 DEF DueInv, FollowTypeOK, Jobs, People
  <2> QED BY <2>6, <2>7, <2>8
<1> QED BY <1>1, <1>2, <1>3, <1>4, <1>5, <1>6, <1>7 DEF Job

\* Time keeps the types.
LEMMA TimeTypes ==
    ASSUME FollowTypeOK, Tick \/ NewDay
    PROVE  FollowTypeOK' /\ UNCHANGED <<copy, db, jobs, rows, accepted, mishaps>>
<1>1. Morning \in [created : SUBSET Ids, accepted : SUBSET Ids]
  BY DEF Morning
<1>2. CASE Tick
  <2>1. age' \in 0..Steps
    BY <1>2, FollowBounds DEF Tick, FollowTypeOK
  <2> QED BY <1>2, <2>1 DEF Tick, FollowTypeOK, people, jobs, world
<1>3. CASE NewDay
  BY <1>1, <1>3 DEF NewDay, FollowTypeOK, people, jobs
<1> QED BY <1>2, <1>3

\* Every step keeps the types and what the jobs have chosen.
LEMMA FollowStepTypes ==
    ASSUME FollowTypeOK, QueueInv, DueInv, [FollowNext]_followVars
    PROVE  FollowTypeOK' /\ QueueInv' /\ DueInv'
<1>1. ASSUME NEW c \in Convs,
             Load("turn", c) \/ Reply(c) \/ EndTurn(c) \/ Load("manager", c) \/ Decide(c)
      PROVE  FollowTypeOK' /\ QueueInv' /\ DueInv'
  BY <1>1, PersonTypes DEF jobs, QueueInv, DueInv
<1>2. CASE Tick \/ NewDay
  BY <1>2, TimeTypes DEF jobs, QueueInv, DueInv
<1>3. CASE UNCHANGED followVars
  BY <1>3 DEF followVars, people, jobs, world, FollowTypeOK, QueueInv, DueInv
<1> QED BY <1>1, <1>2, <1>3, ChooseTypes, JobTypes DEF FollowNext

----------------------------------------------------------------------------
(* What is recorded as reminded was accepted.                              *)

\* What turns and decisions write does not touch the reminder's state.
LEMMA ColumnReminded ==
    ASSUME NEW column \in Columns
    PROVE  /\ [column EXCEPT !.stopped = TRUE].reminded = column.reminded
           /\ [column EXCEPT !.stopped = TRUE, !.decision = "rejected"].reminded = column.reminded
           /\ [column EXCEPT !.stopped = TRUE, !.decision = "approved"].reminded = column.reminded
           /\ [column EXCEPT !.paused = TRUE].reminded = column.reminded
           /\ \A d \in {"approved", "rejected"} : [column EXCEPT !.decision = d].reminded = column.reminded
  BY DEF Columns

\* A row is written for its identifier alone.
LEMMA RowWritten ==
    ASSUME FollowTypeOK, NEW id \in Ids, NEW status, CommitRow(id, status)
    PROVE  /\ rows'[id] = status
           /\ \A i \in Ids : i # id => rows'[i] = rows[i]
  BY DEF CommitRow, FollowTypeOK

\* The column of a session may be written back, and kept.
LEMMA WriteBack ==
    ASSUME FollowTypeOK, RemindedInv, NEW c \in Convs, NEW column, NEW e,
           column.reminded => Reminder(c) \in accepted
    PROVE  /\ Flush(c, column, e) => \A d \in Convs : db'[d].reminded => Reminder(d) \in accepted
           /\ \A s \in Sessions : Keep(s, c, column) =>
                 \A k \in Sessions, d \in Convs : copy'[k][d].reminded => Reminder(d) \in accepted
<1>1. Flush(c, column, e) => \A d \in Convs : db'[d] = db[d] \/ (d = c /\ db'[d] = column)
  BY DEF Flush, FollowTypeOK
<1>2. \A s \in Sessions : Keep(s, c, column) =>
         \A k \in Sessions, d \in Convs : copy'[k][d] = copy[k][d] \/ (d = c /\ copy'[k][d] = column)
  BY DEF Keep, FollowTypeOK, Sessions
<1> QED BY <1>1, <1>2 DEF RemindedInv, Sessions

\* A turn and a decision leave the reminder's state as they loaded it.
LEMMA PersonReminded ==
    ASSUME FollowTypeOK, RemindedInv, NEW c \in Convs,
           Load("turn", c) \/ Reply(c) \/ EndTurn(c) \/ Load("manager", c) \/ Decide(c)
    PROVE  RemindedInv'
<1>1. UNCHANGED <<rows, accepted, cur>>
  BY PersonTypes DEF jobs, world
<1>2. ASSUME \A d \in Convs : db'[d].reminded => Reminder(d) \in accepted,
             \A k \in Sessions, d \in Convs : copy'[k][d].reminded => Reminder(d) \in accepted
      PROVE  RemindedInv'
  BY <1>1, <1>2 DEF RemindedInv, Underway, Sessions
<1>3. \A s \in Sessions : copy[s][c] \in Columns /\ (copy[s][c].reminded => Reminder(c) \in accepted)
  BY DEF RemindedInv, FollowTypeOK, Sessions
<1>4. "turn" \in Sessions /\ "manager" \in Sessions /\ "turn" \in People /\ "manager" \in People
  BY DEF Sessions, People
<1>5. ASSUME NEW s \in People, Load(s, c) PROVE RemindedInv'
  <2>1. \A k \in Sessions, d \in Convs : copy'[k][d] = copy[k][d] \/ copy'[k][d] = db[d]
    BY <1>5 DEF Load, FollowTypeOK, Sessions
  <2>2. UNCHANGED db
    BY <1>5 DEF Load
  <2> QED BY <1>2, <2>1, <2>2 DEF RemindedInv, Sessions
<1>6. CASE Reply(c)
  <2>1. PICK column \in Columns : /\ Keep("turn", c, column) /\ \E e \in BOOLEAN : Flush(c, column, e)
                                  /\ column.reminded = copy["turn"][c].reminded
    <3> DEFINE old == copy["turn"][c]
    <3>1. \E column \in {[old EXCEPT !.stopped = TRUE, !.decision = "rejected"],
                         [old EXCEPT !.stopped = TRUE], [old EXCEPT !.paused = TRUE]} :
             Keep("turn", c, column) /\ \E e \in BOOLEAN : Flush(c, column, e)
      BY <1>6 DEF Reply
    <3>2. old \in Columns
      BY <1>3, <1>4
    <3>3. \A column \in {[old EXCEPT !.stopped = TRUE, !.decision = "rejected"],
                         [old EXCEPT !.stopped = TRUE], [old EXCEPT !.paused = TRUE]} :
             column \in Columns /\ column.reminded = old.reminded
      BY <3>2, ColumnType, ColumnReminded
    <3> HIDE DEF old
    <3> QED BY <3>1, <3>3 DEF old
  <2> QED BY <1>2, <1>3, <1>4, <2>1, WriteBack
<1>7. CASE EndTurn(c)
  <2>1. PICK column \in Columns : /\ \E e \in BOOLEAN : Flush(c, column, e)
                                  /\ column.reminded = copy["turn"][c].reminded
    BY <1>3, <1>4, <1>7, ColumnType, ColumnReminded DEF EndTurn
  <2>2. \A d \in Convs : db'[d].reminded => Reminder(d) \in accepted
    BY <1>3, <1>4, <2>1, WriteBack
  <2>3. Keep("turn", c, Proposed)
    BY <1>7 DEF EndTurn
  <2>4. \A k \in Sessions, d \in Convs : copy'[k][d].reminded => Reminder(d) \in accepted
    BY <1>4, <2>3, ProposedType, WriteBack
  <2> QED BY <1>2, <2>2, <2>4
<1>8. CASE Decide(c)
  <2>1. PICK column \in Columns : /\ \E e \in BOOLEAN : Flush(c, column, e)
                                  /\ column.reminded = copy["manager"][c].reminded
    BY <1>3, <1>4, <1>8, ColumnType, ColumnReminded DEF Decide
  <2>2. \A d \in Convs : db'[d].reminded => Reminder(d) \in accepted
    BY <1>3, <1>4, <2>1, WriteBack
  <2>3. Keep("manager", c, Proposed)
    BY <1>8 DEF Decide
  <2>4. \A k \in Sessions, d \in Convs : copy'[k][d].reminded => Reminder(d) \in accepted
    BY <1>4, <2>3, ProposedType, WriteBack
  <2> QED BY <1>2, <2>2, <2>4
<1> QED BY <1>4, <1>5, <1>6, <1>7, <1>8

\* A run loads what the database says; its session ends with nothing.
LEMMA ChooseReminded ==
    ASSUME FollowTypeOK, RemindedInv, ChooseProposals \/ ChoosePayments
    PROVE  RemindedInv'
<1>1. UNCHANGED <<db, rows, accepted, cur>>
  BY DEF ChooseProposals, ChoosePayments, Choose, world
<1>2. PICK j \in Jobs : copy' = [copy EXCEPT ![j] = db]
  BY DEF ChooseProposals, ChoosePayments, Choose, Jobs
<1>3. \A k \in Sessions : copy'[k] = copy[k] \/ copy'[k] = db
  BY <1>2 DEF FollowTypeOK, Sessions
<1> QED BY <1>1, <1>3 DEF RemindedInv, Underway, Sessions

\* A reminder is recorded, and its row suppresses another, only with the
\* acceptance it stands for.
LEMMA JobReminded ==
    ASSUME FollowTypeOK, QueueInv, DueInv, RemindedInv, NEW j \in Jobs, Job(j)
    PROVE  RemindedInv'
<1> USE DEF people, world
<1>1. CASE Duplicate(j)
  BY <1>1 DEF Duplicate, RemindedInv, Underway
<1>2. CASE Send(j)
  <2>1. PICK c \in Convs :
           /\ c \in todo[j] /\ cur' = [cur EXCEPT ![j] = {c}]
           /\ \/ Suppresses(Id(j, c)) /\ UNCHANGED accepted
              \/ accepted' = accepted \cup {Id(j, c)}
    BY <1>2 DEF Send, Take, Accept
  <2>2. UNCHANGED <<db, copy, rows>> /\ accepted \subseteq accepted'
    BY <1>2, <2>1 DEF Send
  <2>3. Underway' \subseteq accepted'
    <3>1. CASE j = "payments"
      <4>1. Id(j, c) = Reminder(c)
        BY <2>1, <3>1, TakenId
      <4>2. Reminder(c) \in accepted'
        BY <2>1, <4>1 DEF Suppresses, RemindedInv
      <4>3. cur'["payments"] = {c}
        BY <2>1, <3>1 DEF FollowTypeOK
      <4> QED BY <4>2, <4>3 DEF Underway
    <3>2. CASE j # "payments"
      <4>1. cur'["payments"] = cur["payments"]
        BY <2>1, <3>2 DEF FollowTypeOK, Jobs
      <4> QED BY <2>2, <4>1 DEF RemindedInv, Underway
    <3> QED BY <3>1, <3>2
  <2> QED BY <2>2, <2>3 DEF RemindedInv
<1>3. CASE Repeated(j)
  <2>1. PICK c \in Convs : c \in todo[j] /\ Id(j, c) \in accepted /\ CommitRow(Id(j, c), "active")
    BY <1>3 DEF Repeated, Take
  <2>2. \A i \in Ids : rows'[i] = rows[i] \/ i \in accepted
    BY <2>1, TakenId, RowWritten
  <2> QED BY <1>3, <2>2, ReminderType DEF Repeated, RemindedInv, Underway, Reminders
<1>4. CASE Refused(j)
  <2>1. PICK c \in Convs : c \in todo[j] /\ CommitRow(Id(j, c), "error")
    BY <1>4 DEF Refused, Take
  <2>2. \A i \in Ids : rows'[i] = rows[i] \/ rows'[i] # "active"
    BY <2>1, TakenId, RowWritten
  <2> QED BY <1>4, <2>2, ReminderType DEF Refused, RemindedInv, Underway, Reminders
<1>5. CASE AnswerLost(j)
  <2>1. PICK c \in Convs : /\ accepted' = accepted \cup {Id(j, c)}
                           /\ rows' = [rows EXCEPT ![Id(j, c)] = "error"]
    BY <1>5 DEF AnswerLost
  <2>2. \A i \in Ids : rows'[i] = rows[i] \/ rows'[i] # "active"
    BY <2>1 DEF FollowTypeOK
  <2> QED BY <1>5, <2>1, <2>2, ReminderType DEF AnswerLost, RemindedInv, Underway, Reminders
<1>6. CASE Record(j)
  <2>1. PICK c \in cur[j] :
          /\ Flush(c, AfterSend(j, copy[j][c]), j = "payments")
          /\ Keep(j, c, AfterSend(j, copy[j][c]))
          /\ CommitRow(Id(j, c), "active")
    BY <1>6 DEF Record
  <2>2. c \in Convs /\ j \in Sessions /\ copy[j][c] \in Columns
    BY DEF FollowTypeOK, Sessions
  <2>3. UNCHANGED accepted /\ Underway' \subseteq Underway
    BY <1>6 DEF Record, FollowTypeOK, Underway, Jobs
  <2>4. j = "payments" => Reminder(c) \in accepted /\ Id(j, c) = Reminder(c)
    BY <2>1, <2>2, TakenId DEF RemindedInv, Underway
  <2>5. AfterSend(j, copy[j][c]).reminded => Reminder(c) \in accepted
    BY <2>2, <2>4 DEF AfterSend, RemindedInv, Columns, Jobs, Sessions
  <2>6. /\ \A d \in Convs : db'[d].reminded => Reminder(d) \in accepted
        /\ \A k \in Sessions, d \in Convs : copy'[k][d].reminded => Reminder(d) \in accepted
    BY <2>1, <2>2, <2>5, WriteBack
  <2>7. \A i \in Reminders : rows'[i] = rows[i] \/ i \in accepted
    BY <2>1, <2>2, <2>4, TakenId, RowWritten, ReminderType DEF Jobs
  <2> QED BY <2>3, <2>6, <2>7 DEF RemindedInv, Reminders, Sessions
<1>7. CASE Finish(j) \/ Die(j)
  <2>1. Close(j)
    BY <1>7 DEF Finish, Die
  <2>2. UNCHANGED <<db, rows, accepted>> /\ Underway' \subseteq Underway
    BY <2>1 DEF Close, Underway, FollowTypeOK, Jobs
  <2>3. \A k \in Sessions, d \in Convs : copy'[k][d] = copy[k][d] \/ copy'[k][d] = Proposed
    BY <2>1 DEF Close, FollowTypeOK, Sessions
  <2> QED BY <2>2, <2>3, ProposedType DEF RemindedInv, Sessions
<1> QED BY <1>1, <1>2, <1>3, <1>4, <1>5, <1>6, <1>7 DEF Job

\* Every step keeps what reminders stand for.
LEMMA StepReminded ==
    ASSUME FollowTypeOK, QueueInv, DueInv, RemindedInv, [FollowNext]_followVars
    PROVE  RemindedInv'
<1>1. CASE Tick \/ NewDay
  BY <1>1, TimeTypes DEF jobs, RemindedInv, Underway
<1>2. CASE UNCHANGED followVars
  BY <1>2 DEF followVars, people, jobs, world, RemindedInv, Underway
<1> QED BY <1>1, <1>2, PersonReminded, ChooseReminded, JobReminded DEF FollowNext

----------------------------------------------------------------------------
(* The daily limit.                                                        *)

\* Subsets of a finite set, and of one with an element more.
LEMMA Within ==
    ASSUME NEW T, IsFiniteSet(T), NEW S, S \subseteq T
    PROVE  IsFiniteSet(S) /\ Cardinality(S) \in Nat /\ Cardinality(T) \in Nat
           /\ Cardinality(S) =< Cardinality(T)
  BY FS_Subset, FS_CardinalityType

LEMMA WithinOneMore ==
    ASSUME NEW T, IsFiniteSet(T), NEW x, NEW S, S \subseteq T \cup {x}
    PROVE  IsFiniteSet(S) /\ Cardinality(S) \in Nat /\ Cardinality(T) \in Nat
           /\ Cardinality(S) =< Cardinality(T) + 1
<1>1. IsFiniteSet(T \cup {x}) /\ Cardinality(T \cup {x}) =< Cardinality(T) + 1
      /\ Cardinality(T) \in Nat /\ Cardinality(T \cup {x}) \in Nat
  <2>1. IsFiniteSet(T \cup {x})
        /\ Cardinality(T \cup {x}) = IF x \in T THEN Cardinality(T) ELSE Cardinality(T) + 1
    BY FS_AddElement
  <2> QED BY <2>1, FS_CardinalityType
<1> QED BY <1>1, Within

LEMMA OneLess ==
    ASSUME NEW T, IsFiniteSet(T), NEW x \in T
    PROVE  Cardinality(T \ {x}) = Cardinality(T) - 1 /\ Cardinality(T \ {x}) \in Nat
  BY FS_RemoveElement, FS_CardinalityType

\* A union has no more elements than its parts.
LEMMA UnionSize ==
    ASSUME NEW S, IsFiniteSet(S), NEW T, IsFiniteSet(T)
    PROVE  IsFiniteSet(S \cup T) /\ Cardinality(S \cup T) \in Nat
           /\ Cardinality(S \cup T) =< Cardinality(S) + Cardinality(T)
<1>1. IsFiniteSet(S \cup T)
      /\ Cardinality(S \cup T) = Cardinality(S) + Cardinality(T) - Cardinality(S \cap T)
  BY FS_Union
<1>2. IsFiniteSet(S \cap T)
  BY FS_Intersection
<1> QED BY <1>1, <1>2, FS_CardinalityType

\* The sets whose sizes are compared are finite.
LEMMA RemindersFinite == IsFiniteSet(Reminders)
<1> DEFINE f == [i \in Reminders |-> i[2]]
<1>1. \A i \in Reminders : i[2] \in Convs /\ i = Reminder(i[2])
  BY DEF Reminders, Reminder
<1>2. f \in [Reminders -> Convs]
  BY <1>1
<1>3. \A a, b \in Reminders : f[a] = f[b] => a = b
  BY <1>1
<1>4. f \in Injection(Reminders, Convs)
  BY <1>2, <1>3 DEF Injection, IsInjective
<1> QED BY <1>4, ConvsAssumption, FS_Injection

LEMMA DayFinite ==
    ASSUME FollowTypeOK, today.created \subseteq Reminders
    PROVE  /\ IsFiniteSet(Hidden) /\ IsFiniteSet(Counted)
           /\ \A j \in Jobs : IsFiniteSet(todo[j]) /\ IsFiniteSet(cur[j])
<1>1. Hidden \subseteq Reminders /\ Counted \subseteq Reminders
  BY DEF Hidden, Counted
<1>2. \A j \in Jobs : todo[j] \subseteq Convs /\ cur[j] \subseteq Convs
  BY DEF FollowTypeOK
<1> QED BY <1>1, <1>2, RemindersFinite, ConvsAssumption, FS_Subset

\* What leaves the reminders' rows, the day and the reminders' run alone.
LEMMA DayKept ==
    ASSUME DayInv, FollowTypeOK, FollowTypeOK', \A i \in Reminders : rows'[i] = rows[i], UNCHANGED today,
           \A i \in Reminders : i \in accepted' <=> i \in accepted,
           todo'["payments"] = todo["payments"], cur'["payments"] = cur["payments"],
           mishaps' >= mishaps
    PROVE  DayInv'
<1>1. Underway' = Underway
  BY DEF Underway
<1>2. Hidden' = Hidden
  BY <1>1 DEF Hidden
<1>3. Counted' = Counted
  BY DEF Counted, DayInv
<1>4. Cardinality(Hidden) \in Nat
  BY DayFinite, FS_CardinalityType DEF DayInv
<1> QED BY <1>2, <1>3, <1>4 DEF DayInv, FollowTypeOK

\* The initial state has the invariant.
LEMMA InitFollow == FollowInit => FollowInv
<1> SUFFICES ASSUME FollowInit PROVE FollowInv
  OBVIOUS
<1>1. FollowTypeOK /\ QueueInv /\ DueInv
  BY InitTypes
<1>2. /\ \A c \in Convs : db[c] = Proposed
      /\ \A s \in Sessions, c \in Convs : copy[s][c] = Proposed
  BY DEF FollowInit, Sessions
<1>3. Underway = {} /\ \A i \in Ids : rows[i] = "none"
  BY DEF FollowInit, Underway, Jobs
<1>4. RemindedInv
  <2>1. \A c \in Convs : rows[Reminder(c)] = "none"
    BY <1>3, ReminderType DEF Reminders
  <2> QED BY <1>2, <1>3, <2>1, ProposedType DEF RemindedInv, Sessions
<1>5. Hidden = {} /\ Counted = {} /\ todo["payments"] = {} /\ cur["payments"] = {}
  BY <1>3, ReminderType DEF FollowInit, Hidden, Counted, Morning, Jobs
<1>6. mishaps = 0 /\ today.accepted = {} /\ today.created = {}
  BY DEF FollowInit, Morning
<1>7. DayInv
  <2>1. Cardinality({}) = 0
    BY FS_EmptySet
  <2> QED BY <1>5, <1>6, <2>1, FollowBounds DEF DayInv
<1> QED BY <1>1, <1>4, <1>7 DEF FollowInv

\* A run chooses no more reminders than the committed rows of the day leave.
LEMMA ChooseDay ==
    ASSUME FollowTypeOK, QueueInv, DueInv, DayInv, ChooseProposals \/ ChoosePayments
    PROVE  DayInv'
<1>1. FollowTypeOK' /\ UNCHANGED <<rows, accepted, today, cur, mishaps>>
  BY ChooseTypes DEF ChooseProposals, ChoosePayments, Choose, world
<1>2. CASE ChooseProposals
  <2>1. todo'["payments"] = todo["payments"]
    BY <1>2 DEF ChooseProposals, Choose, FollowTypeOK, Jobs
  <2> QED BY <1>1, <2>1, DayKept DEF FollowTypeOK
<1>3. CASE ChoosePayments
  <2> DEFINE candidates == {c \in Convs : db[c].decision = "approved"}
             left == IF Cardinality(Counted) < DailyLimit
                     THEN DailyLimit - Cardinality(Counted) ELSE 0
  <2>1. PICK S \in SUBSET candidates :
           /\ S # {} /\ Cardinality(S) = Cap(candidates, Attempts)
           /\ todo' = [todo EXCEPT !["payments"] = S]
    BY <1>3 DEF ChoosePayments, Choose
  <2>2. Cardinality(Counted) \in Nat /\ left \in Nat
    BY DayFinite, FS_CardinalityType, FollowBounds DEF DayInv
  <2>3. Cardinality(1..MaxPerRun) = MaxPerRun /\ MaxPerRun \in Nat
    BY FS_Interval, FollowBounds
  <2>4. Attempts \in Nat /\ Attempts =< left
    BY <2>2, <2>3 DEF Attempts, Cap
  <2>5. IsFiniteSet(candidates) /\ IsFiniteSet(S)
    <3>1. candidates \subseteq Convs /\ S \subseteq Convs
      BY <2>1
    <3> QED BY <3>1, ConvsAssumption, FS_Subset
  <2>6. Cardinality(S) \in Nat /\ Cardinality(S) > 0 /\ Cardinality(candidates) \in Nat
    BY <2>1, <2>5, FS_EmptySet, FS_CardinalityType
  <2>7. Cardinality(S) =< left
    BY <2>1, <2>2, <2>4, <2>6 DEF Cap
  <2>8. Cardinality(Counted) + Cardinality(S) =< DailyLimit
    BY <2>2, <2>6, <2>7, FollowBounds
  <2>9. cur["payments"] = {} /\ todo'["payments"] = S /\ Cardinality({}) = 0
    BY <1>3, <2>1, FS_EmptySet DEF ChoosePayments, Choose, QueueInv, FollowTypeOK, Jobs
  <2>10. Hidden' = Hidden /\ Counted' = Counted
    BY <1>1 DEF Hidden, Counted, Underway
  <2> QED BY <1>1, <2>2, <2>6, <2>8, <2>9, <2>10 DEF DayInv
<1> QED BY <1>2, <1>3

\* Steps of the other job do not concern reminders.
LEMMA ProposalsDay ==
    ASSUME FollowTypeOK, QueueInv, DueInv, DayInv, Job("proposals") PROVE DayInv'
<1> DEFINE j == "proposals"
<1> USE DEF people, world
<1>1. FollowTypeOK' /\ j \in Jobs
  BY JobTypes DEF Jobs
<1>2. todo'["payments"] = todo["payments"] /\ cur'["payments"] = cur["payments"]
  BY DEF Job, Duplicate, Send, Take, Repeated, Refused, AnswerLost, Record, Finish, Die, Close,
         FollowTypeOK, Jobs
<1>3. mishaps' >= mishaps
  BY DEF Job, Duplicate, Send, Repeated, Refused, AnswerLost, Record, Finish, Die, Mishap, FollowTypeOK
<1>4. ASSUME NEW c \in Convs, c \in todo[j] \/ c \in cur[j]
      PROVE  Id(j, c) \in Ids /\ Id(j, c) \notin Reminders /\ ~IsReminder(Id(j, c))
  BY <1>1, <1>4, TakenId
<1>5. ASSUME NEW c \in Convs, c \in todo[j] \/ c \in cur[j], NEW status, CommitRow(Id(j, c), status)
      PROVE  UNCHANGED today /\ \A i \in Reminders : rows'[i] = rows[i]
  BY <1>4, <1>5, RowWritten, ReminderType DEF CommitRow
<1>6. UNCHANGED today /\ \A i \in Reminders : rows'[i] = rows[i] /\ (i \in accepted' <=> i \in accepted)
  <2>1. CASE Duplicate(j) \/ Finish(j) \/ Die(j)
    BY <2>1 DEF Duplicate, Finish, Die, Close
  <2>2. CASE Send(j)
    BY <1>4, <2>2 DEF Send, Take, Accept
  <2>3. CASE Repeated(j) \/ Refused(j)
    <3>1. PICK c \in Convs, status \in {"active", "error"} : c \in todo[j] /\ CommitRow(Id(j, c), status)
      BY <2>3 DEF Repeated, Refused, Take
    <3> QED BY <1>5, <2>3, <3>1 DEF Repeated, Refused
  <2>4. CASE AnswerLost(j)
    <3>1. PICK c \in Convs : /\ c \in todo[j] /\ accepted' = accepted \cup {Id(j, c)}
                             /\ rows' = [rows EXCEPT ![Id(j, c)] = "error"]
                             /\ IsReminder(Id(j, c)) \/ UNCHANGED today
      BY <2>4 DEF AnswerLost, Take
    <3> QED BY <1>4, <3>1, ReminderType DEF FollowTypeOK
  <2>5. CASE Record(j)
    <3>1. PICK c \in Convs : c \in cur[j] /\ CommitRow(Id(j, c), "active")
      BY <1>1, <2>5 DEF Record, FollowTypeOK
    <3> QED BY <1>5, <2>5, <3>1 DEF Record
  <2> QED BY <2>1, <2>2, <2>3, <2>4, <2>5 DEF Job
<1> QED BY <1>1, <1>2, <1>3, <1>6, DayKept

\* A reminder that is sent, or a run that ends, hides nothing from the count
\* but by a fault, and what a run counts in it had chosen before.
LEMMA PaymentsDay ==
    ASSUME FollowTypeOK, QueueInv, DueInv, RemindedInv, DayInv, Job("payments") PROVE DayInv'
<1> DEFINE j == "payments"
<1> USE DEF people, world
<1>1. FollowTypeOK' /\ QueueInv' /\ j \in Jobs
  BY JobTypes DEF Jobs
<1>2. /\ IsFiniteSet(Hidden) /\ IsFiniteSet(Counted) /\ IsFiniteSet(todo[j]) /\ IsFiniteSet(cur[j])
      /\ Cardinality(Hidden) \in Nat /\ Cardinality(Counted) \in Nat
      /\ Cardinality(todo[j]) \in Nat /\ Cardinality(cur[j]) \in Nat
  BY <1>1, DayFinite, FS_CardinalityType DEF DayInv
<1>3. mishaps \in Nat /\ mishaps' \in Nat /\ Cardinality({}) = 0 /\ \A x : Cardinality({x}) = 1
  <2>1. mishaps \in 0..MaxMishaps /\ mishaps' \in 0..MaxMishaps
    BY <1>1 DEF FollowTypeOK
  <2>2. mishaps \in Nat /\ mishaps' \in Nat
    BY <2>1, FollowBounds
  <2>3. \A x : Cardinality({x}) = 1
    BY FS_Singleton, Zenon
  <2> QED BY <2>2, <2>3, FS_EmptySet
<1>4. ASSUME NEW c \in Convs, c \in todo[j] \/ c \in cur[j]
      PROVE  Id(j, c) = Reminder(c) /\ Reminder(c) \in Ids /\ Reminder(c) \in Reminders
             /\ IsReminder(Reminder(c))
  BY <1>1, <1>4, TakenId DEF Reminders
<1>5. ASSUME NEW c \in Convs, c \in todo[j] \/ c \in cur[j], NEW status, CommitRow(Id(j, c), status)
      PROVE  /\ rows'[Reminder(c)] = status
             /\ \A i \in Reminders : i # Reminder(c) => rows'[i] = rows[i]
             /\ today'.accepted = today.accepted
             /\ today'.created = IF rows[Reminder(c)] = "none" THEN today.created \cup {Reminder(c)}
                                 ELSE today.created
  <2>1. Id(j, c) = Reminder(c) /\ Reminder(c) \in Ids /\ IsReminder(Reminder(c))
    BY <1>4, <1>5
  <2>2. CommitRow(Reminder(c), status)
    BY <1>5, <2>1
  <2>3. rows'[Reminder(c)] = status /\ \A i \in Ids : i # Reminder(c) => rows'[i] = rows[i]
    BY <2>1, <2>2, RowWritten
  <2>4. today' = IF rows[Reminder(c)] = "none" THEN [today EXCEPT !.created = @ \cup {Reminder(c)}]
                 ELSE today
    BY <2>1, <2>2 DEF CommitRow
  <2>5. today \in [created : SUBSET Ids, accepted : SUBSET Ids]
    BY DEF FollowTypeOK
  <2>6. /\ today'.accepted = today.accepted
        /\ today'.created = IF rows[Reminder(c)] = "none" THEN today.created \cup {Reminder(c)}
                            ELSE today.created
    BY <2>4, <2>5
  <2> QED BY <2>3, <2>6, ReminderType
<1>6. CASE Duplicate(j)
  <2>1. PICK c \in todo[j] : todo' = [todo EXCEPT ![j] = @ \ {c}]
    BY <1>6 DEF Duplicate
  <2>2. UNCHANGED <<rows, accepted, today, cur, mishaps>>
    BY <1>6 DEF Duplicate
  <2>3. Hidden' = Hidden /\ Counted' = Counted
    BY <2>2 DEF Hidden, Counted, Underway
  <2>4. todo'[j] = todo[j] \ {c}
    BY <1>1, <2>1 DEF FollowTypeOK
  <2>5. Cardinality(todo'[j]) = Cardinality(todo[j]) - 1
    BY <1>2, <2>4, OneLess
  <2> QED BY <1>2, <2>2, <2>3, <2>5, FollowBounds DEF DayInv
<1>7. CASE Send(j)
  <2>1. PICK c \in Convs :
           /\ c \in todo[j] /\ at[j] = "next"
           /\ todo' = [todo EXCEPT ![j] = @ \ {c}] /\ cur' = [cur EXCEPT ![j] = {c}]
           /\ \/ Suppresses(Id(j, c)) /\ UNCHANGED <<accepted, today>>
              \/ ~Suppresses(Id(j, c)) /\ Accept(Id(j, c))
    BY <1>7 DEF Send, Take
  <2>2. cur[j] = {} /\ cur'[j] = {c} /\ todo'[j] = todo[j] \ {c}
    <3>1. cur[j] = {}
      BY <1>1, <2>1 DEF QueueInv
    <3> QED BY <1>1, <2>1, <3>1 DEF FollowTypeOK
  <2>3. UNCHANGED <<rows, mishaps>>
    BY <1>7 DEF Send
  <2>4. Underway = {} /\ Underway' = {Reminder(c)}
    BY <2>2 DEF Underway
  <2>5. /\ accepted' \subseteq accepted \cup {Reminder(c)} /\ accepted \subseteq accepted'
        /\ today'.created = today.created
        /\ today'.accepted \subseteq today.accepted \cup {Reminder(c)}
        /\ today'.accepted \subseteq accepted'
        /\ rows[Reminder(c)] = "active" => today'.accepted = today.accepted
    BY <1>4, <2>1 DEF Accept, Suppresses, FollowTypeOK, DayInv
  <2>6. Hidden' \subseteq Hidden
    BY <2>3, <2>4, <2>5 DEF Hidden
  <2>7. Counted' = Counted
    BY <2>3, <2>5 DEF Counted
  <2>8. Cardinality(todo'[j]) = Cardinality(todo[j]) - 1 /\ Cardinality(cur'[j]) = 1 /\ Cardinality(cur[j]) = 0
    BY <1>2, <1>3, <2>1, <2>2, OneLess
  <2>9. Cardinality(Hidden') =< Cardinality(Hidden) /\ Cardinality(Hidden') \in Nat
    BY <1>2, <2>6, Within
  <2>10. today'.accepted \subseteq accepted' \cap Reminders /\ today'.created \subseteq Reminders
    BY <1>4, <2>1, <2>5 DEF DayInv
  <2> QED BY <1>2, <1>3, <2>3, <2>7, <2>8, <2>9, <2>10, FollowBounds DEF DayInv
<1>8. CASE Repeated(j)
  <2>1. PICK c \in Convs : /\ c \in todo[j] /\ todo' = [todo EXCEPT ![j] = @ \ {c}]
                           /\ ~Suppresses(Id(j, c)) /\ CommitRow(Id(j, c), "active")
    BY <1>8 DEF Repeated, Take
  <2>2. UNCHANGED <<accepted, cur, mishaps>> /\ todo'[j] = todo[j] \ {c}
    BY <1>1, <1>8, <2>1 DEF Repeated, FollowTypeOK
  <2>3. Hidden' \subseteq Hidden
    <3>1. ASSUME NEW i \in Hidden' PROVE i \in Hidden
      <4>1. i \in Reminders /\ Underway' = Underway
        BY <2>2 DEF Hidden, Underway
      <4>2. CASE i = Reminder(c)
        <5>1. rows'[i] = "active" /\ i \in today'.accepted /\ i \notin today'.created
          <6>1. rows'[i] = "active"
            BY <1>5, <2>1, <4>2
          <6> QED BY <3>1, <6>1 DEF Hidden
        <5>2. rows[i] # "none" /\ rows[i] # "active"
          BY <1>4, <1>5, <2>1, <4>2, <5>1 DEF Suppresses
        <5>3. rows[i] \in {"none", "error", "active"}
          BY <4>1, ReminderType DEF FollowTypeOK
        <5> QED BY <4>1, <5>2, <5>3 DEF Hidden
      <4>3. CASE i # Reminder(c)
        BY <1>5, <2>1, <2>2, <4>1, <4>3 DEF Hidden
      <4> QED BY <4>2, <4>3
    <3> QED BY <3>1
  <2>4. Counted' \subseteq Counted \cup {Reminder(c)}
    BY <1>4, <1>5, <2>1 DEF Counted, DayInv
  <2>5. Cardinality(todo'[j]) = Cardinality(todo[j]) - 1
    BY <1>2, <2>1, <2>2, OneLess
  <2>6. Cardinality(Hidden') =< Cardinality(Hidden) /\ Cardinality(Hidden') \in Nat
    BY <1>2, <2>3, Within
  <2>7. Cardinality(Counted') =< Cardinality(Counted) + 1 /\ Cardinality(Counted') \in Nat
    BY <1>2, <2>4, WithinOneMore
  <2>8. today'.accepted \subseteq accepted' \cap Reminders /\ today'.created \subseteq Reminders
    <3>1. Reminder(c) \in Reminders
      BY <1>4, <2>1
    <3>2. today'.accepted = today.accepted /\ today'.created \subseteq today.created \cup {Reminder(c)}
      BY <1>5, <2>1
    <3> QED BY <2>2, <3>1, <3>2 DEF DayInv
  <2> QED BY <1>2, <1>3, <2>2, <2>5, <2>6, <2>7, <2>8, FollowBounds DEF DayInv
<1>9. CASE Refused(j) \/ AnswerLost(j)
  <2>1. PICK c \in Convs : /\ c \in todo[j] /\ todo' = [todo EXCEPT ![j] = @ \ {c}]
                           /\ \/ CommitRow(Id(j, c), "error") /\ UNCHANGED accepted
                              \/ /\ accepted' = accepted \cup {Id(j, c)}
                                 /\ rows' = [rows EXCEPT ![Id(j, c)] = "error"]
                                 /\ today' = IF ~IsReminder(Id(j, c)) THEN today
                                             ELSE [created |-> today.created \cup
                                                       (IF rows[Id(j, c)] = "none" THEN {Id(j, c)} ELSE {}),
                                                   accepted |-> today.accepted \cup {Id(j, c)}]
    BY <1>9 DEF Refused, AnswerLost, Take
  <2>2. Id(j, c) = Reminder(c) /\ Reminder(c) \in Ids /\ Reminder(c) \in Reminders
        /\ IsReminder(Reminder(c))
    BY <1>4, <2>1
  <2>3. /\ rows'[Reminder(c)] = "error"
        /\ \A i \in Reminders : i # Reminder(c) => rows'[i] = rows[i]
        /\ accepted \subseteq accepted' /\ accepted' \subseteq accepted \cup {Reminder(c)}
        /\ today.created \subseteq today'.created
        /\ today'.created \subseteq today.created \cup {Reminder(c)}
        /\ today'.accepted \subseteq today.accepted \cup {Reminder(c)}
        /\ today'.accepted \subseteq accepted'
    <3>1. CASE CommitRow(Id(j, c), "error") /\ UNCHANGED accepted
      BY <1>5, <2>1, <3>1 DEF DayInv
    <3>2. CASE accepted' = accepted \cup {Id(j, c)}
               /\ rows' = [rows EXCEPT ![Id(j, c)] = "error"]
               /\ today' = [created |-> today.created \cup
                                (IF rows[Id(j, c)] = "none" THEN {Id(j, c)} ELSE {}),
                            accepted |-> today.accepted \cup {Id(j, c)}]
      BY <2>2, <3>2, ReminderType DEF DayInv, FollowTypeOK
    <3> QED BY <2>1, <2>2, <3>1, <3>2
  <2>4. /\ UNCHANGED cur /\ todo'[j] = todo[j] \ {c} /\ mishaps' = mishaps + 1
    BY <1>1, <1>9, <2>1 DEF Refused, AnswerLost, Mishap, FollowTypeOK
  <2>5. Hidden' \subseteq Hidden \cup {Reminder(c)}
    <3>1. Underway' = Underway
      BY <2>4 DEF Underway
    <3> QED BY <2>3, <3>1 DEF Hidden
  <2>6. Counted' \subseteq Counted
    BY <2>3 DEF Counted, DayInv
  <2>7. Cardinality(todo'[j]) = Cardinality(todo[j]) - 1
    BY <1>2, <2>1, <2>4, OneLess
  <2>8. Cardinality(Hidden') =< Cardinality(Hidden) + 1 /\ Cardinality(Hidden') \in Nat
    BY <1>2, <2>5, WithinOneMore
  <2>9. Cardinality(Counted') =< Cardinality(Counted) /\ Cardinality(Counted') \in Nat
    BY <1>2, <2>6, Within
  <2>10. today'.accepted \subseteq accepted' \cap Reminders /\ today'.created \subseteq Reminders
    BY <2>2, <2>3 DEF DayInv
  <2> QED BY <1>2, <1>3, <2>4, <2>7, <2>8, <2>9, <2>10, FollowBounds DEF DayInv
<1>10. CASE Record(j)
  <2>1. PICK c \in Convs : c \in cur[j] /\ CommitRow(Id(j, c), "active")
    BY <1>1, <1>10 DEF Record, FollowTypeOK
  <2>2. cur[j] = {c} /\ cur'[j] = {} /\ UNCHANGED <<accepted, todo, mishaps>>
    BY <1>1, <1>10, <2>1 DEF Record, QueueInv, FollowTypeOK
  <2>3. Underway = {Reminder(c)} /\ Underway' = {}
    BY <2>2 DEF Underway
  <2>4. Hidden' \subseteq Hidden
    <3>1. ASSUME NEW i \in Hidden' PROVE i \in Hidden
      <4>1. i \in Reminders
        BY DEF Hidden
      <4>2. CASE i = Reminder(c)
        <5>1. rows'[i] = "active"
          BY <1>5, <2>1, <4>2
        <5>2. i \in today'.accepted /\ i \notin today'.created
          BY <3>1, <5>1 DEF Hidden
        <5>3. rows[i] # "none" /\ i \in today.accepted /\ i \notin today.created
          BY <1>4, <1>5, <2>1, <4>2, <5>2
        <5>4. rows[i] \in {"none", "error", "active"}
          BY <4>1, ReminderType DEF FollowTypeOK
        <5> QED BY <4>1, <5>3, <5>4 DEF Hidden
      <4>3. CASE i # Reminder(c)
        BY <1>5, <2>1, <2>2, <2>3, <4>1, <4>3 DEF Hidden
      <4> QED BY <4>2, <4>3
    <3> QED BY <3>1
  <2>5. Counted' \subseteq Counted \cup {Reminder(c)}
    BY <1>4, <1>5, <2>1 DEF Counted, DayInv
  <2>6. Cardinality(cur[j]) = 1 /\ Cardinality(cur'[j]) = 0
    BY <1>3, <2>2
  <2>7. Cardinality(Hidden') =< Cardinality(Hidden) /\ Cardinality(Hidden') \in Nat
    BY <1>2, <2>4, Within
  <2>8. Cardinality(Counted') =< Cardinality(Counted) + 1 /\ Cardinality(Counted') \in Nat
    BY <1>2, <2>5, WithinOneMore
  <2>9. today'.accepted \subseteq accepted' \cap Reminders /\ today'.created \subseteq Reminders
    <3>1. Reminder(c) \in Reminders
      BY <1>4, <2>1
    <3>2. today'.accepted = today.accepted /\ today'.created \subseteq today.created \cup {Reminder(c)}
      BY <1>5, <2>1
    <3> QED BY <2>2, <3>1, <3>2 DEF DayInv
  <2> QED BY <1>2, <1>3, <2>2, <2>6, <2>7, <2>8, <2>9, FollowBounds DEF DayInv
<1>11. CASE Finish(j) \/ Die(j)
  <2>1. /\ UNCHANGED <<rows, accepted, today>> /\ todo'[j] = {} /\ cur'[j] = {}
    BY <1>1, <1>11 DEF Finish, Die, Close, FollowTypeOK
  <2>2. Counted' = Counted
    BY <2>1 DEF Counted
  <2>3. Underway' = {}
    BY <2>1 DEF Underway
  <2>4. Cardinality(Hidden') =< mishaps'
    <3>1. CASE cur[j] = {}
      <4>1. Hidden' = Hidden
        BY <2>1, <2>3, <3>1 DEF Hidden, Underway
      <4>2. mishaps' >= mishaps
        BY <1>3, <1>11 DEF Finish, Die, Mishap
      <4> QED BY <1>2, <1>3, <4>1, <4>2 DEF DayInv
    <3>2. CASE cur[j] # {}
      <4>1. PICK c : cur[j] = {c}
        BY <1>1, <3>2 DEF QueueInv
      <4>2. Hidden' \subseteq Hidden \cup {Reminder(c)}
        BY <2>1, <2>3, <4>1 DEF Hidden, Underway
      <4>3. at[j] = "record"
        BY <1>1, <3>2 DEF QueueInv
      <4>4. mishaps' = mishaps + 1
        BY <1>11, <4>3 DEF Finish, Die, Mishap
      <4>5. Cardinality(Hidden') =< Cardinality(Hidden) + 1 /\ Cardinality(Hidden') \in Nat
        BY <1>2, <4>2, WithinOneMore
      <4> QED BY <1>2, <1>3, <4>4, <4>5 DEF DayInv
    <3> QED BY <3>1, <3>2
  <2>5. Cardinality(Counted) =< DailyLimit
    BY <1>2, FollowBounds DEF DayInv
  <2> QED BY <1>2, <1>3, <2>1, <2>2, <2>4, <2>5 DEF DayInv
<1> QED BY <1>6, <1>7, <1>8, <1>9, <1>10, <1>11 DEF Job

\* A new day begins between two runs, and has no reminders.
LEMMA NewDayDay ==
    ASSUME FollowTypeOK, QueueInv, DayInv, NewDay PROVE DayInv'
<1>1. UNCHANGED <<rows, accepted, todo, cur, mishaps>> /\ at["payments"] = "idle"
  BY DEF NewDay, people, jobs
<1>2. todo["payments"] = {} /\ cur["payments"] = {}
  BY <1>1 DEF QueueInv, Jobs
<1>3. today'.created = {} /\ today'.accepted = {}
  BY DEF NewDay, Morning
<1>4. Counted' = {}
  BY <1>3 DEF Counted
<1>5. Hidden' \subseteq Hidden
  BY <1>1, <1>3 DEF Hidden, Underway
<1>6. IsFiniteSet(Hidden) /\ Cardinality(Hidden) \in Nat
  BY DayFinite, FS_CardinalityType DEF DayInv
<1>7. Cardinality(Hidden') =< Cardinality(Hidden) /\ Cardinality(Hidden') \in Nat
  BY <1>5, <1>6, Within
<1>8. mishaps \in Int
  BY FollowBounds DEF FollowTypeOK
<1>9. Cardinality({}) = 0
  BY FS_EmptySet
<1> QED BY <1>1, <1>2, <1>3, <1>4, <1>6, <1>7, <1>8, <1>9, FollowBounds DEF DayInv

\* Every step keeps the day's budget.
LEMMA StepDay ==
    ASSUME FollowTypeOK, QueueInv, DueInv, RemindedInv, DayInv, [FollowNext]_followVars
    PROVE  DayInv'
<1>1. FollowTypeOK'
  BY FollowStepTypes
<1>2. mishaps \in Int
  BY FollowBounds DEF FollowTypeOK
<1>3. ASSUME NEW c \in Convs,
             Load("turn", c) \/ Reply(c) \/ EndTurn(c) \/ Load("manager", c) \/ Decide(c)
      PROVE  DayInv'
  <2>1. UNCHANGED <<jobs, world, mishaps>>
    BY <1>3, PersonTypes
  <2> QED BY <1>1, <1>2, <2>1, DayKept DEF jobs, world
<1>4. CASE Tick
  BY <1>1, <1>2, <1>4, DayKept DEF Tick, jobs, world
<1>5. CASE UNCHANGED followVars
  BY <1>1, <1>2, <1>5, DayKept DEF followVars, jobs, world
<1> QED BY <1>3, <1>4, <1>5, ChooseDay, ProposalsDay, PaymentsDay, NewDayDay DEF FollowNext, Jobs

----------------------------------------------------------------------------
\* The invariant holds in every reachable state of src/services/followup.py,
\* src/services/proposal_followup.py and the sessions beside them.
THEOREM FollowInvHolds == FollowSpec => []FollowInv
<1>1. FollowInit => FollowInv
  BY InitFollow
<1>2. FollowInv /\ [FollowNext]_followVars => FollowInv'
  BY FollowStepTypes, StepReminded, StepDay DEF FollowInv
<1> QED BY <1>1, <1>2, PTL DEF FollowSpec

\* Every variable of the hourly jobs stays in its type: a committed audit row is
\* never left as it was flushed, and a follow-up is one of its proposal's.
THEOREM FollowTypesHold == FollowSpec => []FollowTypeOK
<1>1. FollowInv => FollowTypeOK
  BY DEF FollowInv
<1> QED BY <1>1, FollowInvHolds, PTL

\* Whatever is lost, refused or dies, no more reminders reach customers in a day
\* than the daily limit of followup.py and one for each fault.
THEOREM DailyLimitHeld == FollowSpec => []DailyLimitHolds
<1>1. FollowInv => DailyLimitHolds
  <2> SUFFICES ASSUME FollowInv PROVE DailyLimitHolds
    OBVIOUS
  <2> USE DEF FollowInv
  <2>1. /\ IsFiniteSet(Hidden) /\ IsFiniteSet(Counted) /\ IsFiniteSet(cur["payments"])
        /\ IsFiniteSet(todo["payments"])
    BY DayFinite DEF DayInv, Jobs
  <2>2. today.accepted \subseteq (Counted \cup Underway) \cup Hidden
    <3>1. ASSUME NEW i \in today.accepted PROVE i \in (Counted \cup Underway) \cup Hidden
      <4>1. i \in Reminders /\ i \in accepted
        BY DEF DayInv
      <4>2. rows[i] \in {"none", "error", "active"}
        BY <4>1, ReminderType DEF FollowTypeOK
      <4> QED BY <4>1, <4>2 DEF Hidden, Counted
    <3> QED BY <3>1
  <2>3. Underway \subseteq Reminders /\ Cardinality(Underway) =< Cardinality(cur["payments"])
    <3>1. cur["payments"] \subseteq Convs
      BY DEF FollowTypeOK, Jobs
    <3>2. CASE cur["payments"] = {}
      <4>1. Underway = {}
        BY <3>2 DEF Underway
      <4> QED BY <3>2, <4>1, FS_EmptySet
    <3>3. CASE cur["payments"] # {}
      <4>1. PICK c \in Convs : cur["payments"] = {c}
        BY <3>1, <3>3 DEF QueueInv, Jobs
      <4>2. Underway = {Reminder(c)}
        BY <4>1 DEF Underway
      <4>3. Cardinality({c}) = 1 /\ Cardinality({Reminder(c)}) = 1
        BY FS_Singleton, Zenon
      <4> QED BY <4>1, <4>2, <4>3 DEF Reminders
    <3> QED BY <3>2, <3>3
  <2>4. IsFiniteSet(Underway) /\ Cardinality(Underway) \in Nat
    BY <2>3, RemindersFinite, Within
  <2>5. /\ Cardinality(Hidden) \in Nat /\ Cardinality(Counted) \in Nat
        /\ Cardinality(cur["payments"]) \in Nat /\ Cardinality(todo["payments"]) \in Nat
    BY <2>1, FS_CardinalityType
  <2>6. /\ IsFiniteSet(Counted \cup Underway)
        /\ Cardinality(Counted \cup Underway) \in Nat
        /\ Cardinality(Counted \cup Underway) =< Cardinality(Counted) + Cardinality(Underway)
    BY <2>1, <2>4, UnionSize
  <2>7. /\ IsFiniteSet((Counted \cup Underway) \cup Hidden)
        /\ Cardinality((Counted \cup Underway) \cup Hidden) \in Nat
        /\ Cardinality((Counted \cup Underway) \cup Hidden)
              =< Cardinality(Counted \cup Underway) + Cardinality(Hidden)
    BY <2>1, <2>6, UnionSize
  <2>8. /\ Cardinality(today.accepted) \in Nat
        /\ Cardinality(today.accepted) =< Cardinality((Counted \cup Underway) \cup Hidden)
    BY <2>2, <2>7, Within
  <2>9. mishaps \in Int
    BY FollowBounds DEF FollowTypeOK
  <2> QED BY <2>3, <2>4, <2>5, <2>6, <2>7, <2>8, <2>9, FollowBounds DEF DayInv, DailyLimitHolds
<1> QED BY <1>1, FollowInvHolds, PTL

\* What a conversation's metadata says of its payment reminder is true of the
\* customer, although the column is rewritten whole by turns, decisions and jobs.
THEOREM RemindedIsDeliveredHolds == FollowSpec => []RemindedIsDelivered
<1>1. FollowInv => RemindedIsDelivered
  BY DEF FollowInv, RemindedInv, RemindedIsDelivered, Reminder
<1> QED BY <1>1, FollowInvHolds, PTL
=============================================================================
