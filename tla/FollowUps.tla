------------------------------ MODULE FollowUps ------------------------------
(***************************************************************************)
(* The hourly jobs that write to customers on their own, beside the turns  *)
(* and the manager's decisions that use the same row:                      *)
(*   src/services/proposal_followup.py   the follow-up chain of a proposal *)
(*   src/services/followup.py            payment reminders                 *)
(*   src/services/chat.py                the customer's reply in a turn    *)
(*   src/api/telegram_webhook.py         the manager's order decision      *)
(*                                                                         *)
(* All state is in one plain JSON column, "metadata", of the conversation. *)
(* A session loads it once and writes it whole.  The unit of work compares *)
(* the new value with the loaded one, and a nested value that was changed  *)
(* in place is the loaded one: such a change alone is not written.         *)
(*                                                                         *)
(* Abstractions.  One proposal with one order per conversation, sent when  *)
(* the model begins, so that one identifier stands for each follow-up and  *)
(* for the reminder.  Jobs may choose any rows up to their limit (the code *)
(* takes the least recently updated).  Sends are switched on and have      *)
(* their texts.  An approval is old enough for a reminder at once.  The    *)
(* rejection after an unanswered last follow-up is left out: it needs a    *)
(* stored follow-up, and a follow-up is recorded in place (AfterSend).     *)
(*                                                                         *)
(* Names that LlmAttempt has too carry Follow, as JobProofs extends both.  *)
(***************************************************************************)
EXTENDS Integers, FiniteSets

CONSTANTS
    Convs,       \* conversations
    Steps,       \* follow-ups of a proposal
    MaxPerRun,   \* max_per_run of either job
    DailyLimit,  \* daily_limit of the payment reminders
    MaxTurns,    \* bound: turns and decisions
    MaxMishaps    \* bound: lost answers and dead jobs

ASSUME ConvsAssumption == IsFiniteSet(Convs)
ASSUME StepsAssumption == Steps \in Nat \ {0}
ASSUME LimitAssumption == MaxPerRun \in Nat \ {0} /\ DailyLimit \in Nat
ASSUME BoundsAssumption == MaxTurns \in Nat /\ MaxMishaps \in Nat

People == {"turn", "manager"}
Jobs == {"proposals", "payments"}
Ids == ({"followup"} \X Convs \X (1..Steps)) \cup ({"reminder"} \X Convs \X {0})
Columns == [stopped : BOOLEAN,   \* chain_stopped
            paused : BOOLEAN,    \* pause_until is set
            sent : 0..Steps,     \* follow-ups with status "sent"
            decision : {"pending", "approved", "rejected"},
            reminded : BOOLEAN]  \* the reminder's state is "sent"

VARIABLES
    db,        \* the committed column
    copy,      \* the column in the session of a turn, a decision or a job
    stage,        \* where a person's session is, for each conversation
    todo, at,  \* rows a job has chosen and not begun, and where it is
    cur,       \* the row whose send a job has to record, at most one
    rows,      \* committed audit rows: none, an error, or one that suppresses a send
    accepted,  \* identifiers the provider accepted
    today,     \* reminders whose row was created, and that were accepted, this day
    age,       \* follow-ups whose time has come
    quiet,     \* conversations with a committed reply that stops the chain,
    told,      \* and those of them that had one when the job chose its rows
    used, mishaps

people == <<copy, stage, used>>
jobs == <<todo, at, cur>>
world == <<rows, accepted, today>>
followVars == <<db, people, jobs, world, age, quiet, told, mishaps>>

Proposed == [stopped |-> FALSE, paused |-> FALSE, sent |-> 0, decision |-> "pending",
             reminded |-> FALSE]

Morning == [created |-> {}, accepted |-> {}]

FollowInit ==
    /\ db = [c \in Convs |-> Proposed]
    /\ copy = [s \in People \cup Jobs |-> db]
    /\ stage = [s \in People |-> [c \in Convs |-> "idle"]]
    /\ todo = [j \in Jobs |-> {}] /\ at = [j \in Jobs |-> "idle"]
    /\ cur = [j \in Jobs |-> {}]
    /\ rows = [i \in Ids |-> "none"] /\ accepted = {} /\ today = Morning
    /\ age = 0 /\ quiet = {} /\ told = {} /\ used = 0 /\ mishaps = 0

Mishap == mishaps < MaxMishaps /\ mishaps' = mishaps + 1
Cap(S, n) == IF Cardinality(S) < n THEN Cardinality(S) ELSE n

-----------------------------------------------------------------------------
(* Turns and decisions.                                                    *)

\* A turn or a decision loads the conversation.
Load(s, c) ==
    /\ stage[s][c] = "idle" /\ used < MaxTurns
    /\ stage' = [stage EXCEPT ![s][c] = "loaded"] /\ used' = used + 1
    /\ copy' = [copy EXCEPT ![s][c] = db[c]]
    /\ UNCHANGED <<db, jobs, world, age, quiet, told, mishaps>>

\* The unit of work: a column with no change but nested ones is not written
\* (the mutant compares deep copies).
WrittenDeep(elsewhere) == TRUE
Written(elsewhere) == elsewhere

Flush(c, column, elsewhere) == db' = IF Written(elsewhere) THEN [db EXCEPT ![c] = column] ELSE db
Keep(s, c, column) == copy' = [copy EXCEPT ![s][c] = column]

\* record_customer_reply: "elsewhere" says whether the same commit changes
\* another key, the channel or the source of the message.
Reply(c) ==
    /\ stage["turn"][c] = "loaded" /\ stage' = [stage EXCEPT !["turn"][c] = "replied"]
    /\ \E elsewhere \in BOOLEAN :
          LET old == copy["turn"][c]
              Say(column) == Keep("turn", c, column) /\ Flush(c, column, elsewhere)
          IN  \/ /\ elsewhere /\ Say([old EXCEPT !.stopped = TRUE, !.decision = "rejected"])
                 /\ quiet' = quiet \cup {c}
              \/ Say([old EXCEPT !.stopped = TRUE]) /\ quiet' = quiet \cup {c}
              \/ Say([old EXCEPT !.paused = TRUE]) /\ UNCHANGED quiet
    /\ UNCHANGED <<used, jobs, world, age, told, mishaps>>

\* The rest of the turn writes some key, accepts the quotation, or neither.
EndTurn(c) ==
    /\ stage["turn"][c] = "replied" /\ stage' = [stage EXCEPT !["turn"][c] = "idle"]
    /\ LET old == copy["turn"][c] IN
       \/ \E elsewhere \in BOOLEAN : Flush(c, old, elsewhere)
       \/ /\ old.decision = "pending"
          /\ Flush(c, [old EXCEPT !.stopped = TRUE, !.decision = "approved"], TRUE)
    /\ Keep("turn", c, Proposed)
    /\ UNCHANGED <<used, jobs, world, age, quiet, told, mishaps>>

\* _apply_order_decision_metadata.
Decide(c) ==
    /\ stage["manager"][c] = "loaded" /\ stage' = [stage EXCEPT !["manager"][c] = "idle"]
    /\ \E d \in {"approved", "rejected"} :
          Flush(c, [copy["manager"][c] EXCEPT !.decision = d], TRUE)
    /\ Keep("manager", c, Proposed)
    /\ UNCHANGED <<used, jobs, world, age, quiet, told, mishaps>>

-----------------------------------------------------------------------------
(* The jobs.                                                               *)

\* next_due_followup_step; a pause may be over.
Due(column) == ~column.stopped /\ column.sent < age

\* The job takes up to "limit" of the candidates.
Choose(j, candidates, limit) ==
    /\ at[j] = "idle"
    /\ \E S \in SUBSET candidates :
          /\ S # {} /\ Cardinality(S) = Cap(candidates, limit)
          /\ todo' = [todo EXCEPT ![j] = S]
    /\ at' = [at EXCEPT ![j] = "next"]
    /\ copy' = [copy EXCEPT ![j] = db]
    /\ told' = IF j = "proposals" THEN quiet ELSE told
    /\ UNCHANGED <<db, stage, used, cur, world, age, quiet, mishaps>>

ChooseProposals ==
    \E over \in BOOLEAN :
        Choose("proposals", {c \in Convs : Due(db[c]) /\ (db[c].paused => over)}, MaxPerRun)

\* Limits of a run (the mutant forgets what was sent today).
Forgetful == MaxPerRun
Counted == {i \in today.created : rows[i] = "active"}
Attempts == Cap(1..MaxPerRun, IF Cardinality(Counted) < DailyLimit
                              THEN DailyLimit - Cardinality(Counted) ELSE 0)

\* A reminded conversation is still a candidate.
ChoosePayments == Choose("payments", {c \in Convs : db[c].decision = "approved"}, Attempts)

Id(j, c) ==
    IF j = "payments" THEN <<"reminder", c, 0>>
    ELSE <<"followup", c, copy[j][c].sent + 1>>
IsReminder(id) == id[1] = "reminder"
Accept(id) ==
    /\ accepted' = accepted \cup {id}
    /\ today' = IF IsReminder(id) /\ id \notin accepted
                THEN [today EXCEPT !.accepted = @ \cup {id}] ELSE today

\* A row that suppresses a send (the mutant takes any row).
AnyRow(id) == rows[id] # "none"
Suppresses(id) == rows[id] = "active"

\* A committed row keeps the day it was created on
\* (the mutant leaves it as it was flushed).
CommitFlushed(id, status) ==
    /\ rows' = [rows EXCEPT ![id] = "pending"]
    /\ today' = IF IsReminder(id) /\ rows[id] = "none"
                THEN [today EXCEPT !.created = @ \cup {id}] ELSE today

CommitRow(id, status) ==
    /\ rows' = [rows EXCEPT ![id] = status]
    /\ today' = IF IsReminder(id) /\ rows[id] = "none"
                THEN [today EXCEPT !.created = @ \cup {id}] ELSE today

\* A reminder whose state is "sent" is a duplicate.
Duplicate(j) ==
    /\ \E c \in todo[j] :
          /\ j = "payments" /\ copy[j][c].reminded
          /\ todo' = [todo EXCEPT ![j] = @ \ {c}]
    /\ UNCHANGED <<db, people, at, cur, world, age, quiet, told, mishaps>>

\* The job takes its next row to the send.
Take(j, c) ==
    /\ at[j] = "next" /\ c \in todo[j] /\ ~(j = "payments" /\ copy[j][c].reminded)
    /\ todo' = [todo EXCEPT ![j] = @ \ {c}]

\* The send with its audit row: skipped, or accepted and not yet committed.
Send(j) ==
    /\ \E c \in Convs :
          /\ Take(j, c)
          /\ \/ Suppresses(Id(j, c)) /\ UNCHANGED <<accepted, today>>
             \/ ~Suppresses(Id(j, c)) /\ Id(j, c) \notin accepted /\ Accept(Id(j, c))
          /\ cur' = [cur EXCEPT ![j] = {c}]
    /\ at' = [at EXCEPT ![j] = "record"]
    /\ UNCHANGED <<db, people, rows, age, quiet, told, mishaps>>

\* A repeated identifier is refused: the row says so, the job goes on.
Repeated(j) ==
    /\ \E c \in Convs :
          /\ Take(j, c)
          /\ ~Suppresses(Id(j, c)) /\ Id(j, c) \in accepted
          /\ CommitRow(Id(j, c), "active")
    /\ UNCHANGED <<db, people, at, cur, accepted, age, quiet, told, mishaps>>

\* Refused, or the answer is lost: the row says "error", the job goes on.
Refused(j) ==
    /\ Mishap
    /\ \E c \in Convs :
          /\ Take(j, c)
          /\ ~Suppresses(Id(j, c)) /\ Id(j, c) \notin accepted
          /\ CommitRow(Id(j, c), "error")
    /\ UNCHANGED <<db, people, at, cur, accepted, age, quiet, told>>

AnswerLost(j) ==
    /\ Mishap
    /\ \E c \in Convs :
          LET id == Id(j, c) IN
          /\ Take(j, c) /\ ~Suppresses(id) /\ id \notin accepted
          /\ accepted' = accepted \cup {id} /\ rows' = [rows EXCEPT ![id] = "error"]
          /\ today' = IF ~IsReminder(id) THEN today
                      ELSE [created |-> today.created \cup (IF rows[id] = "none" THEN {id} ELSE {}),
                            accepted |-> today.accepted \cup {id}]
    /\ UNCHANGED <<db, people, at, cur, age, quiet, told>>

\* A follow-up is recorded in place, a reminder with the whole column; the
\* commit writes the audit row too.
AfterSend(j, column) ==
    IF j = "payments" THEN [column EXCEPT !.reminded = TRUE] ELSE [column EXCEPT !.sent = @ + 1]

Record(j) ==
    /\ at[j] = "record" /\ at' = [at EXCEPT ![j] = "next"] /\ cur' = [cur EXCEPT ![j] = {}]
    /\ \E c \in cur[j] :
          /\ Flush(c, AfterSend(j, copy[j][c]), j = "payments")
          /\ Keep(j, c, AfterSend(j, copy[j][c]))
          /\ CommitRow(Id(j, c), "active")
    /\ UNCHANGED <<stage, used, todo, accepted, age, quiet, told, mishaps>>

\* The session of a job is closed: after its last row, or when the job dies
\* (what it has not committed is rolled back).
Close(j) ==
    /\ at' = [at EXCEPT ![j] = "idle"] /\ todo' = [todo EXCEPT ![j] = {}]
    /\ cur' = [cur EXCEPT ![j] = {}] /\ copy' = [copy EXCEPT ![j] = [c \in Convs |-> Proposed]]
    /\ told' = IF j = "proposals" THEN {} ELSE told
    /\ UNCHANGED <<db, stage, used, world, age, quiet>>

Finish(j) == at[j] = "next" /\ todo[j] = {} /\ Close(j) /\ UNCHANGED mishaps
Die(j) == at[j] # "idle" /\ Mishap /\ Close(j)

-----------------------------------------------------------------------------
Tick ==
    /\ age < Steps /\ age' = age + 1
    /\ UNCHANGED <<db, people, jobs, world, quiet, told, mishaps>>

NewDay ==
    /\ today # Morning /\ at["payments"] = "idle"
    /\ today' = Morning
    /\ UNCHANGED <<db, people, jobs, rows, accepted, age, quiet, told, mishaps>>

Job(j) ==
    \/ Duplicate(j) \/ Send(j) \/ Repeated(j) \/ Refused(j) \/ AnswerLost(j)
    \/ Record(j) \/ Finish(j) \/ Die(j)
FollowNext ==
    \/ \E c \in Convs : Load("turn", c) \/ Reply(c) \/ EndTurn(c) \/ Load("manager", c) \/ Decide(c)
    \/ ChooseProposals \/ ChoosePayments
    \/ \E j \in Jobs : Job(j)
    \/ Tick \/ NewDay

FollowSpec == FollowInit /\ [][FollowNext]_followVars

-----------------------------------------------------------------------------
(* Properties.                                                             *)

FollowTypeOK ==
    /\ db \in [Convs -> Columns] /\ copy \in [People \cup Jobs -> [Convs -> Columns]]
    /\ stage \in [People -> [Convs -> {"idle", "loaded", "replied"}]]
    /\ todo \in [Jobs -> SUBSET Convs] /\ at \in [Jobs -> {"idle", "next", "record"}]
    /\ cur \in [Jobs -> SUBSET Convs]
    /\ rows \in [Ids -> {"none", "error", "active"}] /\ accepted \in SUBSET Ids
    /\ today \in [created : SUBSET Ids, accepted : SUBSET Ids]
    /\ age \in 0..Steps /\ quiet \in SUBSET Convs /\ told \in SUBSET Convs
    /\ used \in 0..MaxTurns /\ mishaps \in 0..MaxMishaps

\* The reminders that reach customers in a day exceed the daily limit by no
\* more than the mishaps: the limit is counted once per run, from committed
\* audit rows by the day they were created, so a reminder whose row was lost or
\* says "error" is not among them, nor is one that is retried the next day.
DailyLimitHolds == Cardinality(today.accepted) <= DailyLimit + mishaps

\* A reminder recorded as sent reached the customer, whatever was lost, refused
\* as repeated or taken up by another run.
RemindedIsDelivered == \A c \in Convs : db[c].reminded => <<"reminder", c, 0>> \in accepted

\* tj-gh22-post-quotation-followup-e2e-plan.md: "Any customer reply stops FU":
\* no follow-up is sent by a run that chose its rows after the reply.
ReplyStopsChain ==
    [][\A c \in told, n \in 1..Steps :
          <<"followup", c, n>> \in accepted' => <<"followup", c, n>> \in accepted]_followVars
=============================================================================
