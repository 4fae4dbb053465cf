----------------------------- MODULE LlmAttempt -----------------------------
(***************************************************************************)
(* One LLM evaluation of the quality jobs, that is, one llm_attempts row:  *)
(*   src/llm/attempts.py   begin_llm_attempt, record_llm_attempt_...,      *)
(*                         release_llm_attempt_lock                        *)
(*   src/quality/job.py    the final review of a conversation, the warning *)
(*                         about red flags, and what replays them          *)
(*   src/quality/manager_job.py   the review of a manager's escalation     *)
(*                                                                         *)
(* A cron job looks at the conversation (or escalation) again and again.   *)
(* A look reads the attempt row, then takes a Redis lock, opens the row    *)
(* and calls the LLM; a look that gets no lease may replay what a recorded *)
(* success still owes.  A final review owes a saved review, a try to alert *)
(* the owner and a marker, a warning the try and its marker, a manager's   *)
(* review is saved and its alert tried.  An alert that does not arrive is  *)
(* not tried again: the notifications swallow every error.                 *)
(*                                                                         *)
(* Abstractions.  Looks overlap as jobs do that ARQ delayed or runs again. *)
(* Settings and candidate stay as they are, so the hashes match; the LLM   *)
(* finds the same flags each time; a success is one to alert about.  An    *)
(* LLM call and the commit of its outcome are one step.  A lock key lives  *)
(* as long as a job may run (600 s each), so it expires only after its     *)
(* owner.  An UPDATE writes the columns that differ from the object's.     *)
(***************************************************************************)
EXTENDS Integers, FiniteSets

CONSTANTS
    Runners,      \* looks at the conversation that may overlap
    MaxAttempts,  \* DEFAULT_MAX_CRON_ATTEMPTS
    MaxFaults     \* bound: looks that die, are cancelled or raise

ASSUME AttemptsAssumption == MaxAttempts \in Nat \ {0}
ASSUME FaultsAssumption == MaxFaults \in Nat

Free == "free"   \* no lock key
Dead == "dead"   \* a lock key whose owner is gone
ASSUME OwnersAssumption == Free \notin Runners /\ Dead \notin Runners

\* "final" stands for failed_final, budget_blocked and needs_manual_review.
Terminal == {"success", "no_action", "final"}
Statuses == Terminal \cup {"absent", "pending", "failed_retryable"}
Kinds == {"final", "red_flags", "manager"}
NoRow == [status |-> "absent", count |-> 0, retry |-> "none"]

VARIABLES
    row,       \* the committed llm_attempts row
    object,    \* of each look: the LLMAttempt object of its session
    lock,      \* llm_attempt:lock:<key>
    pc,        \* where each look is
    review,    \* this evaluation's quality_reviews or manager_reviews row is saved
    inserts,   \* of each look: save_review found no row and inserts one
    tried,     \* notify_... was called and returned: an alert was tried
    marker,    \* quality:final:<conversation> has this activity time, or
               \* quality:red_flags:<conversation> these flags
    faults,
    kind,      \* which job's attempt it is
    earlier,   \* the conversation has a review of an earlier activity, which
               \* the one of this activity is written over
    reached    \* a run gets to it: it is among the job's max_calls newest
               \* candidates, and the day's quota has a call left

job == <<kind, earlier, reached>>
vars == <<row, object, lock, pc, review, inserts, tried, marker, faults, job>>

Init ==
    /\ row = NoRow /\ object = [r \in Runners |-> NoRow]
    /\ lock = Free /\ pc = [r \in Runners |-> "idle"]
    /\ review = FALSE /\ inserts = [r \in Runners |-> FALSE]
    /\ tried = FALSE /\ marker = FALSE
    /\ faults = 0
    /\ kind \in Kinds /\ reached \in BOOLEAN
    /\ earlier \in BOOLEAN /\ (earlier => kind = "final")

Goto(r, label) == pc' = [pc EXCEPT ![r] = label]

\* The lock after its owner let go: only its own token is deleted.
Released(r) == IF lock = r THEN Free ELSE lock

-----------------------------------------------------------------------------
(* begin_llm_attempt.                                                      *)

\* The mutant takes a row that a dead look left pending for one in progress.
BusyOrClosed(r) == r.status \in Terminal \cup {"pending"}
NotBillable(r) ==
    \/ r.status \in Terminal
    \/ r.status = "failed_retryable" /\ r.retry = "later"

\* What a job does not look at again; a warning's marker is read later.
Closed ==
    \/ kind = "final" /\ marker
    \/ kind = "manager" /\ review

Read(r) ==
    /\ pc[r] = "idle" /\ reached /\ ~Closed
    /\ object' = [object EXCEPT ![r] = row]
    /\ Goto(r, IF NotBillable(row) THEN "replay" ELSE "lock")
    /\ UNCHANGED <<row, lock, review, inserts, tried, marker, faults, job>>

\* SET NX EX.
Lock(r) ==
    /\ pc[r] = "lock"
    /\ IF lock = Free
       THEN lock' = r /\ Goto(r, "begin")
       ELSE UNCHANGED lock /\ Goto(r, "replay")
    /\ UNCHANGED <<row, object, review, inserts, tried, marker, faults, job>>

\* The row is opened: inserted, unless somebody else did, or updated.
Begin(r) ==
    /\ pc[r] = "begin"
    /\ \/ /\ object[r] = NoRow /\ row # NoRow
          /\ lock' = Released(r)
          /\ Goto(r, "idle")
          /\ UNCHANGED <<row, object>>
       \/ /\ object[r] = NoRow => row = NoRow
          /\ LET o == object[r]
                 opened == [status |-> "pending", count |-> o.count + 1, retry |-> "none"]
             IN  /\ object' = [object EXCEPT ![r] = opened]
                 /\ row' = [status |-> IF o.status # "pending" THEN "pending" ELSE row.status,
                            count |-> o.count + 1,
                            retry |-> IF o.retry # "none" THEN "none" ELSE row.retry]
          /\ Goto(r, "evaluate")
          /\ UNCHANGED lock
    /\ UNCHANGED <<review, inserts, tried, marker, faults, job>>

-----------------------------------------------------------------------------
(* The LLM call and record_llm_attempt_success, _no_action, _error.        *)

Recorded(r, status, retry) == row' = [status |-> status, count |-> row.count, retry |-> retry]

FirstDelivery ==
    CASE kind = "final" -> "select" [] kind = "red_flags" -> "compare" [] kind = "manager" -> "save"

EvaluateSucceeds(r) ==
    /\ pc[r] = "evaluate"
    /\ \/ Recorded(r, "success", row.retry) /\ Goto(r, FirstDelivery)
       \/ Recorded(r, "no_action", row.retry) /\ Goto(r, "release")
    /\ UNCHANGED <<object, lock, review, inserts, tried, marker, faults, job>>

\* An error that may be retried is, until the attempts are used up.
EvaluateFails(r) ==
    /\ pc[r] = "evaluate"
    /\ \/ object[r].count < MaxAttempts /\ Recorded(r, "failed_retryable", "later")
       \/ Recorded(r, "final", "none")
    /\ Goto(r, "release")
    /\ UNCHANGED <<object, lock, review, inserts, tried, marker, faults, job>>

-----------------------------------------------------------------------------
(* What follows a recorded success.                                        *)

\* A look without a lease replays a success that is not delivered (the mutant
\* does not).
NoReplay == FALSE
Replayable == row.status = "success" /\ ~marker /\ ~Closed

\* What a replay still owes (the mutant takes the review for saved).  Any
\* review of the conversation is taken for the one of this activity.
Found == review \/ earlier
TakenForSaved == "alert"
Owed ==
    CASE kind = "red_flags"        -> "alert"
      [] kind = "manager"          -> "save"
      [] kind = "final" /\ Found   -> "alert"
      [] kind = "final" /\ ~Found  -> "select"

Replay(r) ==
    /\ pc[r] = "replay"
    /\ Goto(r, IF Replayable THEN Owed ELSE "release")
    /\ UNCHANGED <<row, object, lock, review, inserts, tried, marker, faults, job>>

\* The look that called warns of flags unless their marker is set.
Compare(r) ==
    /\ pc[r] = "compare"
    /\ Goto(r, IF marker THEN "release" ELSE "alert")
    /\ UNCHANGED <<row, object, lock, review, inserts, tried, marker, faults, job>>

\* save_review: update the row of the conversation or insert one ...
SelectReview(r) ==
    /\ pc[r] = "select"
    /\ inserts' = [inserts EXCEPT ![r] = ~Found]
    /\ Goto(r, "save")
    /\ UNCHANGED <<row, object, lock, review, tried, marker, faults, job>>

\* ... where the unique index refuses a second one and the look ends, as it
\* does in save_manager_review, which always inserts.
SaveReview(r) ==
    /\ pc[r] = "save"
    /\ IF review /\ (inserts[r] \/ kind = "manager")
       THEN Goto(r, "release") /\ UNCHANGED review
       ELSE review' = TRUE /\ Goto(r, "alert")
    /\ UNCHANGED <<row, object, lock, inserts, tried, marker, faults, job>>

\* TelegramClient._post gives up after its retries and the notifications
\* swallow what is raised: the look goes on alike whether the alert arrived or
\* was lost, and nothing records which.
Alert(r) ==
    /\ pc[r] = "alert"
    /\ tried' = TRUE
    /\ Goto(r, IF kind = "manager" THEN "release" ELSE "mark")
    /\ UNCHANGED <<row, object, lock, review, inserts, marker, faults, job>>

SetMarker(r) ==
    /\ pc[r] = "mark"
    /\ marker' = TRUE
    /\ Goto(r, "release")
    /\ UNCHANGED <<row, object, lock, review, inserts, tried, faults, job>>

Release(r) ==
    /\ pc[r] = "release"
    /\ lock' = Released(r)
    /\ Goto(r, "idle")
    /\ UNCHANGED <<row, object, review, inserts, tried, marker, faults, job>>

-----------------------------------------------------------------------------
\* A look raises or is cancelled, and its finally block releases the lock,
\* or it is killed, or cancelled before it has a lease: the key stays.
Interrupt(r) ==
    /\ pc[r] # "idle"
    /\ faults < MaxFaults /\ faults' = faults + 1
    /\ lock' = Released(r) \/ lock' = IF lock = r THEN Dead ELSE lock
    /\ Goto(r, "idle")
    /\ UNCHANGED <<row, object, review, inserts, tried, marker, job>>

\* The keys whose TTL may be over (the mutant lets a lease expire too).
AnyKey == Runners \cup {Dead}
Expirable == {Dead}

LockExpires ==
    /\ lock \in Expirable
    /\ lock' = Free
    /\ UNCHANGED <<row, object, pc, review, inserts, tried, marker, faults, job>>

\* Other candidates come and go, and so do days.
Reach ==
    /\ reached' = ~reached
    /\ UNCHANGED <<row, object, lock, pc, review, inserts, tried, marker, faults, kind, earlier>>

\* next_retry_at passes.
BackoffEnds ==
    /\ row.retry = "later"
    /\ row' = [row EXCEPT !.retry = "due"]
    /\ UNCHANGED <<object, lock, pc, review, inserts, tried, marker, faults, job>>

Step(r) ==
    \/ Read(r) \/ Lock(r) \/ Begin(r) \/ EvaluateSucceeds(r) \/ EvaluateFails(r)
    \/ Replay(r) \/ Compare(r) \/ SelectReview(r) \/ SaveReview(r) \/ Alert(r) \/ SetMarker(r) \/ Release(r)

Next ==
    \/ \E r \in Runners : Step(r) \/ Interrupt(r)
    \/ LockExpires \/ BackoffEnds \/ Reach

Spec == Init /\ [][Next]_vars

\* The cron looks again every half hour or hour while it gets to the
\* candidate, a started look goes on, TTLs run out.
FairSpec ==
    /\ Spec
    /\ \A r \in Runners : WF_vars(Step(r))
    /\ WF_vars(LockExpires) /\ WF_vars(BackoffEnds)

-----------------------------------------------------------------------------
(* Properties.                                                             *)

\* Every variable stays in its type.
TypeOK ==
    /\ row \in [status : Statuses, count : Nat, retry : {"none", "later", "due"}]
    /\ object \in [Runners -> [status : Statuses, count : Nat, retry : {"none", "later", "due"}]]
    /\ lock \in Runners \cup {Free, Dead}
    /\ pc \in [Runners -> {"idle", "lock", "begin", "evaluate", "replay", "select", "save",
                           "compare", "alert", "mark", "release"}]
    /\ review \in BOOLEAN /\ inserts \in [Runners -> BOOLEAN]
    /\ tried \in BOOLEAN /\ marker \in BOOLEAN
    /\ faults \in 0..MaxFaults /\ kind \in Kinds
    /\ earlier \in BOOLEAN /\ reached \in BOOLEAN

\* The LLM is never called twice at the same time for one attempt, although
\* looks overlap, die and read the row before they lock.
OneEvaluation ==
    \A r, s \in Runners : pc[r] = "evaluate" /\ pc[s] = "evaluate" => r = s

\* An alert is tried only about a review that is saved (but with a review of
\* an earlier activity, a replay alerts about a result it does not save), and a
\* conversation is marked as done only after a try.  That the owner got the alert
\* is not promised: the marker is set after a lost one, too.
AlertedOnlyIfSaved ==
    /\ tried /\ kind # "red_flags" => Found
    /\ marker => tried

\* The inductive invariant behind both: a look with a lease owns the lock, and
\* one that alerts or marks has found or saved the review.
LeaseInv == \A r \in Runners : pc[r] \in {"begin", "evaluate"} => lock = r
SavedInv ==
    /\ AlertedOnlyIfSaved
    /\ \A r \in Runners :
          /\ pc[r] \in {"alert", "mark"} /\ kind # "red_flags" => Found
          /\ pc[r] = "compare" => kind = "red_flags"
          /\ pc[r] = "mark" => tried
IInv == TypeOK /\ LeaseInv /\ SavedInv

\* An opened attempt comes to an end although its look dies, unless there is
\* nothing to look at any more, if the runs keep getting to it.
AttemptEnds ==
    <>[]reached => (row.status = "pending" ~> row.status \in Terminal \/ Closed)

\* A recorded success is followed up, whoever dies in between, if the runs keep
\* getting to it (or the attempt is opened again, by a look that read the row
\* before the success and locks after it): the review is saved, the alert tried,
\* the marker set.  Of a manager's review only the saving is: once it is saved
\* nobody looks for an alert that was not tried.
FollowedUp ==
    CASE kind = "final"     -> Found /\ tried /\ marker
      [] kind = "red_flags" -> tried /\ marker
      [] kind = "manager"   -> review
SuccessIsFollowedUp ==
    <>[]reached => (row.status = "success" ~> FollowedUp \/ row.status # "success")
=============================================================================
