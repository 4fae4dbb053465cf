--------------------------- MODULE OutboundAudit ---------------------------
(***************************************************************************)
(* One audited outbound message, that is, one crm_message_id:              *)
(*   src/services/outbound_audit.py   send_wazzup_text_with_audit          *)
(*   src/integrations/messaging/wazzup.py   _request                       *)
(*                                                                         *)
(* Callers with the same identifier (a job that runs again, a manager who  *)
(* taps twice, a cron that overlaps) look up the audit row, write it as    *)
(* pending, call the provider inside the open transaction and commit.      *)
(* The callers are the only writers of the row: update_wazzup_statuses     *)
(* compares the event's naive time with the row's timestamptz, which       *)
(* raises for every row it finds, so that a status webhook writes nothing. *)
(*                                                                         *)
(* Abstractions.  Of the row its status is kept.  PostgreSQL is READ       *)
(* COMMITTED: a read sees the committed row; an INSERT or UPDATE waits for *)
(* the transaction that wrote the row.  An UPDATE writes "pending" over    *)
(* whatever the row has become, as the loaded object was in error.  The    *)
(* provider, which the repository knows only by its answers, accepts an    *)
(* identifier once.                                                        *)
(***************************************************************************)
EXTENDS Integers, FiniteSets

CONSTANTS
    Callers,     \* concurrent callers with the same crm_message_id
    MaxRetries,  \* max_retries of WazzupProvider._request
    MaxCalls,    \* bound: calls per caller
    MaxFaults    \* bound: lost requests, lost answers, refusals and dead callers

ASSUME RetriesAssumption == MaxRetries \in Nat \ {0}
ASSUME BoundsAssumption == MaxCalls \in Nat /\ MaxFaults \in Nat

Nobody == "nobody"
ASSUME NobodyAssumption == Nobody \notin Callers

NoRow == "absent"
Statuses == {"pending", "provider_duplicate", "sent", "error"}
Rows == Statuses \cup {NoRow}

VARIABLES
    row,         \* the committed audit row
    writer,      \* the caller whose open transaction wrote the row
    dirty,       \* the row as that transaction sees it
    pc,          \* where each caller is
    seen,        \* the row each caller loaded
    attempt,     \* the HTTP attempt of _request
    calls,       \* calls begun by each caller
    accepted,    \* the provider has accepted the identifier
    faults

vars == <<row, writer, dirty, pc, seen, attempt, calls, accepted, faults>>

Init ==
    /\ row = NoRow /\ writer = Nobody /\ dirty = NoRow
    /\ pc = [c \in Callers |-> "idle"]
    /\ seen = [c \in Callers |-> NoRow]
    /\ attempt = [c \in Callers |-> 0]
    /\ calls = [c \in Callers |-> 0]
    /\ accepted = FALSE /\ faults = 0

Goto(c, label) == pc' = [pc EXCEPT ![c] = label]
Fault == faults < MaxFaults /\ faults' = faults + 1

-----------------------------------------------------------------------------
(* send_wazzup_text_with_audit.                                            *)

\* _is_active (the mutant counts a failed attempt as active).
ActiveWithErrors(r) == r # NoRow
Active(r) == r \notin {NoRow, "error"}

\* _find_by_crm_message_id: an active row means the call is skipped.
Lookup(c) ==
    /\ pc[c] = "idle" /\ calls[c] < MaxCalls
    /\ calls' = [calls EXCEPT ![c] = @ + 1]
    /\ IF Active(row)
       THEN Goto(c, "skipped") /\ UNCHANGED seen
       ELSE Goto(c, "flush") /\ seen' = [seen EXCEPT ![c] = row]
    /\ UNCHANGED <<row, writer, dirty, attempt, accepted, faults>>

\* The flush takes the row for the rest of the transaction (the mutant
\* leaves the INSERT or UPDATE to the commit).
WriteAtCommit(c) == writer' = writer
TakeRow(c) == writer = Nobody /\ writer' = c

\* The unique index lets an INSERT in only while there is no row (the mutant
\* is a table without it).
NoUniqueIndex(c) == TRUE
UniqueIndex(c) == seen[c] = NoRow => row = NoRow

\* db.flush before the provider call: INSERT, or UPDATE of a failed row.
Flush(c) ==
    /\ pc[c] = "flush"
    /\ TakeRow(c)
    /\ UniqueIndex(c)
    /\ dirty' = "pending"
    /\ attempt' = [attempt EXCEPT ![c] = 1]
    /\ Goto(c, "send")
    /\ UNCHANGED <<row, seen, calls, accepted, faults>>

\* The INSERT meets a row committed since the lookup: IntegrityError.
FlushConflicts(c) ==
    /\ pc[c] = "flush" /\ writer = Nobody
    /\ seen[c] = NoRow /\ row # NoRow
    /\ Goto(c, "failed")
    /\ UNCHANGED <<row, writer, dirty, seen, attempt, calls, accepted, faults>>

Accept == ~accepted /\ accepted' = TRUE

\* The row as it will be committed after the provider call.
Answered(c, status) ==
    /\ dirty' = status
    /\ Goto(c, IF status = "sent" THEN "sent" ELSE "raising")
    /\ UNCHANGED <<row, writer, seen, attempt, calls>>

\* The provider accepts, with a message id in its answer or without one.
SendAccepted(c) ==
    /\ pc[c] = "send"
    /\ Accept
    /\ Answered(c, "sent")
    /\ UNCHANGED faults

\* The status of an HTTP error (the mutant takes every refusal for a
\* repeated identifier).
EveryRefusal(repeated) == "provider_duplicate"
RefusalStatus(repeated) == IF repeated THEN "provider_duplicate" ELSE "error"

\* The provider refuses a repeated identifier, or the request for another reason.
SendRefused(c) ==
    /\ pc[c] = "send"
    /\ \/ accepted /\ Answered(c, RefusalStatus(TRUE)) /\ UNCHANGED faults
       \/ Fault /\ Answered(c, RefusalStatus(FALSE))
    /\ UNCHANGED accepted

\* The attempts _request has left.
RetryLeft(c) == attempt[c] < MaxRetries

\* The request or its answer is lost.  A timeout, a network error or 429 is
\* retried while attempts are left; another transport error is not.
SendLost(c) ==
    /\ pc[c] = "send" /\ Fault
    /\ UNCHANGED accepted \/ Accept
    /\ \/ /\ RetryLeft(c)
          /\ attempt' = [attempt EXCEPT ![c] = @ + 1]
          /\ UNCHANGED <<row, writer, dirty, pc, seen, calls>>
       \/ Answered(c, "error")

\* The commit: of the caller after "sent", of the except block otherwise.
Commit(c) ==
    /\ pc[c] \in {"sent", "raising"}
    /\ writer \in {c, Nobody}
    /\ row' = dirty
    /\ writer' = Nobody
    /\ Goto(c, IF pc[c] = "sent" THEN "done" ELSE "failed")
    /\ UNCHANGED <<dirty, seen, attempt, calls, accepted, faults>>

\* The caller's process dies, its job is cancelled or its transaction
\* fails: everything since the lookup is rolled back, the request is not.
Die(c) ==
    /\ pc[c] \in {"flush", "send", "sent", "raising"} /\ Fault
    /\ writer' = IF writer = c THEN Nobody ELSE writer
    /\ Goto(c, "failed")
    /\ \/ UNCHANGED accepted
       \/ pc[c] = "send" /\ Accept
    /\ UNCHANGED <<row, dirty, seen, attempt, calls>>

\* The same message is due again: the job is retried, the button is tapped.
CallAgain(c) ==
    /\ pc[c] \in {"skipped", "done", "failed"} /\ calls[c] < MaxCalls
    /\ Goto(c, "idle")
    /\ UNCHANGED <<row, writer, dirty, seen, attempt, calls, accepted, faults>>

-----------------------------------------------------------------------------
Step(c) ==
    \/ Lookup(c) \/ Flush(c) \/ FlushConflicts(c) \/ SendAccepted(c) \/ SendRefused(c)
    \/ SendLost(c) \/ Commit(c) \/ Die(c) \/ CallAgain(c)

Next == \E c \in Callers : Step(c)

Spec == Init /\ [][Next]_vars

-----------------------------------------------------------------------------
(* Properties.                                                             *)

\* Every variable stays in its type.
TypeOK ==
    /\ row \in Rows /\ dirty \in Rows /\ writer \in Callers \cup {Nobody}
    /\ pc \in [Callers -> {"idle", "skipped", "flush", "send", "sent", "raising", "done", "failed"}]
    /\ seen \in [Callers -> Rows] /\ attempt \in [Callers -> 0..MaxRetries]
    /\ calls \in [Callers -> 0..MaxCalls]
    /\ accepted \in BOOLEAN /\ faults \in 0..MaxFaults

\* Two callers are never in the provider call for one identifier together,
\* although both may have looked the row up before either wrote it.
OneRequestAtATime ==
    \A c, d \in Callers : pc[c] = "send" /\ pc[d] = "send" => c = d

\* Whenever a call is skipped as a duplicate, the provider has the message:
\* no failed attempt leaves a row that suppresses the message for ever.
SkippedOnlyIfAccepted == Active(row) => accepted

\* While nothing fails, the provider is asked once: a caller that looked the
\* row up before another one inserted it fails at its own INSERT and does not
\* repeat the request, and no row in error lets a later call through.
AskedAgainOnlyAfterFault == \A c \in Callers : pc[c] = "send" /\ accepted => faults > 0

\* The inductive invariant behind the first two: a caller past its flush holds the
\* row, and what is committed or reported as active has been accepted.
WriterInv == \A c \in Callers : pc[c] \in {"send", "sent", "raising"} => writer = c
AcceptedInv ==
    /\ SkippedOnlyIfAccepted
    /\ \A c \in Callers : pc[c] \in {"sent", "raising"} /\ Active(dirty) => accepted
IInv == TypeOK /\ WriterInv /\ AcceptedInv

\* And behind the third: without a fault every caller that waits for the row saw
\* none, the one at the provider is the first, and an accepted message has a row
\* or a caller about to commit it.
QuietInv ==
    faults = 0 =>
       /\ row # "error"
       /\ \A c \in Callers : pc[c] = "flush" => seen[c] = NoRow
       /\ \A c \in Callers : pc[c] = "send" => row = NoRow /\ ~accepted
       /\ \A c \in Callers : pc[c] \in {"sent", "raising"} => dirty = "sent"
       /\ accepted /\ writer = Nobody => row # NoRow

-----------------------------------------------------------------------------
(* What the callers build on.                                              *)

\* What a caller has been told by the place it is at.
Told(c) == CASE pc[c] \in {"skipped", "done"} -> "success"
             [] pc[c] = "failed" -> "failure"
             [] OTHER -> "waiting"

\* Rows, retries, lost answers and dying callers keep the promise of
\* SendContract: one caller at the provider, one delivery, success only for a
\* delivered message, suppression only by one.
Contract == INSTANCE SendContract
    WITH delivered <- accepted, suppressed <- Active(row), holder <- writer,
         told <- [c \in Callers |-> Told(c)]
ImplementsSendContract == Contract!Spec
=============================================================================
