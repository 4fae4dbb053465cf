---------------------------- MODULE InboundBatch ----------------------------
(***************************************************************************)
(* The durable inbound batching of one WhatsApp chat:                      *)
(*   src/api/v1/webhook.py      handle_wazzup_webhook (RPUSH, then enqueue)*)
(*   src/services/chat.py       process_incoming_batch and its helpers     *)
(*   src/worker.py              job_timeout, max_jobs, max_tries           *)
(*                                                                         *)
(* The webhook appends every accepted message to a Redis list and enqueues *)
(* an ARQ job whose id names the chat and a ten-second window.  A job      *)
(* takes the lock of the chat, recovers an interrupted batch or moves the  *)
(* queued messages into the processing list, runs the turn behind a        *)
(* persistent execution guard, and deletes the processing list.            *)
(*                                                                         *)
(* Abstractions.  A message is its arrival number; raw[k] is its payload,  *)
(* and two deliveries of one payload are two arrivals.  The identifier of  *)
(* a batch (a digest of its payloads) is the sequence of payloads.  What   *)
(* the turn does (database, LLM, sends) is one step that may fail.  Time   *)
(* passes in coarse ticks: only the order job timeout < in-progress TTL <  *)
(* lock TTL < contention back-off matters, and back-offs of a few seconds  *)
(* are zero ticks.  Every Redis command is one step, which may also fail   *)
(* before or after it took effect.                                         *)
(***************************************************************************)
EXTENDS Integers, Sequences, FiniteSets

CONSTANTS
    Content,        \* the possible payloads of a message
    MaxArrivals,    \* bound: messages delivered by the webhook
    MaxTries,       \* INBOUND_BATCH_MAX_TRIES
    JobTimeout,     \* WorkerSettings.job_timeout, in ticks
    InProgressTtl,  \* ARQ's in-progress key: job_timeout + 10 s, in ticks
    LockTtl,        \* INBOUND_BATCH_LOCK_TTL_SECONDS, in ticks
    WorkerSlots,    \* WorkerSettings.max_jobs
    Prompt,         \* TRUE: a tick is far longer than a poll or a Redis call
    Budgets         \* bound: how often each kind of failure may happen, in a behaviour

FaultKinds == {"turn", "crash", "shutdown", "timeout", "redis"}

ASSUME ArrivalsAssumption == MaxArrivals \in Nat \ {0}
ASSUME TriesAssumption == MaxTries \in Nat \ {0}
ASSUME TimesAssumption ==
    /\ JobTimeout \in Nat /\ InProgressTtl \in Nat /\ LockTtl \in Nat
    /\ JobTimeout < LockTtl
    /\ JobTimeout =< InProgressTtl
ASSUME SlotsAssumption == WorkerSlots \in Nat \ {0}
ASSUME PromptAssumption == Prompt \in BOOLEAN
ASSUME BudgetAssumption == Budgets \subseteq [FaultKinds -> Nat]

Arrivals == 1..MaxArrivals
Jobs == 1..MaxArrivals      \* an enqueue creates at most one job
NoToken == <<0, 0>>         \* the lock key does not exist

VARIABLES
    raw,          \* payloads in arrival order (history)
    queue,        \* wazzup_msgs:<ref>
    processing,   \* wazzup:inbound:processing:<ref>
    lock,         \* owner token in wazzup:inbound:lock:<ref>
    lockAge,      \* ticks since the lock was set or renewed
    started,      \* batch ids whose execution guard says "started"
    completed,    \* batch ids whose execution guard says "completed"
    expiring,     \* guards with a TTL (set when the batch is finalized)
    quarantine,   \* batch ids under wazzup:inbound:quarantine:
    unannounced,  \* webhook calls between RPUSH and enqueue_job
    windowOpen,   \* the newest job's ten-second window is still running
    created,      \* jobs 1..created exist
    status,       \* of each ARQ job
    try,          \* ARQ's job_try
    timer,        \* queued: ticks to wait; running or crashed: ticks since start
    pc,           \* the next await of a running job
    batch,        \* raw_messages of the running job
    error,        \* what the except block is handling
    again,        \* the exception leaving the try block is arq.Retry
    budget,       \* failures still allowed
    effects,      \* times the side effects of an arrival were begun (history)
    outcome,      \* how an arrival left Redis (history)
    since         \* arrivals already queued when the job was created (history)

redisVars == <<queue, processing, lock, lockAge, started, completed, expiring, quarantine>>
jobVars == <<created, status, try, timer, pc, batch, error, again>>
historyVars == <<raw, effects, outcome, since>>
vars == <<redisVars, jobVars, historyVars, unannounced, windowOpen, budget>>

-----------------------------------------------------------------------------
Delivered == 1..Len(raw)
Elements(s) == {s[i] : i \in DOMAIN s}
BatchId(b) == [i \in DOMAIN b |-> raw[b[i]]]
Token(j) == <<j, try[j]>>
Guarded(id) == id \in started \cup completed
Running == {j \in Jobs : status[j] = "running"}
At(j, label) == status[j] = "running" /\ pc[j] = label

Goto(j, label) == pc' = [pc EXCEPT ![j] = label]
\* An exception or return leaves the try block; the finally block is next.
Leave(j, retry) == Goto(j, "unwind") /\ again' = [again EXCEPT ![j] = retry]
\* The inner try block raised: its except block is next.
Throw(j, kind) == Goto(j, "except") /\ error' = [error EXCEPT ![j] = kind]
\* The coroutine is over and ARQ takes the job back.
Stop(j, state, delay) ==
    /\ status' = [status EXCEPT ![j] = state]
    /\ timer' = [timer EXCEPT ![j] = delay]
    /\ pc' = [pc EXCEPT ![j] = "idle"]
    /\ batch' = [batch EXCEPT ![j] = << >>]
    /\ error' = [error EXCEPT ![j] = "none"]
    /\ again' = [again EXCEPT ![j] = FALSE]
    /\ UNCHANGED <<created, try>>

Spend(kind) == budget[kind] > 0 /\ budget' = [budget EXCEPT ![kind] = @ - 1]

Init ==
    /\ raw = << >> /\ queue = << >> /\ processing = << >>
    /\ lock = NoToken /\ lockAge = 0
    /\ started = {} /\ completed = {} /\ expiring = {} /\ quarantine = {}
    /\ unannounced = 0 /\ windowOpen = FALSE /\ created = 0
    /\ status = [j \in Jobs |-> "absent"]
    /\ try = [j \in Jobs |-> 0]
    /\ timer = [j \in Jobs |-> 0]
    /\ pc = [j \in Jobs |-> "idle"]
    /\ batch = [j \in Jobs |-> << >>]
    /\ error = [j \in Jobs |-> "none"]
    /\ again = [j \in Jobs |-> FALSE]
    /\ budget \in Budgets
    /\ effects = [k \in Arrivals |-> 0]
    /\ outcome = [k \in Arrivals |-> "pending"]
    /\ since = [j \in Jobs |-> 0]

-----------------------------------------------------------------------------
(* The webhook.                                                            *)

\* The queue after the push: RPUSH (the mutant is LPUSH).
PushedInFront(k) == <<k>> \o queue
Pushed(k) == Append(queue, k)

\* redis.rpush of one accepted message.
PushMessage(c) ==
    /\ Len(raw) < MaxArrivals
    /\ raw' = Append(raw, c)
    /\ queue' = Pushed(Len(raw) + 1)
    /\ unannounced' = unannounced + 1
    /\ UNCHANGED <<processing, lock, lockAge, started, completed, expiring, quarantine,
                   jobVars, effects, outcome, since, windowOpen, budget>>

\* arq_pool.enqueue_job: the id of a job that exists, or whose result is
\* kept, is not enqueued again.
EnqueueJob ==
    /\ unannounced > 0
    /\ unannounced' = unannounced - 1
    /\ \/ /\ windowOpen
          /\ UNCHANGED <<created, status, since, windowOpen>>
       \/ /\ ~windowOpen
          /\ windowOpen' = TRUE
          /\ created' = created + 1
          /\ status' = [status EXCEPT ![created + 1] = "queued"]
          /\ since' = [since EXCEPT ![created + 1] = Len(raw)]
    /\ UNCHANGED <<redisVars, try, timer, pc, batch, error, again, raw, effects, outcome, budget>>

\* The webhook process dies, or enqueue_job fails, after the RPUSH.
EnqueueFails ==
    /\ unannounced > 0
    /\ Spend("redis")
    /\ unannounced' = unannounced - 1
    /\ UNCHANGED <<redisVars, jobVars, historyVars, windowOpen>>

\* The wall clock enters the next ten-second window.
WindowPasses ==
    /\ windowOpen
    /\ windowOpen' = FALSE
    /\ UNCHANGED <<redisVars, jobVars, historyVars, unannounced, budget>>

-----------------------------------------------------------------------------
(* The ARQ worker.                                                         *)

Startable(j) == \/ status[j] = "queued" /\ timer[j] = 0
                \/ status[j] = "crashed" /\ timer[j] >= InProgressTtl

\* ARQ grants the function max_tries starts.
CanTry(j) == try[j] < MaxTries

\* run_job: count the try, give up past max_tries, else call the coroutine.
StartRun(j) ==
    /\ Startable(j)
    /\ Cardinality(Running) < WorkerSlots
    /\ \/ /\ CanTry(j)
          /\ status' = [status EXCEPT ![j] = "running"]
          /\ try' = [try EXCEPT ![j] = @ + 1]
          /\ timer' = [timer EXCEPT ![j] = 0]
          /\ pc' = [pc EXCEPT ![j] = "lock"]
       \/ /\ ~CanTry(j)
          /\ status' = [status EXCEPT ![j] = "finished"]
          /\ UNCHANGED <<try, timer, pc>>
    /\ UNCHANGED <<redisVars, created, batch, error, again, historyVars,
                   unannounced, windowOpen, budget>>

\* The worker process is killed: nothing of the coroutine runs any more.
Crash(j) ==
    /\ status[j] = "running"
    /\ Spend("crash")
    /\ Stop(j, "crashed", timer[j])
    /\ UNCHANGED <<redisVars, historyVars, unannounced, windowOpen>>

\* ARQ runs a job again that a worker shutdown cancelled, not one that
\* exceeded job_timeout.
RunAgain(kind) == kind = "shutdown"

\* CancelledError at an await, from a worker shutdown or from job_timeout.  At
\* the SET NX, before the try block, the key may be set and stays.
Cancel(j, kind) ==
    /\ status[j] = "running" /\ pc[j] # "unwind"
    /\ Spend(kind)
    /\ kind = "timeout" => timer[j] = JobTimeout
    /\ \/ /\ pc[j] = "lock"
          /\ Stop(j, IF RunAgain(kind) THEN "queued" ELSE "finished", 0)
          /\ \/ UNCHANGED <<lock, lockAge>>
             \/ lock = NoToken /\ lock' = Token(j) /\ lockAge' = 0
       \/ /\ pc[j] # "lock"
          /\ Leave(j, RunAgain(kind))
          /\ UNCHANGED <<lock, lockAge, created, status, try, timer, batch, error>>
    /\ UNCHANGED <<queue, processing, started, completed, expiring, quarantine,
                   historyVars, unannounced, windowOpen>>

\* Nothing that takes less than a tick is under way: ARQ has started what
\* it can start, and running jobs are in the database, the LLM or a send.
Settling ==
    \/ \E j \in Jobs : Startable(j) /\ Cardinality(Running) < WorkerSlots
    \/ \E j \in Running : pc[j] \notin {"inner", "work"}

\* No job runs past job_timeout: it has ended or is being cancelled.
NoTimeout == TRUE
WithinTimeout == \A j \in Running : timer[j] < JobTimeout

\* Time: a running job is cancelled at JobTimeout, the lock key expires.
Tick ==
    /\ Prompt => ~Settling
    /\ WithinTimeout
    /\ timer' = [j \in Jobs |->
                   CASE status[j] = "running" -> timer[j] + 1
                     [] status[j] = "crashed" /\ timer[j] < InProgressTtl -> timer[j] + 1
                     [] status[j] = "queued" /\ timer[j] > 0 -> timer[j] - 1
                     [] OTHER -> timer[j]]
    /\ IF lock # NoToken /\ lockAge + 1 < LockTtl
       THEN lockAge' = lockAge + 1 /\ UNCHANGED lock
       ELSE lockAge' = 0 /\ lock' = NoToken
    /\ windowOpen' = FALSE
    /\ UNCHANGED <<queue, processing, started, completed, expiring, quarantine, created,
                   status, try, pc, batch, error, again, historyVars, unannounced, budget>>

-----------------------------------------------------------------------------
(* process_incoming_batch, one await after the other.                      *)

othersOfJob == <<created, status, try, timer>>

\* Another job owns the chat: Retry past the TTL of its lock.
GiveUp(j) == Stop(j, "finished", 0)
Contend(j) == Stop(j, "queued", LockTtl + 1)

\* SET lock token NX EX.
AcquireLock(j) ==
    /\ At(j, "lock")
    /\ \/ /\ lock = NoToken
          /\ lock' = Token(j) /\ lockAge' = 0
          /\ Goto(j, "recover")
          /\ UNCHANGED <<othersOfJob, batch, error, again>>
       \/ /\ lock # NoToken
          /\ Contend(j)
          /\ UNCHANGED <<lock, lockAge>>
    /\ UNCHANGED <<queue, processing, started, completed, expiring, quarantine,
                   historyVars, unannounced, windowOpen, budget>>

AcquireLockFails(j) ==
    /\ At(j, "lock") /\ Spend("redis")
    /\ \/ UNCHANGED <<lock, lockAge>>
       \/ lock = NoToken /\ lock' = Token(j) /\ lockAge' = 0
    /\ Stop(j, "queued", 0)
    /\ UNCHANGED <<queue, processing, started, completed, expiring, quarantine,
                   historyVars, unannounced, windowOpen>>

\* What the claim starts with: LRANGE of the processing list.
NothingRecovered == << >>
Recovered == processing

\* _claim_inbound_messages: an interrupted batch is taken as it is.
Recover(j) ==
    /\ At(j, "recover")
    /\ batch' = [batch EXCEPT ![j] = Recovered]
    /\ Goto(j, IF Recovered # << >> THEN "inspect" ELSE "move")
    /\ UNCHANGED <<redisVars, othersOfJob, error, again, historyVars, unannounced, windowOpen, budget>>

\* One LMOVE of the loop; the loop ends when the queue is empty.
MoveOne(j) ==
    /\ At(j, "move")
    /\ \/ /\ queue # << >>
          /\ queue' = Tail(queue)
          /\ processing' = Append(processing, Head(queue))
          /\ batch' = [batch EXCEPT ![j] = Append(@, Head(queue))]
          /\ UNCHANGED pc
       \/ /\ queue = << >>
          /\ Goto(j, IF batch[j] # << >> THEN "inspect" ELSE "release")
          /\ UNCHANGED <<queue, processing, batch>>
    /\ UNCHANGED <<lock, lockAge, started, completed, expiring, quarantine, othersOfJob,
                   error, again, historyVars, unannounced, windowOpen, budget>>

\* Redis fails while claiming: Retry, and an LMOVE may have been applied.
ClaimFails(j) ==
    /\ At(j, "recover") \/ At(j, "move")
    /\ Spend("redis")
    /\ Leave(j, TRUE)
    /\ \/ UNCHANGED <<queue, processing>>
       \/ /\ pc[j] = "move" /\ queue # << >>
          /\ queue' = Tail(queue)
          /\ processing' = Append(processing, Head(queue))
    /\ UNCHANGED <<lock, lockAge, started, completed, expiring, quarantine, othersOfJob,
                   batch, error, historyVars, unannounced, windowOpen>>

\* Read the execution guard of the batch.
Inspect(j) ==
    /\ At(j, "inspect")
    /\ LET id == BatchId(batch[j]) IN
       CASE id \in completed -> Goto(j, "finalize") /\ UNCHANGED error
         [] id \in started \ completed -> Throw(j, "terminal")
         [] OTHER            -> Goto(j, "inner") /\ UNCHANGED error
    /\ UNCHANGED <<redisVars, othersOfJob, batch, again, historyVars, unannounced, windowOpen, budget>>

InspectFails(j) ==
    /\ At(j, "inspect") /\ Spend("redis")
    /\ Throw(j, "retryable")
    /\ UNCHANGED <<redisVars, othersOfJob, batch, again, historyVars, unannounced, windowOpen>>

\* _process_batch_inner before its side effects: it returns (bot disabled,
\* manager message, manual takeover, nothing to answer) ...
InnerReturns(j) ==
    /\ At(j, "inner")
    /\ Goto(j, "mark")
    /\ UNCHANGED <<redisVars, othersOfJob, batch, error, again, historyVars, unannounced, windowOpen, budget>>

\* ... or raises: a bad payload is terminal, a failing database is not ...
InnerRaises(j) ==
    /\ At(j, "inner") /\ Spend("turn")
    /\ \E kind \in {"retryable", "terminal"} : Throw(j, kind)
    /\ UNCHANGED <<redisVars, othersOfJob, batch, again, historyVars, unannounced, windowOpen>>

\* ... or claims the at-most-once boundary (_begin_inbound_side_effects).
BeginSideEffects(j) ==
    /\ At(j, "inner")
    /\ LET id == BatchId(batch[j]) IN
       \/ /\ ~Guarded(id)
          /\ started' = started \cup {id}
          /\ effects' = [k \in Arrivals |->
                           IF k \in Elements(batch[j]) THEN effects[k] + 1 ELSE effects[k]]
          /\ Goto(j, "work")
          /\ UNCHANGED error
       \/ /\ Guarded(id)
          /\ Throw(j, "terminal")
          /\ UNCHANGED <<started, effects>>
    /\ UNCHANGED <<queue, processing, lock, lockAge, completed, expiring, quarantine, othersOfJob,
                   batch, again, raw, outcome, since, unannounced, windowOpen, budget>>

BeginFails(j) ==
    /\ At(j, "inner") /\ Spend("redis")
    /\ LET id == BatchId(batch[j]) IN
       \/ UNCHANGED started
       \/ ~Guarded(id) /\ started' = started \cup {id}
    /\ Throw(j, "retryable")
    /\ UNCHANGED <<queue, processing, lock, lockAge, completed, expiring, quarantine, othersOfJob,
                   batch, again, historyVars, unannounced, windowOpen>>

\* Transcription, LLM, sends and commits succeed, or one of them raises.
Work(j) ==
    /\ At(j, "work")
    /\ Goto(j, "mark")
    /\ UNCHANGED <<redisVars, othersOfJob, batch, error, again, historyVars, unannounced, windowOpen, budget>>

WorkRaises(j) ==
    /\ At(j, "work") /\ Spend("turn")
    /\ \E kind \in {"retryable", "terminal"} : Throw(j, kind)
    /\ UNCHANGED <<redisVars, othersOfJob, batch, again, historyVars, unannounced, windowOpen>>

\* _mark_inbound_execution_completed: a plain SET also drops a TTL.
SetCompleted(id) ==
    /\ completed' = completed \cup {id}
    /\ started' = started \ {id}
    /\ expiring' = expiring \ {id}

MarkCompleted(j) ==
    /\ At(j, "mark")
    /\ SetCompleted(BatchId(batch[j]))
    /\ Goto(j, "finalize")
    /\ UNCHANGED <<queue, processing, lock, lockAge, quarantine, othersOfJob, batch, error, again,
                   historyVars, unannounced, windowOpen, budget>>

MarkFails(j) ==
    /\ At(j, "mark") /\ Spend("redis")
    /\ SetCompleted(BatchId(batch[j])) \/ UNCHANGED <<completed, started, expiring>>
    /\ Throw(j, "retryable")
    /\ UNCHANGED <<queue, processing, lock, lockAge, quarantine, othersOfJob, batch, again,
                   historyVars, unannounced, windowOpen>>

\* The except block: retry what is retryable while tries are left.
HandleError(j) ==
    /\ At(j, "except")
    /\ IF error[j] = "retryable" /\ try[j] < MaxTries
       THEN Leave(j, TRUE)
       ELSE Goto(j, "quarantine") /\ UNCHANGED again
    /\ UNCHANGED <<redisVars, othersOfJob, batch, error, historyVars, unannounced, windowOpen, budget>>

\* _store_inbound_quarantine.
StoreQuarantine(j) ==
    /\ At(j, "quarantine")
    /\ quarantine' = quarantine \cup {BatchId(batch[j])}
    /\ Goto(j, "finalize")
    /\ UNCHANGED <<queue, processing, lock, lockAge, started, completed, expiring, othersOfJob,
                   batch, error, again, historyVars, unannounced, windowOpen, budget>>

\* The exception of a failed quarantine write: Retry.
SwallowFailure(j) == Goto(j, "finalize") /\ UNCHANGED again
RaiseRetry(j) == Leave(j, TRUE)

\* The quarantine write fails: the processing list is retained.
StoreFails(j) ==
    /\ At(j, "quarantine") /\ Spend("redis")
    /\ quarantine' = quarantine \cup {BatchId(batch[j])} \/ UNCHANGED quarantine
    /\ RaiseRetry(j)
    /\ UNCHANGED <<queue, processing, lock, lockAge, started, completed, expiring, othersOfJob,
                   batch, error, historyVars, unannounced, windowOpen>>

\* _FINALIZE_INBOUND_BATCH_SCRIPT: delete the list, bound the guard.  The
\* outcome of an arrival that the list held and the batch did not is "lost".
DeleteProcessing(j) ==
    /\ processing' = << >>
    /\ expiring' = expiring \cup ({BatchId(batch[j])} \cap (started \cup completed))
    /\ outcome' = [k \in Arrivals |->
                     IF k \notin Elements(processing) THEN outcome[k]
                     ELSE IF k \notin Elements(batch[j]) THEN "lost"
                     ELSE IF error[j] = "none" THEN "acknowledged" ELSE "quarantined"]

\* Success goes on to the queue; failure re-raises the exception.
Finalize(j) ==
    /\ At(j, "finalize")
    /\ DeleteProcessing(j)
    /\ IF error[j] = "none"
       THEN Goto(j, "release") /\ UNCHANGED again
       ELSE Leave(j, FALSE)
    /\ UNCHANGED <<queue, lock, lockAge, started, completed, quarantine, othersOfJob, batch, error,
                   raw, effects, since, unannounced, windowOpen, budget>>

FinalizeFails(j) ==
    /\ At(j, "finalize") /\ Spend("redis")
    /\ DeleteProcessing(j) \/ UNCHANGED <<processing, expiring, outcome>>
    /\ Leave(j, FALSE)
    /\ UNCHANGED <<queue, lock, lockAge, started, completed, quarantine, othersOfJob, batch, error,
                   raw, effects, since, unannounced, windowOpen>>

\* _RELEASE_OR_CONTINUE_INBOUND_SCRIPT: not the owner; more messages; done.
ReleaseOrContinue(j) ==
    /\ At(j, "release")
    /\ \/ /\ lock # Token(j)
          /\ Leave(j, FALSE)
          /\ UNCHANGED <<lock, lockAge, othersOfJob, batch, error>>
       \/ /\ lock = Token(j) /\ queue # << >>
          /\ lockAge' = 0
          /\ Goto(j, "recover")
          /\ UNCHANGED <<lock, othersOfJob, batch, error, again>>
       \/ /\ lock = Token(j) /\ queue = << >>
          /\ lock' = NoToken /\ lockAge' = 0
          /\ Stop(j, "finished", 0)
    /\ UNCHANGED <<queue, processing, started, completed, expiring, quarantine,
                   historyVars, unannounced, windowOpen, budget>>

ReleaseFails(j) ==
    /\ At(j, "release") /\ Spend("redis")
    /\ \/ UNCHANGED <<lock, lockAge>>
       \/ lock = Token(j) /\ queue # << >> /\ lockAge' = 0 /\ UNCHANGED lock
       \/ lock = Token(j) /\ queue = << >> /\ lock' = NoToken /\ lockAge' = 0
    /\ Leave(j, FALSE)
    /\ UNCHANGED <<queue, processing, started, completed, expiring, quarantine, othersOfJob,
                   batch, error, historyVars, unannounced, windowOpen>>

\* The finally block: _RELEASE_INBOUND_LOCK_SCRIPT deletes the lock of its
\* own owner only; then ARQ re-queues the job (Retry) or records its end.
Unwind(j) ==
    /\ At(j, "unwind")
    /\ \/ /\ lock = Token(j)
          /\ lock' = NoToken /\ lockAge' = 0
          /\ UNCHANGED budget
       \/ lock # Token(j) /\ UNCHANGED <<lock, lockAge, budget>>
       \/ lock = Token(j) /\ Spend("redis") /\ UNCHANGED <<lock, lockAge>>
    /\ Stop(j, IF again[j] THEN "queued" ELSE "finished", 0)
    /\ UNCHANGED <<queue, processing, started, completed, expiring, quarantine,
                   historyVars, unannounced, windowOpen>>

\* Guards with a TTL: those of finalized batches.
AllGuards == started \cup completed
BoundedGuards == expiring

\* Redis drops a guard when its TTL is over.
GuardExpires ==
    /\ \E id \in BoundedGuards :
          /\ started' = started \ {id}
          /\ completed' = completed \ {id}
          /\ expiring' = expiring \ {id}
    /\ UNCHANGED <<queue, processing, lock, lockAge, quarantine, jobVars, historyVars,
                   unannounced, windowOpen, budget>>

-----------------------------------------------------------------------------
\* The awaits of a running job that do not fail.
Progress(j) ==
    \/ AcquireLock(j) \/ Recover(j) \/ MoveOne(j) \/ Inspect(j)
    \/ InnerReturns(j) \/ BeginSideEffects(j) \/ Work(j) \/ MarkCompleted(j)
    \/ HandleError(j) \/ StoreQuarantine(j) \/ Finalize(j) \/ ReleaseOrContinue(j) \/ Unwind(j)

Failure(j) ==
    \/ InnerRaises(j) \/ WorkRaises(j) \/ Crash(j) \/ Cancel(j, "shutdown") \/ Cancel(j, "timeout")
    \/ AcquireLockFails(j) \/ ClaimFails(j) \/ InspectFails(j) \/ BeginFails(j)
    \/ MarkFails(j) \/ StoreFails(j) \/ FinalizeFails(j) \/ ReleaseFails(j)

Next ==
    \/ \E c \in Content : PushMessage(c)
    \/ EnqueueJob \/ EnqueueFails \/ WindowPasses
    \/ \E j \in Jobs : StartRun(j) \/ Progress(j) \/ Failure(j)
    \/ Tick \/ GuardExpires

Spec == Init /\ [][Next]_vars

\* The webhook handler finishes, ARQ polls its queue, the event loop runs
\* every ready coroutine, and the clock does not stop.
Fairness ==
    /\ WF_vars(EnqueueJob)
    /\ \A j \in Jobs : WF_vars(StartRun(j)) /\ WF_vars(Progress(j))
    /\ WF_vars(Tick)

FairSpec == Spec /\ Fairness

-----------------------------------------------------------------------------
(* Properties.                                                             *)

Labels == {"idle", "lock", "recover", "move", "inspect", "inner", "work", "mark",
           "except", "quarantine", "finalize", "release", "unwind"}

RedisType ==
    /\ queue \in Seq(Delivered) /\ processing \in Seq(Delivered)
    /\ lock \in (0..MaxArrivals) \X (0..MaxTries) /\ lockAge \in 0..LockTtl
    /\ started \subseteq Seq(Content) /\ completed \subseteq Seq(Content)
    /\ expiring \subseteq Seq(Content) /\ quarantine \subseteq Seq(Content)
JobType ==
    /\ created \in 0..MaxArrivals
    /\ status \in [Jobs -> {"absent", "queued", "running", "crashed", "finished"}]
    /\ try \in [Jobs -> 0..MaxTries]
    /\ timer \in [Jobs -> Nat]
    /\ pc \in [Jobs -> Labels]
    /\ batch \in [Jobs -> Seq(Delivered)]
    /\ error \in [Jobs -> {"none", "retryable", "terminal"}]
    /\ again \in [Jobs -> BOOLEAN]
HistoryType ==
    /\ raw \in Seq(Content) /\ Len(raw) =< MaxArrivals
    /\ effects \in [Arrivals -> Nat]
    /\ outcome \in [Arrivals -> {"pending", "acknowledged", "quarantined", "lost"}]
    /\ since \in [Jobs -> 0..MaxArrivals]
OtherType ==
    /\ unannounced \in Nat /\ windowOpen \in BOOLEAN
    /\ budget \in [FaultKinds -> Nat]

\* Every variable stays in its type.
TypeOK == RedisType /\ JobType /\ HistoryType /\ OtherType

\* A job between taking the lock and its finally block.
InTurn(j) == status[j] = "running" /\ pc[j] \notin {"idle", "lock", "unwind"}

\* Only the owner of the lock works on the chat: the lease, never renewed
\* during a turn, outlives every run that may still be working.
OneOwner == \A j \in Jobs : InTurn(j) => lock = Token(j)

\* Past the claim, the job's copy is the durable copy: the list it will
\* delete holds exactly the messages it handled.
ImmutableBatch ==
    \A j \in Jobs : At(j, "inspect") \/ At(j, "inner") \/ At(j, "work") \/ At(j, "mark")
                    \/ At(j, "except") \/ At(j, "quarantine") \/ At(j, "finalize")
                    => batch[j] = processing /\ processing # << >>

\* Accepted messages are settled in arrival order: those not settled are
\* in the processing list and then the queue, each once, in order, and
\* those that left Redis were acknowledged or quarantined.
Settled == Len(raw) - Len(processing) - Len(queue)
NothingLost ==
    /\ Settled >= 0
    /\ \A i \in DOMAIN processing : processing[i] = Settled + i
    /\ \A i \in DOMAIN queue : queue[i] = Settled + Len(processing) + i
    /\ \A k \in Arrivals : IF k =< Settled THEN outcome[k] \in {"acknowledged", "quarantined"}
                                           ELSE outcome[k] = "pending"

\* No retry, crash, cancellation, guard expiry or redelivery makes the LLM
\* and provider side effects of an accepted message begin twice.
AtMostOnce == \A k \in Arrivals : effects[k] =< 1

\* A message that left the durable lists as failed is in a quarantine copy.
QuarantineHoldsCopy ==
    \A k \in Arrivals : outcome[k] = "quarantined" =>
                          \E id \in quarantine : raw[k] \in Elements(id)

\* Side effects begin for the oldest unsettled messages and no others: a
\* customer is never answered about a later message first.
AnswersInOrder ==
    [][\A k \in Arrivals : effects'[k] # effects[k] =>
          /\ outcome[k] = "pending"
          /\ \A l \in Arrivals : l < k /\ outcome[l] = "pending" => effects'[l] # effects[l]]_vars

\* A message that was queued when a job was created is settled, as long as
\* workers are not lost more often than the tries of a job allow.
JobSettlesItsMessages ==
    \A k \in Arrivals :
        (\E j \in Jobs : status[j] = "queued" /\ k =< since[j]) ~> outcome[k] # "pending"

\* webhook.py enqueues after every RPUSH so that each message is processed:
\* an unsettled message has a webhook call or a job still to come.
NoMessageStranded ==
    queue # << >> \/ processing # << >> =>
        unannounced > 0 \/ \E j \in Jobs : status[j] \in {"queued", "running", "crashed"}

\* The whole machinery implements the contract of InboundContract.
Contract == INSTANCE InboundContract
ImplementsContract == Contract!Spec

-----------------------------------------------------------------------------
(* The inductive invariant behind these properties.                        *)

\* Every job was created by a webhook call that had pushed a message.
JobsFromPushes == created + unannounced =< Len(raw)

\* A job in its turn owns the lock, which is no older than the run.
LeaseInv ==
    /\ \A j \in Jobs : status[j] = "running" => timer[j] =< JobTimeout
    /\ \A j \in Jobs : InTurn(j) => lock = Token(j) /\ lockAge =< timer[j]

\* The job's copy is the durable copy from the first LMOVE on.
ClaimInv ==
    /\ ImmutableBatch
    /\ \A j \in Jobs : At(j, "move") => batch[j] = processing
    /\ \A j \in Jobs : At(j, "release") => processing = << >>

\* Side effects begin for whole batches, under a guard without a TTL that
\* lasts as long as the processing list, and never before the claim ends.
GuardInv ==
    /\ AtMostOnce
    /\ expiring \subseteq started \cup completed
    /\ \A i \in DOMAIN queue : effects[queue[i]] = 0
    /\ \A k \in Arrivals : k > Len(raw) => effects[k] = 0
    /\ \A i \in DOMAIN processing : effects[processing[i]] > 0 =>
          Guarded(BatchId(processing)) /\ BatchId(processing) \notin expiring
    /\ \A j \in Jobs : At(j, "move") =>
          \A i \in DOMAIN processing : effects[processing[i]] = 0

\* The side effects of a batch began for all of its messages or for none.
WholeInv ==
    \A i, k \in DOMAIN processing : effects[processing[i]] = effects[processing[k]]

\* A job has no error before its except block and none after its end; only
\* created jobs run.
CleanInv ==
    /\ \A j \in Jobs : j > created => status[j] = "absent"
    /\ \A j \in Jobs : error[j] # "none" =>
          At(j, "except") \/ At(j, "quarantine") \/ At(j, "finalize") \/ At(j, "unwind")

\* A failed batch reaches the finalizing script only after its copy is stored.
QuarantineInv ==
    /\ QuarantineHoldsCopy
    /\ \A j \in Jobs : At(j, "finalize") /\ error[j] # "none" =>
          BatchId(batch[j]) \in quarantine

IInv ==
    /\ TypeOK /\ JobsFromPushes /\ LeaseInv /\ ClaimInv /\ NothingLost
    /\ GuardInv /\ WholeInv /\ CleanInv /\ QuarantineInv
=============================================================================
