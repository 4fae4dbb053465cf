------------------------- MODULE InboundBatchProofs -------------------------
(* Proofs about InboundBatch, for every value of its constants, in three   *)
(* parts that build on one another.                                        *)
(*                                                                         *)
(* Types: the invariant is inductive together with JobsFromPushes; a job   *)
(* number stays within Jobs because every job was created by a webhook     *)
(* call that had pushed a message of its own.                              *)
(*                                                                         *)
(* Lease: at most one job at a time works on a chat.  The argument is the  *)
(* age of the lock: it is never older than the run that owns it, and the   *)
(* job timeout ends that run before the lock can expire.                   *)
(*                                                                         *)
(* Messages: a claimed batch is the durable one, and no message is lost,   *)
(* repeated or reordered in Redis.  The lease keeps the steps of two jobs  *)
(* apart.                                                                  *)
EXTENDS InboundBatch, TLAPS

TypeInv == TypeOK /\ JobsFromPushes
LockType == lock \in (0..MaxArrivals) \X (0..MaxTries) /\ lockAge \in 0..LockTtl

\* What the assumptions on the constants give.
LEMMA Parameters ==
    MaxArrivals \in Nat /\ MaxTries \in Nat /\ MaxTries > 0 /\ LockTtl \in Nat /\ LockTtl > 0
  BY ArrivalsAssumption, TriesAssumption, TimesAssumption

\* The identifier of a batch of delivered messages is a sequence of payloads.
LEMMA BatchIdType ==
    ASSUME raw \in Seq(Content), NEW b \in Seq(Delivered) PROVE BatchId(b) \in Seq(Content)
<1>1. Len(b) \in Nat /\ DOMAIN b = 1..Len(b)
  OBVIOUS
<1>2. \A i \in 1..Len(b) : raw[b[i]] \in Content
  BY <1>1 DEF Delivered
<1>3. BatchId(b) = [i \in 1..Len(b) |-> raw[b[i]]]
  BY <1>1 DEF BatchId
<1> QED BY <1>1, <1>2, <1>3

\* An owner token is a value of the lock key.
LEMMA TokenType ==
    ASSUME JobType, NEW j \in Jobs PROVE Token(j) \in (0..MaxArrivals) \X (0..MaxTries)
  BY Parameters DEF Token, JobType, Jobs

\* A sequence of delivered messages is still one after the next delivery.
LEMMA DeliveredGrows ==
    ASSUME NEW m \in Nat, NEW s \in Seq(1..m) PROVE s \in Seq(1..(m + 1))
  OBVIOUS

\* The initial state is typed.
LEMMA InitType == Init => TypeInv
<1> SUFFICES ASSUME Init PROVE TypeInv
  OBVIOUS
<1>1. RedisType
  BY Parameters DEF Init, RedisType, NoToken
<1>2. JobType
  BY Parameters DEF Init, JobType, Labels
<1>3. HistoryType
  BY Parameters DEF Init, HistoryType
<1>4. OtherType
  BY BudgetAssumption DEF Init, OtherType
<1>5. JobsFromPushes
  BY DEF Init, JobsFromPushes
<1> QED BY <1>1, <1>2, <1>3, <1>4, <1>5 DEF TypeInv, TypeOK

-----------------------------------------------------------------------------
(* The webhook and the worker.                                             *)

\* The push adds one delivered message to queue and history.
LEMMA PushMessageType ==
    ASSUME TypeInv, NEW c \in Content, PushMessage(c) PROVE TypeInv'
<1> USE DEF TypeInv, TypeOK
<1>1. /\ Len(raw) \in Nat /\ Len(raw') = Len(raw) + 1 /\ raw' \in Seq(Content)
      /\ Len(raw') \in Nat /\ Len(raw') =< MaxArrivals 
  BY Parameters DEF PushMessage, HistoryType
<1>2. RedisType'
  <2>1. processing' \in Seq(Delivered')
    BY <1>1, DeliveredGrows DEF PushMessage, RedisType, Delivered
  <2>2. queue' \in Seq(Delivered')
    <3>1. queue \in Seq(Delivered')
      BY <1>1, DeliveredGrows DEF RedisType, Delivered
    <3>2. Len(raw) + 1 \in Delivered'
      BY <1>1 DEF Delivered
    <3> QED BY <3>1, <3>2 DEF PushMessage, Pushed
  <2> QED BY <2>1, <2>2 DEF PushMessage, RedisType
<1>3. JobType'
  <2>1. \A j \in Jobs : batch[j] \in Seq(Delivered')
    BY <1>1, DeliveredGrows DEF JobType, Delivered
  <2> QED BY <2>1 DEF PushMessage, jobVars, JobType
<1>4. HistoryType'
  BY <1>1 DEF PushMessage, HistoryType
<1>5. OtherType' /\ JobsFromPushes'
  BY <1>1 DEF PushMessage, jobVars, OtherType, JobType, JobsFromPushes
<1> QED BY <1>2, <1>3, <1>4, <1>5

\* A new job number exists: the call that creates it has pushed a message.
LEMMA EnqueueJobType ==
    ASSUME TypeInv, EnqueueJob PROVE TypeInv'
<1> USE DEF TypeInv, TypeOK
<1>1. /\ Delivered' = Delivered /\ Len(raw) \in Nat /\ Len(raw) \in 0..MaxArrivals
      /\ created \in Nat /\ unannounced \in Nat /\ unannounced > 0
      /\ created + unannounced =< Len(raw)
  BY Parameters DEF EnqueueJob, Delivered, HistoryType, JobType, OtherType, JobsFromPushes
<1>2. RedisType'
  BY <1>1 DEF EnqueueJob, redisVars, RedisType
<1>3. JobType' /\ OtherType' /\ HistoryType' /\ JobsFromPushes'
  <2>1. CASE windowOpen
    <3>1. UNCHANGED <<jobVars, historyVars, windowOpen, budget>> /\ unannounced' =
       unannounced - 1
       BY <2>1 DEF EnqueueJob, jobVars, historyVars
    <3> QED BY <1>1, <3>1 DEF jobVars, historyVars, JobType, OtherType, HistoryType,
       JobsFromPushes
  <2>2. CASE ~windowOpen
    <3>1. /\ windowOpen' = TRUE
          /\ created' = created + 1
          /\ status' = [status EXCEPT ![created + 1] = "queued"]
          /\ since' = [since EXCEPT ![created + 1] = Len(raw)]
          /\ unannounced' = unannounced - 1
          /\ UNCHANGED <<try, timer, pc, batch, error, again, raw, effects, outcome, budget>>
      BY <2>2 DEF EnqueueJob
    <3>2. created' \in 0..MaxArrivals
      BY <1>1, <3>1, Parameters
    <3>3. JobType' BY <1>1, <3>1, <3>2 DEF JobType
    <3>4. HistoryType' BY <1>1, <3>1 DEF HistoryType
    <3>5. OtherType' /\ JobsFromPushes'
      BY <1>1, <3>1 DEF OtherType, JobsFromPushes
    <3> QED BY <3>3, <3>4, <3>5
  <2> QED BY <2>1, <2>2
<1> QED BY <1>2, <1>3

\* A lost enqueue only uses up its webhook call.
LEMMA EnqueueFailsType ==
    ASSUME TypeInv, EnqueueFails PROVE TypeInv'
<1> USE DEF TypeInv, TypeOK
<1>1. Delivered' = Delivered
  BY DEF EnqueueFails, historyVars, Delivered
<1>2. RedisType' /\ JobType' /\ HistoryType'
  BY <1>1 DEF EnqueueFails, redisVars, jobVars, historyVars, RedisType, JobType, HistoryType
<1>3. OtherType'
  BY DEF EnqueueFails, Spend, OtherType, FaultKinds
<1>4. JobsFromPushes'
  BY DEF EnqueueFails, jobVars, historyVars, OtherType, JobType, HistoryType, JobsFromPushes
<1> QED BY <1>2, <1>3, <1>4

\* The next window touches nothing else.
LEMMA WindowPassesType ==
    ASSUME TypeInv, WindowPasses PROVE TypeInv'
<1> USE DEF TypeInv, TypeOK
<1>1. UNCHANGED <<redisVars, jobVars, historyVars, unannounced, budget>> /\ windowOpen' = FALSE
  BY DEF WindowPasses
<1>2. RedisType' /\ JobType' /\ HistoryType'
  BY <1>1 DEF redisVars, jobVars, historyVars, RedisType, JobType, HistoryType, Delivered
<1>3. OtherType' /\ JobsFromPushes'
  BY <1>1 DEF jobVars, historyVars, OtherType, JobsFromPushes
<1> QED BY <1>2, <1>3

\* StartRun keeps the types.
LEMMA StartRunType ==
    ASSUME TypeInv, NEW j \in Jobs, StartRun(j) PROVE TypeInv'
<1> USE DEF TypeInv, TypeOK
<1>1. Delivered' = Delivered
  BY DEF StartRun, historyVars, Delivered
<1>2. RedisType'
  BY <1>1 DEF StartRun, redisVars, RedisType
<1>3. JobType'
  <2>1. CASE CanTry(j)
    <3>1. try[j] + 1 \in 0..MaxTries
      BY <2>1, Parameters DEF CanTry, JobType
    <3>2. /\ status' = [status EXCEPT ![j] = "running"]
          /\ try' = [try EXCEPT ![j] = @ + 1]
          /\ timer' = [timer EXCEPT ![j] = 0]
          /\ pc' = [pc EXCEPT ![j] = "lock"]
          /\ UNCHANGED <<created, batch, error, again>>
      BY <2>1 DEF StartRun
    <3> QED BY <1>1, <3>1, <3>2 DEF JobType, Labels
  <2>2. CASE ~CanTry(j)
    BY <1>1, <2>2 DEF StartRun, JobType
  <2> QED BY <2>1, <2>2
<1>4. HistoryType'
  BY DEF StartRun, historyVars, HistoryType
<1>5. OtherType' /\ JobsFromPushes'
  BY <1>1 DEF StartRun, historyVars, OtherType, JobsFromPushes, FaultKinds
<1> QED BY <1>2, <1>3, <1>4, <1>5

\* Crash keeps the types.
LEMMA CrashType ==
    ASSUME TypeInv, NEW j \in Jobs, Crash(j) PROVE TypeInv'
<1> USE DEF TypeInv, TypeOK
<1>1. Delivered' = Delivered
  BY DEF Crash, historyVars, Delivered
<1>2. RedisType'
  BY <1>1 DEF Crash, redisVars, RedisType
<1>3. JobType'
  BY <1>1 DEF Crash, Stop, JobType, Labels
<1>4. HistoryType'
  BY DEF Crash, historyVars, HistoryType
<1>5. OtherType' /\ JobsFromPushes'
  BY <1>1 DEF Crash, Stop, Spend, historyVars, OtherType, JobsFromPushes, FaultKinds
<1> QED BY <1>2, <1>3, <1>4, <1>5

\* A cancelled job is unwinding, queued again or finished.
LEMMA CancelType ==
    ASSUME TypeInv, NEW j \in Jobs, NEW kind \in FaultKinds, Cancel(j, kind) PROVE TypeInv'
<1> USE DEF TypeInv, TypeOK
<1>1. Delivered' = Delivered
  BY DEF Cancel, historyVars, Delivered
<1>2. RedisType'
  <2>1. LockType'
    BY TokenType, Parameters DEF Cancel, RedisType, LockType, NoToken
  <2> QED BY <1>1, <2>1 DEF Cancel, RedisType, LockType
<1>3. JobType'
  <2>1. CASE pc[j] = "lock"
    <3>1. \E state \in {"queued", "finished"} : Stop(j, state, 0)
      BY <2>1 DEF Cancel
    <3> QED BY <1>1, <3>1 DEF Stop, JobType, Labels
  <2>2. CASE pc[j] # "lock"
    <3>1. Leave(j, RunAgain(kind)) /\ UNCHANGED <<created, status, try, timer, batch, error>>
      BY <2>2 DEF Cancel
    <3> QED BY <1>1, <3>1 DEF Leave, Goto, RunAgain, JobType, Labels
  <2> QED BY <2>1, <2>2
<1>4. HistoryType'
  BY DEF Cancel, historyVars, HistoryType
<1>5. OtherType' /\ JobsFromPushes'
  BY <1>1 DEF Cancel, Stop, Spend, historyVars, OtherType, JobsFromPushes, FaultKinds
<1> QED BY <1>2, <1>3, <1>4, <1>5

\* Time changes timers and the lock key.
LEMMA TickType ==
    ASSUME TypeInv, Tick PROVE TypeInv'
<1> USE DEF TypeInv, TypeOK
<1>1. Delivered' = Delivered
  BY DEF Tick, historyVars, Delivered
<1>2. RedisType'
  <2>1. LockType'
    BY Parameters DEF Tick, RedisType, LockType, NoToken
  <2> QED BY <1>1, <2>1 DEF Tick, RedisType, LockType
<1>3. JobType'
  <2>1. timer' \in [Jobs -> Nat]
    BY DEF Tick, JobType
  <2> QED BY <1>1, <2>1 DEF Tick, JobType
<1>4. HistoryType'
  BY DEF Tick, historyVars, HistoryType
<1>5. OtherType' /\ JobsFromPushes'
  BY DEF Tick, historyVars, OtherType, JobsFromPushes
<1> QED BY <1>2, <1>3, <1>4, <1>5

-----------------------------------------------------------------------------
(* Lock and claim.                                                         *)

\* AcquireLock keeps the types.
LEMMA AcquireLockType ==
    ASSUME TypeInv, NEW j \in Jobs, AcquireLock(j) PROVE TypeInv'
<1> USE DEF TypeInv, TypeOK
<1>1. Delivered' = Delivered
  BY DEF AcquireLock, historyVars, Delivered
<1>2. RedisType'
  <2>1. LockType'
    BY TokenType, Parameters DEF AcquireLock, RedisType, LockType, NoToken
  <2> QED BY <1>1, <2>1 DEF AcquireLock, RedisType, LockType
<1>3. JobType'
  <2>1. CASE lock = NoToken
    BY <1>1, <2>1 DEF AcquireLock, Goto, othersOfJob, JobType, Labels
  <2>2. CASE lock # NoToken
    <3>1. Stop(j, "queued", LockTtl + 1)
      BY <2>2 DEF AcquireLock, Contend
    <3> QED BY <1>1, <3>1, Parameters DEF Stop, JobType, Labels
  <2> QED BY <2>1, <2>2
<1>4. HistoryType'
  BY DEF AcquireLock, historyVars, HistoryType
<1>5. OtherType' /\ JobsFromPushes'
  BY <1>1 DEF AcquireLock, Contend, Stop, historyVars, othersOfJob, OtherType,
     JobsFromPushes, FaultKinds
<1> QED BY <1>2, <1>3, <1>4, <1>5

\* AcquireLockFails keeps the types.
LEMMA AcquireLockFailsType ==
    ASSUME TypeInv, NEW j \in Jobs, AcquireLockFails(j) PROVE TypeInv'
<1> USE DEF TypeInv, TypeOK
<1>1. Delivered' = Delivered
  BY DEF AcquireLockFails, historyVars, Delivered
<1>2. RedisType'
  <2>1. LockType'
    BY TokenType, Parameters DEF AcquireLockFails, RedisType, LockType, NoToken
  <2> QED BY <1>1, <2>1 DEF AcquireLockFails, RedisType, LockType
<1>3. JobType'
  BY <1>1 DEF AcquireLockFails, Stop, JobType, Labels
<1>4. HistoryType'
  BY DEF AcquireLockFails, historyVars, HistoryType
<1>5. OtherType' /\ JobsFromPushes'
  BY <1>1 DEF AcquireLockFails, Stop, Spend, historyVars, OtherType, JobsFromPushes, FaultKinds
<1> QED BY <1>2, <1>3, <1>4, <1>5

\* Recover keeps the types.
LEMMA RecoverType ==
    ASSUME TypeInv, NEW j \in Jobs, Recover(j) PROVE TypeInv'
<1> USE DEF TypeInv, TypeOK
<1>1. Delivered' = Delivered
  BY DEF Recover, historyVars, Delivered
<1>2. RedisType'
  BY <1>1 DEF Recover, redisVars, RedisType
<1>3. JobType'
  <2>1. batch' = [batch EXCEPT ![j] = processing] /\ UNCHANGED <<othersOfJob, error, again>>
    BY DEF Recover, Recovered
  <2>2. pc' = [pc EXCEPT ![j] = "inspect"] \/ pc' = [pc EXCEPT ![j] = "move"]
    BY DEF Recover, Recovered, Goto
  <2> QED BY <1>1, <2>1, <2>2 DEF othersOfJob, RedisType, JobType, Labels
<1>4. HistoryType'
  BY DEF Recover, historyVars, HistoryType
<1>5. OtherType' /\ JobsFromPushes'
  BY <1>1 DEF Recover, historyVars, othersOfJob, OtherType, JobsFromPushes, FaultKinds
<1> QED BY <1>2, <1>3, <1>4, <1>5

\* MoveOne keeps the types.
LEMMA MoveOneType ==
    ASSUME TypeInv, NEW j \in Jobs, MoveOne(j) PROVE TypeInv'
<1> USE DEF TypeInv, TypeOK
<1>1. Delivered' = Delivered
  BY DEF MoveOne, historyVars, Delivered
<1>2. RedisType'
  <2>1. CASE queue = << >>
    BY <1>1, <2>1 DEF MoveOne, RedisType
  <2>2. CASE queue # << >>
    <3>1. Head(queue) \in Delivered /\ Tail(queue) \in Seq(Delivered)
      BY <2>2 DEF RedisType
    <3>2. queue' = Tail(queue) /\ processing' = Append(processing, Head(queue))
      BY <2>2 DEF MoveOne
    <3>3. queue' \in Seq(Delivered) /\ processing' \in Seq(Delivered)
      BY <3>1, <3>2 DEF RedisType
    <3> QED BY <1>1, <3>3 DEF MoveOne, RedisType
  <2> QED BY <2>1, <2>2
<1>3. JobType'
  <2>1. CASE queue = << >>
    BY <1>1, <2>1 DEF MoveOne, Goto, othersOfJob, JobType, Labels
  <2>2. CASE queue # << >>
    <3>1. Append(batch[j], Head(queue)) \in Seq(Delivered)
      BY <2>2 DEF RedisType, JobType
    <3>2. /\ batch' = [batch EXCEPT ![j] = Append(@, Head(queue))]
          /\ UNCHANGED <<othersOfJob, error, again, pc>>
      BY <2>2 DEF MoveOne
    <3> QED BY <1>1, <3>1, <3>2 DEF othersOfJob, JobType
  <2> QED BY <2>1, <2>2
<1>4. HistoryType'
  BY DEF MoveOne, historyVars, HistoryType
<1>5. OtherType' /\ JobsFromPushes'
  BY <1>1 DEF MoveOne, historyVars, othersOfJob, OtherType, JobsFromPushes, FaultKinds
<1> QED BY <1>2, <1>3, <1>4, <1>5

\* ClaimFails keeps the types.
LEMMA ClaimFailsType ==
    ASSUME TypeInv, NEW j \in Jobs, ClaimFails(j) PROVE TypeInv'
<1> USE DEF TypeInv, TypeOK
<1>1. Delivered' = Delivered
  BY DEF ClaimFails, historyVars, Delivered
<1>2. RedisType'
  <2>1. CASE UNCHANGED <<queue, processing>>
    BY <1>1, <2>1 DEF ClaimFails, RedisType
  <2>2. CASE queue # << >> /\ queue' = Tail(queue) /\ processing' = Append(processing,
     Head(queue))
    <3>1. Head(queue) \in Delivered /\ Tail(queue) \in Seq(Delivered)
      BY <2>2 DEF RedisType
    <3>2. queue' \in Seq(Delivered) /\ processing' \in Seq(Delivered)
      BY <2>2, <3>1 DEF RedisType
    <3> QED BY <1>1, <3>2 DEF ClaimFails, RedisType
  <2> QED BY <2>1, <2>2 DEF ClaimFails
<1>3. JobType'
  BY <1>1 DEF ClaimFails, Leave, Goto, othersOfJob, JobType, Labels
<1>4. HistoryType'
  BY DEF ClaimFails, historyVars, HistoryType
<1>5. OtherType' /\ JobsFromPushes'
  BY <1>1 DEF ClaimFails, Spend, historyVars, othersOfJob, OtherType, JobsFromPushes, FaultKinds
<1> QED BY <1>2, <1>3, <1>4, <1>5

-----------------------------------------------------------------------------
(* The turn.                                                               *)

\* Inspect keeps the types.
LEMMA InspectType ==
    ASSUME TypeInv, NEW j \in Jobs, Inspect(j) PROVE TypeInv'
<1> USE DEF TypeInv, TypeOK
<1>1. Delivered' = Delivered
  BY DEF Inspect, historyVars, Delivered
<1>2. RedisType'
  BY <1>1, BatchIdType DEF Inspect, redisVars, RedisType, JobType, HistoryType
<1>3. JobType'
  BY <1>1 DEF Inspect, Goto, Throw, othersOfJob, JobType, Labels
<1>4. HistoryType'
  BY DEF Inspect, historyVars, HistoryType
<1>5. OtherType' /\ JobsFromPushes'
  BY <1>1 DEF Inspect, historyVars, othersOfJob, OtherType, JobsFromPushes, FaultKinds
<1> QED BY <1>2, <1>3, <1>4, <1>5

\* InspectFails keeps the types.
LEMMA InspectFailsType ==
    ASSUME TypeInv, NEW j \in Jobs, InspectFails(j) PROVE TypeInv'
<1> USE DEF TypeInv, TypeOK
<1>1. Delivered' = Delivered
  BY DEF InspectFails, historyVars, Delivered
<1>2. RedisType'
  BY <1>1 DEF InspectFails, redisVars, RedisType
<1>3. JobType'
  BY <1>1 DEF InspectFails, Throw, Goto, othersOfJob, JobType, Labels
<1>4. HistoryType'
  BY DEF InspectFails, historyVars, HistoryType
<1>5. OtherType' /\ JobsFromPushes'
  BY <1>1 DEF InspectFails, Spend, historyVars, othersOfJob, OtherType, JobsFromPushes,
     FaultKinds
<1> QED BY <1>2, <1>3, <1>4, <1>5

\* InnerReturns keeps the types.
LEMMA InnerReturnsType ==
    ASSUME TypeInv, NEW j \in Jobs, InnerReturns(j) PROVE TypeInv'
<1> USE DEF TypeInv, TypeOK
<1>1. Delivered' = Delivered
  BY DEF InnerReturns, historyVars, Delivered
<1>2. RedisType'
  BY <1>1 DEF InnerReturns, redisVars, RedisType
<1>3. JobType'
  BY <1>1 DEF InnerReturns, Goto, othersOfJob, JobType, Labels
<1>4. HistoryType'
  BY DEF InnerReturns, historyVars, HistoryType
<1>5. OtherType' /\ JobsFromPushes'
  BY <1>1 DEF InnerReturns, historyVars, othersOfJob, OtherType, JobsFromPushes, FaultKinds
<1> QED BY <1>2, <1>3, <1>4, <1>5

\* InnerRaises keeps the types.
LEMMA InnerRaisesType ==
    ASSUME TypeInv, NEW j \in Jobs, InnerRaises(j) PROVE TypeInv'
<1> USE DEF TypeInv, TypeOK
<1>1. Delivered' = Delivered
  BY DEF InnerRaises, historyVars, Delivered
<1>2. RedisType'
  BY <1>1 DEF InnerRaises, redisVars, RedisType
<1>3. JobType'
  BY <1>1 DEF InnerRaises, Throw, Goto, othersOfJob, JobType, Labels
<1>4. HistoryType'
  BY DEF InnerRaises, historyVars, HistoryType
<1>5. OtherType' /\ JobsFromPushes'
  BY <1>1 DEF InnerRaises, Spend, historyVars, othersOfJob, OtherType, JobsFromPushes,
     FaultKinds
<1> QED BY <1>2, <1>3, <1>4, <1>5

\* BeginSideEffects keeps the types.
LEMMA BeginSideEffectsType ==
    ASSUME TypeInv, NEW j \in Jobs, BeginSideEffects(j) PROVE TypeInv'
<1> USE DEF TypeInv, TypeOK
<1>1. Delivered' = Delivered
  BY DEF BeginSideEffects, Delivered
<1>2. RedisType'
  BY <1>1, BatchIdType DEF BeginSideEffects, RedisType, JobType, HistoryType
<1>3. JobType'
  BY <1>1 DEF BeginSideEffects, Goto, Throw, othersOfJob, JobType, Labels
<1>4. HistoryType'
  <2>1. effects' \in [Arrivals -> Nat]
    <3>1. \/ effects' = effects
          \/ effects' = [k \in Arrivals |-> IF k \in Elements(batch[j]) THEN effects[k] + 1
                                                                     ELSE effects[k]]
      BY DEF BeginSideEffects
    <3> QED BY <3>1 DEF HistoryType
  <2> QED BY <2>1 DEF BeginSideEffects, HistoryType
<1>5. OtherType' /\ JobsFromPushes'
  BY <1>1 DEF BeginSideEffects, othersOfJob, OtherType, JobsFromPushes, FaultKinds
<1> QED BY <1>2, <1>3, <1>4, <1>5

\* BeginFails keeps the types.
LEMMA BeginFailsType ==
    ASSUME TypeInv, NEW j \in Jobs, BeginFails(j) PROVE TypeInv'
<1> USE DEF TypeInv, TypeOK
<1>1. Delivered' = Delivered
  BY DEF BeginFails, historyVars, Delivered
<1>2. RedisType'
  BY <1>1, BatchIdType DEF BeginFails, RedisType, JobType, HistoryType
<1>3. JobType'
  BY <1>1 DEF BeginFails, Throw, Goto, othersOfJob, JobType, Labels
<1>4. HistoryType'
  BY DEF BeginFails, historyVars, HistoryType
<1>5. OtherType' /\ JobsFromPushes'
  BY <1>1 DEF BeginFails, Spend, historyVars, othersOfJob, OtherType, JobsFromPushes, FaultKinds
<1> QED BY <1>2, <1>3, <1>4, <1>5

\* Work keeps the types.
LEMMA WorkType ==
    ASSUME TypeInv, NEW j \in Jobs, Work(j) PROVE TypeInv'
<1> USE DEF TypeInv, TypeOK
<1>1. Delivered' = Delivered
  BY DEF Work, historyVars, Delivered
<1>2. RedisType'
  BY <1>1 DEF Work, redisVars, RedisType
<1>3. JobType'
  BY <1>1 DEF Work, Goto, othersOfJob, JobType, Labels
<1>4. HistoryType'
  BY DEF Work, historyVars, HistoryType
<1>5. OtherType' /\ JobsFromPushes'
  BY <1>1 DEF Work, historyVars, othersOfJob, OtherType, JobsFromPushes, FaultKinds
<1> QED BY <1>2, <1>3, <1>4, <1>5

\* WorkRaises keeps the types.
LEMMA WorkRaisesType ==
    ASSUME TypeInv, NEW j \in Jobs, WorkRaises(j) PROVE TypeInv'
<1> USE DEF TypeInv, TypeOK
<1>1. Delivered' = Delivered
  BY DEF WorkRaises, historyVars, Delivered
<1>2. RedisType'
  BY <1>1 DEF WorkRaises, redisVars, RedisType
<1>3. JobType'
  BY <1>1 DEF WorkRaises, Throw, Goto, othersOfJob, JobType, Labels
<1>4. HistoryType'
  BY DEF WorkRaises, historyVars, HistoryType
<1>5. OtherType' /\ JobsFromPushes'
  BY <1>1 DEF WorkRaises, Spend, historyVars, othersOfJob, OtherType, JobsFromPushes, FaultKinds
<1> QED BY <1>2, <1>3, <1>4, <1>5

\* MarkCompleted keeps the types.
LEMMA MarkCompletedType ==
    ASSUME TypeInv, NEW j \in Jobs, MarkCompleted(j) PROVE TypeInv'
<1> USE DEF TypeInv, TypeOK
<1>1. Delivered' = Delivered
  BY DEF MarkCompleted, historyVars, Delivered
<1>2. RedisType'
  BY <1>1, BatchIdType DEF MarkCompleted, SetCompleted, RedisType, JobType, HistoryType
<1>3. JobType'
  BY <1>1 DEF MarkCompleted, Goto, othersOfJob, JobType, Labels
<1>4. HistoryType'
  BY DEF MarkCompleted, historyVars, HistoryType
<1>5. OtherType' /\ JobsFromPushes'
  BY <1>1 DEF MarkCompleted, historyVars, othersOfJob, OtherType, JobsFromPushes, FaultKinds
<1> QED BY <1>2, <1>3, <1>4, <1>5

\* MarkFails keeps the types.
LEMMA MarkFailsType ==
    ASSUME TypeInv, NEW j \in Jobs, MarkFails(j) PROVE TypeInv'
<1> USE DEF TypeInv, TypeOK
<1>1. Delivered' = Delivered
  BY DEF MarkFails, historyVars, Delivered
<1>2. RedisType'
  BY <1>1, BatchIdType DEF MarkFails, SetCompleted, RedisType, JobType, HistoryType
<1>3. JobType'
  BY <1>1 DEF MarkFails, Throw, Goto, othersOfJob, JobType, Labels
<1>4. HistoryType'
  BY DEF MarkFails, historyVars, HistoryType
<1>5. OtherType' /\ JobsFromPushes'
  BY <1>1 DEF MarkFails, Spend, historyVars, othersOfJob, OtherType, JobsFromPushes, FaultKinds
<1> QED BY <1>2, <1>3, <1>4, <1>5

-----------------------------------------------------------------------------
(* Failure, finalization and release.                                      *)

\* HandleError keeps the types.
LEMMA HandleErrorType ==
    ASSUME TypeInv, NEW j \in Jobs, HandleError(j) PROVE TypeInv'
<1> USE DEF TypeInv, TypeOK
<1>1. Delivered' = Delivered
  BY DEF HandleError, historyVars, Delivered
<1>2. RedisType'
  BY <1>1 DEF HandleError, redisVars, RedisType
<1>3. JobType'
  BY <1>1 DEF HandleError, Goto, Leave, othersOfJob, JobType, Labels
<1>4. HistoryType'
  BY DEF HandleError, historyVars, HistoryType
<1>5. OtherType' /\ JobsFromPushes'
  BY <1>1 DEF HandleError, historyVars, othersOfJob, OtherType, JobsFromPushes, FaultKinds
<1> QED BY <1>2, <1>3, <1>4, <1>5

\* StoreQuarantine keeps the types.
LEMMA StoreQuarantineType ==
    ASSUME TypeInv, NEW j \in Jobs, StoreQuarantine(j) PROVE TypeInv'
<1> USE DEF TypeInv, TypeOK
<1>1. Delivered' = Delivered
  BY DEF StoreQuarantine, historyVars, Delivered
<1>2. RedisType'
  BY <1>1, BatchIdType DEF StoreQuarantine, RedisType, JobType, HistoryType
<1>3. JobType'
  BY <1>1 DEF StoreQuarantine, Goto, othersOfJob, JobType, Labels
<1>4. HistoryType'
  BY DEF StoreQuarantine, historyVars, HistoryType
<1>5. OtherType' /\ JobsFromPushes'
  BY <1>1 DEF StoreQuarantine, historyVars, othersOfJob, OtherType, JobsFromPushes, FaultKinds
<1> QED BY <1>2, <1>3, <1>4, <1>5

\* StoreFails keeps the types.
LEMMA StoreFailsType ==
    ASSUME TypeInv, NEW j \in Jobs, StoreFails(j) PROVE TypeInv'
<1> USE DEF TypeInv, TypeOK
<1>1. Delivered' = Delivered
  BY DEF StoreFails, historyVars, Delivered
<1>2. RedisType'
  BY <1>1, BatchIdType DEF StoreFails, RedisType, JobType, HistoryType
<1>3. JobType'
  BY <1>1 DEF StoreFails, RaiseRetry, Leave, Goto, othersOfJob, JobType, Labels
<1>4. HistoryType'
  BY DEF StoreFails, historyVars, HistoryType
<1>5. OtherType' /\ JobsFromPushes'
  BY <1>1 DEF StoreFails, Spend, historyVars, othersOfJob, OtherType, JobsFromPushes, FaultKinds
<1> QED BY <1>2, <1>3, <1>4, <1>5

\* Finalize keeps the types.
LEMMA FinalizeType ==
    ASSUME TypeInv, NEW j \in Jobs, Finalize(j) PROVE TypeInv'
<1> USE DEF TypeInv, TypeOK
<1>1. Delivered' = Delivered
  BY DEF Finalize, Delivered
<1>2. RedisType'
  BY <1>1, BatchIdType DEF Finalize, DeleteProcessing, RedisType, JobType, HistoryType
<1>3. JobType'
  BY <1>1 DEF Finalize, Goto, Leave, othersOfJob, JobType, Labels
<1>4. HistoryType'
  BY DEF Finalize, DeleteProcessing, HistoryType
<1>5. OtherType' /\ JobsFromPushes'
  BY <1>1 DEF Finalize, othersOfJob, OtherType, JobsFromPushes, FaultKinds
<1> QED BY <1>2, <1>3, <1>4, <1>5

\* FinalizeFails keeps the types.
LEMMA FinalizeFailsType ==
    ASSUME TypeInv, NEW j \in Jobs, FinalizeFails(j) PROVE TypeInv'
<1> USE DEF TypeInv, TypeOK
<1>1. Delivered' = Delivered
  BY DEF FinalizeFails, Delivered
<1>2. RedisType'
  <2>1. processing' \in Seq(Delivered) /\ expiring' \subseteq Seq(Content)
    <3>1. CASE DeleteProcessing(j)
      BY <3>1 DEF DeleteProcessing, RedisType
    <3>2. CASE UNCHANGED <<processing, expiring, outcome>>
      BY <3>2 DEF RedisType
    <3> QED BY <3>1, <3>2 DEF FinalizeFails
  <2> QED BY <1>1, <2>1 DEF FinalizeFails, RedisType
<1>3. JobType'
  BY <1>1 DEF FinalizeFails, Leave, Goto, othersOfJob, JobType, Labels
<1>4. HistoryType'
  BY DEF FinalizeFails, DeleteProcessing, HistoryType
<1>5. OtherType' /\ JobsFromPushes'
  BY <1>1 DEF FinalizeFails, Spend, othersOfJob, OtherType, JobsFromPushes, FaultKinds
<1> QED BY <1>2, <1>3, <1>4, <1>5

\* ReleaseOrContinue keeps the types.
LEMMA ReleaseOrContinueType ==
    ASSUME TypeInv, NEW j \in Jobs, ReleaseOrContinue(j) PROVE TypeInv'
<1> USE DEF TypeInv, TypeOK
<1>1. Delivered' = Delivered
  BY DEF ReleaseOrContinue, historyVars, Delivered
<1>2. RedisType'
  <2>1. lock' = lock \/ lock' = NoToken
    BY DEF ReleaseOrContinue
  <2>2. lockAge' = lockAge \/ lockAge' = 0
    BY DEF ReleaseOrContinue
  <2> QED BY <1>1, <2>1, <2>2, Parameters DEF ReleaseOrContinue, RedisType, NoToken
<1>3. JobType'
  <2>1. CASE Stop(j, "finished", 0)
    BY <1>1, <2>1 DEF Stop, JobType, Labels
  <2>2. CASE Leave(j, FALSE) /\ UNCHANGED <<othersOfJob, batch, error>>
    BY <1>1, <2>2 DEF Leave, Goto, othersOfJob, JobType, Labels
  <2>3. CASE Goto(j, "recover") /\ UNCHANGED <<othersOfJob, batch, error, again>>
    BY <1>1, <2>3 DEF Goto, othersOfJob, JobType, Labels
  <2> QED BY <2>1, <2>2, <2>3 DEF ReleaseOrContinue
<1>4. HistoryType'
  BY DEF ReleaseOrContinue, historyVars, HistoryType
<1>5. OtherType' /\ JobsFromPushes'
  BY <1>1 DEF ReleaseOrContinue, Stop, historyVars, othersOfJob, OtherType,
     JobsFromPushes, FaultKinds
<1> QED BY <1>2, <1>3, <1>4, <1>5

\* ReleaseFails keeps the types.
LEMMA ReleaseFailsType ==
    ASSUME TypeInv, NEW j \in Jobs, ReleaseFails(j) PROVE TypeInv'
<1> USE DEF TypeInv, TypeOK
<1>1. Delivered' = Delivered
  BY DEF ReleaseFails, historyVars, Delivered
<1>2. RedisType'
  <2>1. LockType'
    BY TokenType, Parameters DEF ReleaseFails, RedisType, LockType, NoToken
  <2> QED BY <1>1, <2>1 DEF ReleaseFails, RedisType, LockType
<1>3. JobType'
  BY <1>1 DEF ReleaseFails, Leave, Goto, othersOfJob, JobType, Labels
<1>4. HistoryType'
  BY DEF ReleaseFails, historyVars, HistoryType
<1>5. OtherType' /\ JobsFromPushes'
  BY <1>1 DEF ReleaseFails, Spend, historyVars, othersOfJob, OtherType, JobsFromPushes,
     FaultKinds
<1> QED BY <1>2, <1>3, <1>4, <1>5

\* Unwind keeps the types.
LEMMA UnwindType ==
    ASSUME TypeInv, NEW j \in Jobs, Unwind(j) PROVE TypeInv'
<1> USE DEF TypeInv, TypeOK
<1>1. Delivered' = Delivered
  BY DEF Unwind, historyVars, Delivered
<1>2. RedisType'
  <2>1. LockType'
    BY TokenType, Parameters DEF Unwind, RedisType, LockType, NoToken
  <2> QED BY <1>1, <2>1 DEF Unwind, RedisType, LockType
<1>3. JobType'
  BY <1>1 DEF Unwind, Stop, JobType, Labels
<1>4. HistoryType'
  BY DEF Unwind, historyVars, HistoryType
<1>5. OtherType' /\ JobsFromPushes'
  BY <1>1 DEF Unwind, Stop, Spend, historyVars, OtherType, JobsFromPushes, FaultKinds
<1> QED BY <1>2, <1>3, <1>4, <1>5

\* Expiring guards only shrink the sets of guards.
LEMMA GuardExpiresType ==
    ASSUME TypeInv, GuardExpires PROVE TypeInv'
<1> USE DEF TypeInv, TypeOK
<1>1. Delivered' = Delivered
  BY DEF GuardExpires, historyVars, Delivered
<1>2. RedisType'
  BY <1>1 DEF GuardExpires, RedisType
<1>3. JobType'
  BY <1>1 DEF GuardExpires, jobVars, JobType
<1>4. HistoryType'
  BY DEF GuardExpires, historyVars, HistoryType
<1>5. OtherType' /\ JobsFromPushes'
  BY DEF GuardExpires, historyVars, jobVars, OtherType, JobsFromPushes
<1> QED BY <1>2, <1>3, <1>4, <1>5

-----------------------------------------------------------------------------
\* A stuttering step changes no typed variable.
LEMMA StutterType ==
    ASSUME TypeInv, UNCHANGED vars PROVE TypeInv'
<1>1. UNCHANGED <<redisVars, jobVars, historyVars, unannounced, windowOpen, budget>>
  BY DEF vars
<1>2. RedisType' /\ JobType' /\ HistoryType'
  BY <1>1 DEF TypeInv, TypeOK, redisVars, jobVars, historyVars, RedisType, JobType,
     HistoryType, Delivered
<1>3. OtherType' /\ JobsFromPushes'
  BY <1>1 DEF TypeInv, TypeOK, jobVars, historyVars, OtherType, JobsFromPushes
<1> QED BY <1>2, <1>3 DEF TypeInv, TypeOK

\* Every step keeps the types.
LEMMA NextType == TypeInv /\ [Next]_vars => TypeInv'
<1> SUFFICES ASSUME TypeInv, [Next]_vars PROVE TypeInv'
  OBVIOUS
<1>1. ASSUME NEW c \in Content, PushMessage(c) PROVE TypeInv'
  BY <1>1, PushMessageType
<1>2. CASE EnqueueJob \/ EnqueueFails \/ WindowPasses
  BY <1>2, EnqueueJobType, EnqueueFailsType, WindowPassesType
<1>3. ASSUME NEW j \in Jobs, StartRun(j) PROVE TypeInv'
  BY <1>3, StartRunType
<1>4. ASSUME NEW j \in Jobs, Progress(j) PROVE TypeInv'
  BY <1>4, AcquireLockType, RecoverType, MoveOneType, InspectType, InnerReturnsType,
     BeginSideEffectsType, WorkType, MarkCompletedType, HandleErrorType,
     StoreQuarantineType, FinalizeType, ReleaseOrContinueType, UnwindType
     DEF Progress
<1>5. ASSUME NEW j \in Jobs, Failure(j) PROVE TypeInv'
  BY <1>5, CrashType, CancelType, AcquireLockFailsType, ClaimFailsType,
     InspectFailsType, InnerRaisesType, BeginFailsType, WorkRaisesType, MarkFailsType,
     StoreFailsType, FinalizeFailsType, ReleaseFailsType
     DEF Failure, FaultKinds
<1>6. CASE Tick \/ GuardExpires
  BY <1>6, TickType, GuardExpiresType
<1>7. CASE UNCHANGED vars
  BY <1>7, StutterType
<1> QED BY <1>1, <1>2, <1>3, <1>4, <1>5, <1>6, <1>7 DEF Next

\* The types, with the bound on job numbers they rest on, hold for ever.
THEOREM TypeInvariant == Spec => []TypeInv
<1>1. Init => TypeInv
  BY InitType
<1>2. TypeInv /\ [Next]_vars => TypeInv'
  BY NextType
<1> QED BY <1>1, <1>2, PTL DEF Spec

\* Every variable of the inbound pipeline stays in its type, whatever the
\* number of messages, jobs, tries and failures.
THEOREM TypeCorrect == Spec => []TypeOK
<1>1. TypeInv => TypeOK
  BY DEF TypeInv
<1> QED BY <1>1, TypeInvariant, PTL

-----------------------------------------------------------------------------
(* The lease.                                                              *)

\* What the assumptions say of the times.
LEMMA Times ==
    JobTimeout \in Nat /\ LockTtl \in Nat /\ JobTimeout < LockTtl
  BY TimesAssumption

\* The token of a job is never the absent token, and names its job.
LEMMA TokenNamesJob ==
    /\ \A j \in Jobs : Token(j) # NoToken
    /\ \A j, k \in Jobs : Token(j) = Token(k) => j = k
  BY Parameters DEF Token, NoToken, Jobs

\* Two jobs in their turn are one job.
LEMMA OneInTurn ==
    ASSUME LeaseInv, NEW j \in Jobs, NEW k \in Jobs, InTurn(j), InTurn(k) PROVE j = k
  BY TokenNamesJob DEF LeaseInv

\* A step of job j inside its turn, as far as the lock is concerned.
TurnStep(j) ==
    /\ InTurn(j)
    /\ UNCHANGED <<lock, lockAge, status, try, timer>>
    /\ \A k \in Jobs : k # j => pc'[k] = pc[k]

\* The awaits between taking and giving back the lock are such steps.
LEMMA TurnSteps ==
    ASSUME TypeInv, NEW j \in Jobs,
           \/ Recover(j) \/ MoveOne(j) \/ ClaimFails(j) \/ Inspect(j) \/ InspectFails(j)
           \/ InnerReturns(j) \/ InnerRaises(j) \/ BeginSideEffects(j) \/ BeginFails(j)
           \/ Work(j) \/ WorkRaises(j) \/ MarkCompleted(j) \/ MarkFails(j)
           \/ HandleError(j) \/ StoreQuarantine(j) \/ StoreFails(j)
           \/ Finalize(j) \/ FinalizeFails(j)
    PROVE  TurnStep(j)
<1> USE DEF TypeInv, TypeOK, JobType, TurnStep, InTurn, At, Goto, Leave, Throw, othersOfJob
<1>1. CASE Recover(j)
  BY <1>1 DEF Recover, redisVars
<1>2. CASE MoveOne(j)
  BY <1>2 DEF MoveOne
<1>3. CASE ClaimFails(j)
  BY <1>3 DEF ClaimFails
<1>4. CASE Inspect(j) \/ InspectFails(j)
  BY <1>4 DEF Inspect, InspectFails, redisVars
<1>5. CASE InnerReturns(j) \/ InnerRaises(j)
  BY <1>5 DEF InnerReturns, InnerRaises, redisVars
<1>6. CASE BeginSideEffects(j) \/ BeginFails(j)
  BY <1>6 DEF BeginSideEffects, BeginFails
<1>7. CASE Work(j) \/ WorkRaises(j)
  BY <1>7 DEF Work, WorkRaises, redisVars
<1>8. CASE MarkCompleted(j) \/ MarkFails(j)
  BY <1>8 DEF MarkCompleted, MarkFails
<1>9. CASE HandleError(j)
  BY <1>9 DEF HandleError, redisVars
<1>10. CASE StoreQuarantine(j) \/ StoreFails(j)
  BY <1>10 DEF StoreQuarantine, StoreFails, RaiseRetry
<1>11. CASE Finalize(j) \/ FinalizeFails(j)
  BY <1>11 DEF Finalize, FinalizeFails
<1> QED BY <1>1, <1>2, <1>3, <1>4, <1>5, <1>6, <1>7, <1>8, <1>9, <1>10, <1>11

\* They keep the lease.
LEMMA TurnStepKeepsLease ==
    ASSUME TypeInv, LeaseInv, NEW j \in Jobs, TurnStep(j) PROVE LeaseInv'
  BY DEF TurnStep, LeaseInv, InTurn, Token

-----------------------------------------------------------------------------
(* Steps that change the lock, or which jobs run.                          *)

\* The lock goes to a job only while nobody holds it, hence to no second job.
LEMMA AcquireLease ==
    ASSUME TypeInv, LeaseInv, NEW j \in Jobs, AcquireLock(j) \/ AcquireLockFails(j)
    PROVE  LeaseInv'
<1> USE DEF TypeInv, TypeOK, JobType
<1>1. ASSUME NEW k \in Jobs PROVE (status[k] = "running" => timer[k] =< JobTimeout)'
  BY <1>1, Times DEF AcquireLock, AcquireLockFails, Contend, Stop, othersOfJob, LeaseInv
<1>2. ASSUME NEW k \in Jobs, InTurn(k)'
      PROVE  (lock = Token(k) /\ lockAge =< timer[k])'
  <2>1. try' = try
    BY DEF AcquireLock, AcquireLockFails, Contend, Stop, othersOfJob
  <2>2. CASE lock = NoToken /\ AcquireLock(j)
    <3>1. k = j
      BY <1>2, <2>2, TokenNamesJob DEF AcquireLock, Goto, Stop, Contend, othersOfJob, LeaseInv, InTurn
    <3>2. lock' = Token(j) /\ lockAge' = 0 /\ timer' = timer
      BY <2>2 DEF AcquireLock, othersOfJob
    <3> QED BY <2>1, <3>1, <3>2 DEF Token
  <2>3. CASE ~(lock = NoToken /\ AcquireLock(j))
    <3>1. k # j /\ InTurn(k) /\ timer'[k] = timer[k]
      BY <1>2, <2>3 DEF AcquireLock, AcquireLockFails, Contend, Stop, InTurn
    <3>2. lock = Token(k) /\ lockAge =< timer[k]
      BY <3>1 DEF LeaseInv
    <3>3. lock' = lock /\ lockAge' = lockAge
      BY <2>3, <3>2, TokenNamesJob DEF AcquireLock, AcquireLockFails
    <3> QED BY <2>1, <3>1, <3>2, <3>3 DEF Token
  <2> QED BY <2>2, <2>3
<1> QED BY <1>1, <1>2 DEF LeaseInv

\* A job gives back its own lock, and leaves its turn when it does.
LEMMA ReleaseLease ==
    ASSUME TypeInv, LeaseInv, NEW j \in Jobs,
           ReleaseOrContinue(j) \/ ReleaseFails(j) \/ Unwind(j)
    PROVE  LeaseInv'
<1> USE DEF TypeInv, TypeOK, JobType
<1>1. ASSUME NEW k \in Jobs PROVE (status[k] = "running" => timer[k] =< JobTimeout)'
  BY <1>1, Times DEF ReleaseOrContinue, ReleaseFails, Unwind, Leave, Goto, Stop, othersOfJob, LeaseInv
<1>2. ASSUME NEW k \in Jobs, InTurn(k)'
      PROVE  (lock = Token(k) /\ lockAge =< timer[k])'
  <2>1. try' = try
    BY DEF ReleaseOrContinue, ReleaseFails, Unwind, Stop, othersOfJob
  <2>2. InTurn(k) /\ timer'[k] = timer[k]
    BY <1>2 DEF ReleaseOrContinue, ReleaseFails, Unwind, Leave, Goto, Stop, othersOfJob, InTurn, At
  <2>3. lock = Token(k) /\ lockAge =< timer[k]
    BY <2>2 DEF LeaseInv
  <2>4. CASE k = j
    <3>1. /\ ReleaseOrContinue(j)
          /\ lock' = lock /\ lockAge' = 0
      BY <1>2, <2>3, <2>4 DEF ReleaseOrContinue, ReleaseFails, Unwind, Leave, Goto, Stop, InTurn
    <3> QED BY <2>1, <2>2, <2>3, <3>1 DEF Token
  <2>5. CASE k # j
    <3>1. lock # Token(j)
      BY <2>3, <2>5, TokenNamesJob
    <3>2. lock' = lock /\ lockAge' = lockAge
      BY <3>1 DEF ReleaseOrContinue, ReleaseFails, Unwind
    <3> QED BY <2>1, <2>2, <2>3, <3>2 DEF Token
  <2> QED BY <2>4, <2>5
<1> QED BY <1>1, <1>2 DEF LeaseInv

\* A job that starts, dies or is cancelled is not in its turn any more; one that
\* is cancelled at its SET NX may leave the key, which was free.
LEMMA WorkerLease ==
    ASSUME TypeInv, LeaseInv, NEW j \in Jobs,
           StartRun(j) \/ Crash(j) \/ \E kind \in FaultKinds : Cancel(j, kind)
    PROVE  LeaseInv'
<1> USE DEF TypeInv, TypeOK, JobType
<1>1. (lock' = lock /\ lockAge' = lockAge) \/ lock = NoToken
  BY DEF StartRun, Crash, Cancel, redisVars
<1>2. ASSUME NEW k \in Jobs PROVE (status[k] = "running" => timer[k] =< JobTimeout)'
  BY <1>2, Times DEF StartRun, Crash, Cancel, RunAgain, Leave, Goto, Stop, LeaseInv
<1>3. ASSUME NEW k \in Jobs, InTurn(k)'
      PROVE  k # j /\ InTurn(k) /\ timer'[k] = timer[k] /\ try'[k] = try[k]
  <2>1. CASE StartRun(j)
    BY <1>3, <2>1 DEF StartRun, InTurn
  <2>2. CASE Crash(j)
    BY <1>3, <2>2 DEF Crash, Stop, InTurn
  <2>3. ASSUME NEW kind \in FaultKinds, Cancel(j, kind)
        PROVE  k # j /\ InTurn(k) /\ timer'[k] = timer[k] /\ try'[k] = try[k]
    BY <1>3, <2>3 DEF Cancel, RunAgain, Leave, Goto, Stop, InTurn
  <2> QED BY <2>1, <2>2, <2>3
<1>4. ASSUME NEW k \in Jobs, InTurn(k) PROVE lock # NoToken
  BY <1>4, TokenNamesJob DEF LeaseInv
<1> QED BY <1>1, <1>2, <1>3, <1>4 DEF LeaseInv, Token

\* The lock ages with the run of its owner and cannot expire before its end.
LEMMA TickLease ==
    ASSUME TypeInv, LeaseInv, Tick PROVE LeaseInv'
<1> USE DEF TypeInv, TypeOK, JobType
<1>1. ASSUME NEW k \in Jobs, status[k] = "running"
      PROVE  timer'[k] = timer[k] + 1 /\ timer[k] + 1 =< JobTimeout
  <2>1. timer[k] < JobTimeout
    BY <1>1 DEF Tick, WithinTimeout, Running
  <2>2. timer'[k] = timer[k] + 1
    BY <1>1 DEF Tick
  <2> QED BY <2>1, <2>2, Times
<1>2. ASSUME NEW k \in Jobs, InTurn(k)'
      PROVE  (lock = Token(k) /\ lockAge =< timer[k])'
  <2>1. InTurn(k) /\ status[k] = "running" /\ try' = try
    BY <1>2 DEF Tick, InTurn
  <2>2. lock = Token(k) /\ lockAge =< timer[k] /\ lockAge \in Nat /\ timer[k] \in Nat
    BY <2>1 DEF LeaseInv, RedisType
  <2>3. lock # NoToken /\ lockAge + 1 < LockTtl
    BY <1>1, <2>1, <2>2, Times, TokenNamesJob
  <2>4. lock' = lock /\ lockAge' = lockAge + 1
    BY <2>3 DEF Tick
  <2> QED BY <1>1, <2>1, <2>2, <2>4 DEF Token
<1>3. status' = status
  BY DEF Tick
<1> QED BY <1>1, <1>2, <1>3 DEF LeaseInv

\* Steps that change neither the lock nor any job's run.
LEMMA OtherLease ==
    ASSUME TypeInv, LeaseInv,
           \/ \E c \in Content : PushMessage(c)
           \/ EnqueueJob \/ EnqueueFails \/ WindowPasses \/ GuardExpires \/ UNCHANGED vars
    PROVE  LeaseInv'
<1> USE DEF TypeInv, TypeOK, JobType
<1>1. /\ UNCHANGED <<lock, lockAge, try, timer, pc>>
      /\ \A k \in Jobs : status'[k] = "running" => status[k] = "running"
  <2>1. CASE EnqueueJob
    BY <2>1 DEF EnqueueJob, redisVars
  <2>2. ASSUME NEW c \in Content, PushMessage(c)
        PROVE  UNCHANGED <<lock, lockAge, try, timer, pc, status>>
    BY <2>2 DEF PushMessage, jobVars
  <2>3. CASE EnqueueFails \/ WindowPasses
    BY <2>3 DEF EnqueueFails, WindowPasses, redisVars, jobVars
  <2>4. CASE GuardExpires \/ UNCHANGED vars
    BY <2>4 DEF GuardExpires, vars, redisVars, jobVars
  <2> QED BY <2>1, <2>2, <2>3, <2>4
<1> QED BY <1>1 DEF LeaseInv, InTurn, Token

\* Every step keeps the lease.
LEMMA NextLease == TypeInv /\ LeaseInv /\ [Next]_vars => LeaseInv'
<1> SUFFICES ASSUME TypeInv, LeaseInv, [Next]_vars PROVE LeaseInv'
  OBVIOUS
<1>1. ASSUME NEW j \in Jobs, StartRun(j) \/ Progress(j) \/ Failure(j) PROVE LeaseInv'
  <2>1. CASE StartRun(j) \/ Crash(j) \/ Cancel(j, "shutdown") \/ Cancel(j, "timeout")
    BY <2>1, WorkerLease DEF FaultKinds
  <2>2. CASE AcquireLock(j) \/ AcquireLockFails(j)
    BY <2>2, AcquireLease
  <2>3. CASE ReleaseOrContinue(j) \/ ReleaseFails(j) \/ Unwind(j)
    BY <2>3, ReleaseLease
  <2>4. CASE TurnStep(j)
    BY <2>4, TurnStepKeepsLease
  <2> QED BY <1>1, <2>1, <2>2, <2>3, <2>4, TurnSteps DEF Progress, Failure
<1>2. CASE Tick
  BY <1>2, TickLease
<1>3. CASE \/ \E c \in Content : PushMessage(c)
           \/ EnqueueJob \/ EnqueueFails \/ WindowPasses \/ GuardExpires \/ UNCHANGED vars
  BY <1>3, OtherLease
<1> QED BY <1>1, <1>2, <1>3 DEF Next

\* The lease holds for ever.
THEOREM LeaseHolds == Spec => [](TypeInv /\ LeaseInv)
<1>1. Init => TypeInv /\ LeaseInv
  BY InitType DEF Init, LeaseInv, InTurn, Jobs
<1>2. (TypeInv /\ LeaseInv) /\ [Next]_vars => (TypeInv /\ LeaseInv)'
  BY NextType, NextLease
<1> QED BY <1>1, <1>2, PTL DEF Spec

\* Only the owner of the lock works on a chat, although the lock of a turn
\* is never renewed: process_incoming_batch runs alone for its chat.
THEOREM OneOwnerHolds == Spec => []OneOwner
<1>1. LeaseInv => OneOwner
  BY DEF LeaseInv, OneOwner
<1> QED BY <1>1, LeaseHolds, PTL

-----------------------------------------------------------------------------
(* The messages.                                                           *)

Claimed == {"inspect", "inner", "work", "mark", "except", "quarantine", "finalize"}

\* ClaimInv, of one job.
ClaimOf(j) ==
    /\ status[j] = "running" /\ pc[j] \in Claimed => batch[j] = processing /\ processing # << >>
    /\ At(j, "move") => batch[j] = processing
    /\ At(j, "release") => processing = << >>

\* The invariant is the conjunction of the claims of the jobs.
LEMMA ClaimOfEach == /\ ClaimInv <=> \A j \in Jobs : ClaimOf(j)
                     /\ ClaimInv' <=> \A j \in Jobs : ClaimOf(j)'
  BY DEF ClaimInv, ImmutableBatch, ClaimOf, Claimed, At

\* The claim survives the steps that leave the list and the job alone, and
\* those after which the job runs no more.
LEMMA UntouchedClaim ==
    ASSUME NEW k \in Jobs, ClaimOf(k),
           status'[k] = "running" => /\ status[k] = "running" /\ pc'[k] = pc[k]
                                     /\ processing' = processing /\ batch'[k] = batch[k]
    PROVE  ClaimOf(k)'
  BY DEF ClaimOf, At

\* A job outside its turn has made no claim.
LEMMA NoClaim ==
    ASSUME NEW k \in Jobs, ~InTurn(k)' PROVE ClaimOf(k)'
  BY DEF ClaimOf, InTurn, At, Claimed

\* A step of a job in its turn leaves the other jobs out of theirs.
LEMMA OthersClaim ==
    ASSUME TypeInv, LeaseInv, NEW j \in Jobs, TurnStep(j), NEW k \in Jobs, k # j
    PROVE  ClaimOf(k)'
<1>1. ~InTurn(k)
  BY OneInTurn DEF TurnStep
<1>2. ~InTurn(k)'
  BY <1>1 DEF TurnStep, InTurn
<1> QED BY <1>2, NoClaim

\* What the claim itself does.
LEMMA ClaimingClaim ==
    ASSUME TypeInv, LeaseInv, ClaimInv, NEW j \in Jobs,
           Recover(j) \/ MoveOne(j) \/ ClaimFails(j)
    PROVE  ClaimInv'
<1>1. ClaimOf(j)
  BY ClaimOfEach
<1>2. ClaimOf(j)'
  <2> USE DEF TypeInv, TypeOK, JobType, RedisType
  <2>1. CASE Recover(j)
    BY <2>1 DEF ClaimOf, Claimed, At, Recover, Recovered, Goto, redisVars, othersOfJob
  <2>2. CASE MoveOne(j)
    <3>1. status[j] = "running" /\ batch[j] = processing /\ pc[j] = "move"
      BY <1>1, <2>2 DEF ClaimOf, MoveOne, At
    <3>2. CASE queue # << >>
      <4>1. batch'[j] = processing' /\ pc'[j] = "move"
        BY <2>2, <3>1, <3>2 DEF MoveOne
      <4> QED BY <4>1 DEF ClaimOf, Claimed, At
    <3>3. CASE queue = << >>
      BY <2>2, <3>1, <3>3 DEF ClaimOf, Claimed, At, MoveOne, Goto, othersOfJob
    <3> QED BY <3>2, <3>3
  <2>3. CASE ClaimFails(j)
    BY <2>3 DEF ClaimOf, Claimed, At, ClaimFails, Leave, Goto, othersOfJob
  <2> QED BY <2>1, <2>2, <2>3
<1>3. TurnStep(j)
  BY TurnSteps
<1> QED BY <1>2, <1>3, OthersClaim, ClaimOfEach

\* The turn up to the finalizing script works on the batch as it is.
WorksOn(j) ==
    /\ status[j] = "running" /\ pc[j] \in Claimed
    /\ UNCHANGED <<status, raw, queue, processing, batch, outcome>>
    /\ pc'[j] \in Claimed \cup {"unwind"}

\* The awaits from the guard to the quarantine are such steps.
LEMMA WorkingSteps ==
    ASSUME TypeInv, NEW j \in Jobs,
           \/ Inspect(j) \/ InspectFails(j) \/ InnerReturns(j) \/ InnerRaises(j)
           \/ BeginSideEffects(j) \/ BeginFails(j) \/ Work(j) \/ WorkRaises(j)
           \/ MarkCompleted(j) \/ MarkFails(j) \/ HandleError(j)
           \/ StoreQuarantine(j) \/ StoreFails(j)
    PROVE  WorksOn(j)
<1> USE DEF TypeInv, TypeOK, JobType, WorksOn, At, Goto, Throw, Leave, othersOfJob, redisVars,
            historyVars, Claimed
<1>1. CASE Inspect(j) \/ InspectFails(j)
  BY <1>1 DEF Inspect, InspectFails
<1>2. CASE InnerReturns(j) \/ InnerRaises(j)
  BY <1>2 DEF InnerReturns, InnerRaises
<1>3. CASE BeginSideEffects(j) \/ BeginFails(j)
  BY <1>3 DEF BeginSideEffects, BeginFails
<1>4. CASE Work(j) \/ WorkRaises(j)
  BY <1>4 DEF Work, WorkRaises
<1>5. CASE MarkCompleted(j) \/ MarkFails(j)
  BY <1>5 DEF MarkCompleted, MarkFails
<1>6. CASE HandleError(j) \/ StoreQuarantine(j) \/ StoreFails(j)
  BY <1>6 DEF HandleError, StoreQuarantine, StoreFails, RaiseRetry
<1> QED BY <1>1, <1>2, <1>3, <1>4, <1>5, <1>6

\* They keep the claim.
LEMMA WorkingClaim ==
    ASSUME TypeInv, LeaseInv, ClaimInv, NEW j \in Jobs, WorksOn(j), TurnStep(j)
    PROVE  ClaimInv'
<1>1. ClaimOf(j)
  BY ClaimOfEach
<1>2. ClaimOf(j)'
  BY <1>1 DEF ClaimOf, WorksOn, At, Claimed
<1> QED BY <1>2, OthersClaim, ClaimOfEach

\* The finalizing script empties the list and ends the claim.
LEMMA FinalizingClaim ==
    ASSUME TypeInv, LeaseInv, ClaimInv, NEW j \in Jobs, Finalize(j) \/ FinalizeFails(j)
    PROVE  ClaimInv'
<1>1. ClaimOf(j)'
  BY DEF TypeInv, TypeOK, JobType, Finalize, FinalizeFails, DeleteProcessing, Leave, Goto,
         othersOfJob, ClaimOf, At, Claimed
<1>2. TurnStep(j)
  BY TurnSteps
<1> QED BY <1>1, <1>2, OthersClaim, ClaimOfEach

\* Taking and giving back the lock, starting and stopping: no claim is made.
LEMMA BoundaryClaim ==
    ASSUME TypeInv, ClaimInv, NEW j \in Jobs,
           \/ AcquireLock(j) \/ AcquireLockFails(j) \/ ReleaseOrContinue(j) \/ ReleaseFails(j)
           \/ Unwind(j) \/ StartRun(j) \/ Crash(j) \/ \E kind \in FaultKinds : Cancel(j, kind)
    PROVE  ClaimInv'
<1> USE DEF TypeInv, TypeOK, JobType
<1>1. processing' = processing
  BY DEF AcquireLock, AcquireLockFails, ReleaseOrContinue, ReleaseFails, Unwind, StartRun, Crash,
         Cancel, redisVars
<1>2. /\ status'[j] = "running" => pc'[j] \in {"lock", "recover", "unwind"}
      /\ \A k \in Jobs : k # j => pc'[k] = pc[k] /\ batch'[k] = batch[k] /\ status'[k] = status[k]
  <2> USE DEF At, Goto, Leave, Stop, othersOfJob
  <2>1. CASE AcquireLock(j) \/ AcquireLockFails(j)
    BY <2>1 DEF AcquireLock, AcquireLockFails, Contend
  <2>2. CASE ReleaseOrContinue(j) \/ ReleaseFails(j) \/ Unwind(j)
    BY <2>2 DEF ReleaseOrContinue, ReleaseFails, Unwind
  <2>3. CASE StartRun(j) \/ Crash(j)
    BY <2>3 DEF StartRun, Startable, Crash
  <2>4. CASE \E kind \in FaultKinds : Cancel(j, kind)
    BY <2>4 DEF Cancel, RunAgain
  <2> QED BY <2>1, <2>2, <2>3, <2>4
<1>3. ClaimOf(j)'
  BY <1>2 DEF ClaimOf, At, Claimed
<1>4. ASSUME NEW k \in Jobs, k # j PROVE ClaimOf(k)'
  BY <1>1, <1>2, <1>4, UntouchedClaim, ClaimOfEach
<1> QED BY <1>3, <1>4, ClaimOfEach

\* The webhook, the clock and expiring guards are outside the claims.
LEMMA OtherClaim ==
    ASSUME TypeInv, ClaimInv,
           \/ \E c \in Content : PushMessage(c)
           \/ EnqueueJob \/ EnqueueFails \/ WindowPasses \/ Tick \/ GuardExpires \/ UNCHANGED vars
    PROVE  ClaimInv'
<1> USE DEF TypeInv, TypeOK, JobType
<1>1. /\ UNCHANGED <<processing, pc, batch>>
      /\ \A k \in Jobs : status'[k] = "running" => status[k] = "running"
  <2>1. CASE EnqueueJob
    BY <2>1 DEF EnqueueJob, redisVars
  <2>2. CASE \E c \in Content : PushMessage(c)
    BY <2>2 DEF PushMessage, jobVars
  <2>3. CASE EnqueueFails \/ WindowPasses \/ Tick
    BY <2>3 DEF EnqueueFails, WindowPasses, Tick, redisVars, jobVars
  <2>4. CASE GuardExpires \/ UNCHANGED vars
    BY <2>4 DEF GuardExpires, vars, redisVars, jobVars
  <2> QED BY <2>1, <2>2, <2>3, <2>4
<1> QED BY <1>1, UntouchedClaim, ClaimOfEach

\* Every step keeps the claims.
LEMMA NextClaim == TypeInv /\ LeaseInv /\ ClaimInv /\ [Next]_vars => ClaimInv'
<1> SUFFICES ASSUME TypeInv, LeaseInv, ClaimInv, [Next]_vars PROVE ClaimInv'
  OBVIOUS
<1>1. ASSUME NEW j \in Jobs, StartRun(j) \/ Progress(j) \/ Failure(j) PROVE ClaimInv'
  <2>1. CASE \/ AcquireLock(j) \/ AcquireLockFails(j) \/ ReleaseOrContinue(j) \/ ReleaseFails(j)
             \/ Unwind(j) \/ StartRun(j) \/ Crash(j) \/ Cancel(j, "shutdown") \/ Cancel(j, "timeout")
    BY <2>1, BoundaryClaim DEF FaultKinds
  <2>2. CASE Recover(j) \/ MoveOne(j) \/ ClaimFails(j)
    BY <2>2, ClaimingClaim
  <2>3. CASE Finalize(j) \/ FinalizeFails(j)
    BY <2>3, FinalizingClaim
  <2>4. CASE WorksOn(j) /\ TurnStep(j)
    BY <2>4, WorkingClaim
  <2> QED BY <1>1, <2>1, <2>2, <2>3, <2>4, WorkingSteps, TurnSteps DEF Progress, Failure
<1>2. CASE \/ \E c \in Content : PushMessage(c)
           \/ EnqueueJob \/ EnqueueFails \/ WindowPasses \/ Tick \/ GuardExpires \/ UNCHANGED vars
  BY <1>2, OtherClaim
<1> QED BY <1>1, <1>2 DEF Next

\* A claim holds from the first LMOVE to the finalizing script.
THEOREM ClaimHolds == Spec => [](TypeInv /\ LeaseInv /\ ClaimInv)
<1>1. Init => ClaimInv
  BY DEF Init, ClaimInv, ImmutableBatch, At
<1>2. (TypeInv /\ LeaseInv) /\ ClaimInv /\ [Next]_vars => ClaimInv'
  BY NextClaim
<1> QED BY <1>1, <1>2, LeaseHolds, PTL DEF Spec

\* The list that a job deletes holds exactly the messages it handled: an
\* interrupted batch is taken again as it was, never mixed with newer messages.
THEOREM ImmutableBatchHolds == Spec => []ImmutableBatch
<1>1. ClaimInv => ImmutableBatch
  BY DEF ClaimInv
<1> QED BY <1>1, ClaimHolds, PTL

-----------------------------------------------------------------------------
(* Nothing is lost.                                                        *)

\* What the types say of the lists.
LEMMA Lists ==
    ASSUME TypeInv
    PROVE  /\ queue \in Seq(Delivered) /\ processing \in Seq(Delivered) /\ raw \in Seq(Content)
           /\ Len(raw) \in Nat /\ Len(queue) \in Nat /\ Len(processing) \in Nat
           /\ DOMAIN queue = 1..Len(queue) /\ DOMAIN processing = 1..Len(processing)
           /\ Len(raw) =< MaxArrivals /\ Settled \in Int
  BY DEF TypeInv, TypeOK, RedisType, HistoryType, Settled

\* Most steps leave the lists and the outcomes alone.
LEMMA SameLists ==
    ASSUME NothingLost, UNCHANGED <<raw, queue, processing, outcome>> PROVE NothingLost'
  BY DEF NothingLost, Settled

\* A push adds the next arrival at the end of the queue.
LEMMA PushLosesNothing ==
    ASSUME TypeInv, NothingLost, NEW c \in Content, PushMessage(c) PROVE NothingLost'
<1>1. /\ Len(raw') = Len(raw) + 1 /\ Len(queue') = Len(queue) + 1
      /\ processing' = processing /\ outcome' = outcome
  BY Lists DEF PushMessage, Pushed
<1>2. Settled' = Settled
  BY <1>1, Lists DEF Settled
<1>3. ASSUME NEW i \in DOMAIN queue' PROVE queue'[i] = Settled + Len(processing) + i
  <2>1. i \in 1..(Len(queue) + 1) /\ queue' = Append(queue, Len(raw) + 1)
    BY <1>3, Lists DEF PushMessage, Pushed
  <2>2. CASE i = Len(queue) + 1
    BY <2>1, <2>2, Lists DEF Settled
  <2>3. CASE i # Len(queue) + 1
    BY <2>1, <2>3, Lists DEF NothingLost
  <2> QED BY <2>2, <2>3
<1> QED BY <1>1, <1>2, <1>3 DEF NothingLost

\* One LMOVE of a claim takes the oldest message of the queue.
LEMMA MoveLosesNothing ==
    ASSUME TypeInv, NothingLost, queue # << >>, queue' = Tail(queue),
           processing' = Append(processing, Head(queue)), UNCHANGED <<raw, outcome>>
    PROVE  NothingLost'
<1>1. /\ Len(queue) > 0 /\ Len(queue') = Len(queue) - 1 /\ DOMAIN queue' = 1..(Len(queue) - 1)
      /\ Len(processing') = Len(processing) + 1 /\ DOMAIN processing' = 1..(Len(processing) + 1)
      /\ Head(queue) = queue[1]
  BY Lists
<1>2. Settled' = Settled
  BY <1>1, Lists DEF Settled
<1>3. ASSUME NEW i \in DOMAIN processing' PROVE processing'[i] = Settled + i
  <2>1. CASE i = Len(processing) + 1
    BY <1>1, <2>1, Lists DEF NothingLost
  <2>2. CASE i # Len(processing) + 1
    BY <1>1, <1>3, <2>2, Lists DEF NothingLost
  <2> QED BY <2>1, <2>2
<1>4. ASSUME NEW i \in DOMAIN queue' PROVE queue'[i] = Settled + Len(processing') + i
  <2>1. i \in 1..(Len(queue) - 1)
    BY <1>1, <1>4
  <2>2. queue'[i] = queue[i + 1] /\ i + 1 \in DOMAIN queue
    BY <2>1, Lists
  <2>3. queue[i + 1] = Settled + Len(processing) + (i + 1)
    BY <2>2 DEF NothingLost
  <2> QED BY <1>1, <2>1, <2>2, <2>3, Lists
<1> QED BY <1>2, <1>3, <1>4 DEF NothingLost

\* The script settles exactly the messages of the list it deletes.
LEMMA DeleteLosesNothing ==
    ASSUME TypeInv, NothingLost, NEW j \in Jobs, batch[j] = processing, DeleteProcessing(j),
           UNCHANGED <<raw, queue>>
    PROVE  NothingLost'
<1>1. processing' = << >> /\ Len(processing') = 0
  BY DEF DeleteProcessing
<1>2. Settled' = Settled + Len(processing)
  BY <1>1, Lists DEF Settled
<1>3. ASSUME NEW k \in Arrivals
      PROVE  k \in Elements(processing) <=> Settled < k /\ k =< Settled + Len(processing)
  <2>1. k \in Int
    BY Parameters DEF Arrivals
  <2>2. k \in Elements(processing) <=> \E i \in 1..Len(processing) : k = Settled + i
    BY Lists DEF Elements, NothingLost
  <2>3. Settled < k /\ k =< Settled + Len(processing) => k - Settled \in 1..Len(processing)
    BY <2>1, Lists
  <2> QED BY <2>1, <2>2, <2>3, Lists
<1>4. ASSUME NEW k \in Arrivals
      PROVE  outcome'[k] = IF k \in Elements(processing)
                           THEN IF error[j] = "none" THEN "acknowledged" ELSE "quarantined"
                           ELSE outcome[k]
  <2>1. outcome'[k] = IF k \notin Elements(processing) THEN outcome[k]
                      ELSE IF k \notin Elements(batch[j]) THEN "lost"
                      ELSE IF error[j] = "none" THEN "acknowledged" ELSE "quarantined"
    BY DEF DeleteProcessing
  <2>2. Elements(batch[j]) = Elements(processing)
    OBVIOUS
  <2>3. CASE k \in Elements(processing)
    BY <2>1, <2>2, <2>3
  <2>4. CASE k \notin Elements(processing)
    BY <2>1, <2>2, <2>4
  <2> QED BY <2>3, <2>4
<1>5. \A k \in Arrivals : IF k =< Settled' THEN outcome'[k] \in {"acknowledged", "quarantined"}
                                           ELSE outcome'[k] = "pending"
  <2> TAKE k \in Arrivals
  <2>1. k \in Int
    BY Parameters DEF Arrivals
  <2>2. CASE k \in Elements(processing)
    BY <1>2, <1>3, <1>4, <2>2
  <2>3. CASE k \notin Elements(processing)
    <3>1. k =< Settled' <=> k =< Settled
      BY <1>2, <1>3, <2>1, <2>3, Lists
    <3> QED BY <1>4, <2>3, <3>1 DEF NothingLost
  <2> QED BY <2>2, <2>3
<1>6. \A i \in DOMAIN queue' : queue'[i] = Settled' + Len(processing') + i
  BY <1>1, <1>2, Lists DEF NothingLost
<1>7. Settled' >= 0
  BY <1>2, Lists DEF NothingLost
<1> QED BY <1>1, <1>5, <1>6, <1>7 DEF NothingLost

\* The steps that leave the lists alone.
LEMMA OutsideSteps ==
    ASSUME TypeInv,
           \/ \E j \in Jobs :
                 \/ AcquireLock(j) \/ AcquireLockFails(j) \/ Recover(j) \/ ReleaseOrContinue(j)
                 \/ ReleaseFails(j) \/ Unwind(j) \/ StartRun(j) \/ Crash(j)
                 \/ \E kind \in FaultKinds : Cancel(j, kind)
           \/ EnqueueJob \/ EnqueueFails \/ WindowPasses \/ Tick \/ GuardExpires \/ UNCHANGED vars
    PROVE  UNCHANGED <<raw, queue, processing, outcome>>
<1> USE DEF redisVars, historyVars
<1>1. ASSUME NEW j \in Jobs,
             \/ AcquireLock(j) \/ AcquireLockFails(j) \/ Recover(j) \/ ReleaseOrContinue(j)
             \/ ReleaseFails(j) \/ Unwind(j) \/ StartRun(j) \/ Crash(j)
             \/ \E kind \in FaultKinds : Cancel(j, kind)
      PROVE  UNCHANGED <<raw, queue, processing, outcome>>
  BY <1>1 DEF AcquireLock, AcquireLockFails, Recover, ReleaseOrContinue, ReleaseFails, Unwind,
              StartRun, Crash, Cancel
<1>2. CASE EnqueueJob \/ EnqueueFails \/ WindowPasses \/ Tick \/ GuardExpires \/ UNCHANGED vars
  BY <1>2 DEF EnqueueJob, EnqueueFails, WindowPasses, Tick, GuardExpires, vars
<1> QED BY <1>1, <1>2

\* Every step keeps every message.
LEMMA NextLosesNothing ==
    TypeInv /\ LeaseInv /\ ClaimInv /\ NothingLost /\ [Next]_vars => NothingLost'
<1> SUFFICES ASSUME TypeInv, LeaseInv, ClaimInv, NothingLost, [Next]_vars PROVE NothingLost'
  OBVIOUS
<1>1. ASSUME NEW j \in Jobs, StartRun(j) \/ Progress(j) \/ Failure(j) PROVE NothingLost'
  <2>1. CASE UNCHANGED <<raw, queue, processing, outcome>>
    BY <2>1, SameLists
  <2>2. CASE MoveOne(j) \/ ClaimFails(j)
    BY <2>2, SameLists, MoveLosesNothing DEF MoveOne, ClaimFails, historyVars
  <2>3. CASE Finalize(j) \/ FinalizeFails(j)
    <3>1. batch[j] = processing
      BY <2>3 DEF Finalize, FinalizeFails, ClaimInv, ImmutableBatch
    <3>2. UNCHANGED <<raw, queue>>
      BY <2>3 DEF Finalize, FinalizeFails
    <3>3. CASE DeleteProcessing(j)
      BY <3>1, <3>2, <3>3, DeleteLosesNothing
    <3>4. CASE UNCHANGED <<processing, outcome>>
      BY <3>2, <3>4, SameLists
    <3> QED BY <2>3, <3>3, <3>4 DEF Finalize, FinalizeFails
  <2>4. CASE WorksOn(j)
    BY <2>4, SameLists DEF WorksOn
  <2> QED BY <1>1, <2>1, <2>2, <2>3, <2>4, WorkingSteps, OutsideSteps DEF Progress, Failure, FaultKinds
<1>2. CASE EnqueueJob \/ EnqueueFails \/ WindowPasses \/ Tick \/ GuardExpires \/ UNCHANGED vars
  BY <1>2, OutsideSteps, SameLists
<1>3. ASSUME NEW c \in Content, PushMessage(c) PROVE NothingLost'
  BY <1>3, PushLosesNothing
<1> QED BY <1>1, <1>2, <1>3 DEF Next

\* An accepted message is in Redis, once and in its place, until it was
\* acknowledged or quarantined, whatever failed and whoever died.
THEOREM NothingLostHolds == Spec => []NothingLost
<1>1. Init => NothingLost
  BY Parameters DEF Init, NothingLost, Settled, Arrivals
<1>2. (TypeInv /\ LeaseInv /\ ClaimInv) /\ NothingLost /\ [Next]_vars => NothingLost'
  BY NextLosesNothing
<1> QED BY <1>1, <1>2, ClaimHolds, PTL DEF Spec

-----------------------------------------------------------------------------
(* Side effects begin at most once.                                        *)

\* What the types say of the guards and the messages of the lists.
LEMMA Effects ==
    ASSUME TypeInv
    PROVE  /\ effects \in [Arrivals -> Nat] /\ Delivered \subseteq Arrivals
           /\ \A i \in DOMAIN queue : queue[i] \in Delivered
           /\ \A i \in DOMAIN processing : processing[i] \in Delivered
<1>1. effects \in [Arrivals -> Nat]
  BY DEF TypeInv, TypeOK, HistoryType
<1>2. Delivered \subseteq Arrivals
  BY Lists, Parameters DEF Delivered, Arrivals
<1> QED BY <1>1, <1>2, Lists

\* The identifier of a batch does not change when messages arrive.
LEMMA BatchIdStable ==
    ASSUME raw \in Seq(Content), NEW c \in Content, NEW b \in Seq(Delivered)
    PROVE  [i \in DOMAIN b |-> Append(raw, c)[b[i]]] = BatchId(b)
<1>1. ASSUME NEW i \in DOMAIN b PROVE Append(raw, c)[b[i]] = raw[b[i]]
  <2>1. b[i] \in 1..Len(raw) /\ Len(raw) \in Nat
    BY DEF Delivered
  <2> QED BY <2>1
<1> QED BY <1>1 DEF BatchId

\* After a step of a turn that is not a step of the claim nobody is claiming.
LEMMA NobodyClaims ==
    ASSUME TypeInv, LeaseInv, NEW j \in Jobs, TurnStep(j), pc'[j] # "move"
    PROVE  \A k \in Jobs : ~At(k, "move")'
<1> TAKE k \in Jobs
<1>1. CASE k = j
  BY <1>1 DEF At
<1>2. CASE k # j
  BY <1>2, OneInTurn DEF TurnStep, InTurn, At
<1> QED BY <1>1, <1>2

\* A step that leaves lists, guards and effects alone, and begins no claim
\* of a list that is not empty.
LEMMA SameGuards ==
    ASSUME GuardInv, UNCHANGED <<raw, queue, processing, effects, started, completed, expiring>>,
           \A k \in Jobs : At(k, "move")' => At(k, "move") \/ processing = << >>
    PROVE  GuardInv'
<1>1. BatchId(processing)' = BatchId(processing)
  BY DEF BatchId
<1>2. \A i \in DOMAIN processing :
         effects[processing[i]] > 0 => Guarded(BatchId(processing)) /\ BatchId(processing) \notin expiring
  BY DEF GuardInv
<1>3. (\A i \in DOMAIN processing :
         effects[processing[i]] > 0 => Guarded(BatchId(processing)) /\ BatchId(processing) \notin expiring)'
  BY <1>1, <1>2 DEF Guarded
<1>4. ASSUME NEW k \in Jobs, At(k, "move")' PROVE \A i \in DOMAIN processing : effects[processing[i]] = 0
  BY <1>4 DEF GuardInv
<1> QED BY <1>3, <1>4 DEF GuardInv, AtMostOnce

\* A new message has no effects yet, and leaves the batch and its guard alone.
LEMMA PushGuards ==
    ASSUME TypeInv, GuardInv, NEW c \in Content, PushMessage(c) PROVE GuardInv'
<1>1. /\ raw' = Append(raw, c) /\ queue' = Append(queue, Len(raw) + 1) /\ Len(raw') = Len(raw) + 1
      /\ UNCHANGED <<processing, effects, started, completed, expiring, pc, status>>
      /\ Len(raw) + 1 \in Arrivals
  BY Lists, Parameters DEF PushMessage, Pushed, jobVars, Arrivals
<1>2. BatchId(processing)' = BatchId(processing)
  BY <1>1, Lists, BatchIdStable DEF BatchId
<1>3. ASSUME NEW i \in DOMAIN queue' PROVE effects[queue'[i]] = 0
  <2>1. i \in 1..(Len(queue) + 1)
    BY <1>1, <1>3, Lists
  <2>2. CASE i = Len(queue) + 1
    BY <1>1, <2>2, Lists DEF GuardInv
  <2>3. CASE i # Len(queue) + 1
    BY <1>1, <2>1, <2>3, Lists DEF GuardInv
  <2> QED BY <2>2, <2>3
<1>4. (\A i \in DOMAIN processing :
         effects[processing[i]] > 0 => Guarded(BatchId(processing)) /\ BatchId(processing) \notin expiring)'
  BY <1>1, <1>2 DEF GuardInv, Guarded
<1>5. \A k \in Arrivals : k > Len(raw') => effects[k] = 0
  BY <1>1, Lists, Parameters DEF GuardInv, Arrivals
<1> QED BY <1>1, <1>3, <1>4, <1>5 DEF GuardInv, AtMostOnce, At

\* Messages without effects join a list without effects.
LEMMA MoveGuards ==
    ASSUME TypeInv, GuardInv, NEW j \in Jobs, At(j, "move"), queue # << >>, queue' = Tail(queue),
           processing' = Append(processing, Head(queue)),
           UNCHANGED <<raw, effects, started, completed, expiring>>
    PROVE  GuardInv'
<1>1. /\ Len(queue) > 0 /\ DOMAIN queue' = 1..(Len(queue) - 1) /\ Head(queue) = queue[1]
      /\ DOMAIN processing' = 1..(Len(processing) + 1)
  BY Lists
<1>2. ASSUME NEW i \in DOMAIN processing' PROVE effects[processing'[i]] = 0
  <2>1. CASE i = Len(processing) + 1
    BY <1>1, <2>1, Lists DEF GuardInv
  <2>2. CASE i # Len(processing) + 1
    BY <1>1, <1>2, <2>2, Lists DEF GuardInv
  <2> QED BY <2>1, <2>2
<1>3. ASSUME NEW i \in DOMAIN queue' PROVE effects[queue'[i]] = 0
  <2>1. queue'[i] = queue[i + 1] /\ i + 1 \in DOMAIN queue
    BY <1>1, <1>3, Lists
  <2> QED BY <2>1 DEF GuardInv
<1> QED BY <1>2, <1>3 DEF GuardInv, AtMostOnce

\* Under a new guard the effects of a batch that has none begin.
LEMMA BeginGuards ==
    ASSUME TypeInv, LeaseInv, ClaimInv, NothingLost, GuardInv, NEW j \in Jobs,
           BeginSideEffects(j) \/ BeginFails(j)
    PROVE  GuardInv'
<1> DEFINE id == BatchId(processing)
<1>1. /\ batch[j] = processing /\ id' = id
      /\ UNCHANGED <<raw, queue, processing, completed, expiring>>
      /\ \/ started' = started
         \/ ~Guarded(id) /\ started' = started \cup {id}
  <2>1. batch[j] = processing
    BY DEF BeginSideEffects, BeginFails, ClaimInv, ImmutableBatch
  <2>2. UNCHANGED <<raw, queue, processing, completed, expiring>>
    BY DEF BeginSideEffects, BeginFails, historyVars
  <2>3. id' = id
    BY <2>2 DEF BatchId
  <2>4. \/ started' = started
        \/ ~Guarded(id) /\ started' = started \cup {id}
    BY <2>1 DEF BeginSideEffects, BeginFails
  <2> QED BY <2>1, <2>2, <2>3, <2>4
<1>2. \A k \in Jobs : ~At(k, "move")'
  <2>1. pc'[j] # "move"
    BY DEF TypeInv, TypeOK, JobType, BeginSideEffects, BeginFails, Goto, Throw
  <2> QED BY <2>1, TurnSteps, NobodyClaims
<1>3. expiring' \subseteq started' \cup completed'
  BY <1>1 DEF GuardInv
<1>4. CASE effects' = effects
  <2>1. (\A i \in DOMAIN processing : effects[processing[i]] > 0 => Guarded(id) /\ id \notin expiring)'
    BY <1>1, <1>4 DEF GuardInv, Guarded
  <2> QED BY <1>1, <1>2, <1>3, <1>4, <2>1 DEF GuardInv, AtMostOnce
<1>5. CASE /\ ~Guarded(id) /\ started' = started \cup {id}
           /\ effects' = [k \in Arrivals |->
                            IF k \in Elements(processing) THEN effects[k] + 1 ELSE effects[k]]
  <2>1. \A k \in Elements(processing) : effects[k] = 0
    BY <1>5, Effects DEF GuardInv, Elements
  <2>2. \A k \in Arrivals : effects'[k] =< 1
    BY <1>5, <2>1, Effects DEF GuardInv, AtMostOnce
  <2>3. Guarded(id)' /\ id \notin expiring'
    BY <1>1, <1>5 DEF Guarded, GuardInv
  <2>4. ASSUME NEW i \in DOMAIN queue PROVE effects'[queue[i]] = 0
    <3>1. queue[i] \notin Elements(processing)
      BY Lists DEF NothingLost, Elements
    <3> QED BY <1>5, <3>1, Effects DEF GuardInv
  <2>5. ASSUME NEW k \in Arrivals, k > Len(raw) PROVE effects'[k] = 0
    <3>1. k \notin Elements(processing)
      BY <2>5, Effects, Lists DEF Elements, Delivered
    <3> QED BY <1>5, <2>5, <3>1 DEF GuardInv
  <2> QED BY <1>1, <1>2, <1>3, <2>2, <2>3, <2>4, <2>5 DEF GuardInv, AtMostOnce
<1> QED BY <1>1, <1>4, <1>5 DEF BeginSideEffects, BeginFails, historyVars

\* Completing a batch changes the value of its guard and drops its TTL.
LEMMA MarkGuards ==
    ASSUME TypeInv, LeaseInv, ClaimInv, GuardInv, NEW j \in Jobs, MarkCompleted(j) \/ MarkFails(j)
    PROVE  GuardInv'
<1> DEFINE id == BatchId(processing)
<1>1. /\ batch[j] = processing /\ id' = id
      /\ UNCHANGED <<raw, queue, processing, effects>>
      /\ \/ UNCHANGED <<started, completed, expiring>>
         \/ completed' = completed \cup {id} /\ started' = started \ {id} /\ expiring' = expiring \ {id}
  BY DEF MarkCompleted, MarkFails, SetCompleted, historyVars, ClaimInv, ImmutableBatch, BatchId
<1>2. \A k \in Jobs : ~At(k, "move")'
  <2>1. pc'[j] # "move"
    BY DEF TypeInv, TypeOK, JobType, MarkCompleted, MarkFails, Goto, Throw
  <2> QED BY <2>1, TurnSteps, NobodyClaims
<1>3. expiring' \subseteq started' \cup completed'
  BY <1>1 DEF GuardInv
<1>4. (\A i \in DOMAIN processing : effects[processing[i]] > 0 => Guarded(id) /\ id \notin expiring)'
  BY <1>1 DEF GuardInv, Guarded
<1> QED BY <1>1, <1>2, <1>3, <1>4 DEF GuardInv, AtMostOnce

\* The finalizing script empties the list and bounds the guard it has.
LEMMA FinalizeGuards ==
    ASSUME TypeInv, LeaseInv, GuardInv, NEW j \in Jobs, Finalize(j) \/ FinalizeFails(j)
    PROVE  GuardInv'
<1>1. /\ UNCHANGED <<raw, queue, effects, started, completed>>
      /\ \/ UNCHANGED <<processing, expiring>>
         \/ /\ processing' = << >>
            /\ expiring' = expiring \cup ({BatchId(batch[j])} \cap (started \cup completed))
  BY DEF Finalize, FinalizeFails, DeleteProcessing
<1>2. \A k \in Jobs : ~At(k, "move")'
  <2>1. pc'[j] # "move"
    BY DEF TypeInv, TypeOK, JobType, Finalize, FinalizeFails, Goto, Leave
  <2> QED BY <2>1, TurnSteps, NobodyClaims
<1>3. CASE UNCHANGED <<processing, expiring>>
  BY <1>1, <1>2, <1>3, SameGuards
<1>4. CASE /\ processing' = << >>
           /\ expiring' = expiring \cup ({BatchId(batch[j])} \cap (started \cup completed))
  BY <1>1, <1>2, <1>4 DEF GuardInv, AtMostOnce
<1> QED BY <1>1, <1>3, <1>4

\* Only guards of finalized batches expire.
LEMMA ExpireGuards ==
    ASSUME TypeInv, GuardInv, GuardExpires PROVE GuardInv'
<1>1. PICK id \in expiring :
         /\ started' = started \ {id} /\ completed' = completed \ {id} /\ expiring' = expiring \ {id}
  BY DEF GuardExpires, BoundedGuards
<1>2. /\ UNCHANGED <<raw, queue, processing, effects, pc, status>>
      /\ BatchId(processing)' = BatchId(processing)
  BY DEF GuardExpires, historyVars, jobVars, BatchId
<1>3. (\A i \in DOMAIN processing :
         effects[processing[i]] > 0 => Guarded(BatchId(processing)) /\ BatchId(processing) \notin expiring)'
  BY <1>1, <1>2 DEF GuardInv, Guarded
<1> QED BY <1>1, <1>2, <1>3 DEF GuardInv, AtMostOnce, At

\* The steps that touch no list, no guard and no effect.
GuardsAlone ==
    /\ UNCHANGED <<raw, queue, processing, effects, started, completed, expiring>>
    /\ \A k \in Jobs : At(k, "move")' => At(k, "move") \/ processing = << >>

\* Most awaits are such steps.
LEMMA GuardsAloneSteps ==
    ASSUME TypeInv, NEW j \in Jobs,
           \/ StartRun(j) \/ AcquireLock(j) \/ Recover(j) \/ Inspect(j) \/ InnerReturns(j)
           \/ Work(j) \/ HandleError(j) \/ StoreQuarantine(j) \/ ReleaseOrContinue(j) \/ Unwind(j)
           \/ InnerRaises(j) \/ WorkRaises(j) \/ Crash(j) \/ \E kind \in FaultKinds : Cancel(j, kind)
           \/ AcquireLockFails(j) \/ InspectFails(j) \/ StoreFails(j) \/ ReleaseFails(j)
    PROVE  GuardsAlone
<1> USE DEF TypeInv, TypeOK, JobType, GuardsAlone, At, Goto, Leave, Throw, Stop, redisVars,
            historyVars, othersOfJob
<1>1. CASE StartRun(j) \/ AcquireLock(j) \/ AcquireLockFails(j)
  BY <1>1 DEF StartRun, Startable, AcquireLock, AcquireLockFails, Contend
<1>2. CASE Recover(j)
  BY <1>2 DEF Recover, Recovered
<1>3. CASE Inspect(j) \/ InspectFails(j)
  BY <1>3 DEF Inspect, InspectFails
<1>4. CASE InnerReturns(j) \/ InnerRaises(j) \/ Work(j) \/ WorkRaises(j)
  BY <1>4 DEF InnerReturns, InnerRaises, Work, WorkRaises
<1>5. CASE HandleError(j) \/ StoreQuarantine(j) \/ StoreFails(j)
  BY <1>5 DEF HandleError, StoreQuarantine, StoreFails, RaiseRetry
<1>6. CASE ReleaseOrContinue(j) \/ ReleaseFails(j) \/ Unwind(j)
  BY <1>6 DEF ReleaseOrContinue, ReleaseFails, Unwind
<1>7. CASE Crash(j) \/ \E kind \in FaultKinds : Cancel(j, kind)
  BY <1>7 DEF Crash, Cancel, RunAgain
<1> QED BY <1>1, <1>2, <1>3, <1>4, <1>5, <1>6, <1>7

\* Every step keeps the guards.
LEMMA NextGuards ==
    TypeInv /\ LeaseInv /\ ClaimInv /\ NothingLost /\ GuardInv /\ [Next]_vars => GuardInv'
<1> SUFFICES ASSUME TypeInv, LeaseInv, ClaimInv, NothingLost, GuardInv, [Next]_vars PROVE GuardInv'
  OBVIOUS
<1>1. CASE GuardsAlone
  BY <1>1, SameGuards DEF GuardsAlone
<1>2. ASSUME NEW j \in Jobs, StartRun(j) \/ Progress(j) \/ Failure(j) PROVE GuardInv'
  <2>1. CASE MoveOne(j) \/ ClaimFails(j)
    <3>1. CASE /\ At(j, "move") /\ queue # << >> /\ queue' = Tail(queue)
               /\ processing' = Append(processing, Head(queue))
      BY <2>1, <3>1, MoveGuards DEF MoveOne, ClaimFails, historyVars
    <3>2. CASE UNCHANGED <<queue, processing>>
      <4>1. \A k \in Jobs : At(k, "move")' => At(k, "move")
        BY <2>1, <3>2 DEF TypeInv, TypeOK, JobType, MoveOne, ClaimFails, Leave, Goto, At, othersOfJob
      <4> QED BY <2>1, <3>2, <4>1, SameGuards DEF MoveOne, ClaimFails, historyVars
    <3> QED BY <2>1, <3>1, <3>2 DEF MoveOne, ClaimFails, At
  <2>2. CASE BeginSideEffects(j) \/ BeginFails(j)
    BY <2>2, BeginGuards
  <2>3. CASE MarkCompleted(j) \/ MarkFails(j)
    BY <2>3, MarkGuards
  <2>4. CASE Finalize(j) \/ FinalizeFails(j)
    BY <2>4, FinalizeGuards
  <2> QED BY <1>1, <1>2, <2>1, <2>2, <2>3, <2>4, GuardsAloneSteps DEF Progress, Failure, FaultKinds
<1>3. CASE EnqueueJob \/ EnqueueFails \/ WindowPasses \/ Tick \/ UNCHANGED vars
  <2>1. GuardsAlone
    BY <1>3 DEF TypeInv, TypeOK, JobType, EnqueueJob, EnqueueFails, WindowPasses, Tick, vars,
               redisVars, historyVars, jobVars, GuardsAlone, At
  <2> QED BY <2>1, <1>1
<1>4. CASE GuardExpires
  BY <1>4, ExpireGuards
<1>5. ASSUME NEW c \in Content, PushMessage(c) PROVE GuardInv'
  BY <1>5, PushGuards
<1> QED BY <1>2, <1>3, <1>4, <1>5 DEF Next

\* The guard outlives the processing list it protects.
THEOREM GuardsHold == Spec => [](TypeInv /\ LeaseInv /\ ClaimInv /\ NothingLost /\ GuardInv)
<1>1. Init => GuardInv
  BY Parameters DEF Init, GuardInv, AtMostOnce, At
<1>2. (TypeInv /\ LeaseInv /\ ClaimInv) /\ NothingLost /\ GuardInv /\ [Next]_vars => GuardInv'
  BY NextGuards
<1> QED BY <1>1, <1>2, ClaimHolds, NothingLostHolds, PTL DEF Spec

\* The LLM and provider side effects of an accepted message begin at most
\* once, through every retry, kill, redelivery and guard expiry.
THEOREM AtMostOnceHolds == Spec => []AtMostOnce
<1>1. GuardInv => AtMostOnce
  BY DEF GuardInv
<1> QED BY <1>1, GuardsHold, PTL

-----------------------------------------------------------------------------
(* Whole batches, in order.                                                *)

\* The one step that begins side effects, for the messages of the list.
LEMMA EffectsSteps ==
    ASSUME TypeInv, ClaimInv, [Next]_vars
    PROVE  \/ effects' = effects
           \/ \E j \in Jobs :
                 /\ BeginSideEffects(j) /\ ~Guarded(BatchId(processing)) /\ batch[j] = processing
                 /\ processing # << >> /\ UNCHANGED <<raw, queue, processing, outcome>>
                 /\ effects' = [k \in Arrivals |->
                      IF k \in Elements(processing) THEN effects[k] + 1 ELSE effects[k]]
<1>1. ASSUME NEW j \in Jobs, BeginSideEffects(j), effects' # effects
      PROVE  /\ BeginSideEffects(j) /\ ~Guarded(BatchId(processing)) /\ batch[j] = processing
             /\ processing # << >> /\ UNCHANGED <<raw, queue, processing, outcome>>
             /\ effects' = [k \in Arrivals |->
                  IF k \in Elements(processing) THEN effects[k] + 1 ELSE effects[k]]
  <2>1. batch[j] = processing /\ processing # << >>
    BY <1>1 DEF BeginSideEffects, ClaimInv, ImmutableBatch
  <2>2. /\ ~Guarded(BatchId(batch[j]))
        /\ effects' = [k \in Arrivals |->
             IF k \in Elements(batch[j]) THEN effects[k] + 1 ELSE effects[k]]
    BY <1>1 DEF BeginSideEffects
  <2> QED BY <1>1, <2>1, <2>2 DEF BeginSideEffects
<1>2. ASSUME NEW j \in Jobs, StartRun(j) \/ Progress(j) \/ Failure(j)
      PROVE  effects' = effects \/ BeginSideEffects(j)
  <2>1. CASE GuardsAlone
    BY <2>1 DEF GuardsAlone
  <2>2. CASE MoveOne(j) \/ ClaimFails(j) \/ BeginFails(j) \/ MarkCompleted(j) \/ MarkFails(j)
             \/ Finalize(j) \/ FinalizeFails(j)
    BY <2>2 DEF MoveOne, ClaimFails, BeginFails, MarkCompleted, MarkFails, Finalize, FinalizeFails,
                historyVars
  <2> QED BY <1>2, <2>1, <2>2, GuardsAloneSteps DEF Progress, Failure, FaultKinds
<1>3. CASE \/ \E c \in Content : PushMessage(c)
           \/ EnqueueJob \/ EnqueueFails \/ WindowPasses \/ Tick \/ GuardExpires \/ UNCHANGED vars
  BY <1>3 DEF PushMessage, EnqueueJob, EnqueueFails, WindowPasses, Tick, GuardExpires, vars, historyVars
<1> QED BY <1>1, <1>2, <1>3 DEF Next

\* Steps of the list: it stays, grows by a claim, or is emptied.
LEMMA ListSteps ==
    ASSUME TypeInv, [Next]_vars
    PROVE  \/ processing' = processing
           \/ processing' = << >>
           \/ \E j \in Jobs : /\ At(j, "move") /\ queue # << >>
                              /\ processing' = Append(processing, Head(queue)) /\ effects' = effects
<1>1. ASSUME NEW j \in Jobs, StartRun(j) \/ Progress(j) \/ Failure(j)
      PROVE  \/ processing' = processing
             \/ processing' = << >>
             \/ /\ At(j, "move") /\ queue # << >>
                /\ processing' = Append(processing, Head(queue)) /\ effects' = effects
  <2>1. CASE GuardsAlone
    BY <2>1 DEF GuardsAlone
  <2>2. CASE MoveOne(j) \/ ClaimFails(j)
    BY <2>2 DEF MoveOne, ClaimFails, historyVars, At
  <2>3. CASE BeginSideEffects(j) \/ BeginFails(j) \/ MarkCompleted(j) \/ MarkFails(j)
             \/ Finalize(j) \/ FinalizeFails(j)
    BY <2>3 DEF BeginSideEffects, BeginFails, MarkCompleted, MarkFails, Finalize, FinalizeFails,
                DeleteProcessing
  <2> QED BY <1>1, <2>1, <2>2, <2>3, GuardsAloneSteps DEF Progress, Failure, FaultKinds
<1>2. CASE \/ \E c \in Content : PushMessage(c)
           \/ EnqueueJob \/ EnqueueFails \/ WindowPasses \/ Tick \/ GuardExpires \/ UNCHANGED vars
  BY <1>2 DEF PushMessage, EnqueueJob, EnqueueFails, WindowPasses, Tick, GuardExpires, vars, redisVars
<1> QED BY <1>1, <1>2 DEF Next

\* A batch is claimed without effects, and its effects begin together.
LEMMA NextWhole ==
    TypeInv /\ ClaimInv /\ GuardInv /\ WholeInv /\ [Next]_vars => WholeInv'
<1> SUFFICES ASSUME TypeInv, ClaimInv, GuardInv, WholeInv, [Next]_vars PROVE WholeInv'
  OBVIOUS
<1>1. CASE processing' = << >>
  BY <1>1 DEF WholeInv
<1>2. ASSUME NEW j \in Jobs, At(j, "move"), queue # << >>, effects' = effects,
             processing' = Append(processing, Head(queue))
      PROVE  WholeInv'
  <2>1. Len(queue) > 0 /\ Head(queue) = queue[1] /\ DOMAIN processing' = 1..(Len(processing) + 1)
    BY <1>2, Lists
  <2>2. ASSUME NEW i \in DOMAIN processing' PROVE effects[processing'[i]] = 0
    <3>1. CASE i = Len(processing) + 1
      BY <1>2, <2>1, <3>1, Lists DEF GuardInv
    <3>2. CASE i # Len(processing) + 1
      BY <1>2, <2>1, <2>2, <3>2, Lists DEF GuardInv
    <3> QED BY <3>1, <3>2
  <2> QED BY <1>2, <2>2 DEF WholeInv
<1>3. CASE processing' = processing /\ effects' = effects
  BY <1>3 DEF WholeInv
<1>4. ASSUME processing' = processing,
             effects' = [k \in Arrivals |->
               IF k \in Elements(processing) THEN effects[k] + 1 ELSE effects[k]]
      PROVE  WholeInv'
  <2>1. \A i \in DOMAIN processing : effects'[processing[i]] = effects[processing[i]] + 1
    BY <1>4, Effects DEF Elements
  <2> QED BY <1>4, <2>1 DEF WholeInv
<1> QED BY <1>1, <1>2, <1>3, <1>4, EffectsSteps, ListSteps

\* Side effects begin for whole batches.
THEOREM WholeBatches == Spec => []WholeInv
<1>1. Init => WholeInv
  BY DEF Init, WholeInv
<1>2. (TypeInv /\ LeaseInv /\ ClaimInv /\ NothingLost /\ GuardInv) /\ WholeInv /\ [Next]_vars => WholeInv'
  BY NextWhole
<1> QED BY <1>1, <1>2, GuardsHold, PTL DEF Spec

\* The list holds the oldest messages that are not settled.
LEMMA ListIsOldest ==
    ASSUME TypeInv, NothingLost, NEW k \in Arrivals
    PROVE  /\ k \in Elements(processing) <=> Settled < k /\ k =< Settled + Len(processing)
           /\ outcome[k] = "pending" <=> k > Settled
           /\ k \in Elements(queue) <=> Settled + Len(processing) < k /\ k =< Len(raw)
<1>1. k \in Int
  BY Parameters DEF Arrivals
<1>2. k \in Elements(processing) <=> \E i \in 1..Len(processing) : k = Settled + i
  BY Lists DEF Elements, NothingLost
<1>3. Settled < k /\ k =< Settled + Len(processing) => k - Settled \in 1..Len(processing)
  BY <1>1, Lists
<1>4. k \in Elements(queue) <=> \E i \in 1..Len(queue) : k = Settled + Len(processing) + i
  BY Lists DEF Elements, NothingLost
<1>5. Settled + Len(processing) < k /\ k =< Len(raw) => k - (Settled + Len(processing)) \in 1..Len(queue)
  BY <1>1, Lists DEF Settled
<1>6. outcome[k] = "pending" <=> k > Settled
  BY <1>1, Lists DEF NothingLost
<1>7. Settled + Len(processing) + Len(queue) = Len(raw)
  BY Lists DEF Settled
<1>8. k \in Elements(processing) <=> Settled < k /\ k =< Settled + Len(processing)
  BY <1>1, <1>2, <1>3, Lists
<1>9. k \in Elements(queue) <=> Settled + Len(processing) < k /\ k =< Len(raw)
  BY <1>1, <1>4, <1>5, <1>7, Lists
<1> QED BY <1>6, <1>8, <1>9

\* A customer is never answered about a later message first.
THEOREM AnswersInOrderHolds == Spec => AnswersInOrder
<1>1. ASSUME TypeInv, ClaimInv, NothingLost, [Next]_vars
      PROVE  \A k \in Arrivals : effects'[k] # effects[k] =>
                /\ outcome[k] = "pending"
                /\ \A l \in Arrivals : l < k /\ outcome[l] = "pending" => effects'[l] # effects[l]
  <2> SUFFICES ASSUME effects' = [k \in Arrivals |->
                        IF k \in Elements(processing) THEN effects[k] + 1 ELSE effects[k]],
                      NEW k \in Arrivals, effects'[k] # effects[k]
               PROVE  /\ outcome[k] = "pending"
                      /\ \A l \in Arrivals : l < k /\ outcome[l] = "pending" => effects'[l] # effects[l]
    BY <1>1, EffectsSteps
  <2>1. k \in Elements(processing) /\ k \in Int
    BY Parameters DEF Arrivals
  <2>2. outcome[k] = "pending"
    BY <1>1, <2>1, ListIsOldest
  <2>3. ASSUME NEW l \in Arrivals, l < k, outcome[l] = "pending" PROVE effects'[l] # effects[l]
    <3>1. l \in Int
      BY Parameters DEF Arrivals
    <3>2. l \in Elements(processing)
      BY <1>1, <2>1, <2>3, <3>1, ListIsOldest, Lists
    <3>3. effects[l] \in Nat
      BY <1>1, Effects
    <3> QED BY <3>2, <3>3
  <2> QED BY <2>2, <2>3
<1>2. (TypeInv /\ LeaseInv /\ ClaimInv /\ NothingLost /\ GuardInv) /\ [Next]_vars =>
        [\A k \in Arrivals : effects'[k] # effects[k] =>
                /\ outcome[k] = "pending"
                /\ \A l \in Arrivals : l < k /\ outcome[l] = "pending" => effects'[l] # effects[l]]_vars
  BY <1>1
<1> QED BY <1>2, GuardsHold, PTL DEF Spec, AnswersInOrder

-----------------------------------------------------------------------------
(* A failed batch leaves Redis only after its copy is stored.              *)

\* CleanInv, of one job.
CleanOf(j) ==
    error[j] # "none" =>
        At(j, "except") \/ At(j, "quarantine") \/ At(j, "finalize") \/ At(j, "unwind")

\* A step of a job leaves the other jobs as they are.
OnlyJob(j) ==
    /\ created' = created /\ (status[j] = "absent" => status'[j] = "absent")
    /\ \A k \in Jobs : k # j => /\ error'[k] = error[k] /\ status'[k] = status[k] /\ pc'[k] = pc[k]
                                /\ batch'[k] = batch[k]

\* Starting and ending, and the lock: the errors of a run end with it.
LEMMA WorkerClean ==
    ASSUME TypeInv, CleanInv, NEW j \in Jobs,
           \/ StartRun(j) \/ Crash(j) \/ \E kind \in FaultKinds : Cancel(j, kind)
           \/ AcquireLock(j) \/ AcquireLockFails(j)
           \/ ReleaseOrContinue(j) \/ ReleaseFails(j) \/ Unwind(j)
    PROVE  OnlyJob(j) /\ CleanOf(j)'
<1> USE DEF TypeInv, TypeOK, JobType, CleanInv, CleanOf, OnlyJob, At, Goto, Leave, Stop, othersOfJob
<1>1. CASE StartRun(j)
  BY <1>1 DEF StartRun, Startable
<1>2. CASE Crash(j)
  BY <1>2 DEF Crash
<1>3. ASSUME NEW kind \in FaultKinds, Cancel(j, kind) PROVE OnlyJob(j) /\ CleanOf(j)'
  BY <1>3 DEF Cancel, RunAgain
<1>4. CASE AcquireLock(j) \/ AcquireLockFails(j)
  BY <1>4 DEF AcquireLock, AcquireLockFails, Contend
<1>5. CASE ReleaseOrContinue(j) \/ ReleaseFails(j) \/ Unwind(j)
  BY <1>5 DEF ReleaseOrContinue, ReleaseFails, Unwind
<1> QED BY <1>1, <1>2, <1>3, <1>4, <1>5

\* In its turn a job gets an error only in its except block.
LEMMA TurnClean ==
    ASSUME TypeInv, CleanInv, NEW j \in Jobs,
           \/ Recover(j) \/ MoveOne(j) \/ ClaimFails(j) \/ Inspect(j) \/ InspectFails(j)
           \/ InnerReturns(j) \/ InnerRaises(j) \/ BeginSideEffects(j) \/ BeginFails(j)
           \/ Work(j) \/ WorkRaises(j) \/ MarkCompleted(j) \/ MarkFails(j)
           \/ HandleError(j) \/ StoreQuarantine(j) \/ StoreFails(j)
           \/ Finalize(j) \/ FinalizeFails(j)
    PROVE  OnlyJob(j) /\ CleanOf(j)'
<1> USE DEF TypeInv, TypeOK, JobType, CleanInv, CleanOf, OnlyJob, At, Goto, Leave, Throw, othersOfJob
<1>1. CASE Recover(j) \/ MoveOne(j) \/ ClaimFails(j)
  BY <1>1 DEF Recover, MoveOne, ClaimFails
<1>2. CASE Inspect(j) \/ InspectFails(j)
  BY <1>2 DEF Inspect, InspectFails
<1>3. CASE InnerReturns(j) \/ InnerRaises(j) \/ Work(j) \/ WorkRaises(j)
  BY <1>3 DEF InnerReturns, InnerRaises, Work, WorkRaises
<1>4. CASE BeginSideEffects(j) \/ BeginFails(j)
  BY <1>4 DEF BeginSideEffects, BeginFails
<1>5. CASE MarkCompleted(j) \/ MarkFails(j)
  BY <1>5 DEF MarkCompleted, MarkFails
<1>6. CASE HandleError(j) \/ StoreQuarantine(j) \/ StoreFails(j)
  BY <1>6 DEF HandleError, StoreQuarantine, StoreFails, RaiseRetry
<1>7. CASE Finalize(j) \/ FinalizeFails(j)
  BY <1>7 DEF Finalize, FinalizeFails
<1> QED BY <1>1, <1>2, <1>3, <1>4, <1>5, <1>6, <1>7

\* The steps of jobs, named once.
JobStep(j) == StartRun(j) \/ Progress(j) \/ Failure(j)

\* Both together.
LEMMA JobStepClean ==
    ASSUME TypeInv, CleanInv, NEW j \in Jobs, JobStep(j) PROVE OnlyJob(j) /\ CleanOf(j)'
  BY WorkerClean, TurnClean DEF JobStep, Progress, Failure, FaultKinds

\* Every step keeps the errors where they belong.
LEMMA NextClean == TypeInv /\ CleanInv /\ [Next]_vars => CleanInv'
<1> SUFFICES ASSUME TypeInv, CleanInv, [Next]_vars PROVE CleanInv'
  OBVIOUS
<1>1. ASSUME NEW j \in Jobs, JobStep(j) PROVE CleanInv'
  <2>1. OnlyJob(j) /\ CleanOf(j)'
    BY <1>1, JobStepClean
  <2>2. ASSUME NEW k \in Jobs PROVE (k > created => status[k] = "absent")'
    BY <2>1 DEF OnlyJob, CleanInv
  <2>3. ASSUME NEW k \in Jobs PROVE CleanOf(k)'
    BY <2>1 DEF OnlyJob, CleanOf, CleanInv, At
  <2> QED BY <2>2, <2>3 DEF CleanInv, CleanOf
<1>2. CASE EnqueueJob
  <2>1. UNCHANGED <<error, pc>> /\ created \in Nat
    BY <1>2 DEF EnqueueJob, TypeInv, TypeOK, JobType
  <2>2. CASE UNCHANGED <<created, status>>
    BY <2>1, <2>2 DEF CleanInv, At
  <2>3. CASE created' = created + 1 /\ status' = [status EXCEPT ![created + 1] = "queued"]
    <3>1. \A k \in Jobs : k # created + 1 => status'[k] = status[k]
      BY <2>3 DEF TypeInv, TypeOK, JobType
    <3>2. \A k \in Jobs : k > created + 1 => status'[k] = "absent"
      BY <2>1, <3>1 DEF CleanInv, Jobs
    <3>3. \A k \in Jobs : k = created + 1 => status[k] = "absent" /\ error[k] = "none"
      BY <2>1 DEF CleanInv, At
    <3> QED BY <2>1, <2>3, <3>1, <3>2, <3>3 DEF CleanInv, At
  <2> QED BY <1>2, <2>2, <2>3 DEF EnqueueJob
<1>3. CASE \/ \E c \in Content : PushMessage(c)
           \/ EnqueueFails \/ WindowPasses \/ Tick \/ GuardExpires \/ UNCHANGED vars
  <2>1. UNCHANGED <<created, status, pc, error>>
    BY <1>3 DEF PushMessage, EnqueueFails, WindowPasses, Tick, GuardExpires, vars, jobVars
  <2> QED BY <2>1 DEF CleanInv, At
<1> QED BY <1>1, <1>2, <1>3 DEF Next, JobStep

\* A job in its finalizing step has stored the copy of a failed batch.
StoredOf(j) == At(j, "finalize") /\ error[j] # "none" => BatchId(batch[j]) \in quarantine

\* Copies are added, by the step that stores one, and never removed.
LEMMA CopySteps ==
    ASSUME [Next]_vars PROVE quarantine \subseteq quarantine'
<1>1. ASSUME NEW j \in Jobs, JobStep(j) PROVE quarantine \subseteq quarantine'
  <2> USE DEF redisVars
  <2>1. CASE Progress(j)
    BY <2>1 DEF Progress, AcquireLock, Recover, MoveOne, Inspect, InnerReturns, BeginSideEffects,
                Work, MarkCompleted, HandleError, StoreQuarantine, Finalize, ReleaseOrContinue, Unwind
  <2>2. CASE Failure(j) \/ StartRun(j)
    BY <2>2 DEF Failure, InnerRaises, WorkRaises, Crash, Cancel, AcquireLockFails, ClaimFails,
                InspectFails, BeginFails, MarkFails, StoreFails, FinalizeFails, ReleaseFails, StartRun
  <2> QED BY <1>1, <2>1, <2>2 DEF JobStep
<1>2. CASE \/ \E c \in Content : PushMessage(c)
           \/ EnqueueJob \/ EnqueueFails \/ WindowPasses \/ Tick \/ GuardExpires \/ UNCHANGED vars
  BY <1>2 DEF PushMessage, EnqueueJob, EnqueueFails, WindowPasses, Tick, GuardExpires, vars, redisVars
<1> QED BY <1>1, <1>2 DEF Next, JobStep

\* Only the webhook adds a message.
LEMMA JobStepKeepsRaw ==
    ASSUME NEW j \in Jobs, JobStep(j) PROVE raw' = raw
<1> USE DEF historyVars
<1>1. CASE Progress(j)
  BY <1>1 DEF Progress, AcquireLock, Recover, MoveOne, Inspect, InnerReturns, BeginSideEffects,
              Work, MarkCompleted, HandleError, StoreQuarantine, Finalize, ReleaseOrContinue, Unwind
<1>2. CASE Failure(j) \/ StartRun(j)
  BY <1>2 DEF Failure, InnerRaises, WorkRaises, Crash, Cancel, AcquireLockFails, ClaimFails,
              InspectFails, BeginFails, MarkFails, StoreFails, FinalizeFails, ReleaseFails, StartRun
<1> QED BY <1>1, <1>2 DEF JobStep

\* The payloads of delivered messages do not change.
LEMMA RawSteps ==
    ASSUME [Next]_vars
    PROVE  raw' = raw \/ \E c \in Content : raw' = Append(raw, c)
<1>1. CASE \/ \E c \in Content : PushMessage(c)
           \/ EnqueueJob \/ EnqueueFails \/ WindowPasses \/ Tick \/ GuardExpires \/ UNCHANGED vars
  BY <1>1 DEF PushMessage, EnqueueJob, EnqueueFails, WindowPasses, Tick, GuardExpires, vars, historyVars
<1> QED BY <1>1, JobStepKeepsRaw DEF Next, JobStep

\* So the identifiers of batches and the payloads of messages are stable.
LEMMA Identities ==
    ASSUME TypeInv, [Next]_vars
    PROVE  /\ \A b \in Seq(Delivered) : BatchId(b)' = BatchId(b)
           /\ \A k \in Delivered : raw'[k] = raw[k]
<1>1. CASE raw' = raw
  BY <1>1 DEF BatchId
<1>2. ASSUME NEW c \in Content, raw' = Append(raw, c)
      PROVE  /\ \A b \in Seq(Delivered) : BatchId(b)' = BatchId(b)
             /\ \A k \in Delivered : raw'[k] = raw[k]
  <2>1. \A b \in Seq(Delivered) : BatchId(b)' = BatchId(b)
    <3> TAKE b \in Seq(Delivered)
    <3>1. BatchId(b)' = [i \in DOMAIN b |-> Append(raw, c)[b[i]]]
      BY <1>2 DEF BatchId
    <3> QED BY <3>1, BatchIdStable, Lists
  <2>2. \A k \in Delivered : raw'[k] = raw[k]
    BY <1>2, Lists DEF Delivered
  <2> QED BY <2>1, <2>2
<1> QED BY <1>1, <1>2, RawSteps

\* Only the finalizing script changes outcomes, of the batch of its job.
LEMMA OutcomeSteps ==
    ASSUME TypeInv, ClaimInv, [Next]_vars
    PROVE  \/ outcome' = outcome
           \/ \E j \in Jobs : /\ At(j, "finalize") /\ batch[j] = processing /\ processing # << >>
                              /\ DeleteProcessing(j) /\ UNCHANGED <<raw, effects, queue>>
<1>1. ASSUME NEW j \in Jobs, Finalize(j) \/ FinalizeFails(j), outcome' # outcome
      PROVE  /\ At(j, "finalize") /\ batch[j] = processing /\ processing # << >>
             /\ DeleteProcessing(j) /\ UNCHANGED <<raw, effects, queue>>
  <2>1. At(j, "finalize") /\ DeleteProcessing(j) /\ UNCHANGED <<raw, effects, queue>>
    BY <1>1 DEF Finalize, FinalizeFails
  <2> QED BY <2>1 DEF ClaimInv, ImmutableBatch
<1>2. ASSUME NEW j \in Jobs, JobStep(j)
      PROVE  outcome' = outcome \/ Finalize(j) \/ FinalizeFails(j)
  <2>1. CASE MoveOne(j) \/ ClaimFails(j)
    BY <2>1 DEF MoveOne, ClaimFails, historyVars
  <2>2. CASE WorksOn(j)
    BY <2>2 DEF WorksOn
  <2> QED BY <1>2, <2>1, <2>2, WorkingSteps, OutsideSteps DEF JobStep, Progress, Failure, FaultKinds
<1>3. CASE \/ \E c \in Content : PushMessage(c)
           \/ EnqueueJob \/ EnqueueFails \/ WindowPasses \/ Tick \/ GuardExpires \/ UNCHANGED vars
  BY <1>3 DEF PushMessage, EnqueueJob, EnqueueFails, WindowPasses, Tick, GuardExpires, vars, historyVars
<1> QED BY <1>1, <1>2, <1>3 DEF Next, JobStep

\* The finalizing step is reached with an error only past the quarantine.
LEMMA ReachFinalize ==
    ASSUME TypeInv, CleanInv, NEW j \in Jobs, JobStep(j), At(j, "finalize")', error'[j] # "none"
    PROVE  StoreQuarantine(j)
<1> USE DEF TypeInv, TypeOK, JobType, CleanInv, At, Goto, Leave, Throw, Stop, othersOfJob
<1>1. CASE StartRun(j) \/ Crash(j) \/ \E kind \in FaultKinds : Cancel(j, kind)
  BY <1>1 DEF StartRun, Crash, Cancel, RunAgain
<1>2. CASE AcquireLock(j) \/ AcquireLockFails(j) \/ ReleaseOrContinue(j) \/ ReleaseFails(j) \/ Unwind(j)
  BY <1>2 DEF AcquireLock, AcquireLockFails, Contend, ReleaseOrContinue, ReleaseFails, Unwind
<1>3. CASE Recover(j) \/ MoveOne(j) \/ ClaimFails(j)
  BY <1>3 DEF Recover, MoveOne, ClaimFails
<1>4. CASE Inspect(j) \/ InspectFails(j)
  BY <1>4 DEF Inspect, InspectFails
<1>5. CASE InnerReturns(j) \/ InnerRaises(j) \/ Work(j) \/ WorkRaises(j)
  BY <1>5 DEF InnerReturns, InnerRaises, Work, WorkRaises
<1>6. CASE BeginSideEffects(j) \/ BeginFails(j)
  BY <1>6 DEF BeginSideEffects, BeginFails
<1>7. CASE MarkCompleted(j) \/ MarkFails(j)
  BY <1>7 DEF MarkCompleted, MarkFails
<1>8. CASE HandleError(j) \/ StoreFails(j)
  BY <1>8 DEF HandleError, StoreFails, RaiseRetry
<1>9. CASE Finalize(j) \/ FinalizeFails(j)
  BY <1>9 DEF Finalize, FinalizeFails
<1> QED BY <1>1, <1>2, <1>3, <1>4, <1>5, <1>6, <1>7, <1>8, <1>9 DEF JobStep, Progress, Failure, FaultKinds

\* Every step keeps the stored copy of the job that is to finalize.
LEMMA NextStored ==
    ASSUME TypeInv, CleanInv, QuarantineInv, [Next]_vars, NEW j \in Jobs PROVE StoredOf(j)'
<1>1. CASE /\ At(j, "finalize")' => At(j, "finalize")
           /\ error'[j] = error[j] /\ batch'[j] = batch[j]
  <2>1. BatchId(batch[j])' = BatchId(batch[j])
    <3>1. batch[j] \in Seq(Delivered)
      BY DEF TypeInv, TypeOK, JobType
    <3>2. CASE raw' = raw
      BY <1>1, <3>2 DEF BatchId
    <3>3. ASSUME NEW c \in Content, raw' = Append(raw, c) PROVE BatchId(batch[j])' = BatchId(batch[j])
      <4>1. BatchId(batch[j])' = [i \in DOMAIN batch[j] |-> Append(raw, c)[batch[j][i]]]
        BY <1>1, <3>3 DEF BatchId
      <4> QED BY <3>1, <4>1, BatchIdStable, Lists
    <3> QED BY <3>2, <3>3, RawSteps
  <2> QED BY <1>1, <2>1, CopySteps DEF StoredOf, QuarantineInv
<1>2. ASSUME NEW k \in Jobs, JobStep(k) PROVE StoredOf(j)'
  <2>1. OnlyJob(k)
    BY <1>2, JobStepClean
  <2>2. CASE k # j
    BY <1>1, <2>1, <2>2 DEF OnlyJob, At
  <2>3. CASE k = j
    <3>1. CASE StoreQuarantine(j)
      <4>1. /\ quarantine' = quarantine \cup {BatchId(batch[j])}
            /\ BatchId(batch[j])' = BatchId(batch[j])
        BY <3>1 DEF StoreQuarantine, historyVars, BatchId
      <4> QED BY <4>1 DEF StoredOf
    <3>2. CASE ~StoreQuarantine(j)
      BY <1>2, <2>3, <3>2, ReachFinalize DEF StoredOf
    <3> QED BY <3>1, <3>2
  <2> QED BY <2>2, <2>3
<1>3. CASE \/ \E c \in Content : PushMessage(c)
           \/ EnqueueJob \/ EnqueueFails \/ WindowPasses \/ Tick \/ GuardExpires \/ UNCHANGED vars
  <2>1. /\ UNCHANGED <<pc, error, batch>>
        /\ status'[j] = "running" => status[j] = "running"
    BY <1>3 DEF PushMessage, EnqueueJob, EnqueueFails, WindowPasses, Tick, GuardExpires, vars, jobVars,
               TypeInv, TypeOK, JobType
  <2> QED BY <1>1, <2>1 DEF At
<1> QED BY <1>2, <1>3 DEF Next, JobStep

\* The copies cover what was settled as quarantined.
LEMMA NextCopied ==
    ASSUME TypeInv, ClaimInv, NothingLost, QuarantineInv, [Next]_vars
    PROVE  QuarantineHoldsCopy'
<1> SUFFICES ASSUME NEW k \in Arrivals, outcome'[k] = "quarantined"
             PROVE  \E id \in quarantine' : raw'[k] \in Elements(id)
  BY DEF QuarantineHoldsCopy
<1>1. CASE outcome[k] = "quarantined"
  <2>1. PICK id \in quarantine : raw[k] \in Elements(id)
    BY <1>1 DEF QuarantineInv, QuarantineHoldsCopy
  <2>2. ~(k > Settled)
    BY <1>1, ListIsOldest
  <2>3. k \in Delivered
    BY <2>2, Lists, Parameters DEF Delivered, Arrivals, Settled
  <2>4. raw'[k] = raw[k] /\ id \in quarantine'
    BY <2>1, <2>3, Identities, CopySteps
  <2> QED BY <2>1, <2>4
<1>2. CASE outcome[k] # "quarantined"
  <2>1. PICK j \in Jobs : /\ At(j, "finalize") /\ batch[j] = processing
                          /\ DeleteProcessing(j) /\ UNCHANGED raw
    BY <1>2, OutcomeSteps
  <2>2. outcome'[k] = IF k \notin Elements(processing) THEN outcome[k]
                      ELSE IF k \notin Elements(batch[j]) THEN "lost"
                      ELSE IF error[j] = "none" THEN "acknowledged" ELSE "quarantined"
    BY <2>1 DEF DeleteProcessing
  <2>3. k \in Elements(batch[j]) /\ error[j] # "none"
    BY <1>2, <2>2
  <2>4. BatchId(batch[j]) \in quarantine'
    BY <2>1, <2>3, CopySteps DEF QuarantineInv
  <2>5. raw[k] \in Elements(BatchId(batch[j]))
    BY <2>3 DEF Elements, BatchId
  <2> QED BY <2>1, <2>4, <2>5
<1> QED BY <1>1, <1>2

\* Everything together: the invariant of process_incoming_batch.
THEOREM IInvHolds == Spec => []IInv
<1>1. Init => CleanInv /\ QuarantineInv
  BY DEF Init, CleanInv, QuarantineInv, QuarantineHoldsCopy, At
<1>2. (TypeInv /\ LeaseInv /\ ClaimInv /\ NothingLost /\ GuardInv) /\ CleanInv /\ QuarantineInv
        /\ [Next]_vars => CleanInv' /\ QuarantineInv'
  <2> SUFFICES ASSUME TypeInv, ClaimInv, NothingLost, CleanInv, QuarantineInv, [Next]_vars
               PROVE  CleanInv' /\ QuarantineInv'
    OBVIOUS
  <2>1. CleanInv'
    BY NextClean
  <2>2. \A j \in Jobs : StoredOf(j)'
    BY NextStored
  <2>3. QuarantineHoldsCopy'
    BY NextCopied
  <2> QED BY <2>1, <2>2, <2>3 DEF QuarantineInv, StoredOf
<1>3. Spec => [](CleanInv /\ QuarantineInv)
  BY <1>1, <1>2, GuardsHold, PTL DEF Spec
<1>4. /\ TypeInv => TypeOK /\ JobsFromPushes
      /\ (TypeOK /\ JobsFromPushes) /\ LeaseInv /\ ClaimInv /\ NothingLost
           /\ GuardInv /\ WholeInv /\ (CleanInv /\ QuarantineInv) => IInv
  BY DEF TypeInv, IInv
<1> QED BY <1>3, <1>4, GuardsHold, WholeBatches, PTL

\* A message that left the durable lists as failed is in a quarantine copy.
THEOREM QuarantineHolds == Spec => []QuarantineHoldsCopy
<1>1. IInv => QuarantineHoldsCopy
  BY DEF IInv, QuarantineInv
<1> QED BY <1>1, IInvHolds, PTL

-----------------------------------------------------------------------------
(* The pipeline implements InboundContract.                                *)

\* The open messages of the contract are those of the two lists.
LEMMA OpenMessages ==
    ASSUME TypeInv, NothingLost
    PROVE  /\ Contract!Open = {k \in Arrivals : Settled < k /\ k =< Len(raw)}
           /\ Contract!Open = Elements(processing) \cup Elements(queue)
<1>1. Contract!Open = {k \in Arrivals : Settled < k /\ k =< Len(raw)}
  <2>1. \A k : k \in 1..Len(raw) <=> k \in Arrivals /\ k =< Len(raw)
    BY Lists, Parameters DEF Arrivals
  <2> QED BY <2>1, ListIsOldest DEF Contract!Open
<1>2. Elements(processing) \subseteq Arrivals /\ Elements(queue) \subseteq Arrivals
  BY Effects DEF Elements
<1>3. ASSUME NEW k \in Arrivals
      PROVE  (Settled < k /\ k =< Len(raw)) <=> k \in Elements(processing) \cup Elements(queue)
  <2>1. k \in Int /\ Settled + Len(processing) =< Len(raw)
    BY Parameters, Lists DEF Arrivals, Settled
  <2> QED BY <2>1, ListIsOldest, Lists
<1> QED BY <1>1, <1>2, <1>3

\* The processing list is a batch of the contract, and the only one begun.
LEMMA ListIsBatch ==
    ASSUME TypeInv, NothingLost, GuardInv, WholeInv, processing # << >>
    PROVE  /\ Contract!IsBatch(Elements(processing)) /\ Elements(processing) \subseteq Contract!Open
           /\ Contract!Begun = {} \/ Contract!Begun = Elements(processing)
           /\ ~Guarded(BatchId(processing)) => Contract!Begun = {}
<1>1. Elements(processing) # {}
  <2>1. 1 \in DOMAIN processing
    BY Lists
  <2>2. processing[1] \in Elements(processing)
    BY <2>1 DEF Elements
  <2> QED BY <2>2
<1>2. Elements(processing) \subseteq Contract!Open
  BY OpenMessages
<1>3. ASSUME NEW k \in Elements(processing), NEW l \in Contract!Open, l =< k
      PROVE  l \in Elements(processing)
  <2>1. k \in Arrivals /\ l \in Arrivals /\ k \in Int /\ l \in Int
    BY <1>2, <1>3, OpenMessages, Parameters DEF Arrivals
  <2> QED BY <1>3, <2>1, OpenMessages, ListIsOldest, Lists
<1>4. \A k \in Elements(queue) : ~(effects[k] > 0)
  BY DEF GuardInv, Elements
<1>5. Contract!Begun = {k \in Elements(processing) : effects[k] > 0}
  BY <1>4, OpenMessages DEF Contract!Begun
<1>6. Contract!Begun = {} \/ Contract!Begun = Elements(processing)
  BY <1>5 DEF WholeInv, Elements
<1>7. ~Guarded(BatchId(processing)) => Contract!Begun = {}
  BY <1>5 DEF GuardInv, Elements
<1> QED BY <1>1, <1>2, <1>3, <1>6, <1>7 DEF Contract!IsBatch

\* Every step is a step of the contract or leaves its variables alone.
LEMMA NextContract ==
    ASSUME TypeInv, ClaimInv, NothingLost, GuardInv, WholeInv, [Next]_vars
    PROVE  [Contract!Next]_(Contract!vars)
<1>1. CASE UNCHANGED <<raw, effects, outcome>>
  BY <1>1 DEF Contract!vars
<1>2. ASSUME NEW c \in Content, PushMessage(c) PROVE Contract!Next
  <2>1. Contract!Accept(c)
    BY <1>2 DEF PushMessage, Contract!Accept
  <2> QED BY <2>1 DEF Contract!Next
<1>3. ASSUME NEW j \in Jobs, BeginSideEffects(j), ~Guarded(BatchId(processing)), processing # << >>,
             UNCHANGED <<raw, queue, processing, outcome>>,
             effects' = [k \in Arrivals |->
               IF k \in Elements(processing) THEN effects[k] + 1 ELSE effects[k]]
      PROVE  Contract!Next
  <2>1. Contract!Begin(Elements(processing))
    BY <1>3, ListIsBatch DEF Contract!Begin, Contract!Numbers, Arrivals
  <2>2. Elements(processing) \in SUBSET Contract!Open
    BY <1>3, ListIsBatch
  <2> QED BY <2>1, <2>2 DEF Contract!Next
<1>4. ASSUME NEW j \in Jobs, batch[j] = processing, processing # << >>, DeleteProcessing(j),
             UNCHANGED <<raw, effects, queue>>
      PROVE  Contract!Next
  <2> DEFINE how == IF error[j] = "none" THEN "acknowledged" ELSE "quarantined"
  <2>1. outcome' = [k \in Arrivals |-> IF k \in Elements(processing) THEN how ELSE outcome[k]]
    BY <1>4 DEF DeleteProcessing
  <2>2. Contract!Settle(Elements(processing), how)
    BY <1>4, <2>1, ListIsBatch DEF Contract!Settle, Contract!Numbers, Arrivals
  <2>3. Elements(processing) \in SUBSET Contract!Open /\ how \in {"acknowledged", "quarantined"}
    BY <1>4, ListIsBatch
  <2> QED BY <2>2, <2>3 DEF Contract!Next
<1>5. CASE effects' # effects
  BY <1>3, <1>5, EffectsSteps
<1>6. CASE outcome' # outcome
  BY <1>4, <1>6, OutcomeSteps
<1>7. raw' = raw \/ \E c \in Content : PushMessage(c)
  <2>1. ASSUME NEW j \in Jobs, JobStep(j) PROVE raw' = raw
    BY <2>1, JobStepKeepsRaw
  <2>2. CASE EnqueueJob \/ EnqueueFails \/ WindowPasses \/ Tick \/ GuardExpires \/ UNCHANGED vars
    BY <2>2, OutsideSteps
  <2> QED BY <2>1, <2>2 DEF Next, JobStep
<1> QED BY <1>1, <1>2, <1>5, <1>6, <1>7

\* Whatever fails, the machinery of locks, lists, guards and retries settles
\* messages as the contract says: in order, in batches, begun at most once.
THEOREM ContractImplemented == Spec => ImplementsContract
<1>1. Init => Contract!Init
  BY DEF Init, Contract!Init, Contract!Numbers, Arrivals
<1>2. (TypeInv /\ LeaseInv /\ ClaimInv /\ NothingLost /\ GuardInv) /\ WholeInv /\ [Next]_vars
        => [Contract!Next]_(Contract!vars)
  BY NextContract
<1> QED BY <1>1, <1>2, GuardsHold, WholeBatches, PTL DEF Spec, ImplementsContract, Contract!Spec
=============================================================================
