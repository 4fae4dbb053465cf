------------------------ MODULE OutboundAuditProofs ------------------------
(* One request at a time, and no message suppressed that the provider does *)
(* not have, for every number of callers, calls, retries and faults.       *)
EXTENDS OutboundAudit, TLAPS

Labels == {"idle", "skipped", "flush", "send", "sent", "raising", "done", "failed"}

\* The bounds are natural numbers.
LEMMA Bounds == MaxRetries \in Nat /\ MaxRetries > 0 /\ MaxCalls \in Nat
                /\ MaxFaults \in Nat
  BY RetriesAssumption, BoundsAssumption

\* No row is typed, and not active.
LEMMA NoRowType == NoRow \in Rows /\ ~Active(NoRow)
  BY DEF NoRow, Rows, Active

\* The initial state has the invariant.
LEMMA InitIInv == Init => IInv
<1> SUFFICES ASSUME Init PROVE IInv
  OBVIOUS
<1>1. TypeOK
  <2>1. row \in Rows /\ dirty \in Rows /\ writer \in Callers \cup {Nobody}
    BY NoRowType DEF Init
  <2>2. pc \in [Callers -> Labels] /\ seen \in [Callers -> Rows]
    BY NoRowType DEF Init, Labels
  <2>3. attempt \in [Callers -> 0..MaxRetries] /\ calls \in [Callers -> 0..MaxCalls]
    BY Bounds DEF Init
  <2>4. faults \in 0..MaxFaults
    BY Bounds DEF Init
  <2>5. accepted \in BOOLEAN
    BY DEF Init
  <2> QED BY <2>1, <2>2, <2>3, <2>4, <2>5 DEF TypeOK, Labels
<1>2. WriterInv
  BY DEF Init, WriterInv
<1>3. AcceptedInv
  BY NoRowType DEF Init, AcceptedInv, SkippedOnlyIfAccepted
<1> QED BY <1>1, <1>2, <1>3 DEF IInv

-----------------------------------------------------------------------------
(* The types.                                                              *)

\* The outcome of an HTTP attempt keeps the types of what it touches.
LEMMA AnsweredType ==
    ASSUME TypeOK, NEW c \in Callers, NEW status \in Statuses, Answered(c, status)
    PROVE  /\ dirty' \in Rows /\ pc' \in [Callers -> Labels]
           /\ UNCHANGED <<row, writer, seen, attempt, calls>>
  BY DEF Answered, Goto, TypeOK, Labels, Rows

\* What the callers do.
LEMMA StepType ==
    ASSUME TypeOK, NEW c \in Callers, Step(c) PROVE TypeOK'
<1> USE DEF TypeOK, Goto
<1>1. CASE Lookup(c)
  BY <1>1, Bounds DEF Lookup
<1>2. CASE Flush(c)
  <2>1. dirty' \in Rows
    BY <1>2 DEF Flush, Rows, Statuses
  <2>2. attempt' \in [Callers -> 0..MaxRetries]
    BY <1>2, Bounds DEF Flush
  <2> QED BY <1>2, <2>1, <2>2 DEF Flush, TakeRow
<1>3. CASE FlushConflicts(c) \/ CallAgain(c)
  BY <1>3 DEF FlushConflicts, CallAgain
<1>4. CASE SendAccepted(c)
  <2>1. Answered(c, "sent") /\ "sent" \in Statuses
    BY <1>4 DEF SendAccepted, Statuses
  <2> QED BY <1>4, <2>1, AnsweredType DEF SendAccepted, Accept, Labels
<1>5. CASE SendRefused(c)
  <2>2. faults' \in 0..MaxFaults
    <3>1. faults' = faults \/ Fault
      BY <1>5 DEF SendRefused
    <3> QED BY <3>1, Bounds DEF Fault
  <2>3. PICK status \in Statuses : Answered(c, status)
    BY <1>5 DEF SendRefused, RefusalStatus, Statuses
  <2> QED BY <1>5, <2>2, <2>3, AnsweredType DEF SendRefused, Labels
<1>6. CASE SendLost(c)
  <2>1. "error" \in Statuses
    BY DEF Statuses
  <2>2. faults' \in 0..MaxFaults
    BY <1>6, Bounds DEF SendLost, Fault
  <2>3. accepted' \in BOOLEAN
    BY <1>6 DEF SendLost, Accept
  <2>4. CASE Answered(c, "error")
    BY <2>1, <2>2, <2>3, <2>4, AnsweredType DEF Labels
  <2>5. CASE /\ RetryLeft(c) /\ attempt' = [attempt EXCEPT ![c] = @ + 1]
             /\ UNCHANGED <<row, writer, dirty, pc, seen, calls>>
    <3>1. attempt' \in [Callers -> 0..MaxRetries]
      BY <2>5, Bounds DEF RetryLeft
    <3> QED BY <2>2, <2>3, <2>5, <3>1
  <2> QED BY <1>6, <2>4, <2>5 DEF SendLost
<1>7. CASE Commit(c)
  BY <1>7 DEF Commit
<1>8. CASE Die(c)
  <2>1. faults' \in 0..MaxFaults
    BY <1>8, Bounds DEF Die, Fault
  <2>2. accepted' \in BOOLEAN
    BY <1>8 DEF Die, Accept
  <2> QED BY <1>8, <2>1, <2>2 DEF Die
<1> QED BY <1>1, <1>2, <1>3, <1>4, <1>5, <1>6, <1>7, <1>8 DEF Step

-----------------------------------------------------------------------------
(* The row serialises the callers.                                         *)

\* A caller enters the provider call only with the row, and gives the row
\* back only when it leaves.
LEMMA StepWriter ==
    ASSUME TypeOK, WriterInv, NEW c \in Callers, Step(c) PROVE WriterInv'
<1> USE NobodyAssumption DEF TypeOK, WriterInv, Goto
<1>1. CASE Lookup(c) \/ FlushConflicts(c) \/ CallAgain(c)
  BY <1>1 DEF Lookup, FlushConflicts, CallAgain
<1>2. CASE Flush(c)
  BY <1>2 DEF Flush, TakeRow
<1>3. CASE SendAccepted(c) \/ SendRefused(c) \/ SendLost(c)
  BY <1>3 DEF SendAccepted, SendRefused, SendLost, Answered
<1>4. CASE Commit(c)
  BY <1>4 DEF Commit
<1>5. CASE Die(c)
  BY <1>5 DEF Die
<1> QED BY <1>1, <1>2, <1>3, <1>4, <1>5 DEF Step

-----------------------------------------------------------------------------
(* Only accepted messages have an active row.                              *)

\* The provider never forgets what it accepted.
LEMMA StepAccepted ==
    ASSUME TypeOK, WriterInv, AcceptedInv, NEW c \in Callers, Step(c) PROVE AcceptedInv'
<1> USE DEF AcceptedInv, SkippedOnlyIfAccepted
<1>1. CASE Lookup(c) \/ FlushConflicts(c) \/ CallAgain(c)
  BY <1>1 DEF Lookup, FlushConflicts, CallAgain, Goto, TypeOK, Active
<1>2. CASE Flush(c)
  <2>1. \A d \in Callers : pc[d] \notin {"sent", "raising"}
    BY <1>2, NobodyAssumption DEF Flush, TakeRow, WriterInv
  <2> QED BY <1>2, <2>1 DEF Flush, Goto, TypeOK, Active
<1>3. CASE SendAccepted(c)
  BY <1>3 DEF SendAccepted, Accept
<1>4. ASSUME pc[c] = "send" PROVE \A d \in Callers : pc[d] \notin {"sent", "raising"}
  BY <1>4 DEF WriterInv
<1>5. CASE SendRefused(c)
  <2>1. accepted' = accepted /\ row' = row
    BY <1>5 DEF SendRefused, Answered
  <2>2. Active(dirty') => accepted
    BY <1>5 DEF SendRefused, RefusalStatus, Answered, Active
  <2> QED BY <2>1, <2>2 DEF Active
<1>6. CASE SendLost(c)
  <2>1. row' = row /\ (accepted => accepted')
    BY <1>6 DEF SendLost, Accept, Answered
  <2>3. \A d \in Callers : pc'[d] \in {"sent", "raising"} => ~Active(dirty')
    BY <1>4, <1>6 DEF SendLost, Answered, Goto, TypeOK, Active
  <2> QED BY <2>1, <2>3 DEF Active
<1>7. CASE Commit(c)
  BY <1>7 DEF Commit, Goto, TypeOK, Active
<1>8. CASE Die(c)
  BY <1>8 DEF Die, Accept, Goto, TypeOK, Active
<1> QED BY <1>1, <1>2, <1>3, <1>5, <1>6, <1>7, <1>8 DEF Step

-----------------------------------------------------------------------------
\* The invariant of send_wazzup_text_with_audit.
THEOREM IInvHolds == Spec => []IInv
<1>1. Init => IInv
  BY InitIInv
<1>2. IInv /\ [Next]_vars => IInv'
  <2> SUFFICES ASSUME IInv, [Next]_vars PROVE IInv'
    OBVIOUS
  <2> USE DEF IInv
  <2>1. ASSUME NEW c \in Callers, Step(c) PROVE IInv'
    BY <2>1, StepType, StepWriter, StepAccepted
  <2>2. CASE UNCHANGED vars
    <3> USE <2>2 DEF vars
    <3>1. TypeOK' /\ WriterInv'
      BY DEF TypeOK, WriterInv
    <3>2. AcceptedInv'
      BY DEF AcceptedInv, SkippedOnlyIfAccepted, Active
    <3> QED BY <3>1, <3>2
  <2> QED BY <2>1, <2>2 DEF Next
<1> QED BY <1>1, <1>2, PTL DEF Spec

\* The unique crm_message_id and the flush before the provider call let one
\* caller at a time through, for any number of callers.
THEOREM OneRequestAtATimeHolds == Spec => []OneRequestAtATime
<1>1. IInv => OneRequestAtATime
  BY DEF IInv, WriterInv, OneRequestAtATime
<1> QED BY <1>1, IInvHolds, PTL

\* _is_active suppresses a send only when the provider has the message.
THEOREM SkippedOnlyIfAcceptedHolds == Spec => []SkippedOnlyIfAccepted
<1>1. IInv => SkippedOnlyIfAccepted
  BY DEF IInv, AcceptedInv
<1> QED BY <1>1, IInvHolds, PTL

-----------------------------------------------------------------------------
(* Without a fault the provider is asked once.                             *)

\* Nothing is accepted at first, and there is no row.
LEMMA InitQuiet == Init => QuietInv
  BY DEF Init, QuietInv, NoRow

\* A step of a caller that is not a fault keeps the first caller the only one.
LEMMA StepQuiet ==
    ASSUME IInv, QuietInv, NEW c \in Callers, Step(c) PROVE QuietInv'
<1> SUFFICES ASSUME faults' = 0 PROVE QuietInv'
  BY DEF QuietInv
<1> USE DEF IInv, TypeOK, WriterInv, QuietInv, Goto
<1>1. faults = 0 /\ ~Fault
  <2>1. ~Fault
    BY Bounds DEF Fault
  <2> QED BY <2>1 DEF Step, Lookup, Flush, FlushConflicts, SendAccepted, SendRefused, SendLost,
                      Commit, Die, CallAgain, Answered
<1>2. CASE Lookup(c)
  BY <1>1, <1>2 DEF Lookup, Active, Rows, Statuses
<1>3. CASE Flush(c)
  <2>1. writer = Nobody /\ row = NoRow /\ ~accepted
    BY <1>1, <1>3 DEF Flush, TakeRow, UniqueIndex
  <2>2. \A d \in Callers : pc'[d] \notin {"sent", "raising"}
    BY <1>3, <2>1, NobodyAssumption DEF Flush
  <2> QED BY <1>1, <1>3, <2>1, <2>2, NobodyAssumption DEF Flush, TakeRow, NoRow
<1>4. CASE FlushConflicts(c) \/ CallAgain(c)
  BY <1>1, <1>4 DEF FlushConflicts, CallAgain
<1>5. CASE SendAccepted(c)
  <2>1. writer = c /\ \A d \in Callers : pc[d] \in {"send", "sent", "raising"} => d = c
    BY <1>5 DEF SendAccepted
  <2> QED BY <1>1, <1>5, <2>1, NobodyAssumption DEF SendAccepted, Answered
<1>6. CASE SendRefused(c) \/ SendLost(c) \/ Die(c)
  BY <1>1, <1>6 DEF SendRefused, SendLost, Die
<1>7. CASE Commit(c)
  <2>1. writer = c /\ dirty = "sent" /\ \A d \in Callers : pc[d] \in {"send", "sent", "raising"} => d = c
    BY <1>1, <1>7 DEF Commit
  <2> QED BY <1>1, <1>7, <2>1 DEF Commit, NoRow
<1> QED BY <1>2, <1>3, <1>4, <1>5, <1>6, <1>7 DEF Step

\* The lookup, the unique index and the row lock together: while nothing fails
\* no caller repeats a request the provider has taken, for any number of callers.
THEOREM AskedAgainOnlyAfterFaultHolds == Spec => []AskedAgainOnlyAfterFault
<1>1. IInv /\ QuietInv /\ [Next]_vars => QuietInv'
  <2> SUFFICES ASSUME IInv, QuietInv, [Next]_vars PROVE QuietInv'
    OBVIOUS
  <2>1. CASE UNCHANGED vars
    BY <2>1 DEF vars, QuietInv
  <2> QED BY <2>1, StepQuiet DEF Next
<1>2. IInv /\ QuietInv => AskedAgainOnlyAfterFault
  BY Bounds DEF IInv, TypeOK, QuietInv, AskedAgainOnlyAfterFault
<1> QED BY <1>1, <1>2, InitQuiet, IInvHolds, PTL DEF Spec

-----------------------------------------------------------------------------
(* The audited send implements SendContract.                               *)

\* The row is held by a caller at the provider only.  A caller on its way to
\* "sent" has written an active row, and one that was told of success was told
\* the truth.
ToldInv ==
    /\ \A c \in Callers : writer = c => pc[c] \in {"send", "sent", "raising"}
    /\ \A c \in Callers : pc[c] = "sent" => dirty = "sent"
    /\ \A c \in Callers : pc[c] \in {"sent", "skipped", "done"} => accepted

\* Nobody has been told anything at first.
LEMMA InitTold == Init => ToldInv
  BY NobodyAssumption DEF Init, ToldInv

\* A call that reaches "sent" was accepted in that step, one that is skipped
\* found an active row, and the row of a caller past the provider is its own.
LEMMA NextTold ==
    ASSUME IInv, ToldInv, [Next]_vars PROVE ToldInv'
<1> USE DEF IInv, TypeOK, WriterInv, ToldInv, Goto
<1>1. ASSUME NEW c \in Callers, Step(c) PROVE ToldInv'
  <2>1. CASE Lookup(c)
    BY <2>1 DEF Lookup, AcceptedInv, SkippedOnlyIfAccepted
  <2>2. CASE FlushConflicts(c) \/ CallAgain(c)
    BY <2>2 DEF FlushConflicts, CallAgain
  <2>3. CASE Flush(c)
    BY <2>3, NobodyAssumption DEF Flush, TakeRow
  <2>4. CASE SendAccepted(c)
    BY <2>4 DEF SendAccepted, Answered, Accept
  <2>5. CASE SendRefused(c)
    <3>1. PICK status \in Statuses : Answered(c, status) /\ status # "sent"
      BY <2>5 DEF SendRefused, RefusalStatus, Statuses
    <3> QED BY <2>5, <3>1 DEF SendRefused, Answered
  <2>6. CASE SendLost(c)
    BY <2>6 DEF SendLost, Answered, Accept
  <2>7. CASE Commit(c) \/ Die(c)
    BY <2>7, NobodyAssumption DEF Commit, Die, Accept
  <2> QED BY <1>1, <2>1, <2>2, <2>3, <2>4, <2>5, <2>6, <2>7 DEF Step
<1>2. CASE UNCHANGED <<pc, dirty, accepted, writer>>
  BY <1>2
<1> QED BY <1>1, <1>2 DEF Next, vars

\* What moving one caller does to what the callers were told.
LEMMA Telling ==
    ASSUME TypeOK, NEW c \in Callers, NEW label \in Labels, Goto(c, label),
           NEW answer, Told(c)' = answer
    PROVE  [d \in Callers |-> Told(d)]' = [[d \in Callers |-> Told(d)] EXCEPT ![c] = answer]
<1>1. \A d \in Callers : d # c => pc'[d] = pc[d]
  BY DEF Goto, TypeOK
<1>2. \A d \in Callers : d # c => Told(d)' = Told(d)
  BY <1>1 DEF Told
<1> QED BY <1>2

\* The mapped variables at a step that leaves them alone.
LEMMA ContractStutters ==
    ASSUME UNCHANGED <<row, writer, pc, accepted>> PROVE UNCHANGED Contract!vars
  BY DEF Contract!vars, Active, Told

\* A step of a caller is a step of the contract, or none of its business.
LEMMA StepContract ==
    ASSUME IInv, ToldInv, NEW c \in Callers, Step(c)
    PROVE  [Contract!Next]_(Contract!vars)
<1> DEFINE Answers == [d \in Callers |-> Told(d)]
<1> USE DEF IInv
<1>1. Answers[c] = Told(c)
  OBVIOUS
<1>2. ASSUME NEW label \in Labels, Goto(c, label), Told(c)' = Told(c)
      PROVE  Answers' = Answers
  BY <1>2, Telling DEF TypeOK
<1>3. CASE Lookup(c)
  <2>1. CASE ~Active(row)
    <3>1. Goto(c, "flush") /\ Told(c)' = Told(c)
      BY <1>3, <2>1 DEF Lookup, Goto, Told, TypeOK
    <3>2. UNCHANGED <<Answers, row, writer, accepted>>
      BY <1>2, <1>3, <3>1 DEF Lookup, Labels
    <3> QED BY <3>2 DEF Contract!vars, Active
  <2>2. CASE Active(row)
    <3>1. Goto(c, "skipped") /\ Told(c) = "waiting" /\ Told(c)' = "success"
      BY <1>3, <2>2 DEF Lookup, Goto, Told, TypeOK
    <3>2. Answers' = [Answers EXCEPT ![c] = "success"]
      BY <3>1, Telling DEF Labels
    <3>3. UNCHANGED <<row, writer, accepted>>
      BY <1>3 DEF Lookup
    <3>4. writer # c
      BY <1>3 DEF Lookup, ToldInv
    <3> QED BY <1>1, <2>2, <3>1, <3>2, <3>3, <3>4 DEF Contract!Skip, Contract!Tell, Contract!Next, Active
  <2> QED BY <2>1, <2>2
<1>4. CASE Flush(c)
  <2>1. Goto(c, "send") /\ Told(c) = "waiting" /\ Told(c)' = "waiting"
    BY <1>4 DEF Flush, Goto, Told, TypeOK
  <2>2. UNCHANGED <<Answers, row, accepted>> /\ writer = Nobody /\ writer' = c
    BY <1>2, <1>4, <2>1 DEF Flush, TakeRow, Labels
  <2> QED BY <1>1, <2>1, <2>2 DEF Contract!Enter, Contract!Next, Active
<1>5. CASE FlushConflicts(c) \/ Die(c)
  <2>1. Goto(c, "failed") /\ Told(c) = "waiting" /\ Told(c)' = "failure"
    BY <1>5 DEF FlushConflicts, Die, Goto, Told, TypeOK
  <2>2. Answers' = [Answers EXCEPT ![c] = "failure"]
    BY <2>1, Telling DEF Labels
  <2>3. writer' = (IF writer = c THEN Nobody ELSE writer) /\ row' = row
    BY <1>5, NobodyAssumption DEF FlushConflicts, Die
  <2>4. UNCHANGED accepted \/ (writer = c /\ ~accepted /\ accepted' = TRUE)
    BY <1>5 DEF FlushConflicts, Die, Accept, WriterInv
  <2> QED BY <1>1, <2>1, <2>2, <2>3, <2>4 DEF Contract!GiveUp, Contract!Tell, Contract!Next, Active
<1>6. CASE SendAccepted(c) \/ SendRefused(c) \/ SendLost(c)
  <2>1. PICK label \in {"send", "sent", "raising"} : Goto(c, label)
    <3>1. pc[c] = "send"
      BY <1>6 DEF SendAccepted, SendRefused, SendLost
    <3>2. UNCHANGED pc => Goto(c, "send")
      BY <3>1 DEF Goto, TypeOK
    <3> QED BY <1>6, <3>2 DEF SendAccepted, SendRefused, SendLost, Answered
  <2>2. pc[c] = "send" /\ Told(c)' = Told(c)
    BY <1>6, <2>1 DEF SendAccepted, SendRefused, SendLost, Goto, Told, TypeOK
  <2>3. writer = c /\ UNCHANGED <<Answers, row, writer>>
    BY <1>2, <1>6, <2>1, <2>2 DEF SendAccepted, SendRefused, SendLost, Answered, Labels, WriterInv
  <2>4. UNCHANGED accepted \/ (~accepted /\ accepted' = TRUE)
    BY <1>6 DEF SendAccepted, SendRefused, SendLost, Accept
  <2> QED BY <2>3, <2>4 DEF Contract!Deliver, Contract!Next, Contract!vars, Active
<1>7. CASE Commit(c)
  <2> DEFINE answer == IF pc[c] = "sent" THEN "success" ELSE "failure"
  <2>1. PICK label \in {"done", "failed"} : Goto(c, label) /\ (label = "done" <=> pc[c] = "sent")
    BY <1>7 DEF Commit
  <2>2. Told(c)' = answer
    BY <2>1 DEF Goto, Told, TypeOK
  <2>3. Answers' = [Answers EXCEPT ![c] = answer]
    BY <2>1, <2>2, Telling DEF Labels
  <2>4. writer = c /\ writer' = Nobody /\ UNCHANGED accepted
    BY <1>7 DEF Commit, WriterInv
  <2>5. /\ Active(row)' \in BOOLEAN
        /\ Active(row)' => accepted
        /\ answer = "success" => Active(row)'
    BY <1>7 DEF Commit, Active, NoRow, AcceptedInv, ToldInv
  <2>6. answer \in {"success", "failure"}
    OBVIOUS
  <2>7. Contract!Leave(c, answer)
    BY <2>3, <2>4, <2>5 DEF Contract!Leave, Contract!Tell
  <2> QED BY <2>6, <2>7 DEF Contract!Next
<1>8. CASE CallAgain(c)
  <2>1. Goto(c, "idle") /\ Told(c) # "waiting" /\ Told(c)' = "waiting"
    BY <1>8 DEF CallAgain, Goto, Told, TypeOK
  <2>2. Answers' = [Answers EXCEPT ![c] = "waiting"]
    BY <2>1, Telling DEF Labels
  <2>3. UNCHANGED <<row, writer, accepted>>
    BY <1>8 DEF CallAgain
  <2> QED BY <1>1, <2>1, <2>2, <2>3 DEF Contract!Ask, Contract!Tell, Contract!Next, Active
<1> QED BY <1>3, <1>4, <1>5, <1>6, <1>7, <1>8 DEF Step

\* send_wazzup_text_with_audit and _request keep the promise of SendContract
\* (ImplementsSendContract), for any number of callers, retries and failures.
THEOREM SendContractImplemented == Spec => ImplementsSendContract
<1>1. Init => Contract!Init
  BY NoRowType DEF Init, Contract!Init, Told
<1>2. IInv /\ ToldInv /\ [Next]_vars => [Contract!Next]_(Contract!vars)
  <2> SUFFICES ASSUME IInv, ToldInv, [Next]_vars PROVE [Contract!Next]_(Contract!vars)
    OBVIOUS
  <2>1. CASE UNCHANGED vars
    BY <2>1, ContractStutters DEF vars
  <2> QED BY <2>1, StepContract DEF Next
<1>3. IInv /\ ToldInv /\ [Next]_vars => ToldInv'
  BY NextTold
<1> QED BY <1>1, <1>2, <1>3, InitTold, IInvHolds, PTL DEF Spec, ImplementsSendContract, Contract!Spec

\* The contract is enough to build on: a caller that keeps to it and is told
\* of success is told the truth.
LEMMA ContractIsTruthful == Contract!Spec => []Contract!Truthful
<1> DEFINE Answers == [d \in Callers |-> Told(d)]
<1>1. Contract!Init => Contract!Truthful
  BY NoRowType DEF Contract!Init, Contract!Truthful
<1>2. Contract!Truthful /\ [Contract!Next]_(Contract!vars) => Contract!Truthful'
  <2> SUFFICES ASSUME Contract!Truthful, [Contract!Next]_(Contract!vars)
               PROVE  Contract!Truthful'
    OBVIOUS
  <2> HIDE DEF Answers
  <2> USE DEF Contract!Truthful, Contract!Tell
  <2>1. CASE UNCHANGED Contract!vars
    BY <2>1 DEF Contract!vars
  <2>3. ASSUME NEW c \in Callers, Contract!Ask(c) \/ Contract!Skip(c) \/ Contract!Enter(c)
        PROVE  Contract!Truthful'
    BY <2>3 DEF Contract!Ask, Contract!Skip, Contract!Enter
  <2>4. ASSUME NEW c \in Callers, Contract!Deliver(c) \/ Contract!GiveUp(c)
        PROVE  Contract!Truthful'
    BY <2>4 DEF Contract!Deliver, Contract!GiveUp
  <2>5. ASSUME NEW c \in Callers, NEW answer \in {"success", "failure"}, Contract!Leave(c, answer)
        PROVE  Contract!Truthful'
    BY <2>5 DEF Contract!Leave
  <2> QED BY <2>1, <2>3, <2>4, <2>5 DEF Contract!Next
<1> QED BY <1>1, <1>2, PTL DEF Contract!Spec

\* A caller that was told its message is out was told the truth, and no
\* message is suppressed that the provider does not have.
THEOREM CallersToldTheTruth == Spec => []Contract!Truthful
  BY SendContractImplemented, ContractIsTruthful, PTL DEF ImplementsSendContract

\* The row's transaction is never left open by a caller that is over: whoever
\* waits at the flush waits for a caller at the provider or at its commit.
THEOREM RowIsReleased ==
    Spec => [](writer # Nobody
                 => \E c \in Callers : writer = c /\ pc[c] \in {"send", "sent", "raising"})
<1>1. IInv /\ ToldInv
      => (writer # Nobody
            => \E c \in Callers : writer = c /\ pc[c] \in {"send", "sent", "raising"})
  BY DEF IInv, TypeOK, ToldInv
<1>2. IInv /\ ToldInv /\ [Next]_vars => ToldInv'
  BY NextTold
<1> QED BY <1>1, <1>2, InitTold, IInvHolds, PTL DEF Spec
=============================================================================
