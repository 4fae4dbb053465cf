------------------------------ MODULE ZohoToken ------------------------------
(***************************************************************************)
(* The OAuth token of one Zoho API and the requests that need it:          *)
(*   src/integrations/crm/zoho_crm.py   _ensure_token, _request            *)
(*   src/integrations/inventory/zoho_inventory.py   the same               *)
(*   src/integrations/zoho_oauth.py     constants, cache TTL, release      *)
(*                                                                         *)
(* All web and worker processes share one cached token.  A caller that     *)
(* finds none takes a lock with a TTL and refreshes; who finds the lock    *)
(* taken polls for the token and never tries the lock again.               *)
(*                                                                         *)
(* Abstractions.  Time passes in ticks, and only while every caller sleeps *)
(* or waits for an answer: a Redis command takes none, and Zoho looks at a *)
(* token at the moment a request is sent.  The 15 seconds of the refresh   *)
(* are httpx's limit for each phase (connect, write, read), so a refresh   *)
(* may outlast the lock; Zoho issues the token somewhere in between.  A    *)
(* token refused by Zoho before its time is one of the faults.             *)
(***************************************************************************)
EXTENDS Integers, FiniteSets

CONSTANTS
    Callers,       \* concurrent calls of _request
    Validity,      \* expires_in, at most _ACCESS_TOKEN_VALIDITY_SECONDS
    Buffer,        \* _CACHE_EXPIRY_BUFFER_SECONDS
    LockTtl,       \* ZOHO_OAUTH_REFRESH_LOCK_TTL_SECONDS
    RefreshMax,    \* the longest refresh: the limit times its phases
    PollWindow,    \* ..._LOCK_POLL_ATTEMPTS times ..._LOCK_POLL_INTERVAL_SECONDS
    MaxAttempts,   \* max_retries of _request
    RetriesWrites, \* a lost request is repeated whatever its method (Inventory)
    MaxFaults      \* bound: refusals, lost requests, failed refreshes, dead callers

ASSUME TimesAssumption ==
    /\ Validity \in Nat /\ Buffer \in Nat /\ LockTtl \in Nat \ {0}
    /\ RefreshMax \in Nat /\ PollWindow \in Nat
    /\ RefreshMax < Buffer /\ Buffer < Validity
ASSUME AttemptsAssumption == MaxAttempts \in Nat \ {0} /\ MaxFaults \in Nat
ASSUME WritesAssumption == RetriesWrites \in BOOLEAN

Free == "free"
ASSUME OwnersAssumption == Free \notin Callers

NoToken == [life |-> 0, ttl |-> 0]

VARIABLES
    token,    \* the cached token: how long Zoho honours it, how long Redis keeps it
    lock,     \* the owner token in the lock key
    lease,    \* the TTL of the lock key
    pc,       \* where each caller is
    timer,    \* of each caller: time since it took the lock, or began to poll
    issued,   \* of each caller: how long Zoho honours the token on its way, or 0
    attempt,  \* the attempt of its _request
    carried,  \* how often Zoho carried its request out
    calm,     \* pollers in whose wait nothing has gone wrong (history)
    faults

tokenVars == <<token, lock, lease, issued>>
requestVars == <<attempt, carried>>
vars == <<tokenVars, pc, timer, requestVars, calm, faults>>

Init ==
    /\ token = NoToken /\ lock = Free /\ lease = 0
    /\ pc = [c \in Callers |-> "idle"]
    /\ timer = [c \in Callers |-> 0] /\ issued = [c \in Callers |-> 0]
    /\ attempt = [c \in Callers |-> 0] /\ carried = [c \in Callers |-> 0]
    /\ calm = {} /\ faults = 0

Cached == token # NoToken
Goto(c, label) == pc' = [pc EXCEPT ![c] = label]
Fault == faults < MaxFaults /\ faults' = faults + 1 /\ calm' = {}

-----------------------------------------------------------------------------
(* _ensure_token.                                                          *)

\* _request begins, or goes round its loop.
Begin(c) ==
    /\ pc[c] \in {"idle", "ok", "failed"}
    /\ attempt' = [attempt EXCEPT ![c] = 1]
    /\ carried' = [carried EXCEPT ![c] = 0]
    /\ Goto(c, "get")
    /\ UNCHANGED <<tokenVars, timer, calm, faults>>

GetToken(c) ==
    /\ pc[c] = "get"
    /\ Goto(c, IF Cached THEN "send" ELSE "lock")
    /\ UNCHANGED <<tokenVars, timer, requestVars, calm, faults>>

\* The TTL the lock is taken with (the mutant's runs out sooner).
ShorterTtl == LockTtl - 1
LockExpiry == LockTtl

\* A refresh that holds the lock and has not failed.
OnItsWay(d) == pc[d] \in {"recheck", "refresh"} \/ (pc[d] = "release" /\ Cached)

\* SET NX EX; who does not get the lock polls.
TakeLock(c) ==
    /\ pc[c] = "lock"
    /\ IF lock = Free
       THEN lock' = c /\ lease' = LockExpiry /\ Goto(c, "recheck")
       ELSE UNCHANGED <<lock, lease>> /\ Goto(c, "poll")
    /\ timer' = [timer EXCEPT ![c] = 0]
    /\ calm' = IF \E d \in Callers : lock = d /\ OnItsWay(d) THEN calm \cup {c} ELSE calm \ {c}
    /\ UNCHANGED <<token, issued, requestVars, faults>>

\* The poller's window is over (the mutant gives up earlier).
GivesUpEarly(c) == timer[c] >= PollWindow - 1
WindowOver(c) == timer[c] >= PollWindow

\* A poll that finds the token, or the last one that does not.
Poll(c) ==
    /\ pc[c] = "poll"
    /\ \/ Cached /\ Goto(c, "send")
       \/ ~Cached /\ WindowOver(c) /\ Goto(c, "failed")
    /\ UNCHANGED <<tokenVars, timer, requestVars, calm, faults>>

Recheck(c) ==
    /\ pc[c] = "recheck"
    /\ Goto(c, IF Cached THEN "release" ELSE "refresh")
    /\ UNCHANGED <<tokenVars, timer, requestVars, calm, faults>>

\* Zoho issues a token; its answer is on the way.
Issue(c) ==
    /\ pc[c] = "refresh" /\ issued[c] = 0
    /\ issued' = [issued EXCEPT ![c] = Validity]
    /\ UNCHANGED <<token, lock, lease, pc, timer, requestVars, calm, faults>>

\* cache_ttl of parse_zoho_oauth_response (the mutant drops the buffer).
FullValidity == Validity
CacheTtl == IF Validity - Buffer > 1 THEN Validity - Buffer ELSE 1

\* The answer arrives and is cached with what the answer calls its validity.
Store(c) ==
    /\ pc[c] = "refresh" /\ issued[c] > 0
    /\ token' = [life |-> issued[c], ttl |-> CacheTtl]
    /\ issued' = [issued EXCEPT ![c] = 0]
    /\ Goto(c, "release")
    /\ UNCHANGED <<lock, lease, timer, requestVars, calm, faults>>

\* A transport error, a refusal, an answer that does not parse, a failed SET.
RefreshFails(c) ==
    /\ pc[c] = "refresh" /\ Fault
    /\ issued' = [issued EXCEPT ![c] = 0]
    /\ Goto(c, "raise")
    /\ UNCHANGED <<token, lock, lease, timer, requestVars>>

\* release_zoho_oauth_lock: DEL only of its own token (the mutant deletes the key).
DeleteAny(c) == Free
Released(c) == IF lock = c THEN Free ELSE lock

Release(c) ==
    /\ pc[c] \in {"release", "raise"}
    /\ lock' = Released(c)
    /\ lease' = IF lock' = Free THEN 0 ELSE lease
    /\ Goto(c, IF pc[c] = "release" THEN "send" ELSE "failed")
    /\ UNCHANGED <<token, timer, issued, requestVars, calm, faults>>

-----------------------------------------------------------------------------
(* _request, for a method that is not safe to repeat.                      *)

Carried(c) == carried' = [carried EXCEPT ![c] = @ + 1]

AttemptsLeft(c) == attempt[c] < MaxAttempts

NextAttempt(c) ==
    /\ AttemptsLeft(c)
    /\ attempt' = [attempt EXCEPT ![c] = @ + 1]
    /\ Goto(c, "get")
LastAttempt(c) == attempt[c] = MaxAttempts /\ Goto(c, "failed") /\ UNCHANGED attempt

SendCarried(c) ==
    /\ pc[c] = "send"
    /\ Carried(c)
    /\ Goto(c, "ok")
    /\ UNCHANGED <<tokenVars, timer, attempt, calm, faults>>

\* 401: the cached token is dropped, whichever it is by now.
SendUnauthorized(c) ==
    /\ pc[c] = "send" /\ Fault
    /\ token' = NoToken
    /\ NextAttempt(c) \/ LastAttempt(c)
    /\ UNCHANGED <<lock, lease, timer, issued, carried>>

\* 429 is tried again after a pause, another refusal is not.
SendRefused(c) ==
    /\ pc[c] = "send" /\ Fault
    /\ \/ NextAttempt(c)
       \/ Goto(c, "failed") /\ UNCHANGED attempt
    /\ UNCHANGED <<tokenVars, timer, carried>>

\* transport_retry_allowed (the mutant repeats every method).
Always == TRUE
TransportRetryAllowed == RetriesWrites

\* The request or its answer is lost: Zoho may have carried it out.
SendLost(c) ==
    /\ pc[c] = "send" /\ Fault
    /\ Carried(c) \/ UNCHANGED carried
    /\ \/ TransportRetryAllowed /\ NextAttempt(c)
       \/ /\ ~TransportRetryAllowed \/ attempt[c] = MaxAttempts
          /\ Goto(c, "failed") /\ UNCHANGED attempt
    /\ UNCHANGED <<tokenVars, timer>>

\* The process of a caller dies: its lock stays until it expires.
Die(c) ==
    /\ pc[c] \notin {"idle", "ok", "failed"} /\ Fault
    /\ issued' = [issued EXCEPT ![c] = 0]
    /\ Goto(c, "failed")
    /\ UNCHANGED <<token, lock, lease, timer, requestVars>>

-----------------------------------------------------------------------------
(* Time.                                                                   *)

\* A caller that neither sleeps between polls nor waits for an answer in time.
Prompt(c) ==
    \/ pc[c] \in {"get", "lock", "recheck", "release", "raise", "send"}
    \/ pc[c] = "poll" /\ (Cached \/ WindowOver(c))
    \/ pc[c] = "refresh" /\ timer[c] >= RefreshMax

\* A refresh that is not done when its lock expires.
Overrun(c) == pc[c] = "refresh" /\ timer[c] >= LockTtl

Less(n) == IF n > 0 THEN n - 1 ELSE 0
Timed(c) == pc[c] \in {"poll", "refresh"}

\* The mutant's lock key has no expiry.
NeverExpires == lock
LockAfterTick == IF lease' = 0 THEN Free ELSE lock

Tick ==
    /\ \A c \in Callers : ~Prompt(c)
    /\ token' = IF token.ttl =< 1 THEN NoToken
                ELSE [life |-> Less(token.life), ttl |-> token.ttl - 1]
    /\ lease' = Less(lease)
    /\ lock' = LockAfterTick
    /\ timer' = [c \in Callers |-> IF Timed(c) THEN timer[c] + 1 ELSE timer[c]]
    /\ issued' = [c \in Callers |-> Less(issued[c])]
    /\ UNCHANGED <<pc, requestVars, faults>>
    /\ calm' = IF \E c \in Callers : Overrun(c)' THEN {} ELSE calm

-----------------------------------------------------------------------------
Ensure(c) ==
    \/ GetToken(c) \/ TakeLock(c) \/ Poll(c) \/ Recheck(c) \/ Issue(c) \/ Store(c) \/ Release(c)
Answer(c) == SendCarried(c) \/ SendUnauthorized(c) \/ SendRefused(c) \/ SendLost(c)
Trouble(c) == RefreshFails(c) \/ Die(c)

Next ==
    \/ \E c \in Callers : Begin(c) \/ Ensure(c) \/ Answer(c) \/ Trouble(c)
    \/ Tick

Spec == Init /\ [][Next]_vars

\* Redis answers, a request is answered or given up, and time passes.
FairSpec ==
    /\ Spec
    /\ \A c \in Callers : WF_vars(Ensure(c)) /\ WF_vars(Answer(c))
    /\ WF_vars(Tick)

-----------------------------------------------------------------------------
(* Properties.                                                             *)

\* Every variable stays in its type.
TypeOK ==
    /\ token \in [life : 0..Validity, ttl : 0..Validity]
    /\ lock \in Callers \cup {Free} /\ lease \in 0..LockTtl
    /\ pc \in [Callers -> {"idle", "get", "lock", "poll", "recheck", "refresh", "release",
                           "raise", "send", "ok", "failed"}]
    /\ timer \in [Callers -> Nat] /\ issued \in [Callers -> 0..Validity]
    /\ attempt \in [Callers -> 0..MaxAttempts] /\ carried \in [Callers -> Nat]
    /\ calm \subseteq Callers /\ faults \in 0..MaxFaults

\* The cache never hands out a token that has expired at Zoho, however long
\* the refresh that brought it took: the buffer covers the way.
CachedTokenAlive == Cached => token.life > 0

\* Two callers refresh together only if the lock of one of them expired
\* under it: nobody releases the lock of another.
OneRefresher ==
    \A c, d \in Callers :
        c # d /\ pc[c] = "refresh" /\ pc[d] = "refresh" => Overrun(c) \/ Overrun(d)

\* A write that is not safe to repeat is carried out at most once per
\* _request, although answers get lost and tokens are refused.
CarriedOnce == \A c \in Callers : carried[c] =< 1

\* A poller runs into lock_timeout only if something went wrong while it
\* waited: a prompt refresh reaches everybody who waits for it.
TimeoutOnlyInTrouble ==
    [][\A c \in Callers : pc[c] = "poll" /\ pc'[c] = "failed" => c \notin calm']_vars

\* Once refreshes are prompt, a caller that keeps asking is served again and
\* again: no dead holder and no dropped token blocks it for ever.
CallersServed ==
    <>[](\A c \in Callers : ~Overrun(c))
        => \A c \in Callers : []<>(pc[c] = "get") => []<>(pc[c] = "ok")

\* The lock key with its owner token is a lease.
Inside == {c \in Callers : pc[c] \in {"recheck", "refresh", "release", "raise"}}
Contract == INSTANCE Lease WITH Clients <- Callers, holder <- lock, inside <- Inside
LockIsLease == Contract!Spec
=============================================================================
