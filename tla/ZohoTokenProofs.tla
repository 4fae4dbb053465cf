--------------------------- MODULE ZohoTokenProofs ---------------------------
(* The token cache and its refresh lock, for every number of callers, every *)
(* validity, buffer and TTL the assumptions admit, and every number of      *)
(* faults.                                                                  *)
EXTENDS ZohoToken, TLAPS

\* A token on its way has aged by no more than its caller has waited.
OnTheWay ==
    \A c \in Callers :
        /\ pc[c] = "recheck" => timer[c] = 0
        /\ pc[c] = "refresh" => timer[c] =< RefreshMax
        /\ issued[c] > 0 => pc[c] = "refresh" /\ issued[c] + timer[c] >= Validity

\* Redis drops a token before Zoho does.
CacheInv == token # NoToken => token.ttl >= 1 /\ token.life > token.ttl

\* Who is inside owns the lock exactly as long as its lease has not run out.
Holding(c) == pc[c] \in {"recheck", "refresh", "release", "raise"}
LeaseInv ==
    \A c \in Callers :
        Holding(c) => /\ lock = c <=> timer[c] < LockTtl
                      /\ lock = c => lease = LockTtl - timer[c]

\* A poller in whose wait nothing went wrong waits for a refresh that took the
\* lock before the poll began.
CalmInv ==
    \A c \in calm :
        pc[c] = "poll" /\ ~Cached =>
            \E d \in Callers : /\ pc[d] \in {"recheck", "refresh"}
                               /\ timer[c] =< timer[d]
                               /\ timer[d] < LockTtl

ZInv == TypeOK /\ OnTheWay /\ CacheInv /\ LeaseInv /\ CalmInv

\* A request is on its way only if it has not been carried out.
CarriedInv ==
    \A c \in Callers :
        carried[c] =< 1 /\ (pc[c] \notin {"ok", "failed"} => carried[c] = 0)

Labels == {"idle", "get", "lock", "poll", "recheck", "refresh", "release", "raise", "send",
           "ok", "failed"}

\* The constants, and the TTL of the cache between them.
LEMMA Times ==
    /\ Validity \in Nat /\ Buffer \in Nat /\ LockTtl \in Nat /\ LockTtl > 0
    /\ RefreshMax \in Nat /\ PollWindow \in Nat /\ RefreshMax < Buffer
    /\ MaxAttempts \in Nat /\ MaxAttempts > 0 /\ MaxFaults \in Nat
    /\ CacheTtl \in 1..Validity /\ CacheTtl = Validity - Buffer
  BY TimesAssumption, AttemptsAssumption DEF CacheTtl

\* The initial state has the invariant.
LEMMA InitZ == Init => ZInv /\ CarriedInv
<1> SUFFICES ASSUME Init PROVE ZInv /\ CarriedInv
  OBVIOUS
<1>1. TypeOK
  BY Times DEF Init, TypeOK, NoToken
<1> QED BY <1>1 DEF Init, ZInv, OnTheWay, CacheInv, LeaseInv, Holding, CalmInv, CarriedInv

\* The types.
LEMMA TypeStep == TypeOK /\ OnTheWay /\ [Next]_vars => TypeOK'
<1> SUFFICES ASSUME TypeOK, OnTheWay, [Next]_vars PROVE TypeOK'
  OBVIOUS
<1> USE Times DEF TypeOK, tokenVars, requestVars, Goto, Fault
<1>1. CASE UNCHANGED vars
  BY <1>1 DEF vars
<1>2. CASE Tick
  <2>1. \A n \in 0..Validity : Less(n) \in 0..Validity
    BY DEF Less
  <2>2. lease' \in 0..LockTtl /\ lock' \in Callers \cup {Free}
    BY <1>2 DEF Tick, Less, LockAfterTick
  <2>3. issued' \in [Callers -> 0..Validity]
    BY <1>2, <2>1 DEF Tick
  <2>4. timer' \in [Callers -> Nat]
    BY <1>2 DEF Tick
  <2>5. token' \in [life : 0..Validity, ttl : 0..Validity]
    BY <1>2, <2>1 DEF Tick, NoToken
  <2> QED BY <1>2, <2>2, <2>3, <2>4, <2>5 DEF Tick
<1>3. ASSUME NEW c \in Callers, Begin(c) PROVE TypeOK'
  BY <1>3 DEF Begin
<1>4. ASSUME NEW c \in Callers, GetToken(c) PROVE TypeOK'
  BY <1>4 DEF GetToken
<1>5. ASSUME NEW c \in Callers, TakeLock(c) PROVE TypeOK'
  BY <1>5 DEF TakeLock, LockExpiry
<1>6. ASSUME NEW c \in Callers, Poll(c) PROVE TypeOK'
  BY <1>6 DEF Poll
<1>7. ASSUME NEW c \in Callers, Recheck(c) PROVE TypeOK'
  BY <1>7 DEF Recheck
<1>8. ASSUME NEW c \in Callers, Issue(c) PROVE TypeOK'
  BY <1>8 DEF Issue
<1>9. ASSUME NEW c \in Callers, Store(c) PROVE TypeOK'
  BY <1>9 DEF Store
<1>10. ASSUME NEW c \in Callers, RefreshFails(c) PROVE TypeOK'
  BY <1>10 DEF RefreshFails
<1>11. ASSUME NEW c \in Callers, Release(c) PROVE TypeOK'
  BY <1>11 DEF Release, Released
<1>12. ASSUME NEW c \in Callers, SendCarried(c) PROVE TypeOK'
  BY <1>12 DEF SendCarried, Carried
<1>13. ASSUME NEW c \in Callers, SendUnauthorized(c) PROVE TypeOK'
  BY <1>13 DEF SendUnauthorized, NoToken, NextAttempt, LastAttempt, AttemptsLeft
<1>14. ASSUME NEW c \in Callers, SendRefused(c) PROVE TypeOK'
  BY <1>14 DEF SendRefused, NextAttempt, AttemptsLeft
<1>15. ASSUME NEW c \in Callers, SendLost(c) PROVE TypeOK'
  BY <1>15 DEF SendLost, Carried, NextAttempt, AttemptsLeft
<1>16. ASSUME NEW c \in Callers, Die(c) PROVE TypeOK'
  BY <1>16 DEF Die
<1> QED BY <1>1, <1>2, <1>3, <1>4, <1>5, <1>6, <1>7, <1>8, <1>9, <1>10, <1>11, <1>12, <1>13,
           <1>14, <1>15, <1>16 DEF Next, Ensure, Answer, Trouble

\* A token on its way keeps up with the time its caller has waited.
LEMMA OnTheWayStep == TypeOK /\ OnTheWay /\ [Next]_vars => OnTheWay'
<1> SUFFICES ASSUME TypeOK, OnTheWay, [Next]_vars PROVE OnTheWay'
  OBVIOUS
<1> USE Times DEF TypeOK, OnTheWay, tokenVars, requestVars, Goto, Fault
<1>1. CASE UNCHANGED vars
  BY <1>1 DEF vars
<1>2. CASE Tick
  <2> SUFFICES ASSUME NEW c \in Callers
               PROVE  /\ pc[c] = "recheck" => timer'[c] = 0
                      /\ pc[c] = "refresh" => timer'[c] =< RefreshMax
                      /\ issued'[c] > 0 => pc[c] = "refresh" /\ issued'[c] + timer'[c] >= Validity
    BY <1>2 DEF Tick
  <2>1. ~Prompt(c)
    BY <1>2 DEF Tick
  <2>2. pc[c] # "recheck" /\ (pc[c] = "refresh" => timer[c] < RefreshMax)
    BY <2>1 DEF Prompt
  <2>3. timer'[c] = IF Timed(c) THEN timer[c] + 1 ELSE timer[c]
    BY <1>2 DEF Tick
  <2>4. issued'[c] = Less(issued[c])
    BY <1>2 DEF Tick
  <2> QED BY <2>2, <2>3, <2>4 DEF Timed, Less
<1>3. ASSUME NEW c \in Callers, Begin(c) PROVE OnTheWay'
  BY <1>3 DEF Begin
<1>4. ASSUME NEW c \in Callers, GetToken(c) PROVE OnTheWay'
  BY <1>4 DEF GetToken
<1>5. ASSUME NEW c \in Callers, TakeLock(c) PROVE OnTheWay'
  BY <1>5 DEF TakeLock
<1>6. ASSUME NEW c \in Callers, Poll(c) PROVE OnTheWay'
  BY <1>6 DEF Poll
<1>7. ASSUME NEW c \in Callers, Recheck(c) PROVE OnTheWay'
  BY <1>7 DEF Recheck
<1>8. ASSUME NEW c \in Callers, Issue(c) PROVE OnTheWay'
  BY <1>8 DEF Issue
<1>9. ASSUME NEW c \in Callers, Store(c) PROVE OnTheWay'
  BY <1>9 DEF Store
<1>10. ASSUME NEW c \in Callers, RefreshFails(c) PROVE OnTheWay'
  BY <1>10 DEF RefreshFails
<1>11. ASSUME NEW c \in Callers, Release(c) PROVE OnTheWay'
  BY <1>11 DEF Release
<1>12. ASSUME NEW c \in Callers, SendCarried(c) PROVE OnTheWay'
  BY <1>12 DEF SendCarried
<1>13. ASSUME NEW c \in Callers, SendUnauthorized(c) PROVE OnTheWay'
  BY <1>13 DEF SendUnauthorized, NextAttempt, LastAttempt
<1>14. ASSUME NEW c \in Callers, SendRefused(c) PROVE OnTheWay'
  BY <1>14 DEF SendRefused, NextAttempt
<1>15. ASSUME NEW c \in Callers, SendLost(c) PROVE OnTheWay'
  BY <1>15 DEF SendLost, NextAttempt
<1>16. ASSUME NEW c \in Callers, Die(c) PROVE OnTheWay'
  BY <1>16 DEF Die
<1> QED BY <1>1, <1>2, <1>3, <1>4, <1>5, <1>6, <1>7, <1>8, <1>9, <1>10, <1>11, <1>12, <1>13,
           <1>14, <1>15, <1>16 DEF Next, Ensure, Answer, Trouble

\* A stored token outlives its time in the cache.
LEMMA CacheStep == TypeOK /\ OnTheWay /\ CacheInv /\ [Next]_vars => CacheInv'
<1> SUFFICES ASSUME TypeOK, OnTheWay, CacheInv, [Next]_vars PROVE CacheInv'
  OBVIOUS
<1> USE Times DEF CacheInv, tokenVars
<1>1. CASE UNCHANGED vars
  BY <1>1 DEF vars
<1>2. CASE Tick
  <2>1. token.life \in 0..Validity /\ token.ttl \in 0..Validity
    BY DEF TypeOK
  <2>2. token' = IF token.ttl =< 1 THEN NoToken
                 ELSE [life |-> Less(token.life), ttl |-> token.ttl - 1]
    BY <1>2 DEF Tick
  <2>3. CASE token = NoToken
    BY <2>2, <2>3 DEF NoToken
  <2>4. CASE token # NoToken
    BY <2>1, <2>2, <2>4 DEF Less
  <2> QED BY <2>3, <2>4
<1>3. ASSUME NEW c \in Callers, Store(c) PROVE CacheInv'
  <2>1. token' = [life |-> issued[c], ttl |-> CacheTtl]
    BY <1>3 DEF Store
  <2>2. /\ issued[c] \in Nat /\ timer[c] \in Nat /\ timer[c] =< RefreshMax
        /\ issued[c] + timer[c] >= Validity
    BY <1>3 DEF Store, OnTheWay, TypeOK
  <2>3. issued[c] > CacheTtl
    BY <2>2
  <2> QED BY <2>1, <2>2, <2>3
<1>4. ASSUME NEW c \in Callers, SendUnauthorized(c) PROVE CacheInv'
  BY <1>4 DEF SendUnauthorized
<1>5. ASSUME NEW c \in Callers,
             \/ Begin(c) \/ GetToken(c) \/ TakeLock(c) \/ Poll(c) \/ Recheck(c) \/ Issue(c)
             \/ RefreshFails(c) \/ Release(c)
             \/ SendCarried(c) \/ SendRefused(c) \/ SendLost(c) \/ Die(c)
      PROVE  CacheInv'
  BY <1>5 DEF Begin, GetToken, TakeLock, Poll, Recheck, Issue, RefreshFails, Release,
              SendCarried, SendRefused, SendLost, Die
<1> QED BY <1>1, <1>2, <1>3, <1>4, <1>5 DEF Next, Ensure, Answer, Trouble

\* The lock and the lease of who is inside.
LEMMA LeaseStep == TypeOK /\ OnTheWay /\ LeaseInv /\ [Next]_vars => LeaseInv'
<1> SUFFICES ASSUME TypeOK, OnTheWay, LeaseInv, [Next]_vars PROVE LeaseInv'
  OBVIOUS
<1> USE Times, OwnersAssumption DEF TypeOK, LeaseInv, Holding, tokenVars, requestVars, Goto, Fault
<1>1. CASE UNCHANGED vars
  BY <1>1 DEF vars
<1>2. CASE Tick
  <2> SUFFICES ASSUME NEW c \in Callers, Holding(c)
               PROVE  /\ lock' = c <=> timer'[c] < LockTtl
                      /\ lock' = c => lease' = LockTtl - timer'[c]
    BY <1>2 DEF Tick
  <2>1. ~Prompt(c)
    BY <1>2 DEF Tick
  <2>2. pc[c] = "refresh" /\ timer'[c] = timer[c] + 1
    BY <1>2, <2>1 DEF Prompt, Tick, Timed
  <2>3. lease' = Less(lease) /\ lock' = IF lease' = 0 THEN Free ELSE lock
    BY <1>2 DEF Tick, LockAfterTick
  <2>4. lease \in Nat /\ timer[c] \in Nat /\ c # Free
    OBVIOUS
  <2> QED BY <2>2, <2>3, <2>4 DEF Less
<1>3. ASSUME NEW c \in Callers, Begin(c) PROVE LeaseInv'
  BY <1>3 DEF Begin
<1>4. ASSUME NEW c \in Callers, GetToken(c) PROVE LeaseInv'
  BY <1>4 DEF GetToken
<1>5. ASSUME NEW c \in Callers, TakeLock(c) PROVE LeaseInv'
  BY <1>5 DEF TakeLock, LockExpiry
<1>6. ASSUME NEW c \in Callers, Poll(c) PROVE LeaseInv'
  BY <1>6 DEF Poll
<1>7. ASSUME NEW c \in Callers, Recheck(c) PROVE LeaseInv'
  BY <1>7 DEF Recheck
<1>8. ASSUME NEW c \in Callers, Issue(c) PROVE LeaseInv'
  BY <1>8 DEF Issue
<1>9. ASSUME NEW c \in Callers, Store(c) PROVE LeaseInv'
  BY <1>9 DEF Store
<1>10. ASSUME NEW c \in Callers, RefreshFails(c) PROVE LeaseInv'
  BY <1>10 DEF RefreshFails
<1>11. ASSUME NEW c \in Callers, Release(c) PROVE LeaseInv'
  BY <1>11 DEF Release, Released
<1>12. ASSUME NEW c \in Callers, SendCarried(c) PROVE LeaseInv'
  BY <1>12 DEF SendCarried
<1>13. ASSUME NEW c \in Callers, SendUnauthorized(c) PROVE LeaseInv'
  BY <1>13 DEF SendUnauthorized, NextAttempt, LastAttempt
<1>14. ASSUME NEW c \in Callers, SendRefused(c) PROVE LeaseInv'
  BY <1>14 DEF SendRefused, NextAttempt
<1>15. ASSUME NEW c \in Callers, SendLost(c) PROVE LeaseInv'
  BY <1>15 DEF SendLost, NextAttempt
<1>16. ASSUME NEW c \in Callers, Die(c) PROVE LeaseInv'
  BY <1>16 DEF Die
<1> QED BY <1>1, <1>2, <1>3, <1>4, <1>5, <1>6, <1>7, <1>8, <1>9, <1>10, <1>11, <1>12, <1>13,
           <1>14, <1>15, <1>16 DEF Next, Ensure, Answer, Trouble

\* A poller in whose wait nothing went wrong has its refresher.
LEMMA CalmStep ==
    TypeOK /\ OnTheWay /\ LeaseInv /\ CalmInv /\ [Next]_vars => CalmInv'
<1> SUFFICES ASSUME TypeOK, OnTheWay, LeaseInv, CalmInv, [Next]_vars PROVE CalmInv'
  OBVIOUS
<1> USE Times DEF TypeOK, tokenVars, requestVars, Goto, Fault
<1>1. CASE UNCHANGED vars
  BY <1>1 DEF vars, CalmInv, Cached
<1>2. CASE Tick
  <2>1. CASE calm' = {}
    BY <2>1 DEF CalmInv
  <2>2. CASE calm' # {}
    <3>1. calm' = calm /\ \A d \in Callers : ~Overrun(d)'
      BY <1>2, <2>2 DEF Tick
    <3> SUFFICES ASSUME NEW c \in calm, pc[c] = "poll"
                 PROVE  \E d \in Callers : /\ pc[d] \in {"recheck", "refresh"}
                                           /\ timer'[c] =< timer'[d]
                                           /\ timer'[d] < LockTtl
      BY <1>2, <3>1 DEF Tick, CalmInv
    <3>2. ~Cached
      BY <1>2 DEF Tick, Prompt
    <3>3. PICK d \in Callers : /\ pc[d] \in {"recheck", "refresh"}
                               /\ timer[c] =< timer[d]
                               /\ timer[d] < LockTtl
      BY <3>2 DEF CalmInv
    <3>4. pc[d] = "refresh" /\ pc'[d] = "refresh"
      BY <1>2, <3>3 DEF Tick, Prompt
    <3>5. timer'[c] = timer[c] + 1 /\ timer'[d] = timer[d] + 1
      BY <1>2, <3>4 DEF Tick, Timed
    <3>6. timer'[d] < LockTtl
      BY <3>1, <3>4, <3>5 DEF Overrun
    <3> QED BY <3>3, <3>4, <3>5, <3>6
  <2> QED BY <2>1, <2>2
<1>3. ASSUME NEW b \in Callers, TakeLock(b) PROVE CalmInv'
  <2> SUFFICES ASSUME NEW c \in calm', pc'[c] = "poll", ~Cached
               PROVE  \E d \in Callers : /\ pc'[d] \in {"recheck", "refresh"}
                                         /\ timer'[c] =< timer'[d]
                                         /\ timer'[d] < LockTtl
    BY <1>3 DEF TakeLock, CalmInv, Cached
  <2>1. /\ pc[b] = "lock" /\ timer' = [timer EXCEPT ![b] = 0]
        /\ \A d \in Callers : d # b => pc'[d] = pc[d]
    BY <1>3 DEF TakeLock
  <2>2. CASE c # b
    <3>1. c \in calm /\ pc[c] = "poll"
      BY <1>3, <2>1, <2>2 DEF TakeLock
    <3>2. PICK d \in Callers : /\ pc[d] \in {"recheck", "refresh"}
                               /\ timer[c] =< timer[d]
                               /\ timer[d] < LockTtl
      BY <3>1 DEF CalmInv
    <3> QED BY <2>1, <2>2, <3>1, <3>2
  <2>3. CASE c = b
    <3>1. PICK d \in Callers : lock = d /\ OnItsWay(d)
      BY <1>3, <2>3 DEF TakeLock
    <3>2. pc[d] \in {"recheck", "refresh"} /\ d # b
      BY <2>1, <3>1 DEF OnItsWay
    <3>3. timer[d] < LockTtl
      BY <3>1, <3>2 DEF LeaseInv, Holding
    <3> QED BY <2>1, <2>3, <3>2, <3>3
  <2> QED BY <2>2, <2>3
<1>4. ASSUME NEW b \in Callers, Store(b) PROVE CalmInv'
  <2>1. token'.ttl = CacheTtl
    BY <1>4 DEF Store
  <2>2. Cached'
    BY <2>1 DEF Cached, NoToken
  <2> QED BY <2>2 DEF CalmInv
<1>5. ASSUME NEW b \in Callers,
             \/ RefreshFails(b) \/ Die(b)
             \/ SendUnauthorized(b) \/ SendRefused(b) \/ SendLost(b)
      PROVE  CalmInv'
  BY <1>5 DEF RefreshFails, Die, SendUnauthorized, SendRefused, SendLost, CalmInv
<1>6. ASSUME NEW b \in Callers,
             \/ Begin(b) \/ GetToken(b) \/ Poll(b) \/ Issue(b) \/ Release(b) \/ SendCarried(b)
      PROVE  CalmInv'
  <2>1. UNCHANGED <<token, timer, calm>>
    BY <1>6 DEF Begin, GetToken, Poll, Issue, Release, SendCarried
  <2>2. CASE pc' = pc
    BY <2>1, <2>2 DEF CalmInv, Cached
  <2>3. CASE pc' # pc
    <3>1. /\ \A d \in Callers : d # b => pc'[d] = pc[d]
          /\ pc'[b] # "poll" /\ pc[b] \notin {"recheck", "refresh"}
      BY <1>6, <2>3 DEF Begin, GetToken, Poll, Issue, Release, SendCarried
    <3> QED BY <2>1, <3>1 DEF CalmInv, Cached
  <2> QED BY <2>2, <2>3
<1>7. ASSUME NEW b \in Callers, Recheck(b) PROVE CalmInv'
  <2>1. /\ UNCHANGED <<token, timer, calm>>
        /\ pc[b] = "recheck" /\ pc'[b] \in {"release", "refresh"}
        /\ ~Cached => pc'[b] = "refresh"
        /\ \A d \in Callers : d # b => pc'[d] = pc[d]
    BY <1>7 DEF Recheck
  <2> QED BY <2>1 DEF CalmInv, Cached
<1> QED BY <1>1, <1>2, <1>3, <1>4, <1>5, <1>6, <1>7 DEF Next, Ensure, Answer, Trouble

\* The invariant of the specification.
LEMMA ZInvariant == Spec => []ZInv
<1>1. Init => ZInv
  BY InitZ
<1>2. ZInv /\ [Next]_vars => ZInv'
  BY TypeStep, OnTheWayStep, CacheStep, LeaseStep, CalmStep DEF ZInv
<1> QED BY <1>1, <1>2, PTL DEF Spec

----------------------------------------------------------------------------
\* Every variable stays in its type.
THEOREM TypeCorrect == Spec => []TypeOK
<1>1. ZInv => TypeOK
  BY DEF ZInv
<1> QED BY <1>1, ZInvariant, PTL

\* The cache never hands out a token Zoho no longer honours: the buffer
\* outweighs the longest refresh.
THEOREM CachedTokenAliveHolds == Spec => []CachedTokenAlive
<1>1. ZInv => CachedTokenAlive
  BY DEF ZInv, TypeOK, CacheInv, CachedTokenAlive, Cached
<1> QED BY <1>1, ZInvariant, PTL

\* Two callers refresh together only when a lock ran out under one of them.
THEOREM OneRefresherHolds == Spec => []OneRefresher
<1>1. ZInv => OneRefresher
  BY Times DEF ZInv, TypeOK, LeaseInv, Holding, OneRefresher, Overrun
<1> QED BY <1>1, ZInvariant, PTL

\* A poller runs into lock_timeout only after some trouble, if the lock does
\* not outlast its wait.
THEOREM TimeoutOnlyInTroubleHolds ==
    ASSUME LockTtl =< PollWindow PROVE Spec => TimeoutOnlyInTrouble
<1> DEFINE Step == \A c \in Callers : pc[c] = "poll" /\ pc'[c] = "failed" => c \notin calm'
<1>1. ZInv /\ [Next]_vars => [Step]_vars
  <2> SUFFICES ASSUME ZInv, Next, NEW c \in Callers, pc[c] = "poll", pc'[c] = "failed", c \in calm'
               PROVE  FALSE
    BY DEF vars
  <2>1. CASE Poll(c)
    <3>1. ~Cached /\ WindowOver(c) /\ c \in calm
      BY <2>1 DEF Poll, Goto, ZInv, TypeOK
    <3>2. PICK d \in Callers : timer[c] =< timer[d] /\ timer[d] < LockTtl
      BY <3>1 DEF ZInv, CalmInv
    <3> QED BY <3>1, <3>2, Times DEF WindowOver, ZInv, TypeOK
  <2>2. CASE Die(c)
    BY <2>2 DEF Die, Fault
  <2>3. CASE Tick
    BY <2>3 DEF Tick
  <2>4. ASSUME NEW b \in Callers, Begin(b) \/ Ensure(b) \/ Answer(b) \/ Trouble(b)
        PROVE  Poll(c) \/ Die(c)
    <3>1. \A d \in Callers : d # b => pc'[d] = pc[d]
      BY <2>4 DEF Begin, Ensure, GetToken, TakeLock, Poll, Recheck, Issue, Store, Release, Answer,
                  SendCarried, SendUnauthorized, SendRefused, SendLost, NextAttempt, LastAttempt,
                  Trouble, RefreshFails, Die, Goto, ZInv, TypeOK
    <3>2. b = c
      BY <3>1
    <3> QED BY <2>4, <3>2 DEF Begin, Ensure, GetToken, TakeLock, Recheck, Issue, Store, Release,
               Answer,
                  SendCarried, SendUnauthorized, SendRefused, SendLost, Trouble, RefreshFails
  <2> QED BY <2>1, <2>2, <2>3, <2>4 DEF Next
<1> QED BY <1>1, ZInvariant, PTL DEF Spec, TimeoutOnlyInTrouble

\* Zoho CRM repeats no write whose answer was lost: it carries out at most one.
THEOREM CarriedOnceHolds == ASSUME ~RetriesWrites PROVE Spec => []CarriedOnce
<1>1. Init => CarriedInv
  BY InitZ
<1>2. TypeOK /\ CarriedInv /\ [Next]_vars => CarriedInv'
  <2> SUFFICES ASSUME TypeOK, CarriedInv, [Next]_vars PROVE CarriedInv'
    OBVIOUS
  <2> USE DEF TypeOK, CarriedInv, requestVars, Goto, Fault
  <2>1. CASE UNCHANGED vars \/ Tick
    BY <2>1 DEF vars, Tick
  <2>2. ASSUME NEW c \in Callers, Begin(c) PROVE CarriedInv'
    BY <2>2 DEF Begin
  <2>3. ASSUME NEW c \in Callers, GetToken(c) PROVE CarriedInv'
    BY <2>3 DEF GetToken
  <2>4. ASSUME NEW c \in Callers, TakeLock(c) PROVE CarriedInv'
    BY <2>4 DEF TakeLock
  <2>5. ASSUME NEW c \in Callers, Poll(c) PROVE CarriedInv'
    BY <2>5 DEF Poll
  <2>6. ASSUME NEW c \in Callers, Recheck(c) PROVE CarriedInv'
    BY <2>6 DEF Recheck
  <2>7. ASSUME NEW c \in Callers, Issue(c) PROVE CarriedInv'
    BY <2>7 DEF Issue
  <2>8. ASSUME NEW c \in Callers, Store(c) PROVE CarriedInv'
    BY <2>8 DEF Store
  <2>9. ASSUME NEW c \in Callers, RefreshFails(c) PROVE CarriedInv'
    BY <2>9 DEF RefreshFails
  <2>10. ASSUME NEW c \in Callers, Release(c) PROVE CarriedInv'
    BY <2>10 DEF Release
  <2>11. ASSUME NEW c \in Callers, SendCarried(c) PROVE CarriedInv'
    BY <2>11 DEF SendCarried, Carried
  <2>12. ASSUME NEW c \in Callers, SendUnauthorized(c) PROVE CarriedInv'
    BY <2>12 DEF SendUnauthorized, NextAttempt, LastAttempt
  <2>13. ASSUME NEW c \in Callers, SendRefused(c) PROVE CarriedInv'
    BY <2>13 DEF SendRefused, NextAttempt
  <2>14. ASSUME NEW c \in Callers, SendLost(c) PROVE CarriedInv'
    BY <2>14 DEF SendLost, NextAttempt, Carried, TransportRetryAllowed
  <2>15. ASSUME NEW c \in Callers, Die(c) PROVE CarriedInv'
    BY <2>15 DEF Die
  <2> QED BY <2>1, <2>2, <2>3, <2>4, <2>5, <2>6, <2>7, <2>8, <2>9, <2>10, <2>11, <2>12, <2>13,
             <2>14, <2>15 DEF Next, Ensure, Answer, Trouble
<1>3. CarriedInv => CarriedOnce
  BY DEF CarriedInv, CarriedOnce
<1> QED BY <1>1, <1>2, <1>3, TypeCorrect, PTL DEF Spec

\* The lock key with its owner token is a lease.
LEMMA InitLease == Init => Contract!Init
  BY DEF Init, Contract!Init, Inside

LEMMA NextLease == TypeOK /\ [Next]_vars => [Contract!Next]_<<lock, Inside>>
<1> SUFFICES ASSUME TypeOK, [Next]_vars PROVE [Contract!Next]_<<lock, Inside>>
  OBVIOUS
<1> USE DEF TypeOK, Inside, tokenVars, requestVars, Goto
<1>1. CASE UNCHANGED vars
  BY <1>1 DEF vars
<1>2. CASE Tick
  <2>1. Inside' = Inside /\ (lock' = lock \/ lock' = Free)
    BY <1>2 DEF Tick, LockAfterTick
  <2> QED BY <2>1 DEF Contract!Next, Contract!RunOut
<1>3. ASSUME NEW c \in Callers, TakeLock(c) PROVE [Contract!Next]_<<lock, Inside>>
  <2>1. CASE lock = Free
    <3>1. lock' = c /\ c \notin Inside /\ Inside' = Inside \cup {c}
      BY <1>3, <2>1 DEF TakeLock
    <3> QED BY <2>1, <3>1 DEF Contract!Next, Contract!Take
  <2>2. CASE lock # Free
    BY <1>3, <2>2 DEF TakeLock
  <2> QED BY <2>1, <2>2
<1>4. ASSUME NEW c \in Callers, Release(c) PROVE [Contract!Next]_<<lock, Inside>>
  <2>1. c \in Inside /\ Inside' = Inside \ {c} /\ lock' = IF lock = c THEN Free ELSE lock
    BY <1>4 DEF Release, Released
  <2> QED BY <2>1 DEF Contract!Next, Contract!Leave
<1>5. ASSUME NEW c \in Callers, Die(c) PROVE [Contract!Next]_<<lock, Inside>>
  <2>1. lock' = lock /\ Inside' = Inside \ {c}
    BY <1>5 DEF Die
  <2>2. c \notin Inside => Inside' = Inside
    BY <2>1
  <2> QED BY <2>1, <2>2 DEF Contract!Next, Contract!Abandon
<1>6. ASSUME NEW c \in Callers,
             \/ Begin(c) \/ GetToken(c) \/ Poll(c) \/ Recheck(c) \/ Issue(c) \/ Store(c)
             \/ RefreshFails(c)
      PROVE  UNCHANGED <<lock, Inside>>
  BY <1>6 DEF Begin, GetToken, Poll, Recheck, Issue, Store, RefreshFails
<1>7. ASSUME NEW c \in Callers, Answer(c) PROVE UNCHANGED <<lock, Inside>>
  BY <1>7 DEF Answer, SendCarried, SendUnauthorized, SendRefused, SendLost, NextAttempt, LastAttempt
<1> QED BY <1>1, <1>2, <1>3, <1>4, <1>5, <1>6, <1>7 DEF Next, Ensure, Trouble

\* SET NX EX and the compared delete implement the lease, for any number of
\* callers, deaths and overlong refreshes.
THEOREM LeaseImplemented == Spec => LockIsLease
<1> QED BY InitLease, NextLease, TypeCorrect, PTL DEF Spec, LockIsLease, Contract!Spec
=============================================================================
