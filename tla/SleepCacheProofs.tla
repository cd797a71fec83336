-------------------------- MODULE SleepCacheProofs --------------------------
(* What holds of SleepCache for any number of requests, ids and tries, with *)
(* every fault, and with or without the mutex.                              *)
EXTENDS SleepLocking, TLAPS

\* The locals of a request at a step.
JobOK(p, j) ==
    /\ p # "idle" => j.duration \in Duration
    /\ p \in {"get", "lock", "mark", "retryUnlock"} => j.tries < MaxTries
    /\ p \in {"get", "lock", "mark", "retryUnlock", "failUnlock"} => ~j.leads
    /\ p \in {"lock", "mark"} => j.id \in Id

JobInv == \A r \in Req : JobOK(pc[r], job[r])
TypeInv == TypeOK /\ JobInv

\* What is about to be cached has been slept.
CachedInv == CachedWasSlept
             /\ \A r \in Req : pc[r] = "fill" => <<job[r].id, job[r].duration>> \in slept

\* Whoever is in a section has made the key, and nobody else makes another.
SectionInv ==
    SectionsExclusive
    /\ (~MutexDisabled => /\ \A r \in Req : InSection(r) => mutex
                          /\ Pruning => mutex)

\* A leader's marker stands until its sleep is cached, and a request that is about
\* to remove a marker has cached its sleep, unless the request is excused.
Covered(r) == sleeps[job[r].id] # Uncached \/ r \in excused
CoveredNext(r) == sleeps'[job'[r].id] # Uncached \/ r \in excused'
Unmarking(r) == pc[r] \in {"unmarkLock", "unmark"}
LeadInv ==
    /\ OneLeader
    /\ \A r \in Req :
          /\ Leading(r) => job[r].id \in marks \/ Covered(r)
          /\ Unmarking(r) => Covered(r)

-----------------------------------------------------------------------------
(* A step of one request *)

\* A request moves nobody but itself.
LEMMA OnlyMine ==
    ASSUME TypeOK, NEW r \in Req, Start(r) \/ ReqNext(r)
    PROVE  \A s \in Req \ {r} : pc'[s] = pc[s] /\ job'[s] = job[s]
  BY DEF Start, ReqNext, MarkLock, UnmarkLock, LockStep, Get, Mark, MarkUnlock, Sql, Fill, Unmark,
         UnmarkUnlock, Advance, Goto, Answer, Retry, TypeOK

\* Where a request may go, and with which locals.
LEMMA MineMoves ==
    ASSUME TypeInv, NEW r \in Req, Start(r) \/ ReqNext(r)
    PROVE  /\ pc' \in [Req -> Pc] /\ job' \in [Req -> Job]
           /\ JobOK(pc'[r], job'[r])
<1> USE SleepAssumption
<1> DEFINE Goal == pc' \in [Req -> Pc] /\ job' \in [Req -> Job] /\ JobOK(pc'[r], job'[r])
<1>1. pc \in [Req -> Pc] /\ job \in [Req -> Job] /\ JobOK(pc[r], job[r])
  BY DEF TypeInv, TypeOK, JobInv
<1>2. ASSUME NEW p \in Pc, NEW j \in Job, JobOK(p, j), Goto(r, p), job' = [job EXCEPT ![r] = j]
      PROVE  Goal
  BY <1>1, <1>2 DEF Goto
<1>3. ASSUME NEW p \in Pc, JobOK(p, job[r]), Goto(r, p), UNCHANGED job
      PROVE  Goal
  BY <1>1, <1>3 DEF Goto
<1>4. ASSUME Answer(r) PROVE Goal
  <2>1. NoJob \in Job /\ JobOK("idle", NoJob) /\ "idle" \in Pc
    BY DEF NoJob, Job, JobOK, Field, Pc
  <2>2. QED
    BY <1>2, <1>4, <2>1 DEF Answer
<1>5. ASSUME Retry(r), pc[r] \in {"get", "retryUnlock"} PROVE Goal
  <2> DEFINE more == [job[r] EXCEPT !.tries = @ + 1]
  <2>1. more \in Job /\ (more.tries < MaxTries <=> job[r].tries + 1 < MaxTries)
        /\ ~more.leads /\ more.duration = job[r].duration
    BY <1>1, <1>5 DEF Job, JobOK
  <2>2. job' = [job EXCEPT ![r] = more]
    BY <1>5 DEF Retry
  <2>3. more.duration \in Duration
    BY <1>1, <1>5, <2>1 DEF JobOK
  <2>4. CASE job[r].tries + 1 < MaxTries
    BY <1>2, <1>5, <2>1, <2>2, <2>3, <2>4 DEF Retry, JobOK, Pc
  <2>5. CASE ~(job[r].tries + 1 < MaxTries)
    BY <1>2, <1>5, <2>1, <2>2, <2>3, <2>5 DEF Retry, JobOK, Pc
  <2>6. QED
    BY <2>4, <2>5
<1>6. CASE Start(r)
  <2> PICK id \in Field, d \in Duration :
         /\ Goto(r, "get")
         /\ job' = [job EXCEPT ![r] = [id |-> id, duration |-> d, tries |-> 0, leads |-> FALSE]]
    BY <1>6 DEF Start
  <2> DEFINE asked == [id |-> id, duration |-> d, tries |-> 0, leads |-> FALSE]
  <2>1. asked \in Job /\ JobOK("get", asked)
    BY DEF Job, JobOK
  <2>2. QED
    BY <1>2, <2>1 DEF Pc
<1>7. CASE Mark(r)
  <2>1. pc[r] = "mark"
    BY <1>7 DEF Mark
  <2>2. \/ (Goto(r, "failUnlock") \/ Goto(r, "retryUnlock")) /\ UNCHANGED job
        \/ Goto(r, "leadUnlock") /\ job' = [job EXCEPT ![r].leads = TRUE]
    BY <1>7 DEF Mark
  <2>3. CASE UNCHANGED job
    BY <1>1, <1>3, <2>1, <2>2, <2>3 DEF JobOK, Pc
  <2>4. CASE Goto(r, "leadUnlock") /\ job' = [job EXCEPT ![r].leads = TRUE]
    <3> DEFINE leader == [job[r] EXCEPT !.leads = TRUE]
    <3>1. leader \in Job /\ JobOK("leadUnlock", leader)
      BY <1>1, <2>1 DEF Job, JobOK
    <3>2. QED
      BY <1>2, <2>4, <3>1 DEF Pc
  <2>5. QED
    BY <2>2, <2>3, <2>4
<1>8. CASE MarkLock(r)
  BY <1>1, <1>3, <1>8 DEF MarkLock, LockStep, Advance, JobOK, Pc
<1>9. CASE UnmarkLock(r)
  BY <1>1, <1>3, <1>9 DEF UnmarkLock, LockStep, Advance, JobOK, Pc
<1>10. CASE Get(r)
  <2>1. pc[r] = "get"
        /\ \/ Answer(r) \/ Retry(r)
           \/ Goto(r, "sql") /\ UNCHANGED job
           \/ job[r].id # NoId /\ Goto(r, "lock") /\ UNCHANGED job
    BY <1>10 DEF Get
  <2>2. QED
    BY <1>1, <1>3, <1>4, <1>5, <2>1 DEF JobOK, Job, Field, Pc
<1>11. CASE MarkUnlock(r)
  BY <1>1, <1>3, <1>5, <1>11 DEF MarkUnlock, Advance, JobOK, Pc
<1>12. CASE Sql(r)
  BY <1>1, <1>3, <1>4, <1>12 DEF Sql, Advance, JobOK, Pc
<1>13. CASE Fill(r)
  <2>1. pc[r] = "fill" /\ (Answer(r) \/ (Goto(r, "unmarkLock") /\ UNCHANGED job))
    BY <1>13 DEF Fill
  <2>2. QED
    BY <1>1, <1>3, <1>4, <2>1 DEF JobOK, Pc
<1>14. CASE Unmark(r)
  BY <1>1, <1>3, <1>14 DEF Unmark, Advance, JobOK, Pc
<1>15. CASE UnmarkUnlock(r)
  BY <1>4, <1>15 DEF UnmarkUnlock
<1>16. QED
  BY <1>6, <1>7, <1>8, <1>9, <1>10, <1>11, <1>12, <1>13, <1>14, <1>15 DEF ReqNext

\* What the hashes, the key and the history hold after it.
LEMMA MineKeepsCache ==
    ASSUME TypeInv, NEW r \in Req, Start(r) \/ ReqNext(r)
    PROVE  /\ sleeps' \in [Field -> Duration \cup {Uncached}] /\ expiring' \in BOOLEAN
           /\ marks' \subseteq Id /\ mutex' \in BOOLEAN
           /\ prune' = prune /\ excused' \subseteq Req
           /\ slept' \subseteq Field \X Duration
<1> USE DEF TypeInv, TypeOK, JobInv, JobOK, Job, Lock, Unlock, cacheVars, Advance
<1>1. CASE Start(r)
  BY <1>1 DEF Start
<1>2. CASE MarkLock(r) \/ UnmarkLock(r)
  BY <1>2 DEF MarkLock, UnmarkLock, LockStep
<1>3. CASE Get(r)
  BY <1>3 DEF Get
<1>4. CASE Mark(r)
  BY <1>4 DEF Mark
<1>5. CASE MarkUnlock(r)
  BY <1>5 DEF MarkUnlock
<1>6. CASE Sql(r)
  BY <1>6 DEF Sql
<1>7. CASE Fill(r)
  BY <1>7 DEF Fill
<1>8. CASE Unmark(r)
  BY <1>8 DEF Unmark, LeadingFor
<1>9. CASE UnmarkUnlock(r)
  BY <1>9 DEF UnmarkUnlock
<1>10. QED
  BY <1>1, <1>2, <1>3, <1>4, <1>5, <1>6, <1>7, <1>8, <1>9 DEF ReqNext

-----------------------------------------------------------------------------
(* The types *)

LEMMA TypeInit == Init => TypeInv
<1> SUFFICES ASSUME Init PROVE TypeInv
  OBVIOUS
<1>1. NoJob \in Job
  BY SleepAssumption DEF NoJob, Job, Field
<1>2. pc \in [Req -> Pc] /\ job \in [Req -> Job] /\ JobInv
  BY <1>1 DEF Init, Pc, JobInv, JobOK
<1>3. sleeps \in [Field -> Duration \cup {Uncached}] /\ expiring \in BOOLEAN
  BY DEF Init
<1>4. slept \subseteq Field \X Duration
  BY <1>3 DEF Init
<1>5. QED
  BY <1>2, <1>3, <1>4 DEF Init, TypeInv, TypeOK

LEMMA TypeByOthers ==
    ASSUME TypeInv, RedisNext \/ PruneNext \/ UNCHANGED vars
    PROVE  TypeInv'
<1> USE DEF TypeInv, TypeOK, JobInv
<1>1. CASE Expire
  BY <1>1 DEF Expire, NoSleeps
<1>2. CASE MutexExpire
  BY <1>2 DEF MutexExpire
<1>3. CASE PruneTick
  BY <1>3 DEF PruneTick, PruneTo
<1>4. CASE PruneLock
  BY <1>4 DEF PruneLock, PruneTo, Lock
<1>5. CASE PruneScan
  BY <1>5 DEF PruneScan, PruneTo
<1>6. CASE PruneDelete
  BY <1>6 DEF PruneDelete, LeadingFor
<1>7. CASE PruneUnlock
  BY <1>7 DEF PruneUnlock, PruneTo, Unlock
<1>8. CASE UNCHANGED vars
  BY <1>8 DEF vars, cacheVars
<1>9. CASE LockUnawares
  BY <1>9 DEF LockUnawares
<1>10. QED
  BY <1>1, <1>2, <1>3, <1>4, <1>5, <1>6, <1>7, <1>8, <1>9 DEF PruneNext, RedisNext

LEMMA TypeByRequest ==
    ASSUME TypeInv, NEW r \in Req, Start(r) \/ ReqNext(r)
    PROVE  TypeInv'
<1>1. TypeOK'
  BY MineMoves, MineKeepsCache DEF TypeInv, TypeOK
<1>2. JobInv'
  <2> SUFFICES ASSUME NEW s \in Req PROVE JobOK(pc'[s], job'[s])
    BY DEF JobInv, JobOK
  <2>1. CASE s = r
    BY <2>1, MineMoves
  <2>2. CASE s # r
    BY <2>2, OnlyMine DEF TypeInv, JobInv, JobOK
  <2>3. QED
    BY <2>1, <2>2
<1>3. QED
  BY <1>1, <1>2 DEF TypeInv

LEMMA TypesKept == TypeInv /\ [Next]_vars => TypeInv'
  BY TypeByOthers, TypeByRequest DEF Next

LEMMA TypesHold == Spec => []TypeInv
  BY TypeInit, TypesKept, PTL DEF Spec

\* The variables keep their types, in particular the marked fields are ids and a
\* request's tries stay within CACHE_MAX_RETRIES (logic.go:281-301).
THEOREM TypeCorrect == Spec => []TypeOK
<1>1. TypeInv => TypeOK
  BY DEF TypeInv
<1>2. QED
  BY <1>1, TypesHold, PTL

-----------------------------------------------------------------------------
(* Nothing unslept is cached *)

LEMMA CachedInit == Init => CachedInv
  BY DEF Init, CachedInv, CachedWasSlept

LEMMA CachedByRequest ==
    ASSUME TypeInv, CachedInv, NEW r \in Req, Start(r) \/ ReqNext(r)
    PROVE  CachedInv'
<1> USE DEF CachedInv, CachedWasSlept, TypeInv, TypeOK
<1>1. slept \subseteq slept'
  BY DEF Start, ReqNext, MarkLock, UnmarkLock, LockStep, Get, Mark, MarkUnlock, Sql, Fill, Unmark,
         UnmarkUnlock, cacheVars
<1>2. CachedWasSlept'
  <2>1. CASE Fill(r)
    BY <1>1, <2>1, MineMoves DEF Fill
  <2>2. CASE ~Fill(r)
    <3>1. sleeps' = sleeps
      BY <2>2 DEF Start, ReqNext, MarkLock, UnmarkLock, LockStep, Get, Mark, MarkUnlock, Sql,
             Unmark, UnmarkUnlock, cacheVars
    <3>2. QED
      BY <1>1, <3>1
  <2>3. QED
    BY <2>1, <2>2
<1>3. pc'[r] = "fill" => <<job'[r].id, job'[r].duration>> \in slept'
  <2>1. CASE Sql(r)
    BY <2>1 DEF Sql, Advance, Goto, Answer
  <2>2. CASE ~Sql(r)
    BY <2>2 DEF Start, ReqNext, MarkLock, UnmarkLock, LockStep, Get, Mark, MarkUnlock, Fill,
           Unmark, UnmarkUnlock, Advance, Goto, Answer, Retry
  <2>3. QED
    BY <2>1, <2>2
<1>4. QED
  BY <1>1, <1>2, <1>3, OnlyMine

LEMMA CachedByOthers ==
    ASSUME CachedInv, RedisNext \/ PruneNext \/ UNCHANGED vars
    PROVE  CachedInv'
  BY DEF CachedInv, CachedWasSlept, RedisNext, Expire, NoSleeps, LockUnawares, MutexExpire, PruneNext, PruneTick, PruneLock,
         PruneScan, PruneDelete, PruneUnlock, vars, cacheVars

\* The cache answers only for sleeps that the database has made
\* (logic.go:302-313).
THEOREM NothingUnslept == Spec => []CachedWasSlept
<1>1. TypeInv /\ CachedInv /\ [Next]_vars => CachedInv'
  BY CachedByRequest, CachedByOthers DEF Next
<1>2. CachedInv => CachedWasSlept
  BY DEF CachedInv
<1>3. QED
  BY CachedInit, <1>1, <1>2, TypesHold, PTL DEF Spec

-----------------------------------------------------------------------------
(* The sections of the mutex *)

LEMMA SectionInit == Init => SectionInv
  BY DEF Init, SectionInv, SectionsExclusive, InSection, Pruning

LEMMA SectionByRequest ==
    ASSUME TypeInv, SectionInv, ~MutexDisabled, NEW r \in Req, Start(r) \/ ReqNext(r)
    PROVE  SectionInv'
<1> USE DEF TypeInv, TypeOK, SectionInv, SectionsExclusive, InSection, Pruning
<1>1. \A s \in Req \ {r} : pc'[s] = pc[s]
  BY OnlyMine
<1>2. prune' = prune
  BY MineKeepsCache
<1>3. CASE MarkLock(r) \/ UnmarkLock(r)
  <2>1. ~mutex /\ mutex'
    BY <1>3 DEF MarkLock, UnmarkLock, LockStep, Lock
  <2>2. QED
    BY <1>1, <1>2, <2>1
<1>4. CASE MarkUnlock(r) \/ UnmarkUnlock(r)
  <2>1. InSection(r)
    BY <1>4 DEF MarkUnlock, UnmarkUnlock, Advance
  <2>2. pc'[r] \in {"idle", "get", "sql"}
    BY <1>4 DEF MarkUnlock, UnmarkUnlock, Advance, Answer, Goto, Retry
  <2>3. QED
    BY <1>1, <1>2, <2>1, <2>2
<1>5. CASE Mark(r) \/ Unmark(r)
  <2>1. InSection(r) /\ mutex' = mutex
    BY <1>5 DEF Mark, Unmark, Advance
  <2>2. QED
    BY <1>1, <1>2, <2>1
<1>6. CASE Start(r) \/ Get(r) \/ Sql(r) \/ Fill(r)
  <2>1. mutex' = mutex
    BY <1>6 DEF Start, Get, Sql, Fill, cacheVars
  <2>2. pc'[r] \in {"idle", "get", "lock", "sql", "fill", "unmarkLock"}
    BY <1>6 DEF Start, Get, Sql, Fill, Advance, Answer, Goto, Retry
  <2>3. QED
    BY <1>1, <1>2, <2>1, <2>2
<1>7. QED
  BY <1>3, <1>4, <1>5, <1>6 DEF ReqNext

LEMMA SectionByOthers ==
    ASSUME TypeInv, SectionInv, ~MutexDisabled,
           RedisNext \/ PruneNext \/ UNCHANGED vars
    PROVE  SectionInv'
<1> USE DEF TypeInv, TypeOK, SectionInv, SectionsExclusive, InSection, Pruning, PruneTo
<1>1. CASE Expire
  BY <1>1 DEF Expire
<1>2. CASE MutexExpire
  BY <1>2 DEF MutexExpire
<1>3. CASE PruneTick
  BY <1>3 DEF PruneTick
<1>4. CASE PruneLock
  BY <1>4 DEF PruneLock, Lock
<1>5. CASE PruneScan
  BY <1>5 DEF PruneScan
<1>6. CASE PruneDelete
  BY <1>6 DEF PruneDelete
<1>7. CASE PruneUnlock
  BY <1>7 DEF PruneUnlock
<1>8. CASE UNCHANGED vars
  BY <1>8 DEF vars, cacheVars
<1>9. CASE LockUnawares
  BY <1>9 DEF LockUnawares
<1>10. QED
  BY <1>1, <1>2, <1>3, <1>4, <1>5, <1>6, <1>7, <1>8, <1>9 DEF PruneNext, RedisNext

\* One at a time is in a section of the mutex, a request that marks or unmarks or
\* the prune loop (redis.go:738-778, 112-132).
THEOREM OneAtATime == Spec => []SectionsExclusive
<1>1. TypeInv /\ SectionInv /\ [Next]_vars => SectionInv'
  <2>1. MutexDisabled => SectionInv'
    BY DEF SectionInv, SectionsExclusive
  <2>2. QED
    BY <2>1, SectionByRequest, SectionByOthers DEF Next
<1>2. SectionInv => SectionsExclusive
  BY DEF SectionInv
<1>3. QED
  BY SectionInit, <1>1, <1>2, TypesHold, PTL DEF Spec

-----------------------------------------------------------------------------
(* One leader *)

LEMMA LeadInit == Init => LeadInv
  BY DEF Init, LeadInv, OneLeader, Leading, Unmarking

\* What a request caches stays cached, and it excuses at most itself no longer.
LEMMA MineKeepsCovers ==
    ASSUME TypeInv, NEW r \in Req, Start(r) \/ ReqNext(r)
    PROVE  /\ \A id \in Field : sleeps[id] # Uncached => sleeps'[id] # Uncached
           /\ excused \ {r} \subseteq excused'
           /\ Start(r) \/ Fill(r) \/ excused \subseteq excused'
<1>1. \A id \in Field : sleeps[id] # Uncached => sleeps'[id] # Uncached
  <2>1. CASE Fill(r)
    BY <2>1, SleepAssumption DEF Fill, TypeInv, TypeOK, JobInv, JobOK, Uncached
  <2>2. CASE ~Fill(r)
    BY <2>2 DEF Start, ReqNext, MarkLock, UnmarkLock, LockStep, Get, Mark, MarkUnlock, Sql,
           Unmark, UnmarkUnlock, cacheVars
  <2>3. QED
    BY <2>1, <2>2
<1>2. CASE Start(r) \/ Fill(r)
  BY <1>1, <1>2 DEF Start, Fill
<1>3. CASE ~(Start(r) \/ Fill(r))
  <2>1. excused \subseteq excused'
    BY <1>3 DEF ReqNext, MarkLock, UnmarkLock, LockStep, Get, Mark, MarkUnlock, Sql,
           Unmark, UnmarkUnlock, cacheVars
  <2>2. QED
    BY <1>1, <2>1
<1>4. QED
  BY <1>2, <1>3

LEMMA LeadByRequest ==
    ASSUME TypeInv, LeadInv, NEW r \in Req, Start(r) \/ ReqNext(r)
    PROVE  LeadInv'
<1> USE DEF TypeInv, TypeOK, Job
<1>1. \A s \in Req \ {r} : pc'[s] = pc[s] /\ job'[s] = job[s]
  BY OnlyMine
<1>2. \A s \in Req \ {r} : Covered(s) => CoveredNext(s)
  BY <1>1, MineKeepsCovers DEF Covered, CoveredNext
<1>3. \A s \in Req \ {r} : Leading(s)' = Leading(s) /\ Unmarking(s)' = Unmarking(s)
  BY <1>1 DEF Leading, Unmarking
<1>4. ASSUME NEW s \in Req \ {r}, Leading(s), job[s].id \in marks
      PROVE  job'[s].id \in marks' \/ CoveredNext(s)
  <2>1. CASE Unmark(r)
    <3>1. Covered(r) /\ job[r] = job'[r] /\ sleeps' = sleeps
      BY <2>1 DEF Unmark, Advance, LeadInv, Unmarking
    <3>2. CASE job[s].id = job[r].id /\ marks' # marks
      <4>1. CASE r \in excused
        BY <2>1, <3>2, <4>1, <1>4 DEF Unmark, LeadingFor, CoveredNext
      <4>2. CASE sleeps[job[r].id] # Uncached
        BY <3>1, <3>2, <4>2, <1>1 DEF CoveredNext
      <4>3. QED
        BY <3>1, <4>1, <4>2 DEF Covered
    <3>3. CASE job[s].id # job[r].id \/ marks' = marks
      BY <2>1, <3>3, <1>1, <1>4 DEF Unmark
    <3>4. QED
      BY <3>2, <3>3
  <2>2. CASE ~Unmark(r)
    <3>1. marks \subseteq marks'
      BY <2>2 DEF Start, ReqNext, MarkLock, UnmarkLock, LockStep, Get, Mark, MarkUnlock, Sql,
             Fill, UnmarkUnlock, cacheVars
    <3>2. QED
      BY <3>1, <1>1, <1>4
  <2>3. QED
    BY <2>1, <2>2
<1>5. Unmarking(r)' => CoveredNext(r)
  <2>1. CASE Fill(r)
    BY <2>1, SleepAssumption
       DEF Fill, Goto, Answer, CoveredNext, Unmarking, JobInv, JobOK, Uncached
  <2>2. CASE MarkLock(r) \/ UnmarkLock(r)
    BY <2>2 DEF MarkLock, UnmarkLock, LockStep, Advance, Goto, LeadInv, Unmarking, Covered,
           CoveredNext
  <2>3. CASE ~(Fill(r) \/ MarkLock(r) \/ UnmarkLock(r))
    BY <2>3 DEF Start, ReqNext, Get, Mark, MarkUnlock, Sql, Unmark, UnmarkUnlock, Advance, Goto,
           Answer, Retry, Unmarking
  <2>4. QED
    BY <2>1, <2>2, <2>3
<1>6. \/ ~Leading(r)'
      \/ /\ Leading(r) /\ job'[r] = job[r] /\ (MarkUnlock(r) \/ Sql(r))
      \/ job'[r].id = job[r].id /\ job[r].id \notin marks /\ job[r].id \in marks'
  <2>1. CASE Mark(r)
    <3>1. CASE pc'[r] = "leadUnlock"
      BY <2>1, <3>1 DEF Mark, Goto
    <3>2. CASE pc'[r] # "leadUnlock"
      BY <2>1, <3>2 DEF Mark, Goto, Leading
    <3>3. QED
      BY <3>1, <3>2
  <2>2. CASE MarkUnlock(r)
    BY <2>2 DEF MarkUnlock, Advance, Goto, Retry, Leading, JobInv, JobOK
  <2>3. CASE Sql(r)
    BY <2>3 DEF Sql, Advance, Goto, Answer, Leading
  <2>4. CASE Get(r)
    BY <2>4 DEF Get, Goto, Answer, Retry, Leading, JobInv, JobOK
  <2>5. CASE Start(r)
    BY <2>5 DEF Start, Goto, Leading
  <2>6. CASE MarkLock(r) \/ UnmarkLock(r) \/ Fill(r) \/ Unmark(r) \/ UnmarkUnlock(r)
    BY <2>6 DEF MarkLock, UnmarkLock, LockStep, Fill, Unmark, UnmarkUnlock, Advance, Goto, Answer,
           Leading
  <2>7. QED
    BY <2>1, <2>2, <2>3, <2>4, <2>5, <2>6 DEF ReqNext
<1>7. MarkUnlock(r) \/ Sql(r) => UNCHANGED <<sleeps, marks, excused>>
  BY DEF MarkUnlock, Sql, cacheVars
<1>8. Leading(r)' => job'[r].id \in marks' \/ CoveredNext(r)
  BY <1>6, <1>7 DEF LeadInv, Covered, CoveredNext
<1>9. \A s \in Req \ {r} : Leading(s)' => job'[s].id \in marks' \/ CoveredNext(s)
  BY <1>2, <1>3, <1>4 DEF LeadInv
<1>10. \A s \in Req \ {r} : Unmarking(s)' => CoveredNext(s)
  BY <1>2, <1>3 DEF LeadInv
<1>11. ASSUME NEW s \in Req \ {r}, Leading(r)', Leading(s)', job'[r].id = job'[s].id
       PROVE  CoveredNext(r) \/ CoveredNext(s)
  <2>1. Leading(s) /\ job'[s] = job[s]
    BY <1>1, <1>3, <1>11
  <2>2. CASE Leading(r) /\ job'[r] = job[r] /\ (MarkUnlock(r) \/ Sql(r))
    BY <2>1, <2>2, <1>7, <1>11 DEF LeadInv, OneLeader, Covered, CoveredNext
  <2>3. CASE job'[r].id = job[r].id /\ job[r].id \notin marks
    BY <2>1, <2>3, <1>2, <1>11 DEF LeadInv
  <2>4. QED
    BY <1>6, <1>11, <2>2, <2>3
<1>12. ASSUME NEW s \in Req \ {r}, NEW t \in Req \ {r}, s # t, Leading(s)', Leading(t)',
              job'[s].id = job'[t].id
       PROVE  CoveredNext(s) \/ CoveredNext(t)
  <2>1. Leading(s) /\ Leading(t) /\ job[s].id = job[t].id
    BY <1>1, <1>3, <1>12
  <2>2. Covered(s) \/ Covered(t)
    BY <2>1, <1>12 DEF LeadInv, OneLeader, Covered
  <2>3. QED
    BY <2>2, <1>2
<1>13. OneLeader'
  BY <1>11, <1>12 DEF OneLeader, CoveredNext
<1>14. QED
  BY <1>5, <1>8, <1>9, <1>10, <1>13 DEF LeadInv, Covered, CoveredNext

LEMMA LeadByOthers ==
    ASSUME TypeInv, LeadInv, RedisNext \/ PruneNext \/ UNCHANGED vars
    PROVE  LeadInv'
<1> USE DEF TypeInv, TypeOK, Job
<1>1. pc' = pc /\ job' = job
  BY DEF RedisNext, Expire, LockUnawares, MutexExpire, PruneNext, PruneTick, PruneLock, PruneScan,
         PruneDelete, PruneUnlock, vars, cacheVars
<1>2. \A r \in Req : Leading(r)' = Leading(r) /\ Unmarking(r)' = Unmarking(r)
  BY <1>1 DEF Leading, Unmarking
<1>3. \A r \in Req : (Leading(r) \/ Unmarking(r)) /\ Covered(r) => CoveredNext(r)
  <2>1. CASE Expire
    BY <2>1 DEF Expire, Unmarking, CoveredNext
  <2>2. CASE ~Expire
    <3>1. sleeps' = sleeps /\ excused \subseteq excused'
      BY <2>2 DEF RedisNext, LockUnawares, MutexExpire, PruneNext, PruneTick, PruneLock, PruneScan,
             PruneDelete, PruneUnlock, vars, cacheVars
    <3>2. QED
      BY <1>1, <3>1 DEF Covered, CoveredNext
  <2>3. QED
    BY <2>1, <2>2
<1>4. \A r \in Req : Leading(r) /\ job[r].id \in marks => job'[r].id \in marks' \/ CoveredNext(r)
  <2>1. CASE PruneDelete
    <3>1. CASE marks' = marks
      BY <1>1, <3>1
    <3>2. CASE marks' # marks
      BY <1>1, <2>1, <3>2 DEF PruneDelete, LeadingFor, CoveredNext
    <3>3. QED
      BY <3>1, <3>2
  <2>2. CASE ~PruneDelete
    <3>1. marks' = marks
      BY <2>2 DEF RedisNext, Expire, LockUnawares, MutexExpire, PruneNext, PruneTick, PruneLock,
             PruneScan, PruneUnlock, vars, cacheVars
    <3>2. QED
      BY <1>1, <3>1
  <2>3. QED
    BY <2>1, <2>2
<1>5. OneLeader'
  <2> SUFFICES ASSUME NEW r \in Req, NEW s \in Req, r # s, Leading(r)', Leading(s)',
                      job'[r].id = job'[s].id
               PROVE  CoveredNext(r) \/ CoveredNext(s)
    BY DEF OneLeader, CoveredNext
  <2>1. Leading(r) /\ Leading(s) /\ job[r].id = job[s].id
    BY <1>1, <1>2
  <2>2. Covered(r) \/ Covered(s)
    BY <2>1 DEF LeadInv, OneLeader, Covered
  <2>3. QED
    BY <2>1, <2>2, <1>3
<1>6. \A r \in Req : Leading(r)' => job'[r].id \in marks' \/ CoveredNext(r)
  BY <1>2, <1>3, <1>4 DEF LeadInv
<1>7. \A r \in Req : Unmarking(r)' => CoveredNext(r)
  BY <1>2, <1>3 DEF LeadInv
<1>8. QED
  BY <1>5, <1>6, <1>7 DEF LeadInv, Covered, CoveredNext

\* Two requests lead for one sleep only if it is cached, or one of them, since it
\* leads, had its marker pruned, or saw the hash expire, or had its marker removed by
\* a request whose own entry had expired before its HDEL (redis.go:753-762).
THEOREM HerdKeptOut == Spec => []OneLeader
<1>1. TypeInv /\ LeadInv /\ [Next]_vars => LeadInv'
  BY LeadByRequest, LeadByOthers DEF Next
<1>2. LeadInv => OneLeader
  BY DEF LeadInv
<1>3. QED
  BY LeadInit, <1>1, <1>2, TypesHold, PTL DEF Spec

-----------------------------------------------------------------------------
(* The mutex of the sleeps is a RedisMutex *)

\* Where a request is, by its step, and where the prune loop is, by its own.
PlaceOf(p) ==
    IF p \in {"mark", "leadUnlock", "retryUnlock", "failUnlock", "unmark", "unlock"} THEN "inside"
    ELSE IF p \in {"lock", "unmarkLock"} THEN "waiting" ELSE "out"
PrunerPlace(p) ==
    IF p \in {"scan", "delete", "unlock"} THEN "inside" ELSE IF p = "lock" THEN "waiting" ELSE "out"

\* What a step may do to the mutex, without its owner.
Moves(c, place) == Where' = [Where EXCEPT ![c] = place]
ClientStep(c) ==
    \/ Where[c] = "out" /\ Moves(c, "waiting") /\ mutex' = mutex
    \/ Where[c] = "waiting" /\ Moves(c, "inside") /\ ~mutex /\ mutex' = TRUE
    \/ Where[c] = "inside" /\ Moves(c, "out") /\ mutex' = FALSE
    \/ Where[c] = "inside" /\ Moves(c, "out") /\ mutex' = mutex /\ RedisFaults
KeyStep ==
    \/ Where' = Where /\ mutex' = mutex
    \/ \E c \in LockClient : ClientStep(c)
    \/ (\A c \in LockClient : Where[c] # "inside") /\ Where' = Where /\ mutex /\ mutex' = FALSE
    \/ /\ RedisFaults /\ Where' = Where /\ ~mutex /\ mutex' = TRUE
       /\ \E c \in LockClient : Where[c] = "waiting"

LEMMA Places ==
    /\ \A r \in Req : Where[r] = PlaceOf(pc[r]) /\ Where'[r] = PlaceOf(pc'[r])
    /\ Where[Pruner] = PrunerPlace(prune.pc) /\ Where'[Pruner] = PrunerPlace(prune'.pc)
    /\ Where \in [LockClient -> {"out", "waiting", "inside"}]
    /\ Where' \in [LockClient -> {"out", "waiting", "inside"}]
BY SleepLockingAssumption
   DEF Where, LockClient, Inside, Waiting, Pruning, InSection, PlaceOf, PrunerPlace

\* Whoever is inside is alone there and has the key.
AloneInside ==
    \A c, d \in LockClient : Where[c] = "inside" /\ Where[d] = "inside" => c = d /\ mutex
AloneInsideNext ==
    \A c, d \in LockClient : Where'[c] = "inside" /\ Where'[d] = "inside" => c = d /\ mutex'

LEMMA Alone ==
    ASSUME ~MutexDisabled PROVE (SectionInv => AloneInside) /\ (SectionInv' => AloneInsideNext)
<1>1. SectionInv => AloneInside
  BY Places DEF SectionInv, SectionsExclusive, InSection, Pruning, AloneInside, LockClient,
     PlaceOf, PrunerPlace
<1>2. SectionInv' => AloneInsideNext
  BY Places DEF SectionInv, SectionsExclusive, InSection, Pruning, AloneInsideNext, LockClient,
     PlaceOf, PrunerPlace
<1>3. QED
  BY <1>1, <1>2

\* The owner is the client inside, and nobody if there is none.
LEMMA OwnerIs ==
    /\ AloneInside => \A c \in LockClient : Where[c] = "inside" => Owner = c
    /\ (\A c \in LockClient : Where[c] # "inside") => Owner = NoClient
<1>1. \A c \in LockClient : Inside(c) <=> Where[c] = "inside"
  BY DEF Where
<1>2. QED
  BY <1>1 DEF Owner, AloneInside

LEMMA OwnerIsNext ==
    /\ AloneInsideNext => \A c \in LockClient : Where'[c] = "inside" => Owner' = c
    /\ (\A c \in LockClient : Where'[c] # "inside") => Owner' = NoClient
<1>1. \A c \in LockClient : Inside(c)' <=> Where'[c] = "inside"
  BY DEF Where, LockClient
<1>2. QED
  BY <1>1 DEF Owner, AloneInsideNext, LockClient

\* The owner stays while those who are inside do.
LEMMA OwnerStays ==
    ASSUME AloneInside, AloneInsideNext,
           \A c \in LockClient : Where'[c] = "inside" <=> Where[c] = "inside"
    PROVE  Owner' = Owner
BY OwnerIs, OwnerIsNext

LEMMA KeyStepRefines ==
    ASSUME AloneInside, AloneInsideNext, KeyStep
    PROVE  UNCHANGED SleepMutex!vars \/ SleepMutex!Next
<1>1. CASE Where' = Where /\ mutex' = mutex
  <2>1. Owner' = Owner
    BY <1>1, OwnerStays
  <2>2. QED
    BY <1>1, <2>1 DEF SleepMutex!vars
<1>2. ASSUME NEW c \in LockClient, ClientStep(c) PROVE SleepMutex!ClientNext(c)
  <2> USE Places DEF Moves, SleepMutex!Move, SleepMutex!ClientNext
  <2>1. CASE Where[c] = "out" /\ Moves(c, "waiting") /\ mutex' = mutex
    <3>1. Owner' = Owner
      BY <2>1, OwnerStays
    <3>2. SleepMutex!Call(c)
      BY <2>1, <3>1 DEF SleepMutex!Call
    <3>3. QED
      BY <3>2
  <2>2. CASE Where[c] = "waiting" /\ Moves(c, "inside") /\ ~mutex /\ mutex' = TRUE
    <3>1. Owner' = c
      BY <2>2, OwnerIsNext
    <3>2. SleepMutex!Acquire(c)
      BY <2>2, <3>1 DEF SleepMutex!Acquire
    <3>3. QED
      BY <3>2
  <2>3. CASE Where[c] = "inside" /\ Moves(c, "out") /\ (mutex' = FALSE \/ (mutex' = mutex /\ RedisFaults))
    <3>1. \A d \in LockClient : Where'[d] # "inside"
      BY <2>3 DEF AloneInside
    <3>2. Owner = c /\ Owner' = NoClient
      BY <2>3, <3>1, OwnerIs, OwnerIsNext
    <3>3. SleepMutex!Release(c)
      BY <2>3, <3>2 DEF SleepMutex!Release, SleepMutex!Abandon
    <3>4. QED
      BY <3>3
  <2>4. QED
    BY <1>2, <2>1, <2>2, <2>3 DEF ClientStep
<1>3. CASE /\ \A c \in LockClient : Where[c] # "inside"
           /\ Where' = Where /\ mutex /\ mutex' = FALSE
  <2>1. Owner' = NoClient
    BY <1>3, OwnerIsNext
  <2>2. QED
    BY <1>3, <2>1 DEF SleepMutex!Expire, SleepMutex!Next
<1>4. ASSUME NEW c \in LockClient, Where[c] = "waiting",
             RedisFaults, Where' = Where, ~mutex, mutex' = TRUE
      PROVE  SleepMutex!AcquireUnawares(c)
  <2>1. \A d \in LockClient : Where'[d] # "inside"
    BY <1>4 DEF AloneInside
  <2>2. Owner' = NoClient
    BY <2>1, OwnerIsNext
  <2>3. QED
    BY <1>4, <2>2 DEF SleepMutex!AcquireUnawares
<1>5. QED
  BY <1>1, <1>2, <1>3, <1>4 DEF KeyStep, SleepMutex!Next, SleepMutex!ClientNext

\* A request's step changes its own place at most.
LEMMA RequestKeyStep ==
    ASSUME TypeInv, ~MutexDisabled, NEW r \in Req, Start(r) \/ ReqNext(r) PROVE KeyStep
<1>1. r \in LockClient /\ r # Pruner
  BY SleepLockingAssumption DEF LockClient
<1>2. \A c \in LockClient \ {r} : Where'[c] = Where[c]
  BY OnlyMine, MineKeepsCache, Places DEF TypeInv, LockClient
<1>3. Moves(r, PlaceOf(pc'[r])) /\ Where[r] = PlaceOf(pc[r])
  BY <1>1, <1>2, Places DEF Moves
<1>4. CASE PlaceOf(pc'[r]) = PlaceOf(pc[r]) /\ mutex' = mutex
  BY <1>3, <1>4, Places DEF Moves, KeyStep
<1>5. CASE PlaceOf(pc'[r]) = "waiting" /\ PlaceOf(pc[r]) = "out" /\ mutex' = mutex
  BY <1>1, <1>3, <1>5 DEF KeyStep, ClientStep
<1> USE DEF TypeInv, TypeOK, PlaceOf, Goto
<1>6. CASE Start(r) \/ Get(r) \/ Sql(r) \/ Fill(r)
  <2>1. mutex' = mutex /\ PlaceOf(pc[r]) = "out"
    BY <1>6 DEF Start, Get, Sql, Fill, Advance, cacheVars
  <2>2. PlaceOf(pc'[r]) \in {"out", "waiting"}
    BY <1>6 DEF Start, Get, Sql, Fill, Advance, Answer, Retry
  <2>3. QED
    BY <1>4, <1>5, <2>1, <2>2
<1>7. CASE Mark(r) \/ Unmark(r)
  <2>1. mutex' = mutex /\ PlaceOf(pc[r]) = "inside" /\ PlaceOf(pc'[r]) = "inside"
    BY <1>7 DEF Mark, Unmark, Advance
  <2>2. QED
    BY <1>4, <2>1
<1>8. CASE MarkLock(r) \/ UnmarkLock(r)
  <2>1. /\ ~mutex /\ mutex' = TRUE
        /\ PlaceOf(pc[r]) = "waiting" /\ PlaceOf(pc'[r]) = "inside"
    BY <1>8 DEF MarkLock, UnmarkLock, LockStep, Lock, Advance
  <2>2. QED
    BY <1>1, <1>3, <2>1 DEF KeyStep, ClientStep
<1>9. CASE MarkUnlock(r) \/ UnmarkUnlock(r)
  <2>1. mutex' = FALSE \/ (mutex' = mutex /\ RedisFaults)
    BY <1>9 DEF MarkUnlock, UnmarkUnlock, Unlock, Outcomes
  <2>2. PlaceOf(pc[r]) = "inside" /\ PlaceOf(pc'[r]) = "out"
    BY <1>9 DEF MarkUnlock, UnmarkUnlock, Advance, Answer, Retry
  <2>3. QED
    BY <1>1, <1>3, <2>1, <2>2 DEF KeyStep, ClientStep
<1>10. QED
  BY <1>6, <1>7, <1>8, <1>9 DEF ReqNext

\* A step of the prune loop, or of Redis, changes no request's.
LEMMA OtherKeyStep ==
    ASSUME TypeInv, ~MutexDisabled, RedisNext \/ PruneNext \/ UNCHANGED vars
    PROVE  KeyStep
<1>1. Pruner \in LockClient
  BY DEF LockClient
<1>2. pc' = pc
  BY DEF RedisNext, Expire, LockUnawares, MutexExpire, PruneNext, PruneTick, PruneLock, PruneScan,
         PruneDelete, PruneUnlock, vars, cacheVars
<1>3. Moves(Pruner, PrunerPlace(prune'.pc)) /\ Where[Pruner] = PrunerPlace(prune.pc)
  BY <1>2, Places DEF Moves, LockClient
<1>4. CASE PrunerPlace(prune'.pc) = PrunerPlace(prune.pc) /\ mutex' = mutex
  BY <1>3, <1>4, Places DEF Moves, KeyStep
<1> USE DEF TypeInv, TypeOK, PrunerPlace, PruneTo
<1>5. CASE Expire \/ UNCHANGED vars
  BY <1>4, <1>5 DEF Expire, vars, cacheVars
<1>6. CASE MutexExpire
  <2>1. \A c \in LockClient : Where[c] # "inside"
    BY <1>6 DEF MutexExpire, Where, Inside, LockClient
  <2>2. Where' = Where
    BY <1>3, <1>6, Places DEF MutexExpire, Moves
  <2>3. QED
    BY <1>6, <2>1, <2>2 DEF MutexExpire, KeyStep
<1>7. CASE PruneTick
  BY <1>1, <1>3, <1>7 DEF PruneTick, KeyStep, ClientStep
<1>8. CASE PruneLock
  BY <1>1, <1>3, <1>8 DEF PruneLock, Lock, KeyStep, ClientStep
<1>9. CASE PruneScan \/ PruneDelete
  BY <1>4, <1>9 DEF PruneScan, PruneDelete
<1>10. CASE PruneUnlock
  BY <1>1, <1>3, <1>10 DEF PruneUnlock, Unlock, Outcomes, KeyStep, ClientStep
<1>11. CASE LockUnawares
  <2>1. Where' = Where
    BY <1>3, <1>11, Places DEF LockUnawares, Moves
  <2>2. \E c \in LockClient : Where[c] = "waiting"
    <3>1. CASE prune.pc = "lock"
      BY <1>1, <1>3, <3>1
    <3>2. CASE \E r \in Req : pc[r] \in {"lock", "unmarkLock"}
      BY <3>2, Places DEF LockClient, PlaceOf
    <3>3. QED
      BY <1>11, <3>1, <3>2 DEF LockUnawares
  <2>3. QED
    BY <1>11, <2>1, <2>2 DEF LockUnawares, KeyStep
<1>12. QED
  BY <1>5, <1>6, <1>7, <1>8, <1>9, <1>10, <1>11 DEF PruneNext, RedisNext

\* With the mutex enabled, the requests and the prune loop use it as RedisMutex
\* says clients do (redis.go:112-132, 738-778).
THEOREM MutexRefines ==
    ASSUME ~MutexDisabled
    PROVE  Spec => SleepsIsMutex
<1>1. Init => SleepMutex!Init
  <2> SUFFICES ASSUME Init PROVE SleepMutex!Init
    OBVIOUS
  <2>1. \A c \in LockClient : ~Inside(c) /\ ~Waiting(c)
    BY DEF Init, Inside, Waiting, Pruning, InSection, LockClient
  <2>2. Where = [c \in LockClient |-> "out"] /\ Owner = NoClient
    BY <2>1 DEF Where, Owner
  <2>3. QED
    BY <2>2 DEF Init, SleepMutex!Init
<1>2. TypeInv /\ SectionInv /\ [Next]_vars => SectionInv'
  BY SectionByRequest, SectionByOthers DEF Next
<1>3. TypeInv /\ SectionInv /\ SectionInv' /\ [Next]_vars =>
         UNCHANGED SleepMutex!vars \/ SleepMutex!Next
  <2> SUFFICES ASSUME TypeInv, SectionInv, SectionInv', [Next]_vars
               PROVE  UNCHANGED SleepMutex!vars \/ SleepMutex!Next
    OBVIOUS
  <2>1. AloneInside /\ AloneInsideNext
    BY Alone
  <2>2. KeyStep
    BY RequestKeyStep, OtherKeyStep DEF Next
  <2>3. QED
    BY <2>1, <2>2, KeyStepRefines
<1>4. QED
  BY <1>1, <1>2, <1>3, SectionInit, TypesHold, PTL DEF Spec, SleepsIsMutex
=============================================================================
