----------------------------- MODULE SleepCache -----------------------------
(***************************************************************************)
(* Requests to sleep: logic.Sleep over the sleep hash of cache/redis.go    *)
(* and MySQL's SLEEP.  A step is one Redis command or one statement.  The  *)
(* marker of a sleep in progress is meant to let one request in at a time. *)
(* LOGIC_CACHE_ENABLED is true: without the cache only the database sleeps.*)
(* A Clear of the cache deletes no key of the sleeps, so it is no step.    *)
(***************************************************************************)
EXTENDS Integers, FiniteSets

CONSTANTS
    Req,                \* request slots: each serves one request after another
    Id, NoId,           \* sleep ids, and the empty one
    Duration,           \* the durations asked for, in seconds
    InProgressEnabled,  \* CACHE_ENABLE_IN_PROGRESS
    MutexDisabled,      \* CACHE_REDIS_MUTEX_DISABLED
    MaxTries,           \* CACHE_MAX_RETRIES
    RedisFaults,        \* a command may fail or lose its reply
    SqlFaults           \* a statement may fail, or take longer than its timeout

ASSUME SleepAssumption ==
    /\ NoId \notin Id /\ Duration \subseteq Nat \ {0} /\ MaxTries \in Nat \ {0}
    /\ {InProgressEnabled, MutexDisabled, RedisFaults, SqlFaults} \subseteq BOOLEAN

Field == Id \cup {NoId}
Uncached == 0
NoSleeps == [id \in Field |-> Uncached]

VARIABLES
    sleeps,   \* hash sleep: id -> cached duration
    expiring, \* the hash has a time to live: it existed when the cache was opened
    marks,    \* hash in_progress_sleeps: the fields set
    mutex,    \* the key in_progress_sleeps_mutex exists
    prune,    \* the prune loop: where it is and what its HSCAN collected
    pc, job,  \* request -> its next step, and its locals
    slept,    \* auxiliary: the sleeps the database has made
    excused   \* auxiliary: requests that lost their marker, or their entry, to others

cacheVars == <<sleeps, expiring, marks, mutex, prune>>
vars == <<cacheVars, pc, job, slept, excused>>

Pc == {"idle", "get", "lock", "mark", "leadUnlock", "retryUnlock", "failUnlock", "sql",
       "fill", "unmarkLock", "unmark", "unlock"}
Job == [id : Field, duration : Duration \cup {Uncached}, tries : 0 .. MaxTries, leads : BOOLEAN]
NoJob == [id |-> NoId, duration |-> Uncached, tries |-> 0, leads |-> FALSE]

TypeOK ==
    /\ sleeps \in [Field -> Duration \cup {Uncached}] /\ expiring \in BOOLEAN
    /\ marks \subseteq Id /\ mutex \in BOOLEAN
    /\ prune \in [pc : {"idle", "lock", "scan", "delete", "unlock"}, scanned : SUBSET Id]
    /\ pc \in [Req -> Pc] /\ job \in [Req -> Job]
    /\ slept \subseteq Field \X Duration /\ excused \subseteq Req

\* What an earlier process cached is still there; setExpiration gives it a time
\* to live, as it does not to a hash that is yet to be created.
Init ==
    /\ sleeps \in [Field -> Duration \cup {Uncached}] /\ expiring = (sleeps # NoSleeps)
    /\ marks = {} /\ mutex = FALSE /\ prune = [pc |-> "idle", scanned |-> {}]
    /\ pc = [r \in Req |-> "idle"] /\ job = [r \in Req |-> NoJob]
    /\ slept = {<<id, sleeps[id]>> : id \in {i \in Field : sleeps[i] # Uncached}}
    /\ excused = {}

Outcomes == {"done"} \cup IF RedisFaults THEN {"failed", "lost"} ELSE {}

\* Bug: the key is written with SET.
LockBySet == mutex' = TRUE
Lock == IF MutexDisabled THEN UNCHANGED mutex ELSE ~mutex /\ mutex' = TRUE
Unlock ==
    IF MutexDisabled THEN UNCHANGED mutex
    ELSE \E o \in Outcomes : mutex' = IF o = "failed" THEN mutex ELSE FALSE

Goto(r, p) == pc' = [pc EXCEPT ![r] = p]
Advance(r, from, to) == pc[r] = from /\ Goto(r, to) /\ UNCHANGED job
Answer(r) == Goto(r, "idle") /\ job' = [job EXCEPT ![r] = NoJob]

\* Whom the marker is for: the request that set it, until it has cached its sleep.
Leading(r) == job[r].leads /\ pc[r] \in {"leadUnlock", "sql", "fill"}
LeadingFor(id) == {r \in Req : Leading(r) /\ job[r].id = id}
-----------------------------------------------------------------------------
(* A request *)

Start(r) ==
    /\ pc[r] = "idle"
    /\ \E id \in Field, d \in Duration :
          /\ Goto(r, "get")
          /\ job' = [job EXCEPT ![r] = [id |-> id, duration |-> d, tries |-> 0, leads |-> FALSE]]
    /\ excused' = excused \ {r}
    /\ UNCHANGED <<cacheVars, slept>>

\* Bug: the tries are not counted.
RetryForever(r) == Goto(r, "get") /\ UNCHANGED job

\* backoff.RetryAfter: another attempt, until MaxTries of them are made; then
\* its last error falls through to the database.
Retry(r) ==
    /\ job' = [job EXCEPT ![r].tries = @ + 1]
    /\ Goto(r, IF job[r].tries + 1 < MaxTries THEN "get" ELSE "sql")

\* SleepRead answers from the hash, for whatever duration was asked.
Hit(r) == pc[r] = "get" /\ job[r].id # NoId /\ sleeps[job[r].id] # Uncached

\* SleepRead, HGET: the empty id is never looked up; an error is permanent.
Get(r) ==
    /\ pc[r] = "get"
    /\ \/ Hit(r) /\ Answer(r)
       \/ job[r].id # NoId /\ RedisFaults /\ Goto(r, "sql") /\ UNCHANGED job
       \/ ~Hit(r) /\ IF job[r].id # NoId /\ InProgressEnabled
                     THEN Goto(r, "lock") /\ UNCHANGED job ELSE Retry(r)
    /\ UNCHANGED <<cacheVars, slept, excused>>

LockStep(r, from, to) ==
    /\ Advance(r, from, to) /\ Lock
    /\ UNCHANGED <<sleeps, expiring, marks, prune, slept, excused>>
MarkLock(r) == LockStep(r, "lock", "mark")

\* HSETNX in_progress_sleeps: the one who sets the marker leads.
Mark(r) ==
    /\ pc[r] = "mark"
    /\ \E o \in Outcomes :
          /\ marks' = IF o = "failed" THEN marks ELSE marks \cup {job[r].id}
          /\ IF o # "done" THEN Goto(r, "failUnlock") /\ UNCHANGED job
             ELSE IF job[r].id \in marks THEN Goto(r, "retryUnlock") /\ UNCHANGED job
             ELSE Goto(r, "leadUnlock") /\ job' = [job EXCEPT ![r].leads = TRUE]
    /\ UNCHANGED <<sleeps, expiring, mutex, prune, slept, excused>>

MarkUnlock(r) ==
    /\ Unlock
    /\ \/ Advance(r, "leadUnlock", "sql") \/ Advance(r, "failUnlock", "sql")
       \/ pc[r] = "retryUnlock" /\ Retry(r)
    /\ UNCHANGED <<sleeps, expiring, marks, prune, slept, excused>>

\* Bug: the error of the statement is not looked at.
SqlIgnoringErrors(r) ==
    /\ Advance(r, "sql", "fill")
    /\ \/ slept' = slept \cup {<<job[r].id, job[r].duration>>}
       \/ SqlFaults /\ UNCHANGED slept
    /\ UNCHANGED <<cacheVars, excused>>

\* DO SLEEP: an error answers the request, and leaves its marker.
Sql(r) ==
    /\ \/ /\ Advance(r, "sql", "fill")
          /\ slept' = slept \cup {<<job[r].id, job[r].duration>>}
       \/ pc[r] = "sql" /\ SqlFaults /\ Answer(r) /\ UNCHANGED slept
    /\ UNCHANGED <<cacheVars, excused>>

\* Bug: the marker is taken away though the sleep could not be cached.
FillIgnoringErrors(r) ==
    /\ pc[r] = "fill" /\ Goto(r, "unmarkLock")
    /\ \E o \in Outcomes :
          sleeps' = IF o = "failed" THEN sleeps
                    ELSE [sleeps EXCEPT ![job[r].id] = job[r].duration]
    /\ excused' = excused \ {r}
    /\ UNCHANGED <<job, expiring, marks, mutex, prune, slept>>

\* SleepWrite, HSET: after an error the marker stays.
Fill(r) ==
    /\ pc[r] = "fill"
    /\ \E o \in Outcomes :
          /\ sleeps' = IF o = "failed" THEN sleeps
                       ELSE [sleeps EXCEPT ![job[r].id] = job[r].duration]
          /\ IF o = "done" /\ InProgressEnabled
             THEN Goto(r, "unmarkLock") /\ UNCHANGED job ELSE Answer(r)
    /\ excused' = excused \ {r}
    /\ UNCHANGED <<expiring, marks, mutex, prune, slept>>

UnmarkLock(r) == LockStep(r, "unmarkLock", "unmark")

\* HDEL, whoever set the marker, and whether it succeeds or not.  If what r cached
\* has expired, it may be the marker of a request that leads now.
Unmark(r) ==
    /\ Advance(r, "unmark", "unlock")
    /\ \/ RedisFaults /\ UNCHANGED <<marks, excused>>
       \/ /\ marks' = marks \ {job[r].id}
          /\ excused' = IF r \in excused THEN excused \cup LeadingFor(job[r].id) ELSE excused
    /\ UNCHANGED <<sleeps, expiring, mutex, prune, slept>>

UnmarkUnlock(r) ==
    /\ pc[r] = "unlock" /\ Unlock /\ Answer(r)
    /\ UNCHANGED <<sleeps, expiring, marks, prune, slept, excused>>
-----------------------------------------------------------------------------
(* Redis and the prune loop *)

\* The time to live of the hash is over.
Expire ==
    /\ expiring /\ expiring' = FALSE /\ sleeps' = NoSleeps
    /\ excused' = excused \cup {r \in Req : Leading(r) \/ pc[r] \in {"unmarkLock", "unmark"}}
    /\ UNCHANGED <<marks, mutex, prune, pc, job, slept>>

InSection(r) ==
    pc[r] \in {"mark", "leadUnlock", "retryUnlock", "failUnlock", "unmark", "unlock"}
Pruning == prune.pc \in {"scan", "delete", "unlock"}

\* A SETNX takes effect, but the waiter that sent it sees an error.
LockUnawares ==
    /\ RedisFaults /\ ~MutexDisabled
    /\ prune.pc = "lock" \/ \E r \in Req : pc[r] \in {"lock", "unmarkLock"}
    /\ ~mutex /\ mutex' = TRUE
    /\ UNCHANGED <<sleeps, expiring, marks, prune, pc, job, slept, excused>>

\* The mutex of nobody inside expires: its unlock failed, or its SETNX's reply.
MutexExpire ==
    /\ mutex /\ ~Pruning /\ \A r \in Req : ~InSection(r)
    /\ mutex' = FALSE
    /\ UNCHANGED <<sleeps, expiring, marks, prune, pc, job, slept, excused>>

PruneTo(from, to) == prune.pc = from /\ prune' = [prune EXCEPT !.pc = to]

PruneTick ==
    /\ InProgressEnabled /\ PruneTo("idle", "lock")
    /\ UNCHANGED <<sleeps, expiring, marks, mutex, pc, job, slept, excused>>
PruneLock ==
    /\ PruneTo("lock", "scan") /\ Lock
    /\ UNCHANGED <<sleeps, expiring, marks, pc, job, slept, excused>>

\* Bug: no field looks old enough.
PruneScanNothing ==
    /\ PruneTo("scan", "unlock")
    /\ UNCHANGED <<sleeps, expiring, marks, mutex, pc, job, slept, excused>>

\* HSCAN: the field is taken for the time it was set, so all look old.
PruneScan ==
    /\ prune.pc = "scan"
    /\ \/ prune' = [pc |-> IF marks = {} THEN "unlock" ELSE "delete", scanned |-> marks]
       \/ RedisFaults /\ PruneTo("scan", "unlock")
    /\ UNCHANGED <<sleeps, expiring, marks, mutex, pc, job, slept, excused>>

PruneDelete ==
    /\ prune.pc = "delete" /\ prune' = [pc |-> "unlock", scanned |-> {}]
    /\ \/ RedisFaults /\ UNCHANGED <<marks, excused>>
       \/ /\ marks' = marks \ prune.scanned
          /\ excused' = excused \cup UNION {LeadingFor(id) : id \in prune.scanned}
    /\ UNCHANGED <<sleeps, expiring, mutex, pc, job, slept>>

PruneUnlock ==
    /\ PruneTo("unlock", "idle") /\ Unlock
    /\ UNCHANGED <<sleeps, expiring, marks, pc, job, slept, excused>>

ReqNext(r) == MarkLock(r) \/ UnmarkLock(r) \/ Get(r) \/ Mark(r) \/ MarkUnlock(r) \/ Sql(r)
              \/ Fill(r) \/ Unmark(r) \/ UnmarkUnlock(r)
PruneNext == PruneTick \/ PruneLock \/ PruneScan \/ PruneDelete \/ PruneUnlock

RedisNext == Expire \/ LockUnawares \/ MutexExpire

Next == (\E r \in Req : Start(r) \/ ReqNext(r)) \/ RedisNext \/ PruneNext

Spec == Init /\ [][Next]_vars

\* Goroutines are scheduled, the ticker fires, a mutex that is free again and
\* again is obtained in the end; Redis is not out of order at every prune.
Fairness ==
    /\ \A r \in Req : WF_vars(ReqNext(r)) /\ SF_vars(MarkLock(r) \/ UnmarkLock(r))
    /\ WF_vars(PruneNext) /\ SF_vars(PruneLock) /\ WF_vars(MutexExpire)
    /\ SF_vars(PruneScan /\ prune'.pc # "unlock") /\ SF_vars(PruneDelete /\ marks' # marks)

FairSpec == Spec /\ Fairness
-----------------------------------------------------------------------------
\* The cache answers only for sleeps that the database has made: a failed or
\* timed out SLEEP is never cached (logic.go:302-313).
CachedWasSlept == \A id \in Field : sleeps[id] # Uncached => <<id, sleeps[id]>> \in slept

\* The marker keeps the herd out: two requests lead for one sleep only if it is
\* cached, or one of them, since it leads, had its marker pruned, or saw the hash
\* expire, or had its marker removed by an earlier request that had cached the sleep,
\* and whose entry had expired before its HDEL.  It depends on SleepWrite caching
\* before it unmarks (redis.go:753-762).
OneLeader ==
    \A r, s \in Req : r # s /\ Leading(r) /\ Leading(s) /\ job[r].id = job[s].id =>
        sleeps[job[r].id] # Uncached \/ {r, s} \cap excused # {}

\* One at a time is in a section of the mutex: a request that marks or unmarks, or
\* the prune loop; a lost unlock is not the end of it (redis.go:738-778, 112-132).
SectionsExclusive ==
    ~MutexDisabled =>
        /\ \A r, s \in Req : InSection(r) /\ InSection(s) => r = s
        /\ Pruning => \A r \in Req : ~InSection(r)

\* Every request is answered: no marker blocks it longer than its tries, and no
\* mutex for ever (logic.go:281-301, the bounded backoff).
Answered == \A r \in Req : []<>(pc[r] = "idle")

\* A marker that a failed SLEEP has left goes (redis.go:112-132).
MarksGo == \A id \in Id : []<>(id \notin marks)
=============================================================================
