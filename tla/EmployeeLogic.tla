--------------------------- MODULE EmployeeLogic ----------------------------
(***************************************************************************)
(* Requests on employees: logic/logic.go over the cache and the table.     *)
(* Each request is a goroutine of the service; a step is one Redis command *)
(* or one SQL statement, so requests interleave between any two of them.   *)
(* LOGIC_CACHE_ENABLED is true: without the cache only the table is left.  *)
(***************************************************************************)
EXTENDS EmployeeCache

CONSTANTS
    Req,             \* request slots: each serves one request after another
    Ops,             \* the operations clients ask for
    MutateDisabled,  \* MUTATE_DISABLED
    MaxTries,        \* CACHE_MAX_RETRIES (0, meaning no limit, is left out)
    SqlFaults,       \* a statement may fail
    Crashes          \* a request may vanish: its process dies

ASSUME LogicAssumption ==
    /\ Ops \subseteq {"read", "search", "update", "delete", "create", "clear"}
    /\ MaxTries \in Nat \ {0}
    /\ {MutateDisabled, SqlFaults, Crashes} \subseteq BOOLEAN

ReadPcs == {"get", "markLock", "mark", "markUnlock", "retryUnlock", "select"}
SearchPcs == {"searchGet", "searchHits", "searchSql"}
FillPcs == {"fill", "fillSearch", "unmarkLock", "unmark", "fillUnlock"}
NotFoundPcs == {"nfLock", "nfSearch", "nfEmp", "nfUnlock"}
MutatePcs == {"update", "reread", "delete", "evict", "evictLock", "evictAgain",
              "evictUnlock", "findEmpNo", "insert"}
ClearPcs == {"clearEmployees", "clearSearches", "clearInProgress",
             "clearInProgressMutex", "clearNotFound", "clearNotFoundMutex"}
Pc == {"idle"} \cup ReadPcs \cup SearchPcs \cup FillPcs \cup NotFoundPcs
        \cup MutatePcs \cup ClearPcs

\* What a request carries between its steps: its employee (0 if it has none),
\* the search it reads or fills, the attempts at the cache it has made, the
\* employees still to be read or written one by one, and the rows SQL gave it.
Job == [emp : 0 .. MaxEmp, search : Searches, tries : 0 .. MaxTries,
        todo : SUBSET Emp, got : [Emp -> Version]]
NoRows == [e \in Emp |-> NoRow]
NoJob == [emp |-> 0, search |-> {}, tries |-> 0, todo |-> {}, got |-> NoRows]

VARIABLES
    pc,      \* request -> its next step
    job,     \* request -> its locals
    lapsed   \* auxiliary: employees whose cached entry is excused (see Lapse)

tableVars == <<table, commits>>
vars == <<table, commits, cacheVars, pc, job, lapsed>>

RequestOK == pc \in [Req -> Pc] /\ job \in [Req -> Job]

TypeOK == TableOK /\ CacheOK /\ RequestOK /\ lapsed \in SUBSET Emp

Init ==
    /\ TableInit
    /\ CacheInit
    /\ pc = [r \in Req |-> "idle"]
    /\ job = [r \in Req |-> NoJob]
    /\ lapsed = {}

Goto(r, p) == pc' = [pc EXCEPT ![r] = p]
Advance(r, p) == Goto(r, p) /\ UNCHANGED job

\* The request is answered, with a value or an error, and its slot is free.
Answer(r) == Goto(r, "idle") /\ job' = [job EXCEPT ![r] = NoJob]

Begin(r, op, first, locals) ==
    /\ pc[r] = "idle" /\ op \in Ops
    /\ Goto(r, first)
    /\ job' = [job EXCEPT ![r] = locals]
    /\ UNCHANGED <<tableVars, cacheVars, lapsed>>

\* lapsed gathers the employees whose cached entry may be out of date because
\* an eviction was abandoned (a fault, a crash, a lost SQL reply) or because a
\* row fetched before a mutation was cached after it.
Lapse(E) == lapsed' = lapsed \cup E

-----------------------------------------------------------------------------
(* EmployeeRead: the cache, under backoff.Retry *)

StartRead(r) ==
    \E e \in Emp : Begin(r, "read", "get", [NoJob EXCEPT !.emp = e])

\* Bug: the number of tries is not limited.
RetryForever(r) ==
    /\ job' = [job EXCEPT ![r].tries = @ + 1]
    /\ Goto(r, "get")

\* backoff.RetryAfter: another attempt, until MaxTries of them are made; then
\* its last error falls through to SQL (a RetryAfterError is neither of the
\* errors that logic.go:148 tests for).
Retry(r) ==
    /\ job' = [job EXCEPT ![r].tries = @ + 1]
    /\ Goto(r, IF job[r].tries + 1 < MaxTries THEN "get" ELSE "select")

\* cache.EmployeeRead, HGET: an error is permanent and leads to SQL.
CacheGet(r) ==
    /\ pc[r] = "get"
    /\ \/ RedisFaults /\ Advance(r, "select")
       \/ employees[job[r].emp] # NoRow /\ Answer(r)
       \/ /\ employees[job[r].emp] = NoRow
          /\ IF InProgressEnabled THEN Advance(r, "markLock") ELSE Retry(r)
    /\ UNCHANGED <<tableVars, cacheVars, lapsed>>

\* Only the mutex of the hash changes.
LockStep(r, h, from, to) ==
    /\ pc[r] = from
    /\ Lock(h)
    /\ Advance(r, to)
    /\ UNCHANGED <<tableVars, employees, searches, marks, prunePc, scanned, lapsed>>

MarkLock(r) == LockStep(r, "inProgress", "markLock", "mark")

\* HSETNX in_progress_employees: the first to set the marker reads from SQL at
\* once, the others retry; an error leads to SQL.
Mark(r) ==
    LET field == EmpField(job[r].emp) IN
    /\ pc[r] = "mark"
    /\ \E o \in RedisOutcomes :
          /\ HSetMark(o, "inProgress", field)
          /\ Advance(r, IF o = "done" /\ field \in marks["inProgress"]
                        THEN "retryUnlock" ELSE "markUnlock")
    /\ UNCHANGED <<tableVars, employees, searches, mutex, prunePc, scanned, lapsed>>

UnlockStep(r, h, from) ==
    /\ pc[r] = from
    /\ Unlock(h)
    /\ UNCHANGED <<tableVars, employees, searches, marks, prunePc, scanned, lapsed>>

MarkUnlock(r) ==
    \/ UnlockStep(r, "inProgress", "markUnlock") /\ Advance(r, "select")
    \/ UnlockStep(r, "inProgress", "retryUnlock") /\ Retry(r)

-----------------------------------------------------------------------------
(* EmployeesSearch: the cache *)

StartSearch(r) ==
    \E s \in Searches : Begin(r, "search", "searchGet", [NoJob EXCEPT !.search = s])

\* HGET employees_search: redis.Nil is an error like any other here, so a miss
\* goes to SQL at once, without a marker and without a retry.
SearchGet(r) ==
    LET list == searches[job[r].search] IN
    /\ pc[r] = "searchGet"
    /\ \/ (RedisFaults \/ list = {}) /\ Advance(r, "searchSql")
       \/ /\ list # {}
          /\ Goto(r, "searchHits")
          /\ job' = [job EXCEPT ![r].todo = list]
    /\ UNCHANGED <<tableVars, cacheVars, lapsed>>

\* One HGET employees per employee of the list; one miss sends all to SQL.
SearchHit(r) ==
    /\ pc[r] = "searchHits"
    /\ \E e \in job[r].todo :
          \/ /\ RedisFaults \/ employees[e] = NoRow
             /\ Goto(r, "searchSql")
             /\ job' = [job EXCEPT ![r].todo = {}]
          \/ employees[e] # NoRow /\ job[r].todo = {e} /\ Answer(r)
          \/ /\ employees[e] # NoRow /\ job[r].todo # {e}
             /\ Goto(r, "searchHits")
             /\ job' = [job EXCEPT ![r].todo = @ \ {e}]
    /\ UNCHANGED <<tableVars, cacheVars, lapsed>>

-----------------------------------------------------------------------------
(* EmployeeRead and EmployeesSearch: SQL, then filling the cache *)

\* The rows found are carried to the cache; none found is recorded as such.
Carry(r, found) ==
    /\ IF found = {} THEN IF NotFoundEnabled THEN Advance(r, "nfLock") ELSE Answer(r)
       ELSE /\ Goto(r, "fill")
            /\ job' = [job EXCEPT ![r].todo = found,
                          ![r].got = [e \in Emp |-> IF e \in found THEN table[e] ELSE NoRow]]
    /\ UNCHANGED <<tableVars, cacheVars, lapsed>>

\* An error of SQL is the answer; the marker of the employee is left behind.
SqlError(r) == SqlFaults /\ Answer(r) /\ UNCHANGED <<tableVars, cacheVars, lapsed>>

SelectRow(r) ==
    /\ pc[r] = "select"
    /\ SqlError(r) \/ Carry(r, Rows \cap {job[r].emp})

\* Bug: the criteria of the search are dropped.
SearchSqlAll(r) ==
    /\ pc[r] = "searchSql"
    /\ SqlError(r) \/ Carry(r, Rows)

SearchSql(r) ==
    /\ pc[r] = "searchSql"
    /\ SqlError(r) \/ Carry(r, Matching(job[r].search))

\* cache.EmployeesWrite, HSET employees, row by row; an error ends the fill
\* and is only logged.
FillEmployee(r) ==
    /\ pc[r] = "fill"
    /\ \E e \in job[r].todo, o \in RedisOutcomes :
          /\ HSetEmployee(o, e, job[r].got[e])
          /\ lapsed' = IF o = "failed" THEN lapsed
                       ELSE IF job[r].got[e] = table[e] THEN lapsed \ {e}
                       ELSE lapsed \cup {e}
          /\ IF o # "done" THEN Answer(r)
             ELSE /\ Goto(r, IF job[r].todo = {e} THEN "fillSearch" ELSE "fill")
                  /\ job' = [job EXCEPT ![r].todo = @ \ {e}]
    /\ UNCHANGED <<tableVars, searches, marks, mutex, prunePc, scanned>>

Found(r) == {e \in Emp : job[r].got[e] # NoRow}

\* HSET employees_search.  EmployeeRead passes an empty search (logic.go:169),
\* so it replaces the cached list of all employees with the one it read.
FillSearch(r) ==
    /\ pc[r] = "fillSearch"
    /\ \E o \in RedisOutcomes :
          /\ HSetSearch(o, job[r].search, Found(r))
          /\ IF o = "done" /\ InProgressEnabled THEN Advance(r, "unmarkLock") ELSE Answer(r)
    /\ UNCHANGED <<tableVars, employees, marks, mutex, prunePc, scanned, lapsed>>

UnmarkLock(r) == LockStep(r, "inProgress", "unmarkLock", "unmark")

\* HDEL in_progress_employees; its error is ignored.
Unmark(r) ==
    /\ pc[r] = "unmark"
    /\ \E o \in RedisOutcomes :
          HDelMarks(o, "inProgress",
                    {EmpField(e) : e \in Found(r)} \cup {SearchField(job[r].search)})
    /\ Advance(r, "fillUnlock")
    /\ UNCHANGED <<tableVars, employees, searches, mutex, prunePc, scanned, lapsed>>

FillUnlock(r) == UnlockStep(r, "inProgress", "fillUnlock") /\ Answer(r)

-----------------------------------------------------------------------------
(* cache.EmployeesNotFoundWrite: no reader ever looks at its hash *)

NotFoundLock(r) == LockStep(r, "notFound", "nfLock", "nfSearch")

\* HSETNX of the search, then of the employee if there is one.
NotFoundMark(r) ==
    /\ \E o \in RedisOutcomes :
          \/ /\ pc[r] = "nfSearch"
             /\ HSetMark(o, "notFound", SearchField(job[r].search))
             /\ Advance(r, IF o = "done" /\ job[r].emp # 0 THEN "nfEmp" ELSE "nfUnlock")
          \/ /\ pc[r] = "nfEmp"
             /\ HSetMark(o, "notFound", EmpField(job[r].emp))
             /\ Advance(r, "nfUnlock")
    /\ UNCHANGED <<tableVars, employees, searches, mutex, prunePc, scanned, lapsed>>

NotFoundUnlock(r) == UnlockStep(r, "notFound", "nfUnlock") /\ Answer(r)

-----------------------------------------------------------------------------
(* EmployeeUpdate, EmployeeDelete: SQL, then eviction *)

StartUpdate(r) ==
    /\ ~MutateDisabled
    /\ \E e \in Emp : Begin(r, "update", "update", [NoJob EXCEPT !.emp = e])

\* Bug: MUTATE_DISABLED is not looked at.
StartDeleteAnyway(r) ==
    \E e \in Emp : Begin(r, "delete", "delete", [NoJob EXCEPT !.emp = e])

StartDelete(r) ==
    /\ ~MutateDisabled
    /\ \E e \in Emp : Begin(r, "delete", "delete", [NoJob EXCEPT !.emp = e])

\* A lost reply leaves the row changed and the caller with an error.  At the
\* bound on commits, writing a row fails.
CommitOutcomes == IF commits = MaxCommits THEN {"failed"} ELSE Outcomes(SqlFaults)

\* UPDATE: without a row it changes nothing, and is no error.
UpdateRow(r) ==
    LET e == job[r].emp IN
    /\ pc[r] = "update"
    /\ \/ /\ table[e] = NoRow
          /\ Advance(r, "reread")
          /\ UNCHANGED <<tableVars, lapsed>>
       \/ /\ table[e] # NoRow
          /\ \E o \in CommitOutcomes :
                /\ IF o = "failed" THEN UNCHANGED tableVars ELSE Commit(e)
                /\ IF o = "lost" THEN Lapse({e}) ELSE UNCHANGED lapsed
                /\ IF o = "done" THEN Advance(r, "reread") ELSE Answer(r)
    /\ UNCHANGED cacheVars

\* Bug: the update does not evict.
RereadOnly(r) ==
    /\ pc[r] = "reread"
    /\ Answer(r)
    /\ UNCHANGED <<tableVars, cacheVars, lapsed>>

\* sql.EmployeeUpdate reads the row back: if that fails, or the row is gone,
\* the update returns an error and nothing is evicted.
Reread(r) ==
    /\ pc[r] = "reread"
    /\ \/ SqlFaults /\ Answer(r) /\ Lapse({job[r].emp})
       \/ table[job[r].emp] = NoRow /\ Answer(r) /\ UNCHANGED lapsed
       \/ table[job[r].emp] # NoRow /\ Advance(r, "evict") /\ UNCHANGED lapsed
    /\ UNCHANGED <<tableVars, cacheVars>>

\* Bug: the entry is evicted by the update alone, not by the deletion.
DeleteRowOnly(r) ==
    /\ pc[r] = "delete"
    /\ Answer(r)
    /\ Remove(job[r].emp)
    /\ UNCHANGED <<cacheVars, lapsed>>

\* DELETE: no row affected is ErrEmployeeNotFound.
DeleteRow(r) ==
    LET e == job[r].emp IN
    /\ pc[r] = "delete"
    /\ \/ table[e] = NoRow /\ Answer(r) /\ UNCHANGED <<tableVars, lapsed>>
       \/ /\ table[e] # NoRow
          /\ \E o \in Outcomes(SqlFaults) :
                /\ IF o = "failed" THEN UNCHANGED tableVars ELSE Remove(e)
                /\ IF o = "lost" THEN Lapse({e}) ELSE UNCHANGED lapsed
                /\ IF o = "done" THEN Advance(r, "evict") ELSE Answer(r)
    /\ UNCHANGED cacheVars

\* Evicting e has made its cached entry right, unless the command failed.
Evict(r, o) ==
    LET e == job[r].emp IN
    /\ HDelEmployee(o, e)
    /\ lapsed' = IF o = "failed" THEN lapsed \cup {e} ELSE lapsed \ {e}

\* cache.EmployeesDelete, first HDEL: its error ends the eviction.
EvictFirst(r) ==
    /\ pc[r] = "evict"
    /\ \E o \in RedisOutcomes :
          /\ Evict(r, o)
          /\ IF o = "done" /\ InProgressEnabled THEN Advance(r, "evictLock") ELSE Answer(r)
    /\ UNCHANGED <<tableVars, searches, marks, mutex, prunePc, scanned>>

EvictLock(r) == LockStep(r, "inProgress", "evictLock", "evictAgain")

\* The second HDEL is of the employees again, not of the in-progress hash.
EvictAgain(r) ==
    /\ pc[r] = "evictAgain"
    /\ \/ \E o \in RedisOutcomes \ {"failed"} : Evict(r, o)
       \/ RedisFaults /\ UNCHANGED <<employees, lapsed>>
    /\ Advance(r, "evictUnlock")
    /\ UNCHANGED <<tableVars, searches, marks, mutex, prunePc, scanned>>

EvictUnlock(r) == UnlockStep(r, "inProgress", "evictUnlock") /\ Answer(r)

-----------------------------------------------------------------------------
(* EmployeeCreate: the cache is left alone *)

StartCreate(r) == ~MutateDisabled /\ Begin(r, "create", "findEmpNo", NoJob)

\* An empty table is an error, and so is, at the bound, a full one.
FindEmpNo(r) ==
    /\ pc[r] = "findEmpNo"
    /\ \/ (SqlFaults \/ Rows = {} \/ MaxEmp \in Rows) /\ Answer(r)
       \/ \E n \in Emp :
             /\ IsNextEmpNo(n)
             /\ Goto(r, "insert")
             /\ job' = [job EXCEPT ![r].emp = n]
    /\ UNCHANGED <<tableVars, cacheVars, lapsed>>

\* INSERT: the number may have been taken meanwhile (a duplicate key).  The
\* read of the new row that follows changes nothing.
Insert(r) ==
    /\ pc[r] = "insert"
    /\ \/ table[job[r].emp] # NoRow /\ UNCHANGED tableVars
       \/ /\ table[job[r].emp] = NoRow
          /\ \E o \in CommitOutcomes :
                IF o = "failed" THEN UNCHANGED tableVars ELSE Commit(job[r].emp)
    /\ Answer(r)
    /\ UNCHANGED <<cacheVars, lapsed>>

-----------------------------------------------------------------------------
(* Clear: one DEL after the other, the mutexes too, even while held *)

StartClear(r) == Begin(r, "clear", "clearEmployees", NoJob)

ClearNext ==
    [clearEmployees |-> "clearSearches",
     clearSearches |-> "clearInProgress",
     clearInProgress |-> "clearInProgressMutex",
     clearInProgressMutex |-> "clearNotFound",
     clearNotFound |-> "clearNotFoundMutex",
     clearNotFoundMutex |-> "idle"]

Clear(r) ==
    /\ pc[r] \in ClearPcs
    /\ \E o \in RedisOutcomes :
          LET deleted(p) == pc[r] = p /\ o # "failed" IN
          /\ employees' = IF deleted("clearEmployees") THEN NoRows ELSE employees
          /\ lapsed' = IF deleted("clearEmployees") THEN {} ELSE lapsed
          /\ searches' = IF deleted("clearSearches") THEN [s \in Searches |-> {}] ELSE searches
          /\ marks' = [h \in MarkerHash |->
                         IF \/ h = "inProgress" /\ deleted("clearInProgress")
                            \/ h = "notFound" /\ deleted("clearNotFound")
                         THEN {} ELSE marks[h]]
          /\ mutex' = [h \in MarkerHash |->
                         /\ mutex[h]
                         /\ ~(h = "inProgress" /\ deleted("clearInProgressMutex"))
                         /\ ~(h = "notFound" /\ deleted("clearNotFoundMutex"))]
          /\ IF o = "done" THEN Advance(r, ClearNext[pc[r]]) ELSE Answer(r)
    /\ UNCHANGED <<tableVars, prunePc, scanned>>

-----------------------------------------------------------------------------
(* The environment, and the specification *)

\* A request of e has changed the row and not yet evicted the cached entry.
Evicting(r, e) == pc[r] \in {"reread", "evict"} /\ job[r].emp = e

\* Requests that are between their Lock and their Unlock of a hash's mutex.
Holders(h) ==
    {r \in Req : pc[r] \in
        IF h = "inProgress"
        THEN {"mark", "markUnlock", "retryUnlock", "unmark", "fillUnlock",
              "evictAgain", "evictUnlock"}
        ELSE {"nfSearch", "nfEmp", "nfUnlock"}}

Crash(r) ==
    /\ Crashes /\ pc[r] # "idle"
    /\ Lapse({e \in Emp : Evicting(r, e)})
    /\ Answer(r)
    /\ UNCHANGED <<tableVars, cacheVars>>

\* Requests that are inside Lock on a hash's mutex.
Waiters(h) ==
    {r \in Req : pc[r] \in
        IF h = "inProgress" THEN {"markLock", "unmarkLock", "evictLock"} ELSE {"nfLock"}}

\* Whether the prune loop of the hash is between its Lock and its Unlock.
PrunerHolds(h) == prunePc[h] \in {"scan", "delete", "unlock"}

\* A SETNX takes effect, but the waiter that sent it sees an error.
LockUnawares(h) ==
    /\ RedisFaults /\ ~MutexDisabled
    /\ Waiters(h) # {} \/ prunePc[h] = "lock"
    /\ ~mutex[h] /\ mutex' = [mutex EXCEPT ![h] = TRUE]
    /\ UNCHANGED <<tableVars, employees, searches, marks, prunePc, scanned, pc, job, lapsed>>

\* Bug: SETNX is given no expiration.
ExpireNever(h) == mutex[h] /\ FALSE /\ UNCHANGED vars

\* Redis drops a mutex key mutexExpiration after it was set.
Expire(h) ==
    /\ mutex[h]
    /\ SectionsOutlive \/ (Holders(h) = {} /\ ~PrunerHolds(h))
    /\ mutex' = [mutex EXCEPT ![h] = FALSE]
    /\ UNCHANGED <<tableVars, employees, searches, marks, prunePc, scanned, pc, job, lapsed>>

Start(r) ==
    \/ StartRead(r) \/ StartSearch(r) \/ StartUpdate(r) \/ StartDelete(r)
    \/ StartCreate(r) \/ StartClear(r)

Locking(r) == MarkLock(r) \/ UnmarkLock(r) \/ NotFoundLock(r) \/ EvictLock(r)

Working(r) ==
    \/ CacheGet(r) \/ Mark(r) \/ MarkUnlock(r) \/ SelectRow(r)
    \/ SearchGet(r) \/ SearchHit(r) \/ SearchSql(r)
    \/ FillEmployee(r) \/ FillSearch(r) \/ Unmark(r) \/ FillUnlock(r)
    \/ NotFoundMark(r) \/ NotFoundUnlock(r)
    \/ UpdateRow(r) \/ Reread(r) \/ DeleteRow(r)
    \/ EvictFirst(r) \/ EvictAgain(r) \/ EvictUnlock(r)
    \/ FindEmpNo(r) \/ Insert(r)
    \/ Clear(r)

Pruning(h, step) == step /\ UNCHANGED <<tableVars, pc, job, lapsed>>
PruneWork(h) ==
    Pruning(h, PruneTick(h) \/ PruneScan(h) \/ PruneDelete(h) \/ PruneUnlock(h))

Next ==
    \/ \E r \in Req : Start(r) \/ Locking(r) \/ Working(r) \/ Crash(r)
    \/ \E h \in MarkerHash :
          PruneWork(h) \/ Pruning(h, PruneLock(h)) \/ LockUnawares(h) \/ Expire(h)

Spec == Init /\ [][Next]_vars

\* A request goes on as long as Redis and SQL answer or fail; a ticker fires
\* and Redis lets keys expire.  The waiters of a mutex poll every
\* mutexRetryInterval (1s) while a section lasts for a command or two, so no
\* waiter loses every race.  Nothing makes a client ask or a process die.
Fairness ==
    /\ \A r \in Req : WF_vars(Working(r)) /\ SF_vars(Locking(r))
    /\ \A h \in MarkerHash :
          /\ WF_vars(PruneWork(h))
          /\ SF_vars(Pruning(h, PruneLock(h)))
          /\ WF_vars(Expire(h))

FairSpec == Spec /\ Fairness
-----------------------------------------------------------------------------
(* Properties *)

\* What a request knows at each step: it has an attempt left whenever it asks
\* the cache (logic.go:126-144), and it has the number of its employee whenever
\* a step needs one.
LocalInv(p, j) ==
    /\ p \in {"get", "markLock", "mark", "markUnlock", "retryUnlock"} => j.tries < MaxTries
    /\ p \in ReadPcs \cup {"nfEmp", "update", "reread", "delete", "evict", "evictLock",
                           "evictAgain", "evictUnlock", "insert"} => j.emp \in Emp

RequestInv == \A r \in Req : LocalInv(pc[r], job[r])

\* A cached employee is the row of the table, unless a request that changed the
\* row is about to evict it, or the entry is excused: an eviction was abandoned
\* or a row fetched before a mutation was cached after it (logic.go:234-275).
StaleHasCause ==
    \A e \in Emp :
        \/ employees[e] \in {NoRow, table[e]}
        \/ e \in lapsed
        \/ \E r \in Req : Evicting(r, e)

\* The entry of a deleted employee is excused, or its deletion (not merely an
\* update that found the row gone) is about to evict it: why sql.EmployeeUpdate
\* may fail with not found without evicting (sql.go:291-295).
DeletedIsEvicted ==
    \A e \in Emp :
        table[e] = NoRow /\ employees[e] # NoRow =>
            e \in lapsed \/ \E r \in Req : pc[r] = "evict" /\ job[r].emp = e

\* With MUTATE_DISABLED the cached employees are the rows of the table, whatever
\* faults, crashes, expirations and clears happen on the way.
CacheExact == \A e \in Emp : employees[e] \in {NoRow, table[e]}

\* With MUTATE_DISABLED a cached search with criteria lists exactly the
\* employees that match it.
SearchExact ==
    \A s \in Searches \ {{}} : searches[s] \in {{}, Matching(s)}

\* Between the HSCAN and the HDEL of a prune loop its hash does not change
\* (redis.go:95-110): what the loop holds the mutex for.
PruneUndisturbed ==
    \A h \in MarkerHash : prunePc[h] = "delete" => marks[h] = scanned[h]

\* Every request is answered: in spite of a marker whose setter failed or died,
\* of a mutex whose holder died, and of prune loops taking the mutex for ever.
Answered == \A r \in Req : pc[r] # "idle" ~> pc[r] = "idle"

\* No marker lasts: the prune loop removes what failed requests leave behind,
\* so the next reader of the employee is not kept from filling the cache.
MarkersGo ==
    \A h \in MarkerHash, f \in Field : f \in marks[h] ~> f \notin marks[h]

\* Once no request is under way, no cached employee is out of date: evictions
\* follow mutations, with no need of an expiration (README.md:473).
QuiescentFresh ==
    (\A r \in Req : pc[r] = "idle") => CacheExact

\* With MUTATE_DISABLED the cached list of all employees has all of them.
EmptySearchExact == searches[{}] \in {{}, Rows}
=============================================================================
