--------------------------- MODULE EmployeeCache ----------------------------
(***************************************************************************)
(* The Redis side of cache/redis.go: the hashes of cached employees and    *)
(* cached searches, the in-progress and not-found hashes, each with its    *)
(* mutex, and the prune loop of each.  Every operator is one command; the  *)
(* commands of one operation are separate steps of EmployeeLogic.          *)
(***************************************************************************)
EXTENDS EmployeeTable

CONSTANTS
    Searches,            \* the searches clients make: sets of employee numbers
    InProgressEnabled,   \* CACHE_ENABLE_IN_PROGRESS
    NotFoundEnabled,     \* CACHE_NOT_FOUND_ENABLED
    MutexDisabled,       \* CACHE_REDIS_MUTEX_DISABLED
    RedisFaults,         \* a command may fail or time out
    SectionsOutlive      \* a mutex may expire while its holder still runs

ASSUME CacheAssumption ==
    /\ {} \in Searches
    /\ Searches \subseteq SUBSET Emp
    /\ {InProgressEnabled, NotFoundEnabled, MutexDisabled, RedisFaults,
        SectionsOutlive} \subseteq BOOLEAN

\* The two hashes of markers, each guarded by its own mutex.
MarkerHash == {"inProgress", "notFound"}

\* A marker's field is an employee number or the key of a search.
EmpField(e) == <<e, {}>>
SearchField(search) == <<0, search>>
Field == {EmpField(e) : e \in Emp} \cup {SearchField(s) : s \in Searches}

VARIABLES
    employees,  \* hash employees: employee -> cached version, or NoRow
    searches,   \* hash employees_search: search -> cached list, {} if none
    marks,      \* the fields present in each marker hash
    mutex,      \* the mutex key of each marker hash exists
    prunePc,    \* per marker hash, where its prune loop is
    scanned     \* per marker hash, the fields its HSCAN collected

cacheVars == <<employees, searches, marks, mutex, prunePc, scanned>>

CacheOK ==
    /\ employees \in [Emp -> Version]
    /\ searches \in [Searches -> SUBSET Emp]
    /\ marks \in [MarkerHash -> SUBSET Field]
    /\ mutex \in [MarkerHash -> BOOLEAN]
    /\ prunePc \in [MarkerHash -> {"idle", "lock", "scan", "delete", "unlock"}]
    /\ scanned \in [MarkerHash -> SUBSET Field]

CacheInit ==
    /\ employees = [e \in Emp |-> NoRow]
    /\ searches = [s \in Searches |-> {}]
    /\ marks = [h \in MarkerHash |-> {}]
    /\ mutex = [h \in MarkerHash |-> FALSE]
    /\ prunePc = [h \in MarkerHash |-> "idle"]
    /\ scanned = [h \in MarkerHash |-> {}]

\* What becomes of a command: it is done, it fails, or it takes effect but its
\* reply is lost (the caller sees an error either way).
Outcomes(faults) == {"done"} \cup IF faults THEN {"failed", "lost"} ELSE {}
RedisOutcomes == Outcomes(RedisFaults)

HSetEmployee(o, e, version) ==
    employees' = IF o = "failed" THEN employees
                 ELSE [employees EXCEPT ![e] = version]
HDelEmployee(o, e) == HSetEmployee(o, e, NoRow)

HSetSearch(o, search, list) ==
    searches' = IF o = "failed" THEN searches
                ELSE [searches EXCEPT ![search] = list]

HSetMark(o, h, field) ==
    marks' = IF o = "failed" THEN marks ELSE [marks EXCEPT ![h] = @ \cup {field}]
HDelMarks(o, h, fields) ==
    marks' = IF o = "failed" THEN marks ELSE [marks EXCEPT ![h] = @ \ fields]

\* Bug: the key is written with SET.
LockBySet(h) == mutex' = [mutex EXCEPT ![h] = TRUE]

\* Lock returns: SETNX created the key.  A failed attempt is no step.
Lock(h) ==
    IF MutexDisabled THEN UNCHANGED mutex
    ELSE ~mutex[h] /\ mutex' = [mutex EXCEPT ![h] = TRUE]

\* Unlock: the script deletes the key, whoever created it.
Unlock(h) ==
    IF MutexDisabled THEN UNCHANGED mutex
    ELSE \E o \in RedisOutcomes :
            mutex' = IF o = "failed" THEN mutex ELSE [mutex EXCEPT ![h] = FALSE]

\* Whether the prune loop of the hash is launched.
Pruned(h) == IF h = "inProgress" THEN InProgressEnabled ELSE NotFoundEnabled

PruneTo(h, p) == prunePc' = [prunePc EXCEPT ![h] = p]

\* The ticker of the loop fires.
PruneTick(h) ==
    /\ prunePc[h] = "idle" /\ Pruned(h)
    /\ PruneTo(h, "lock")
    /\ UNCHANGED <<employees, searches, marks, mutex, scanned>>

PruneLock(h) ==
    /\ prunePc[h] = "lock"
    /\ Lock(h)
    /\ PruneTo(h, "scan")
    /\ UNCHANGED <<employees, searches, marks, scanned>>

\* Bug: the scan never finds a field to delete.
PruneScanNothing(h) ==
    /\ prunePc[h] = "scan"
    /\ PruneTo(h, "unlock")
    /\ UNCHANGED <<employees, searches, marks, mutex, scanned>>

\* HSCAN.  Its iterator yields the field before the value, and the loop takes
\* the field for the time it was set: every field looks older than the TTL.
PruneScan(h) ==
    /\ prunePc[h] = "scan"
    /\ \/ /\ scanned' = [scanned EXCEPT ![h] = marks[h]]
          /\ PruneTo(h, IF marks[h] = {} THEN "unlock" ELSE "delete")
       \/ /\ RedisFaults
          /\ PruneTo(h, "unlock")
          /\ UNCHANGED scanned
    /\ UNCHANGED <<employees, searches, marks, mutex>>

PruneDelete(h) ==
    /\ prunePc[h] = "delete"
    /\ \E o \in RedisOutcomes : HDelMarks(o, h, scanned[h])
    /\ PruneTo(h, "unlock")
    /\ scanned' = [scanned EXCEPT ![h] = {}]
    /\ UNCHANGED <<employees, searches, mutex>>

PruneUnlock(h) ==
    /\ prunePc[h] = "unlock"
    /\ Unlock(h)
    /\ PruneTo(h, "idle")
    /\ UNCHANGED <<employees, searches, marks, scanned>>
=============================================================================
