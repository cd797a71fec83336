# A verification of go-blog-observability in TLA+

The repository is a Go service that keeps employees in MySQL behind a cache in
Redis, with authorization by OPA policies, an HTTP boundary that measures itself, a
client, and a scenario runner that loads it. This directory models its control as
TLA+ modules, checks them with TLC on small instances, and proves the safety of
each component for instances of any size with TLAPS.

Paths are relative to `src/`; `redis.go` is `internal/cache/redis.go`, `logic.go` is
`internal/logic/logic.go`, `sql.go` is `internal/sql/sql.go`, and so on for the other
packages; `main.go` is `cmd/service/internal/main.go`.

`PROJECT.json` holds the same in machine-readable form: the source lines of every
definition, the runs, for each checked property a plausible bug that breaks it
(the definitions commented "Bug:"), the findings, the hazards and the theorems.

## 1. The system

| Part | State | Operations | Interacts with |
|---|---|---|---|
| HTTP service (`internal/service`) | server, instruments | one goroutine per request, through five middlewares; Open, Close | authz, cache (Clear) |
| Authorization (`internal/authz`) | last compilation, keys, a compile loop each second | Authorize, and the five employee operations wrapped; Open, Close | policy, logic |
| Policy engine (`internal/pkg/policy`, `opa/`) | two maps of prepared queries | CompilePrepared, EvaluatePrepared; Open, Close | OPA library |
| Employee logic (`internal/logic`) | configuration only | EmployeeCreate, Read, Search, Update, Delete, Sleep, Panic | cache, sql, backoff library |
| Cache (`internal/cache`) | in Redis: hashes of employees, searches, sleeps, in-progress and not-found markers, mutex keys | read, write, delete, not-found write, Clear; the prune loops; Lock, Unlock | Redis |
| SQL (`internal/sql`) | the employees table (MySQL), a connection pool | one to three statements per operation, without transactions | MySQL |
| Client (`internal/client`) | none between calls | one HTTP call per method, with a timeout | service |
| Scenario runner (`internal/scenario`) | an employee of its own, workers, two channels | five scenarios | client |
| Metrics, logger, tracer | instruments, exporters | called by everything | OpenTelemetry |
| Lifecycle (`main.go`) | the list of components | Open in order, Close in reverse | all |

What is hard:

* **Filling against evicting.** A read fetches a row and caches it later; an update
  or deletion in between evicts an entry that is not there yet.
* **Several steps, no transaction.** UPDATE, read-back, eviction (`sql.go:284-295`,
  `logic.go:246`): any may fail, lose its reply, or be the last one before the
  process dies. Creation finds a number, inserts, and reads back.
* **The mutex in Redis.** A key with an expiration, polled, deleted by whoever
  calls Unlock; holders may die, overrun, lose the reply of their own SETNX, or
  find the key cleared away.
* **Markers.** The first reader of an uncached employee or sleep marks it; others
  retry. Failed readers leave their markers to the prune loop.
* **A compilation that changes under the calls**, with rounds that fail in the middle,
  and an engine that is closed under them, since the server is never stopped.
* **Counters that must agree** although handlers panic and clients give up.
* **Closing.** `service.Close` returns at once (`service.go:569`), so that requests meet
  components closed one after another; Close panics in two configurations.
* **A runner** whose calls are performed although it gave up waiting for them.

What correctness means, by component: *mutex*: one client inside, which deletes only
its own key; every waiter returns. *Cache and logic*: a cached employee is the row,
or something identifiable is about to make it so or is to blame; exact when nothing
mutates; every request is answered; markers do not last. *Sleeps*: what is cached was
slept, and one request does it for all. *Authorization*: nobody is let through
who was not permitted at some time of the call; a policy that stays is adopted.
*Service*: instruments that agree; success told and counted only for success.
*Lifecycle*: used only while open, closed whatever happens, ended by a signal.
*Runner*: it leaves no employee and no worker behind but for a cause.

## 2. Modules

| Module | Models | Extends |
|---|---|---|
| `RedisMutex` | Lock and Unlock on one key (`redis.go:187-247`), Clear, Close, expiration, faults, crashes | |
| `EmployeeTable` | the employees table and its statements | |
| `EmployeeCache` | the hashes, the mutex keys, each Redis command, the prune loops (`redis.go:89-185`) | `EmployeeTable` |
| `EmployeeLogic` | every employee operation of `logic.go` with the cache's Clear, one command or statement per step | `EmployeeCache` |
| `EmployeeLocking` | refinement: the mutex of each marker hash, as `EmployeeLogic` uses it, is a `RedisMutex` | `EmployeeLogic`, instances of `RedisMutex` |
| `SleepCache` | logic.Sleep over SleepRead, SleepWrite, SLEEP and the prune loop | |
| `SleepLocking` | refinement: the mutex of the sleeps, as `SleepCache` uses it, is a `RedisMutex` | `SleepCache`, an instance of `RedisMutex` |
| `ErrorKinds` | the shapes an error comes in, what `Is` and `AsType` find in it, the status it gets | |
| `HttpService` | middlewares, endpoints and instruments on one side, the client's methods on the other | `ErrorKinds` |
| `AuthzRules` | the Rego rules of `opa/` as operators | |
| `Authz` | Open, Close, Authorize, the wrapped operations, the compile loop, and the policy engine | `AuthzRules` |
| `CacheConfig` | what `Configure` makes of the cache's environment, and which tickers panic | |
| `Lifecycle` | main, its list of components, the prune loops' panics, requests still served | `CacheConfig` |
| `Scenario` | the five scenarios, workers, channels, client timeouts, the signal | |
| `MC...` | values of constants for TLC | |
| `...Proofs` | the theorems (section 5) | |

### RedisMutex

`key` is the Redis key, `where` says for each client whether it is out, inside
Lock or past it, `closed` that the cache's context is cancelled. `owner` is
auxiliary: inside whose SETNX the key was created. Nothing of it reaches the code,
whose script compares the constant `true` with itself, so `Release` deletes any key.
Failed attempts of the polling loop change nothing and are not steps.
`AcquireUnawares` is a SETNX that took effect with a lost reply. `env`, chosen at the
start, is the set of disturbances of a behaviour: sections that outlive the key,
Clear, Close. `Tame` is none of them.

### EmployeeTable, EmployeeCache, EmployeeLogic

A row is abstracted to the number of the statement that wrote it (`Version`), so
that "the cached row is the row" is an equality. A cached search is the set of
employees in its list; `{}` is no list, since the code never caches an empty one. A
search is the set of employee numbers it asks for, `{}` asking for all
(`employeeCriteria`). `marks` holds the fields of the marker hashes; their values,
times, are read by nothing: the prune loops parse the *field* as a time
(`redis.go:98-103`), and an employee number is a moment in 1970, so they delete every
field they find, and the model does too.

Each element of `Req` is a slot serving one request after another. `pc` is its next
command, `job` its locals. By operation:

| Operation | Steps |
|---|---|
| EmployeeRead | `CacheGet`, `MarkLock`, `Mark`, `MarkUnlock` (then SQL, or `Retry`), `SelectRow`, and the fill or the not-found write |
| EmployeesSearch | `SearchGet`, `SearchHit` per employee, `SearchSql`, fill or not-found write |
| fill (EmployeesWrite) | `FillEmployee` per row, `FillSearch`, `UnmarkLock`, `Unmark`, `FillUnlock` |
| EmployeesNotFoundWrite | `NotFoundLock`, `NotFoundMark` twice, `NotFoundUnlock` |
| EmployeeUpdate | `UpdateRow`, `Reread`, then the eviction |
| EmployeeDelete | `DeleteRow`, then the eviction |
| eviction (EmployeesDelete) | `EvictFirst`, `EvictLock`, `EvictAgain`, `EvictUnlock` |
| EmployeeCreate | `FindEmpNo`, `Insert` |
| Clear | `Clear`, six times |

`Crash` ends a request wherever it is; locks and markers stay. `Expire` and
`LockUnawares` act on the mutex keys. Consequences of the code that the model follows
although they surprise:

* `EmployeeRead` fills the cache with an *empty* search (`logic.go:169`), and so
  overwrites the cached list of all employees.
* A miss in `EmployeesRead` is a plain `redis.Nil`: no marker, no retry; the branch
  of `redis.go:523-551` is never taken.
* When retries are used up, `backoff.Retry` returns the `RetryAfterError`, which
  `logic.go:148-153` does not match; the request goes on to SQL.
* The second HDEL of an eviction (`redis.go:635`) is of the employees hash again.
* Nothing reads the not-found hash.

`lapsed` is auxiliary: the employees whose entry is *excused*, because an eviction was
abandoned (fault, crash, lost SQL reply) or because a row fetched earlier was
cached after a mutation. An entry is excused only between the step that spoils it and
the next write or removal of it.

A prune loop that dies is, for what it leaves in Redis, one whose commands and
Unlock fail, so it has no action of its own. Abstracted: an UPDATE without any field
is a failed statement; the retry interval; the one-time expiration of whole hashes,
which is a `Clear` of them; a request's deadline, which appears as failing commands.

### SleepCache

The same protocol for sleeps, written for the question the employees do not ask: does
the marker keep the herd out? `job[r].leads` is a request that set the marker and goes
to the database. `slept` records what MySQL has slept. `expiring` says that the hash has
a time to live, which `Open` gives it only if it exists (`redis.go:352-366`); it then
goes as a whole. `excused` is the set of *requests* to which something happened that the
marker does not survive: a leader whose marker is pruned; a leader, or a request that
has cached its sleep and not yet unmarked, when the hash expires; and a leader whose
marker is deleted by such a request, whose HDEL asks nobody whose marker it is
(`redis.go:761`). A leader is excused no longer once it has cached its sleep, and every
request starts afresh, so that an old expiration excuses nobody. `LockUnawares` is a SETNX
with a lost reply, as in `RedisMutex`. Clear touches nothing of the sleeps, and
`SleepsDelete` has no caller.

### ErrorKinds and HttpService

An error is its shape (a value of `ErrorCommon`, a pointer to one, the unauthorized
type, any other) and its type; that is all `handleResponse` looks at. A request's `pc`
goes down through the middlewares and comes up through their deferred functions:
`Enter`, `Count`, `Handle`, `CountAnswer`, `Leave`, `Recover`, `Observe`, one step per
group of instruments, so that others interleave between any two. `Handle` takes any
outcome the operation can have. `client` is what the caller was told; it may give up
at any time, and requests of other clients (`SendOther`) come without one. Each method
of `client.go` is `Send` with its operation.

### AuthzRules and Authz

A role is its users and permissions; a compilation is the users of each permission;
an input to the rules has exactly the fields `authz.go` fills in, and the others
absent. `Authz` has one action per step between which another goroutine can act: the
compile loop reads, prepares, writes the map of prepared queries, and adopts; a call
loads the compilation, prepares, decides, performs; main closes authz, waits, and drops the
engine's two maps and its flag one by one. `held` (what the file has held) and `during`
(what was in force during a call) are auxiliary. Every operation asks
`can_create_employee`, as the code does. The calls share nothing but the map of queries.

Opening is in steps as well, because it may fail between them: `EngineOpen`,
`OpenLaunch` (keys read, the compile loop started, `authz.go:218-295`), `Open` (counters made,
`authz.go:296-302`). `EngineOpenFails`, `OpenFails` (a key is refused, before the launch) and
`OpenFailsLaunched` (a counter is refused, after it) return an error to main, which
closes what it opened before: `failed` is set, and `closer` goes to `"evaluate"`, to close
the engine, or to `"rest"`, past it. With `OpenFailsLaunched` the loop is left running,
with a context that nobody cancels but the signal. `MeterFaults` lets the meter refuse an
instrument; the run has it on.

### CacheConfig and Lifecycle

`CacheConfig` takes each variable of the environment as absent, unparsable or a
number by its sign, and says what `Configure` leaves in its place. `Lifecycle` opens
the cache with the result, so that a ticker without an interval kills the process.
`state` is what main has called of each component; `Uses` is what `setup` passes to
each constructor. A request is a mutation in three steps, through authz, SQL and the
eviction; `stale` records an eviction lost to a closed cache or a dead process. An Open
may fail at any component. `CompileLoopPanics` is what the loop left behind by a failing
`authz.Open` may do to a process that is about to exit; how it gets there is `Authz`'s.

### Scenario

`Program(plan)` is the runner's list of steps. A worker blocks on `start`, then calls at
every tick until `stop`. `late` holds operations whose client gave up and which the
service may still perform (`ServeLate`). The deferred deletion, with the context the
signal cancels, is `Cleanup`. An interval that does not parse is 0 in three scenarios
and makes `NewTicker` panic.

## 3. Properties and runs

| Run | Shows | Bounds |
|---|---|---|
| `Mutex` | exclusion (`MutualExclusion`), whoever is inside made the key (`HolderOwnsKey`), Unlock deletes only its own key (`DeletesOnlyItsOwn`), every Lock returns (`WaiterReturns`) | 5 clients, all 8 environments, faults and dying holders |
| `EmployeeFaults` | what makes a cached row stale (`StaleHasCause`), a deletion evicts (`DeletedIsEvicted`), and what a request's locals hold (`TypeOK`) | 2 employees, one in the table, 2 requests, 3 commits; all faults, crashes, Clear; no markers |
| `EmployeeReadOnly` | exact caches with MUTATE_DISABLED (`CacheExact`, `SearchExact`), even without the mutex | 2 employees, 2 requests, every operation asked for, searches for all and for one |
| `EmployeeLiveness` | every request is answered (`Answered`), no in-progress marker lasts (`MarkersGo`) | 1 employee, 2 requests, 2 commits, SQL errors, crashes |
| `EmployeeLocking` | both marker mutexes refine `RedisMutex`; a pruner is alone between its HSCAN and its HDEL (`PruneUndisturbed`) | 1 employee, 2 requests, both prune loops, Redis faults |
| `EmployeeStaleFill` | *violated*: a stale entry with no request under way (`QuiescentFresh`) | 1 employee, 2 requests |
| `EmployeeEmptySearch` | *violated*: the cached list of all employees lacks one (`EmptySearchExact`) | 2 employees, 2 requests |
| `SleepCache` | only what was slept is cached (`CachedWasSlept`), one request leads (`OneLeader`), sections exclude (`SectionsExclusive`); every request is answered (`Answered`), no marker stays (`MarksGo`) | 1 sleep, 2 requests, 2 tries, all faults |
| `Authz` | who is let through and by what (`PerformsPermitted`, `NobodyBeforeFirst`, `OnlyHeldContents`), who panics (`LoopSurvivesClose`, `PanicsOnlyClosing`); a content that stays is adopted, Close returns | 1 call slot, 2 contents and the unreadable file, 2 edits, 7 configurations, failing rounds, failing Opens of authz and of the engine |
| `HttpService` | the instruments agree at rest and at any moment (`AtRestBalanced`, `UnendedIsActive`), success is counted and told only for success (`SuccessIsTrue`, `ClientNotMisled`) | 2 requests, every operation against four that are counted differently |
| `Scenario` | no worker calls when the employee is deleted, an employee or a worker is left only for a cause, every scenario ends | 3 clients, 5 scenarios, intervals absent or unparsable, late operations, the signal |
| `Lifecycle` | `UsesOpen`, `AllClosed`, `StaleOnlyClosing`, `TickersLive`, and a signal or a failed server ends the process (`Ended`) | 2 requests, 8 configurations, environments of one prune loop whose ticker or Lock may lack an interval |

**Why the bounds are enough.** *Employees.* Every race is between two requests, or a
request and a prune loop, over one row; slots are used again, so a history may hold
any number of requests one after another, and another process is a request like any
other. Three commits, the seeded row being the first, are an update, a deletion and a
creation under the same number, or two updates. Two tries are the default of
`CACHE_MAX_RETRIES`. At the bound on commits an INSERT or UPDATE fails, which the code
handles as an SQL error, so nothing deadlocks for the bound's sake. `EmployeeFaults`
leaves the markers out, which decide who goes to SQL and when but touch no row; the
theorem `Fresh` has them in. `EmployeeLocking` leaves out crashes, after which a key has
no owner until it expires, as in `Mutex`. *Mutex.* The environments are one run, since
exclusion is claimed of `Tame` behaviours and the return of waiters of all of them.
*Sleeps.* Two requests for one id, since ids share only the mutex and the moment of
their expiration; the slots are used again, so a third request may lead with the
second. *Authz.* One call
slot meets every step of the loop and of main; a second would share only the map of
queries, for which `PanicsOnlyClosing` is proved with any number. *HttpService.* Two
requests at every pair of positions show every interleaving of two instruments;
the sums over any number are proved. *Scenario.* Three clients are a minimum and one
to spare; `percentile_latency` asks for ten in the code, and workers of the same step
differ in nothing. *Lifecycle.* An environment is a value per variable, and only those
of a ticker matter.

**Symmetry** of request slots is used in the safety runs `EmployeeFaults` and
`EmployeeReadOnly` only. **Deadlock** is not checked where the system stops: `Authz` and
`Lifecycle` (the process exits), `HttpService` (a request is sent once), `Scenario` (it
ends).

**Fairness.** *A goroutine under way goes on* (weak): Redis and MySQL answer or fail.
*Tickers fire and keys expire* (weak), which a mutex key does unless
`CACHE_REDIS_MUTEX_EXPIRATION` is 0. *A mutex is obtained in the end* (strong): a waiter
polls every second while a section is a command or two; under weak fairness alone it
could find the key taken at every poll. It also means that SETNX does not fail at every
poll for ever. *Sleeps*: Redis is not out of order at every
single prune (strong), without which a marker may stay for ever with `RedisFaults`.
*Authz*: an engine that can evaluate does not fail in every round, and Go's `select`
between a tick and a done context takes the latter in the end (strong). *Lifecycle*: what
main calls returns. *Scenario*: a call ends, by the client's timeout if by nothing
else. This needs `CLIENT_TIMEOUT`: without it `client.Open` overwrites the ten seconds of
the constructor with 0, which is none (`client.go:52,191`), and `Ended` does not hold.
Nothing is assumed of clients, crashes and signals, nor of faults but what is said
above: a command may fail any number of times, though not those named at every attempt
for ever. `EmployeeLiveness` leaves out
lost replies of Redis and Clear, which the safety runs have; SQL errors and crashes,
which leave markers and keys behind, are in it.

## 4. Findings

With a run:

1. `EmployeeStaleFill`: read, update, late fill. The stale entry has no expiration
   of its own, and stays until the next mutation of that employee.
2. `EmployeeEmptySearch`: reading an employee makes the cached list of all
   employees that employee alone (`logic.go:169`).

Noticed while modelling, and followed by the models without a run of their own:

* Unlock's script compares the constant `true` with the value every holder stores
  (`redis.go:193, 223-226`): a section that outlives its key deletes the next one's.
* The prune loops take the employee number for the marker's time (`redis.go:98-103`).
* `REDIS_MUTEX_RETRY_INTERVAL` is applied only when it does not parse, as 0
  (`redis.go:290`), and `CACHE_PRUNE_INTERVAL` has no default: either makes `NewTicker`
  panic in a goroutine that nothing recovers (`TickersLive` says that nothing else kills a
  process that has started).
* All five operations of authz evaluate `can_create_employee` (`authz.go:358, 395, 434,
  473, 511`), reading included, for which `evaluation.rego` has rules of its own.
* `policy.Close` drops the maps of prepared queries without their lock while calls may
  write to them (`policy.go:143`), and the server is never shut down (`service.go:569`).
* `authz.Open` launches its compile loop and may then return the error of a counter
  (`authz.go:294-299`). Main has deferred no Close of it, so nobody cancels the loop or waits
  for it, and `policy.Close` drops the map the loop writes its first query to: a write to a
  nil map, in a goroutine that nothing recovers, in a start that fails anyway
  (`README.md:296` has "Panics should never occur"). In `Authz` that takes eight steps; the
  instrument names are constants that the library accepts today. `LoopSurvivesClose`
  names this as the only way to the panic, `LoopSurvivesUnrefused` proves that there is
  none without it, and `TickersLive` names it as well.
* With AUTHZ_DISABLED `authz.Close` calls a nil cancel function (`authz.go:309`); a metrics
  component is constructed without a logger and panics whenever Shutdown fails, above all
  on a done context (`open_telemetry.go:149-150`). The deferred closes still run, and the exit
  is a panic's.
* A recovered panic is answered by net/http with 200 (`service.go:196`), so that
  `client.Panic` reports success: the exception in `ClientNotMisled`.
* A refused operation is answered 500, where the swagger comments say 401
  (`internal/swagger/employee_read.go:22`): no case of `handleResponse` matches the
  unauthorized type. Clearing the cache is answered 200, not 204
  (`internal/swagger/cache_delete.go:13`). The default endpoint writes no status and is
  counted as failed (`service.go:237`).
* `client.Authorize` passes a structure that `doRequest` ignores (`client.go:72-85, 354`),
  so the user id is lost, no token names a user, and a scenario's real `create` is
  refused. The models let it succeed or fail, which includes this.
* `ToParams` encodes employee numbers only: first names, last names and gender are lost.
* A request of unknown length counts -1 request bytes (`service.go:223-229`).
* A cached sleep lasts nanoseconds where the database's lasts seconds (`redis.go:736`,
  `sql.go:322`); Clear leaves the sleeps.

## 5. Proofs

All for every value of the constants, from the assumptions named in the modules,
which TLC evaluates on the runs that extend them: `ClientAssumption`,
`EnvironmentAssumption`, `TableAssumption`, `CacheAssumption`, `LogicAssumption`,
`SleepAssumption`, `HttpAssumption`, `UserAssumption`, `AuthzAssumption`,
`LifecycleAssumption`, `ScenarioAssumption`, `LockingAssumption`, `SleepLockingAssumption`.

* **`RedisMutexProofs`**: `TypeCorrect`, `HolderOwns`, `Excludes`, `DeletesOwn`.
  Exclusion is not inductive (nothing in it says that a client inside leaves the key
  where it is); `HolderOwnsKey` is: whoever is inside created the key that exists, so
  SETNX fails for everybody else, and the key a Release finds is its own.
* **`EmployeeProofs`**: `TypeCorrect`. The types alone are not inductive: a request
  without an attempt left could count one too many. `RequestInv` says it has one
  whenever it asks the cache. Then `Fresh` and `DeletedGone`, with all faults on. Each
  half needs the other: an update that finds its row gone returns without evicting, and
  then it is `DeletedIsEvicted` that says who does. The proof goes employee by employee
  (`FreshAt`); a step that leaves an employee's row, entry and excuse alone is dealt
  with once (`Elsewhere`), and so is a step that touches none (`Bystander`). Last, which
  mutation spoils what: `CreationsKeepEntries` (only an update or a deletion makes a
  cached employee stale), `UpdatesKeepSearches` (only a creation or a deletion makes a
  cached search with criteria stale), `ListsAskedOnly` (such a search lists nobody else,
  whatever is mutated), and from the first two `ReadOnlyExact`, assuming
  `MutateDisabled`. They rest on two lemmas about every step of a request: `EveryMove`
  (it begins or ends with no rows, goes on with those it has, or fetches rows from the
  table) and `EveryWrite` (what it may write is the rows it carries, the list of those,
  or its own row), so that each invariant is proved for one step instead of thirty. The
  hypotheses `RowsLast` and `MembersLast` name the environments: MUTATE_DISABLED, or
  clients that ask for some operations only.
* **`EmployeeLockingProofs`**: `InProgressRefines` and `NotFoundRefines`, the refinement
  of `RedisMutex` by both marker hashes; `SectionsApart`, the exclusion it gives, and
  `Undisturbed`, what the prune loops need it for. All under `Intended`: the mutexes are
  enabled, sections end before the key expires, nobody clears the cache. Without it
  none of them holds, as the code's script deletes whoever's key is there and Clear
  deletes it too; commands may still fail, lose their replies, and requests die. The
  proof has two layers. `KeyStep` says what a step may do to one mutex, without its
  owner: nobody, or one client, moves, or the key of nobody expires. `LockingNext` shows
  that each step of the cache is one, for each hash; `KeyStepRefines` that each `KeyStep`
  is a step of `RedisMutex` or none. The inductive invariant `SectionsInv` adds to
  exclusion that the key exists while a client is inside, and that no request is at a
  step of Clear; a prune loop inside its section finds its hash unchanged because every
  change of the hash is made inside the same section.
* **`SleepCacheProofs`**: `NothingUnslept` (whoever is about to fill carries a sleep that was
  made), `OneAtATime` (whoever is in a section has the key there), `MutexRefines` (with
  the mutex enabled `SleepCache` implements `RedisMutex`; TLC finds the same on the instance of the run
  `SleepCache`), `HerdKeptOut`. The last is the deepest, and `OneLeader` is not
  inductive: `LeadInv` adds that a leader's marker stands unless its sleep is cached or it is
  excused, and that whoever is about to unmark finds its sleep cached or is excused. A
  second leader then has a marker of its own to set, which it cannot while the first
  one's stands; and an HDEL that removes a leader's marker comes either while the sleep is
  cached, or from an excused request, which excuses the leader.
* **`AuthzProofs`**, in three layers: `LoopInv` (what the loop carries is something the
  file has held) gives `TypeCorrect` and `InForce`; `CloseInv` (unless an Open has failed, the loop
  runs only between its launch and the end of main's wait, and until then the maps are
  there; an Open that fails without the meter's fault has launched nothing) gives
  `LoopSurvives`, `LoopSurvivesUnrefused` and `PanicsLate`; `CallInv` (a call's
  compilation is one of those in force during it, and none is before the first) gives `LetsThrough` and `NobodyFirst`. The
  rules by themselves: `DeletePrivilege`, `NoTokenNoAccess`, `VisibleExactly`, `RolesOnlyAdd`,
  which say who may do what for any roles, and that no role takes anything away.
* **`HttpServiceProofs`**: `HttpInv` ties a request's answer to its outcome and gives
  `NotMisled`. `Balanced` says of each instrument how many requests stand at which
  steps; a step moves one request from one step to another and its instrument by one.
  From it follow `AtRest`, `Unended` and `SuccessesAreTrue`.
* **`LifecycleProofs`**: `OpenInv`, that the open components are always a prefix of main's
  list, gives `OpenWhileUsed` and `EverythingClosed`; that requests exist only once the
  last component is being opened gives `LostOnlyClosing`; the configuration by itself
  gives `TickersLiveOn`.
* **`ScenarioProofs`**: `TypeCorrect`, `Quiet`, `NothingLeft`, `AbandonedBy`, for any
  number of clients and any plan. None is inductive: they follow from what the runner
  knows at each place of its program. `ProgressInv` relates that place to the flags and
  the failures so far, `WorkerInv` the workers to the flags (a worker that was launched
  is counted until the runner has waited for it; nobody passes the start before it is
  given), `CallInv` the calls under way to who waits for them, and `EmployeeInv` the
  employee to the creation and the deletion that are done, failed or still to be
  applied late. `Here` and `ProgramShape` are the facts about the program it is run from.

So every safety invariant, action property and refinement that a passing run checks is
also a theorem. Only model-checked: liveness (`WaiterReturns`, `Answered`, `MarkersGo`,
`MarksGo`, `EventuallyAdopted`, `CloseReturns`, `Ended`), which needs ENABLED and is
beyond the prover; and the two properties that do not hold, `QuiescentFresh` and
`EmptySearchExact`, of which TLC shows the counterexamples.

## 6. Not modelled, and what is left

* *Logger, tracer and the exporters of metrics*: output. Their place in opening and
  closing is in `Lifecycle`, the instruments the service counts with in `HttpService`.
* *Context values, swagger*: no state. JSON, JWT, TLS, Rego evaluation and backoff are
  library code, taken by what the callers use of them.
* *The cache's counters of hits and misses*, the connection pool and its statistics,
  the scenario's report of percentiles: numbers nothing decides on. A row that cannot
  be scanned leaves its result set open (`sql.go:244`), and two creations may find the
  same number, of which one INSERT then fails (`sql/execution.go:51`): the first needs
  the pool, the second is a failed statement.
* *Time*: markers younger than the TTL are not told from older ones, since the code does
  not tell them apart either; so nothing says that a young marker stays.
* *Searches under mutation*: a cached search becomes stale with any creation
  (`logic.go:112`) and nothing evicts it. Exactness is claimed only where nobody creates
  or deletes; beside that, only that a search with criteria lists nobody else.

Left, in this order: causes of staleness for searches while employees are created and
deleted, in the manner of `StaleHasCause`; markers in the run `EmployeeFaults`; action
properties, such as that what a sleep caches is never replaced by something unslept.
