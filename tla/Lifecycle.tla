------------------------------ MODULE Lifecycle ------------------------------
(***************************************************************************)
(* The life of the service's process: cmd/service/internal/main.go opens   *)
(* the components one by one, waits for a signal, and closes them in the   *)
(* opposite order, while the HTTP server goes on answering: service.Close  *)
(* returns at once when the service is open (service.go:569).              *)
(***************************************************************************)
EXTENDS CacheConfig, Sequences, Integers, FiniteSets

CONSTANTS
    Req,     \* requests under way at one time, each a mutation
    Configs, \* which components are OpenTelemetry's; whether authorization is off
    CacheEnvs \* the environments the cache is configured from

Telemetry == {"logger", "metrics", "tracer"}
Component == Telemetry \cup {"cache", "sql", "logic", "policy", "authz", "service"}
Config == [otel : SUBSET Telemetry, authzDisabled : BOOLEAN]

ASSUME LifecycleAssumption == Configs \subseteq Config /\ CacheEnvs \subseteq Settings

\* Bug: the cache is opened last.
OrderCacheLast ==
    <<"logger", "metrics", "tracer", "sql", "logic", "policy", "authz", "service", "cache">>

\* The slice that setup returns.
Order == <<"logger", "metrics", "tracer", "cache", "sql", "logic", "policy", "authz", "service">>

\* What each is constructed with, and calls when it is called.
Uses(c) ==
    CASE c = "logger" -> {}
      [] c = "metrics" -> {}
      [] c = "tracer" -> {"logger"}
      [] c = "logic" -> Telemetry \cup {"sql", "cache"}
      [] c = "authz" -> Telemetry \cup {"logic", "policy"}
      [] c = "service" -> Telemetry \cup {"authz", "cache"}
      [] OTHER -> Telemetry

VARIABLES
    config,   \* METRIC_TYPE and the like, AUTHZ_DISABLED
    cacheEnv, \* CACHE_PRUNE_INTERVAL and the like
    stage,    \* main: "opening", "waiting", "closing", "exited", or "killed" by a panic
    at,       \* the component that main opens or closes next
    state,    \* component -> "new", "open" or "closed", as main has called it
    server,   \* ListenAndServe: "off", "listening", "failed" or "died"
    signal,   \* main's context is done
    code,     \* what the process will exit with; 2 is a panic
    pc,       \* request -> its next step
    stale     \* auxiliary: a committed mutation was not evicted from the cache

mainVars == <<config, cacheEnv, stage, at, state, signal, code>>
vars == <<mainVars, server, pc, stale>>

TypeOK ==
    /\ config \in Configs /\ cacheEnv \in CacheEnvs
    /\ stage \in {"opening", "waiting", "closing", "exited", "killed"}
    /\ at \in 0 .. Len(Order) /\ state \in [Component -> {"new", "open", "closed"}]
    /\ server \in {"off", "listening", "failed", "died"} /\ code \in {0, 1, 2}
    /\ pc \in [Req -> {"none", "authz", "sql", "evict"}]
    /\ signal \in BOOLEAN /\ stale \in BOOLEAN

Init ==
    /\ config \in Configs /\ cacheEnv \in CacheEnvs /\ stage = "opening" /\ at = 1
    /\ state = [c \in Component |-> "new"] /\ server = "off" /\ signal = FALSE
    /\ code = 0 /\ pc = [r \in Req |-> "none"] /\ stale = FALSE
-----------------------------------------------------------------------------
(* main *)

Opening(c) == stage = "opening" /\ Order[at] = c

\* Only the settings of OpenTelemetry's components are refused.
SetupFails ==
    /\ stage = "opening" /\ at = 1 /\ config.otel # {}
    /\ stage' = "exited" /\ code' = 1
    /\ UNCHANGED <<config, cacheEnv, at, state, server, signal, pc, stale>>

\* launchServer starts ListenAndServe, which may fail at once.
Launch ==
    /\ Opening("service") /\ server = "off"
    /\ server' \in {"listening", "failed"}
    /\ UNCHANGED <<mainVars, pc, stale>>

CacheConfig == Configured(cacheEnv)

\* Open of any component, after the second that launchServer waits for an error.
Open ==
    /\ stage = "opening" /\ (Order[at] = "service" => server \in {"listening", "died"})
    /\ Order[at] = "cache" => TickersStart(CacheConfig)
    /\ state' = [state EXCEPT ![Order[at]] = "open"]
    /\ IF at = Len(Order) THEN stage' = "waiting" /\ UNCHANGED at
       ELSE at' = at + 1 /\ UNCHANGED stage
    /\ UNCHANGED <<config, cacheEnv, server, signal, code, pc, stale>>

\* Bug: main exits without its deferred calls.
OpenFailsAndExits ==
    /\ stage = "opening" /\ (Order[at] = "service" => server # "off")
    /\ stage' = "exited" /\ code' = 1
    /\ UNCHANGED <<config, cacheEnv, at, state, server, signal, pc, stale>>

\* An Open returns an error: main returns it and closes what was opened before.
OpenFails ==
    /\ stage = "opening" /\ (Order[at] = "service" => server # "listening")
    /\ stage' = "closing" /\ code' = 1 /\ at' = at - 1
    /\ UNCHANGED <<config, cacheEnv, state, server, signal, pc, stale>>

Signal ==
    /\ stage \notin {"exited", "killed"} /\ ~signal /\ signal' = TRUE
    /\ UNCHANGED <<config, cacheEnv, stage, at, state, server, code, pc, stale>>

\* Bug: main waits for the server as well.
WaitForServer ==
    /\ stage = "waiting" /\ signal /\ server = "died"
    /\ stage' = "closing"
    /\ UNCHANGED <<config, cacheEnv, at, state, server, signal, code, pc, stale>>

\* <-ctx.Done()
Wait ==
    /\ stage = "waiting" /\ signal
    /\ stage' = "closing"
    /\ UNCHANGED <<config, cacheEnv, at, state, server, signal, code, pc, stale>>

\* What panics in a Close, after which the other deferred calls still run: authz
\* calls a nil cancel function; metrics were given no logger, and log it when
\* Shutdown fails, as it may, above all with a context that is done.
Panics(c) == c = "authz" /\ config.authzDisabled
MayPanic(c) == c = "metrics" /\ "metrics" \in config.otel

\* Bug: the components are closed in the order they were opened in.
CloseInOrder ==
    /\ stage = "closing"
    /\ \E i \in 1 .. Len(Order) :
          /\ state[Order[i]] = "open" /\ \A j \in 1 .. i - 1 : state[Order[j]] # "open"
          /\ state' = [state EXCEPT ![Order[i]] = "closed"] /\ at' = at - 1
    /\ UNCHANGED <<config, cacheEnv, stage, server, signal, code, pc, stale>>

\* A deferred Close.  The service's does nothing: the server stays.
Close ==
    /\ stage = "closing" /\ at > 0
    /\ state' = [state EXCEPT ![Order[at]] = "closed"] /\ at' = at - 1
    /\ \/ code' = 2 /\ (Panics(Order[at]) \/ MayPanic(Order[at]))
       \/ code' = code /\ ~Panics(Order[at])
    /\ UNCHANGED <<config, cacheEnv, stage, server, signal, pc, stale>>

\* The process ends, and the requests with it.
End(how) ==
    /\ stage' = how /\ server' = "off"
    /\ stale' = (stale \/ \E r \in Req : pc[r] = "evict")
    /\ pc' = [r \in Req |-> "none"]
    /\ UNCHANGED <<config, cacheEnv, at, state, signal>>

Exit == stage = "closing" /\ at = 0 /\ End("exited") /\ UNCHANGED code

\* A prune loop panics, with nothing to recover it: as it makes its ticker, while
\* Open waits for it, or in a Lock that meets a key set, as long as it runs.
LoopPanics ==
    /\ \/ Opening("cache") /\ ~TickersStart(CacheConfig)
       \/ /\ stage \in {"opening", "waiting", "closing"} /\ state["cache"] = "open"
          /\ Launched(CacheConfig) # {} /\ LockTickerPanics(CacheConfig)
    /\ End("killed") /\ code' = 2

\* authz launched its compile loop and then failed to open, so that nobody waited
\* for the loop, and policy.Close has dropped the map it writes to.
Orphaned == ~config.authzDisabled /\ state["authz"] = "new" /\ state["policy"] = "closed"
CompileLoopPanics == stage = "closing" /\ Orphaned /\ End("killed") /\ code' = 2
-----------------------------------------------------------------------------
(* The server and its requests *)

\* ListenAndServe fails later on: nobody reads the error.
ServerDies ==
    /\ server = "listening" /\ server' = "died"
    /\ UNCHANGED <<mainVars, pc, stale>>

Arrive(r) ==
    /\ server = "listening" /\ pc[r] = "none"
    /\ pc' = [pc EXCEPT ![r] = "authz"]
    /\ UNCHANGED <<mainVars, server, stale>>

\* A step of a request at component c, or the error of a component closed.
StepAt(r, c, here, next) ==
    /\ pc[r] = here
    /\ pc' = [pc EXCEPT ![r] = IF state[c] = "open" THEN next ELSE "none"]
    /\ UNCHANGED <<mainVars, server>>

Authorize(r) == StepAt(r, "authz", "authz", "sql") /\ UNCHANGED stale
Commit(r) == StepAt(r, "sql", "sql", "evict") /\ UNCHANGED stale

\* A closed cache refuses the eviction, which is only logged.
Evict(r) ==
    /\ StepAt(r, "cache", "evict", "none")
    /\ stale' = (stale \/ state["cache"] # "open")

MainNext == SetupFails \/ Launch \/ Open \/ OpenFails \/ Wait \/ Close \/ Exit
ReqNext(r) == Authorize(r) \/ Commit(r) \/ Evict(r)

Next == MainNext \/ LoopPanics \/ CompileLoopPanics \/ Signal \/ ServerDies \/ (\E r \in Req : Arrive(r) \/ ReqNext(r))

Spec == Init /\ [][Next]_vars

\* Opening and closing return, Close of the cache and of authz when their loops do;
\* a ticker without an interval panics.
FairSpec == Spec /\ WF_vars(MainNext \/ LoopPanics)
-----------------------------------------------------------------------------
\* A component is open only while all it uses is open: no Open or Close calls what
\* is not yet, or no longer, there (main.go:115-125, 136-141).
UsesOpen ==
    \A c \in Component : state[c] = "open" => \A d \in Uses(c) : state[d] = "open"

\* Whatever was opened is closed before the process exits, also when a later Open
\* failed or an earlier Close panicked (main.go:136-141).
AllClosed == stage = "exited" => \A c \in Component : state[c] # "open"

\* An eviction is lost to the process's life only while it closes, or when it is
\* killed: before, whoever commits finds the cache open (main.go:115-125 opens the
\* server last).
StaleOnlyClosing == stale => stage \in {"closing", "exited", "killed"}

\* A process that has started is killed only by its prune loops, and only in two
\* environments: no positive CACHE_PRUNE_INTERVAL with the in-progress loop, or a
\* REDIS_MUTEX_RETRY_INTERVAL that is not a number (redis.go:249-300, 320-322).  One
\* that fails to start may be killed by an orphaned compile loop (authz.go:294-299).
TickersLive ==
    stage = "killed" =>
        \/ Orphaned
        \/ cacheEnv.inProgress = "true" /\ cacheEnv.pruneInterval # "positive"
        \/ /\ cacheEnv.mutexRetryInterval = "unparsable" /\ cacheEnv.mutexDisabled # "true"
           /\ "true" \in {cacheEnv.inProgress, cacheEnv.notFound}

\* A signal, or a server that cannot listen, ends the process: no request and no
\* server keeps it (main.go:143, service.go:139-145).
Ended == signal \/ server = "failed" ~> stage \in {"exited", "killed"}
=============================================================================
