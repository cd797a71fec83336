------------------------------ MODULE Scenario ------------------------------
(***************************************************************************)
(* The scenario runner: scenario/scenario.go on top of client/client.go.   *)
(* A scenario makes some calls of its own, launches a goroutine per client *)
(* that waits for start and then calls at every tick until stop, and in    *)
(* the end deletes the employee it created.  A call whose client gives up  *)
(* may still be performed by the service, later.                           *)
(***************************************************************************)
EXTENDS Sequences, Integers, FiniteSets

CONSTANTS
    Client,      \* the clients, a worker for each
    Runner,      \* the goroutine that runs the scenario
    Plan,        \* the scenarios to run and their environment
    MinClients   \* scenario -> minClients (2, 1, 1, 1 and 10 in the code)

Name == {"stampeding_herd", "cache_not_found", "sleep_retry", "sustained_traffic",
         "percentile_latency"}

\* SCENARIO_..._INTERVAL is absent, a number, or does not parse; clear is
\* SCENARIO_CLEAR_CACHE; SCENARIO_PERCENTILE is supported (50, or 90 and more).
AnyPlan == [name : Name, interval : {"absent", "positive", "zero", "unparsable"},
            clear : BOOLEAN, supported : BOOLEAN]

ASSUME ScenarioAssumption ==
    /\ Runner \notin Client /\ IsFiniteSet(Client)
    /\ Plan \subseteq AnyPlan /\ MinClients \in [Name -> Nat]

VARIABLES
    plan,      \* the scenario that runs
    at,        \* the next step of its program
    runner,    \* "start", "run", "cleanup", "returned" or "dead" (with the process)
    worker,    \* client -> its goroutine
    start, stop,  \* whether the channels are closed
    call,      \* caller -> its call: none, under way, or how it ended
    ctx,       \* "live", or "done" after a signal
    employee,  \* the employee of the scenario: "none", "exists" or "gone"
    known,     \* the scenario knows the employee's number and has to delete it
    late,      \* operations whose client gave up that may still be performed
    failed     \* auxiliary: the runner's operations that failed, and "process"

vars == <<plan, at, runner, worker, start, stop, call, ctx, employee, known, late, failed>>

Caller == Client \cup {Runner}
Step == {"authorize", "create", "delete", "clear", "sleep", "launch", "start", "stop", "wait"}
Calls == {"authorize", "create", "delete", "clear", "sleep"}
Work == {"read", "update", "sleep"}

\* Bug: the runner does not wait for its workers.
ProgramNoWait(p) == <<"authorize", "create", "launch", "start", "stop">>

\* What a scenario does, in its order.
Program(p) ==
    LET run == <<"launch", "start", "stop", "wait">>
    IN CASE p.name = "stampeding_herd" -> <<"authorize", "create">> \o run
         [] p.name = "cache_not_found" ->
              <<"authorize", "create", "delete", "launch", "clear", "start", "stop", "wait">>
         [] p.name = "sustained_traffic" ->
              (IF p.clear THEN <<"clear">> ELSE <<>>) \o <<"sleep">> \o run
         [] OTHER -> run

\* The first three scenarios ignore Atoi's error and take its 0.
Ticks(p) ==
    \/ p.interval \in {"absent", "positive"}
    \/ p.interval = "unparsable" /\ p.name \in {"sustained_traffic", "percentile_latency"}

TypeOK ==
    /\ plan \in Plan /\ at \in 1 .. 9
    /\ runner \in {"start", "run", "cleanup", "returned", "dead"}
    /\ worker \in [Client -> {"none", "launched", "blocked", "idle", "calling", "done"}]
    /\ start \in BOOLEAN /\ stop \in BOOLEAN /\ known \in BOOLEAN
    /\ call \in [Caller -> {"none", "ok", "failed"} \cup Calls \cup Work]
    /\ ctx \in {"live", "done"} /\ employee \in {"none", "exists", "gone"}
    /\ late \subseteq {"create", "delete"} /\ failed \subseteq Calls \cup {"process"}

Init ==
    /\ plan \in Plan /\ at = 1 /\ runner = "start"
    /\ worker = [c \in Client |-> "none"] /\ start = FALSE /\ stop = FALSE
    /\ call = [c \in Caller |-> "none"] /\ ctx = "live"
    /\ employee = "none" /\ known = FALSE /\ late = {} /\ failed = {}

Running == runner \notin {"returned", "dead"}
NextStep == Program(plan)[at]
AtStep(s) == runner = "run" /\ at <= Len(Program(plan)) /\ NextStep = s
-----------------------------------------------------------------------------
(* The client and the service *)

\* A cancelled context refuses the request before it is sent.
Begin(c, op) == call' = [call EXCEPT ![c] = IF ctx = "done" THEN "failed" ELSE op]
Open(c) == call[c] \in Calls \cup Work

\* What performing an operation does to the employee.
Perform(op) ==
    employee' = CASE op = "create" -> "exists"
                  [] op = "delete" /\ employee = "exists" -> "gone"
                  [] OTHER -> employee

\* The service answers: a deletion or a reading of what is gone fails.
Serve(c) ==
    /\ Running /\ Open(c)
    /\ \/ /\ call[c] \in {"delete", "read", "update"} => employee = "exists"
          /\ Perform(call[c]) /\ call' = [call EXCEPT ![c] = "ok"]
       \/ call' = [call EXCEPT ![c] = "failed"] /\ UNCHANGED employee
    /\ UNCHANGED <<plan, at, runner, worker, start, stop, ctx, known, late, failed>>

\* Bug: whatever is given up is remembered as still to be performed.
GiveUpAnything(c) ==
    /\ Running /\ Open(c)
    /\ call' = [call EXCEPT ![c] = "failed"] /\ late' = late \cup {call[c]}
    /\ UNCHANGED <<plan, at, runner, worker, start, stop, ctx, employee, known, failed>>

\* The client's timeout, a lost answer, or the cancelled context.
GiveUp(c) ==
    /\ Running /\ Open(c)
    /\ call' = [call EXCEPT ![c] = "failed"]
    /\ late' = late \cup ({call[c]} \cap {"create", "delete"})
    /\ UNCHANGED <<plan, at, runner, worker, start, stop, ctx, employee, known, failed>>

\* The service performs what nobody waits for any more, or fails to.
ServeLate ==
    /\ \E op \in late :
          late' = late \ {op} /\ (Perform(op) \/ UNCHANGED employee)
    /\ UNCHANGED <<plan, at, runner, worker, start, stop, call, ctx, known, failed>>

\* The signal cancels the context of every call.
Signal ==
    /\ Running /\ ctx = "live"
    /\ ctx' = "done"
    /\ UNCHANGED <<plan, at, runner, worker, start, stop, call, employee, known, late, failed>>

-----------------------------------------------------------------------------
(* The runner *)

\* What the scenario refuses before it has done anything.
Refused ==
    \/ Cardinality(Client) < MinClients[plan.name]
    \/ plan.name = "percentile_latency" /\ ~plan.supported

Check ==
    /\ runner = "start"
    /\ runner' = IF Refused THEN "returned" ELSE "run"
    /\ UNCHANGED <<plan, at, worker, start, stop, call, ctx, employee, known, late, failed>>

Call ==
    /\ \E op \in Calls : AtStep(op) /\ call[Runner] = "none" /\ Begin(Runner, op)
    /\ UNCHANGED <<plan, at, runner, worker, start, stop, ctx, employee, known, late, failed>>

\* A call of the runner has ended; an error ends the scenario, but for what it
\* has deferred.
Called ==
    /\ \E op \in Calls : AtStep(op)
    /\ \/ /\ call[Runner] = "ok" /\ at' = at + 1
          /\ known' = CASE NextStep = "create" -> TRUE [] NextStep = "delete" -> FALSE
                        [] OTHER -> known
          /\ UNCHANGED <<runner, failed>>
       \/ /\ call[Runner] = "failed" /\ runner' = "cleanup"
          /\ failed' = failed \cup {NextStep} /\ UNCHANGED <<at, known>>
    /\ call' = [call EXCEPT ![Runner] = "none"]
    /\ UNCHANGED <<plan, worker, start, stop, ctx, employee, late>>

Local(s) == AtStep(s) /\ at' = at + 1
         /\ UNCHANGED <<plan, runner, call, ctx, employee, known, late, failed>>

Launch == Local("launch") /\ worker' = [c \in Client |-> "launched"] /\ UNCHANGED <<start, stop>>
Start == Local("start") /\ start' = TRUE /\ UNCHANGED <<worker, stop>>
Stop == Local("stop") /\ stop' = TRUE /\ UNCHANGED <<worker, start>>
Wait ==
    /\ Local("wait") /\ \A c \in Client : worker[c] = "done"
    /\ UNCHANGED <<worker, start, stop>>

\* The body has returned.
Return ==
    /\ runner = "run" /\ at = Len(Program(plan)) + 1
    /\ runner' = "cleanup"
    /\ UNCHANGED <<plan, at, worker, start, stop, call, ctx, employee, known, late, failed>>

\* Bug: a cancelled scenario does not delete its employee.
CleanupUnlessCancelled ==
    /\ runner = "cleanup" /\ call[Runner] = "none"
    /\ IF known /\ ctx = "live" THEN Begin(Runner, "delete") /\ UNCHANGED runner
       ELSE runner' = "returned" /\ UNCHANGED call
    /\ UNCHANGED <<plan, at, worker, start, stop, ctx, employee, known, late, failed>>

\* The deferred deletion, with the same context, unless it was done before.
Cleanup ==
    /\ runner = "cleanup" /\ call[Runner] = "none"
    /\ IF known THEN Begin(Runner, "delete") /\ UNCHANGED runner
       ELSE runner' = "returned" /\ UNCHANGED call
    /\ UNCHANGED <<plan, at, worker, start, stop, ctx, employee, known, late, failed>>

Cleaned ==
    /\ runner = "cleanup" /\ call[Runner] \in {"ok", "failed"}
    /\ runner' = "returned" /\ known' = FALSE
    /\ call' = [call EXCEPT ![Runner] = "none"]
    /\ failed' = IF call[Runner] = "failed" THEN failed \cup {"delete"} ELSE failed
    /\ UNCHANGED <<plan, at, worker, start, stop, ctx, employee, late>>

-----------------------------------------------------------------------------
(* The workers *)

\* A ticker of no interval panics, and takes the process with it.
NewTicker(c) ==
    /\ Running /\ worker[c] = "launched"
    /\ IF Ticks(plan)
       THEN worker' = [worker EXCEPT ![c] = "blocked"] /\ UNCHANGED <<runner, failed>>
       ELSE runner' = "dead" /\ failed' = failed \cup {"process"} /\ UNCHANGED worker
    /\ UNCHANGED <<plan, at, start, stop, call, ctx, employee, known, late>>

Started(c) ==
    /\ Running /\ worker[c] = "blocked" /\ start
    /\ worker' = [worker EXCEPT ![c] = "idle"]
    /\ UNCHANGED <<plan, at, runner, start, stop, call, ctx, employee, known, late, failed>>

\* Reading, except for the one writer of the herd and those that sleep.
WorkOf(c) ==
    CASE plan.name = "stampeding_herd" -> {"read", "update"}
      [] plan.name = "cache_not_found" -> {"read"}
      [] OTHER -> {"sleep"}

Tick(c) ==
    /\ Running /\ worker[c] = "idle"
    /\ worker' = [worker EXCEPT ![c] = "calling"]
    /\ \E op \in WorkOf(c) : Begin(c, op)
    /\ UNCHANGED <<plan, at, runner, start, stop, ctx, employee, known, late, failed>>

\* Errors are logged only.
Ticked(c) ==
    /\ Running /\ worker[c] = "calling" /\ call[c] \in {"ok", "failed"}
    /\ worker' = [worker EXCEPT ![c] = "idle"] /\ call' = [call EXCEPT ![c] = "none"]
    /\ UNCHANGED <<plan, at, runner, start, stop, ctx, employee, known, late, failed>>

\* Bug: a worker looks at stop only while it waits for start.
StoppedBeforeStart(c) ==
    /\ Running /\ worker[c] = "blocked" /\ stop
    /\ worker' = [worker EXCEPT ![c] = "done"]
    /\ UNCHANGED <<plan, at, runner, start, stop, call, ctx, employee, known, late, failed>>

\* select may prefer a tick for a while.
Stopped(c) ==
    /\ Running /\ worker[c] = "idle" /\ stop
    /\ worker' = [worker EXCEPT ![c] = "done"]
    /\ UNCHANGED <<plan, at, runner, start, stop, call, ctx, employee, known, late, failed>>

RunnerNext == Check \/ Call \/ Called \/ Launch \/ Start \/ Stop \/ Wait \/ Return
              \/ Cleanup \/ Cleaned
WorkerNext(c) == NewTicker(c) \/ Started(c) \/ Tick(c) \/ Ticked(c) \/ Stopped(c)
Ends(c) == Serve(c) \/ GiveUp(c)

Next ==
    \/ RunnerNext \/ Signal \/ ServeLate
    \/ \E c \in Client : WorkerNext(c)
    \/ \E c \in Caller : Ends(c)

Spec == Init /\ [][Next]_vars

\* The scenario's duration passes; a call ends, by the client's timeout if the
\* service does not answer, given a CLIENT_TIMEOUT (without one client.Open makes it
\* 0, which is none: client.go:191); select does not prefer ticks for ever.
Fairness ==
    /\ WF_vars(RunnerNext) /\ \A c \in Caller : WF_vars(Ends(c))
    /\ \A c \in Client :
          WF_vars(NewTicker(c)) /\ WF_vars(Started(c)) /\ WF_vars(Ticked(c))
          /\ SF_vars(Stopped(c))

FairSpec == Spec /\ Fairness
-----------------------------------------------------------------------------
\* When the employee is deleted in the end no worker is calling or will call: the
\* runner has waited for them, or they are still waiting for a start that never
\* comes (scenario.go:161-164, 277-289).
QuietAtCleanup ==
    runner \in {"cleanup", "returned"} =>
        \A c \in Client : worker[c] \in {"none", "done"}
                          \/ (~start /\ worker[c] \in {"launched", "blocked"})

\* A scenario leaves its employee behind only if a creation's or a deletion's call
\* failed, or a ticker's panic took the deferred deletion with the process
\* (scenario.go:82-86, 225-230).
CleanedUp ==
    /\ ~Running /\ employee = "exists" => failed \cap {"create", "delete", "process"} # {}
    /\ runner = "dead" => ~Ticks(plan)

\* Workers are abandoned only by cache_not_found, when clearing the cache fails
\* after they were launched (scenario.go:277-279).
AbandonedOnlyByClear ==
    runner = "returned" /\ (\E c \in Client : worker[c] \notin {"none", "done"}) =>
        plan.name = "cache_not_found" /\ failed = {"clear"}

\* Every scenario ends, though its service may be slow or gone (scenario.go:159-163).
Ended == <>(runner \in {"returned", "dead"})
=============================================================================
