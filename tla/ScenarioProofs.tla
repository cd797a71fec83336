--------------------------- MODULE ScenarioProofs ---------------------------
(***************************************************************************)
(* Theorems about Scenario, for any number of clients and any plans: no    *)
(* worker calls any more when the employee is deleted, and why a scenario  *)
(* may leave its employee or its workers behind.                           *)
(***************************************************************************)
EXTENDS Scenario, TLAPS

-----------------------------------------------------------------------------
(* The programs *)

\* Where a scenario launches its workers and where it lets them start; then it
\* stops them and waits for them, and that is all.
LaunchAt(p) ==
    CASE p.name = "stampeding_herd" -> 3
      [] p.name = "cache_not_found" -> 4
      [] p.name = "sustained_traffic" -> IF p.clear THEN 3 ELSE 2
      [] OTHER -> 1
StartAt(p) == IF p.name = "cache_not_found" THEN 6 ELSE LaunchAt(p) + 1
End(p) == StartAt(p) + 2

\* The calls come before the launch, except that cache_not_found clears the cache
\* after it; an employee is created first and deleted by cache_not_found only.
LEMMA ProgramShape ==
    ASSUME NEW p \in AnyPlan
    PROVE  /\ Len(Program(p)) = End(p)
           /\ LaunchAt(p) \in 1 .. 4 /\ StartAt(p) \in 2 .. 6 /\ LaunchAt(p) < StartAt(p)
           /\ \A i \in 1 .. End(p) :
                 /\ Program(p)[i] \in Step
                 /\ Program(p)[i] = "launch" <=> i = LaunchAt(p)
                 /\ Program(p)[i] = "start" <=> i = StartAt(p)
                 /\ Program(p)[i] = "stop" <=> i = StartAt(p) + 1
                 /\ Program(p)[i] = "wait" <=> i = End(p)
                 /\ Program(p)[i] = "delete" => i = 3 /\ p.name = "cache_not_found"
                 /\ Program(p)[i] = "create" => i = 2
                 /\ Program(p)[i] \in Calls /\ i > LaunchAt(p) =>
                       i = 5 /\ p.name = "cache_not_found" /\ Program(p)[i] = "clear"
           /\ p.name = "cache_not_found" => Program(p)[3] = "delete"
<1> USE DEF AnyPlan, Name
<1>1. CASE p.name = "stampeding_herd"
  <2>1. /\ Len(Program(p)) = 6
        /\ Program(p)[1] = "authorize" /\ Program(p)[2] = "create"
        /\ Program(p)[3] = "launch" /\ Program(p)[4] = "start"
        /\ Program(p)[5] = "stop" /\ Program(p)[6] = "wait"
    BY <1>1 DEF Program
  <2>2. LaunchAt(p) = 3 /\ StartAt(p) = 4 /\ End(p) = 6
    BY <1>1 DEF LaunchAt, StartAt, End
  <2>3. QED
    BY <1>1, <2>1, <2>2 DEF Step, Calls
<1>2. CASE p.name = "cache_not_found"
  <2>1. /\ Len(Program(p)) = 8
        /\ Program(p)[1] = "authorize" /\ Program(p)[2] = "create"
        /\ Program(p)[3] = "delete" /\ Program(p)[4] = "launch"
        /\ Program(p)[5] = "clear" /\ Program(p)[6] = "start"
        /\ Program(p)[7] = "stop" /\ Program(p)[8] = "wait"
    BY <1>2 DEF Program
  <2>2. LaunchAt(p) = 4 /\ StartAt(p) = 6 /\ End(p) = 8
    BY <1>2 DEF LaunchAt, StartAt, End
  <2>3. QED
    BY <1>2, <2>1, <2>2 DEF Step, Calls
<1>3. CASE p.name = "sustained_traffic" /\ p.clear
  <2>1. /\ Len(Program(p)) = 6
        /\ Program(p)[1] = "clear" /\ Program(p)[2] = "sleep"
        /\ Program(p)[3] = "launch" /\ Program(p)[4] = "start"
        /\ Program(p)[5] = "stop" /\ Program(p)[6] = "wait"
    BY <1>3 DEF Program
  <2>2. LaunchAt(p) = 3 /\ StartAt(p) = 4 /\ End(p) = 6
    BY <1>3 DEF LaunchAt, StartAt, End
  <2>3. QED
    BY <1>3, <2>1, <2>2 DEF Step, Calls
<1>4. CASE p.name = "sustained_traffic" /\ ~p.clear
  <2>1. /\ Len(Program(p)) = 5
        /\ Program(p)[1] = "sleep" /\ Program(p)[2] = "launch"
        /\ Program(p)[3] = "start" /\ Program(p)[4] = "stop"
        /\ Program(p)[5] = "wait"
    BY <1>4 DEF Program
  <2>2. LaunchAt(p) = 2 /\ StartAt(p) = 3 /\ End(p) = 5
    BY <1>4 DEF LaunchAt, StartAt, End
  <2>3. QED
    BY <1>4, <2>1, <2>2 DEF Step, Calls
<1>5. CASE p.name = "sleep_retry" \/ p.name = "percentile_latency"
  <2>1. /\ Len(Program(p)) = 4
        /\ Program(p)[1] = "launch" /\ Program(p)[2] = "start"
        /\ Program(p)[3] = "stop" /\ Program(p)[4] = "wait"
    BY <1>5 DEF Program
  <2>2. LaunchAt(p) = 1 /\ StartAt(p) = 2 /\ End(p) = 4
    BY <1>5 DEF LaunchAt, StartAt, End
  <2>3. QED
    BY <1>5, <2>1, <2>2 DEF Step, Calls
<1>6. QED
  BY <1>1, <1>2, <1>3, <1>4, <1>5

-----------------------------------------------------------------------------
(* The inductive invariant *)

\* How far the runner is, what it has closed, and that it leaves its program only
\* at a call, before the workers may start, or at the end.
ProgressInv ==
    /\ at \in 1 .. End(plan) + 1
    /\ start <=> at > StartAt(plan)
    /\ runner = "start" => at = 1 /\ ~known /\ call[Runner] = "none"
    /\ runner = "returned" => ~known
    /\ runner \in {"cleanup", "returned"} =>
          \/ at < LaunchAt(plan) \/ at = 1 \/ at = End(plan) + 1
          \/ plan.name = "cache_not_found" /\ at = 5 /\ failed = {"clear"}

\* Where the workers are: not launched, waiting for start, done once waited for.
WorkerInv ==
    \A c \in Client :
        /\ call[c] \in {"none", "ok", "failed"} \cup Work
        /\ at <= LaunchAt(plan) => worker[c] = "none"
        /\ ~start => worker[c] \in {"none", "launched", "blocked"}
        /\ at = End(plan) + 1 => worker[c] = "done"

\* What the runner calls.
CallInv ==
    /\ runner = "run" /\ call[Runner] # "none" =>
          \E op \in Calls : AtStep(op) /\ call[Runner] \in {op, "ok", "failed"}
    /\ runner = "cleanup" /\ call[Runner] # "none" =>
          known /\ call[Runner] \in {"delete", "ok", "failed"}

\* What the scenario knows of its employee, and why one may be left behind.
EmployeeInv ==
    /\ plan.name = "cache_not_found" /\ at > 3 => ~known
    /\ runner \in {"start", "run"} => failed = {}
    /\ runner = "dead" => "process" \in failed /\ ~Ticks(plan)
    /\ "create" \in late =>
          "create" \in failed \/ runner = "dead" \/ (AtStep("create") /\ call[Runner] = "failed")
    /\ employee = "exists" =>
          \/ known \/ failed \cap {"create", "delete", "process"} # {}
          \/ AtStep("create") /\ call[Runner] \in {"ok", "failed"}
    /\ (AtStep("delete") \/ runner = "cleanup") /\ call[Runner] = "ok" =>
          employee # "exists" \/ "create" \in failed

Inv == TypeOK /\ ProgressInv /\ WorkerInv /\ CallInv /\ EmployeeInv

\* Where the runner is, by the step it is at.
LEMMA Here ==
    ASSUME TypeOK, ProgressInv
    PROVE  /\ plan \in AnyPlan /\ Len(Program(plan)) = End(plan)
           /\ LaunchAt(plan) \in 1 .. 4 /\ StartAt(plan) \in 2 .. 6
           /\ LaunchAt(plan) < StartAt(plan) /\ End(plan) = StartAt(plan) + 2
           /\ at \in 1 .. End(plan) + 1
           /\ \A s : AtStep(s) => at \in 1 .. End(plan) /\ runner = "run" /\ NextStep = s
           /\ AtStep("launch") <=> runner = "run" /\ at = LaunchAt(plan)
           /\ AtStep("start") <=> runner = "run" /\ at = StartAt(plan)
           /\ AtStep("stop") <=> runner = "run" /\ at = StartAt(plan) + 1
           /\ AtStep("wait") <=> runner = "run" /\ at = End(plan)
           /\ AtStep("create") => at = 2
           /\ AtStep("delete") => at = 3 /\ plan.name = "cache_not_found"
           /\ runner = "run" /\ at = 3 /\ plan.name = "cache_not_found" => AtStep("delete")
           /\ \A op \in Calls : AtStep(op) =>
                 \/ at < LaunchAt(plan)
                 \/ at = 5 /\ plan.name = "cache_not_found" /\ op = "clear"
<1>1. plan \in AnyPlan
  BY ScenarioAssumption DEF TypeOK
<1>2. at \in 1 .. End(plan) + 1
  BY DEF ProgressInv
<1>3. End(plan) = StartAt(plan) + 2
  BY DEF End
<1>4. at \in 1 .. End(plan) => Program(plan)[at] \in Step
  BY <1>1, ProgramShape
<1>5. /\ Len(Program(plan)) = End(plan)
      /\ LaunchAt(plan) \in 1 .. 4 /\ StartAt(plan) \in 2 .. 6
      /\ LaunchAt(plan) < StartAt(plan)
  BY <1>1, ProgramShape
<1>6. \A s : AtStep(s) => at \in 1 .. End(plan) /\ runner = "run" /\ NextStep = s
  BY <1>2, <1>3, <1>5 DEF AtStep
<1>7. ASSUME NEW i \in 1 .. End(plan)
      PROVE  /\ Program(plan)[i] = "launch" <=> i = LaunchAt(plan)
             /\ Program(plan)[i] = "start" <=> i = StartAt(plan)
             /\ Program(plan)[i] = "stop" <=> i = StartAt(plan) + 1
             /\ Program(plan)[i] = "wait" <=> i = End(plan)
             /\ Program(plan)[i] = "delete" => i = 3 /\ plan.name = "cache_not_found"
             /\ Program(plan)[i] = "create" => i = 2
             /\ Program(plan)[i] \in Calls /\ i > LaunchAt(plan) =>
                   i = 5 /\ plan.name = "cache_not_found" /\ Program(plan)[i] = "clear"
             /\ plan.name = "cache_not_found" => Program(plan)[3] = "delete"
  BY <1>1, ProgramShape
<1>8. AtStep("launch") <=> runner = "run" /\ at = LaunchAt(plan)
  BY <1>2, <1>3, <1>5, <1>7 DEF AtStep, NextStep
<1>9. AtStep("start") <=> runner = "run" /\ at = StartAt(plan)
  BY <1>2, <1>3, <1>5, <1>7 DEF AtStep, NextStep
<1>10. AtStep("stop") <=> runner = "run" /\ at = StartAt(plan) + 1
  BY <1>2, <1>3, <1>5, <1>7 DEF AtStep, NextStep
<1>11. AtStep("wait") <=> runner = "run" /\ at = End(plan)
  BY <1>2, <1>3, <1>5, <1>7 DEF AtStep, NextStep
<1>12. /\ AtStep("create") => at = 2
       /\ AtStep("delete") => at = 3 /\ plan.name = "cache_not_found"
       /\ runner = "run" /\ at = 3 /\ plan.name = "cache_not_found" => AtStep("delete")
  BY <1>2, <1>3, <1>5, <1>6, <1>7 DEF AtStep, NextStep
<1>13. ASSUME NEW op \in Calls, AtStep(op)
       PROVE  \/ at < LaunchAt(plan)
              \/ at = 5 /\ plan.name = "cache_not_found" /\ op = "clear"
  <2>1. at \in 1 .. End(plan) /\ Program(plan)[at] = op
    BY <1>6, <1>13 DEF NextStep
  <2>2. at # LaunchAt(plan)
    BY <1>7, <1>13, <2>1 DEF Calls
  <2>3. QED
    BY <1>5, <1>7, <1>13, <2>1, <2>2
<1>14. QED
  BY <1>1, <1>2, <1>3, <1>5, <1>6, <1>8, <1>9, <1>10, <1>11, <1>12, <1>13

-----------------------------------------------------------------------------
(* The steps of the runner preserve it *)

LEMMA CheckInv == ASSUME Inv, Check PROVE Inv'
<1> USE Here DEF Inv, Check
<1>1. TypeOK'
  BY DEF TypeOK, Caller
<1>2. ProgressInv'
  BY DEF ProgressInv
<1>3. WorkerInv'
  BY DEF WorkerInv
<1>4. CallInv'
  BY DEF CallInv, ProgressInv
<1>5. EmployeeInv'
  BY DEF EmployeeInv, ProgressInv, CallInv, AtStep, NextStep, TypeOK
<1>6. QED
  BY <1>1, <1>2, <1>3, <1>4, <1>5

LEMMA CallKeeps == ASSUME Inv, Call PROVE Inv'
<1> USE Here DEF Inv
<1>1. PICK op \in Calls : AtStep(op) /\ call[Runner] = "none" /\ Begin(Runner, op)
  BY DEF Call
<1>2. UNCHANGED <<plan, at, worker, runner, start, stop, ctx, employee, known, late, failed>>
  BY DEF Call
<1>3. /\ call'[Runner] \in {op, "failed"} /\ \A c \in Client : call'[c] = call[c]
      /\ call' \in [Caller -> {"none", "ok", "failed"} \cup Calls \cup Work]
  BY <1>1, ScenarioAssumption DEF Begin, TypeOK, Caller
<1>4. TypeOK'
  BY <1>2, <1>3 DEF TypeOK, Caller
<1>5. ProgressInv'
  BY <1>1, <1>2 DEF ProgressInv
<1>6. WorkerInv'
  BY <1>2, <1>3 DEF WorkerInv
<1>7. CallInv'
  BY <1>1, <1>2, <1>3 DEF CallInv, AtStep, NextStep
<1>8. EmployeeInv'
  BY <1>1, <1>2, <1>3 DEF EmployeeInv, AtStep, NextStep, Calls
<1>9. QED
  BY <1>4, <1>5, <1>6, <1>7, <1>8

LEMMA CalledInv == ASSUME Inv, Called PROVE Inv'
<1> USE Here DEF Inv
<1>1. PICK op \in Calls : AtStep(op)
  BY DEF Called
<1>2. UNCHANGED <<plan, worker, start, stop, ctx, employee, late>>
  BY DEF Called
<1>3. /\ call'[Runner] = "none" /\ \A c \in Client : call'[c] = call[c]
      /\ call' \in [Caller -> {"none", "ok", "failed"} \cup Calls \cup Work]
  BY ScenarioAssumption DEF Called, TypeOK, Caller
<1>4. CASE call[Runner] = "ok"
  <2>0. known' = CASE op = "create" -> TRUE [] op = "delete" -> FALSE [] OTHER -> known
    BY <1>1, <1>4 DEF Called
  <2>1. at' = at + 1 /\ UNCHANGED <<runner, failed>>
    BY <1>4 DEF Called
  <2>2. /\ known' \in BOOLEAN /\ (op = "create" => known')
        /\ (op = "delete" => ~known')
        /\ (op \notin {"create", "delete"} => known' = known)
    BY <2>0 DEF TypeOK
  <2>3. TypeOK'
    <3>1. at \in 1 .. 8
      BY <1>1
    <3>2. QED
      BY <1>2, <1>3, <2>1, <2>2, <3>1 DEF TypeOK, Caller
  <2>4. ProgressInv'
    BY <1>1, <1>2, <2>1 DEF ProgressInv
  <2>5. WorkerInv'
    BY <1>1, <1>2, <1>3, <2>1 DEF WorkerInv
  <2>6. CallInv'
    BY <1>1, <1>3, <2>1 DEF CallInv
  <2>7. EmployeeInv'
    BY <1>1, <1>2, <1>3, <1>4, <2>1, <2>2 DEF EmployeeInv
  <2>8. QED
    BY <2>3, <2>4, <2>5, <2>6, <2>7
<1>5. CASE call[Runner] = "failed"
  <2>1. runner' = "cleanup" /\ failed' = failed \cup {op} /\ UNCHANGED <<at, known>>
    BY <1>1, <1>5 DEF Called
  <2>2. failed = {}
    BY <1>1 DEF EmployeeInv
  <2>3. TypeOK'
    BY <1>2, <1>3, <2>1 DEF TypeOK, Caller
  <2>4. ProgressInv'
    BY <1>1, <1>2, <2>1, <2>2 DEF ProgressInv
  <2>5. WorkerInv'
    BY <1>2, <1>3, <2>1 DEF WorkerInv
  <2>6. CallInv'
    BY <1>3 DEF CallInv
  <2>7. EmployeeInv'
    BY <1>1, <1>2, <1>3, <1>5, <2>1 DEF EmployeeInv
  <2>8. QED
    BY <2>3, <2>4, <2>5, <2>6, <2>7
<1>6. QED
  BY <1>4, <1>5 DEF Called

LEMMA LocalInv ==
    ASSUME Inv, Launch \/ Start \/ Stop \/ Wait PROVE Inv'
<1> USE Here DEF Inv
<1>1. PICK s \in {"launch", "start", "stop", "wait"} : Local(s)
  BY DEF Launch, Start, Stop, Wait
<1>2. AtStep(s) /\ at' = at + 1
      /\ UNCHANGED <<plan, runner, call, ctx, employee, known, late, failed>>
  BY <1>1 DEF Local
<1>3. call[Runner] = "none"
  BY <1>2 DEF CallInv, Calls
<1>4. /\ worker' \in [Client -> {"none", "launched", "blocked", "idle", "calling", "done"}]
      /\ start' \in BOOLEAN /\ stop' \in BOOLEAN
      /\ start' <=> start \/ at = StartAt(plan)
      /\ at # LaunchAt(plan) => worker' = worker
      /\ at = LaunchAt(plan) => \A c \in Client : worker'[c] = "launched"
      /\ at = End(plan) => \A c \in Client : worker'[c] = "done"
  <2>1. CASE Launch
    BY <2>1 DEF Launch, Local, TypeOK
  <2>2. CASE Start
    BY <2>2 DEF Start, Local, TypeOK
  <2>3. CASE Stop
    BY <2>3 DEF Stop, Local, TypeOK
  <2>4. CASE Wait
    BY <2>4 DEF Wait, Local, TypeOK
  <2>5. QED
    BY <2>1, <2>2, <2>3, <2>4
<1>5. TypeOK'
  BY <1>2, <1>4 DEF TypeOK, Caller
<1>6. ProgressInv'
  BY <1>2, <1>4 DEF ProgressInv
<1>7. WorkerInv'
  BY <1>2, <1>4 DEF WorkerInv, ProgressInv
<1>8. CallInv'
  BY <1>2, <1>3 DEF CallInv
<1>9. EmployeeInv'
  BY <1>2, <1>3 DEF EmployeeInv, CallInv
<1>10. QED
  BY <1>5, <1>6, <1>7, <1>8, <1>9

LEMMA ReturnInv == ASSUME Inv, Return PROVE Inv'
<1> USE Here DEF Inv, Return
<1>1. TypeOK'
  BY DEF TypeOK, Caller
<1>2. ProgressInv'
  BY DEF ProgressInv
<1>3. WorkerInv'
  BY DEF WorkerInv
<1>4. call[Runner] = "none"
  BY DEF CallInv
<1>5. CallInv'
  BY <1>4 DEF CallInv
<1>6. EmployeeInv'
  BY <1>4 DEF EmployeeInv, AtStep
<1>7. QED
  BY <1>1, <1>2, <1>3, <1>5, <1>6

LEMMA CleanupInv == ASSUME Inv, Cleanup \/ Cleaned PROVE Inv'
<1> USE Here DEF Inv
<1>1. /\ runner = "cleanup" /\ UNCHANGED <<plan, at, worker, start, stop, ctx, employee, late>>
      /\ runner' \in {"cleanup", "returned"}
  BY DEF Cleanup, Cleaned
<1>2. \A s : ~AtStep(s) /\ ~AtStep(s)'
  BY <1>1 DEF AtStep
<1>3. CASE Cleanup /\ known
  <2>1. /\ call[Runner] = "none" /\ call'[Runner] \in {"delete", "failed"}
        /\ \A c \in Client : call'[c] = call[c]
        /\ call' \in [Caller -> {"none", "ok", "failed"} \cup Calls \cup Work]
    BY <1>3, ScenarioAssumption DEF Cleanup, Begin, TypeOK, Caller, Calls
  <2>2. UNCHANGED <<runner, known, failed>>
    BY <1>3 DEF Cleanup
  <2>3. TypeOK'
    BY <1>1, <2>1, <2>2 DEF TypeOK, Caller
  <2>4. ProgressInv'
    BY <1>1, <2>2 DEF ProgressInv
  <2>5. WorkerInv'
    BY <1>1, <2>1 DEF WorkerInv
  <2>6. CallInv' /\ EmployeeInv'
    BY <1>1, <1>2, <1>3, <2>1, <2>2 DEF CallInv, EmployeeInv
  <2>7. QED
    BY <2>3, <2>4, <2>5, <2>6
<1>4. CASE Cleanup /\ ~known
  <2>1. runner' = "returned" /\ UNCHANGED <<call, known, failed>>
    BY <1>4 DEF Cleanup
  <2>2. TypeOK'
    BY <1>1, <2>1 DEF TypeOK, Caller
  <2>3. ProgressInv'
    BY <1>1, <1>4, <2>1 DEF ProgressInv
  <2>4. WorkerInv'
    BY <1>1, <2>1 DEF WorkerInv
  <2>5. CallInv' /\ EmployeeInv'
    BY <1>1, <1>2, <1>4, <2>1 DEF CallInv, EmployeeInv
  <2>6. QED
    BY <2>2, <2>3, <2>4, <2>5
<1>5. CASE Cleaned
  <2>1. /\ call[Runner] \in {"ok", "failed"} /\ runner' = "returned" /\ known' = FALSE
        /\ failed' = IF call[Runner] = "failed" THEN failed \cup {"delete"} ELSE failed
    BY <1>5 DEF Cleaned
  <2>2. /\ call'[Runner] = "none" /\ \A c \in Client : call'[c] = call[c]
        /\ call' \in [Caller -> {"none", "ok", "failed"} \cup Calls \cup Work]
    BY <1>5, ScenarioAssumption DEF Cleaned, TypeOK, Caller
  <2>3. known
    BY <1>1, <2>1 DEF CallInv
  <2>4. TypeOK'
    BY <1>1, <2>1, <2>2 DEF TypeOK, Caller, Calls
  <2>5. ProgressInv'
    BY <1>1, <2>1, <2>3 DEF ProgressInv, EmployeeInv
  <2>6. WorkerInv'
    BY <1>1, <2>2 DEF WorkerInv
  <2>7. CallInv' /\ EmployeeInv'
    BY <1>1, <1>2, <2>1, <2>2 DEF CallInv, EmployeeInv
  <2>8. QED
    BY <2>4, <2>5, <2>6, <2>7
<1>6. QED
  BY <1>3, <1>4, <1>5

-----------------------------------------------------------------------------
(* The steps of the calls and of the workers preserve it *)

LEMMA SignalInv == ASSUME Inv, Signal \/ UNCHANGED vars PROVE Inv'
<1>1. UNCHANGED <<plan, at, runner, worker, start, stop, call, employee, known, late, failed>>
      /\ ctx' \in {ctx, "done"}
  BY DEF Signal, vars
<1>2. TypeOK'
  BY <1>1 DEF Inv, TypeOK, Caller
<1>3. ProgressInv' /\ WorkerInv' /\ CallInv'
  BY <1>1 DEF Inv, ProgressInv, WorkerInv, CallInv, AtStep, NextStep
<1>4. EmployeeInv'
  BY <1>1 DEF Inv, EmployeeInv, AtStep, NextStep
<1>5. QED
  BY <1>2, <1>3, <1>4 DEF Inv

LEMMA ServeLateInv == ASSUME Inv, ServeLate PROVE Inv'
<1> USE Here DEF Inv
<1>1. UNCHANGED <<plan, at, runner, worker, start, stop, call, ctx, known, failed>>
  BY DEF ServeLate
<1>2. \A s : AtStep(s)' <=> AtStep(s)
  BY <1>1 DEF AtStep, NextStep
<1>3. PICK op \in late : late' = late \ {op} /\ (Perform(op) \/ UNCHANGED employee)
  BY DEF ServeLate
<1>4. /\ employee' \in {"none", "exists", "gone"}
      /\ employee' = "exists" => employee = "exists" \/ op = "create"
  BY <1>3 DEF Perform, TypeOK
<1>5. TypeOK'
  BY <1>1, <1>3, <1>4 DEF TypeOK, Caller
<1>6. ProgressInv' /\ WorkerInv' /\ CallInv'
  BY <1>1, <1>2 DEF ProgressInv, WorkerInv, CallInv
<1>7. EmployeeInv'
  BY <1>1, <1>2, <1>3, <1>4 DEF EmployeeInv
<1>8. QED
  BY <1>5, <1>6, <1>7

LEMMA EndsInv == ASSUME Inv, NEW c \in Caller, Ends(c) PROVE Inv'
<1> USE Here DEF Inv
<1>1. /\ UNCHANGED <<plan, at, runner, worker, start, stop, ctx, known, failed>>
      /\ Running /\ Open(c)
  BY DEF Ends, Serve, GiveUp
<1>2. \A s : AtStep(s)' <=> AtStep(s)
  BY <1>1 DEF AtStep, NextStep
<1>3. PICK how \in {"ok", "failed"} : call' = [call EXCEPT ![c] = how]
  BY DEF Ends, Serve, GiveUp
<1>4. /\ call'[c] = how /\ \A d \in Caller \ {c} : call'[d] = call[d]
      /\ call' \in [Caller -> {"none", "ok", "failed"} \cup Calls \cup Work]
  BY <1>3 DEF TypeOK
<1>5. employee' \in {"none", "exists", "gone"} /\ late' \subseteq {"create", "delete"}
  BY DEF Ends, Serve, GiveUp, Perform, TypeOK
<1>6. TypeOK'
  BY <1>1, <1>4, <1>5 DEF TypeOK, Caller
<1>7. ProgressInv'
  BY <1>1, <1>4, ScenarioAssumption DEF ProgressInv, Open, Caller, Calls, Work
<1>8. WorkerInv'
  BY <1>1, <1>4 DEF WorkerInv, Caller
<1>9. CASE c \in Client
  <2>1. call[c] \in Work /\ c # Runner
    BY <1>1, <1>9, ScenarioAssumption DEF WorkerInv, Open, Calls, Work
  <2>2. call'[Runner] = call[Runner] /\ UNCHANGED <<employee, late>>
    BY <1>4, <2>1 DEF Ends, Serve, GiveUp, Perform, Caller, Work
  <2>3. CallInv' /\ EmployeeInv'
    BY <1>1, <1>2, <2>2 DEF CallInv, EmployeeInv
  <2>4. QED
    BY <1>6, <1>7, <1>8, <2>3
<1>10. CASE c = Runner
  <2>1. \/ runner = "run" /\ \E op \in Calls : AtStep(op) /\ call[Runner] = op
        \/ runner = "cleanup" /\ known /\ call[Runner] = "delete"
    BY <1>1, <1>10, ScenarioAssumption
       DEF CallInv, ProgressInv, Running, Open, Calls, Work, TypeOK
  <2>2. CallInv'
    BY <1>1, <1>2, <1>4, <1>10, <2>1 DEF CallInv
  <2>3. /\ employee' = "exists" => employee = "exists" \/ (call[Runner] = "create" /\ how = "ok")
        /\ how = "ok" /\ call[Runner] = "delete" => employee' = "gone"
        /\ "create" \in late' => "create" \in late \/ (call[Runner] = "create" /\ how = "failed")
    BY <1>3, <1>4, <1>10 DEF Ends, Serve, GiveUp, Perform, TypeOK
  <2>4. call[Runner] = "create" => AtStep("create") /\ runner = "run"
    BY <2>1
  <2>5. AtStep("delete") \/ runner = "cleanup" => call[Runner] = "delete"
    BY <2>1 DEF AtStep
  <2>6. call[Runner] \notin {"ok", "failed"} /\ call'[Runner] = how
    BY <1>1, <1>4, <1>10 DEF Open, Calls, Work
  <2>7. "create" \in late' => "create" \in failed \/ (AtStep("create") /\ how = "failed")
    BY <1>1, <2>3, <2>4, <2>6 DEF EmployeeInv, Running
  <2>8. employee' = "exists" =>
          \/ known \/ failed \cap {"create", "delete", "process"} # {} \/ AtStep("create")
    BY <2>3, <2>4 DEF EmployeeInv
  <2>9. (AtStep("delete") \/ runner = "cleanup") /\ how = "ok" => employee' # "exists"
    BY <2>3, <2>5
  <2>10. EmployeeInv'
    BY <1>1, <1>2, <2>6, <2>7, <2>8, <2>9 DEF EmployeeInv
  <2>11. QED
    BY <1>6, <1>7, <1>8, <2>2, <2>10
<1>11. QED
  BY <1>9, <1>10 DEF Caller

LEMMA WorkerKeeps == ASSUME Inv, NEW c \in Client, WorkerNext(c) PROVE Inv'
<1> USE Here DEF Inv
<1>1. UNCHANGED <<plan, at, start, stop, ctx, employee, known, late>>
      /\ Running /\ worker[c] # "none" /\ c # Runner /\ c \in Caller
  BY ScenarioAssumption
     DEF WorkerNext, NewTicker, Started, Tick, Ticked, Stopped, Caller
<1>2. CASE NewTicker(c) /\ ~Ticks(plan)
  <2>1. runner' = "dead" /\ failed' = failed \cup {"process"} /\ UNCHANGED <<worker, call>>
    BY <1>2 DEF NewTicker
  <2>2. TypeOK'
    BY <1>1, <2>1 DEF TypeOK, Caller
  <2>3. ProgressInv' /\ WorkerInv' /\ CallInv'
    BY <1>1, <2>1 DEF ProgressInv, WorkerInv, CallInv
  <2>4. EmployeeInv'
    BY <1>1, <1>2, <2>1 DEF EmployeeInv, AtStep, Ticks
  <2>5. QED
    BY <2>2, <2>3, <2>4
<1>3. CASE ~(NewTicker(c) /\ ~Ticks(plan))
  <2>1. UNCHANGED <<runner, failed>>
    BY <1>3 DEF WorkerNext, NewTicker, Started, Tick, Ticked, Stopped
  <2>2. PICK w \in {"blocked", "idle", "calling", "done"} : worker' = [worker EXCEPT ![c] = w]
    BY <1>3 DEF WorkerNext, NewTicker, Started, Tick, Ticked, Stopped
  <2>3. /\ start \/ w = "blocked"
        /\ worker[c] # "done"
    BY <1>3, <2>2 DEF WorkerNext, NewTicker, Started, Tick, Ticked, Stopped, TypeOK, WorkerInv
  <2>4. /\ call'[Runner] = call[Runner] /\ call'[c] \in {"none", "ok", "failed"} \cup Work
        /\ \A d \in Client \ {c} : call'[d] = call[d]
        /\ call' \in [Caller -> {"none", "ok", "failed"} \cup Calls \cup Work]
    BY <1>1, <1>3
       DEF WorkerNext, NewTicker, Started, Tick, Ticked, Stopped, Begin, WorkOf, Work,
           TypeOK, Caller, WorkerInv
  <2>5. \A s : AtStep(s)' <=> AtStep(s)
    BY <1>1, <2>1 DEF AtStep, NextStep
  <2>6. TypeOK'
    BY <1>1, <2>1, <2>2, <2>4 DEF TypeOK, Caller
  <2>7. WorkerInv'
    BY <1>1, <2>2, <2>3, <2>4 DEF WorkerInv, TypeOK
  <2>8. ProgressInv' /\ CallInv' /\ EmployeeInv'
    BY <1>1, <2>1, <2>4, <2>5 DEF ProgressInv, CallInv, EmployeeInv
  <2>9. QED
    BY <2>6, <2>7, <2>8
<1>4. QED
  BY <1>2, <1>3

LEMMA ScenarioInvariant == Spec => []Inv
<1>1. Init => Inv
  <2> SUFFICES ASSUME Init PROVE Inv
    OBVIOUS
  <2>1. plan \in AnyPlan
    BY ScenarioAssumption DEF Init
  <2>2. LaunchAt(plan) \in 1 .. 4 /\ StartAt(plan) \in 2 .. 6
    BY <2>1, ProgramShape
  <2>3. TypeOK
    <3>1. call \in [Caller -> {"none", "ok", "failed"} \cup Calls \cup Work]
      BY DEF Init
    <3>2. worker \in [Client -> {"none", "launched", "blocked", "idle", "calling", "done"}]
      BY DEF Init
    <3>3. start \in BOOLEAN /\ stop \in BOOLEAN /\ known \in BOOLEAN
      BY DEF Init
    <3>4. late \subseteq {"create", "delete"} /\ failed \subseteq Calls \cup {"process"}
      BY DEF Init
    <3>5. plan \in Plan /\ at \in 1 .. 9
      BY DEF Init
    <3>6. QED
      BY <3>1, <3>2, <3>3, <3>4, <3>5 DEF Init, TypeOK
  <2>4. ProgressInv
    BY <2>2 DEF Init, ProgressInv, End, Caller
  <2>5. WorkerInv
    BY <2>2 DEF Init, WorkerInv, End, Caller
  <2>6. CallInv /\ EmployeeInv
    BY DEF Init, CallInv, EmployeeInv, Caller
  <2>7. QED
    BY <2>3, <2>4, <2>5, <2>6 DEF Inv
<1>2. Inv /\ [Next]_vars => Inv'
  BY CheckInv, CallKeeps, CalledInv, LocalInv, ReturnInv, CleanupInv, SignalInv, ServeLateInv,
     EndsInv, WorkerKeeps DEF Next, RunnerNext
<1>3. QED
  BY <1>1, <1>2, PTL DEF Spec

-----------------------------------------------------------------------------
(* The theorems *)

\* The runner, its workers, their calls and the employee keep their types.
THEOREM TypeCorrect == Spec => []TypeOK
<1>1. Inv => TypeOK
  BY DEF Inv
<1>2. QED
  BY <1>1, ScenarioInvariant, PTL

\* When the employee is deleted in the end no worker is calling or will call,
\* however calls fail and whenever the signal comes (scenario.go:161-164, 277-289).
THEOREM Quiet == Spec => []QuietAtCleanup
<1>1. Inv => QuietAtCleanup
  BY Here DEF Inv, QuietAtCleanup, ProgressInv, WorkerInv, TypeOK, StartAt
<1>2. QED
  BY <1>1, ScenarioInvariant, PTL

\* A scenario leaves its employee behind only if a creation's or a deletion's call
\* failed, or a ticker panicked, however late the service performs what was given
\* up (scenario.go:82-86, 225-230).
THEOREM NothingLeft == Spec => []CleanedUp
<1>1. Inv => CleanedUp
  BY DEF Inv, CleanedUp, EmployeeInv, ProgressInv, Running, AtStep
<1>2. QED
  BY <1>1, ScenarioInvariant, PTL

\* Only cache_not_found abandons workers, and only if its clearing of the cache,
\* and nothing else, has failed (scenario.go:277-279).
THEOREM AbandonedBy == Spec => []AbandonedOnlyByClear
<1>1. Inv => AbandonedOnlyByClear
  BY Here DEF Inv, AbandonedOnlyByClear, ProgressInv, WorkerInv, TypeOK
<1>2. QED
  BY <1>1, ScenarioInvariant, PTL
=============================================================================
