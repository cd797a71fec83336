------------------------------- MODULE Authz --------------------------------
(***************************************************************************)
(* Authorization: authz/authz.go over the policy engine pkg/policy.  One   *)
(* goroutine compiles the policy file when its content changes; calls load *)
(* the last compilation, evaluate with it, and then perform the operation; *)
(* main closes authz and then the engine while calls may still come, since *)
(* the server is never shut down (service.go:569).                         *)
(***************************************************************************)
EXTENDS AuthzRules, Integers, FiniteSets

CONSTANTS
    Call,        \* call slots: goroutines of the HTTP server
    Contents,    \* sets of roles the policy file may hold
    Unreadable,  \* the file is missing, or is not JSON
    Configs,     \* the configurations to open with
    MaxEdits,    \* bound: how often the file changes
    EngineFaults, \* preparing or evaluating a query may fail
    MeterFaults  \* the meter may refuse an instrument

Key == [method : {"HMAC", "RSA", "other"}, from : {"none", "text", "file"}, ok : BOOLEAN]
Config == [disabled : BOOLEAN, public : Key, private : Key]

ASSUME AuthzAssumption ==
    /\ Unreadable \notin Contents /\ Absent \notin Contents \cup Access
    /\ \A roles \in Contents : Compile(roles) \in Access
    /\ Configs \subseteq Config /\ Configs # {}
    /\ MaxEdits \in Nat /\ {EngineFaults, MeterFaults} \subseteq BOOLEAN

Users == User \cup {Anonymous}

VARIABLES
    config,    \* AUTHZ_*
    file,      \* what AUTHZ_POLICY_COMPILE_INPUT_FILE holds (without one, the
               \* default role for AUTHZ_USER_ID, which nobody edits)
    edits,     \* how often it has changed
    held,      \* auxiliary: the contents it has had
    adopted,   \* a.compileOutput; Absent while nil
    loop,      \* the compile goroutine: where it is, what it read, its checksum
    ctx,       \* a.ctx: "none" (a nil cancel function), "live" or "done"
    opened,    \* a.opened
    engine,    \* the policy engine: its flag and its two maps of prepared queries
    closer,    \* how far main has come with opening, and with its deferred closes
    failed,    \* an Open has returned an error, with which main returns
    issued,    \* users whom Authorize has given a token
    call       \* call -> its locals, and auxiliary: what was adopted during it

loopVars == <<file, edits, held, adopted, loop>>
mainVars == <<config, ctx, opened, closer, failed>>
vars == <<loopVars, mainVars, engine, issued, call>>

Working == {"evaluate", "prepare", "decide", "perform"}
Answer == {"none", "notOpened", "badToken", "unauthorized", "error", "panic", "done"}
Output == {Compile(roles) : roles \in Contents}
CallAt(p) == [pc |-> p, user |-> Anonymous, seen |-> Absent, during |-> {}]
NoCall == CallAt("none")
NoLoop == [pc |-> "off", read |-> Absent, checksum |-> Absent]

TypeOK ==
    /\ config \in Configs /\ edits \in 0 .. MaxEdits
    /\ file \in Contents \cup {Unreadable}
    /\ held \in SUBSET Contents /\ adopted \in Output \cup {Absent}
    /\ loop \in [pc : {"off", "idle", "compile", "write", "evaluate", "stopped", "panic"},
                 read : Contents \cup {Absent}, checksum : Contents \cup {Absent}]
    /\ ctx \in {"none", "live", "done"} /\ opened \in BOOLEAN
    /\ engine \in [opened : BOOLEAN, compile : {"nil", "empty", "prepared"},
                   evaluate : {"nil", "empty", "prepared"}]
    /\ closer \in {"opening", "launched", "serving", "waiting", "evaluate", "compile",
                   "flag", "rest", "exit"}
    /\ failed \in BOOLEAN
    /\ issued \in SUBSET Users
    /\ call \in [Call -> [pc : Working \cup Answer, user : Users,
                          seen : Output \cup {Absent},
                          during : SUBSET (Output \cup {Absent})]]

Init ==
    /\ config \in Configs
    /\ file \in Contents \cup {Unreadable} /\ edits = 0
    /\ held = {file} \cap Contents
    /\ adopted = Absent /\ loop = NoLoop
    /\ ctx = "none" /\ opened = FALSE /\ closer = "opening" /\ failed = FALSE
    /\ engine = [opened |-> FALSE, compile |-> "nil", evaluate |-> "nil"]
    /\ issued = {} /\ call = [c \in Call |-> NoCall]

Round(p, read) == loop' = [pc |-> p, read |-> read, checksum |-> loop.checksum]
LoopTo(p) == Round(p, loop.read)
-----------------------------------------------------------------------------
(* Opening, before the server starts *)

\* Bug: only one of the two maps is made.
EngineOpenHalf ==
    /\ closer = "opening" /\ ~engine.opened
    /\ engine' = [opened |-> TRUE, compile |-> "empty", evaluate |-> "nil"]
    /\ UNCHANGED <<loopVars, mainVars, issued, call>>

\* policy.Open: fresh maps.
EngineOpen ==
    /\ closer = "opening" /\ ~engine.opened
    /\ engine' = [opened |-> TRUE, compile |-> "empty", evaluate |-> "empty"]
    /\ UNCHANGED <<loopVars, mainVars, issued, call>>

\* A key that Open refuses: none given, an unknown method, or no RSA key in it.
Refused(key) ==
    key.from = "none" \/ key.method = "other" \/ (key.method = "RSA" /\ ~key.ok)

\* authz.Open up to its launch: the compile loop is started unless authorization
\* is disabled, and runs its first round before any tick.
OpenLaunch ==
    /\ closer = "opening" /\ engine.opened
    /\ config.disabled \/ (~Refused(config.public) /\ ~Refused(config.private))
    /\ closer' = "launched"
    /\ IF config.disabled THEN UNCHANGED <<ctx, loop>>
       ELSE ctx' = "live" /\ LoopTo("idle")
    /\ UNCHANGED <<config, file, edits, held, adopted, opened, failed, engine, issued, call>>

\* The counters are made: authz is open, and main goes on to the server.
Open ==
    /\ closer = "launched"
    /\ opened' = TRUE /\ closer' = "serving"
    /\ UNCHANGED <<loopVars, config, ctx, failed, engine, issued, call>>

\* Main returns the error of an Open, and closes only what was opened before.
FailTo(place) ==
    /\ failed' = TRUE /\ closer' = place
    /\ UNCHANGED <<loopVars, config, ctx, opened, issued, call>>

\* policy.Open: a histogram is refused.  The maps are made, but it is not open.
EngineOpenFails ==
    /\ MeterFaults /\ closer = "opening" /\ ~engine.opened
    /\ engine' = [opened |-> FALSE, compile |-> "empty", evaluate |-> "empty"]
    /\ FailTo("rest")

\* authz.Open refuses a key.
OpenFails ==
    /\ closer = "opening" /\ engine.opened
    /\ ~config.disabled /\ (Refused(config.public) \/ Refused(config.private))
    /\ FailTo("evaluate") /\ UNCHANGED engine

\* authz.Open: a counter is refused after the launch.  Nobody cancels a.ctx or waits
\* for the loop, since main defers no Close of a component that did not open.
OpenFailsLaunched ==
    /\ MeterFaults /\ closer = "launched"
    /\ FailTo("evaluate") /\ UNCHANGED engine

-----------------------------------------------------------------------------
(* The compile loop *)

\* Somebody edits the policy file; the edits are finitely many.
Edit ==
    /\ edits < MaxEdits /\ closer = "serving"
    /\ \E content \in Contents \cup {Unreadable} : content # file /\ file' = content
    /\ edits' = edits + 1 /\ held' = held \cup ({file'} \cap Contents)
    /\ UNCHANGED <<adopted, loop, mainVars, engine, issued, call>>

\* Bug: an error of reading the file is ignored, and an empty input compiled.
LoopReadAnyway ==
    /\ loop.pc = "idle"
    /\ LET roles == IF file = Unreadable THEN {} ELSE file IN
       /\ loop.checksum # roles
       /\ Round("compile", roles)
    /\ UNCHANGED <<file, edits, held, adopted, mainVars, engine, issued, call>>

\* Bug: the checksum is remembered before the compilation has succeeded.
LoopReadAndRemember ==
    /\ loop.pc = "idle"
    /\ file # Unreadable /\ loop.checksum # file
    /\ loop' = [pc |-> "compile", read |-> file, checksum |-> file]
    /\ UNCHANGED <<file, edits, held, adopted, mainVars, engine, issued, call>>

\* A round: read the file, return on an error or on an unchanged checksum.
LoopRead ==
    /\ loop.pc = "idle"
    /\ file # Unreadable /\ loop.checksum # file
    /\ Round("compile", file)
    /\ UNCHANGED <<file, edits, held, adopted, mainVars, engine, issued, call>>

\* CompilePrepared: the engine must be open; a query is prepared once.
LoopPrepare ==
    /\ loop.pc = "compile"
    /\ IF ~engine.opened THEN Round("idle", Absent)
       ELSE LoopTo(IF engine.compile = "prepared" THEN "evaluate" ELSE "write")
    /\ UNCHANGED <<file, edits, held, adopted, mainVars, engine, issued, call>>

\* PrepareForEval and writePreparedQueryCompile: writing to a nil map panics,
\* and nothing in this goroutine recovers.
LoopWrite ==
    /\ loop.pc = "write"
    /\ IF engine.compile = "nil" THEN LoopTo("panic") /\ UNCHANGED engine
       ELSE LoopTo("evaluate") /\ engine' = [engine EXCEPT !.compile = "prepared"]
    /\ UNCHANGED <<file, edits, held, adopted, mainVars, issued, call>>

\* The compilation is stored, and then its checksum kept.
LoopAdopt ==
    /\ loop.pc = "evaluate"
    /\ adopted' = Compile(loop.read)
    /\ loop' = [pc |-> "idle", read |-> Absent, checksum |-> loop.read]
    /\ call' = [c \in Call |-> IF call[c].pc \in Working
                               THEN [call[c] EXCEPT !.during = @ \cup {adopted'}]
                               ELSE call[c]]
    /\ UNCHANGED <<file, edits, held, mainVars, engine, issued>>

\* Preparing or evaluating fails, as it may once a.ctx is done: the error is
\* logged and the round ends.
LoopError ==
    /\ loop.pc \in {"write", "evaluate"} /\ (EngineFaults \/ ctx = "done")
    /\ Round("idle", Absent)
    /\ UNCHANGED <<file, edits, held, adopted, mainVars, engine, issued, call>>

\* Bug: the loop selects on its ticker only.
LoopStopNever == FALSE /\ UNCHANGED vars

\* a.ctx is done.  Go's select may still prefer a tick for some rounds.
LoopStop ==
    /\ loop.pc = "idle" /\ ctx = "done"
    /\ LoopTo("stopped")
    /\ UNCHANGED <<file, edits, held, adopted, mainVars, engine, issued, call>>

-----------------------------------------------------------------------------
(* Calls *)

CallTo(c, p) == call' = [call EXCEPT ![c].pc = p]
Finish(c, answer) == call' = [call EXCEPT ![c] = CallAt(answer)]

\* The server is up once Open has succeeded, and until the process exits.
Serving == closer \notin {"opening", "launched", "exit"} /\ ~failed
Free(c) == Serving /\ call[c].pc \in Answer

\* HMAC uses the text of the key; a file is read for RSA only.
Secret(key) == IF key.from = "text" THEN "text" ELSE "empty"
Signs == config.private.method = config.public.method
Accepts ==
    config.public.method = "HMAC" /\ Signs /\ Secret(config.public) = Secret(config.private)

\* authz.Authorize: a token for the user the request asks for.
Authorize(c) ==
    /\ Free(c)
    /\ \E u \in Users :
          \/ opened /\ ~config.disabled /\ Signs
             /\ issued' = issued \cup {u} /\ Finish(c, "done")
          \/ ~(opened /\ ~config.disabled /\ Signs)
             /\ Finish(c, IF opened THEN "error" ELSE "notOpened") /\ UNCHANGED issued
    /\ UNCHANGED <<loopVars, mainVars, engine>>

\* The head of each of the five operations: the token is parsed, and the last
\* compilation loaded as an argument of evaluateBoolean.
Begin(c) ==
    /\ Free(c) /\ opened /\ ~config.disabled /\ Accepts
    /\ \E u \in issued :
          call' = [call EXCEPT ![c] = [pc |-> "evaluate", user |-> u, seen |-> adopted,
                                       during |-> {adopted}]]
    /\ UNCHANGED <<loopVars, mainVars, engine, issued>>

\* An operation that is refused at once: authz is closed, or the token is
\* missing, or not one that parses.
Refuse(c) ==
    /\ Free(c) /\ (opened => ~config.disabled)
    /\ Finish(c, IF opened THEN "badToken" ELSE "notOpened")
    /\ UNCHANGED <<loopVars, mainVars, engine, issued>>

\* AUTHZ_DISABLED: no token is asked for.
BeginUnchecked(c) ==
    /\ Free(c) /\ opened /\ config.disabled
    /\ call' = [call EXCEPT ![c] = CallAt("perform")]
    /\ UNCHANGED <<loopVars, mainVars, engine, issued>>

\* EvaluatePrepared: the engine must be open; the query is prepared once.
Evaluate(c) ==
    /\ Serving /\ call[c].pc = "evaluate"
    /\ IF ~engine.opened THEN Finish(c, "error")
       ELSE CallTo(c, IF engine.evaluate = "prepared" THEN "decide" ELSE "prepare")
    /\ UNCHANGED <<loopVars, mainVars, engine, issued>>

\* PrepareForEval and writePreparedQueryEvaluate; a panic is recovered by the
\* middleware.
Prepare(c) ==
    /\ Serving /\ call[c].pc = "prepare"
    /\ IF engine.evaluate = "nil" THEN Finish(c, "panic") /\ UNCHANGED engine
       ELSE CallTo(c, "decide") /\ engine' = [engine EXCEPT !.evaluate = "prepared"]
    /\ UNCHANGED <<loopVars, mainVars, issued>>

\* evaluateBoolean: the query's result, counted as granted or denied.
Decide(c) ==
    /\ Serving /\ call[c].pc = "decide"
    /\ IF HasAccess(call[c].user, call[c].seen)
       THEN CallTo(c, "perform") ELSE Finish(c, "unauthorized")
    /\ UNCHANGED <<loopVars, mainVars, engine, issued>>

\* Bug: an evaluation that fails lets the call through.
EvaluateFailsOpen(c) ==
    /\ EngineFaults /\ Serving /\ call[c].pc \in {"prepare", "decide"}
    /\ CallTo(c, "perform")
    /\ UNCHANGED <<loopVars, mainVars, engine, issued>>

EvaluateFails(c) ==
    /\ EngineFaults /\ Serving /\ call[c].pc \in {"prepare", "decide"}
    /\ Finish(c, "error")
    /\ UNCHANGED <<loopVars, mainVars, engine, issued>>

\* a.Logic performs the operation.
Perform(c) ==
    /\ Serving /\ call[c].pc = "perform"
    /\ Finish(c, "done")
    /\ UNCHANGED <<loopVars, mainVars, engine, issued>>

-----------------------------------------------------------------------------
(* main's deferred closes *)

\* The signal cancels main's context, and with it a.ctx.
Signal ==
    /\ ctx = "live"
    /\ ctx' = "done"
    /\ UNCHANGED <<loopVars, config, opened, closer, failed, engine, issued, call>>

\* authz.Close: with authorization disabled a.ctxCancel is nil and main panics,
\* whose deferred closes still run.
Close ==
    /\ closer = "serving" /\ opened
    /\ opened' = FALSE
    /\ IF ctx = "none" THEN UNCHANGED ctx ELSE ctx' = "done"
    /\ closer' = IF ctx = "none" THEN "evaluate" ELSE "waiting"
    /\ UNCHANGED <<loopVars, config, failed, engine, issued, call>>

\* Bug: Close does not wait for the compile loop.
WaitNot ==
    /\ closer = "waiting"
    /\ closer' = "evaluate"
    /\ UNCHANGED <<loopVars, config, ctx, opened, failed, engine, issued, call>>

\* a.Wait returns.
Wait ==
    /\ closer = "waiting" /\ loop.pc = "stopped"
    /\ closer' = "evaluate"
    /\ UNCHANGED <<loopVars, config, ctx, opened, failed, engine, issued, call>>

\* policy.Close: the maps are dropped one by one, and then the flag.
EngineClose ==
    /\ \/ /\ closer = "evaluate" /\ closer' = "compile"
          /\ engine' = [engine EXCEPT !.evaluate = "nil"]
       \/ /\ closer = "compile" /\ closer' = "flag"
          /\ engine' = [engine EXCEPT !.compile = "nil"]
       \/ /\ closer = "flag" /\ closer' = "rest"
          /\ engine' = [engine EXCEPT !.opened = FALSE]
    /\ UNCHANGED <<loopVars, config, ctx, opened, failed, issued, call>>

\* The components opened before the engine are closed, and the process exits.
Exit ==
    /\ closer = "rest" /\ closer' = "exit"
    /\ UNCHANGED <<loopVars, config, ctx, opened, failed, engine, issued, call>>

LoopNext == LoopRead \/ LoopPrepare \/ LoopWrite \/ LoopAdopt \/ LoopError \/ LoopStop

CallNext(c) ==
    \/ Authorize(c) \/ Begin(c) \/ Refuse(c) \/ BeginUnchecked(c) \/ Evaluate(c)
    \/ Prepare(c) \/ Decide(c) \/ EvaluateFails(c) \/ Perform(c)

OpenNext ==
    EngineOpen \/ EngineOpenFails \/ OpenLaunch \/ OpenFails \/ Open \/ OpenFailsLaunched
MainNext == OpenNext \/ Signal \/ Close \/ Wait \/ EngineClose \/ Exit

\* Nothing runs once the process has exited or the loop's panic has killed it.
Alive == closer # "exit" /\ loop.pc # "panic"

Next == Alive /\ (LoopNext \/ (\E c \in Call : CallNext(c)) \/ MainNext \/ Edit)

Spec == Init /\ [][Next]_vars

\* The loop ticks every second for as long as it runs; an engine that can
\* evaluate does not fail for ever; select does not ignore a done context.
Fairness ==
    /\ WF_vars(Alive /\ LoopRead) /\ WF_vars(Alive /\ LoopPrepare)
    /\ SF_vars(Alive /\ LoopWrite) /\ SF_vars(Alive /\ LoopAdopt)
    /\ SF_vars(Alive /\ LoopStop) /\ WF_vars(Alive /\ Wait)

FairSpec == Spec /\ Fairness
-----------------------------------------------------------------------------
Checked(c) == call[c].pc = "perform" /\ ~config.disabled

\* An operation is performed only for a user who was permitted by a compilation
\* in force at some time during the call: a revocation adopted before the call
\* began is effective (authz.go:361: the pointer is loaded once per call).
PerformsPermitted ==
    \A c \in Call : Checked(c) =>
        \E out \in call[c].during : HasAccess(call[c].user, out)

\* Until the first compilation is adopted nobody is let through
\* (authz.go:292: the pointer starts as nil while the server may answer).
NobodyBeforeFirst ==
    adopted = Absent => \A c \in Call : ~Checked(c)

\* A file that cannot be read changes nobody's access: what is in force is the
\* compilation of something the file has held (authz.go:133-166).
OnlyHeldContents ==
    adopted = Absent \/ \E roles \in held : adopted = Compile(roles)

\* A content that stays in the file while authz is open is in the end in force, in
\* spite of failing rounds (authz.go:154-159: the checksum is kept only after a
\* success).
EventuallyAdopted ==
    \A roles \in Contents :
        <>[](file = roles /\ opened /\ ctx = "live") => <>[](adopted = Compile(roles))

\* The compile goroutine, which nothing recovers, writes to a map that policy.Close
\* has dropped only in a process that failed to start, whose authz.Open returned
\* an error after it had launched the goroutine (authz.go:294-299); once authz is
\* open its Close waits for it (authz.go:309-310), before the engine is closed.
LoopSurvivesClose ==
    loop.pc = "panic" => failed /\ closer \in {"flag", "rest"}

\* Close returns: the loop leaves on the done context (authz.go:170-171).
CloseReturns == closer = "waiting" ~> closer # "waiting"

\* A call panics only while main closes the engine under it: before, the map it
\* writes its query to is there, and two calls may both write to it (policy.go:80-86,
\* 143; README.md:296 says that panics should never occur).
PanicsOnlyClosing ==
    \A c \in Call : call[c].pc = "panic" => closer \in {"compile", "flag", "rest", "exit"}
=============================================================================
