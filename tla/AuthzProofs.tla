----------------------------- MODULE AuthzProofs ----------------------------
(* What holds of Authz for every policy, configuration and number of calls,*)
(* and what the rules of AuthzRules grant for every input.                 *)
EXTENDS Authz, TLAPS

\* What the loop works on was in the file, and nothing else is in force.
FileHeld == file # Unreadable => file \in held
LoopReads == loop.pc \in {"compile", "write", "evaluate"} => loop.read \in held

\* The loop runs only between its launch and the end of Close, unless an Open has
\* failed; without faults of the meter none fails after the launch.
LoopBetween ==
    /\ loop.pc # "off" => ctx # "none"
    /\ loop.pc \notin {"off", "stopped"} => failed \/ closer \in {"launched", "serving", "waiting"}
    /\ closer = "opening" => ctx = "none" /\ ~failed
    /\ failed /\ ~MeterFaults => loop.pc = "off"

\* The maps of the engine are there from its Open until its Close.
EngineMade ==
    /\ closer \in {"launched", "serving", "waiting", "evaluate"}
       \/ (closer = "opening" /\ engine.opened) =>
           engine.compile # "nil" /\ engine.evaluate # "nil"
    /\ closer = "compile" => engine.compile # "nil"

\* A call evaluates with a compilation that was in force during it.
SeenDuring ==
    \A c \in Call : call[c].pc \in {"evaluate", "prepare", "decide"} =>
        call[c].seen \in call[c].during

NothingBeforeFirst ==
    adopted = Absent => \A c \in Call : call[c].pc \in Working => call[c].during \subseteq {Absent}

LoopInv == TypeOK /\ FileHeld /\ LoopReads /\ OnlyHeldContents

CloseInv == LoopSurvivesClose /\ LoopBetween /\ EngineMade /\ PanicsOnlyClosing

CallInv == SeenDuring /\ PerformsPermitted /\ NothingBeforeFirst

-----------------------------------------------------------------------------
(* The types, and what is in force *)

LEMMA CompileType == \A roles \in Contents : Compile(roles) \in Output
  BY DEF Output

LEMMA CompileNotAbsent == \A out \in Output : out # Absent
  BY AuthzAssumption DEF Output

Calls == [pc : Working \cup Answer, user : Users, seen : Output \cup {Absent},
          during : SUBSET (Output \cup {Absent})]
Rounds == [pc : {"off", "idle", "compile", "write", "evaluate", "stopped", "panic"},
           read : Contents \cup {Absent}, checksum : Contents \cup {Absent}]

LEMMA LoopInit == Init => LoopInv
<1> SUFFICES ASSUME Init PROVE LoopInv
  OBVIOUS
<1>1. NoCall \in Calls /\ NoLoop \in Rounds
  BY DEF NoCall, CallAt, Calls, NoLoop, Rounds, Users, Answer
<1>2. call \in [Call -> Calls] /\ loop \in Rounds /\ loop.pc = "off"
  BY <1>1 DEF Init, NoLoop
<1>3. held \in SUBSET Contents /\ (file # Unreadable => file \in held)
  BY DEF Init
<1>4. edits \in 0 .. MaxEdits
  BY AuthzAssumption DEF Init
<1>5. TypeOK
  BY <1>2, <1>3, <1>4 DEF Init, TypeOK, Calls, Rounds
<1>6. QED
  BY <1>2, <1>3, <1>5 DEF Init, LoopInv, FileHeld, LoopReads, OnlyHeldContents

LEMMA LoopByMain ==
    ASSUME LoopInv, MainNext
    PROVE  LoopInv'
<1>1. UNCHANGED <<file, edits, held, adopted, config, issued, call>>
  BY DEF MainNext, OpenNext, EngineOpen, EngineOpenFails, OpenLaunch, OpenFails,
         Open, OpenFailsLaunched, FailTo, Signal, Close, Wait, EngineClose, Exit, loopVars, mainVars
<1>2. ctx' \in {"none", "live", "done"}
  BY DEF LoopInv, TypeOK, MainNext, OpenNext, EngineOpen, EngineOpenFails, OpenLaunch, OpenFails,
         Open, OpenFailsLaunched, FailTo, Signal, Close, Wait, EngineClose, Exit,
         loopVars, mainVars
<1>3. opened' \in BOOLEAN
  BY DEF LoopInv, TypeOK, MainNext, OpenNext, EngineOpen, EngineOpenFails, OpenLaunch, OpenFails,
         Open, OpenFailsLaunched, FailTo, Signal, Close, Wait, EngineClose, Exit,
         loopVars, mainVars
<1>4. /\ closer' \in {"opening", "launched", "serving", "waiting", "evaluate", "compile", "flag",
                     "rest", "exit"}
      /\ failed' \in BOOLEAN
  BY DEF LoopInv, TypeOK, MainNext, OpenNext, EngineOpen, EngineOpenFails, OpenLaunch, OpenFails,
         Open, OpenFailsLaunched, FailTo, Signal, Close, Wait, EngineClose, Exit,
         loopVars, mainVars
<1>5. engine' \in [opened : BOOLEAN, compile : {"nil", "empty", "prepared"},
                   evaluate : {"nil", "empty", "prepared"}]
  <2>1. engine \in [opened : BOOLEAN, compile : {"nil", "empty", "prepared"},
                    evaluate : {"nil", "empty", "prepared"}]
    BY DEF LoopInv, TypeOK
  <2>2. CASE EngineOpen
    BY <2>2 DEF EngineOpen
  <2>3. CASE EngineClose
    <3>1. \/ engine' = [engine EXCEPT !.evaluate = "nil"]
          \/ engine' = [engine EXCEPT !.compile = "nil"]
          \/ engine' = [engine EXCEPT !.opened = FALSE]
      BY <2>3 DEF EngineClose
    <3>2. QED
      BY <2>1, <3>1
  <2>4. CASE OpenLaunch \/ OpenFails \/ Open \/ OpenFailsLaunched
    BY <2>1, <2>4 DEF OpenLaunch, OpenFails, Open, OpenFailsLaunched
  <2>5. CASE Signal \/ Close \/ Wait \/ Exit
    BY <2>1, <2>5 DEF Signal, Close, Wait, Exit
  <2>6. CASE EngineOpenFails
    BY <2>6 DEF EngineOpenFails
  <2>7. QED
    BY <2>2, <2>3, <2>4, <2>5, <2>6 DEF MainNext, OpenNext
<1>6. loop' = loop \/ LoopTo("idle")
  BY DEF MainNext, OpenNext, EngineOpen, EngineOpenFails, OpenLaunch, OpenFails,
         Open, OpenFailsLaunched, FailTo, Signal, Close, Wait, EngineClose, Exit, loopVars, mainVars
<1>7. loop' \in Rounds /\ LoopReads'
  BY <1>1, <1>6 DEF LoopInv, TypeOK, Rounds, LoopReads, LoopTo, Round
<1>8. TypeOK'
  BY <1>1, <1>2, <1>3, <1>4, <1>5, <1>7 DEF LoopInv, TypeOK, Rounds
<1>9. QED
  BY <1>1, <1>7, <1>8 DEF LoopInv, FileHeld, OnlyHeldContents

LEMMA LoopByLoop ==
    ASSUME LoopInv, LoopNext
    PROVE  LoopInv'
<1>1. UNCHANGED <<file, edits, held, mainVars, issued>>
  BY DEF LoopNext, LoopRead, LoopPrepare, LoopWrite, LoopAdopt, LoopError, LoopStop
<1>2. loop \in Rounds /\ engine \in [opened : BOOLEAN, compile : {"nil", "empty", "prepared"},
                                     evaluate : {"nil", "empty", "prepared"}]
  BY DEF LoopInv, TypeOK, Rounds
<1>3. engine' = engine \/ engine' = [engine EXCEPT !.compile = "prepared"]
  BY DEF LoopNext, LoopRead, LoopPrepare, LoopWrite, LoopAdopt, LoopError, LoopStop
<1>4. loop' \in Rounds /\ LoopReads'
  <2> USE <1>1, <1>2 DEF LoopInv, TypeOK, FileHeld, LoopReads, Rounds, LoopTo, Round
  <2>1. CASE LoopRead
    BY <2>1 DEF LoopRead
  <2>2. CASE LoopPrepare
    BY <2>2 DEF LoopPrepare
  <2>3. CASE LoopWrite
    BY <2>3 DEF LoopWrite
  <2>4. CASE LoopAdopt
    BY <2>4 DEF LoopAdopt
  <2>5. CASE LoopError
    BY <2>5 DEF LoopError
  <2>6. CASE LoopStop
    BY <2>6 DEF LoopStop
  <2>7. QED
    BY <2>1, <2>2, <2>3, <2>4, <2>5, <2>6 DEF LoopNext
<1>5. /\ adopted' \in Output \cup {Absent} /\ OnlyHeldContents'
      /\ call' \in [Call -> Calls]
  <2>1. CASE LoopAdopt
    <3>1. loop.read \in held /\ loop.read \in Contents
      BY <2>1 DEF LoopAdopt, LoopInv, LoopReads, TypeOK
    <3>2. adopted' \in Output /\ adopted' = Compile(loop.read)
      BY <2>1, <3>1, CompileType DEF LoopAdopt
    <3>3. \A c \in Call : call'[c] = call[c]
                           \/ call'[c] = [call[c] EXCEPT !.during = @ \cup {adopted'}]
      BY <2>1 DEF LoopAdopt
    <3>4. \A c \in Call : call[c] \in Calls
      BY DEF LoopInv, TypeOK, Calls
    <3>5. \A c \in Call : call'[c] \in Calls
      <4> SUFFICES ASSUME NEW c \in Call PROVE call'[c] \in Calls
        OBVIOUS
      <4>1. call[c].during \cup {adopted'} \in SUBSET (Output \cup {Absent})
        BY <3>2, <3>4 DEF Calls
      <4>2. [call[c] EXCEPT !.during = call[c].during \cup {adopted'}] \in Calls
        BY <3>4, <4>1 DEF Calls
      <4>3. QED
        BY <3>3, <3>4, <4>2
    <3>6. call' \in [Call -> Calls]
      BY <2>1, <3>5 DEF LoopAdopt
    <3>7. QED
      BY <1>1, <3>1, <3>2, <3>6 DEF OnlyHeldContents
  <2>2. CASE ~LoopAdopt
    <3>1. UNCHANGED <<adopted, call>>
      BY <2>2 DEF LoopNext, LoopRead, LoopPrepare, LoopWrite, LoopError, LoopStop
    <3>2. QED
      BY <1>1, <3>1 DEF LoopInv, TypeOK, OnlyHeldContents, Calls
  <2>3. QED
    BY <2>1, <2>2
<1>6. TypeOK'
  BY <1>1, <1>2, <1>3, <1>4, <1>5 DEF LoopInv, TypeOK, mainVars, Rounds, Calls
<1>7. QED
  BY <1>1, <1>4, <1>5, <1>6 DEF LoopInv, FileHeld

LEMMA LoopByEdit ==
    ASSUME LoopInv, Edit
    PROVE  LoopInv'
  BY AuthzAssumption
     DEF LoopInv, TypeOK, FileHeld, LoopReads, OnlyHeldContents, Edit, mainVars

LEMMA LoopByCall ==
    ASSUME LoopInv, NEW c \in Call, CallNext(c)
    PROVE  LoopInv'
<1>1. UNCHANGED <<loopVars, mainVars>>
  BY DEF CallNext, Authorize, Begin, Refuse, BeginUnchecked, Evaluate, Prepare, Decide,
         EvaluateFails, Perform
<1>2. /\ engine' \in [opened : BOOLEAN, compile : {"nil", "empty", "prepared"},
                      evaluate : {"nil", "empty", "prepared"}]
      /\ issued' \in SUBSET Users
  BY DEF CallNext, Authorize, Begin, Refuse, BeginUnchecked, Evaluate, Prepare, Decide,
         EvaluateFails, Perform, LoopInv, TypeOK
<1>3. call' \in [Call -> Calls]
  <2> USE DEF LoopInv, TypeOK, Calls, CallTo, Finish, CallAt, Working, Answer, Users
  <2>1. CASE Authorize(c)
    BY <2>1 DEF Authorize
  <2>2. CASE Begin(c)
    BY <2>2 DEF Begin
  <2>3. CASE Refuse(c)
    BY <2>3 DEF Refuse
  <2>4. CASE BeginUnchecked(c)
    BY <2>4 DEF BeginUnchecked
  <2>5. CASE Evaluate(c)
    BY <2>5 DEF Evaluate
  <2>6. CASE Prepare(c)
    BY <2>6 DEF Prepare
  <2>7. CASE Decide(c)
    BY <2>7 DEF Decide
  <2>8. CASE EvaluateFails(c)
    BY <2>8 DEF EvaluateFails
  <2>9. CASE Perform(c)
    BY <2>9 DEF Perform
  <2>10. QED
    BY <2>1, <2>2, <2>3, <2>4, <2>5, <2>6, <2>7, <2>8, <2>9 DEF CallNext
<1>4. TypeOK'
  BY <1>1, <1>2, <1>3 DEF LoopInv, TypeOK, Calls, loopVars, mainVars
<1>5. QED
  BY <1>1, <1>4 DEF LoopInv, FileHeld, LoopReads, OnlyHeldContents, loopVars

LEMMA LoopStutters ==
    ASSUME LoopInv, UNCHANGED vars
    PROVE  LoopInv'
  BY DEF LoopInv, TypeOK, FileHeld, LoopReads, OnlyHeldContents, vars, loopVars, mainVars

LEMMA LoopHolds == Spec => []LoopInv
<1>1. LoopInv /\ [Next]_vars => LoopInv'
  BY LoopByMain, LoopByLoop, LoopByEdit, LoopByCall, LoopStutters DEF Next
<1>2. QED
  BY LoopInit, <1>1, PTL DEF Spec

\* The variables keep their types: every compilation in force, or used by a call,
\* is the output of the rules for some content (authz.go:133-166).
THEOREM TypeCorrect == Spec => []TypeOK
<1>1. LoopInv => TypeOK
  BY DEF LoopInv
<1>2. QED
  BY <1>1, LoopHolds, PTL

\* What is in force is the compilation of something the file has held
\* (authz.go:133-166).
THEOREM InForce == Spec => []OnlyHeldContents
<1>1. LoopInv => OnlyHeldContents
  BY DEF LoopInv
<1>2. QED
  BY <1>1, LoopHolds, PTL

-----------------------------------------------------------------------------
(* Closing *)

LEMMA CloseInit == Init => CloseInv
  BY DEF Init, CloseInv, LoopSurvivesClose, LoopBetween, EngineMade, PanicsOnlyClosing, NoLoop,
         NoCall, CallAt

LEMMA CloseByMain ==
    ASSUME TypeOK, CloseInv, Alive, MainNext
    PROVE  CloseInv'
<1> USE DEF CloseInv, LoopSurvivesClose, LoopBetween, EngineMade, PanicsOnlyClosing, loopVars, TypeOK,
            Alive
<1>1. CASE EngineOpen \/ EngineOpenFails
  BY <1>1 DEF EngineOpen, EngineOpenFails, FailTo, mainVars
<1>2. CASE OpenLaunch \/ Open
  BY <1>2 DEF OpenLaunch, Open, LoopTo, Round
<1>3. CASE OpenFails \/ OpenFailsLaunched
  BY <1>3 DEF OpenFails, OpenFailsLaunched, FailTo
<1>4. CASE Signal
  BY <1>4 DEF Signal
<1>5. CASE Close
  BY <1>5 DEF Close
<1>6. CASE Wait
  BY <1>6 DEF Wait
<1>7. CASE EngineClose
  BY <1>7 DEF EngineClose
<1>8. CASE Exit
  BY <1>8 DEF Exit
<1>9. QED
  BY <1>1, <1>2, <1>3, <1>4, <1>5, <1>6, <1>7, <1>8 DEF MainNext, OpenNext

LEMMA CloseByLoop ==
    ASSUME TypeOK, CloseInv, Alive, LoopNext
    PROVE  CloseInv'
<1>1. UNCHANGED <<ctx, closer, failed>>
  BY DEF LoopNext, LoopRead, LoopPrepare, LoopWrite, LoopAdopt, LoopError, LoopStop, mainVars
<1>2. loop.pc \notin {"off", "stopped"}
  BY DEF LoopNext, LoopRead, LoopPrepare, LoopWrite, LoopAdopt, LoopError, LoopStop
<1>3. /\ loop'.pc # "off"
      /\ \/ loop'.pc \in {"idle", "compile", "write", "evaluate", "stopped"}
         \/ loop'.pc = "panic" /\ engine.compile = "nil" /\ ctx # "none"
  <2> USE DEF LoopTo, Round
  <2>1. CASE LoopWrite
    BY <2>1 DEF LoopWrite, CloseInv, LoopBetween
  <2>2. CASE LoopRead \/ LoopAdopt \/ LoopStop
    BY <2>2 DEF LoopRead, LoopAdopt, LoopStop
  <2>3. CASE LoopPrepare
    BY <2>3 DEF LoopPrepare
  <2>4. CASE LoopError
    BY <2>4 DEF LoopError
  <2>5. QED
    BY <2>1, <2>2, <2>3, <2>4 DEF LoopNext
<1>4. LoopBetween'
  BY <1>1, <1>2, <1>3 DEF CloseInv, LoopBetween
<1>5. LoopSurvivesClose'
  <2>1. loop'.pc = "panic" => failed /\ closer \in {"flag", "rest"}
    BY <1>2, <1>3 DEF CloseInv, LoopBetween, EngineMade, TypeOK, Alive
  <2>2. QED
    BY <1>1, <2>1 DEF LoopSurvivesClose
<1>7. engine' = engine \/ engine' = [engine EXCEPT !.compile = "prepared"]
  BY DEF LoopNext, LoopRead, LoopPrepare, LoopWrite, LoopAdopt, LoopError, LoopStop
<1>8. /\ engine'.opened = engine.opened /\ engine'.evaluate = engine.evaluate
      /\ engine'.compile \in {engine.compile, "prepared"}
  BY <1>7 DEF TypeOK
<1>9. EngineMade'
  BY <1>1, <1>8 DEF CloseInv, EngineMade
<1>10. \A c \in Call : call'[c].pc = call[c].pc
  <2>1. CASE LoopAdopt
    BY <2>1 DEF LoopAdopt
  <2>2. CASE ~LoopAdopt
    BY <2>2 DEF LoopNext, LoopRead, LoopPrepare, LoopWrite, LoopError, LoopStop
  <2>3. QED
    BY <2>1, <2>2
<1>11. PanicsOnlyClosing'
  BY <1>1, <1>10 DEF CloseInv, PanicsOnlyClosing
<1>12. QED
  BY <1>4, <1>5, <1>9, <1>11 DEF CloseInv

LEMMA CloseByCall ==
    ASSUME TypeOK, CloseInv, NEW c \in Call, CallNext(c)
    PROVE  CloseInv'
<1>1. UNCHANGED <<loop, ctx, opened, closer, failed>> /\ engine'.opened = engine.opened
  BY DEF CallNext, Authorize, Begin, Refuse, BeginUnchecked, Evaluate, Prepare, Decide,
         EvaluateFails, Perform, loopVars, mainVars, TypeOK
<1>2. EngineMade'
  BY <1>1 DEF CallNext, Authorize, Begin, Refuse, BeginUnchecked, Evaluate, Prepare, Decide,
         EvaluateFails, Perform, TypeOK, CloseInv, EngineMade
<1>3. \A d \in Call \ {c} : call'[d] = call[d]
  BY DEF CallNext, Authorize, Begin, Refuse, BeginUnchecked, Evaluate, Prepare, Decide,
         EvaluateFails, Perform, CallTo, Finish, TypeOK
<1>4. ASSUME call'[c].pc = "panic" PROVE closer \in {"compile", "flag", "rest", "exit"}
  <2>1. CASE Prepare(c)
    BY <1>4, <2>1 DEF Prepare, Serving, CallTo, TypeOK, CloseInv, EngineMade
  <2>2. CASE ~Prepare(c)
    BY <1>4, <2>2 DEF CallNext, Authorize, Begin, Refuse, BeginUnchecked, Evaluate, Decide,
           EvaluateFails, Perform, CallTo, Finish, CallAt, TypeOK
  <2>3. QED
    BY <2>1, <2>2
<1>5. PanicsOnlyClosing'
  BY <1>1, <1>3, <1>4 DEF PanicsOnlyClosing, CloseInv
<1>6. QED
  BY <1>1, <1>2, <1>5 DEF CloseInv, LoopSurvivesClose, LoopBetween

LEMMA CloseByOthers ==
    ASSUME CloseInv, Edit \/ UNCHANGED vars
    PROVE  CloseInv'
  BY DEF CloseInv, LoopSurvivesClose, LoopBetween, EngineMade, PanicsOnlyClosing, Edit, vars,
         loopVars, mainVars

LEMMA CloseHolds == Spec => []CloseInv
<1>1. TypeOK /\ CloseInv /\ [Next]_vars => CloseInv'
  BY CloseByMain, CloseByLoop, CloseByCall, CloseByOthers DEF Next
<1>2. QED
  BY CloseInit, <1>1, TypeCorrect, PTL DEF Spec

\* The compile goroutine writes to a map that policy.Close has dropped only after
\* an Open has failed, while main closes what had been opened (authz.go:294-299,
\* 309-310, policy.go:143).
THEOREM LoopSurvives == Spec => []LoopSurvivesClose
<1>1. CloseInv => LoopSurvivesClose
  BY DEF CloseInv
<1>2. QED
  BY <1>1, CloseHolds, PTL

\* As long as the meter refuses no instrument it never does, whatever rounds fail,
\* and whenever the signal comes or main closes: a failing Open is then one that
\* refused a key, before the launch (authz.go:222-291).
THEOREM LoopSurvivesUnrefused ==
    ASSUME ~MeterFaults
    PROVE  Spec => [](loop.pc # "panic")
<1>1. CloseInv => loop.pc # "panic"
  BY DEF CloseInv, LoopSurvivesClose, LoopBetween
<1>2. QED
  BY <1>1, CloseHolds, PTL

\* A call writes to such a map only while main closes the engine (policy.go:80-86,
\* 143).
THEOREM PanicsLate == Spec => []PanicsOnlyClosing
<1>1. CloseInv => PanicsOnlyClosing
  BY DEF CloseInv
<1>2. QED
  BY <1>1, CloseHolds, PTL

-----------------------------------------------------------------------------
(* Who is let through *)

\* Without a compilation nobody has access.
LEMMA NoAccessWithout == \A u : ~HasAccess(u, Absent)
  BY UserAssumption
     DEF HasAccess, EvaluationInput, can_create_employee, Permits, IsOwner

LEMMA CallInit == Init => CallInv
  BY DEF Init, CallInv, SeenDuring, PerformsPermitted, NothingBeforeFirst, NoCall, CallAt, Checked,
         Working

LEMMA CallByAdopt ==
    ASSUME TypeOK, TypeOK', CallInv, LoopAdopt, loop.read \in Contents
    PROVE  CallInv'
<1>1. adopted' # Absent
  BY CompileType, CompileNotAbsent DEF LoopAdopt
<1>2. \A c \in Call : /\ call'[c].pc = call[c].pc /\ call'[c].seen = call[c].seen
                      /\ call'[c].user = call[c].user
                      /\ call[c].during \subseteq call'[c].during
  BY DEF LoopAdopt, TypeOK
<1>3. config' = config
  BY DEF LoopAdopt, mainVars
<1>4. SeenDuring'
  BY <1>2 DEF CallInv, SeenDuring
<1>5. PerformsPermitted'
  <2> SUFFICES ASSUME NEW c \in Call, Checked(c)'
               PROVE  \E out \in call'[c].during : HasAccess(call'[c].user, out)
    BY DEF PerformsPermitted
  <2>1. Checked(c)
    BY <1>2, <1>3 DEF Checked
  <2>2. PICK out \in call[c].during : HasAccess(call[c].user, out)
    BY <2>1 DEF CallInv, PerformsPermitted
  <2>3. QED
    BY <1>2, <2>2
<1>6. QED
  BY <1>1, <1>4, <1>5 DEF CallInv, NothingBeforeFirst

LEMMA CallByCall ==
    ASSUME TypeOK, CallInv, NEW c \in Call, CallNext(c)
    PROVE  CallInv'
<1>1. adopted' = adopted /\ config' = config
  BY DEF CallNext, Authorize, Begin, Refuse, BeginUnchecked, Evaluate, Prepare, Decide,
         EvaluateFails, Perform, loopVars, mainVars
<1>2. \A d \in Call \ {c} : call'[d] = call[d]
  BY DEF CallNext, Authorize, Begin, Refuse, BeginUnchecked, Evaluate, Prepare, Decide,
         EvaluateFails, Perform, CallTo, Finish, TypeOK
<1>3. \/ call'[c].pc \in Answer
      \/ call'[c].seen = adopted /\ call'[c].during = {adopted} /\ call'[c].pc = "evaluate"
      \/ config.disabled /\ call'[c].during = {} /\ call'[c].pc = "perform"
      \/ /\ call[c].pc \in {"evaluate", "prepare"} /\ call'[c].pc \in {"prepare", "decide"}
         /\ call'[c].seen = call[c].seen /\ call'[c].during = call[c].during
      \/ /\ call[c].pc = "decide" /\ call'[c] = [call[c] EXCEPT !.pc = "perform"]
         /\ HasAccess(call[c].user, call[c].seen)
  <2> USE DEF TypeOK, CallTo, Finish, CallAt, Answer
  <2>1. CASE Authorize(c)
    BY <2>1 DEF Authorize
  <2>2. CASE Begin(c)
    BY <2>2 DEF Begin
  <2>3. CASE Refuse(c)
    BY <2>3 DEF Refuse
  <2>4. CASE BeginUnchecked(c)
    BY <2>4 DEF BeginUnchecked
  <2>5. CASE Evaluate(c)
    BY <2>5 DEF Evaluate
  <2>6. CASE Prepare(c)
    BY <2>6 DEF Prepare
  <2>7. CASE Decide(c)
    BY <2>7 DEF Decide
  <2>8. CASE EvaluateFails(c)
    BY <2>8 DEF EvaluateFails
  <2>9. CASE Perform(c)
    BY <2>9 DEF Perform
  <2>10. QED
    BY <2>1, <2>2, <2>3, <2>4, <2>5, <2>6, <2>7, <2>8, <2>9 DEF CallNext
<1>4. call[c] \in [pc : Working \cup Answer, user : Users, seen : Output \cup {Absent},
                   during : SUBSET (Output \cup {Absent})]
  BY DEF TypeOK
<1>5. call'[c].pc \in {"evaluate", "prepare", "decide"} => call'[c].seen \in call'[c].during
  BY <1>3, <1>4 DEF CallInv, SeenDuring, Answer
<1>6. call'[c].pc = "perform" /\ ~config.disabled =>
          \E out \in call'[c].during : HasAccess(call'[c].user, out)
  BY <1>3, <1>4 DEF CallInv, SeenDuring, Answer
<1>7. adopted = Absent /\ call'[c].pc \in Working => call'[c].during \subseteq {Absent}
  BY <1>3, <1>4 DEF CallInv, NothingBeforeFirst, Working, Answer
<1>8. QED
  BY <1>1, <1>2, <1>5, <1>6, <1>7
     DEF CallInv, SeenDuring, PerformsPermitted, NothingBeforeFirst, Checked

LEMMA CallByOthers ==
    ASSUME CallInv, UNCHANGED <<adopted, config, call>>
    PROVE  CallInv'
  BY DEF CallInv, SeenDuring, PerformsPermitted, NothingBeforeFirst, Checked

LEMMA CallHolds == Spec => []CallInv
<1>1. Spec => []LoopInv
  BY LoopHolds
<1>2. LoopInv /\ LoopInv' /\ CallInv /\ [Next]_vars => CallInv'
  <2> SUFFICES ASSUME LoopInv, LoopInv', CallInv, [Next]_vars PROVE CallInv'
    OBVIOUS
  <2>1. CASE LoopAdopt
    BY <2>1, CallByAdopt DEF LoopInv, LoopReads, LoopAdopt, TypeOK
  <2>2. CASE \E c \in Call : CallNext(c)
    BY <2>2, CallByCall DEF LoopInv
  <2>3. CASE MainNext \/ Edit \/ (LoopNext /\ ~LoopAdopt) \/ UNCHANGED vars
    <3>1. UNCHANGED <<adopted, config, call>>
      BY <2>3 DEF MainNext, OpenNext, EngineOpen, EngineOpenFails, OpenLaunch, OpenFails, Open,
             OpenFailsLaunched, FailTo, Signal, Close, Wait, EngineClose, Exit, Edit, LoopNext,
             LoopRead, LoopPrepare, LoopWrite, LoopError, LoopStop, vars, loopVars, mainVars
    <3>2. QED
      BY <3>1, CallByOthers
  <2>4. QED
    BY <2>1, <2>2, <2>3 DEF Next
<1>3. QED
  BY CallInit, <1>1, <1>2, PTL DEF Spec

\* An operation is performed only for a user who was permitted by a compilation
\* in force during the call (authz.go:361).
THEOREM LetsThrough == Spec => []PerformsPermitted
<1>1. CallInv => PerformsPermitted
  BY DEF CallInv
<1>2. QED
  BY <1>1, CallHolds, PTL

\* Until the first compilation is adopted nobody is let through (authz.go:292).
THEOREM NobodyFirst == Spec => []NobodyBeforeFirst
<1>1. CallInv => NobodyBeforeFirst
  <2> SUFFICES ASSUME CallInv, adopted = Absent, NEW c \in Call, Checked(c) PROVE FALSE
    BY DEF NobodyBeforeFirst
  <2>1. PICK out \in call[c].during : HasAccess(call[c].user, out)
    BY DEF CallInv, PerformsPermitted
  <2>2. out = Absent
    BY <2>1 DEF CallInv, NothingBeforeFirst, Checked, Working
  <2>3. QED
    BY <2>1, <2>2, NoAccessWithout
<1>2. QED
  BY <1>1, CallHolds, PTL

-----------------------------------------------------------------------------
(* What the rules grant *)

\* Some role with the permission lists the token's user.
HasRole(in, roles, permission) ==
    HasToken(in) /\ \E role \in roles : permission \in role.permissions
                                        /\ in.tokenUserId \in role.userIds

\* The employee to be created would be the token's own.
CreatesOwn(in) ==
    \/ HasToken(in) /\ in.tokenUserId = in.employeeUserId
    \/ in.tokenUserId = Anonymous /\ in.employeeUserId = Anonymous /\ IsOwner(in)

LEMMA PermitsIsRole ==
    ASSUME NEW roles, NEW in, in.access = Compile(roles), in.access # Absent,
           NEW permission \in Permission
    PROVE  Permits(in, permission) <=> HasRole(in, roles, permission)
<1>1. in.access[permission] = UsersOf(roles, permission)
  BY DEF Compile
<1>2. \A u : u \in UsersOf(roles, permission) <=>
             \E role \in roles : permission \in role.permissions /\ u \in role.userIds
  BY DEF UsersOf
<1>3. QED
  BY <1>1, <1>2 DEF Permits, HasRole

LEMMA MayCreate ==
    ASSUME NEW roles, NEW in \in Input, in.access = Compile(roles), in.access # Absent
    PROVE  can_create_employee(in) <=> HasRole(in, roles, "create") \/ CreatesOwn(in)
<1>1. Permits(in, "create") <=> HasRole(in, roles, "create")
  BY PermitsIsRole DEF Permission
<1>2. QED
  BY <1>1, UserAssumption DEF can_create_employee, CreatesOwn, HasToken, Input

\* Who may delete an employee: its own user, a role that deletes or creates, and
\* whoever would create it for itself (evaluation.rego, can_delete_employee).
THEOREM DeletePrivilege ==
    ASSUME NEW roles, NEW in \in Input, in.access = Compile(roles), in.access # Absent
    PROVE  can_delete_employee(in) <=>
               \/ OwnEmployee(in) \/ CreatesOwn(in)
               \/ HasRole(in, roles, "delete") \/ HasRole(in, roles, "create")
<1>1. Permits(in, "delete") <=> HasRole(in, roles, "delete")
  BY PermitsIsRole DEF Permission
<1>2. QED
  BY <1>1, MayCreate DEF can_delete_employee

\* Without a token nothing is read or listed, unless the input names no user for
\* the employee (evaluation.rego, can_read_employee and user_employees).
THEOREM NoTokenNoAccess ==
    ASSUME NEW in \in Input, ~HasToken(in), in.employeeUserId # Anonymous
    PROVE  ~can_read_employee(in) /\ user_employees(in) = {}
<1>1. ASSUME NEW e \in Employee \cup {Anonymous, Absent}
      PROVE  ~can_read_employee([in EXCEPT !.employeeId = e])
  BY UserAssumption
     DEF can_read_employee, can_create_employee, can_update_employee, can_delete_employee,
         OwnEmployee, Permits, HasToken, Input
<1>2. in = [in EXCEPT !.employeeId = in.employeeId]
  BY DEF Input
<1>3. ~can_read_employee(in)
  BY <1>1, <1>2 DEF Input
<1>4. QED
  BY <1>1, <1>3 DEF user_employees, Listed

\* What a user sees of a list: all of it with any role at all or as the creator,
\* its own employees otherwise (evaluation.rego, user_employees).
THEOREM VisibleExactly ==
    ASSUME NEW roles, NEW in \in Input, in.access = Compile(roles), in.access # Absent,
           HasToken(in), in.employeeId \notin Employee
    PROVE  user_employees(in) =
               IF CreatesOwn(in) \/ \E permission \in Permission : HasRole(in, roles, permission)
               THEN Listed(in)
               ELSE {e \in Listed(in) : in.employees[e] = in.tokenUserId}
<1> DEFINE Any == CreatesOwn(in) \/ \E permission \in Permission : HasRole(in, roles, permission)
<1>1. \A permission \in Permission : Permits(in, permission) <=> HasRole(in, roles, permission)
  BY PermitsIsRole
<1>2. ~IsOwner(in)
  BY DEF IsOwner
<1>3. can_read_employee(in) <=> Any
  BY <1>1, <1>2, MayCreate
     DEF can_read_employee, can_update_employee, can_delete_employee, OwnEmployee, Permission
<1>4. ASSUME NEW e \in Listed(in), ~Any
      PROVE  can_read_employee([in EXCEPT !.employeeId = e]) <=> in.employees[e] = in.tokenUserId
  <2> DEFINE at == [in EXCEPT !.employeeId = e]
  <2>1. /\ at.tokenUserId = in.tokenUserId /\ at.employeeUserId = in.employeeUserId
        /\ at.employees = in.employees /\ at.access = in.access /\ at.employeeId = e
    BY DEF Input
  <2>2. IsOwner(at) <=> in.employees[e] = in.tokenUserId
    BY <2>1 DEF IsOwner, Listed
  <2>3. \A permission \in Permission : ~Permits(at, permission)
    BY <1>1, <1>4, <2>1 DEF Permits, HasToken
  <2>4. ~can_create_employee(at)
    BY <1>4, <2>1, <2>3, UserAssumption
       DEF can_create_employee, CreatesOwn, HasToken, Permission
  <2>5. QED
    BY <2>1, <2>2, <2>3, <2>4
       DEF can_read_employee, can_update_employee, can_delete_employee, OwnEmployee, HasToken,
           Permission
<1>5. QED
  BY <1>3, <1>4 DEF user_employees

\* More roles never take anything away: no rule denies (compile.rego).
THEOREM RolesOnlyAdd ==
    ASSUME NEW more, NEW roles \in SUBSET more, NEW in \in Input, in.access = Compile(roles),
           in.access # Absent, NEW in2 \in Input, in2 = [in EXCEPT !.access = Compile(more)],
           in2.access # Absent
    PROVE  /\ can_create_employee(in) => can_create_employee(in2)
           /\ can_delete_employee(in) => can_delete_employee(in2)
           /\ can_read_employee(in) => can_read_employee(in2)
           /\ user_employees(in) \subseteq user_employees(in2)
<1>1. \A permission \in Permission : UsersOf(roles, permission) \subseteq UsersOf(more, permission)
  BY DEF UsersOf
<1>2. \A permission \in Permission : in.access[permission] \subseteq in2.access[permission]
  BY <1>1 DEF Compile, Input
<1> DEFINE At(i, e) == [i EXCEPT !.employeeId = e]
<1>3. ASSUME NEW e
      PROVE  /\ can_create_employee(At(in, e)) => can_create_employee(At(in2, e))
             /\ can_delete_employee(At(in, e)) => can_delete_employee(At(in2, e))
             /\ can_read_employee(At(in, e)) => can_read_employee(At(in2, e))
  <2>1. /\ At(in2, e).tokenUserId = At(in, e).tokenUserId
        /\ At(in2, e).employeeUserId = At(in, e).employeeUserId
        /\ At(in2, e).employees = At(in, e).employees /\ At(in, e).access = in.access
        /\ At(in2, e).access = in2.access /\ At(in2, e).employeeId = At(in, e).employeeId
    BY DEF Input
  <2>2. \A permission \in Permission : Permits(At(in, e), permission) => Permits(At(in2, e), permission)
    BY <1>2, <2>1 DEF Permits, HasToken
  <2>3. OwnEmployee(At(in, e)) => OwnEmployee(At(in2, e))
    BY <2>1 DEF OwnEmployee, IsOwner, HasToken
  <2>4. can_create_employee(At(in, e)) => can_create_employee(At(in2, e))
    BY <2>1, <2>2 DEF can_create_employee, IsOwner, Permission
  <2>5. QED
    BY <2>2, <2>3, <2>4
       DEF can_delete_employee, can_update_employee, can_read_employee, Permission
<1>4. in = At(in, in.employeeId) /\ in2 = At(in2, in.employeeId)
  BY DEF Input
<1>5. Listed(in2) = Listed(in)
  BY DEF Listed, Input
<1>6. QED
  BY <1>3, <1>4, <1>5 DEF user_employees
=============================================================================
