-------------------------- MODULE LifecycleProofs ---------------------------
(* What holds of Lifecycle for any number of requests, every configuration  *)
(* and every environment of the cache.                                      *)
EXTENDS Lifecycle, TLAPS

Last == 9

\* Exactly the first k components are open.
OpenUpTo(k) == \A i \in 1 .. Last : state[Order[i]] = "open" <=> i <= k

\* Main opens a prefix of the list, and closes it from its end.
OpenInv ==
    /\ stage = "opening" => at \in 1 .. Last /\ OpenUpTo(at - 1)
    /\ stage = "waiting" => at = Last /\ OpenUpTo(Last)
    /\ stage = "closing" => OpenUpTo(at)
    /\ stage = "exited" => OpenUpTo(0)
    /\ stage = "killed" => \E k \in 0 .. Last : OpenUpTo(k)

\* A request finds everything opened that was to be, until main closes it.
RequestInv ==
    /\ StaleOnlyClosing
    /\ server # "off" => (stage = "opening" => at = Last)
    /\ \A r \in Req : pc[r] # "none" => server # "off"

-----------------------------------------------------------------------------
(* The list of components *)

LEMMA OrderIs ==
    /\ Len(Order) = Last
    /\ Order[1] = "logger" /\ Order[2] = "metrics" /\ Order[3] = "tracer"
    /\ Order[4] = "cache" /\ Order[5] = "sql" /\ Order[6] = "logic"
    /\ Order[7] = "policy" /\ Order[8] = "authz" /\ Order[9] = "service"
  BY DEF Order, Last

LEMMA OrderNamesAll == \A c \in Component : \E i \in 1 .. Last : Order[i] = c
  BY OrderIs DEF Component, Telemetry, Last

LEMMA OrderNamesOne ==
    \A i, j \in 1 .. Last : Order[i] = Order[j] => i = j
  BY OrderIs DEF Last

LEMMA OrderTypes == \A i \in 1 .. Last : Order[i] \in Component
  BY OrderIs DEF Component, Telemetry, Last

\* What a component uses comes before it.
LEMMA UsesEarlier ==
    ASSUME NEW i \in 1 .. Last, NEW d \in Uses(Order[i])
    PROVE  \E j \in 1 .. Last : j < i /\ Order[j] = d
<1>1. CASE i = 1
  BY <1>1, OrderIs DEF Uses, Telemetry, Last
<1>2. CASE i = 2
  BY <1>2, OrderIs DEF Uses, Telemetry, Last
<1>3. CASE i = 3
  BY <1>3, OrderIs DEF Uses, Telemetry, Last
<1>4. CASE i = 4
  BY <1>4, OrderIs DEF Uses, Telemetry, Last
<1>5. CASE i = 5
  BY <1>5, OrderIs DEF Uses, Telemetry, Last
<1>6. CASE i = 6
  BY <1>6, OrderIs DEF Uses, Telemetry, Last
<1>7. CASE i = 7
  BY <1>7, OrderIs DEF Uses, Telemetry, Last
<1>8. CASE i = 8
  BY <1>8, OrderIs DEF Uses, Telemetry, Last
<1>9. CASE i = 9
  BY <1>9, OrderIs DEF Uses, Telemetry, Last
<1>10. QED
  BY <1>1, <1>2, <1>3, <1>4, <1>5, <1>6, <1>7, <1>8, <1>9 DEF Last

-----------------------------------------------------------------------------
(* The types *)

LEMMA TypeInit == Init => TypeOK
<1> SUFFICES ASSUME Init PROVE TypeOK
  OBVIOUS
<1>1. state \in [Component -> {"new", "open", "closed"}]
      /\ pc \in [Req -> {"none", "authz", "sql", "evict"}]
  BY DEF Init
<1>2. at \in 0 .. Len(Order)
  BY OrderIs DEF Init, Last
<1>3. QED
  BY <1>1, <1>2 DEF Init, TypeOK

LEMMA TypeStep ==
    ASSUME TypeOK, OpenInv, [Next]_vars
    PROVE  TypeOK'
<1> USE OrderIs DEF TypeOK, mainVars, Last
<1>1. CASE SetupFails \/ Launch \/ Wait \/ Signal \/ ServerDies
  BY <1>1 DEF SetupFails, Launch, Wait, Signal, ServerDies
<1>2. CASE Open
  BY <1>2, OrderTypes DEF Open, OpenInv
<1>3. CASE OpenFails
  BY <1>3 DEF OpenFails, OpenInv
<1>4. CASE Close
  BY <1>4, OrderTypes DEF Close
<1>5. CASE Exit \/ LoopPanics \/ CompileLoopPanics
  BY <1>5 DEF Exit, LoopPanics, CompileLoopPanics, End
<1>6. ASSUME NEW r \in Req, Arrive(r) \/ ReqNext(r) PROVE TypeOK'
  BY <1>6 DEF Arrive, ReqNext, Authorize, Commit, Evict, StepAt
<1>7. CASE UNCHANGED vars
  BY <1>7 DEF vars
<1>8. QED
  BY <1>1, <1>2, <1>3, <1>4, <1>5, <1>6, <1>7 DEF Next, MainNext

-----------------------------------------------------------------------------
(* What is open *)

LEMMA OpenInit == Init => OpenInv
  BY OrderTypes DEF Init, OpenInv, OpenUpTo, Last

LEMMA OpenStep ==
    ASSUME TypeOK, OpenInv, [Next]_vars
    PROVE  OpenInv'
<1> USE DEF Last
<1>1. CASE Open
  <2>1. at \in 1 .. Last /\ OpenUpTo(at - 1)
    BY <1>1 DEF Open, OpenInv
  <2>2. state' = [state EXCEPT ![Order[at]] = "open"]
    BY <1>1 DEF Open
  <2>3. \A i \in 1 .. Last : state'[Order[i]] = "open" <=> i <= at
    BY <2>1, <2>2, OrderTypes, OrderNamesOne DEF OpenUpTo, TypeOK
  <2>4. (at = Last /\ stage' = "waiting" /\ at' = at)
        \/ (at < Last /\ stage' = "opening" /\ at' = at + 1)
    BY <1>1, <2>1, OrderIs DEF Open
  <2>5. QED
    BY <2>1, <2>3, <2>4 DEF OpenInv, OpenUpTo
<1>2. CASE Close
  <2>1. at \in 1 .. Last /\ OpenUpTo(at) /\ stage' = "closing" /\ at' = at - 1
    BY <1>2, OrderIs DEF Close, OpenInv, TypeOK
  <2>2. state' = [state EXCEPT ![Order[at]] = "closed"]
    BY <1>2 DEF Close
  <2>3. \A i \in 1 .. Last : state'[Order[i]] = "open" <=> i <= at - 1
    <3> SUFFICES ASSUME NEW i \in 1 .. Last PROVE state'[Order[i]] = "open" <=> i <= at - 1
      OBVIOUS
    <3>1. Order[i] = Order[at] <=> i = at
      BY <2>1, OrderNamesOne
    <3>2. state[Order[i]] = "open" <=> i <= at
      BY <2>1 DEF OpenUpTo
    <3>3. Order[i] \in Component /\ state \in [Component -> {"new", "open", "closed"}]
      BY OrderTypes DEF TypeOK
    <3>4. QED
      BY <2>1, <2>2, <3>1, <3>2, <3>3
  <2>4. QED
    BY <2>1, <2>3 DEF OpenInv, OpenUpTo
<1>3. CASE SetupFails \/ OpenFails \/ Wait
  <2>1. CASE SetupFails
    BY <2>1 DEF SetupFails, OpenInv, OpenUpTo
  <2>2. CASE OpenFails
    BY <2>2 DEF OpenFails, OpenInv, OpenUpTo
  <2>3. CASE Wait
    BY <2>3 DEF Wait, OpenInv, OpenUpTo
  <2>4. QED
    BY <1>3, <2>1, <2>2, <2>3
<1>4. CASE Exit
  BY <1>4 DEF Exit, End, OpenInv, OpenUpTo
<1>5. CASE LoopPanics \/ CompileLoopPanics
  <2>1. stage' = "killed" /\ state' = state
    BY <1>5 DEF LoopPanics, CompileLoopPanics, End
  <2>2. \E k \in 0 .. Last : OpenUpTo(k)
    BY <1>5, OrderIs DEF LoopPanics, CompileLoopPanics, Opening, OpenInv, TypeOK
  <2>3. QED
    BY <2>1, <2>2 DEF OpenInv, OpenUpTo
<1>6. CASE UNCHANGED <<stage, at, state>>
  BY <1>6 DEF OpenInv, OpenUpTo
<1>7. CASE Launch \/ Signal \/ ServerDies \/ (\E r \in Req : Arrive(r) \/ ReqNext(r)) \/ UNCHANGED vars
  BY <1>6, <1>7
     DEF Launch, Signal, ServerDies, Arrive, ReqNext, Authorize, Commit, Evict, StepAt, mainVars, vars
<1>8. QED
  BY <1>1, <1>2, <1>3, <1>4, <1>5, <1>7 DEF Next, MainNext

LEMMA OpenHolds == Spec => [](TypeOK /\ OpenInv)
<1>1. TypeOK /\ OpenInv /\ [Next]_vars => (TypeOK /\ OpenInv)'
  BY TypeStep, OpenStep
<1>2. QED
  BY TypeInit, OpenInit, <1>1, PTL DEF Spec

\* The variables keep their types: main never opens or closes beyond the ends of
\* its list (main.go:115-125, 136-141).
THEOREM TypeCorrect == Spec => []TypeOK
  BY OpenHolds, PTL

LEMMA PrefixSuffices == ASSUME NEW k \in Int, OpenUpTo(k) PROVE UsesOpen
<1> SUFFICES ASSUME NEW c \in Component, state[c] = "open", NEW d \in Uses(c)
             PROVE  state[d] = "open"
  BY DEF UsesOpen
<1>1. PICK i \in 1 .. Last : Order[i] = c
  BY OrderNamesAll
<1>2. i <= k
  BY <1>1 DEF OpenUpTo
<1>3. PICK j \in 1 .. Last : j < i /\ Order[j] = d
  BY <1>1, UsesEarlier
<1>4. QED
  BY <1>2, <1>3 DEF OpenUpTo, Last

\* A component is open only while all it uses is open (main.go:115-125, 136-141).
THEOREM OpenWhileUsed == Spec => []UsesOpen
<1>1. TypeOK /\ OpenInv => \E k \in Int : OpenUpTo(k)
  BY OrderIs DEF TypeOK, OpenInv, Last
<1>2. TypeOK /\ OpenInv => UsesOpen
  BY <1>1, PrefixSuffices
<1>3. QED
  BY <1>2, OpenHolds, PTL

\* Whatever was opened is closed before the process exits (main.go:136-141).
THEOREM EverythingClosed == Spec => []AllClosed
<1>1. OpenInv => AllClosed
  BY OrderNamesAll DEF OpenInv, AllClosed, OpenUpTo, Last
<1>2. QED
  BY <1>1, OpenHolds, PTL

-----------------------------------------------------------------------------
(* Requests *)

LEMMA RequestInit == Init => RequestInv
  BY DEF Init, RequestInv, StaleOnlyClosing

LEMMA RequestStep ==
    ASSUME TypeOK, OpenInv, RequestInv, [Next]_vars
    PROVE  RequestInv'
<1> USE DEF RequestInv, StaleOnlyClosing, mainVars, TypeOK
<1>1. CASE SetupFails \/ Wait \/ Signal \/ ServerDies \/ OpenFails \/ Close
  BY <1>1 DEF SetupFails, Wait, Signal, ServerDies, OpenFails, Close
<1>2. CASE Launch
  <2>1. at = Last
    BY <1>2, OrderIs, OrderNamesOne DEF Launch, Opening, OpenInv, Last
  <2>2. QED
    BY <1>2, <2>1 DEF Launch
<1>3. CASE Open
  BY <1>3, OrderIs DEF Open, OpenInv, Last
<1>4. CASE Exit \/ LoopPanics \/ CompileLoopPanics
  BY <1>4 DEF Exit, LoopPanics, CompileLoopPanics, End
<1>5. ASSUME NEW r \in Req, Arrive(r) \/ Authorize(r) \/ Commit(r) PROVE RequestInv'
  BY <1>5 DEF Arrive, Authorize, Commit, StepAt
<1>6. ASSUME NEW r \in Req, Evict(r) PROVE RequestInv'
  <2>1. stage = "opening" => at = Last
    BY <1>6 DEF Evict, StepAt
  <2>2. stage \in {"opening", "waiting"} => state["cache"] = "open"
    BY <2>1, OrderIs DEF OpenInv, OpenUpTo, Last
  <2>3. QED
    BY <1>6, <2>2 DEF Evict, StepAt
<1>7. CASE UNCHANGED vars
  BY <1>7 DEF vars
<1>8. QED
  BY <1>1, <1>2, <1>3, <1>4, <1>5, <1>6, <1>7 DEF Next, MainNext, ReqNext

\* Whoever commits finds the cache open, until main closes it or a panic kills the
\* process (main.go:115-125 opens the server last).
THEOREM LostOnlyClosing == Spec => []StaleOnlyClosing
<1>1. TypeOK /\ OpenInv /\ RequestInv /\ [Next]_vars => RequestInv'
  BY RequestStep
<1>2. RequestInv => StaleOnlyClosing
  BY DEF RequestInv
<1>3. QED
  BY RequestInit, <1>1, <1>2, OpenHolds, PTL DEF Spec

-----------------------------------------------------------------------------
(* The tickers *)

\* Which configured tickers have no positive interval, and where they panic.
LEMMA TickerPanics ==
    ASSUME NEW e \in Settings,
           \/ ~TickersStart(Configured(e))
           \/ Launched(Configured(e)) # {} /\ LockTickerPanics(Configured(e))
    PROVE  \/ e.inProgress = "true" /\ e.pruneInterval # "positive"
           \/ /\ e.mutexRetryInterval = "unparsable" /\ e.mutexDisabled # "true"
              /\ "true" \in {e.inProgress, e.notFound}
<1>1. \A f \in Flags : Configured(e)[f] = "true" <=> e[f] = "true"
  BY DEF Configured, Flags, Numbers
<1>2. /\ Configured(e)["notFoundPruneInterval"] = "positive"
      /\ Configured(e)["pruneInterval"] = "positive" <=> e["pruneInterval"] = "positive"
      /\ Configured(e)["mutexRetryInterval"] = "positive"
           <=> e["mutexRetryInterval"] # "unparsable"
  BY DEF Configured, Flags, Numbers
<1>3. QED
  BY <1>1, <1>2
     DEF TickersStart, Launched, LockTickerPanics, Interval, Settings, Flags

\* A prune loop kills the process only for two kinds of environment, and nothing
\* else does but the compile loop of an authz that failed to open
\* (redis.go:249-300, 320-322, authz.go:294-299).
THEOREM TickersLiveOn == Spec => []TickersLive
<1>1. Init => TickersLive
  BY DEF Init, TickersLive
<1>2. TypeOK /\ TickersLive /\ [Next]_vars => TickersLive'
  <2> SUFFICES ASSUME TypeOK, TickersLive, [Next]_vars PROVE TickersLive'
    OBVIOUS
  <2>1. cacheEnv' = cacheEnv
    BY DEF Next, MainNext, SetupFails, Launch, Open, OpenFails, Wait, Close, Exit, LoopPanics,
           CompileLoopPanics, End, Signal, ServerDies, Arrive, ReqNext, Authorize, Commit, Evict, StepAt, mainVars, vars
  <2>2. CASE LoopPanics
    BY <2>1, <2>2, TickerPanics, LifecycleAssumption
       DEF LoopPanics, CacheConfig, TickersLive, TypeOK
  <2>3. CASE CompileLoopPanics
    BY <2>3 DEF CompileLoopPanics, Orphaned, End, TickersLive
  <2>4. CASE UNCHANGED <<state, config>> /\ stage' = stage
    BY <2>1, <2>4 DEF TickersLive, Orphaned
  <2>5. CASE ~LoopPanics /\ ~CompileLoopPanics
    <3>1. CASE SetupFails \/ Open \/ OpenFails \/ Wait \/ Close \/ Exit
      <4>1. stage' # "killed"
        BY <3>1 DEF SetupFails, Open, OpenFails, Wait, Close, Exit, End
      <4>2. QED
        BY <4>1 DEF TickersLive
    <3>2. CASE Launch \/ Signal \/ ServerDies \/ (\E r \in Req : Arrive(r) \/ ReqNext(r))
               \/ UNCHANGED vars
      <4>1. UNCHANGED <<state, config>> /\ stage' = stage
        BY <3>2 DEF Launch, Signal, ServerDies, Arrive, ReqNext, Authorize, Commit, Evict, StepAt,
                    mainVars, vars
      <4>2. QED
        BY <2>4, <4>1
    <3>3. QED
      BY <2>5, <3>1, <3>2 DEF Next, MainNext
  <2>6. QED
    BY <2>2, <2>3, <2>5
<1>3. QED
  BY <1>1, <1>2, OpenHolds, PTL DEF Spec
=============================================================================
