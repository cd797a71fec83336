-------------------------- MODULE HttpServiceProofs --------------------------
(* What holds of HttpService for any number of requests of any operations. *)
EXTENDS HttpService, FiniteSetTheorems, TLAPS

One(condition) == IF condition THEN 1 ELSE 0

\* Requests between the increment of an instrument and what offsets it.
ActivePc == {"entered", "handle", "answered", "counted", "unwound"}
UnendedPc == {"handle", "answered", "unwound", "recover"}
UnmeasuredPc == {"handle", "answered", "counted", "unwound", "recover", "observe"}
Tally(pcs) == Cardinality(At(pcs))

Succeeded(r) ==
    /\ req[r].pc \in {"counted", "observe", "done"} /\ req[r].outcome # Panic
    /\ Succeeds(req[r].status)
Successes == {r \in Request : Succeeded(r)}

\* The instruments are what the requests that are under way have done to them.
Balanced ==
    /\ counter["inFlight"] = Tally(ActivePc)
    /\ counter["total"] - counter["success"] - counter["failed"] - counter["panics"]
         = Tally(UnendedPc)
    /\ counter["total"] - counter["durations"] = Tally(UnmeasuredPc)
    /\ counter["success"] = Cardinality(Successes)

\* What a request's answer tells of its outcome.
RequestOK(r) ==
    /\ req[r].outcome = Pending <=> req[r].pc \in {"none", "arrived", "entered", "handle"}
    /\ req[r].outcome = Pending => req[r].status = 0 /\ req[r].bytes = 0
    /\ req[r].outcome = Panic => req[r].status = 0 /\ req[r].bytes = 0
    /\ req[r].outcome \in Error => req[r].status \in {404, 500}
    /\ req[r].pc \in {"unwound", "recover"} => req[r].outcome = Panic
    /\ req[r].pc \in {"answered", "counted"} => req[r].outcome # Panic

RequestsOK == \A r \in Request : RequestOK(r)

HttpInv == TypeOK /\ RequestsOK /\ ClientNotMisled

-----------------------------------------------------------------------------
(* The requests *)

LEMMA OutcomeKinds ==
    /\ Ok \notin Error /\ Panic \notin Error /\ Pending \notin Error
    /\ Ok # Panic /\ Ok # Pending /\ Panic # Pending
  BY DEF Error, Ok, Panic, Pending, Ended

LEMMA OutcomesOf ==
    ASSUME NEW op \in Op, NEW outcome \in Outcomes(op)
    PROVE  outcome \in {Ok, Panic} \/ (outcome \in Error /\ ErrorAnswer(outcome).status \in {404, 500})
<1>1. outcome \in {Ok, Panic, Value("notFound")} \cup Refusals
  BY DEF Outcomes, Refusals, Other, Value, Pointer
<1>2. outcome \in {Ok, Panic} \/ outcome \in {Value("notFound")} \cup Refusals
  BY <1>1
<1>3. ASSUME outcome \in {Value("notFound")} \cup Refusals
      PROVE  outcome \in Error /\ ErrorAnswer(outcome).status \in {404, 500}
  <2>1. outcome \in Error
    BY <1>3 DEF Refusals, Value, Pointer, Other, Error, ErrorType
  <2>2. Answer(404, "notFound").status = 404 /\ \A t : Answer(500, t).status = 500
    BY DEF Answer
  <2>3. outcome.type # "retry"
    BY <1>3 DEF Refusals, Value, Pointer, Other
  <2>4. ~Is(outcome, "retry")
    BY <2>3 DEF Is
  <2>5. AsCommon(outcome) \in {"none", "unknown", "notFound", "unauthorized"}
    BY <1>3 DEF Refusals, Value, Pointer, Other, AsCommon
  <2>6. Typed(outcome) => AsCommon(outcome) # "unauthorized"
    BY DEF Typed, AsCommon, Is
  <2>7. Typed(outcome) /\ AsCommon(outcome) # "none" =>
            errorTypeToStatusCode(AsCommon(outcome)) \in {404, 500}
    BY <2>5, <2>6 DEF errorTypeToStatusCode
  <2>8. QED
    BY <2>1, <2>4, <2>7 DEF ErrorAnswer, Answer
<1>4. QED
  BY <1>2, <1>3

LEMMA HttpInit == Init => HttpInv
  BY OutcomeKinds
     DEF Init, HttpInv, TypeOK, RequestsOK, RequestOK, ClientNotMisled, Unsent, Asks, Pc, Op, Outcome,
         Instrument

LEMMA FreshStep ==
    ASSUME HttpInv, NEW r \in Request, Send(r) \/ SendOther(r)
    PROVE  HttpInv'
<1>1. PICK op \in Op, length \in -1 .. 1 :
          req' = [req EXCEPT ![r] = Asks("arrived", op, length)]
  BY HttpAssumption DEF Send, SendOther, ClientOp
<1>2. client' = client \/ client' = [client EXCEPT ![r] = "waiting"]
  BY DEF Send, SendOther
<1>3. client[r] = "none" /\ counter' = counter
  BY DEF Send, SendOther, Fresh
<1>4. TypeOK'
  BY <1>1, <1>2, <1>3 DEF HttpInv, TypeOK, Asks, Pc, Outcome
<1>5. RequestsOK'
  BY <1>1, OutcomeKinds DEF HttpInv, TypeOK, RequestsOK, RequestOK, Asks
<1>6. ClientNotMisled'
  BY <1>1, <1>2, <1>3 DEF HttpInv, TypeOK, ClientNotMisled
<1>7. QED
  BY <1>4, <1>5, <1>6 DEF HttpInv

LEMMA ClientStep ==
    ASSUME HttpInv, NEW r \in Request, SendFails(r) \/ GiveUp(r) \/ AnswerArrives(r)
    PROVE  HttpInv'
<1> USE DEF HttpInv, TypeOK
<1>1. UNCHANGED <<req, counter>>
  BY DEF SendFails, GiveUp, AnswerArrives
<1>2. PICK result \in {"ok", "error", "timeout"} : client' = [client EXCEPT ![r] = result]
  BY DEF SendFails, GiveUp, AnswerArrives
<1>3. ASSUME result = "ok"
      PROVE  req[r].outcome = Ok \/ (req[r].outcome = Panic /\ req[r].op \notin Decoded)
  <2>1. AnswerArrives(r)
    BY <1>2, <1>3 DEF SendFails, GiveUp
  <2>2. Answered(r) /\ Succeeds(WireStatus(r)) /\ (req[r].op \in Decoded => req[r].bytes > 0)
    BY <1>2, <1>3, <2>1 DEF AnswerArrives
  <2>3. RequestOK(r) /\ req[r].outcome \in Error \cup {Ok, Panic, Pending}
    BY DEF RequestsOK, Outcome
  <2>4. req[r].outcome # Pending
    BY <2>2, <2>3 DEF Answered, RequestOK
  <2>5. req[r].outcome \notin Error
    BY <2>2, <2>3 DEF RequestOK, WireStatus, Succeeds
  <2>6. req[r].outcome = Panic => req[r].op \notin Decoded
    BY <2>2, <2>3 DEF RequestOK
  <2>7. QED
    BY <2>3, <2>4, <2>5, <2>6
<1>4. ClientNotMisled'
  BY <1>1, <1>2, <1>3 DEF ClientNotMisled
<1>5. QED
  BY <1>1, <1>2, <1>4 DEF RequestsOK, RequestOK

LEMMA HandleStep ==
    ASSUME HttpInv, NEW r \in Request, Handle(r)
    PROVE  HttpInv'
<1> USE DEF HttpInv, TypeOK
<1>1. PICK outcome \in Outcomes(req[r].op) :
          req' = [req EXCEPT ![r] =
              IF outcome = Panic THEN Ends(req[r], "unwound", outcome, 0, 0)
              ELSE Ends(req[r], "answered", outcome, Status(req[r].op, outcome),
                        IF req[r].op = "notAllowed" THEN 0 ELSE 1)]
  BY DEF Handle
<1>2. req[r].pc = "handle" /\ UNCHANGED <<client, counter>>
  BY DEF Handle
<1>3. outcome \in {Ok, Panic} \/ (outcome \in Error /\ ErrorAnswer(outcome).status \in {404, 500})
  BY OutcomesOf
<1>4. RequestOK(r) /\ req[r].outcome = Pending
  BY <1>2 DEF RequestsOK, RequestOK
<1>5. /\ outcome \in Error => Status(req[r].op, outcome) \in {404, 500}
      /\ outcome = Ok => Status(req[r].op, outcome) \in {0, 200, 405}
  BY <1>3, OutcomeKinds DEF Status
<1>6. TypeOK'
  <2>1. req[r].op \in Op /\ req[r].length \in -1 .. 1
    OBVIOUS
  <2>2. outcome = Panic => TypeOK'
    BY <1>1, <1>2, <2>1 DEF Outcome, Pc, Ends
  <2>3. outcome # Panic =>
            outcome \in Outcome /\ Status(req[r].op, outcome) \in {0, 200, 404, 405, 500}
    BY <1>3, <1>5 DEF Outcome
  <2>4. outcome # Panic => TypeOK'
    BY <1>1, <1>2, <2>1, <2>3 DEF Pc, Ends
  <2>5. QED
    BY <2>2, <2>4
<1>7. \A s \in Request \ {r} : req'[s] = req[s]
  BY <1>1
<1>8. RequestOK(r)'
  BY <1>1, <1>3, <1>4, <1>5, OutcomeKinds DEF RequestOK, Ends
<1>9. RequestsOK'
  BY <1>7, <1>8 DEF RequestsOK, RequestOK
<1>10. client[r] # "ok"
  BY <1>4, OutcomeKinds DEF ClientNotMisled
<1>11. ClientNotMisled'
  BY <1>2, <1>7, <1>10 DEF ClientNotMisled
<1>12. QED
  BY <1>6, <1>9, <1>11

\* The steps of the middleware move a request on.
Passes(r, p, q) == req[r].pc = p /\ req' = [req EXCEPT ![r].pc = q] /\ client' = client

LEMMA PassStep ==
    ASSUME HttpInv, NEW r \in Request, NEW p \in Pc, NEW q \in Pc, Passes(r, p, q),
           counter' \in [Instrument -> Int],
           <<p, q>> \in {<<"arrived", "entered">>, <<"entered", "handle">>,
                         <<"answered", "counted">>, <<"counted", "observe">>,
                         <<"unwound", "recover">>, <<"recover", "observe">>,
                         <<"observe", "done">>}
    PROVE  HttpInv'
<1> USE DEF HttpInv, TypeOK, Passes
<1>1. TypeOK'
  OBVIOUS
<1>2. /\ \A s \in Request \ {r} : req'[s] = req[s]
      /\ req'[r] = [req[r] EXCEPT !.pc = q]
  OBVIOUS
<1>3. RequestOK(r)'
  BY <1>2 DEF RequestsOK, RequestOK
<1>4. RequestsOK'
  BY <1>2, <1>3 DEF RequestsOK, RequestOK
<1>5. ClientNotMisled'
  BY <1>2 DEF ClientNotMisled
<1>6. QED
  BY <1>1, <1>4, <1>5

LEMMA PlusType ==
    ASSUME NEW c \in [Instrument -> Int], NEW i \in Instrument, NEW n \in Int
    PROVE  Plus(c, i, n) \in [Instrument -> Int]
  BY DEF Plus

LEMMA HttpSteps == HttpInv /\ [Next]_vars => HttpInv'
<1> SUFFICES ASSUME HttpInv, [Next]_vars PROVE HttpInv'
  OBVIOUS
<1>1. ASSUME NEW r \in Request,
             Enter(r) \/ Count(r) \/ CountAnswer(r) \/ Leave(r) \/ Recover(r) \/ Observe(r)
      PROVE  HttpInv'
  <2>1. counter' \in [Instrument -> Int]
    <3> USE DEF HttpInv, TypeOK
    <3>1. CASE Enter(r) \/ Leave(r) \/ Recover(r) \/ Observe(r)
      BY <3>1 DEF Enter, Leave, Recover, Observe, UpDown, Add, Record, Plus
    <3>2. CASE Count(r)
      <4>1. req[r].length \in Int
        OBVIOUS
      <4>2. Plus(counter, "total", 1) \in [Instrument -> Int]
        <5>1. "total" \in Instrument /\ 1 \in Int
          BY DEF Instrument
        <5>2. QED
          BY <5>1, PlusType
      <4>3. Plus(Plus(counter, "total", 1), "requestBytes", req[r].length) \in [Instrument -> Int]
        BY <4>1, <4>2, PlusType DEF Instrument
      <4>4. QED
        BY <3>2, <4>3 DEF Count
    <3>3. CASE CountAnswer(r)
      <4>1. req[r].bytes \in Int
        OBVIOUS
      <4>2. Plus(counter, "responseBytes", req[r].bytes) \in [Instrument -> Int]
        BY <4>1, PlusType DEF Instrument
      <4>3. \A i \in Instrument :
               Plus(Plus(counter, "responseBytes", req[r].bytes), i, 1) \in [Instrument -> Int]
        BY <4>2, PlusType
      <4>4. QED
        BY <3>3, <4>3 DEF CountAnswer, Instrument
    <3>4. QED
      BY <1>1, <3>1, <3>2, <3>3
  <2> USE DEF Passes, From, Pc
  <2>2. CASE Enter(r)
    BY <2>1, <2>2, PassStep DEF Enter
  <2>3. CASE Count(r)
    BY <2>1, <2>3, PassStep DEF Count
  <2>4. CASE CountAnswer(r)
    BY <2>1, <2>4, PassStep DEF CountAnswer
  <2>5. CASE Leave(r)
    BY <2>1, <2>5, PassStep DEF Leave
  <2>6. CASE Recover(r)
    BY <2>1, <2>6, PassStep DEF Recover
  <2>7. CASE Observe(r)
    BY <2>1, <2>7, PassStep DEF Observe
  <2>8. QED
    BY <1>1, <2>2, <2>3, <2>4, <2>5, <2>6, <2>7
<1>2. CASE UNCHANGED vars
  BY <1>2 DEF HttpInv, TypeOK, RequestsOK, RequestOK, ClientNotMisled, vars
<1>3. QED
  BY <1>1, <1>2, FreshStep, ClientStep, HandleStep DEF Next

LEMMA HttpHolds == Spec => []HttpInv
  BY HttpInit, HttpSteps, PTL DEF Spec

\* The variables keep their types: the statuses are those handleResponse writes
\* (execution.go:51-96).
THEOREM TypeCorrect == Spec => []TypeOK
<1>1. HttpInv => TypeOK
  BY DEF HttpInv
<1>2. QED
  BY <1>1, HttpHolds, PTL

\* A client told of success was served, except by a panicking endpoint whose
\* answer needs no decoding (client.go:118-146).
THEOREM NotMisled == Spec => []ClientNotMisled
<1>1. HttpInv => ClientNotMisled
  BY DEF HttpInv
<1>2. QED
  BY <1>1, HttpHolds, PTL

-----------------------------------------------------------------------------
(* The instruments *)

\* A set that changes by one element changes its size by one.
LEMMA CardChange ==
    ASSUME NEW A, IsFiniteSet(A), NEW B, NEW x, A \ {x} = B \ {x}
    PROVE  /\ Cardinality(A) \in Nat /\ Cardinality(B) \in Nat
           /\ Cardinality(B) = Cardinality(A) + One(x \in B) - One(x \in A)
<1>1. Cardinality(A) \in Nat
  BY FS_CardinalityType
<1>2. CASE x \in B /\ x \notin A
  <2>1. B = A \cup {x}
    BY <1>2
  <2>2. Cardinality(B) = Cardinality(A) + 1
    BY <1>2, <2>1, FS_AddElement
  <2>3. QED
    BY <1>1, <1>2, <2>2 DEF One
<1>3. CASE x \notin B /\ x \in A
  <2>1. B = A \ {x}
    BY <1>3
  <2>2. Cardinality(B) = Cardinality(A) - 1 /\ IsFiniteSet(B)
    BY <1>3, <2>1, FS_RemoveElement
  <2>3. Cardinality(B) \in Nat
    BY <2>2, FS_CardinalityType
  <2>4. QED
    BY <1>1, <1>3, <2>2, <2>3 DEF One
<1>4. CASE x \in A <=> x \in B
  <2>1. B = A
    BY <1>4
  <2>2. QED
    BY <1>1, <1>4, <2>1 DEF One
<1>5. QED
  BY <1>2, <1>3, <1>4

LEMMA AtFinite == ASSUME NEW pcs PROVE IsFiniteSet(At(pcs)) /\ Tally(pcs) \in Nat
  BY HttpAssumption, FS_Subset, FS_CardinalityType DEF At, Tally

LEMMA TallyChange ==
    ASSUME NEW r \in Request, \A s \in Request \ {r} : req'[s] = req[s], NEW pcs
    PROVE  Tally(pcs)' = Tally(pcs) + One(req'[r].pc \in pcs) - One(req[r].pc \in pcs)
<1>1. At(pcs) \ {r} = At(pcs)' \ {r}
  BY DEF At
<1>2. (r \in At(pcs) <=> req[r].pc \in pcs) /\ (r \in At(pcs)' <=> req'[r].pc \in pcs)
  BY DEF At
<1>3. IsFiniteSet(At(pcs))
  BY AtFinite
<1>4. Cardinality(At(pcs)') = Cardinality(At(pcs)) + One(r \in At(pcs)') - One(r \in At(pcs))
  BY <1>1, <1>3, CardChange
<1>5. QED
  BY <1>2, <1>4 DEF Tally, One

LEMMA SuccessChange ==
    ASSUME NEW r \in Request, \A s \in Request \ {r} : req'[s] = req[s]
    PROVE  Cardinality(Successes') = Cardinality(Successes) + One(Succeeded(r)') - One(Succeeded(r))
<1>1. Successes \ {r} = Successes' \ {r}
  BY DEF Successes, Succeeded
<1>2. (r \in Successes <=> Succeeded(r)) /\ (r \in Successes' <=> Succeeded(r)')
  BY DEF Successes
<1>3. IsFiniteSet(Successes)
  BY HttpAssumption, FS_Subset DEF Successes
<1>4. Cardinality(Successes') = Cardinality(Successes) + One(r \in Successes') - One(r \in Successes)
  BY <1>1, <1>3, CardChange
<1>5. QED
  BY <1>2, <1>4 DEF One

LEMMA BalancedInit == Init => Balanced
<1> SUFFICES ASSUME Init PROVE Balanced
  OBVIOUS
<1>1. At(ActivePc) = {} /\ At(UnendedPc) = {} /\ At(UnmeasuredPc) = {} /\ Successes = {}
  BY DEF Init, At, ActivePc, UnendedPc, UnmeasuredPc, Successes, Succeeded, Unsent, Asks
<1>2. \A i \in Instrument : counter[i] = 0
  BY DEF Init
<1>3. Cardinality({}) = 0
  BY FS_EmptySet
<1>4. QED
  BY <1>1, <1>2, <1>3 DEF Balanced, Tally, Instrument

\* What the steps that count do, and that they keep the balance.
LEMMA BalancedByRequest ==
    ASSUME HttpInv, HttpInv', Balanced, NEW r \in Request,
           \/ Send(r) \/ SendOther(r) \/ Enter(r) \/ Count(r) \/ Handle(r) \/ CountAnswer(r)
           \/ Leave(r) \/ Recover(r) \/ Observe(r)
    PROVE  Balanced'
<1> USE DEF HttpInv, TypeOK, From
<1>1. \A s \in Request \ {r} : req'[s] = req[s]
  <2>1. CASE Send(r) \/ SendOther(r) \/ Handle(r)
    BY <2>1 DEF Send, SendOther, Handle
  <2>2. CASE Enter(r) \/ Count(r) \/ CountAnswer(r) \/ Leave(r) \/ Recover(r) \/ Observe(r)
    BY <2>2 DEF Enter, Count, CountAnswer, Leave, Recover, Observe
  <2>3. QED
    BY <2>1, <2>2
<1>2. \A pcs : Tally(pcs) \in Nat
  BY AtFinite
<1>3. Cardinality(Successes) \in Nat
  BY HttpAssumption, FS_Subset, FS_CardinalityType DEF Successes
<1> DEFINE Delta(pcs) == One(req'[r].pc \in pcs) - One(req[r].pc \in pcs)
<1>4. /\ Tally(ActivePc)' = Tally(ActivePc) + Delta(ActivePc)
      /\ Tally(UnendedPc)' = Tally(UnendedPc) + Delta(UnendedPc)
      /\ Tally(UnmeasuredPc)' = Tally(UnmeasuredPc) + Delta(UnmeasuredPc)
  <2>1. \A pcs : Tally(pcs)' = Tally(pcs) + One(req'[r].pc \in pcs) - One(req[r].pc \in pcs)
    BY <1>1, TallyChange
  <2>2. \A pcs : One(req'[r].pc \in pcs) \in Nat /\ One(req[r].pc \in pcs) \in Nat
    BY DEF One
  <2>3. QED
    BY <1>2, <2>1, <2>2
<1>5. Cardinality(Successes') = Cardinality(Successes) + (One(Succeeded(r)') - One(Succeeded(r)))
  BY <1>1, <1>3, SuccessChange DEF One
<1>a. counter \in [Instrument -> Int] /\ counter' \in [Instrument -> Int]
  OBVIOUS
<1>6. /\ counter'["inFlight"] = counter["inFlight"] + Delta(ActivePc)
      /\ counter'["total"] - counter'["success"] - counter'["failed"] - counter'["panics"]
           = counter["total"] - counter["success"] - counter["failed"] - counter["panics"]
             + Delta(UnendedPc)
      /\ counter'["total"] - counter'["durations"]
           = counter["total"] - counter["durations"] + Delta(UnmeasuredPc)
      /\ counter'["success"] = counter["success"] + (One(Succeeded(r)') - One(Succeeded(r)))
  <2> USE DEF One, ActivePc, UnendedPc, UnmeasuredPc, Succeeded, Instrument
  <2> HIDE DEF From
  <2>a. ASSUME NEW p \in Pc, NEW q \in Pc, From(r, p, q)
        PROVE  /\ req[r].pc = p /\ req'[r].pc = q
               /\ req'[r].outcome = req[r].outcome /\ req'[r].status = req[r].status
    BY <2>a DEF From
  <2>b. \A i \in Instrument : counter[i] \in Int
    BY <1>a
  <2>1. CASE Send(r) \/ SendOther(r)
    BY <2>1 DEF Send, SendOther, Fresh, Asks
  <2>2. CASE Enter(r)
    BY <2>2, <2>a DEF Plus, Enter, UpDown, Pc
  <2>3. CASE Count(r)
    <3>1. req[r].length \in Int /\ req[r].pc = "entered" /\ req'[r].pc = "handle"
      BY <2>3, <2>a DEF Count, Pc
    <3>2. counter' = Plus(Plus(counter, "total", 1), "requestBytes", req[r].length)
      BY <2>3 DEF Count
    <3>3. \A i \in Instrument \ {"requestBytes"} :
             counter'[i] = IF i = "total" THEN counter[i] + 1 ELSE counter[i]
      BY <3>1, <3>2 DEF Plus
    <3> HIDE DEF HttpInv, TypeOK
    <3>4. Succeeded(r)' = Succeeded(r)
      BY <3>1
    <3> HIDE DEF Succeeded
    <3>5. QED
      BY <2>b, <3>1, <3>3, <3>4
  <2>4. CASE Handle(r)
    <3>1. req[r].pc = "handle" /\ req'[r].pc \in {"unwound", "answered"} /\ counter' = counter
      BY <2>4 DEF Handle, Ends
    <3>2. QED
      BY <3>1
  <2>5. CASE CountAnswer(r)
    <3>1. req[r].pc = "answered" /\ req'[r].pc = "counted" /\ req'[r].outcome = req[r].outcome
          /\ req'[r].status = req[r].status /\ req[r].bytes \in Int
      BY <2>5, <2>a DEF CountAnswer, Pc
    <3>2. req[r].outcome # Panic
      BY <3>1 DEF RequestsOK, RequestOK
    <3> DEFINE ending == IF Succeeds(req[r].status) THEN "success" ELSE "failed"
    <3>3. \A i \in Instrument \ {"responseBytes"} :
             counter'[i] = IF i = ending THEN counter[i] + 1 ELSE counter[i]
      BY <2>5, <3>1 DEF Plus, CountAnswer
    <3>4. QED
      BY <2>b, <3>1, <3>2, <3>3
  <2>6. CASE Leave(r)
    <3>1. \/ req[r].pc = "counted"
          \/ req[r].pc = "unwound" /\ req[r].outcome = Panic
      BY <2>6, <2>a DEF Leave, RequestsOK, RequestOK, Pc
    <3>2. /\ req[r].pc = "counted" => req'[r].pc = "observe"
          /\ req[r].pc = "unwound" => req'[r].pc = "recover"
          /\ req'[r].outcome = req[r].outcome /\ req'[r].status = req[r].status
      BY <2>6, <2>a DEF Leave, Pc
    <3>3. \A i \in Instrument : counter'[i] = IF i = "inFlight" THEN counter[i] - 1 ELSE counter[i]
      BY <2>6 DEF Plus, Leave, UpDown
    <3>4. QED
      BY <2>b, <3>1, <3>2, <3>3
  <2>7. CASE Recover(r)
    <3>1. /\ req[r].pc = "recover" /\ req'[r].pc = "observe"
          /\ req'[r].outcome = req[r].outcome
      BY <2>7, <2>a DEF Recover, Pc
    <3>2. req[r].outcome = Panic
      BY <3>1 DEF RequestsOK, RequestOK
    <3>3. \A i \in Instrument : counter'[i] = IF i = "panics" THEN counter[i] + 1 ELSE counter[i]
      BY <2>7 DEF Plus, Recover, Add
    <3> HIDE DEF HttpInv, TypeOK
    <3>4. Succeeded(r)' = Succeeded(r)
      BY <3>1, <3>2
    <3> HIDE DEF Succeeded
    <3>5. QED
      BY <2>b, <3>1, <3>3, <3>4
  <2>8. CASE Observe(r)
    <3>1. /\ req[r].pc = "observe" /\ req'[r].pc = "done"
          /\ req'[r].outcome = req[r].outcome /\ req'[r].status = req[r].status
      BY <2>8, <2>a DEF Observe, Pc
    <3>2. \A i \in Instrument : counter'[i] = IF i = "durations" THEN counter[i] + 1 ELSE counter[i]
      BY <2>8 DEF Plus, Observe, Record
    <3> HIDE DEF HttpInv, TypeOK
    <3>3. Succeeded(r)' = Succeeded(r)
      BY <3>1
    <3> HIDE DEF Succeeded
    <3>4. QED
      BY <2>b, <3>1, <3>2, <3>3
  <2>9. QED
    BY <2>1, <2>2, <2>3, <2>4, <2>5, <2>6, <2>7, <2>8
<1>7. Delta(ActivePc) \in Int /\ Delta(UnendedPc) \in Int /\ Delta(UnmeasuredPc) \in Int
  BY DEF One
<1>8. QED
  BY <1>2, <1>3, <1>4, <1>5, <1>6, <1>7, <1>a DEF Balanced, Instrument

LEMMA BalancedByClient ==
    ASSUME Balanced, UNCHANGED <<req, counter>>
    PROVE  Balanced'
  BY DEF Balanced, Tally, At, Successes, Succeeded

LEMMA BalancedAlways == Spec => [](HttpInv /\ Balanced)
<1>1. HttpInv /\ HttpInv' /\ Balanced /\ [Next]_vars => Balanced'
  <2> SUFFICES ASSUME HttpInv, HttpInv', Balanced, [Next]_vars PROVE Balanced'
    OBVIOUS
  <2>1. CASE UNCHANGED vars
    BY <2>1, BalancedByClient DEF vars
  <2>2. ASSUME NEW r \in Request, SendFails(r) \/ GiveUp(r) \/ AnswerArrives(r) PROVE Balanced'
    BY <2>2, BalancedByClient DEF SendFails, GiveUp, AnswerArrives
  <2>3. QED
    BY <2>1, <2>2, BalancedByRequest DEF Next
<1>2. QED
  BY HttpInit, HttpSteps, BalancedInit, <1>1, PTL DEF Spec

\* At rest no request is active, every one has ended exactly one way and each was
\* measured (service.go:190-262).
THEOREM AtRest == Spec => []AtRestBalanced
<1>1. HttpInv /\ Balanced => AtRestBalanced
  <2> SUFFICES ASSUME HttpInv, Balanced, At({"none", "done"}) = Request
               PROVE  /\ counter["inFlight"] = 0
                      /\ counter["total"] = counter["success"] + counter["failed"] + counter["panics"]
                      /\ counter["durations"] = counter["total"]
    BY DEF AtRestBalanced
  <2>1. At(ActivePc) = {} /\ At(UnendedPc) = {} /\ At(UnmeasuredPc) = {}
    BY DEF At, ActivePc, UnendedPc, UnmeasuredPc
  <2>2. Cardinality({}) = 0
    BY FS_EmptySet
  <2>3. \A i \in Instrument : counter[i] \in Int
    BY DEF HttpInv, TypeOK
  <2>4. QED
    BY <2>1, <2>2, <2>3 DEF Balanced, Tally, Instrument
<1>2. QED
  BY BalancedAlways, <1>1, PTL

\* A request counted that has not ended is still active, but for a panic between
\* its decrement and its recovery (service.go:223-258).
THEOREM Unended == Spec => []UnendedIsActive
<1>1. HttpInv /\ Balanced => UnendedIsActive
  <2> SUFFICES ASSUME HttpInv, Balanced PROVE UnendedIsActive
    OBVIOUS
  <2> DEFINE A == At(ActivePc)
             R == At({"recover"})
             U == At(UnendedPc)
  <2>1. IsFiniteSet(A) /\ IsFiniteSet(R) /\ IsFiniteSet(U)
    BY AtFinite
  <2>2. U \in SUBSET (A \cup R)
    BY DEF At, ActivePc, UnendedPc
  <2>3. /\ IsFiniteSet(A \cup R)
        /\ Cardinality(A \cup R) = Cardinality(A) + Cardinality(R) - Cardinality(A \cap R)
    BY <2>1, FS_Union
  <2>4. IsFiniteSet(A \cap R)
    BY <2>1, FS_Subset
  <2>5. /\ Cardinality(A) \in Nat /\ Cardinality(R) \in Nat /\ Cardinality(U) \in Nat
        /\ Cardinality(A \cap R) \in Nat /\ Cardinality(A \cup R) \in Nat
    BY <2>1, <2>3, <2>4, FS_CardinalityType
  <2>6. Cardinality(U) <= Cardinality(A \cup R)
    BY <2>2, <2>3, FS_Subset
  <2>7. Cardinality(U) <= Cardinality(A) + Cardinality(R)
    BY <2>3, <2>5, <2>6
  <2>8. QED
    BY <2>7 DEF Balanced, Tally, UnendedIsActive
<1>2. QED
  BY BalancedAlways, <1>1, PTL

\* An operation that failed is never counted as successful (execution.go:51-96).
THEOREM SuccessesAreTrue == Spec => []SuccessIsTrue
<1>1. HttpInv /\ Balanced => SuccessIsTrue
  <2> SUFFICES ASSUME HttpInv, Balanced PROVE SuccessIsTrue
    OBVIOUS
  <2> DEFINE Served == {r \in Request : req[r].outcome = Ok}
  <2>1. ASSUME NEW r \in Request, Succeeded(r) PROVE req[r].outcome = Ok
    <3>1. RequestOK(r) /\ req[r].outcome \in Error \cup {Ok, Panic, Pending}
      BY DEF HttpInv, TypeOK, RequestsOK, Outcome
    <3>2. QED
      BY <2>1, <3>1 DEF RequestOK, Succeeded, Succeeds
  <2>2. Successes \in SUBSET Served
    BY <2>1 DEF Successes
  <2>3. IsFiniteSet(Served)
    BY HttpAssumption, FS_Subset
  <2>4. Cardinality(Successes) <= Cardinality(Served)
    BY <2>2, <2>3, FS_Subset
  <2>5. QED
    BY <2>4 DEF Balanced, SuccessIsTrue
<1>2. QED
  BY BalancedAlways, <1>1, PTL
=============================================================================
