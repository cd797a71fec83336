---------------------------- MODULE HttpService ----------------------------
(***************************************************************************)
(* The HTTP boundary: client/client.go on one side, the handlers of        *)
(* service/service.go inside their middleware on the other.  A request     *)
(* goes through Initialize, MaxRequestSize, Latency, Panic and Request,    *)
(* in this order, to its endpoint; each counter is one atomic instrument.  *)
(* What an endpoint calls is abstracted to how it may end.                 *)
(***************************************************************************)
EXTENDS ErrorKinds, Integers, FiniteSets

CONSTANTS
    Request,  \* requests, each sent at most once
    Asked     \* request -> the operations it may ask for

VARIABLES
    req,      \* request -> how far it is, its operation, payload and answer
    client,   \* request -> what its client has seen
    counter   \* the instruments

vars == <<req, client, counter>>

\* buildRoutes: "default" is every other path, "notAllowed" an unlisted method.
Op == {"default", "sleep", "panic", "search", "create", "read", "update", "delete",
       "clear", "authorize", "notAllowed"}
\* The methods of client.go.
ClientOp == Op \ {"default", "notAllowed"}

ASSUME HttpAssumption == IsFiniteSet(Request) /\ Asked \in [Request -> SUBSET Op]

\* Operations whose answer the client decodes.
Decoded == {"sleep", "search", "create", "read", "update", "authorize"}

Instrument == {"inFlight", "total", "requestBytes", "responseBytes", "success", "failed",
               "panics", "durations"}

\* What authz and the layers under it return: not opened or mutations disabled, a
\* token that does not parse, the decision itself, the engine closed, and an
\* error of parsing the request, of Rego, of the database or of Redis.
Refusals == {Value("unknown"), Value("unauthorized"), Pointer, Other,
             [shape |-> "unauthorized", type |-> "unauthorized"]}

\* How an endpoint ends: one of these, or an error.
Ended(shape) == [shape |-> shape, type |-> "none"]
Ok == Ended("ok")
Panic == Ended("panic")
Pending == Ended("pending")
Outcome == Error \cup {Ok, Panic, Pending}

\* A panic outside its endpoint comes from the maps of the policy engine.
Outcomes(op) ==
    CASE op = "panic" -> {Panic}
      [] op \in {"default", "notAllowed"} -> {Ok}
      [] op = "sleep" -> {Ok, Other}
      [] op = "clear" -> {Ok, Other, Value("unknown")}
      [] op = "authorize" -> {Ok, Other, Pointer, Value("unknown")}
      [] op = "create" -> {Ok, Panic} \cup Refusals
      [] OTHER -> {Ok, Panic, Value("notFound")} \cup Refusals

Asks(at, op, length) == [pc |-> at, op |-> op, length |-> length, outcome |-> Pending,
                         status |-> 0, bytes |-> 0]
Unsent == Asks("none", "default", 0)

Pc == {"none", "arrived", "entered", "handle", "answered", "counted", "unwound", "recover",
       "observe", "done"}

TypeOK ==
    /\ req \in [Request -> [pc : Pc, op : Op, length : -1 .. 1, outcome : Outcome,
                            status : {0, 200, 404, 405, 500}, bytes : 0 .. 1]]
    /\ client \in [Request -> {"none", "waiting", "ok", "error", "timeout"}]
    /\ counter \in [Instrument -> Int]

\* The instruments are created before the routes are built and the server starts.
Init ==
    /\ req = [r \in Request |-> Unsent]
    /\ client = [r \in Request |-> "none"]
    /\ counter = [i \in Instrument |-> 0]

-----------------------------------------------------------------------------
(* The client *)

Fresh(r) == req[r].pc = "none" /\ client[r] = "none"

\* A method of client.go.
Send(r) ==
    /\ Fresh(r)
    /\ \E op \in ClientOp \cap Asked[r] :
          req' = [req EXCEPT ![r] =
              Asks("arrived", op, IF op \in {"sleep", "create", "update"} THEN 1 ELSE 0)]
    /\ client' = [client EXCEPT ![r] = "waiting"]
    /\ UNCHANGED counter

\* Somebody else's request, with a body of unknown length (-1) perhaps.
SendOther(r) ==
    /\ Fresh(r)
    /\ \E op \in Asked[r], length \in -1 .. 1 :
          req' = [req EXCEPT ![r] = Asks("arrived", op, length)]
    /\ UNCHANGED <<client, counter>>

\* The request does not arrive.
SendFails(r) ==
    /\ Fresh(r)
    /\ client' = [client EXCEPT ![r] = "error"]
    /\ UNCHANGED <<req, counter>>

\* The client's timeout, or a broken connection, ends its waiting; the service
\* goes on.  Nothing is sent again.
GiveUp(r) ==
    /\ client[r] = "waiting"
    /\ \E result \in {"timeout", "error"} : client' = [client EXCEPT ![r] = result]
    /\ UNCHANGED <<req, counter>>

\* The status on the wire: net/http answers 200 where no status was written,
\* also when a recovered panic has left the handler without writing anything.
WireStatus(r) == IF req[r].status = 0 THEN 200 ELSE req[r].status
Answered(r) == req[r].status # 0 \/ req[r].bytes > 0 \/ req[r].pc = "done"

\* doRequest and what the method makes of its bytes: nothing cannot be decoded.
AnswerArrives(r) ==
    /\ client[r] = "waiting" /\ Answered(r)
    /\ client' = [client EXCEPT ![r] =
          IF Succeeds(WireStatus(r)) /\ (req[r].op \in Decoded => req[r].bytes > 0)
          THEN "ok" ELSE "error"]
    /\ UNCHANGED <<req, counter>>

-----------------------------------------------------------------------------
(* The service: the middleware from the outside in, the endpoint, and back *)

Plus(c, instrument, n) == [c EXCEPT ![instrument] = @ + n]
Add(instrument, n) == counter' = Plus(counter, instrument, n)
UpDown(instrument, n) == counter' = Plus(counter, instrument, n)
Record(instrument) == counter' = Plus(counter, instrument, 1)

From(r, p, q) == req[r].pc = p /\ req' = [req EXCEPT ![r].pc = q] /\ UNCHANGED client

\* Bug: only the deferred decrement is there.
EnterUncounted(r) == From(r, "arrived", "entered") /\ UNCHANGED counter

\* Initialize and MaxRequestSize change nothing that is counted; Latency and
\* Panic only defer; Request counts the request as active.
Enter(r) == From(r, "arrived", "entered") /\ UpDown("inFlight", 1)

Count(r) ==
    /\ From(r, "entered", "handle")
    /\ counter' = Plus(Plus(counter, "total", 1), "requestBytes", req[r].length)

\* The default endpoint writes no status, which the wrapper keeps as 0; every
\* endpoint passes handleResponse an item, so that 204 is never its answer.
Status(op, outcome) ==
    CASE outcome \in Error -> ErrorAnswer(outcome).status
      [] outcome = Ok /\ op = "default" -> 0
      [] outcome = Ok /\ op = "notAllowed" -> 405
      [] OTHER -> 200

Ends(q, p, outcome, status, bytes) ==
    [pc |-> p, op |-> q.op, length |-> q.length, outcome |-> outcome,
     status |-> status, bytes |-> bytes]

\* The endpoint ends and its answer, if it did not panic, is written.
Handle(r) ==
    /\ req[r].pc = "handle"
    /\ \E outcome \in Outcomes(req[r].op) :
          req' = [req EXCEPT ![r] =
              IF outcome = Panic THEN Ends(@, "unwound", outcome, 0, 0)
              ELSE Ends(@, "answered", outcome, Status(@.op, outcome),
                        IF @.op = "notAllowed" THEN 0 ELSE 1)]
    /\ UNCHANGED <<client, counter>>

\* Request again: the answer is counted by the status that was written.
CountAnswer(r) ==
    /\ From(r, "answered", "counted")
    /\ counter' = Plus(Plus(counter, "responseBytes", req[r].bytes),
                       IF Succeeds(req[r].status) THEN "success" ELSE "failed", 1)

\* Bug: the decrement comes after the endpoint instead of being deferred.
LeaveNotDeferred(r) ==
    \/ From(r, "counted", "observe") /\ UpDown("inFlight", -1)
    \/ From(r, "unwound", "recover") /\ UNCHANGED counter

\* Deferred by Request.
Leave(r) ==
    /\ From(r, "counted", "observe") \/ From(r, "unwound", "recover")
    /\ UpDown("inFlight", -1)

\* Deferred by Panic: the panic is counted and ends here.
Recover(r) == From(r, "recover", "observe") /\ Add("panics", 1)

\* Deferred by Latency.
Observe(r) == From(r, "observe", "done") /\ Record("durations")

Next == \E r \in Request :
    \/ Send(r) \/ SendOther(r) \/ SendFails(r) \/ GiveUp(r) \/ AnswerArrives(r)
    \/ Enter(r) \/ Count(r) \/ Handle(r) \/ CountAnswer(r) \/ Leave(r) \/ Recover(r)
    \/ Observe(r)

Spec == Init /\ [][Next]_vars
-----------------------------------------------------------------------------
At(pcs) == {r \in Request : req[r].pc \in pcs}

\* Once no request is under way the instruments agree: none is active, every
\* request counted in the total ended exactly one way, and each was measured,
\* panics included (service.go:190-262, the order of the deferred functions;
\* GRAFANA.md:15).
AtRestBalanced ==
    At({"none", "done"}) = Request =>
        /\ counter["inFlight"] = 0
        /\ counter["total"] = counter["success"] + counter["failed"] + counter["panics"]
        /\ counter["durations"] = counter["total"]

\* At any moment a request of the total that has not ended in a counter is still
\* active, unless it is a panic between its decrement and its recovery: a reader
\* of the metrics can tell work from loss (service.go:223-258).
UnendedIsActive ==
    counter["total"] - counter["success"] - counter["failed"] - counter["panics"]
        <= counter["inFlight"] + Cardinality(At({"recover"}))

\* An operation that failed is never counted as successful, however its error
\* was wrapped (execution.go:51-96, service.go:237-258).
SuccessIsTrue ==
    counter["success"] <= Cardinality({r \in Request : req[r].outcome = Ok})

\* A client told of success was served, except by a panicking endpoint whose
\* answer needs no decoding (client.go:118-146, 295-348).
ClientNotMisled ==
    \A r \in Request : client[r] = "ok" =>
        req[r].outcome = Ok \/ (req[r].outcome = Panic /\ req[r].op \notin Decoded)
=============================================================================
