----------------------------- MODULE ErrorKinds -----------------------------
(***************************************************************************)
(* Errors as they cross the service's boundary: the values of pkg/errors,  *)
(* the status and body handleResponse gives them, and the error the client *)
(* builds from an answer.  An error is its Go shape and its ErrorType:     *)
(* "value" is ErrorCommon, "pointer" *ErrorCommon (what errors.New         *)
(* returns), "unauthorized" ErrorUnauthorized, and "other" an error with   *)
(* none of these in it.                                                    *)
(***************************************************************************)
EXTENDS Integers

ErrorType == {"none", "unknown", "notFound", "notCached", "retry", "conflict", "timeout",
              "notImplemented", "unauthorized", "tooMuchData"}

Error == [shape : {"value", "pointer", "unauthorized", "other"}, type : ErrorType]

Value(type) == [shape |-> "value", type |-> type]
Pointer == [shape |-> "pointer", type |-> "unknown"]
Other == [shape |-> "other", type |-> "none"]

\* errors.Is with a sentinel: ErrorCommon.Is compares the types' texts.
Is(err, type) == err.shape # "other" /\ err.type = type

\* errors.AsType[ErrorCommon] finds the value only; otherwise it is zero.
AsCommon(err) == IF err.shape = "value" THEN err.type ELSE "none"

errorTypeToStatusCode(type) ==
    CASE type \in {"notFound", "notCached"} -> 404
      [] type = "retry" -> 429
      [] type = "conflict" -> 409
      [] type = "timeout" -> 408
      [] type = "notImplemented" -> 501
      [] type = "unauthorized" -> 401
      [] type = "tooMuchData" -> 413
      [] OTHER -> 500

\* handleResponse's cases: an error that is no not-cached, not-found or unknown
\* error is answered as an unknown one, whatever its type.
Typed(err) == \E type \in {"notCached", "notFound", "unknown"} : Is(err, type)
Answer(status, type) == [status |-> status, type |-> type]

\* Bug: something that is not there is answered with no content.
AnswerNoContent(err) ==
    IF Is(err, "notFound") THEN Answer(204, "none") ELSE Answer(500, "unknown")

ErrorAnswer(err) ==
    CASE Typed(err) /\ AsCommon(err) # "none" ->
             Answer(errorTypeToStatusCode(AsCommon(err)), AsCommon(err))
      [] Typed(err) /\ AsCommon(err) = "none" -> Answer(500, "unknown")
      [] Is(err, "retry") -> Answer(errorTypeToStatusCode(AsCommon(err)), AsCommon(err))
      [] OTHER -> Answer(500, "unknown")

\* Bug: only the service's own errors are taken for failures.
SucceedsBelow500(status) == status < 500

\* doRequest takes two statuses for success.  The body of any other one is read
\* into an interface that holds no pointer, which fails for every body: whatever
\* the service answered, the client returns an unknown error.
Succeeds(status) == status \in {200, 204}
=============================================================================
