-------------------------- MODULE EmployeeLocking ---------------------------
(***************************************************************************)
(* The requests and prune loops of EmployeeLogic use the two mutexes of    *)
(* the cache as RedisMutex says clients do: EmployeeLogic implements one   *)
(* RedisMutex per marker hash, and inherits its mutual exclusion.          *)
(***************************************************************************)
EXTENDS EmployeeLogic

CONSTANTS
    Pruner,    \* the prune loop of a hash, as a client of the mutex
    NoClient

ASSUME LockingAssumption == Pruner \notin Req /\ NoClient \notin Req \cup {Pruner}

LockClient == Req \cup {Pruner}

Inside(h) == Holders(h) \cup IF PrunerHolds(h) THEN {Pruner} ELSE {}
Waiting(h) == Waiters(h) \cup IF prunePc[h] = "lock" THEN {Pruner} ELSE {}

WhereOf(h) ==
    [c \in LockClient |-> IF c \in Inside(h) THEN "inside"
                          ELSE IF c \in Waiting(h) THEN "waiting" ELSE "out"]

\* While the mutex is kept as intended, a key that exists while someone is
\* inside is theirs.
OwnerOf(h) ==
    IF mutex[h] /\ Inside(h) # {} THEN CHOOSE c \in Inside(h) : TRUE ELSE NoClient

InProgressMutex == INSTANCE RedisMutex WITH
    Client <- LockClient, Environments <- {{}}, env <- {}, Faults <- RedisFaults,
    key <- mutex["inProgress"], owner <- OwnerOf("inProgress"), where <- WhereOf("inProgress"), closed <- FALSE

NotFoundMutex == INSTANCE RedisMutex WITH
    Client <- LockClient, Environments <- {{}}, env <- {}, Faults <- RedisFaults,
    key <- mutex["notFound"], owner <- OwnerOf("notFound"), where <- WhereOf("notFound"), closed <- FALSE

\* Unless sections outlive the expiration, or the cache is cleared, the
\* in-progress mutex is a RedisMutex (redis.go:95-96, 471-472, 606-607,
\* 633-634): this is InProgressMutex!Spec, with the stutter, which most steps
\* of the cache are, tested first.
InProgressIsMutex ==
  InProgressMutex!Init
  /\ [][UNCHANGED InProgressMutex!vars \/ InProgressMutex!Next]_(InProgressMutex!vars)

\* And so is the not-found mutex (redis.go:155-156, 656-657).
NotFoundIsMutex ==
  NotFoundMutex!Init
  /\ [][UNCHANGED NotFoundMutex!vars \/ NotFoundMutex!Next]_(NotFoundMutex!vars)
=============================================================================
