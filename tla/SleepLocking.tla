---------------------------- MODULE SleepLocking ----------------------------
(***************************************************************************)
(* The requests and the prune loop of SleepCache use its mutex as          *)
(* RedisMutex says clients do: SleepCache implements a RedisMutex.         *)
(***************************************************************************)
EXTENDS SleepCache

CONSTANTS
    Pruner,    \* the prune loop, as a client of the mutex
    NoClient

ASSUME SleepLockingAssumption == Pruner \notin Req /\ NoClient \notin Req \cup {Pruner}

LockClient == Req \cup {Pruner}

Inside(c) == IF c = Pruner THEN Pruning ELSE InSection(c)
Waiting(c) == IF c = Pruner THEN prune.pc = "lock" ELSE pc[c] \in {"lock", "unmarkLock"}

Where ==
    [c \in LockClient |-> IF Inside(c) THEN "inside" ELSE IF Waiting(c) THEN "waiting" ELSE "out"]

\* A key that exists while someone is inside is theirs.
Owner ==
    IF mutex /\ \E c \in LockClient : Inside(c)
    THEN CHOOSE c \in LockClient : Inside(c) ELSE NoClient

SleepMutex == INSTANCE RedisMutex WITH
    Client <- LockClient, Environments <- {{}}, env <- {}, Faults <- RedisFaults,
    key <- mutex, owner <- Owner, where <- Where, closed <- FALSE

\* The mutex of the sleeps is a RedisMutex in a tame environment (redis.go:112-132,
\* 738-778): this is SleepMutex!Spec, with the stutter tested first.
SleepsIsMutex ==
  SleepMutex!Init
  /\ [][UNCHANGED SleepMutex!vars \/ SleepMutex!Next]_(SleepMutex!vars)
=============================================================================
