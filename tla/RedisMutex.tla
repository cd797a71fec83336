----------------------------- MODULE RedisMutex -----------------------------
(***************************************************************************)
(* The Redis mutex of cache/redis.go: Lock and Unlock on one key, as used  *)
(* around every change of the in-progress and not-found hashes.  The key   *)
(* is created with SETNX and an expiration, and deleted by a script that   *)
(* compares its value with the constant `true', which every holder stores. *)
(***************************************************************************)
CONSTANTS
    Client,        \* goroutines that call Lock: requests and prune loops
    NoClient,      \* the owner of no key
    Environments,  \* the environments to run in: sets of disturbances
    Faults         \* a Redis command may fail, or lose its reply

\* A section may last longer than mutexExpiration; redisCache.Clear may delete
\* the key; redisCache.Close may cancel r.ctx.
Disturbance == {"overrun", "clear", "close"}

ASSUME ClientAssumption == NoClient \notin Client

ASSUME EnvironmentAssumption ==
    Environments \subseteq SUBSET Disturbance /\ Faults \in BOOLEAN

VARIABLES
    env,     \* the disturbances of this behaviour
    key,     \* the key exists in Redis
    owner,   \* auxiliary: the client inside whose SETNX created the key
    where,   \* "out", "waiting" (inside Lock) or "inside" (Lock returned)
    closed   \* r.ctx is cancelled

vars == <<env, key, owner, where, closed>>

TypeOK ==
    /\ env \in Environments
    /\ key \in BOOLEAN
    /\ owner \in Client \cup {NoClient}
    /\ where \in [Client -> {"out", "waiting", "inside"}]
    /\ closed \in BOOLEAN

Init ==
    /\ env \in Environments
    /\ key = FALSE
    /\ owner = NoClient
    /\ where = [c \in Client |-> "out"]
    /\ closed = FALSE

Move(c, place) == where' = [where EXCEPT ![c] = place]

\* The key stays, but c is no longer there to own it.
Abandon(c) == key' = key /\ owner' = IF owner = c THEN NoClient ELSE owner

\* Lock is called; its failed attempts change nothing and are not steps.
Call(c) ==
    /\ where[c] = "out"
    /\ Move(c, "waiting")
    /\ UNCHANGED <<env, key, owner, closed>>

\* Bug: the lock is taken with SET instead of SETNX.
AcquireBySet(c) ==
    /\ where[c] = "waiting" /\ ~closed
    /\ key' = TRUE /\ owner' = c
    /\ Move(c, "inside")
    /\ UNCHANGED <<env, closed>>

\* lockFx succeeds: at once, or at one of the ticks of tRetry.
Acquire(c) ==
    /\ where[c] = "waiting" /\ ~closed /\ ~key
    /\ key' = TRUE /\ owner' = c
    /\ Move(c, "inside")
    /\ UNCHANGED <<env, closed>>

\* SETNX takes effect but its reply is an error: lockFx says FALSE, so the
\* client goes on waiting, for a key of its own.
AcquireUnawares(c) ==
    /\ Faults
    /\ where[c] = "waiting" /\ ~closed /\ ~key
    /\ key' = TRUE /\ owner' = NoClient
    /\ UNCHANGED <<env, where, closed>>

\* Lock returns without the lock when r.ctx is done.
GiveUp(c) ==
    /\ where[c] = "waiting" /\ closed
    /\ Move(c, "inside")
    /\ UNCHANGED <<env, key, owner, closed>>

\* Unlock: the script deletes the key whoever created it, as the values are
\* all the same.  It fails on a cancelled r.ctx; a failed Eval may or may not
\* have taken effect.
Release(c) ==
    /\ where[c] = "inside"
    /\ Move(c, "out")
    /\ \/ ~closed /\ key' = FALSE /\ owner' = NoClient
       \/ (closed \/ Faults) /\ Abandon(c)
    /\ UNCHANGED <<env, closed>>

\* The goroutine's process dies: the key stays.
Crash(c) ==
    /\ where[c] # "out"
    /\ Move(c, "out")
    /\ Abandon(c)
    /\ UNCHANGED <<env, closed>>

\* Bug: the key is created without an expiration.
ExpireNever == FALSE /\ UNCHANGED vars

\* Redis drops the key mutexExpiration after SETNX.
Expire ==
    /\ key
    /\ "overrun" \in env \/ \A c \in Client : where[c] # "inside"
    /\ key' = FALSE /\ owner' = NoClient
    /\ UNCHANGED <<env, where, closed>>

\* redisCache.Clear deletes the key with the hashes.
Clear ==
    /\ "clear" \in env /\ key
    /\ key' = FALSE /\ owner' = NoClient
    /\ UNCHANGED <<env, where, closed>>

Close ==
    /\ "close" \in env /\ ~closed
    /\ closed' = TRUE
    /\ UNCHANGED <<env, key, owner, where>>

ClientNext(c) ==
    Call(c) \/ Acquire(c) \/ AcquireUnawares(c) \/ GiveUp(c) \/ Release(c) \/ Crash(c)

Next == (\E c \in Client : ClientNext(c)) \/ Expire \/ Clear \/ Close

Spec == Init /\ [][Next]_vars

\* Sections end, and keys expire, as they do with a mutexExpiration other than 0.  A
\* waiter polls every mutexRetryInterval (1s) while a section lasts for one Redis
\* command, so it does not lose every race, nor does SETNX fail for ever.
Fairness ==
    /\ WF_vars(Expire)
    /\ \A c \in Client :
          /\ WF_vars(Release(c))
          /\ WF_vars(GiveUp(c))
          /\ SF_vars(Acquire(c))

FairSpec == Spec /\ Fairness
-----------------------------------------------------------------------------
\* The environment the mutex is built for: one section ends before its key
\* expires, and nobody clears or closes the cache meanwhile.
Tame == env = {}

\* In a tame environment at most one client is between its Lock and its Unlock
\* (redis.go:187-247): what the prune loops and the in-progress protocol use the
\* mutex for.
MutualExclusion ==
    Tame => \A c, d \in Client : where[c] = "inside" /\ where[d] = "inside" => c = d

\* In a tame environment Unlock deletes only a key that its own Lock created, as
\* the comparison in the script means to ensure (redis.go:223-227).  It does not
\* when a section has overrun: the values of all holders are the same.
DeletesOnlyItsOwn ==
    [][Tame => \A c \in Client : Release(c) /\ key /\ ~key' => owner = c]_vars

\* Every Lock returns, even when the holder died with the key, and when the
\* cache is closed under the waiter (redis.go:204-213).
WaiterReturns ==
    \A c \in Client : where[c] = "waiting" ~> where[c] # "waiting"

\* The inductive form of mutual exclusion: in a tame environment whoever is inside
\* created the key that exists.
HolderOwnsKey ==
    Tame => \A c \in Client : where[c] = "inside" => key /\ owner = c
=============================================================================
