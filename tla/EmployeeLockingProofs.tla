----------------------- MODULE EmployeeLockingProofs ------------------------
(***************************************************************************)
(* The employee cache uses its two mutexes as intended, and they do what   *)
(* they are for, for any number of requests: with mutexes that no section  *)
(* outlives and no Clear deletes, each marker hash's mutex is a            *)
(* RedisMutex, and no hash changes under its prune loop.                   *)
(***************************************************************************)
EXTENDS EmployeeLocking, EmployeeProofs

\* The environment the mutexes are built for; commands and statements may still
\* fail and lose their replies, and requests may vanish.
Intended == ~MutexDisabled /\ ~SectionsOutlive /\ "clear" \notin Ops

\* The mutex of either hash.
Mutex(h) == INSTANCE RedisMutex WITH
    Client <- LockClient, Environments <- {{}}, env <- {}, Faults <- RedisFaults,
    key <- mutex[h], owner <- OwnerOf(h), where <- WhereOf(h), closed <- FALSE

\* The inductive invariant: there is one client inside at most, and then the key
\* exists.
OneInside(h) ==
    \A c, d \in LockClient :
        WhereOf(h)[c] = "inside" /\ WhereOf(h)[d] = "inside" => c = d /\ mutex[h]

NobodyClears == \A r \in Req : pc[r] \notin ClearPcs

SectionsInv == (\A h \in MarkerHash : OneInside(h)) /\ NobodyClears /\ PruneUndisturbed

-----------------------------------------------------------------------------
(* What a step may do to a mutex, without its owner *)

Moves(h, c, place) == WhereOf(h)' = [WhereOf(h) EXCEPT ![c] = place]
KeyStays(h) == mutex'[h] = mutex[h]

ClientStep(h, c) ==
    \/ WhereOf(h)[c] = "out" /\ Moves(h, c, "waiting") /\ KeyStays(h)
    \/ WhereOf(h)[c] = "waiting" /\ Moves(h, c, "inside") /\ ~mutex[h] /\ mutex'[h] = TRUE
    \/ WhereOf(h)[c] = "inside" /\ Moves(h, c, "out") /\ mutex'[h] = FALSE
    \/ WhereOf(h)[c] # "out" /\ Moves(h, c, "out") /\ KeyStays(h)
    \/ WhereOf(h)[c] = "waiting" /\ RedisFaults /\ ~mutex[h] /\ mutex'[h] = TRUE
       /\ WhereOf(h)' = WhereOf(h)

KeyStep(h) ==
    \/ WhereOf(h)' = WhereOf(h) /\ KeyStays(h)
    \/ \E c \in LockClient : ClientStep(h, c)
    \/ /\ \A c \in LockClient : WhereOf(h)[c] # "inside"
       /\ WhereOf(h)' = WhereOf(h) /\ mutex[h] /\ mutex'[h] = FALSE

\* Who owns the key is told by who is inside.
LEMMA OwnerIs ==
    ASSUME NEW h
    PROVE  /\ Inside(h) = {c \in LockClient : WhereOf(h)[c] = "inside"}
           /\ Inside(h)' = {c \in LockClient : WhereOf(h)'[c] = "inside"}
BY LockingAssumption DEF Inside, WhereOf, Waiting, LockClient, Holders, Waiters

\* The client that is inside owns the key; otherwise nobody does.
OwnerTold(h) ==
    /\ \A c \in LockClient : OneInside(h) /\ WhereOf(h)[c] = "inside" => OwnerOf(h) = c
    /\ ~mutex[h] \/ (\A c \in LockClient : WhereOf(h)[c] # "inside") =>
          OwnerOf(h) = NoClient

LEMMA OwnerKnown == ASSUME NEW h PROVE OwnerTold(h) /\ OwnerTold(h)'
<1> DEFINE I == {c \in LockClient : WhereOf(h)[c] = "inside"}
<1>1. OwnerTold(h)
  <2>1. ASSUME NEW c \in LockClient, OneInside(h), WhereOf(h)[c] = "inside"
        PROVE  OwnerOf(h) = c
    <3>1. Inside(h) = {c} /\ mutex[h]
      BY <2>1, OwnerIs DEF OneInside
    <3>2. QED
      BY <3>1 DEF OwnerOf
  <2>2. QED
    BY <2>1, OwnerIs DEF OwnerTold, OwnerOf
<1>2. OwnerTold(h)'
  <2>1. ASSUME NEW c \in LockClient, OneInside(h)', WhereOf(h)'[c] = "inside"
        PROVE  OwnerOf(h)' = c
    <3>1. Inside(h)' = {c} /\ mutex'[h]
      BY <2>1, OwnerIs DEF OneInside, LockClient
    <3>2. QED
      BY <3>1 DEF OwnerOf
  <2>2. ~mutex'[h] \/ (\A c \in LockClient : WhereOf(h)'[c] # "inside") =>
            OwnerOf(h)' = NoClient
    BY OwnerIs DEF OwnerOf
  <2>3. QED
    BY <2>1, <2>2 DEF OwnerTold, LockClient
<1>3. QED
  BY <1>1, <1>2

\* The owner stays while those who are inside and the key do.
LEMMA OwnerStays ==
    ASSUME NEW h, KeyStays(h),
           \A c \in LockClient : WhereOf(h)'[c] = "inside" <=> WhereOf(h)[c] = "inside"
    PROVE  OwnerOf(h)' = OwnerOf(h)
<1>1. Inside(h)' = Inside(h)
  BY OwnerIs
<1>2. QED
  BY <1>1 DEF OwnerOf, KeyStays

LEMMA WhereType ==
    ASSUME NEW h
    PROVE  /\ WhereOf(h) \in [LockClient -> {"out", "waiting", "inside"}]
           /\ WhereOf(h)' \in [LockClient -> {"out", "waiting", "inside"}]
BY DEF WhereOf

\* Each such step keeps the clients apart, and is a step of RedisMutex or none.
LEMMA KeyStepKeeps ==
    ASSUME NEW h, OneInside(h), KeyStep(h) PROVE OneInside(h)'
<1>1. OneInside(h)' <=>
        \A c, d \in LockClient :
            WhereOf(h)'[c] = "inside" /\ WhereOf(h)'[d] = "inside" => c = d /\ mutex'[h]
  BY DEF OneInside, LockClient
<1>2. CASE WhereOf(h)' = WhereOf(h) /\ KeyStays(h)
  BY <1>1, <1>2 DEF OneInside, KeyStays
<1>3. ASSUME NEW c \in LockClient, ClientStep(h, c) PROVE OneInside(h)'
  BY <1>1, <1>3, WhereType DEF OneInside, ClientStep, KeyStays, Moves
<1>4. CASE /\ \A c \in LockClient : WhereOf(h)[c] # "inside"
           /\ WhereOf(h)' = WhereOf(h) /\ mutex[h] /\ mutex'[h] = FALSE
  BY <1>1, <1>4
<1>5. QED
  BY <1>2, <1>3, <1>4 DEF KeyStep

LEMMA KeyStepRefines ==
    ASSUME NEW h, OneInside(h), KeyStep(h)
    PROVE  UNCHANGED Mutex(h)!vars \/ Mutex(h)!Next
<1>0. OneInside(h)' /\ OwnerTold(h) /\ OwnerTold(h)'
  BY KeyStepKeeps, OwnerKnown
<1>1. CASE WhereOf(h)' = WhereOf(h) /\ KeyStays(h)
  <2>1. OwnerOf(h)' = OwnerOf(h)
    BY <1>1, OwnerStays
  <2>2. QED
    BY <1>1, <2>1 DEF Mutex!vars, KeyStays
<1>2. ASSUME NEW c \in LockClient, ClientStep(h, c) PROVE Mutex(h)!ClientNext(c)
  <2> USE WhereType DEF Moves, KeyStays, Mutex!Move, Mutex!ClientNext
  <2>1. CASE WhereOf(h)[c] = "out" /\ Moves(h, c, "waiting") /\ KeyStays(h)
    <3>1. OwnerOf(h)' = OwnerOf(h)
      BY <2>1, OwnerStays
    <3>2. Mutex(h)!Call(c)
      BY <2>1, <3>1 DEF Mutex!Call
    <3>3. QED
      BY <3>2
  <2>2. CASE /\ WhereOf(h)[c] = "waiting" /\ Moves(h, c, "inside")
             /\ ~mutex[h] /\ mutex'[h] = TRUE
    <3>1. OwnerOf(h)' = c
      BY <1>0, <2>2 DEF OwnerTold, LockClient
    <3>2. Mutex(h)!Acquire(c)
      BY <2>2, <3>1 DEF Mutex!Acquire
    <3>3. QED
      BY <3>2
  <2>3. CASE WhereOf(h)[c] = "inside" /\ Moves(h, c, "out") /\ mutex'[h] = FALSE
    <3>1. OwnerOf(h)' = NoClient
      BY <1>0, <2>3 DEF OwnerTold
    <3>2. Mutex(h)!Release(c)
      BY <2>3, <3>1 DEF Mutex!Release
    <3>3. QED
      BY <3>2
  <2>4. CASE WhereOf(h)[c] # "out" /\ Moves(h, c, "out") /\ KeyStays(h)
    <3>1. Mutex(h)!Abandon(c)
      <4>1. CASE WhereOf(h)[c] = "inside"
        <5>1. OwnerOf(h) = c
          BY <1>0, <4>1 DEF OwnerTold
        <5>2. \A d \in LockClient : WhereOf(h)'[d] # "inside"
          BY <2>4, <4>1 DEF OneInside
        <5>3. OwnerOf(h)' = NoClient
          BY <1>0, <5>2 DEF OwnerTold, LockClient
        <5>4. QED
          BY <2>4, <5>1, <5>3 DEF Mutex!Abandon
      <4>2. CASE WhereOf(h)[c] # "inside"
        <5>1. OwnerOf(h)' = OwnerOf(h)
          BY <2>4, <4>2, OwnerStays
        <5>2. OwnerOf(h) # c
          <6>1. c # NoClient
            BY LockingAssumption DEF LockClient
          <6>2. CASE \A d \in LockClient : WhereOf(h)[d] # "inside"
            BY <1>0, <6>1, <6>2 DEF OwnerTold
          <6>3. ASSUME NEW d \in LockClient, WhereOf(h)[d] = "inside" PROVE OwnerOf(h) # c
            BY <1>0, <4>2, <6>3 DEF OwnerTold
          <6>4. QED
            BY <6>2, <6>3
        <5>3. QED
          BY <2>4, <5>1, <5>2 DEF Mutex!Abandon
      <4>3. QED
        BY <4>1, <4>2
    <3>2. Mutex(h)!Crash(c)
      BY <2>4, <3>1 DEF Mutex!Crash
    <3>3. QED
      BY <3>2
  <2>5. CASE /\ WhereOf(h)[c] = "waiting" /\ RedisFaults /\ ~mutex[h]
             /\ mutex'[h] = TRUE /\ WhereOf(h)' = WhereOf(h)
    <3>1. \A d \in LockClient : WhereOf(h)'[d] # "inside"
      BY <2>5 DEF OneInside
    <3>2. OwnerOf(h)' = NoClient
      BY <1>0, <3>1 DEF OwnerTold, LockClient
    <3>3. Mutex(h)!AcquireUnawares(c)
      BY <2>5, <3>2 DEF Mutex!AcquireUnawares
    <3>4. QED
      BY <3>3
  <2>6. QED
    BY <1>2, <2>1, <2>2, <2>3, <2>4, <2>5 DEF ClientStep
<1>3. CASE /\ \A c \in LockClient : WhereOf(h)[c] # "inside"
           /\ WhereOf(h)' = WhereOf(h) /\ mutex[h] /\ mutex'[h] = FALSE
  <2>1. OwnerOf(h)' = NoClient
    BY <1>0, <1>3 DEF OwnerTold
  <2>2. QED
    BY <1>3, <2>1 DEF Mutex!Expire, Mutex!Next
<1>4. QED
  BY <1>1, <1>2, <1>3 DEF KeyStep, Mutex!Next

-----------------------------------------------------------------------------
(* The steps of a request *)

SectionPcs(h) ==
    IF h = "inProgress"
    THEN {"mark", "markUnlock", "retryUnlock", "unmark", "fillUnlock",
          "evictAgain", "evictUnlock"}
    ELSE {"nfSearch", "nfEmp", "nfUnlock"}
LockPcs(h) ==
    IF h = "inProgress" THEN {"markLock", "unmarkLock", "evictLock"} ELSE {"nfLock"}
Place(h, p) ==
    IF p \in SectionPcs(h) THEN "inside" ELSE IF p \in LockPcs(h) THEN "waiting" ELSE "out"

\* What a step of r on its way to p does to a hash and to its mutex.
HashStep(h, r, p) ==
    /\ marks'[h] = marks[h] \/ Place(h, pc[r]) = "inside"
    /\ \/ KeyStays(h) /\ Place(h, p) \in {Place(h, pc[r]), "out"}
       \/ KeyStays(h) /\ Place(h, pc[r]) = "out" /\ Place(h, p) = "waiting"
       \/ /\ Place(h, pc[r]) = "waiting" /\ Place(h, p) = "inside"
          /\ ~mutex[h] /\ mutex'[h] = TRUE
       \/ Place(h, pc[r]) = "inside" /\ Place(h, p) = "out" /\ mutex'[h] = FALSE

RequestStep(r, p) ==
    /\ Goto(r, p) /\ p \notin ClearPcs
    /\ UNCHANGED <<prunePc, scanned>>
    /\ \A h \in MarkerHash : HashStep(h, r, p)

LEMMA RequestMoves ==
    ASSUME TypeInv, NEW r \in Req, NEW p, NEW h \in MarkerHash, Goto(r, p),
           UNCHANGED prunePc
    PROVE  WhereOf(h)[r] = Place(h, pc[r]) /\ Moves(h, r, Place(h, p))
<1>1. \A q \in Req : WhereOf(h)[q] = Place(h, pc[q]) /\ WhereOf(h)'[q] = Place(h, pc'[q])
  BY LockingAssumption
     DEF WhereOf, Inside, Waiting, Holders, Waiters, Place, SectionPcs, LockPcs, LockClient
<1>2. WhereOf(h)'[Pruner] = WhereOf(h)[Pruner]
  BY LockingAssumption
     DEF WhereOf, Inside, Waiting, Holders, Waiters, LockClient, PrunerHolds
<1>3. \A q \in Req : pc'[q] = IF q = r THEN p ELSE pc[q]
  BY DEF Goto, TypeInv, TypeOK, RequestOK
<1>4. \A c \in LockClient :
          WhereOf(h)'[c] = IF c = r THEN Place(h, p) ELSE WhereOf(h)[c]
  BY <1>1, <1>2, <1>3, LockingAssumption DEF LockClient
<1>5. QED
  BY <1>1, <1>4, WhereType DEF Moves

LEMMA RequestKey ==
    ASSUME TypeInv, NEW r \in Req, NEW p, RequestStep(r, p), NEW h \in MarkerHash
    PROVE  KeyStep(h)
<1>1. WhereOf(h)[r] = Place(h, pc[r]) /\ Moves(h, r, Place(h, p)) /\ HashStep(h, r, p)
  BY RequestMoves DEF RequestStep
<1>2. r \in LockClient
  BY DEF LockClient
<1>3. CASE Place(h, p) = Place(h, pc[r])
  <2>1. WhereOf(h)' = WhereOf(h)
    BY <1>1, <1>3, WhereType DEF Moves
  <2>2. KeyStays(h)
    BY <1>1, <1>3 DEF HashStep
  <2>3. QED
    BY <2>1, <2>2 DEF KeyStep
<1>4. CASE Place(h, p) # Place(h, pc[r])
  <2>1. ClientStep(h, r)
    BY <1>1, <1>4 DEF HashStep, ClientStep
  <2>2. QED
    BY <1>2, <2>1 DEF KeyStep
<1>5. QED
  BY <1>3, <1>4

LEMMA RequestUndisturbed ==
    ASSUME TypeInv, SectionsInv, NEW r \in Req, NEW p, RequestStep(r, p)
    PROVE  PruneUndisturbed'
<1> SUFFICES ASSUME NEW h \in MarkerHash, prunePc'[h] = "delete"
             PROVE  marks'[h] = scanned'[h]
  BY DEF PruneUndisturbed, MarkerHash
<1>1. prunePc[h] = "delete" /\ marks[h] = scanned[h] /\ scanned'[h] = scanned[h]
  BY DEF RequestStep, SectionsInv, PruneUndisturbed
<1>2. WhereOf(h)[Pruner] = "inside" /\ WhereOf(h)[r] = Place(h, pc[r])
  BY <1>1, RequestMoves DEF RequestStep, WhereOf, Inside, LockClient, PrunerHolds
<1>3. Place(h, pc[r]) # "inside"
  BY <1>2, LockingAssumption DEF SectionsInv, OneInside, LockClient
<1>4. QED
  BY <1>1, <1>3 DEF RequestStep, HashStep

LEMMA RequestLocking ==
    ASSUME TypeInv, SectionsInv, NEW r \in Req, NEW p, RequestStep(r, p)
    PROVE  SectionsInv'
<1>1. \A h \in MarkerHash : OneInside(h)'
  BY RequestKey, KeyStepKeeps DEF SectionsInv
<1>2. NobodyClears'
  BY DEF RequestStep, Goto, SectionsInv, NobodyClears, TypeInv, TypeOK, RequestOK
<1>3. QED
  BY <1>1, <1>2, RequestUndisturbed DEF SectionsInv, MarkerHash

\* Most steps touch neither mutex, and go from outside the sections to outside.
LEMMA QuietStep ==
    ASSUME UNCHANGED cacheVars \/ UNCHANGED <<marks, mutex, prunePc, scanned>>,
           NEW r, NEW p, Goto(r, p), p \notin ClearPcs,
           \A h \in MarkerHash :
              \/ Place(h, p) = "out"
              \/ Place(h, p) = Place(h, pc[r])
              \/ Place(h, pc[r]) = "out" /\ Place(h, p) = "waiting"
    PROVE  RequestStep(r, p)
BY DEF RequestStep, HashStep, KeyStays, cacheVars

\* A request that is outside both mutexes may go anywhere but into a section.
OutsidePcs == {"idle", "get", "select"} \cup SearchPcs \cup {"fill", "fillSearch"}
               \cup {"update", "reread", "delete", "evict", "findEmpNo", "insert"}

LEMMA Outside ==
    /\ \A p \in OutsidePcs, h \in MarkerHash : Place(h, p) = "out"
    /\ \A h \in MarkerHash, p \in {"markLock", "unmarkLock", "evictLock", "nfLock"} :
          Place(h, p) \in {"out", "waiting"}
    /\ \A p \in OutsidePcs \cup {"markLock", "unmarkLock", "evictLock", "nfLock"} :
          p \notin ClearPcs
BY DEF OutsidePcs, SearchPcs, ClearPcs, MarkerHash, Place, SectionPcs, LockPcs

LEMMA OutsideStep ==
    ASSUME NEW r, NEW p, Goto(r, p),
           UNCHANGED cacheVars \/ UNCHANGED <<marks, mutex, prunePc, scanned>>,
           \/ p \in OutsidePcs
           \/ pc[r] \in OutsidePcs /\ p \in {"markLock", "unmarkLock", "evictLock", "nfLock"}
    PROVE  RequestStep(r, p)
<1>1. p \notin ClearPcs
  BY Outside
<1>2. ASSUME NEW h \in MarkerHash
      PROVE  \/ Place(h, p) = "out"
             \/ Place(h, pc[r]) = "out" /\ Place(h, p) = "waiting"
  BY Outside
<1>3. QED
  BY <1>1, <1>2, QuietStep

LEMMA LockRequest ==
    ASSUME TypeInv, Intended, NEW r \in Req, NEW g \in MarkerHash, NEW from, NEW to,
           LockStep(r, g, from, to), to \notin ClearPcs,
           \A h \in MarkerHash :
              IF h = g THEN Place(h, from) = "waiting" /\ Place(h, to) = "inside"
              ELSE Place(h, to) = "out"
    PROVE  RequestStep(r, to)
<1>1. mutex \in [MarkerHash -> BOOLEAN]
  BY DEF TypeInv, TypeOK, CacheOK
<1>2. ~mutex[g] /\ mutex' = [mutex EXCEPT ![g] = TRUE]
  BY DEF LockStep, Lock, Intended
<1>3. \A h \in MarkerHash : HashStep(h, r, to)
  BY <1>1, <1>2 DEF LockStep, HashStep, KeyStays
<1>4. QED
  BY <1>3 DEF RequestStep, LockStep, Advance

LEMMA UnlockRequest ==
    ASSUME TypeInv, Intended, NEW r \in Req, NEW g \in MarkerHash, NEW from, NEW to,
           UnlockStep(r, g, from), Goto(r, to), to \in OutsidePcs,
           Place(g, from) = "inside"
    PROVE  RequestStep(r, to)
<1>1. mutex \in [MarkerHash -> BOOLEAN]
  BY DEF TypeInv, TypeOK, CacheOK
<1>2. \/ mutex' = mutex
      \/ mutex' = [mutex EXCEPT ![g] = FALSE]
  BY DEF UnlockStep, Unlock
<1>3. \A h \in MarkerHash : HashStep(h, r, to)
  BY <1>1, <1>2, Outside DEF UnlockStep, HashStep, KeyStays
<1>4. QED
  BY <1>3, Outside DEF RequestStep, UnlockStep

LEMMA StartMoves ==
    ASSUME TypeInv, Intended, NEW r \in Req, Start(r) PROVE \E p : RequestStep(r, p)
<1>1. \A op, p, j : Begin(r, op, p, j) /\ p \in OutsidePcs => RequestStep(r, p)
  BY OutsideStep DEF Begin
<1>2. ~StartClear(r)
  BY DEF StartClear, Begin, Intended
<1>3. QED
  BY <1>1, <1>2 DEF Start, StartRead, StartSearch, StartUpdate, StartDelete, StartCreate,
                    OutsidePcs, SearchPcs

LEMMA LockingMoves ==
    ASSUME TypeInv, Intended, NEW r \in Req, Locking(r) PROVE \E p : RequestStep(r, p)
<1> USE DEF MarkerHash, Place, SectionPcs, LockPcs, ClearPcs
<1>1. CASE MarkLock(r)
  BY <1>1, LockRequest DEF MarkLock
<1>2. CASE UnmarkLock(r)
  BY <1>2, LockRequest DEF UnmarkLock
<1>3. CASE NotFoundLock(r)
  BY <1>3, LockRequest DEF NotFoundLock
<1>4. CASE EvictLock(r)
  BY <1>4, LockRequest DEF EvictLock
<1>5. QED
  BY <1>1, <1>2, <1>3, <1>4 DEF Locking

LEMMA UnlockingMoves ==
    ASSUME TypeInv, Intended, NEW r \in Req,
           MarkUnlock(r) \/ FillUnlock(r) \/ NotFoundUnlock(r) \/ EvictUnlock(r)
    PROVE  \E p : RequestStep(r, p)
<1> USE DEF MarkerHash, Place, SectionPcs, LockPcs, OutsidePcs
<1>1. CASE UnlockStep(r, "inProgress", "markUnlock") /\ Advance(r, "select")
  BY <1>1, UnlockRequest DEF Advance
<1>2. CASE UnlockStep(r, "inProgress", "retryUnlock") /\ Retry(r)
  BY <1>2, UnlockRequest DEF Retry
<1>3. CASE FillUnlock(r)
  BY <1>3, UnlockRequest DEF FillUnlock, Answer
<1>4. CASE NotFoundUnlock(r)
  BY <1>4, UnlockRequest DEF NotFoundUnlock, Answer
<1>5. CASE EvictUnlock(r)
  BY <1>5, UnlockRequest DEF EvictUnlock, Answer
<1>6. QED
  BY <1>1, <1>2, <1>3, <1>4, <1>5 DEF MarkUnlock

LEMMA ReadingMoves ==
    ASSUME TypeInv, NEW r \in Req,
           \/ CacheGet(r) \/ SelectRow(r) \/ SearchGet(r) \/ SearchHit(r) \/ SearchSql(r)
    PROVE  \E p : RequestStep(r, p)
<1>1. pc[r] \in OutsidePcs /\ UNCHANGED cacheVars
  BY DEF CacheGet, SelectRow, SearchGet, SearchHit, SearchSql, SqlError, Carry,
         OutsidePcs, SearchPcs
<1>2. \E p \in OutsidePcs \cup {"markLock", "nfLock"} : Goto(r, p)
  <2> USE DEF OutsidePcs, SearchPcs, Answer, Advance
  <2>1. CASE CacheGet(r)
    BY <2>1 DEF CacheGet, Retry
  <2>2. CASE SelectRow(r)
    BY <2>2 DEF SelectRow, SqlError, Carry
  <2>3. CASE SearchGet(r)
    BY <2>3 DEF SearchGet
  <2>4. CASE SearchHit(r)
    BY <2>4 DEF SearchHit
  <2>5. CASE SearchSql(r)
    BY <2>5 DEF SearchSql, SqlError, Carry
  <2>6. QED
    BY <2>1, <2>2, <2>3, <2>4, <2>5
<1>3. QED
  BY <1>1, <1>2, OutsideStep

LEMMA FillMoves ==
    ASSUME TypeInv, NEW r \in Req, FillEmployee(r) \/ FillSearch(r) \/ EvictFirst(r)
    PROVE  \E p : RequestStep(r, p)
<1>1. pc[r] \in OutsidePcs /\ UNCHANGED <<marks, mutex, prunePc, scanned>>
  BY DEF FillEmployee, FillSearch, EvictFirst, OutsidePcs
<1>2. \E p \in OutsidePcs \cup {"unmarkLock", "evictLock"} : Goto(r, p)
  BY DEF FillEmployee, FillSearch, EvictFirst, OutsidePcs, Answer, Advance
<1>3. QED
  BY <1>1, <1>2, OutsideStep

LEMMA MutatingMoves ==
    ASSUME TypeInv, NEW r \in Req,
           \/ UpdateRow(r) \/ Reread(r) \/ DeleteRow(r) \/ FindEmpNo(r) \/ Insert(r) \/ Crash(r)
    PROVE  \E p : RequestStep(r, p)
<1>1. UNCHANGED cacheVars
  BY DEF UpdateRow, Reread, DeleteRow, FindEmpNo, Insert, Crash
<1>2. \E p \in OutsidePcs : Goto(r, p)
  BY DEF UpdateRow, Reread, DeleteRow, FindEmpNo, Insert, Crash, Answer, Advance, OutsidePcs
<1>3. QED
  BY <1>1, <1>2, OutsideStep

\* The steps inside a section change the marks of its own hash only.
LEMMA SectionMoves ==
    ASSUME TypeInv, NEW r \in Req,
           Mark(r) \/ Unmark(r) \/ EvictAgain(r) \/ NotFoundMark(r)
    PROVE  \E p : RequestStep(r, p)
<1>0. marks \in [MarkerHash -> SUBSET Field]
  BY DEF TypeInv, TypeOK, CacheOK
<1> USE DEF MarkerHash, Place, SectionPcs, LockPcs, ClearPcs
<1>1. CASE Mark(r)
  <2>1. pc[r] = "mark" /\ UNCHANGED <<mutex, prunePc, scanned>>
        /\ marks'["notFound"] = marks["notFound"]
    BY <1>0, <1>1 DEF Mark, HSetMark
  <2>2. PICK p \in {"retryUnlock", "markUnlock"} : Goto(r, p)
    BY <1>1 DEF Mark, Advance
  <2>3. RequestStep(r, p)
    BY <2>1, <2>2 DEF RequestStep, HashStep, KeyStays
  <2>4. QED
    BY <2>3
<1>2. CASE Unmark(r)
  <2>1. /\ pc[r] = "unmark" /\ UNCHANGED <<mutex, prunePc, scanned>>
        /\ marks'["notFound"] = marks["notFound"]
    BY <1>0, <1>2 DEF Unmark, HDelMarks
  <2>2. Goto(r, "fillUnlock")
    BY <1>2 DEF Unmark, Advance
  <2>3. RequestStep(r, "fillUnlock")
    BY <2>1, <2>2 DEF RequestStep, HashStep, KeyStays
  <2>4. QED
    BY <2>3
<1>3. CASE EvictAgain(r)
  <2>1. pc[r] = "evictAgain" /\ UNCHANGED <<marks, mutex, prunePc, scanned>>
    BY <1>3 DEF EvictAgain
  <2>2. Goto(r, "evictUnlock")
    BY <1>3 DEF EvictAgain, Advance
  <2>3. RequestStep(r, "evictUnlock")
    BY <2>1, <2>2 DEF RequestStep, HashStep, KeyStays
  <2>4. QED
    BY <2>3
<1>4. CASE NotFoundMark(r)
  <2>1. /\ pc[r] \in {"nfSearch", "nfEmp"} /\ UNCHANGED <<mutex, prunePc, scanned>>
        /\ marks'["inProgress"] = marks["inProgress"]
    BY <1>0, <1>4 DEF NotFoundMark, HSetMark
  <2>2. PICK p \in {"nfEmp", "nfUnlock"} : Goto(r, p)
    BY <1>4 DEF NotFoundMark, Advance
  <2>3. RequestStep(r, p)
    BY <2>1, <2>2 DEF RequestStep, HashStep, KeyStays
  <2>4. QED
    BY <2>3
<1>5. QED
  BY <1>1, <1>2, <1>3, <1>4

LEMMA RequestSteps ==
    ASSUME TypeInv, Intended, NobodyClears, NEW r \in Req,
           Start(r) \/ Locking(r) \/ Working(r) \/ Crash(r)
    PROVE  \E p : RequestStep(r, p)
<1>1. ~Clear(r)
  BY DEF Clear, NobodyClears
<1>2. QED
  BY <1>1, StartMoves, LockingMoves, UnlockingMoves, ReadingMoves, FillMoves,
     MutatingMoves, SectionMoves DEF Working

-----------------------------------------------------------------------------
(* The prune loops, and the keys *)

PrunerPlace(p) ==
    IF p \in {"scan", "delete", "unlock"} THEN "inside"
    ELSE IF p = "lock" THEN "waiting" ELSE "out"

LEMMA PrunerMoves ==
    ASSUME UNCHANGED pc, NEW h \in MarkerHash
    PROVE  /\ WhereOf(h)[Pruner] = PrunerPlace(prunePc[h])
           /\ Moves(h, Pruner, PrunerPlace(prunePc'[h]))
<1>1. /\ WhereOf(h)[Pruner] = PrunerPlace(prunePc[h])
      /\ WhereOf(h)'[Pruner] = PrunerPlace(prunePc'[h])
  BY LockingAssumption
     DEF WhereOf, Inside, Waiting, Holders, Waiters, LockClient, PrunerPlace, PrunerHolds
<1>2. \A q \in Req : WhereOf(h)'[q] = WhereOf(h)[q]
  BY LockingAssumption
     DEF WhereOf, Inside, Waiting, Holders, Waiters, LockClient
<1>3. \A c \in LockClient :
          WhereOf(h)'[c] = IF c = Pruner THEN PrunerPlace(prunePc'[h]) ELSE WhereOf(h)[c]
  BY <1>1, <1>2 DEF LockClient
<1>4. QED
  BY <1>1, <1>3, WhereType DEF Moves

\* While neither its loop nor its mutex moves, nothing happens to a mutex.
LEMMA OtherHash ==
    ASSUME UNCHANGED pc, NEW h \in MarkerHash, prunePc'[h] = prunePc[h], KeyStays(h)
    PROVE  KeyStep(h)
<1>1. WhereOf(h)' = WhereOf(h)
  BY PrunerMoves, WhereType DEF Moves
<1>2. QED
  BY <1>1 DEF KeyStep

PruneStep(h) ==
    PruneTick(h) \/ PruneScan(h) \/ PruneDelete(h) \/ PruneUnlock(h) \/ PruneLock(h)

LEMMA PruneKey ==
    ASSUME TypeInv, Intended, NEW g \in MarkerHash, PruneStep(g), UNCHANGED pc,
           NEW h \in MarkerHash
    PROVE  KeyStep(h)
<1>1. prunePc \in [MarkerHash -> {"idle", "lock", "scan", "delete", "unlock"}]
      /\ mutex \in [MarkerHash -> BOOLEAN]
  BY DEF TypeInv, TypeOK, CacheOK
<1>2. CASE h # g
  <2>1. prunePc'[h] = prunePc[h] /\ KeyStays(h)
    BY <1>1, <1>2 DEF PruneStep, PruneTick, PruneScan, PruneDelete, PruneUnlock, PruneLock,
                      PruneTo, Lock, Unlock, KeyStays
  <2>2. QED
    BY <2>1, OtherHash
<1>3. CASE h = g
  <2>1. /\ WhereOf(g)[Pruner] = PrunerPlace(prunePc[g])
        /\ Moves(g, Pruner, PrunerPlace(prunePc'[g]))
    BY PrunerMoves
  <2>2. CASE PruneScan(g) \/ PruneDelete(g)
    <3>1. PrunerPlace(prunePc[g]) = "inside" /\ PrunerPlace(prunePc'[g]) = "inside"
          /\ KeyStays(g)
      BY <1>1, <2>2 DEF PruneScan, PruneDelete, PruneTo, PrunerPlace, KeyStays
    <3>2. WhereOf(g)' = WhereOf(g)
      BY <2>1, <3>1, WhereType DEF Moves
    <3>3. QED
      BY <1>3, <3>1, <3>2 DEF KeyStep
  <2>3. CASE PruneTick(g) \/ PruneLock(g) \/ PruneUnlock(g)
    <3>1. \/ /\ PrunerPlace(prunePc[g]) = "out" /\ PrunerPlace(prunePc'[g]) = "waiting"
             /\ KeyStays(g)
          \/ /\ PrunerPlace(prunePc[g]) = "waiting" /\ PrunerPlace(prunePc'[g]) = "inside"
             /\ ~mutex[g] /\ mutex'[g] = TRUE
          \/ /\ PrunerPlace(prunePc[g]) = "inside" /\ PrunerPlace(prunePc'[g]) = "out"
             /\ mutex'[g] = FALSE \/ KeyStays(g)
      BY <1>1, <2>3 DEF PruneTick, PruneLock, PruneUnlock, PruneTo, PrunerPlace, KeyStays,
                        Lock, Unlock, Intended
    <3>2. ClientStep(g, Pruner)
      BY <2>1, <3>1 DEF ClientStep
    <3>3. QED
      BY <1>3, <3>2 DEF KeyStep, LockClient
  <2>4. QED
    BY <2>2, <2>3 DEF PruneStep
<1>4. QED
  BY <1>2, <1>3

\* The hash does not change between its scan and its deletion, nor does the one
\* loop change the hash of the other.
LEMMA PruneUndisturbs ==
    ASSUME TypeInv, PruneUndisturbed, NEW g \in MarkerHash, PruneStep(g)
    PROVE  PruneUndisturbed'
<1>1. /\ prunePc \in [MarkerHash -> {"idle", "lock", "scan", "delete", "unlock"}]
      /\ marks \in [MarkerHash -> SUBSET Field] /\ scanned \in [MarkerHash -> SUBSET Field]
  BY DEF TypeInv, TypeOK, CacheOK
<1> SUFFICES ASSUME NEW h \in MarkerHash, prunePc'[h] = "delete"
             PROVE  marks'[h] = scanned'[h]
  BY DEF PruneUndisturbed, MarkerHash
<1>2. CASE h # g
  BY <1>1, <1>2 DEF PruneStep, PruneTick, PruneScan, PruneDelete, PruneUnlock, PruneLock,
                    PruneTo, HDelMarks, PruneUndisturbed
<1>3. CASE h = g
  BY <1>1, <1>3 DEF PruneStep, PruneTick, PruneScan, PruneDelete, PruneUnlock, PruneLock,
                    PruneTo, HDelMarks
<1>4. QED
  BY <1>2, <1>3

LEMMA KeyMoves ==
    ASSUME TypeInv, Intended, NEW g \in MarkerHash, LockUnawares(g) \/ Expire(g),
           NEW h \in MarkerHash
    PROVE  KeyStep(h)
<1>1. mutex \in [MarkerHash -> BOOLEAN]
  BY DEF TypeInv, TypeOK, CacheOK
<1>2. UNCHANGED <<pc, prunePc>>
  BY DEF LockUnawares, Expire
<1>3. CASE h # g
  BY <1>1, <1>2, <1>3, OtherHash DEF LockUnawares, Expire, KeyStays
<1>4. CASE h = g
  <2>1. WhereOf(g)' = WhereOf(g)
    BY <1>2, PrunerMoves, WhereType DEF Moves
  <2>2. CASE LockUnawares(g)
    <3>1. PICK c \in LockClient : WhereOf(g)[c] = "waiting"
      BY <2>2, LockingAssumption
         DEF LockUnawares, WhereOf, Inside, Waiting, Holders, Waiters, LockClient, PrunerHolds
    <3>2. ClientStep(g, c)
      BY <1>1, <2>1, <2>2, <3>1 DEF LockUnawares, ClientStep
    <3>3. QED
      BY <1>4, <3>2 DEF KeyStep
  <2>3. CASE Expire(g)
    <3>1. \A c \in LockClient : WhereOf(g)[c] # "inside"
      BY <2>3 DEF Expire, WhereOf, Inside, Intended
    <3>2. QED
      BY <1>1, <1>4, <2>1, <2>3, <3>1 DEF Expire, KeyStep
  <2>4. QED
    BY <2>2, <2>3
<1>5. QED
  BY <1>3, <1>4

-----------------------------------------------------------------------------
(* The invariant, and the theorems *)

LEMMA LockingInit == Init => SectionsInv
<1> SUFFICES ASSUME Init PROVE SectionsInv
  OBVIOUS
<1>1. \A h \in MarkerHash : OneInside(h)
  <2> SUFFICES ASSUME NEW h \in MarkerHash, NEW c \in LockClient,
                      WhereOf(h)[c] = "inside"
               PROVE  FALSE
    BY DEF OneInside
  <2>1. Inside(h) = {}
    BY DEF Init, CacheInit, Inside, Holders, PrunerHolds
  <2>2. QED
    BY <2>1, OwnerIs
<1>2. NobodyClears /\ PruneUndisturbed
  BY DEF Init, CacheInit, NobodyClears, ClearPcs, PruneUndisturbed
<1>3. QED
  BY <1>1, <1>2 DEF SectionsInv

\* Whatever steps, each mutex makes one step of RedisMutex or none.
LEMMA LockingNext ==
    ASSUME TypeInv, Intended, SectionsInv, [Next]_vars
    PROVE  SectionsInv' /\ \A h \in MarkerHash : KeyStep(h)
<1>1. CASE UNCHANGED vars
  <2>1. \A h \in MarkerHash : KeyStep(h)
    BY <1>1, OtherHash DEF vars, cacheVars, KeyStays
  <2>2. NobodyClears' /\ PruneUndisturbed'
    BY <1>1 DEF vars, cacheVars, SectionsInv, NobodyClears, PruneUndisturbed
  <2>3. QED
    BY <2>1, <2>2, KeyStepKeeps DEF SectionsInv, MarkerHash
<1>2. ASSUME NEW r \in Req, Start(r) \/ Locking(r) \/ Working(r) \/ Crash(r)
      PROVE  SectionsInv' /\ \A h \in MarkerHash : KeyStep(h)
  <2>1. PICK p : RequestStep(r, p)
    BY <1>2, RequestSteps DEF SectionsInv
  <2>2. QED
    BY <2>1, RequestKey, RequestLocking
<1>3. ASSUME NEW g \in MarkerHash, PruneWork(g) \/ Pruning(g, PruneLock(g))
      PROVE  SectionsInv' /\ \A h \in MarkerHash : KeyStep(h)
  <2>1. PruneStep(g) /\ UNCHANGED pc
    BY <1>3 DEF PruneWork, Pruning, PruneStep
  <2>2. \A h \in MarkerHash : KeyStep(h)
    BY <2>1, PruneKey
  <2>3. NobodyClears' /\ PruneUndisturbed'
    BY <2>1, PruneUndisturbs DEF SectionsInv, NobodyClears
  <2>4. QED
    BY <2>2, <2>3, KeyStepKeeps DEF SectionsInv, MarkerHash
<1>4. ASSUME NEW g \in MarkerHash, LockUnawares(g) \/ Expire(g)
      PROVE  SectionsInv' /\ \A h \in MarkerHash : KeyStep(h)
  <2>1. \A h \in MarkerHash : KeyStep(h)
    BY <1>4, KeyMoves
  <2>2. NobodyClears' /\ PruneUndisturbed'
    BY <1>4 DEF LockUnawares, Expire, SectionsInv, NobodyClears, PruneUndisturbed
  <2>3. QED
    BY <2>1, <2>2, KeyStepKeeps DEF SectionsInv, MarkerHash
<1>5. QED
  BY <1>1, <1>2, <1>3, <1>4 DEF Next

LEMMA LockingInvariant == ASSUME Intended PROVE Spec => []SectionsInv
<1>1. TypeInv /\ SectionsInv /\ [Next]_vars => SectionsInv'
  BY LockingNext
<1>2. QED
  BY <1>1, LockingInit, TypeCorrect, PTL DEF Spec, TypeInv

\* Between the HSCAN and the HDEL of a prune loop its hash does not change
\* (redis.go:95-110), whatever requests there are and whatever fails.
THEOREM Undisturbed == ASSUME Intended PROVE Spec => []PruneUndisturbed
<1>1. SectionsInv => PruneUndisturbed
  BY DEF SectionsInv
<1>2. QED
  BY <1>1, LockingInvariant, PTL

\* Requests and the prune loop are in the sections of a hash one at a time
\* (redis.go:187-247).
THEOREM SectionsApart ==
    ASSUME Intended
    PROVE  Spec => [](\A h \in MarkerHash, c, d \in LockClient :
                          c \in Inside(h) /\ d \in Inside(h) => c = d /\ mutex[h])
<1>1. SectionsInv => \A h \in MarkerHash, c, d \in LockClient :
                        c \in Inside(h) /\ d \in Inside(h) => c = d /\ mutex[h]
  BY OwnerIs DEF SectionsInv, OneInside
<1>2. QED
  BY <1>1, LockingInvariant, PTL

LEMMA InitMutex ==
    ASSUME Init, NEW h \in MarkerHash PROVE Mutex(h)!Init
<1>1. Inside(h) = {} /\ Waiting(h) = {} /\ ~mutex[h]
  BY DEF Init, CacheInit, Inside, Waiting, Holders, Waiters, PrunerHolds
<1>2. WhereOf(h) = [c \in LockClient |-> "out"] /\ OwnerOf(h) = NoClient
  BY <1>1 DEF WhereOf, OwnerOf
<1>3. mutex[h] = FALSE
  BY DEF Init, CacheInit
<1>4. QED
  BY <1>2, <1>3 DEF Mutex!Init

LEMMA SameInProgress ==
    /\ Mutex("inProgress")!Next <=> InProgressMutex!Next
    /\ Mutex("inProgress")!vars = InProgressMutex!vars
    /\ Mutex("inProgress")!Init <=> InProgressMutex!Init
BY DEF Mutex!Init, InProgressMutex!Init,
          Mutex!Next, Mutex!ClientNext, Mutex!Call, Mutex!Acquire, Mutex!AcquireUnawares,
          Mutex!GiveUp, Mutex!Release, Mutex!Crash, Mutex!Abandon, Mutex!Move, Mutex!Expire,
          Mutex!Clear, Mutex!Close, Mutex!vars,
          InProgressMutex!Next, InProgressMutex!ClientNext, InProgressMutex!Call,
          InProgressMutex!Acquire, InProgressMutex!AcquireUnawares, InProgressMutex!GiveUp,
          InProgressMutex!Release, InProgressMutex!Crash, InProgressMutex!Abandon,
          InProgressMutex!Move, InProgressMutex!Expire, InProgressMutex!Clear,
          InProgressMutex!Close, InProgressMutex!vars

\* The requests and the prune loops use the in-progress mutex as RedisMutex says
\* clients do (redis.go:95-96, 471-472, 606-607, 633-634).
THEOREM InProgressRefines == ASSUME Intended PROVE Spec => InProgressIsMutex
<1>1. Init => InProgressMutex!Init
  BY InitMutex, SameInProgress DEF MarkerHash
<1>2. TypeInv /\ SectionsInv /\ [Next]_vars =>
        UNCHANGED InProgressMutex!vars \/ InProgressMutex!Next
  <2> SUFFICES ASSUME TypeInv, SectionsInv, [Next]_vars
               PROVE  UNCHANGED InProgressMutex!vars \/ InProgressMutex!Next
    OBVIOUS
  <2>1. UNCHANGED Mutex("inProgress")!vars \/ Mutex("inProgress")!Next
    BY LockingNext, KeyStepRefines DEF SectionsInv, MarkerHash
  <2>2. QED
    BY <2>1, SameInProgress DEF Mutex!vars, InProgressMutex!vars
<1>3. QED
  BY <1>1, <1>2, LockingInvariant, TypeCorrect, PTL DEF Spec, TypeInv, InProgressIsMutex

LEMMA SameNotFound ==
    /\ Mutex("notFound")!Next <=> NotFoundMutex!Next
    /\ Mutex("notFound")!vars = NotFoundMutex!vars
    /\ Mutex("notFound")!Init <=> NotFoundMutex!Init
BY DEF Mutex!Init, NotFoundMutex!Init,
          Mutex!Next, Mutex!ClientNext, Mutex!Call, Mutex!Acquire, Mutex!AcquireUnawares,
          Mutex!GiveUp, Mutex!Release, Mutex!Crash, Mutex!Abandon, Mutex!Move, Mutex!Expire,
          Mutex!Clear, Mutex!Close, Mutex!vars,
          NotFoundMutex!Next, NotFoundMutex!ClientNext, NotFoundMutex!Call,
          NotFoundMutex!Acquire, NotFoundMutex!AcquireUnawares, NotFoundMutex!GiveUp,
          NotFoundMutex!Release, NotFoundMutex!Crash, NotFoundMutex!Abandon,
          NotFoundMutex!Move, NotFoundMutex!Expire, NotFoundMutex!Clear,
          NotFoundMutex!Close, NotFoundMutex!vars

\* And so they use the not-found mutex (redis.go:155-156, 656-657).
THEOREM NotFoundRefines == ASSUME Intended PROVE Spec => NotFoundIsMutex
<1>1. Init => NotFoundMutex!Init
  BY InitMutex, SameNotFound DEF MarkerHash
<1>2. TypeInv /\ SectionsInv /\ [Next]_vars =>
        UNCHANGED NotFoundMutex!vars \/ NotFoundMutex!Next
  <2> SUFFICES ASSUME TypeInv, SectionsInv, [Next]_vars
               PROVE  UNCHANGED NotFoundMutex!vars \/ NotFoundMutex!Next
    OBVIOUS
  <2>1. UNCHANGED Mutex("notFound")!vars \/ Mutex("notFound")!Next
    BY LockingNext, KeyStepRefines DEF SectionsInv, MarkerHash
  <2>2. QED
    BY <2>1, SameNotFound DEF Mutex!vars, NotFoundMutex!vars
<1>3. QED
  BY <1>1, <1>2, LockingInvariant, TypeCorrect, PTL DEF Spec, TypeInv, NotFoundIsMutex
=============================================================================
