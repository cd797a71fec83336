--------------------------- MODULE EmployeeProofs ---------------------------
(***************************************************************************)
(* Theorems about EmployeeLogic, for every value of its constants: its     *)
(* types; why a cached employee is out of date; and that the cache is      *)
(* exact while mutation is disabled.                                       *)
(***************************************************************************)
EXTENDS EmployeeLogic, TLAPS

-----------------------------------------------------------------------------
(***************************************************************************)
(* Type correctness                                                        *)
(***************************************************************************)

\* The inductive invariant: TypeOK alone is not inductive, as a request that
\* had no attempt left could count one too many.
TypeInv == TypeOK /\ RequestInv

\* Its half about the requests, which most steps change at one request only.
ReqInv == RequestOK /\ RequestInv

LEMMA TypeInvSplit ==
    /\ TypeInv <=> TableOK /\ CacheOK /\ ReqInv /\ lapsed \in SUBSET Emp
    /\ TypeInv' <=> TableOK' /\ CacheOK' /\ ReqInv' /\ lapsed' \in SUBSET Emp
BY DEF TypeInv, TypeOK, ReqInv, Emp

-----------------------------------------------------------------------------
(* The values the steps use *)

LEMMA EmptyJob == NoJob \in Job /\ NoRows \in [Emp -> Version] /\ NoRow \in Version
BY TableAssumption, CacheAssumption, LogicAssumption
   DEF NoJob, NoRows, NoRow, Job, Version, Emp

LEMMA Fields ==
    /\ \A e \in Emp : EmpField(e) \in Field
    /\ \A s \in Searches : SearchField(s) \in Field
BY DEF Field

LEMMA LockType ==
    ASSUME CacheOK, NEW h, Lock(h) \/ Unlock(h)
    PROVE  mutex' \in [MarkerHash -> BOOLEAN]
BY DEF CacheOK, Lock, Unlock

LEMMA UnchangedTable == ASSUME TableOK, UNCHANGED tableVars PROVE TableOK'
BY DEF TableOK, tableVars, Emp, Version

LEMMA UnchangedCache == ASSUME CacheOK, UNCHANGED cacheVars PROVE CacheOK'
BY DEF CacheOK, cacheVars, Emp, Version, Field, EmpField, SearchField, MarkerHash

-----------------------------------------------------------------------------
(* One request moves *)

LEMMA JobInv ==
    ASSUME ReqInv, NEW r \in Req, NEW p \in Pc, NEW j \in Job, LocalInv(p, j),
           Goto(r, p), job' = [job EXCEPT ![r] = j]
    PROVE  ReqInv'
<1>1. RequestOK'
  BY DEF ReqInv, RequestOK, Goto
<1>2. ASSUME NEW q \in Req PROVE LocalInv(pc'[q], job'[q])
  <2>1. CASE q = r
    BY <2>1 DEF ReqInv, RequestOK, Goto
  <2>2. CASE q # r
    <3>1. pc'[q] = pc[q] /\ job'[q] = job[q]
      BY <2>2 DEF ReqInv, RequestOK, Goto
    <3>2. QED
      BY <3>1 DEF ReqInv, RequestInv
  <2>3. QED
    BY <2>1, <2>2
<1>3. QED
  BY <1>1, <1>2 DEF ReqInv, RequestInv, LocalInv, Emp

LEMMA AdvanceInv ==
    ASSUME ReqInv, NEW r \in Req, NEW p \in Pc, LocalInv(p, job[r]), Advance(r, p)
    PROVE  ReqInv'
<1>1. job[r] \in Job /\ job' = [job EXCEPT ![r] = job[r]]
  BY DEF ReqInv, RequestOK, Advance
<1>2. QED
  BY <1>1, JobInv DEF Advance

LEMMA AnswerInv == ASSUME ReqInv, NEW r \in Req, Answer(r) PROVE ReqInv'
<1>1. "idle" \in Pc /\ LocalInv("idle", NoJob)
  BY DEF Pc, LocalInv, ReadPcs
<1>2. QED
  BY <1>1, EmptyJob, JobInv DEF Answer

LEMMA RetryInv ==
    ASSUME ReqInv, NEW r \in Req, job[r].tries < MaxTries, job[r].emp \in Emp, Retry(r)
    PROVE  ReqInv'
<1> DEFINE j == [job[r] EXCEPT !.tries = @ + 1]
           p == IF job[r].tries + 1 < MaxTries THEN "get" ELSE "select"
<1>1. job[r] \in Job
  BY DEF ReqInv, RequestOK
<1>2. j \in Job /\ j.tries = job[r].tries + 1 /\ j.emp = job[r].emp
  BY <1>1, LogicAssumption DEF Job
<1>3. p \in Pc /\ LocalInv(p, j)
  BY <1>2 DEF Pc, ReadPcs, LocalInv
<1>4. Goto(r, p) /\ job' = [job EXCEPT ![r] = j]
  BY DEF Retry
<1>5. QED
  BY <1>2, <1>3, <1>4, JobInv

-----------------------------------------------------------------------------
(* The steps of a request preserve the invariant *)

LEMMA BeginInv ==
    ASSUME TypeInv, NEW r \in Req, NEW op, NEW p \in Pc, NEW j \in Job,
           LocalInv(p, j), Begin(r, op, p, j)
    PROVE  TypeInv'
<1>1. ReqInv'
  BY JobInv, TypeInvSplit DEF Begin
<1>2. QED
  BY <1>1, TypeInvSplit, UnchangedTable, UnchangedCache DEF Begin

LEMMA StartInv == ASSUME TypeInv, NEW r \in Req, Start(r) PROVE TypeInv'
<1>0. ASSUME NEW e \in Emp PROVE e \in 0 .. MaxEmp
  BY TableAssumption DEF Emp
<1>1. \A e \in Emp : [NoJob EXCEPT !.emp = e] \in Job /\ [NoJob EXCEPT !.emp = e].emp = e
  BY <1>0, EmptyJob DEF Job, NoJob
<1>2. \A e \in Emp : [NoJob EXCEPT !.emp = e].tries < MaxTries
  BY LogicAssumption DEF NoJob
<1>3. \A s \in Searches : [NoJob EXCEPT !.search = s] \in Job
  BY EmptyJob DEF Job, NoJob
<1> USE DEF LocalInv, Pc, ReadPcs, SearchPcs, MutatePcs, ClearPcs
<1>4. CASE StartRead(r)
  BY <1>1, <1>2, <1>4, BeginInv DEF StartRead
<1>5. CASE StartSearch(r)
  BY <1>3, <1>5, BeginInv DEF StartSearch
<1>6. CASE StartUpdate(r)
  BY <1>1, <1>6, BeginInv DEF StartUpdate
<1>7. CASE StartDelete(r)
  BY <1>1, <1>7, BeginInv DEF StartDelete
<1>8. CASE StartCreate(r)
  BY EmptyJob, <1>8, BeginInv DEF StartCreate
<1>9. CASE StartClear(r)
  BY EmptyJob, <1>9, BeginInv DEF StartClear
<1>10. QED
  BY <1>4, <1>5, <1>6, <1>7, <1>8, <1>9 DEF Start

LEMMA CacheGetInv == ASSUME TypeInv, NEW r \in Req, CacheGet(r) PROVE TypeInv'
<1> USE TypeInvSplit DEF CacheGet
<1>1. job[r].tries < MaxTries /\ job[r].emp \in Emp
  BY DEF ReqInv, RequestInv, LocalInv, ReadPcs
<1>2. "select" \in Pc /\ LocalInv("select", job[r])
      /\ "markLock" \in Pc /\ LocalInv("markLock", job[r])
  BY <1>1 DEF Pc, ReadPcs, LocalInv
<1>3. ReqInv'
  BY <1>1, <1>2, AdvanceInv, AnswerInv, RetryInv
<1>4. QED
  BY <1>3, UnchangedTable, UnchangedCache

LEMMA LockStepInv ==
    ASSUME TypeInv, NEW r \in Req, NEW h, NEW from, NEW to \in Pc,
           LocalInv(to, job[r]), LockStep(r, h, from, to)
    PROVE  TypeInv'
<1> USE TypeInvSplit DEF LockStep
<1>1. ReqInv'
  BY AdvanceInv
<1>2. CacheOK'
  BY LockType DEF CacheOK
<1>3. QED
  BY <1>1, <1>2, UnchangedTable

LEMMA LockingInv == ASSUME TypeInv, NEW r \in Req, Locking(r) PROVE TypeInv'
<1> USE DEF Pc, ReadPcs, FillPcs, NotFoundPcs, MutatePcs
<1>1. LocalInv(pc[r], job[r])
  BY DEF TypeInv, RequestInv
<1>2. CASE MarkLock(r)
  <2>1. LocalInv("mark", job[r])
    BY <1>1, <1>2 DEF LocalInv, MarkLock, LockStep
  <2>2. QED
    BY <1>2, <2>1, LockStepInv DEF MarkLock
<1>3. CASE UnmarkLock(r)
  BY <1>3, LockStepInv DEF UnmarkLock, LocalInv
<1>4. CASE NotFoundLock(r)
  BY <1>4, LockStepInv DEF NotFoundLock, LocalInv
<1>5. CASE EvictLock(r)
  <2>1. LocalInv("evictAgain", job[r])
    BY <1>1, <1>5 DEF LocalInv, EvictLock, LockStep
  <2>2. QED
    BY <1>5, <2>1, LockStepInv DEF EvictLock
<1>6. QED
  BY <1>2, <1>3, <1>4, <1>5 DEF Locking

LEMMA UnlockInv ==
    ASSUME TypeInv, NEW r \in Req, NEW h, NEW from, UnlockStep(r, h, from), ReqInv'
    PROVE  TypeInv'
<1> USE TypeInvSplit DEF UnlockStep
<1>1. CacheOK'
  BY LockType DEF CacheOK
<1>2. QED
  BY <1>1, UnchangedTable

LEMMA UnlockingInv ==
    ASSUME TypeInv, NEW r \in Req,
           MarkUnlock(r) \/ FillUnlock(r) \/ NotFoundUnlock(r) \/ EvictUnlock(r)
    PROVE  TypeInv'
<1>0. ReqInv /\ LocalInv(pc[r], job[r])
  BY TypeInvSplit DEF TypeInv, RequestInv
<1>1. CASE MarkUnlock(r)
  <2>1. CASE UnlockStep(r, "inProgress", "markUnlock") /\ Advance(r, "select")
    <3>1. "select" \in Pc /\ LocalInv("select", job[r])
      BY <1>0, <2>1 DEF UnlockStep, LocalInv, Pc, ReadPcs
    <3>2. QED
      BY <1>0, <2>1, <3>1, AdvanceInv, UnlockInv
  <2>2. CASE UnlockStep(r, "inProgress", "retryUnlock") /\ Retry(r)
    <3>1. job[r].tries < MaxTries /\ job[r].emp \in Emp
      BY <1>0, <2>2 DEF UnlockStep, LocalInv, ReadPcs
    <3>2. QED
      BY <1>0, <2>2, <3>1, RetryInv, UnlockInv
  <2>3. QED
    BY <1>1, <2>1, <2>2 DEF MarkUnlock
<1>2. CASE FillUnlock(r) \/ NotFoundUnlock(r) \/ EvictUnlock(r)
  BY <1>0, <1>2, AnswerInv, UnlockInv DEF FillUnlock, NotFoundUnlock, EvictUnlock
<1>3. QED
  BY <1>1, <1>2

LEMMA MarkInv == ASSUME TypeInv, NEW r \in Req, Mark(r) PROVE TypeInv'
<1> USE TypeInvSplit
<1>1. LocalInv(pc[r], job[r]) /\ pc[r] = "mark"
  BY DEF TypeInv, RequestInv, Mark
<1>2. "retryUnlock" \in Pc /\ LocalInv("retryUnlock", job[r])
      /\ "markUnlock" \in Pc /\ LocalInv("markUnlock", job[r])
  BY <1>1 DEF LocalInv, Pc, ReadPcs
<1>3. ReqInv'
  BY <1>2, AdvanceInv DEF Mark
<1>4. EmpField(job[r].emp) \in Field
  BY <1>1, Fields DEF LocalInv, ReadPcs
<1>5. marks' \in [MarkerHash -> SUBSET Field]
  BY <1>4 DEF Mark, HSetMark, CacheOK, MarkerHash
<1>6. CacheOK'
  BY <1>5 DEF CacheOK, Mark
<1>7. QED
  BY <1>3, <1>6, UnchangedTable DEF Mark

LEMMA SearchGetInv == ASSUME TypeInv, NEW r \in Req, SearchGet(r) PROVE TypeInv'
<1> USE TypeInvSplit DEF SearchGet
<1> DEFINE j == [job[r] EXCEPT !.todo = searches[job[r].search]]
<1>1. job[r] \in Job
  BY DEF ReqInv, RequestOK
<1>2. searches[job[r].search] \in SUBSET Emp
  BY <1>1 DEF Job, CacheOK
<1>3. j \in Job
  BY <1>1, <1>2 DEF Job
<1>4. \A p \in {"searchSql", "searchHits"} :
        p \in Pc /\ LocalInv(p, job[r]) /\ LocalInv(p, j)
  BY DEF LocalInv, Pc, ReadPcs, SearchPcs
<1>5. ReqInv'
  BY <1>3, <1>4, AdvanceInv, JobInv
<1>6. QED
  BY <1>5, UnchangedTable, UnchangedCache

LEMMA SearchHitInv == ASSUME TypeInv, NEW r \in Req, SearchHit(r) PROVE TypeInv'
<1> USE TypeInvSplit DEF SearchHit
<1>1. job[r] \in Job
  BY DEF ReqInv, RequestOK
<1>2. ASSUME NEW T \in SUBSET job[r].todo
      PROVE  [job[r] EXCEPT !.todo = T] \in Job
  BY <1>1 DEF Job
<1>3. \A p \in {"searchSql", "searchHits"} : p \in Pc /\ \A j : LocalInv(p, j)
  BY DEF LocalInv, Pc, ReadPcs, SearchPcs
<1>4. ReqInv'
  <2>1. PICK e \in job[r].todo :
          \/ Goto(r, "searchSql") /\ job' = [job EXCEPT ![r].todo = {}]
          \/ Answer(r)
          \/ Goto(r, "searchHits") /\ job' = [job EXCEPT ![r].todo = @ \ {e}]
    OBVIOUS
  <2>2. CASE Goto(r, "searchSql") /\ job' = [job EXCEPT ![r].todo = {}]
    <3>1. job' = [job EXCEPT ![r] = [job[r] EXCEPT !.todo = {}]]
      BY <2>2
    <3>2. QED
      BY <1>2, <1>3, <2>2, <3>1, JobInv
  <2>3. CASE Goto(r, "searchHits") /\ job' = [job EXCEPT ![r].todo = @ \ {e}]
    <3>1. job' = [job EXCEPT ![r] = [job[r] EXCEPT !.todo = job[r].todo \ {e}]]
      BY <2>3
    <3>2. QED
      BY <1>2, <1>3, <2>3, <3>1, JobInv
  <2>4. QED
    BY <2>1, <2>2, <2>3, AnswerInv
<1>5. QED
  BY <1>4, UnchangedTable, UnchangedCache

LEMMA CarryInv ==
    ASSUME TypeInv, NEW r \in Req, NEW found \in SUBSET Rows, Carry(r, found)
    PROVE  TypeInv'
<1> USE TypeInvSplit DEF Carry
<1> DEFINE g == [e \in Emp |-> IF e \in found THEN table[e] ELSE NoRow]
           j == [job[r] EXCEPT !.todo = found, !.got = g]
<1>1. job[r] \in Job
  BY DEF ReqInv, RequestOK
<1>2. found \in SUBSET Emp /\ g \in [Emp -> Version]
  BY EmptyJob DEF Rows, TableOK
<1>3. j \in Job
  BY <1>1, <1>2 DEF Job
<1>4. \A p \in {"nfLock", "fill"} : p \in Pc /\ \A k : LocalInv(p, k)
  BY DEF LocalInv, Pc, ReadPcs, FillPcs, NotFoundPcs
<1>5. CASE found = {}
  BY <1>4, <1>5, AdvanceInv, AnswerInv, UnchangedTable, UnchangedCache
<1>6. CASE found # {}
  <2>1. job' = [job EXCEPT ![r] = j]
    BY <1>6
  <2>2. ReqInv'
    BY <1>3, <1>4, <1>6, <2>1, JobInv
  <2>3. QED
    BY <2>2, UnchangedTable, UnchangedCache
<1>7. QED
  BY <1>5, <1>6

LEMMA FetchInv ==
    ASSUME TypeInv, NEW r \in Req, SelectRow(r) \/ SearchSql(r)
    PROVE  TypeInv'
<1>1. CASE SqlError(r)
  BY <1>1, TypeInvSplit, AnswerInv, UnchangedTable, UnchangedCache DEF SqlError
<1>2. CASE \E found \in SUBSET Rows : Carry(r, found)
  BY <1>2, CarryInv
<1>3. QED
  BY <1>1, <1>2 DEF SelectRow, SearchSql, Matching

LEMMA FillEmployeeInv == ASSUME TypeInv, NEW r \in Req, FillEmployee(r) PROVE TypeInv'
<1> USE TypeInvSplit
<1>1. PICK e \in job[r].todo, o \in RedisOutcomes :
        /\ HSetEmployee(o, e, job[r].got[e])
        /\ lapsed' \in {lapsed, lapsed \ {e}, lapsed \cup {e}}
        /\ \/ Answer(r)
           \/ /\ Goto(r, IF job[r].todo = {e} THEN "fillSearch" ELSE "fill")
              /\ job' = [job EXCEPT ![r].todo = @ \ {e}]
  BY DEF FillEmployee
<1> DEFINE j == [job[r] EXCEPT !.todo = job[r].todo \ {e}]
<1>2. job[r] \in Job
  BY DEF ReqInv, RequestOK
<1>3. e \in Emp /\ job[r].got[e] \in Version /\ j \in Job
  BY <1>2 DEF Job
<1>4. \A p \in {"fill", "fillSearch"} : p \in Pc /\ \A k : LocalInv(p, k)
  BY DEF LocalInv, Pc, ReadPcs, FillPcs
<1>5. ReqInv'
  <2>1. CASE Answer(r)
    BY <2>1, AnswerInv
  <2>2. CASE /\ Goto(r, IF job[r].todo = {e} THEN "fillSearch" ELSE "fill")
             /\ job' = [job EXCEPT ![r].todo = @ \ {e}]
    <3>1. job' = [job EXCEPT ![r] = j]
      BY <2>2
    <3>2. QED
      BY <1>3, <1>4, <2>2, <3>1, JobInv
  <2>3. QED
    BY <1>1, <2>1, <2>2
<1>6. CacheOK'
  BY <1>1, <1>3 DEF CacheOK, HSetEmployee, FillEmployee
<1>7. QED
  BY <1>1, <1>3, <1>5, <1>6, UnchangedTable DEF FillEmployee

LEMMA FillRestInv ==
    ASSUME TypeInv, NEW r \in Req, FillSearch(r) \/ Unmark(r)
    PROVE  TypeInv'
<1> USE TypeInvSplit
<1>1. job[r] \in Job
  BY DEF ReqInv, RequestOK
<1>2. \A p \in {"unmarkLock", "fillUnlock"} : p \in Pc /\ \A k : LocalInv(p, k)
  BY DEF LocalInv, Pc, ReadPcs, FillPcs
<1>3. CASE FillSearch(r)
  <2>1. ReqInv'
    BY <1>2, <1>3, AdvanceInv, AnswerInv DEF FillSearch
  <2>2. job[r].search \in Searches /\ Found(r) \in SUBSET Emp
    BY <1>1 DEF Job, Found
  <2>3. CacheOK'
    BY <1>3, <2>2 DEF FillSearch, HSetSearch, CacheOK
  <2>4. QED
    BY <1>3, <2>1, <2>3, UnchangedTable DEF FillSearch
<1>4. CASE Unmark(r)
  <2>1. ReqInv'
    BY <1>2, <1>4, AdvanceInv DEF Unmark
  <2>2. marks' \in [MarkerHash -> SUBSET Field]
    BY <1>4 DEF Unmark, HDelMarks, CacheOK, MarkerHash
  <2>3. CacheOK'
    BY <1>4, <2>2 DEF Unmark, CacheOK
  <2>4. QED
    BY <1>4, <2>1, <2>3, UnchangedTable DEF Unmark
<1>5. QED
  BY <1>3, <1>4

LEMMA NotFoundMarkInv == ASSUME TypeInv, NEW r \in Req, NotFoundMark(r) PROVE TypeInv'
<1> USE TypeInvSplit
<1>1. job[r] \in Job /\ LocalInv(pc[r], job[r])
  BY DEF ReqInv, RequestOK, RequestInv
<1>2. pc[r] = "nfSearch" /\ job[r].emp # 0 => job[r].emp \in Emp
  BY <1>1 DEF Job, Emp
<1>3. /\ "nfUnlock" \in Pc /\ LocalInv("nfUnlock", job[r])
      /\ "nfEmp" \in Pc
      /\ pc[r] = "nfSearch" /\ job[r].emp # 0 => LocalInv("nfEmp", job[r])
  BY <1>2 DEF LocalInv, Pc, ReadPcs, NotFoundPcs
<1>4. ReqInv'
  BY <1>3, AdvanceInv DEF NotFoundMark
<1>5. /\ SearchField(job[r].search) \in Field
      /\ pc[r] = "nfEmp" => EmpField(job[r].emp) \in Field
  BY <1>1, Fields DEF Job, LocalInv
<1>6. marks' \in [MarkerHash -> SUBSET Field]
  BY <1>5 DEF NotFoundMark, HSetMark, CacheOK, MarkerHash
<1>7. CacheOK'
  BY <1>6 DEF CacheOK, NotFoundMark
<1>8. QED
  BY <1>4, <1>7, UnchangedTable DEF NotFoundMark

-----------------------------------------------------------------------------
(* Mutations *)

LEMMA CommitType ==
    ASSUME TableOK, NEW e, commits # MaxCommits, Commit(e)
    PROVE  TableOK'
<1>1. commits + 1 \in 1 .. MaxCommits /\ commits + 1 \in Version
  BY TableAssumption DEF TableOK, Version
<1>2. QED
  BY <1>1 DEF TableOK, Commit

LEMMA RemoveType == ASSUME TableOK, NEW e, Remove(e) PROVE TableOK'
BY EmptyJob DEF TableOK, Remove

LEMMA UpdateRowInv == ASSUME TypeInv, NEW r \in Req, UpdateRow(r) PROVE TypeInv'
<1> USE TypeInvSplit
<1>1. job[r].emp \in Emp
  BY DEF ReqInv, RequestInv, LocalInv, UpdateRow
<1>2. "reread" \in Pc /\ LocalInv("reread", job[r])
  BY <1>1 DEF LocalInv, Pc, ReadPcs, MutatePcs
<1>3. ReqInv'
  BY <1>2, AdvanceInv, AnswerInv DEF UpdateRow
<1>4. TableOK'
  BY CommitType, UnchangedTable DEF UpdateRow, CommitOutcomes
<1>5. lapsed' \in SUBSET Emp
  BY <1>1 DEF UpdateRow, Lapse
<1>6. QED
  BY <1>3, <1>4, <1>5, UnchangedCache DEF UpdateRow

LEMMA RereadInv == ASSUME TypeInv, NEW r \in Req, Reread(r) PROVE TypeInv'
<1> USE TypeInvSplit
<1>1. job[r].emp \in Emp
  BY DEF ReqInv, RequestInv, LocalInv, Reread
<1>2. "evict" \in Pc /\ LocalInv("evict", job[r])
  BY <1>1 DEF LocalInv, Pc, ReadPcs, MutatePcs
<1>3. ReqInv'
  BY <1>2, AdvanceInv, AnswerInv DEF Reread
<1>4. lapsed' \in SUBSET Emp
  BY <1>1 DEF Reread, Lapse
<1>5. QED
  BY <1>3, <1>4, UnchangedTable, UnchangedCache DEF Reread

LEMMA DeleteRowInv == ASSUME TypeInv, NEW r \in Req, DeleteRow(r) PROVE TypeInv'
<1> USE TypeInvSplit
<1>1. job[r].emp \in Emp
  BY DEF ReqInv, RequestInv, LocalInv, DeleteRow
<1>2. "evict" \in Pc /\ LocalInv("evict", job[r])
  BY <1>1 DEF LocalInv, Pc, ReadPcs, MutatePcs
<1>3. ReqInv'
  BY <1>2, AdvanceInv, AnswerInv DEF DeleteRow
<1>4. TableOK'
  BY RemoveType, UnchangedTable DEF DeleteRow
<1>5. lapsed' \in SUBSET Emp
  BY <1>1 DEF DeleteRow, Lapse
<1>6. QED
  BY <1>3, <1>4, <1>5, UnchangedCache DEF DeleteRow

LEMMA EvictInv ==
    ASSUME TypeInv, NEW r \in Req, EvictFirst(r) \/ EvictAgain(r)
    PROVE  TypeInv'
<1> USE TypeInvSplit
<1>1. job[r].emp \in Emp
  BY DEF ReqInv, RequestInv, LocalInv, EvictFirst, EvictAgain
<1>2. \A p \in {"evictLock", "evictUnlock"} : p \in Pc /\ LocalInv(p, job[r])
  BY <1>1 DEF LocalInv, Pc, ReadPcs, MutatePcs
<1>3. ReqInv'
  BY <1>2, AdvanceInv, AnswerInv DEF EvictFirst, EvictAgain
<1>4. lapsed' \in SUBSET Emp
  BY <1>1 DEF EvictFirst, EvictAgain, Evict
<1>5. employees' \in [Emp -> Version]
  BY EmptyJob DEF EvictFirst, EvictAgain, Evict, HDelEmployee, HSetEmployee, CacheOK
<1>6. CacheOK'
  BY <1>5 DEF EvictFirst, EvictAgain, CacheOK
<1>7. QED
  BY <1>3, <1>4, <1>6, UnchangedTable DEF EvictFirst, EvictAgain

LEMMA CreateInv ==
    ASSUME TypeInv, NEW r \in Req, FindEmpNo(r) \/ Insert(r)
    PROVE  TypeInv'
<1> USE TypeInvSplit
<1>1. CASE FindEmpNo(r)
  <2>1. CASE Answer(r)
    BY <1>1, <2>1, AnswerInv, UnchangedTable, UnchangedCache DEF FindEmpNo
  <2>2. ASSUME NEW n \in Emp, Goto(r, "insert"), job' = [job EXCEPT ![r].emp = n]
        PROVE  ReqInv'
    <3> DEFINE j == [job[r] EXCEPT !.emp = n]
    <3>1. job[r] \in Job
      BY DEF ReqInv, RequestOK
    <3>2. n \in 0 .. MaxEmp
      BY TableAssumption DEF Emp
    <3>3. j \in Job /\ j.emp = n
      BY <3>1, <3>2 DEF Job
    <3>4. "insert" \in Pc /\ LocalInv("insert", j)
      BY <2>2, <3>3 DEF LocalInv, Pc, MutatePcs
    <3>5. job' = [job EXCEPT ![r] = j]
      BY <2>2
    <3>6. QED
      BY <2>2, <3>3, <3>4, <3>5, JobInv
  <2>3. QED
    BY <1>1, <2>1, <2>2, UnchangedTable, UnchangedCache DEF FindEmpNo
<1>2. CASE Insert(r)
  BY <1>2, AnswerInv, CommitType, UnchangedTable, UnchangedCache DEF Insert, CommitOutcomes
<1>3. QED
  BY <1>1, <1>2

-----------------------------------------------------------------------------
(* Clear, the environment, and the theorem *)

LEMMA ClearInv == ASSUME TypeInv, NEW r \in Req, Clear(r) PROVE TypeInv'
<1> USE TypeInvSplit
<1>1. ClearNext[pc[r]] \in Pc /\ LocalInv(ClearNext[pc[r]], job[r])
  BY DEF Clear, ClearPcs, ClearNext, LocalInv, Pc, ReadPcs
<1>2. ReqInv'
  BY <1>1, AdvanceInv, AnswerInv DEF Clear
<1>3. PICK d \in [ClearPcs -> BOOLEAN] :
        /\ employees' = IF d["clearEmployees"] THEN NoRows ELSE employees
        /\ lapsed' = IF d["clearEmployees"] THEN {} ELSE lapsed
        /\ searches' = IF d["clearSearches"] THEN [s \in Searches |-> {}] ELSE searches
        /\ marks' = [h \in MarkerHash |->
                       IF \/ h = "inProgress" /\ d["clearInProgress"]
                          \/ h = "notFound" /\ d["clearNotFound"]
                       THEN {} ELSE marks[h]]
        /\ mutex' = [h \in MarkerHash |->
                       /\ mutex[h]
                       /\ ~(h = "inProgress" /\ d["clearInProgressMutex"])
                       /\ ~(h = "notFound" /\ d["clearNotFoundMutex"])]
  <2>1. PICK o \in RedisOutcomes :
        LET deleted(p) == pc[r] = p /\ o # "failed" IN
          /\ employees' = IF deleted("clearEmployees") THEN NoRows ELSE employees
          /\ lapsed' = IF deleted("clearEmployees") THEN {} ELSE lapsed
          /\ searches' = IF deleted("clearSearches") THEN [s \in Searches |-> {}] ELSE searches
          /\ marks' = [h \in MarkerHash |->
                         IF \/ h = "inProgress" /\ deleted("clearInProgress")
                            \/ h = "notFound" /\ deleted("clearNotFound")
                         THEN {} ELSE marks[h]]
          /\ mutex' = [h \in MarkerHash |->
                         /\ mutex[h]
                         /\ ~(h = "inProgress" /\ deleted("clearInProgressMutex"))
                         /\ ~(h = "notFound" /\ deleted("clearNotFoundMutex"))]
    BY DEF Clear
  <2> DEFINE d == [p \in ClearPcs |-> pc[r] = p /\ o # "failed"]
  <2>2. d \in [ClearPcs -> BOOLEAN]
    OBVIOUS
  <2>3. QED
    BY <2>1, <2>2 DEF ClearPcs
<1>4. employees' \in [Emp -> Version] /\ lapsed' \in SUBSET Emp
  BY <1>3, EmptyJob DEF CacheOK
<1>5. searches' \in [Searches -> SUBSET Emp]
  BY <1>3 DEF CacheOK
<1>6. marks' \in [MarkerHash -> SUBSET Field] /\ mutex' \in [MarkerHash -> BOOLEAN]
  BY <1>3 DEF CacheOK
<1>7. CacheOK'
  BY <1>4, <1>5, <1>6 DEF CacheOK, Clear
<1>8. QED
  BY <1>2, <1>4, <1>7, UnchangedTable DEF Clear

LEMMA WorkingInv == ASSUME TypeInv, NEW r \in Req, Working(r) PROVE TypeInv'
BY CacheGetInv, MarkInv, UnlockingInv, FetchInv, SearchGetInv, SearchHitInv,
   FillEmployeeInv, FillRestInv, NotFoundMarkInv, UpdateRowInv, RereadInv,
   DeleteRowInv, EvictInv, CreateInv, ClearInv
   DEF Working

LEMMA CrashInv == ASSUME TypeInv, NEW r \in Req, Crash(r) PROVE TypeInv'
BY TypeInvSplit, AnswerInv, UnchangedTable, UnchangedCache DEF Crash, Lapse

LEMMA PruneInv ==
    ASSUME TypeInv, NEW h \in MarkerHash, PruneWork(h) \/ Pruning(h, PruneLock(h))
    PROVE  TypeInv'
<1> USE TypeInvSplit
<1>1. ReqInv' /\ TableOK' /\ lapsed' \in SUBSET Emp
  BY UnchangedTable DEF PruneWork, Pruning, ReqInv, RequestOK, RequestInv
<1>2. CASE PruneTick(h)
  BY <1>1, <1>2 DEF PruneTick, PruneTo, CacheOK
<1>3. CASE PruneLock(h)
  BY <1>1, <1>3, LockType DEF PruneLock, PruneTo, CacheOK
<1>4. CASE PruneScan(h)
  BY <1>1, <1>4 DEF PruneScan, PruneTo, CacheOK
<1>5. CASE PruneDelete(h)
  BY <1>1, <1>5 DEF PruneDelete, PruneTo, HDelMarks, CacheOK
<1>6. CASE PruneUnlock(h)
  BY <1>1, <1>6, LockType DEF PruneUnlock, PruneTo, CacheOK
<1>7. QED
  BY <1>2, <1>3, <1>4, <1>5, <1>6 DEF PruneWork, Pruning

LEMMA KeyInv ==
    ASSUME TypeInv, NEW h \in MarkerHash, LockUnawares(h) \/ Expire(h)
    PROVE  TypeInv'
<1> USE TypeInvSplit
<1>1. ReqInv' /\ TableOK' /\ lapsed' \in SUBSET Emp
  BY UnchangedTable DEF LockUnawares, Expire, ReqInv, RequestOK, RequestInv
<1>2. CacheOK'
  BY DEF LockUnawares, Expire, CacheOK
<1>3. QED
  BY <1>1, <1>2

\* The variables keep their types, no request counts more attempts at the cache
\* than it may make, and each step that needs an employee's number has one:
\* whatever requests, faults, crashes and prune loops do.
THEOREM TypeCorrect == Spec => [](TypeOK /\ RequestInv)
<1>1. Init => TypeInv
  <2> SUFFICES ASSUME Init PROVE TypeInv
    OBVIOUS
  <2>1. TableOK
    BY TableAssumption DEF Init, TableInit, TableOK, Version, NoRow
  <2>2. CacheOK
    BY EmptyJob DEF Init, CacheInit, CacheOK
  <2>3. ReqInv
    BY EmptyJob DEF Init, ReqInv, RequestOK, RequestInv, LocalInv, Pc, ReadPcs
  <2>4. QED
    BY <2>1, <2>2, <2>3, TypeInvSplit DEF Init
<1>2. TypeInv /\ [Next]_vars => TypeInv'
  <2> SUFFICES ASSUME TypeInv, [Next]_vars PROVE TypeInv'
    OBVIOUS
  <2>1. CASE UNCHANGED vars
    BY <2>1, TypeInvSplit, UnchangedTable, UnchangedCache
       DEF vars, ReqInv, RequestOK, RequestInv, tableVars
  <2>2. CASE Next
    BY <2>2, StartInv, LockingInv, WorkingInv, CrashInv, PruneInv, KeyInv DEF Next
  <2>3. QED
    BY <2>1, <2>2
<1>3. QED
  BY <1>1, <1>2, PTL DEF Spec, TypeInv

-----------------------------------------------------------------------------
(***************************************************************************)
(* Why a cached employee is out of date: an eviction is under way, or the  *)
(* entry is excused.  For any number of requests and employees.            *)
(***************************************************************************)

\* StaleHasCause is not inductive alone: an update that finds its row gone
\* returns without evicting, and it is DeletedIsEvicted that says who does.
FreshInv == StaleHasCause /\ DeletedIsEvicted

\* FreshInv for one employee.
FreshAt(e) ==
    /\ \/ employees[e] \in {NoRow, table[e]}
       \/ e \in lapsed
       \/ \E r \in Req : Evicting(r, e)
    /\ table[e] = NoRow /\ employees[e] # NoRow =>
            e \in lapsed \/ \E r \in Req : pc[r] = "evict" /\ job[r].emp = e

LEMMA FreshSplit ==
    /\ FreshInv <=> \A e \in Emp : FreshAt(e)
    /\ FreshInv' <=> \A e \in Emp : FreshAt(e)'
BY DEF FreshInv, StaleHasCause, DeletedIsEvicted, FreshAt, Emp, Evicting

-----------------------------------------------------------------------------
(* What a step of one request leaves alone *)

OthersStay(r) ==
    \A q \in Req \ {r} : pc'[q] = pc[q] /\ job'[q] = job[q]

LEMMA MoveOthers ==
    ASSUME TypeInv, NEW r \in Req, NEW p, NEW j, Goto(r, p),
           job' = [job EXCEPT ![r] = j]
    PROVE  OthersStay(r)
BY DEF OthersStay, Goto, TypeInv, TypeOK, RequestOK

LEMMA AdvanceOthers ==
    ASSUME TypeInv, NEW r \in Req, NEW p, Advance(r, p)
    PROVE  OthersStay(r) /\ job'[r] = job[r] /\ pc'[r] = p
BY DEF OthersStay, Advance, Goto, TypeInv, TypeOK, RequestOK

LEMMA AnswerOthers ==
    ASSUME TypeInv, NEW r \in Req, Answer(r) PROVE OthersStay(r)
BY MoveOthers DEF Answer

LEMMA RetryOthers ==
    ASSUME TypeInv, NEW r \in Req, Retry(r) PROVE OthersStay(r)
BY DEF OthersStay, Retry, Goto, TypeInv, TypeOK, RequestOK

\* An employee stays fresh if its row, its entry and its excuse stay and the
\* request that moves owes it no eviction.
LEMMA Elsewhere ==
    ASSUME NEW e \in Emp, FreshAt(e), NEW r \in Req, OthersStay(r),
           table'[e] = table[e], employees'[e] = employees[e],
           e \in lapsed => e \in lapsed', ~Evicting(r, e)
    PROVE  FreshAt(e)'
BY DEF FreshAt, OthersStay, Evicting

\* Most steps touch neither the table nor the entries.
LEMMA Bystander ==
    ASSUME FreshInv, NEW r \in Req, OthersStay(r),
           UNCHANGED <<table, employees, lapsed>>, pc[r] \notin {"reread", "evict"}
    PROVE  FreshInv'
BY Elsewhere, FreshSplit DEF Evicting

-----------------------------------------------------------------------------
(* Steps that touch neither the table nor the cached entries *)

LEMMA StartFresh == ASSUME TypeInv, FreshInv, NEW r \in Req, Start(r) PROVE FreshInv'
<1>1. ASSUME NEW op, NEW p, NEW j, Begin(r, op, p, j) PROVE FreshInv'
  BY <1>1, MoveOthers, Bystander DEF Begin, tableVars, cacheVars
<1>2. QED
  BY <1>1 DEF Start, StartRead, StartSearch, StartUpdate, StartDelete, StartCreate, StartClear

LEMMA LockingFresh == ASSUME TypeInv, FreshInv, NEW r \in Req, Locking(r) PROVE FreshInv'
<1>1. ASSUME NEW h, NEW from, NEW to, LockStep(r, h, from, to),
             from \notin {"reread", "evict"}
      PROVE  FreshInv'
  BY <1>1, AdvanceOthers, Bystander DEF LockStep, tableVars
<1>2. QED
  BY <1>1 DEF Locking, MarkLock, UnmarkLock, NotFoundLock, EvictLock

LEMMA UnlockingFresh ==
    ASSUME TypeInv, FreshInv, NEW r \in Req,
           MarkUnlock(r) \/ FillUnlock(r) \/ NotFoundUnlock(r) \/ EvictUnlock(r)
    PROVE  FreshInv'
<1>1. ASSUME NEW h, NEW from, UnlockStep(r, h, from), OthersStay(r),
             from \notin {"reread", "evict"}
      PROVE  FreshInv'
  BY <1>1, Bystander DEF UnlockStep, tableVars
<1>2. OthersStay(r)
  BY AdvanceOthers, AnswerOthers, RetryOthers
     DEF MarkUnlock, FillUnlock, NotFoundUnlock, EvictUnlock
<1>3. QED
  BY <1>1, <1>2 DEF MarkUnlock, FillUnlock, NotFoundUnlock, EvictUnlock

LEMMA ReadingFresh ==
    ASSUME TypeInv, FreshInv, NEW r \in Req,
           \/ CacheGet(r) \/ Mark(r) \/ SearchGet(r) \/ SearchHit(r)
           \/ SelectRow(r) \/ SearchSql(r) \/ FillSearch(r) \/ Unmark(r)
           \/ NotFoundMark(r) \/ FindEmpNo(r)
    PROVE  FreshInv'
<1> USE DEF tableVars, cacheVars
<1>1. CASE CacheGet(r)
  BY <1>1, AdvanceOthers, AnswerOthers, RetryOthers, Bystander DEF CacheGet
<1>2. CASE Mark(r)
  BY <1>2, AdvanceOthers, Bystander DEF Mark
<1>3. CASE SearchGet(r) \/ SearchHit(r)
  <2>1. OthersStay(r)
    BY <1>3, AdvanceOthers, AnswerOthers
       DEF SearchGet, SearchHit, OthersStay, Goto, TypeInv, TypeOK, RequestOK
  <2>2. QED
    BY <1>3, <2>1, Bystander DEF SearchGet, SearchHit
<1>4. CASE SelectRow(r) \/ SearchSql(r)
  <2>1. ASSUME NEW found, Carry(r, found) PROVE OthersStay(r)
    BY <2>1, AdvanceOthers, AnswerOthers
       DEF Carry, OthersStay, Goto, TypeInv, TypeOK, RequestOK
  <2>2. OthersStay(r) /\ UNCHANGED <<table, employees, lapsed>>
    BY <1>4, <2>1, AnswerOthers DEF SelectRow, SearchSql, SqlError, Carry
  <2>3. QED
    BY <1>4, <2>2, Bystander DEF SelectRow, SearchSql
<1>5. CASE FillSearch(r)
  BY <1>5, AdvanceOthers, AnswerOthers, Bystander DEF FillSearch
<1>6. CASE Unmark(r)
  BY <1>6, AdvanceOthers, Bystander DEF Unmark
<1>7. CASE NotFoundMark(r)
  BY <1>7, AdvanceOthers, Bystander DEF NotFoundMark
<1>8. CASE FindEmpNo(r)
  <2>1. OthersStay(r)
    BY <1>8, AnswerOthers DEF FindEmpNo, OthersStay, Goto, TypeInv, TypeOK, RequestOK
  <2>2. QED
    BY <1>8, <2>1, Bystander DEF FindEmpNo
<1>9. QED
  BY <1>1, <1>2, <1>3, <1>4, <1>5, <1>6, <1>7, <1>8

-----------------------------------------------------------------------------
(* Steps that change a row or a cached entry *)

\* A row read before a mutation may be cached after it: then it is excused.
LEMMA FillFresh == ASSUME TypeInv, FreshInv, NEW r \in Req, FillEmployee(r) PROVE FreshInv'
<1>1. PICK e \in job[r].todo, o \in RedisOutcomes :
        /\ HSetEmployee(o, e, job[r].got[e])
        /\ lapsed' = IF o = "failed" THEN lapsed
                     ELSE IF job[r].got[e] = table[e] THEN lapsed \ {e}
                     ELSE lapsed \cup {e}
  BY DEF FillEmployee
<1>2. OthersStay(r) /\ pc[r] = "fill" /\ table' = table
  BY AnswerOthers
     DEF FillEmployee, OthersStay, Goto, TypeInv, TypeOK, RequestOK, tableVars
<1>3. employees \in [Emp -> Version]
  BY DEF TypeInv, TypeOK, CacheOK
<1>4. ASSUME NEW x \in Emp PROVE FreshAt(x)'
  <2>1. FreshAt(x)
    BY FreshSplit
  <2>2. CASE x # e \/ o = "failed"
    <3>1. employees'[x] = employees[x] /\ (x \in lapsed => x \in lapsed')
      BY <1>1, <1>3, <2>2 DEF HSetEmployee
    <3>2. QED
      BY <1>2, <2>1, <3>1, Elsewhere DEF Evicting
  <2>3. CASE x = e /\ o # "failed"
    <3>1. employees'[x] = job[r].got[x]
      BY <1>1, <1>3, <2>3 DEF HSetEmployee
    <3>2. QED
      BY <1>1, <1>2, <2>3, <3>1 DEF FreshAt
  <2>4. QED
    BY <2>2, <2>3
<1>5. QED
  BY <1>4, FreshSplit

\* Whoever changes a row becomes the one to evict its entry.
LEMMA UpdateFresh == ASSUME TypeInv, FreshInv, NEW r \in Req, UpdateRow(r) PROVE FreshInv'
<1> DEFINE e == job[r].emp
<1>1. pc[r] = "update" /\ OthersStay(r) /\ employees' = employees
  BY AdvanceOthers, AnswerOthers DEF UpdateRow, cacheVars
<1>2. \/ UNCHANGED <<table, lapsed>>
      \/ Commit(e) /\ lapsed' = lapsed \cup {e}
      \/ Commit(e) /\ lapsed' = lapsed /\ pc'[r] = "reread" /\ job'[r] = job[r]
  BY AdvanceOthers DEF UpdateRow, CommitOutcomes, Outcomes, Lapse, tableVars
<1>3. table \in [Emp -> Version] /\ commits + 1 # NoRow
  BY DEF TypeInv, TypeOK, TableOK, NoRow
<1>4. ASSUME NEW x \in Emp PROVE FreshAt(x)'
  <2>1. FreshAt(x)
    BY FreshSplit
  <2>2. CASE x # e \/ UNCHANGED <<table, lapsed>>
    <3>1. table'[x] = table[x] /\ (x \in lapsed => x \in lapsed')
      BY <1>2, <1>3, <2>2 DEF Commit
    <3>2. QED
      BY <1>1, <2>1, <3>1, Elsewhere DEF Evicting
  <2>3. CASE x = e /\ ~UNCHANGED <<table, lapsed>>
    <3>1. table'[x] # NoRow
      BY <1>2, <1>3, <2>3 DEF Commit
    <3>2. x \in lapsed' \/ Evicting(r, x)'
      BY <1>2, <2>3, <1>1, <3>1 DEF Evicting
    <3>3. QED
      BY <3>1, <3>2 DEF FreshAt
  <2>4. QED
    BY <1>2, <2>2, <2>3
<1>5. QED
  BY <1>4, FreshSplit

\* An update that finds its row gone leaves the eviction to the deletion.
LEMMA RereadFresh == ASSUME TypeInv, FreshInv, NEW r \in Req, Reread(r) PROVE FreshInv'
<1> DEFINE e == job[r].emp
<1>1. /\ pc[r] = "reread" /\ OthersStay(r)
      /\ employees' = employees /\ table' = table
  BY AdvanceOthers, AnswerOthers DEF Reread, cacheVars, tableVars
<1>2. \/ lapsed' = lapsed \cup {e}
      \/ lapsed' = lapsed /\ table[e] = NoRow
      \/ lapsed' = lapsed /\ table[e] # NoRow /\ pc'[r] = "evict" /\ job'[r] = job[r]
  BY AdvanceOthers DEF Reread, Lapse
<1>3. ASSUME NEW x \in Emp PROVE FreshAt(x)'
  <2>1. FreshAt(x)
    BY FreshSplit
  <2>2. CASE x # e
    BY <1>1, <1>2, <2>1, <2>2, Elsewhere DEF Evicting
  <2>3. CASE x = e
    <3>1. CASE lapsed' = lapsed \cup {e}
      BY <2>3, <3>1 DEF FreshAt
    <3>2. CASE lapsed' = lapsed /\ table[e] = NoRow
      <4>1. CASE employees[x] = NoRow
        BY <1>1, <4>1 DEF FreshAt
      <4>2. CASE employees[x] # NoRow
        <5>1. x \in lapsed \/ \E q \in Req \ {r} : pc[q] = "evict" /\ job[q].emp = x
          BY <1>1, <2>1, <2>3, <3>2, <4>2 DEF FreshAt
        <5>2. x \in lapsed' \/ \E q \in Req : pc'[q] = "evict" /\ job'[q].emp = x
          BY <1>1, <3>2, <5>1 DEF OthersStay
        <5>3. QED
          BY <5>2 DEF FreshAt, Evicting
      <4>3. QED
        BY <4>1, <4>2
    <3>3. CASE table[e] # NoRow /\ pc'[r] = "evict" /\ job'[r] = job[r]
      BY <1>1, <2>3, <3>3 DEF FreshAt, Evicting
    <3>4. QED
      BY <1>2, <3>1, <3>2, <3>3
  <2>4. QED
    BY <2>2, <2>3
<1>4. QED
  BY <1>3, FreshSplit

LEMMA DeleteFresh == ASSUME TypeInv, FreshInv, NEW r \in Req, DeleteRow(r) PROVE FreshInv'
<1> DEFINE e == job[r].emp
<1>1. pc[r] = "delete" /\ OthersStay(r) /\ employees' = employees
  BY AdvanceOthers, AnswerOthers DEF DeleteRow, cacheVars
<1>2. \/ UNCHANGED <<table, lapsed>>
      \/ Remove(e) /\ lapsed' = lapsed \cup {e}
      \/ Remove(e) /\ lapsed' = lapsed /\ pc'[r] = "evict" /\ job'[r] = job[r]
  BY AdvanceOthers DEF DeleteRow, Outcomes, Lapse, tableVars
<1>3. table \in [Emp -> Version]
  BY DEF TypeInv, TypeOK, TableOK
<1>4. ASSUME NEW x \in Emp PROVE FreshAt(x)'
  <2>1. FreshAt(x)
    BY FreshSplit
  <2>2. CASE x # e \/ UNCHANGED <<table, lapsed>>
    <3>1. table'[x] = table[x] /\ (x \in lapsed => x \in lapsed')
      BY <1>2, <1>3, <2>2 DEF Remove
    <3>2. QED
      BY <1>1, <2>1, <3>1, Elsewhere DEF Evicting
  <2>3. CASE x = e /\ lapsed' = lapsed \cup {e}
    BY <2>3 DEF FreshAt
  <2>4. CASE x = e /\ pc'[r] = "evict" /\ job'[r] = job[r]
    BY <2>4 DEF FreshAt, Evicting
  <2>5. QED
    BY <1>2, <2>2, <2>3, <2>4
<1>5. QED
  BY <1>4, FreshSplit

LEMMA EvictFresh ==
    ASSUME TypeInv, FreshInv, NEW r \in Req, EvictFirst(r) \/ EvictAgain(r)
    PROVE  FreshInv'
<1> DEFINE e == job[r].emp
<1>1. OthersStay(r) /\ table' = table /\ pc[r] \in {"evict", "evictAgain"}
  BY AdvanceOthers, AnswerOthers DEF EvictFirst, EvictAgain, tableVars
<1>2. \/ employees' = [employees EXCEPT ![e] = NoRow] /\ lapsed' = lapsed \ {e}
      \/ employees' = employees /\ lapsed' = lapsed \cup {e}
      \/ UNCHANGED <<employees, lapsed>> /\ pc[r] = "evictAgain"
  BY DEF EvictFirst, EvictAgain, Evict, HDelEmployee, HSetEmployee
<1>3. employees \in [Emp -> Version]
  BY DEF TypeInv, TypeOK, CacheOK
<1>4. ASSUME NEW x \in Emp PROVE FreshAt(x)'
  <2>1. FreshAt(x)
    BY FreshSplit
  <2>2. CASE x # e
    <3>1. employees'[x] = employees[x] /\ (x \in lapsed => x \in lapsed')
      BY <1>2, <1>3, <2>2
    <3>2. QED
      BY <1>1, <2>1, <2>2, <3>1, Elsewhere DEF Evicting
  <2>3. CASE x = e
    <3>1. CASE UNCHANGED <<employees, lapsed>> /\ pc[r] = "evictAgain"
      BY <1>1, <2>1, <3>1, Elsewhere DEF Evicting
    <3>2. CASE employees' = [employees EXCEPT ![e] = NoRow]
      BY <1>3, <2>3, <3>2 DEF FreshAt
    <3>3. CASE lapsed' = lapsed \cup {e}
      BY <2>3, <3>3 DEF FreshAt
    <3>4. QED
      BY <1>2, <3>1, <3>2, <3>3
  <2>4. QED
    BY <2>2, <2>3
<1>5. QED
  BY <1>4, FreshSplit

\* A number that is used again needs no eviction: whatever is cached under it
\* was excused, or is about to be evicted, when its row went.
LEMMA InsertFresh == ASSUME TypeInv, FreshInv, NEW r \in Req, Insert(r) PROVE FreshInv'
<1> DEFINE e == job[r].emp
<1>1. pc[r] = "insert" /\ OthersStay(r) /\ UNCHANGED <<employees, lapsed>>
  BY AnswerOthers DEF Insert, cacheVars
<1>2. table' = table \/ (table[e] = NoRow /\ Commit(e))
  BY DEF Insert, tableVars
<1>3. table \in [Emp -> Version] /\ commits + 1 # NoRow
  BY DEF TypeInv, TypeOK, TableOK, NoRow
<1>4. ASSUME NEW x \in Emp PROVE FreshAt(x)'
  <2>1. FreshAt(x)
    BY FreshSplit
  <2>2. CASE x # e \/ table' = table
    <3>1. table'[x] = table[x]
      BY <1>2, <1>3, <2>2 DEF Commit
    <3>2. QED
      BY <1>1, <2>1, <3>1, Elsewhere DEF Evicting
  <2>3. CASE x = e /\ table[e] = NoRow /\ Commit(e)
    <3>1. table'[x] # NoRow
      BY <1>3, <2>3 DEF Commit
    <3>2. \/ employees[x] = NoRow \/ x \in lapsed
          \/ \E q \in Req \ {r} : pc[q] = "evict" /\ job[q].emp = x
      BY <1>1, <2>1, <2>3 DEF FreshAt
    <3>3. \/ employees'[x] = NoRow \/ x \in lapsed'
          \/ \E q \in Req : Evicting(q, x)'
      BY <1>1, <3>2 DEF OthersStay, Evicting
    <3>4. QED
      BY <3>1, <3>3 DEF FreshAt
  <2>4. QED
    BY <1>2, <2>2, <2>3
<1>5. QED
  BY <1>4, FreshSplit

LEMMA ClearFresh == ASSUME TypeInv, FreshInv, NEW r \in Req, Clear(r) PROVE FreshInv'
<1>1. OthersStay(r) /\ table' = table /\ pc[r] \notin {"reread", "evict"}
  BY AdvanceOthers, AnswerOthers DEF Clear, ClearPcs, tableVars
<1>2. employees' = NoRows \/ UNCHANGED <<employees, lapsed>>
  BY DEF Clear
<1>3. CASE employees' = NoRows
  BY <1>3, FreshSplit DEF FreshAt, NoRows
<1>4. QED
  BY <1>1, <1>2, <1>3, Bystander

LEMMA CrashFresh == ASSUME TypeInv, FreshInv, NEW r \in Req, Crash(r) PROVE FreshInv'
<1>1. OthersStay(r) /\ UNCHANGED <<table, employees>>
  BY AnswerOthers DEF Crash, tableVars, cacheVars
<1>2. ASSUME NEW x \in Emp PROVE FreshAt(x)'
  <2>1. FreshAt(x)
    BY FreshSplit
  <2>2. CASE Evicting(r, x)
    BY <2>2 DEF Crash, Lapse, FreshAt
  <2>3. CASE ~Evicting(r, x)
    BY <1>1, <2>1, <2>3, Elsewhere DEF Crash, Lapse
  <2>4. QED
    BY <2>2, <2>3
<1>3. QED
  BY <1>2, FreshSplit

LEMMA OutsideFresh ==
    ASSUME FreshInv, UNCHANGED <<table, employees, lapsed, pc, job>> PROVE FreshInv'
BY FreshSplit DEF FreshAt, Evicting

-----------------------------------------------------------------------------
\* A cached employee is the row of the table, unless its eviction is under way
\* or it is excused; and of a deleted one it is the deletion that evicts it.
THEOREM Fresh == Spec => [](StaleHasCause /\ DeletedIsEvicted)
<1>1. Init => FreshInv
  BY FreshSplit DEF Init, TableInit, CacheInit, FreshAt
<1>2. TypeInv /\ FreshInv /\ [Next]_vars => FreshInv'
  <2> SUFFICES ASSUME TypeInv, FreshInv, [Next]_vars PROVE FreshInv'
    OBVIOUS
  <2>1. CASE UNCHANGED vars
    BY <2>1, OutsideFresh DEF vars, cacheVars
  <2>2. ASSUME NEW r \in Req, Start(r) \/ Locking(r) \/ Working(r) \/ Crash(r)
        PROVE  FreshInv'
    BY <2>2, StartFresh, LockingFresh, UnlockingFresh, ReadingFresh, FillFresh,
       UpdateFresh, RereadFresh, DeleteFresh, EvictFresh, InsertFresh, ClearFresh,
       CrashFresh
       DEF Working
  <2>3. ASSUME NEW h \in MarkerHash,
               \/ PruneWork(h) \/ Pruning(h, PruneLock(h))
               \/ LockUnawares(h) \/ Expire(h)
        PROVE  FreshInv'
    <3>1. UNCHANGED <<table, employees, lapsed, pc, job>>
      BY <2>3 DEF PruneWork, Pruning, PruneTick, PruneLock, PruneScan, PruneDelete,
                  PruneUnlock, LockUnawares, Expire, tableVars
    <3>2. QED
      BY <3>1, OutsideFresh
  <2>4. QED
    BY <2>1, <2>2, <2>3 DEF Next
<1>3. QED
  BY <1>1, <1>2, TypeCorrect, PTL DEF Spec, TypeInv, FreshInv

\* A cached entry of a deleted employee is about to be evicted, or excused
\* (logic.go:257-279).
THEOREM DeletedGone == Spec => []DeletedIsEvicted
  BY Fresh, PTL

-----------------------------------------------------------------------------
(***************************************************************************)
(* Which mutations can spoil which half of the cache, whatever faults,     *)
(* crashes, expirations and clears there are: a cached employee only an    *)
(* update or a deletion, a cached search with criteria only a creation or  *)
(* a deletion.                                                             *)
(***************************************************************************)

\* Rows stay as they were inserted: MUTATE_DISABLED, or clients only create.
RowsLast == MutateDisabled \/ Ops \cap {"update", "delete"} = {}

\* The employees stay the same: MUTATE_DISABLED, or clients only update.
MembersLast == MutateDisabled \/ Ops \cap {"create", "delete"} = {}

CarryPcs == {"fill", "fillSearch"}
ChangePcs == {"update", "reread", "delete", "evict", "evictLock", "evictAgain", "evictUnlock"}
MemberPcs == {"delete", "findEmpNo", "insert"}

-----------------------------------------------------------------------------
(* How a request moves, and what its step writes *)

\* It begins or ends: it carries no rows.
Afresh(r) ==
    /\ job'[r].got = NoRows /\ pc'[r] \notin CarryPcs
    /\ pc'[r] \in ReadPcs => job'[r].search = {}
    /\ pc'[r] \in ChangePcs => ~RowsLast
    /\ pc'[r] \in MemberPcs => ~MembersLast

\* It goes on with the rows and the search it has.
GoesOn(r) ==
    /\ job'[r].got = job[r].got /\ job'[r].search = job[r].search
    /\ pc'[r] \in ReadPcs => pc[r] \in ReadPcs
    /\ pc'[r] \in CarryPcs => pc[r] \in CarryPcs
    /\ pc'[r] \in ChangePcs => pc[r] \in ChangePcs
    /\ pc'[r] \in MemberPcs => pc[r] \in MemberPcs

\* It carries rows to the cache: for a search with criteria, those that match.
Fetches(r) ==
    /\ pc'[r] = "fill" /\ job'[r].search = job[r].search
    /\ \E found \in SUBSET Rows :
          /\ job'[r].got = [e \in Emp |-> IF e \in found THEN table[e] ELSE NoRow]
          /\ pc[r] \in ReadPcs \/ found = Matching(job[r].search)

Moved(r) == OthersStay(r) /\ (Afresh(r) \/ GoesOn(r) \/ Fetches(r))

\* What it may write: the rows it carries, the list of those, its own row.
Wrote(r) ==
    /\ \A e \in Emp : \/ employees'[e] \in {NoRow, employees[e]}
                      \/ pc[r] = "fill" /\ employees'[e] = job[r].got[e]
    /\ \A s \in Searches :
          \/ searches'[s] \in {{}, searches[s]}
          \/ pc[r] = "fillSearch" /\ s = job[r].search /\ searches'[s] = Found(r)
    /\ \A e \in Emp : \/ table'[e] = table[e]
                      \/ pc[r] = "update" /\ table[e] # NoRow /\ table'[e] # NoRow
                      \/ pc[r] = "insert" /\ table[e] = NoRow
                      \/ pc[r] = "delete"

LEMMA AnswerMoved == ASSUME TypeInv, NEW r \in Req, Answer(r) PROVE Moved(r)
<1>1. pc'[r] = "idle" /\ job'[r] = NoJob
  BY DEF Answer, Goto, TypeInv, TypeOK, RequestOK
<1>2. QED
  BY <1>1, AnswerOthers DEF Moved, Afresh, NoJob, CarryPcs, ReadPcs, ChangePcs, MemberPcs

\* To go on it is enough not to enter another stage.
LEMMA AdvanceMoved ==
    ASSUME TypeInv, NEW r \in Req, NEW p, Advance(r, p),
           p \in ReadPcs => pc[r] \in ReadPcs,
           p \in CarryPcs => pc[r] \in CarryPcs,
           p \in ChangePcs => pc[r] \in ChangePcs,
           p \in MemberPcs => pc[r] \in MemberPcs
    PROVE  Moved(r)
BY AdvanceOthers DEF Moved, GoesOn

LEMMA RetryMoved ==
    ASSUME TypeInv, NEW r \in Req, pc[r] \in ReadPcs, Retry(r) PROVE Moved(r)
<1>1. job[r] \in Job /\ pc'[r] \in {"get", "select"}
  BY DEF TypeInv, TypeOK, RequestOK, Retry, Goto
<1>2. job'[r].got = job[r].got /\ job'[r].search = job[r].search
  BY <1>1 DEF TypeInv, TypeOK, RequestOK, Retry, Job
<1>3. QED
  BY <1>1, <1>2, RetryOthers DEF Moved, GoesOn, CarryPcs, ChangePcs, MemberPcs

LEMMA StartMoved == ASSUME TypeInv, NEW r \in Req, Start(r) PROVE Moved(r)
<1>1. ASSUME NEW op, NEW p, NEW j, Begin(r, op, p, j), j.got = NoRows, p \notin CarryPcs,
             p \in ReadPcs => j.search = {},
             p \in ChangePcs => ~RowsLast, p \in MemberPcs => ~MembersLast
      PROVE  Moved(r)
  <2>1. OthersStay(r) /\ pc'[r] = p /\ job'[r] = j
    BY <1>1, MoveOthers DEF Begin, Goto, TypeInv, TypeOK, RequestOK
  <2>2. QED
    BY <1>1, <2>1 DEF Moved, Afresh
<1>2. ASSUME NEW e, NEW op, NEW p, Begin(r, op, p, [NoJob EXCEPT !.emp = e]), p \notin CarryPcs,
             p \in ChangePcs => ~RowsLast, p \in MemberPcs => ~MembersLast
      PROVE  Moved(r)
  <2>1. [NoJob EXCEPT !.emp = e].got = NoRows /\ [NoJob EXCEPT !.emp = e].search = {}
    BY DEF NoJob
  <2>2. QED
    BY <1>1, <1>2, <2>1
<1> USE DEF CarryPcs, ReadPcs, ChangePcs, MemberPcs
<1>3. CASE StartRead(r)
  BY <1>2, <1>3 DEF StartRead
<1>4. CASE StartSearch(r)
  <2>1. PICK s \in Searches : Begin(r, "search", "searchGet", [NoJob EXCEPT !.search = s])
    BY <1>4 DEF StartSearch
  <2>2. [NoJob EXCEPT !.search = s].got = NoRows
    BY DEF NoJob
  <2>3. "searchGet" \notin CarryPcs \cup ReadPcs \cup ChangePcs \cup MemberPcs
    OBVIOUS
  <2> HIDE DEF CarryPcs, ReadPcs, ChangePcs, MemberPcs
  <2>4. QED
    BY <1>1, <2>1, <2>2, <2>3
<1>5. CASE StartUpdate(r)
  <2>1. ~RowsLast
    BY <1>5 DEF StartUpdate, Begin, RowsLast
  <2>2. QED
    BY <1>2, <1>5, <2>1 DEF StartUpdate
<1>6. CASE StartDelete(r)
  <2>1. ~RowsLast /\ ~MembersLast
    BY <1>6 DEF StartDelete, Begin, RowsLast, MembersLast
  <2>2. QED
    BY <1>2, <1>6, <2>1 DEF StartDelete
<1>7. CASE StartCreate(r)
  <2>1. ~MembersLast
    BY <1>7 DEF StartCreate, Begin, MembersLast
  <2>2. NoJob.got = NoRows
    BY DEF NoJob
  <2>3. QED
    BY <1>1, <1>7, <2>1, <2>2 DEF StartCreate
<1>8. CASE StartClear(r)
  <2>1. NoJob.got = NoRows
    BY DEF NoJob
  <2>2. QED
    BY <1>1, <1>8, <2>1 DEF StartClear
<1>9. QED
  BY <1>3, <1>4, <1>5, <1>6, <1>7, <1>8 DEF Start

\* A step that sets its next employees, or the one it creates, goes on.
LEMMA TodoMoved ==
    ASSUME TypeInv, NEW r \in Req, NEW p, Goto(r, p),
           \E x : job' = [job EXCEPT ![r].todo = x] \/ job' = [job EXCEPT ![r].emp = x],
           p \in ReadPcs => pc[r] \in ReadPcs,
           p \in CarryPcs => pc[r] \in CarryPcs,
           p \in ChangePcs => pc[r] \in ChangePcs,
           p \in MemberPcs => pc[r] \in MemberPcs
    PROVE  Moved(r)
<1>1. pc'[r] = p /\ job[r] \in Job
  BY DEF Goto, TypeInv, TypeOK, RequestOK
<1>2. job'[r].got = job[r].got /\ job'[r].search = job[r].search /\ OthersStay(r)
  BY <1>1 DEF Goto, TypeInv, TypeOK, RequestOK, Job, OthersStay
<1>3. QED
  BY <1>1, <1>2 DEF Moved, GoesOn

LEMMA FetchMoved ==
    ASSUME TypeInv, NEW r \in Req, SelectRow(r) \/ SearchSql(r) PROVE Moved(r)
<1>1. ASSUME NEW found \in SUBSET Rows, Carry(r, found),
             pc[r] \in ReadPcs \/ found = Matching(job[r].search)
      PROVE  Moved(r)
  <2>1. CASE found = {}
    BY <1>1, <2>1, AdvanceMoved, AnswerMoved
       DEF Carry, ReadPcs, CarryPcs, ChangePcs, MemberPcs
  <2>2. CASE found # {}
    <3>1. Carry(r, found) /\ found # {}
      BY <1>1, <2>2
    <3> DEFINE rows == [e \in Emp |-> IF e \in found THEN table[e] ELSE NoRow]
    <3>2. Goto(r, "fill") /\ job' = [job EXCEPT ![r].todo = found, ![r].got = rows]
      BY <3>1 DEF Carry
    <3>3. job \in [Req -> Job] /\ pc \in [Req -> Pc]
      BY DEF TypeInv, TypeOK, RequestOK
    <3> HIDE DEF rows
    <3>4. pc'[r] = "fill" /\ OthersStay(r)
      BY <3>2, <3>3 DEF Goto, OthersStay
    <3>5. job'[r].search = job[r].search /\ job'[r].got = rows
      BY <3>2, <3>3 DEF Job
    <3>6. QED
      BY <1>1, <3>4, <3>5 DEF Moved, Fetches, rows
  <2>3. QED
    BY <2>1, <2>2
<1>2. CASE SelectRow(r)
  BY <1>1, <1>2, AnswerMoved DEF SelectRow, SqlError, ReadPcs
<1>3. CASE SearchSql(r)
  BY <1>1, <1>3, AnswerMoved DEF SearchSql, SqlError, Matching
<1>4. QED
  BY <1>2, <1>3

LEMMA EveryMove ==
    ASSUME TypeInv, NEW r \in Req, Start(r) \/ Locking(r) \/ Working(r) \/ Crash(r)
    PROVE  Moved(r)
<1> USE AnswerMoved, AdvanceMoved DEF ReadPcs, CarryPcs, ChangePcs, MemberPcs
<1>1. CASE Locking(r)
  BY <1>1 DEF Locking, MarkLock, UnmarkLock, NotFoundLock, EvictLock, LockStep
<1>2. CASE CacheGet(r)
  BY <1>2, RetryMoved DEF CacheGet
<1>3. CASE Mark(r)
  BY <1>3 DEF Mark
<1>4. CASE MarkUnlock(r)
  BY <1>4, RetryMoved DEF MarkUnlock, UnlockStep
<1>5. CASE SearchGet(r) \/ SearchHit(r)
  <2>1. CASE SearchGet(r)
    BY <2>1, TodoMoved DEF SearchGet
  <2>2. CASE SearchHit(r)
    BY <2>2, TodoMoved DEF SearchHit
  <2>3. QED
    BY <1>5, <2>1, <2>2
<1>6. CASE FillEmployee(r)
  BY <1>6, TodoMoved DEF FillEmployee
<1>7. CASE FillSearch(r) \/ Unmark(r) \/ NotFoundMark(r)
  BY <1>7 DEF FillSearch, Unmark, NotFoundMark
<1>8. CASE FillUnlock(r) \/ NotFoundUnlock(r) \/ EvictUnlock(r) \/ Insert(r) \/ Crash(r)
  BY <1>8 DEF FillUnlock, NotFoundUnlock, EvictUnlock, Insert, Crash
<1>9. CASE UpdateRow(r) \/ Reread(r) \/ DeleteRow(r)
  BY <1>9 DEF UpdateRow, Reread, DeleteRow
<1>10. CASE EvictFirst(r) \/ EvictAgain(r)
  BY <1>10 DEF EvictFirst, EvictAgain
<1>11. CASE FindEmpNo(r)
  BY <1>11, TodoMoved DEF FindEmpNo
<1>12. CASE Clear(r)
  <2>1. ClearNext[pc[r]] \in ClearPcs \cup {"idle"}
    BY <1>12 DEF Clear, ClearNext, ClearPcs
  <2>2. QED
    BY <1>12, <2>1 DEF Clear, ClearPcs
<1>13. QED
  BY <1>1, <1>2, <1>3, <1>4, <1>5, <1>6, <1>7, <1>8, <1>9, <1>10, <1>11, <1>12,
     StartMoved, FetchMoved DEF Working

LEMMA EveryWrite ==
    ASSUME TypeInv, NEW r \in Req, Start(r) \/ Locking(r) \/ Working(r) \/ Crash(r)
    PROVE  Wrote(r)
<1>0. /\ employees \in [Emp -> Version] /\ searches \in [Searches -> SUBSET Emp]
      /\ table \in [Emp -> Version] /\ commits + 1 # NoRow
  BY DEF TypeInv, TypeOK, CacheOK, TableOK, NoRow
<1>1. ASSUME UNCHANGED <<table, employees, searches>> PROVE Wrote(r)
  BY <1>1 DEF Wrote
<1>2. CASE FillEmployee(r)
  BY <1>0, <1>2 DEF FillEmployee, HSetEmployee, tableVars, Wrote
<1>3. CASE FillSearch(r)
  BY <1>0, <1>3 DEF FillSearch, HSetSearch, tableVars, Wrote
<1>4. CASE EvictFirst(r) \/ EvictAgain(r)
  BY <1>0, <1>4 DEF EvictFirst, EvictAgain, Evict, HDelEmployee, HSetEmployee, tableVars, Wrote
<1>5. CASE UpdateRow(r) \/ DeleteRow(r) \/ Insert(r)
  BY <1>0, <1>5 DEF UpdateRow, DeleteRow, Insert, Commit, Remove, tableVars, cacheVars, Wrote
<1>6. CASE Clear(r)
  BY <1>0, <1>6 DEF Clear, NoRows, tableVars, Wrote
<1>7. CASE Start(r)
  BY <1>1, <1>7 DEF Start, StartRead, StartSearch, StartUpdate, StartDelete, StartCreate,
         StartClear, Begin, tableVars, cacheVars
<1>8. CASE Locking(r) \/ MarkUnlock(r) \/ FillUnlock(r) \/ NotFoundUnlock(r) \/ EvictUnlock(r)
  BY <1>1, <1>8 DEF Locking, MarkLock, UnmarkLock, NotFoundLock, EvictLock, LockStep, MarkUnlock,
         FillUnlock, NotFoundUnlock, EvictUnlock, UnlockStep, tableVars
<1>9. CASE \/ CacheGet(r) \/ Mark(r) \/ SelectRow(r) \/ SearchGet(r) \/ SearchHit(r)
           \/ SearchSql(r) \/ Unmark(r) \/ NotFoundMark(r) \/ Reread(r) \/ FindEmpNo(r) \/ Crash(r)
  BY <1>1, <1>9 DEF CacheGet, Mark, SelectRow, SqlError, Carry, SearchGet, SearchHit, SearchSql,
         Unmark, NotFoundMark, Reread, FindEmpNo, Crash, tableVars, cacheVars
<1>10. QED
  BY <1>2, <1>3, <1>4, <1>5, <1>6, <1>7, <1>8, <1>9 DEF Working

\* The prune loops and the mutexes' expiration do neither.
LEMMA NoRequestMoves ==
    ASSUME NEW h \in MarkerHash,
           PruneWork(h) \/ Pruning(h, PruneLock(h)) \/ LockUnawares(h) \/ Expire(h)
    PROVE  UNCHANGED <<table, employees, searches, pc, job>>
BY DEF PruneWork, Pruning, PruneTick, PruneLock, PruneScan, PruneDelete, PruneUnlock,
       LockUnawares, Expire, tableVars

-----------------------------------------------------------------------------
(* The cached employees *)

\* Nobody is about to change a row, and what requests carry is in the table.
EntriesInv ==
    /\ CacheExact
    /\ \A r \in Req : /\ pc[r] \notin ChangePcs
                      /\ \A e \in Emp : job[r].got[e] \in {NoRow, table[e]}

LEMMA EntriesStep ==
    ASSUME RowsLast, EntriesInv, NEW r \in Req, Moved(r), Wrote(r)
    PROVE  EntriesInv'
<1>1. \A e \in Emp : table'[e] = table[e] \/ table[e] = NoRow
  BY DEF Wrote, EntriesInv, ChangePcs
<1>2. CacheExact'
  BY <1>1 DEF Wrote, EntriesInv, CacheExact, Emp
<1>3. pc'[r] \notin ChangePcs
  BY DEF Moved, Afresh, GoesOn, Fetches, EntriesInv, ChangePcs
<1>4. \A e \in Emp : job'[r].got[e] \in {NoRow, job[r].got[e], table[e]}
  BY DEF Moved, Afresh, GoesOn, Fetches, NoRows
<1>5. \A q \in Req, e \in Emp : job'[q].got[e] \in {NoRow, table'[e]}
  BY <1>1, <1>4 DEF EntriesInv, Moved, OthersStay
<1>6. \A q \in Req : pc'[q] \notin ChangePcs
  BY <1>3 DEF EntriesInv, Moved, OthersStay
<1>7. QED
  BY <1>2, <1>5, <1>6 DEF EntriesInv, Emp, ChangePcs

\* As long as rows last, every cached employee is the row of the table: no
\* creation makes an entry stale (logic.go:107-118).
THEOREM CreationsKeepEntries ==
    ASSUME RowsLast
    PROVE  Spec => []CacheExact
<1>1. Init => EntriesInv
  BY DEF Init, TableInit, CacheInit, EntriesInv, CacheExact, NoJob, NoRows, ChangePcs
<1>2. TypeInv /\ EntriesInv /\ [Next]_vars => EntriesInv'
  <2> SUFFICES ASSUME TypeInv, EntriesInv, [Next]_vars PROVE EntriesInv'
    OBVIOUS
  <2>1. CASE UNCHANGED <<table, employees, searches, pc, job>>
    BY <2>1 DEF EntriesInv, CacheExact, Emp, ChangePcs
  <2>2. QED
    BY <2>1, EntriesStep, EveryMove, EveryWrite, NoRequestMoves DEF Next, vars, cacheVars
<1>3. EntriesInv => CacheExact
  BY DEF EntriesInv
<1>4. QED
  BY <1>1, <1>2, <1>3, TypeCorrect, PTL DEF Spec, TypeInv

-----------------------------------------------------------------------------
(* The cached searches with criteria *)

\* A list for a search: it has employees asked for, and, as long as members
\* last, exactly those that match.
Lists(s, list) == list \subseteq s /\ (MembersLast => list = Matching(s))

\* The same after a step, for lists and searches that are themselves primed.
ListsNext(s, list) ==
    /\ list \subseteq s
    /\ MembersLast => list = {e \in Emp : table'[e] # NoRow /\ (s = {} \/ e \in s)}

SearchesInv ==
    /\ \A s \in Searches \ {{}} : searches[s] = {} \/ Lists(s, searches[s])
    /\ \A r \in Req :
          /\ MembersLast => pc[r] \notin MemberPcs
          /\ pc[r] \in ReadPcs => job[r].search = {}
          /\ pc[r] \in CarryPcs /\ job[r].search # {} => Lists(job[r].search, Found(r))

LEMMA SearchesStep ==
    ASSUME TypeInv, SearchesInv, NEW r \in Req, Moved(r), Wrote(r)
    PROVE  SearchesInv'
<1> DEFINE FoundNext(q) == {e \in Emp : job'[q].got[e] # NoRow}
<1>1. MembersLast => Rows' = Rows
  BY DEF Wrote, SearchesInv, MemberPcs, Rows, Emp
<1>2. ASSUME NEW s, NEW list, Lists(s, list) PROVE ListsNext(s, list)
  BY <1>1, <1>2 DEF Lists, ListsNext, Matching, Rows, Emp
<1>3. ASSUME NEW s \in Searches \ {{}} PROVE searches'[s] = {} \/ ListsNext(s, searches'[s])
  BY <1>2, <1>3 DEF Wrote, SearchesInv, CarryPcs
<1>4. ASSUME pc'[r] \in CarryPcs, job'[r].search # {}
      PROVE  ListsNext(job'[r].search, FoundNext(r))
  <2>1. CASE GoesOn(r)
    <3>1. FoundNext(r) = Found(r) /\ job'[r].search = job[r].search /\ pc[r] \in CarryPcs
      BY <1>4, <2>1 DEF GoesOn, Found
    <3>2. Lists(job[r].search, Found(r))
      BY <1>4, <3>1 DEF SearchesInv
    <3>3. QED
      BY <1>2, <3>1, <3>2
  <2>2. CASE Fetches(r)
    <3>1. PICK found \in SUBSET Rows :
             /\ job'[r].got = [e \in Emp |-> IF e \in found THEN table[e] ELSE NoRow]
             /\ pc[r] \in ReadPcs \/ found = Matching(job[r].search)
      BY <2>2 DEF Fetches
    <3>2. FoundNext(r) = found
      BY <3>1 DEF Rows
    <3>3. job'[r].search = job[r].search /\ found = Matching(job[r].search)
      BY <1>4, <2>2, <3>1 DEF Fetches, SearchesInv
    <3>4. Lists(job[r].search, found)
      BY <1>4, <3>3 DEF Lists, Matching
    <3>5. QED
      BY <1>2, <3>2, <3>3, <3>4
  <2>3. QED
    BY <1>4, <2>1, <2>2 DEF Moved, Afresh
<1>5. /\ MembersLast => pc'[r] \notin MemberPcs
      /\ pc'[r] \in ReadPcs => job'[r].search = {}
  BY DEF Moved, Afresh, GoesOn, Fetches, SearchesInv, MemberPcs, ReadPcs
<1>6. ASSUME NEW q \in Req \ {r}
      PROVE  /\ MembersLast => pc'[q] \notin MemberPcs
             /\ pc'[q] \in ReadPcs => job'[q].search = {}
             /\ pc'[q] \in CarryPcs /\ job'[q].search # {} =>
                   ListsNext(job'[q].search, FoundNext(q))
  <2>1. pc'[q] = pc[q] /\ job'[q] = job[q]
    BY <1>6 DEF Moved, OthersStay
  <2>2. FoundNext(q) = Found(q)
    BY <2>1 DEF Found
  <2>3. QED
    BY <1>2, <2>1, <2>2 DEF SearchesInv
<1>7. \A s \in Searches \ {{}} : searches'[s] = {} \/ Lists(s, searches[s])'
  BY <1>3 DEF ListsNext, Lists, Matching, Rows, Emp, MembersLast
<1>8. \A q \in Req : pc'[q] \in CarryPcs /\ job'[q].search # {} => Lists(job[q].search, Found(q))'
  BY <1>4, <1>6 DEF ListsNext, Lists, Matching, Rows, Emp, MembersLast, Found
<1>9. QED
  BY <1>5, <1>6, <1>7, <1>8 DEF SearchesInv, MembersLast, MemberPcs, ReadPcs, CarryPcs

LEMMA SearchesHold == Spec => []SearchesInv
<1>1. Init => SearchesInv
  BY DEF Init, CacheInit, SearchesInv, NoJob, MemberPcs, ReadPcs, CarryPcs
<1>2. TypeInv /\ SearchesInv /\ [Next]_vars => SearchesInv'
  <2> SUFFICES ASSUME TypeInv, SearchesInv, [Next]_vars PROVE SearchesInv'
    OBVIOUS
  <2>1. CASE UNCHANGED <<table, employees, searches, pc, job>>
    BY <2>1 DEF SearchesInv, Lists, Found, Matching, Rows, Emp, MembersLast, MemberPcs, ReadPcs,
           CarryPcs
  <2>2. QED
    BY <2>1, SearchesStep, EveryMove, EveryWrite, NoRequestMoves DEF Next, vars, cacheVars
<1>3. QED
  BY <1>1, <1>2, TypeCorrect, PTL DEF Spec, TypeInv

\* Whatever is mutated, a cached search with criteria lists only employees that
\* were asked for: what a read caches goes to the search for all (logic.go:169).
THEOREM ListsAskedOnly ==
    Spec => [](\A s \in Searches \ {{}} : searches[s] \subseteq s)
<1>1. SearchesInv => \A s \in Searches \ {{}} : searches[s] \subseteq s
  BY DEF SearchesInv, Lists
<1>2. QED
  BY <1>1, SearchesHold, PTL

\* As long as the employees stay the same, a cached search with criteria lists
\* exactly those that match: no update makes it stale (logic.go:234-252).
THEOREM UpdatesKeepSearches ==
    ASSUME MembersLast
    PROVE  Spec => []SearchExact
<1>1. SearchesInv => SearchExact
  BY DEF SearchesInv, Lists, SearchExact
<1>2. QED
  BY <1>1, SearchesHold, PTL

-----------------------------------------------------------------------------
\* With MUTATE_DISABLED (logic.go:107-110, 237-240, 260-263) every cached
\* employee is the row of the table and every cached search with criteria lists
\* exactly the employees that match it.
THEOREM ReadOnlyExact ==
    ASSUME MutateDisabled
    PROVE  Spec => [](CacheExact /\ SearchExact)
<1>1. RowsLast /\ MembersLast
  BY DEF RowsLast, MembersLast
<1>2. (Spec => []CacheExact) /\ (Spec => []SearchExact)
  BY <1>1, CreationsKeepEntries, UpdatesKeepSearches
<1>3. QED
  BY <1>2, PTL
=============================================================================
