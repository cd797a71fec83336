-------------------------- MODULE RedisMutexProofs --------------------------
(* What holds of RedisMutex for every set of clients. *)
EXTENDS RedisMutex, TLAPS

\* The variables of the mutex keep their types.
THEOREM TypeCorrect == Spec => []TypeOK
<1>1. Init => TypeOK
  BY DEF Init, TypeOK
<1>2. TypeOK /\ [Next]_vars => TypeOK'
  <2> SUFFICES ASSUME TypeOK, [Next]_vars PROVE TypeOK'
    OBVIOUS
  <2> USE DEF TypeOK
  <2>1. ASSUME NEW c \in Client, ClientNext(c) PROVE TypeOK'
    <3>1. CASE Call(c)
      BY <3>1 DEF Call, Move
    <3>2. CASE Acquire(c)
      BY <3>2 DEF Acquire, Move
    <3>3. CASE AcquireUnawares(c)
      BY <3>3 DEF AcquireUnawares
    <3>4. CASE GiveUp(c)
      BY <3>4 DEF GiveUp, Move
    <3>5. CASE Release(c)
      BY <3>5 DEF Release, Move, Abandon
    <3>6. CASE Crash(c)
      BY <3>6 DEF Crash, Move, Abandon
    <3>7. QED
      BY <2>1, <3>1, <3>2, <3>3, <3>4, <3>5, <3>6 DEF ClientNext
  <2>2. CASE Expire \/ Clear \/ Close
    BY <2>2 DEF Expire, Clear, Close
  <2>3. CASE UNCHANGED vars
    BY <2>3 DEF vars
  <2>4. QED
    BY <2>1, <2>2, <2>3 DEF Next
<1>3. QED
  BY <1>1, <1>2, PTL DEF Spec

\* In a tame environment whoever is inside created the key that exists: the
\* inductive step.
LEMMA HolderStep ==
    ASSUME TypeOK, HolderOwnsKey, Tame => ~closed, [Next]_vars
    PROVE  HolderOwnsKey' /\ (Tame => ~closed)'
<1> USE DEF TypeOK, HolderOwnsKey, Tame
<1>1. ASSUME NEW c \in Client, ClientNext(c) PROVE HolderOwnsKey' /\ (Tame => ~closed)'
  <2>1. CASE Call(c)
    BY <2>1 DEF Call, Move
  <2>2. CASE Acquire(c)
    BY <2>2 DEF Acquire, Move
  <2>3. CASE AcquireUnawares(c)
    BY <2>3 DEF AcquireUnawares
  <2>4. CASE GiveUp(c)
    BY <2>4 DEF GiveUp
  <2>5. CASE Release(c)
    BY <2>5 DEF Release, Move, Abandon
  <2>6. CASE Crash(c)
    BY <2>6 DEF Crash, Move, Abandon
  <2>7. QED
    BY <1>1, <2>1, <2>2, <2>3, <2>4, <2>5, <2>6 DEF ClientNext
<1>2. CASE Expire
  BY <1>2 DEF Expire
<1>3. CASE Clear \/ Close
  BY <1>3 DEF Clear, Close
<1>4. CASE UNCHANGED vars
  BY <1>4 DEF vars
<1>5. QED
  BY <1>1, <1>2, <1>3, <1>4 DEF Next

\* In every environment in which sections end before their key expires and the
\* cache is neither cleared nor closed, whoever is inside created the key that
\* exists.
THEOREM HolderOwns == Spec => [](HolderOwnsKey /\ (Tame => ~closed))
<1>1. Init => HolderOwnsKey /\ (Tame => ~closed)
  BY DEF Init, HolderOwnsKey
<1>2. TypeOK /\ HolderOwnsKey /\ (Tame => ~closed) /\ [Next]_vars
        => (HolderOwnsKey /\ (Tame => ~closed))'
  BY HolderStep
<1>3. QED
  BY <1>1, <1>2, TypeCorrect, PTL DEF Spec

\* ... so no two clients are inside at once, even when commands fail, replies
\* are lost and holders die.
THEOREM Excludes == Spec => []MutualExclusion
<1>1. HolderOwnsKey => MutualExclusion
  BY DEF HolderOwnsKey, MutualExclusion
<1>2. QED
  BY <1>1, HolderOwns, PTL

\* ... and no Unlock deletes the key of another client's Lock.
THEOREM DeletesOwn == Spec => DeletesOnlyItsOwn
<1>1. HolderOwnsKey /\ [Next]_vars =>
        [Tame => \A c \in Client : Release(c) /\ key /\ ~key' => owner = c]_vars
  BY DEF HolderOwnsKey, Release
<1>2. QED
  BY <1>1, HolderOwns, PTL DEF Spec, DeletesOnlyItsOwn
=============================================================================
