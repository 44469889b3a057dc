----------------------- MODULE RedisIndexJobStore_proofs -----------------------
(***************************************************************************)
(* Proofs about RedisIndexJobStore for any jobs and any callers.           *)
(***************************************************************************)
EXTENDS RedisIndexJobStore, TLAPS

(* A call that took effect has returned, so it takes effect only once.     *)
AppliedReturned == \A c \in applied : call[c].at = "returned"

StoreInv == TypeOK /\ ReadIsCurrent /\ AppliedReturned

USE NoCallAssumption

(* Absent is no job value, so a value that is not Absent is a job.         *)
LEMMA PresentIsJob ==
    ASSUME NEW v \in Job \cup {Absent}, v # Absent
    PROVE  /\ v \in Job
           /\ v.status \in Statuses
           /\ v.processed \in Nat
  BY DEF Job, Absent, Statuses

(* What a caller at EXEC would write is a job value.                       *)
LEMMA MutatedIsJob ==
    ASSUME TypeOK, ReadIsCurrent, NEW c \in Calls, call[c].at = "exec"
    PROVE  Mutated(c) \in Job
  <1>1. call[c] \in Call /\ call[c].seen \in Job \cup {Absent} /\ call[c].seen # Absent
    BY DEF TypeOK, ReadIsCurrent, Call
  <1>2. call[c].seen \in Job /\ call[c].status \in Statuses
    BY <1>1, PresentIsJob DEF Call
  <1> QED
    BY <1>2 DEF Mutated, Job

(* The store starts within the invariant.                                  *)
LEMMA StoreInvInit == Init => StoreInv
  <1> SUFFICES ASSUME Init PROVE StoreInv
    OBVIOUS
  <1>1. TypeOK
    BY DEF Init, TypeOK, Call, Sweep, Operations, Points, Statuses, Job
  <1>2. ReadIsCurrent /\ AppliedReturned
    BY DEF Init, ReadIsCurrent, AppliedReturned
  <1> QED BY <1>1, <1>2 DEF StoreInv

(* Every step keeps every variable in its type.                            *)
LEMMA TypeStep == StoreInv /\ [Next]_vars => TypeOK'
  <1> SUFFICES ASSUME StoreInv, [Next]_vars PROVE TypeOK'
    OBVIOUS
  <1> USE DEF Call, Sweep, Operations, Points, Goto, Touch, TouchExisting, Watchers
  <1>0. TypeOK /\ ReadIsCurrent
    BY DEF StoreInv
  <1>1. ASSUME NEW c \in Calls, NEW j \in Jobs, CallCreate(c, j) PROVE TypeOK'
    BY <1>0, <1>1 DEF TypeOK, CallCreate
  <1>2. ASSUME NEW c \in Calls, NEW j \in Jobs, CallGet(c, j) PROVE TypeOK'
    BY <1>0, <1>2 DEF TypeOK, CallGet
  <1>3. ASSUME NEW c \in Calls, NEW j \in Jobs, CallIncrement(c, j) PROVE TypeOK'
    BY <1>0, <1>3 DEF TypeOK, CallIncrement, CallMutate, Statuses
  <1>4. ASSUME NEW c \in Calls, NEW j \in Jobs, NEW s \in Statuses, CallUpdate(c, j, s)
        PROVE TypeOK'
    BY <1>0, <1>4 DEF TypeOK, CallUpdate, CallMutate
  <1>5. ASSUME NEW c \in Calls, Create(c) PROVE TypeOK'
    BY <1>0, <1>5 DEF TypeOK, Create, NewJob, Job, Statuses
  <1>6. ASSUME NEW c \in Calls, Get(c) PROVE TypeOK'
    BY <1>0, <1>6 DEF TypeOK, Get
  <1>7. ASSUME NEW c \in Calls, RefreshTtl(c) PROVE TypeOK'
    BY <1>0, <1>7 DEF TypeOK, RefreshTtl
  <1>8. ASSUME NEW c \in Calls, Watch(c) PROVE TypeOK'
    BY <1>0, <1>8 DEF TypeOK, Watch
  <1>9. ASSUME NEW c \in Calls, Read(c) PROVE TypeOK'
    BY <1>0, <1>9 DEF TypeOK, Read
  <1>10. ASSUME NEW c \in Calls, Commit(c) PROVE TypeOK'
    <2>1. Mutated(c) \in Job
      BY <1>0, <1>10, MutatedIsJob DEF Commit
    <2> QED BY <1>0, <1>10, <2>1 DEF TypeOK, Commit
  <1>11. ASSUME NEW c \in Calls, Retry(c) PROVE TypeOK'
    BY <1>0, <1>11 DEF TypeOK, Retry
  <1>12. ASSUME NEW c \in Calls, SweepFail(c) PROVE TypeOK'
    BY <1>0, <1>12 DEF TypeOK, SweepFail, CallMutate, Statuses
  <1>13. ASSUME NEW j \in Jobs, Expire(j) PROVE TypeOK'
    BY <1>0, <1>13 DEF TypeOK, Expire
  <1>14. ASSUME NEW j \in Jobs, SweepGet(j) PROVE TypeOK'
    BY <1>0, <1>14 DEF TypeOK, SweepGet
  <1>15. CASE SweepStart \/ SweepRefreshTtl \/ SweepDrop \/ SweepContinue \/ SweepEnd
    BY <1>0, <1>15 DEF TypeOK, SweepStart, SweepRefreshTtl, SweepDrop, SweepContinue, SweepEnd
  <1>16. CASE UNCHANGED vars
    BY <1>0, <1>16 DEF TypeOK, vars
  <1> QED
    BY <1>1, <1>2, <1>3, <1>4, <1>5, <1>6, <1>7, <1>8, <1>9, <1>10, <1>11, <1>12,
       <1>13, <1>14, <1>15, <1>16 DEF Next

(* A step that changes a key leaves every caller that will still pass EXEC *)
(* with the value it read.                                                 *)
LEMMA ReadIsCurrentStep == StoreInv /\ [Next]_vars => ReadIsCurrent'
  <1> SUFFICES ASSUME StoreInv, [Next]_vars,
                      NEW d \in Calls, (call[d].at = "exec")'
               PROVE  /\ (call[d].seen # Absent)'
                      /\ d \notin dirty' => (call[d].seen = jobs[call[d].job])'
    BY DEF ReadIsCurrent
  <1> DEFINE Current == /\ call'[d].seen # Absent
                        /\ d \notin dirty' => call'[d].seen = jobs'[call'[d].job]
  <1> USE DEF Call, Goto, Touch, TouchExisting, Watchers, ReadIsCurrent, TypeOK
  <1>0. TypeOK /\ ReadIsCurrent
    BY DEF StoreInv
  <1>1. ASSUME NEW c \in Calls, NEW j \in Jobs, CallCreate(c, j) PROVE Current
    BY <1>0, <1>1 DEF CallCreate
  <1>2. ASSUME NEW c \in Calls, NEW j \in Jobs, CallGet(c, j) PROVE Current
    BY <1>0, <1>2 DEF CallGet
  <1>3. ASSUME NEW c \in Calls, NEW j \in Jobs, CallIncrement(c, j) PROVE Current
    BY <1>0, <1>3 DEF CallIncrement, CallMutate
  <1>4. ASSUME NEW c \in Calls, NEW j \in Jobs, NEW s \in Statuses, CallUpdate(c, j, s)
        PROVE Current
    BY <1>0, <1>4 DEF CallUpdate, CallMutate
  <1>5. ASSUME NEW c \in Calls, Create(c) PROVE Current
    BY <1>0, <1>5 DEF Create
  <1>6. ASSUME NEW c \in Calls, Get(c) PROVE Current
    BY <1>0, <1>6 DEF Get
  <1>7. ASSUME NEW c \in Calls, RefreshTtl(c) PROVE Current
    BY <1>0, <1>7 DEF RefreshTtl
  <1>8. ASSUME NEW c \in Calls, Watch(c) PROVE Current
    BY <1>0, <1>8 DEF Watch
  <1>9. ASSUME NEW c \in Calls, Read(c) PROVE Current
    BY <1>0, <1>9 DEF Read
  <1>10. ASSUME NEW c \in Calls, Commit(c) PROVE Current
    BY <1>0, <1>10 DEF Commit
  <1>11. ASSUME NEW c \in Calls, Retry(c) PROVE Current
    BY <1>0, <1>11 DEF Retry
  <1>12. ASSUME NEW c \in Calls, SweepFail(c) PROVE Current
    BY <1>0, <1>12 DEF SweepFail, CallMutate
  <1>13. ASSUME NEW j \in Jobs, Expire(j) PROVE Current
    BY <1>0, <1>13 DEF Expire
  <1>14. ASSUME NEW j \in Jobs, SweepGet(j) PROVE Current
    BY <1>0, <1>14 DEF SweepGet
  <1>15. CASE SweepStart \/ SweepRefreshTtl \/ SweepDrop \/ SweepContinue \/ SweepEnd
    BY <1>0, <1>15 DEF SweepStart, SweepRefreshTtl, SweepDrop, SweepContinue, SweepEnd
  <1>16. CASE UNCHANGED vars
    BY <1>0, <1>16 DEF vars
  <1> QED
    BY <1>1, <1>2, <1>3, <1>4, <1>5, <1>6, <1>7, <1>8, <1>9, <1>10, <1>11, <1>12,
       <1>13, <1>14, <1>15, <1>16 DEF Next

(* A caller that returned does nothing more.                               *)
LEMMA AppliedReturnedStep == StoreInv /\ [Next]_vars => AppliedReturned'
  <1> SUFFICES ASSUME StoreInv, [Next]_vars PROVE AppliedReturned'
    OBVIOUS
  <1> USE DEF Call, Goto, AppliedReturned, TypeOK
  <1>0. TypeOK /\ AppliedReturned
    BY DEF StoreInv
  <1>1. ASSUME NEW c \in Calls, Create(c) PROVE AppliedReturned'
    BY <1>0, <1>1 DEF Create
  <1>2. ASSUME NEW c \in Calls, Commit(c) PROVE AppliedReturned'
    BY <1>0, <1>2 DEF Commit
  <1>3. ASSUME NEW c \in Calls, NEW j \in Jobs,
               \/ CallCreate(c, j) \/ CallGet(c, j) \/ CallIncrement(c, j)
               \/ \E s \in Statuses : CallUpdate(c, j, s)
               \/ SweepFail(c)
        PROVE AppliedReturned'
    BY <1>0, <1>3 DEF CallCreate, CallGet, CallIncrement, CallUpdate, CallMutate, SweepFail
  <1>4. ASSUME NEW c \in Calls,
               Get(c) \/ RefreshTtl(c) \/ Watch(c) \/ Read(c) \/ Retry(c)
        PROVE AppliedReturned'
    BY <1>0, <1>4 DEF Get, RefreshTtl, Watch, Read, Retry
  <1>5. ASSUME NEW j \in Jobs, Expire(j) \/ SweepGet(j) PROVE AppliedReturned'
    BY <1>0, <1>5 DEF Expire, SweepGet
  <1>6. CASE SweepStart \/ SweepRefreshTtl \/ SweepDrop \/ SweepContinue \/ SweepEnd \/ UNCHANGED vars
    BY <1>0, <1>6 DEF SweepStart, SweepRefreshTtl, SweepDrop, SweepContinue, SweepEnd, vars
  <1>7. ASSUME NEW c \in Calls, SweepFail(c) PROVE AppliedReturned'
    BY <1>0, <1>7 DEF SweepFail, CallMutate
  <1> QED
    BY <1>1, <1>2, <1>3, <1>4, <1>5, <1>6, <1>7 DEF Next

(* What is in Redis is always of the modelled shape, whatever the callers. *)
THEOREM StoreTypeOK == Spec => []TypeOK
  <1>1. StoreInv /\ [Next]_vars => StoreInv'
    BY TypeStep, ReadIsCurrentStep, AppliedReturnedStep DEF StoreInv
  <1>2. StoreInv => TypeOK
    BY DEF StoreInv
  <1> QED
    BY <1>1, <1>2, StoreInvInit, PTL DEF Spec

(* The value a caller is about to overwrite is the value it read: WATCH    *)
(* before GET (RedisIndexJobStore._mutate).                                *)
THEOREM StoreReadIsCurrent == Spec => []ReadIsCurrent
  <1>1. StoreInv /\ [Next]_vars => StoreInv'
    BY TypeStep, ReadIsCurrentStep, AppliedReturnedStep DEF StoreInv
  <1>2. StoreInv => ReadIsCurrent
    BY DEF StoreInv
  <1> QED
    BY <1>1, <1>2, StoreInvInit, PTL DEF Spec

-----------------------------------------------------------------------------
(* One EXEC is one update or increment of the atomic store.                *)
LEMMA CommitIsAtomic ==
    ASSUME StoreInv, NEW c \in Calls, Commit(c)
    PROVE  Atomic!Next
  <1> DEFINE j == call[c].job
  <1>1. /\ call[c] \in Call
        /\ call[c].at = "exec"
        /\ call[c].seen = jobs[j]
        /\ call[c].seen # Absent
        /\ jobs \in [Jobs -> Job \cup {Absent}]
        /\ j \in Jobs
    BY DEF StoreInv, TypeOK, ReadIsCurrent, Commit, Call
  <1>2. c \in Calls \ applied
    BY <1>1 DEF StoreInv, AppliedReturned
  <1>3. jobs' = [jobs EXCEPT ![j] = Mutated(c)] /\ applied' = applied \cup {c}
    BY DEF Commit
  <1>4. CASE call[c].op = "update"
    <2>1. Mutated(c) = [jobs[j] EXCEPT !.status = call[c].status]
      BY <1>1, <1>4 DEF Mutated
    <2>2. Atomic!Update(c, j, call[c].status)
      BY <1>1, <1>3, <2>1 DEF Atomic!Update, Atomic!Absent, Absent
    <2>3. call[c].status \in Atomic!Statuses
      BY <1>1 DEF Call, Statuses, Atomic!Statuses
    <2> QED BY <1>1, <1>2, <2>2, <2>3 DEF Atomic!Next
  <1>5. CASE call[c].op # "update"
    <2>1. Mutated(c) = [jobs[j] EXCEPT !.processed = @ + 1]
      BY <1>1, <1>5 DEF Mutated
    <2>2. Atomic!Increment(c, j)
      BY <1>1, <1>3, <2>1 DEF Atomic!Increment, Atomic!Absent, Absent
    <2> QED BY <1>1, <1>2, <2>2 DEF Atomic!Next
  <1> QED BY <1>4, <1>5

(* Every step of the Redis store is a step of the atomic store or leaves   *)
(* its variables alone.                                                    *)
LEMMA StepIsAtomic ==
    StoreInv /\ [Next]_vars => [Atomic!Next]_<<jobs, applied>>
  <1> SUFFICES ASSUME StoreInv, [Next]_vars PROVE [Atomic!Next]_<<jobs, applied>>
    OBVIOUS
  <1>1. ASSUME NEW c \in Calls, Create(c) PROVE Atomic!Next
    <2>1. call[c].job \in Jobs /\ c \in Calls \ applied
      BY <1>1 DEF StoreInv, TypeOK, Call, AppliedReturned, Create
    <2>2. Atomic!Create(c, call[c].job)
      BY <1>1 DEF Create, Atomic!Create, NewJob, Atomic!NewJob
    <2> QED BY <2>1, <2>2 DEF Atomic!Next
  <1>2. ASSUME NEW c \in Calls, Commit(c) PROVE Atomic!Next
    BY <1>2, CommitIsAtomic
  <1>3. ASSUME NEW j \in Jobs, Expire(j) PROVE Atomic!Next
    BY <1>3 DEF Expire, Atomic!Expire, Atomic!Next, Absent, Atomic!Absent
  <1>4. ASSUME NEW c \in Calls, NEW j \in Jobs,
               \/ CallCreate(c, j) \/ CallGet(c, j) \/ CallIncrement(c, j)
               \/ \E s \in Statuses : CallUpdate(c, j, s)
        PROVE UNCHANGED <<jobs, applied>>
    BY <1>4 DEF CallCreate, CallGet, CallIncrement, CallUpdate
  <1>5. ASSUME NEW c \in Calls,
               \/ Get(c) \/ RefreshTtl(c) \/ Watch(c) \/ Read(c) \/ Retry(c)
               \/ SweepFail(c)
        PROVE UNCHANGED <<jobs, applied>>
    BY <1>5 DEF Get, RefreshTtl, Watch, Read, Retry, SweepFail
  <1>6. ASSUME NEW j \in Jobs, SweepGet(j) PROVE UNCHANGED <<jobs, applied>>
    BY <1>6 DEF SweepGet
  <1>7. CASE SweepStart \/ SweepRefreshTtl \/ SweepDrop \/ SweepContinue \/ SweepEnd \/ UNCHANGED vars
    BY <1>7 DEF SweepStart, SweepRefreshTtl, SweepDrop, SweepContinue, SweepEnd, vars
  <1> QED
    BY <1>1, <1>2, <1>3, <1>4, <1>5, <1>6, <1>7 DEF Next

(* The Redis store implements the atomic store: for any number of callers, *)
(* retries, expiries and sweeps, no update or increment is lost.           *)
THEOREM StoreImplementsAtomic == Spec => ImplementsAtomicStore
  <1>1. Init => Atomic!Init
    BY DEF Init, Atomic!Init, Absent, Atomic!Absent
  <1>2. StoreInv /\ [Next]_vars => StoreInv'
    BY TypeStep, ReadIsCurrentStep, AppliedReturnedStep DEF StoreInv
  <1> QED
    BY <1>1, <1>2, StoreInvInit, StepIsAtomic, PTL
       DEF Spec, ImplementsAtomicStore, Atomic!Spec

(* The active set never lists a finished job: its SREM is part of the      *)
(* transaction that finishes it.                                           *)
THEOREM StoreListedIsUnfinished == Spec => []ListedIsUnfinished
  <1>1. Init => ListedIsUnfinished
    BY DEF Init, ListedIsUnfinished
  <1>2. StoreInv /\ ListedIsUnfinished /\ [Next]_vars => ListedIsUnfinished'
    <2> SUFFICES ASSUME StoreInv, ListedIsUnfinished, [Next]_vars
                 PROVE ListedIsUnfinished'
      OBVIOUS
    <2> USE DEF ListedIsUnfinished, StoreInv, TypeOK, Call
    <2>1. ASSUME NEW c \in Calls, Create(c) PROVE ListedIsUnfinished'
      BY <2>1 DEF Create, NewJob, Terminal
    <2>2. ASSUME NEW c \in Calls, Commit(c) PROVE ListedIsUnfinished'
      BY <2>2 DEF Commit
    <2>3. ASSUME NEW j \in Jobs, Expire(j) PROVE ListedIsUnfinished'
      BY <2>3 DEF Expire
    <2>4. ASSUME NEW c \in Calls, NEW j \in Jobs,
                 \/ CallCreate(c, j) \/ CallGet(c, j) \/ CallIncrement(c, j)
                 \/ \E s \in Statuses : CallUpdate(c, j, s)
          PROVE ListedIsUnfinished'
      BY <2>4 DEF CallCreate, CallGet, CallIncrement, CallUpdate
    <2>5. ASSUME NEW c \in Calls,
                 \/ Get(c) \/ RefreshTtl(c) \/ Watch(c) \/ Read(c) \/ Retry(c)
                 \/ SweepFail(c)
          PROVE ListedIsUnfinished'
      BY <2>5 DEF Get, RefreshTtl, Watch, Read, Retry, SweepFail
    <2>6. ASSUME NEW j \in Jobs, SweepGet(j) PROVE ListedIsUnfinished'
      BY <2>6 DEF SweepGet
    <2>7. CASE SweepStart \/ SweepRefreshTtl \/ SweepDrop \/ SweepContinue \/ SweepEnd \/ UNCHANGED vars
      BY <2>7 DEF SweepStart, SweepRefreshTtl, SweepDrop, SweepContinue, SweepEnd, vars
    <2> QED
      BY <2>1, <2>2, <2>3, <2>4, <2>5, <2>6, <2>7 DEF Next
  <1>3. StoreInv /\ [Next]_vars => StoreInv'
    BY TypeStep, ReadIsCurrentStep, AppliedReturnedStep DEF StoreInv
  <1> QED
    BY <1>1, <1>2, <1>3, StoreInvInit, PTL DEF Spec
=============================================================================
