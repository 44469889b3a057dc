--------------------------- MODULE IndexerJobs_proofs ---------------------------
(***************************************************************************)
(* Proofs about IndexerJobs for any replicas, calls, identities and        *)
(* repositories, any number of crashes, and failing stores.                *)
(***************************************************************************)
EXTENDS IndexerJobs, TLAPS

(* What one step does to the types: every action, in one place.            *)
LEMMA TypeInit == Init => TypeOK
  BY NoCallAssumption, CrashAssumption
     DEF Init, TypeOK, Call, Task, Statuses, CallPoints, TaskPoints, Ended

(* Moving a call or a task on, or storing a status, keeps their types.     *)
LEMMA CallAtType ==
    ASSUME TypeOK, NEW c \in Calls, NEW from, NEW to \in CallPoints, CallAt(c, from, to)
    PROVE  call' \in [Calls -> Call]
  <1>1. [call[c] EXCEPT !.at = to] \in Call
    BY DEF TypeOK, Call
  <1>2. call' = [call EXCEPT ![c] = [call[c] EXCEPT !.at = to]]
    BY DEF CallAt
  <1> QED BY <1>1, <1>2 DEF TypeOK

LEMMA TaskAtType ==
    ASSUME TypeOK, NEW c \in Calls, NEW from, NEW to \in TaskPoints, TaskAt(c, from, to)
    PROVE  task' \in [Calls -> Task]
  <1>1. [task[c] EXCEPT !.at = to] \in Task
    BY DEF TypeOK, Task
  <1>2. task' = [task EXCEPT ![c] = [task[c] EXCEPT !.at = to]]
    BY DEF TaskAt
  <1> QED BY <1>1, <1>2 DEF TypeOK

LEMMA SetStatusType ==
    ASSUME TypeOK, NEW c \in Calls, NEW s \in Statuses, SetStatus(c, s)
    PROVE  status' \in [Calls -> Statuses] /\ active' \subseteq Calls
  BY DEF TypeOK, SetStatus

LEMMA TypeStep == TypeOK /\ [Next]_vars => TypeOK'
  <1> SUFFICES ASSUME TypeOK, [Next]_vars PROVE TypeOK'
    OBVIOUS
  <1> USE DEF store, sweep, history
  <1>1. ASSUME NEW p \in Replicas, SweepStep(p) PROVE TypeOK'
    <2>1. CASE SweepStart(p)
      BY <2>1 DEF SweepStart, TypeOK
    <2>2. ASSUME NEW c \in Calls, SweepGet(p, c) PROVE TypeOK'
      BY <2>2 DEF SweepGet, TypeOK
    <2>3. CASE SweepFail(p)
      <3>1. victim[p] \in Calls /\ "FAILED" \in Statuses
        BY <2>3 DEF SweepFail, TypeOK, Statuses
      <3>2. status' \in [Calls -> Statuses] /\ active' \subseteq Calls
        BY <2>3, <3>1, SetStatusType DEF SweepFail
      <3> QED BY <2>3, <3>2 DEF SweepFail, TypeOK
    <2>4. CASE SweepDone(p)
      BY <2>4 DEF SweepDone, TypeOK
    <2> QED BY <1>1, <2>1, <2>2, <2>3, <2>4 DEF SweepStep
  <1>2. ASSUME NEW p \in Replicas, SweepRaises(p) PROVE TypeOK'
    BY <1>2 DEF SweepRaises, TypeOK
  <1>3. ASSUME NEW p \in Replicas, Crash(p) PROVE TypeOK'
    <2>1. call' \in [Calls -> Call]
      BY <1>3 DEF Crash, TypeOK, Call, CallPoints
    <2>2. task' \in [Calls -> Task]
      BY <1>3 DEF Crash, TypeOK, Task, TaskPoints
    <2>3. crashes' \in 0..MaxCrashes
      BY <1>3, CrashAssumption DEF Crash, TypeOK
    <2> QED BY <1>3, <2>1, <2>2, <2>3 DEF Crash, TypeOK
  <1>4. ASSUME NEW c \in Calls, Receive(c) \/ CallStep(c) \/ CreateRaises(c) PROVE TypeOK'
    <2> "idle" \in CallPoints /\ "begin" \in CallPoints /\ "lookup" \in CallPoints
        /\ "create" \in CallPoints /\ "poll" \in CallPoints /\ "done" \in CallPoints
        /\ "error" \in CallPoints /\ "raised" \in CallPoints
      BY DEF CallPoints
    <2>1. CASE Receive(c) \/ CreateRaises(c) \/ PollFinds(c) \/ PollGivesUp(c)
      <3>1. call' \in [Calls -> Call]
        BY <2>1, CallAtType DEF Receive, CreateRaises, PollFinds, PollGivesUp
      <3> QED BY <2>1, <3>1 DEF Receive, CreateRaises, PollFinds, PollGivesUp, TypeOK
    <2>2. CASE Claim(c)
      <3>1. call' \in [Calls -> Call]
        BY <2>2, CallAtType DEF Claim
      <3>2. claim' \in [Identities -> Calls \cup {NoCall}]
        BY <2>2 DEF Claim, TypeOK, Call
      <3> QED BY <2>2, <3>1, <3>2 DEF Claim, TypeOK
    <2>3. CASE Lookup(c)
      <3>1. claim[call[c].identity] \in Calls \cup {NoCall} /\ "poll" \in CallPoints
        BY DEF TypeOK, Call, CallPoints
      <3>2. [call[c] EXCEPT !.at = "poll", !.job = claim[call[c].identity]] \in Call
        BY <3>1 DEF TypeOK, Call
      <3>3. call' = [call EXCEPT ![c] =
                       [call[c] EXCEPT !.at = "poll", !.job = claim[call[c].identity]]]
        BY <2>3 DEF Lookup, TypeOK
      <3> QED BY <2>3, <3>2, <3>3 DEF Lookup, TypeOK
    <2>4. CASE Create(c)
      <3>1. call' \in [Calls -> Call]
        <4>1. [call[c] EXCEPT !.at = "done", !.job = c] \in Call
          <5>1. call[c] \in Call /\ "done" \in CallPoints
            BY DEF TypeOK, CallPoints
          <5> QED BY <5>1 DEF Call
        <4>2. call' = [call EXCEPT ![c] = [call[c] EXCEPT !.at = "done", !.job = c]]
          BY <2>4 DEF Create, TypeOK
        <4> QED BY <4>1, <4>2 DEF TypeOK
      <3>2. task' \in [Calls -> Task]
        BY <2>4 DEF Create, TypeOK, Task, TaskPoints
      <3>3. status' \in [Calls -> Statuses] /\ active' \subseteq Calls
        BY <2>4 DEF Create, TypeOK, Statuses
      <3> QED BY <2>4, <3>1, <3>2, <3>3 DEF Create, TypeOK
    <2> QED BY <1>4, <2>1, <2>2, <2>3, <2>4 DEF CallStep
  <1>5. ASSUME NEW c \in Calls, TaskStep(c) \/ AcquireRaises(c) \/ ReleaseRaises(c)
                                \/ FinishRaises(c) PROVE TypeOK'
    <2> "busy" \in TaskPoints /\ "begin" \in TaskPoints /\ "work" \in TaskPoints
        /\ "finish" \in TaskPoints /\ "release" \in TaskPoints /\ "over" \in TaskPoints
        /\ "raised" \in TaskPoints
      BY DEF TaskPoints
    <2> "RUNNING" \in Statuses /\ "FAILED" \in Statuses /\ Ended \subseteq Statuses
      BY DEF Statuses, Ended
    <2>1. task' \in [Calls -> Task]
      <3>1. CASE \/ Acquire(c) \/ RejectBusy(c) \/ AcquireRaises(c) \/ Begin(c)
                 \/ Finish(c) \/ Release(c) \/ ReleaseRaises(c)
        BY <3>1, TaskAtType DEF Acquire, RejectBusy, AcquireRaises, Begin, Finish, Release,
                                ReleaseRaises
      <3>2. ASSUME NEW verdict \in Ended, Work(c, verdict) PROVE task' \in [Calls -> Task]
        BY <3>2 DEF Work, TypeOK, Task
      <3>3. CASE FinishRaises(c)
        BY <3>3 DEF FinishRaises, TypeOK, Task, Ended
      <3> QED BY <1>5, <3>1, <3>2, <3>3 DEF TaskStep
    <2>2. CASE Acquire(c)
      BY <2>1, <2>2 DEF Acquire, TypeOK
    <2>3. CASE RejectBusy(c)
      BY <2>1, <2>3, SetStatusType DEF RejectBusy, TypeOK
    <2>4. CASE Begin(c)
      BY <2>1, <2>4, SetStatusType DEF Begin, TypeOK
    <2>5. CASE Finish(c)
      <3>1. task[c].verdict \in Statuses
        BY DEF TypeOK, Task
      <3> QED BY <2>1, <2>5, <3>1, SetStatusType DEF Finish, TypeOK
    <2>6. CASE Release(c)
      BY <2>1, <2>6 DEF Release, Unlocked, TypeOK
    <2>7. CASE AcquireRaises(c) \/ ReleaseRaises(c) \/ FinishRaises(c)
               \/ \E verdict \in Ended : Work(c, verdict)
      BY <2>1, <2>7 DEF AcquireRaises, ReleaseRaises, FinishRaises, Work, TypeOK
    <2> QED BY <1>5, <2>2, <2>3, <2>4, <2>5, <2>6, <2>7 DEF TaskStep
  <1>6. ASSUME NEW r \in Repositories, LockExpires(r) PROVE TypeOK'
    BY <1>6 DEF LockExpires, TypeOK
  <1>7. CASE UNCHANGED vars
    BY <1>7 DEF vars, TypeOK
  <1> QED
    BY <1>1, <1>2, <1>3, <1>4, <1>5, <1>6, <1>7 DEF Next

(* Redis and the replicas' memory stay within the modelled types.          *)
THEOREM JobsTypeOK == Spec => []TypeOK
  BY TypeInit, TypeStep, PTL DEF Spec

-----------------------------------------------------------------------------
(* The lock.                                                               *)

(* A call keeps its identity and its replica.                              *)
LEMMA CallFixed ==
    ASSUME TypeOK, [Next]_vars, NEW c \in Calls
    PROVE  call'[c].identity = call[c].identity /\ call'[c].replica = call[c].replica
  <1> USE DEF TypeOK, Call
  <1>1. ASSUME NEW d \in Calls,
               \/ Receive(d) \/ Claim(d) \/ Lookup(d) \/ PollFinds(d) \/ PollGivesUp(d)
               \/ CreateRaises(d) \/ Create(d)
        PROVE  call'[c].identity = call[c].identity /\ call'[c].replica = call[c].replica
    <2>1. PICK to, job : \/ call' = [call EXCEPT ![d].at = to]
                         \/ call' = [call EXCEPT ![d].at = to, ![d].job = job]
      BY <1>1, Zenon DEF Receive, Claim, Lookup, PollFinds, PollGivesUp, CreateRaises, Create,
                         CallAt
    <2> QED BY <2>1
  <1>2. ASSUME NEW p \in Replicas, Crash(p)
        PROVE  call'[c].identity = call[c].identity /\ call'[c].replica = call[c].replica
    BY <1>2 DEF Crash
  <1>3. ASSUME NEW p \in Replicas, SweepStep(p) \/ SweepRaises(p) PROVE UNCHANGED call
    BY <1>3 DEF SweepStep, SweepStart, SweepGet, SweepFail, SweepDone, SweepRaises
  <1>4. ASSUME NEW d \in Calls,
               \/ TaskStep(d) \/ AcquireRaises(d) \/ FinishRaises(d) \/ ReleaseRaises(d)
        PROVE  UNCHANGED call
    BY <1>4 DEF TaskStep, Acquire, RejectBusy, Begin, Work, Finish, Release, AcquireRaises,
                FinishRaises, ReleaseRaises
  <1>5. ASSUME NEW r \in Repositories, LockExpires(r) PROVE UNCHANGED call
    BY <1>5 DEF LockExpires
  <1>6. CASE UNCHANGED vars
    BY <1>6 DEF vars
  <1> QED
    BY <1>1, <1>2, <1>3, <1>4, <1>5, <1>6 DEF Next, CallStep

(* Only the lock's own actions touch it, and the rest neither starts nor   *)
(* moves a working task outside Working.                                   *)
LEMMA LockStep == TypeOK /\ WorkingHoldsLock /\ [Next]_vars => WorkingHoldsLock'
  <1> SUFFICES ASSUME TypeOK, WorkingHoldsLock, [Next]_vars,
                      NEW c \in Calls, Working(c)', c \notin overran'
               PROVE  lock'[RepoOf(c)'] = c
    BY DEF WorkingHoldsLock
  <1> DEFINE Holds == lock'[RepoOf(c)'] = c
  <1> USE DEF Working, RepoOf
  <1>a. RepoOf(c)' = RepoOf(c)
    BY CallFixed
  <1>b. RepoOf(c) \in Repositories
    BY RepositoryAssumption DEF TypeOK, Call
  <1>1. CASE UNCHANGED <<lock, task, overran>>
    BY <1>1, <1>a DEF WorkingHoldsLock
  <1>2. ASSUME NEW p \in Replicas, Crash(p) PROVE Holds
    <2>1. UNCHANGED <<lock, overran>>
      BY <1>2 DEF Crash, store
    <2>2. Working(c)
      BY <1>2 DEF Crash, TypeOK, Task, Live
    <2> QED BY <2>1, <2>2, <1>a DEF WorkingHoldsLock
  <1>3. ASSUME NEW d \in Calls, Create(d) PROVE Holds
    <2>1. UNCHANGED <<lock, overran>> /\ Working(c)
      BY <1>3 DEF Create, history, TypeOK, Task
    <2> QED BY <2>1, <1>a DEF WorkingHoldsLock
  <1>4. ASSUME NEW d \in Calls, Acquire(d) PROVE Holds
    <2>1. UNCHANGED overran
      BY <1>4 DEF Acquire, history
    <2>2. CASE c = d
      BY <1>4, <2>2, <1>a, <1>b DEF Acquire, TaskAt, TypeOK, Task
    <2>3. CASE c # d
      <3>1. Working(c)
        BY <1>4, <2>3 DEF Acquire, TaskAt, TypeOK, Task
      <3>2. lock[RepoOf(c)] = c
        BY <3>1, <2>1 DEF WorkingHoldsLock
      <3> QED BY <3>2, <1>4, <1>a, <1>b, NoCallAssumption DEF Acquire, TypeOK
    <2> QED BY <2>2, <2>3
  <1>5. ASSUME NEW d \in Calls,
               \/ RejectBusy(d) \/ Begin(d) \/ Finish(d) \/ AcquireRaises(d)
               \/ FinishRaises(d) \/ ReleaseRaises(d)
               \/ \E verdict \in Ended : Work(d, verdict)
        PROVE Holds
    <2>1. UNCHANGED <<lock, overran>>
      BY <1>5 DEF RejectBusy, Begin, Finish, AcquireRaises, FinishRaises, ReleaseRaises, Work,
                  store, history
    <2>2. Working(c)
      <3>0. task \in [Calls -> Task]
        BY DEF TypeOK
      <3>1. CASE c # d
        <4>1. task'[c] = task[c]
          BY <1>5, <3>0, <3>1 DEF RejectBusy, Begin, Finish, AcquireRaises, FinishRaises,
                                  ReleaseRaises, Work, TaskAt
        <4> QED BY <4>1
      <3>2. CASE c = d
        <4>1. CASE RejectBusy(d) \/ AcquireRaises(d) \/ ReleaseRaises(d)
          <5>1. task'[d].at \in {"over", "raised"}
            BY <3>0, <4>1 DEF RejectBusy, AcquireRaises, ReleaseRaises, TaskAt, Task
          <5> QED BY <3>2, <5>1
        <4>2. CASE \/ Begin(d) \/ Finish(d) \/ FinishRaises(d)
                   \/ \E verdict \in Ended : Work(d, verdict)
          BY <3>2, <4>2 DEF Begin, Finish, FinishRaises, Work, TaskAt
        <4> QED BY <1>5, <4>1, <4>2
      <3> QED BY <3>1, <3>2
    <2> QED BY <2>1, <2>2, <1>a DEF WorkingHoldsLock
  <1>6. ASSUME NEW d \in Calls, Release(d) PROVE Holds
    <2>1. UNCHANGED overran
      BY <1>6 DEF Release, history
    <2>2. c # d /\ Working(c)
      BY <1>6 DEF Release, TaskAt, TypeOK, Task
    <2>3. lock[RepoOf(c)] = c
      BY <2>1, <2>2 DEF WorkingHoldsLock
    <2> QED BY <1>6, <2>2, <2>3, <1>a, <1>b DEF Release, Unlocked, TypeOK
  <1>7. ASSUME NEW r \in Repositories, LockExpires(r) PROVE Holds
    <2>1. Working(c) /\ c \notin overran
      BY <1>7 DEF LockExpires
    <2>2. lock[RepoOf(c)] = c
      BY <2>1 DEF WorkingHoldsLock
    <2>3. CASE r = RepoOf(c)
      BY <1>7, <2>1, <2>2, <2>3 DEF LockExpires
    <2>4. CASE r # RepoOf(c)
      BY <1>7, <2>2, <2>4, <1>a, <1>b DEF LockExpires, TypeOK
    <2> QED BY <2>3, <2>4
  <1>8. ASSUME NEW p \in Replicas, SweepStep(p) \/ SweepRaises(p)
        PROVE UNCHANGED <<lock, task, overran>>
    BY <1>8 DEF SweepStep, SweepStart, SweepGet, SweepFail, SweepDone, SweepRaises, store, history
  <1>9. ASSUME NEW d \in Calls,
               \/ Receive(d) \/ Claim(d) \/ Lookup(d) \/ PollFinds(d) \/ PollGivesUp(d)
               \/ CreateRaises(d)
        PROVE UNCHANGED <<lock, task, overran>>
    BY <1>9 DEF Receive, Claim, Lookup, PollFinds, PollGivesUp, CreateRaises, store, history
  <1>10. CASE UNCHANGED vars
    BY <1>10, <1>1 DEF vars
  <1> QED
    BY <1>1, <1>2, <1>3, <1>4, <1>5, <1>6, <1>7, <1>8, <1>9, <1>10 DEF Next, CallStep, TaskStep

(* A working task holds its repository's lock unless its own lock ran out  *)
(* (token-checked release, RedisIndexCoordination).                        *)
THEOREM JobsWorkingHoldsLock == Spec => []WorkingHoldsLock
  <1>1. Init => WorkingHoldsLock
    BY DEF Init, WorkingHoldsLock, Working
  <1> QED
    BY <1>1, LockStep, JobsTypeOK, PTL DEF Spec

(* If no task outlives its lock, two tasks never work on one repository,   *)
(* with any number of replicas and crashes and with failing stores.        *)
THEOREM JobsOneWorker == ~Overrun => (Spec => []OneWorkerPerRepository)
  <1> SUFFICES ASSUME ~Overrun PROVE Spec => []OneWorkerPerRepository
    OBVIOUS
  <1>1. Init => overran = {}
    BY DEF Init
  <1>2. overran = {} /\ [Next]_vars => (overran = {})'
    <2> SUFFICES ASSUME overran = {}, [Next]_vars PROVE overran' = {}
      OBVIOUS
    <2>1. ASSUME NEW r \in Repositories, LockExpires(r) PROVE overran' = {}
      BY <2>1 DEF LockExpires
    <2>2. ASSUME NEW p \in Replicas, SweepStep(p) \/ SweepRaises(p) \/ Crash(p)
          PROVE  UNCHANGED overran
      BY <2>2 DEF SweepStep, SweepStart, SweepGet, SweepFail, SweepDone, SweepRaises, Crash,
                  history
    <2>3. ASSUME NEW c \in Calls, Receive(c) \/ CallStep(c) \/ CreateRaises(c)
          PROVE  UNCHANGED overran
      BY <2>3 DEF Receive, CallStep, Claim, Lookup, Create, PollFinds, PollGivesUp,
                  CreateRaises, history
    <2>4. ASSUME NEW c \in Calls,
                 \/ TaskStep(c) \/ AcquireRaises(c) \/ FinishRaises(c) \/ ReleaseRaises(c)
          PROVE  UNCHANGED overran
      BY <2>4 DEF TaskStep, Acquire, RejectBusy, Begin, Work, Finish, Release, AcquireRaises,
                  FinishRaises, ReleaseRaises, history
    <2>5. CASE UNCHANGED vars
      BY <2>5 DEF vars
    <2> QED
      BY <2>1, <2>2, <2>3, <2>4, <2>5 DEF Next
  <1>3. overran = {} /\ WorkingHoldsLock => OneWorkerPerRepository
    BY DEF WorkingHoldsLock, OneWorkerPerRepository
  <1> QED
    BY <1>1, <1>2, <1>3, JobsWorkingHoldsLock, PTL DEF Spec

-----------------------------------------------------------------------------
(* Idempotency.                                                            *)

(* A call that got past the claim knows its identity's claim: it made it,  *)
(* or it looks it up, or its answer is the claimed job.                    *)
FollowsClaim(c, claimed) ==
    /\ call[c].at = "create" => claimed = c
    /\ call[c].at = "lookup" => claimed # NoCall
    /\ call[c].at \in {"poll", "done"} => claimed # NoCall /\ call[c].job = claimed

CallsFollowClaim == \A c \in Calls : FollowsClaim(c, claim[call[c].identity])

(* A claim is made once and stays.                                         *)
LEMMA ClaimStays ==
    ASSUME TypeOK, [Next]_vars, NEW i \in Identities, claim[i] # NoCall
    PROVE  claim'[i] = claim[i]
  <1>1. ASSUME NEW c \in Calls, Claim(c) PROVE claim'[i] = claim[i]
    BY <1>1 DEF Claim, TypeOK
  <1>2. CASE \A c \in Calls : ~Claim(c)
    <2>1. UNCHANGED claim
      BY <1>2 DEF Next, SweepStep, SweepStart, SweepGet, SweepFail, SweepDone, SweepRaises,
         Crash, Receive, CallStep, Lookup, Create, PollFinds, PollGivesUp, CreateRaises,
         TaskStep, Acquire, RejectBusy, Begin, Work, Finish, Release, AcquireRaises,
         FinishRaises, ReleaseRaises, LockExpires, store, vars
    <2> QED BY <2>1
  <1> QED BY <1>1, <1>2

LEMMA FollowClaimStep == TypeOK /\ CallsFollowClaim /\ [Next]_vars => CallsFollowClaim'
  <1> SUFFICES ASSUME TypeOK, CallsFollowClaim, [Next]_vars, NEW c \in Calls,
                      NEW i \in Identities, call[c].identity = i
               PROVE  FollowsClaim(c, claim[i])'
    <2>1. ASSUME TypeOK, [Next]_vars, NEW d \in Calls
          PROVE  call[d].identity \in Identities /\ call'[d].identity = call[d].identity
      BY <2>1, CallFixed DEF TypeOK, Call
    <2> QED BY <2>1 DEF CallsFollowClaim
  <1>a. call[c] \in Call
    BY DEF TypeOK
  <1>b. FollowsClaim(c, claim[i])
    BY DEF CallsFollowClaim
  <1>c. claim[i] # NoCall => claim'[i] = claim[i]
    BY ClaimStays
  <1>d. call[c].at \in {"lookup", "create", "poll", "done"} => claim'[i] = claim[i]
    BY <1>b, <1>c, NoCallAssumption DEF FollowsClaim
  <1> DEFINE Goal == FollowsClaim(c, claim[i])'
  <1>1. CASE call'[c] = call[c]
    BY <1>1, <1>b, <1>d DEF FollowsClaim
  <1>2. ASSUME NEW p \in Replicas, Crash(p) PROVE Goal
    <2>1. call'[c] = call[c] \/ call'[c].at = "dead"
      BY <1>2, <1>a DEF Crash, Call
    <2> QED BY <1>1, <2>1 DEF FollowsClaim
  <1>3. CASE Claim(c)
    <2>1. \/ call'[c].at = "create" /\ claim'[i] = c
          \/ call'[c].at = "lookup" /\ claim'[i] # NoCall
      BY <1>3, <1>a, NoCallAssumption DEF Claim, CallAt, TypeOK, Call
    <2> QED BY <2>1 DEF FollowsClaim
  <1>4. CASE Lookup(c)
    <2>1. call[c].at = "lookup" /\ call'[c].at = "poll" /\ call'[c].job = claim[i]
      BY <1>4, <1>a DEF Lookup, TypeOK, Call
    <2> QED BY <1>b, <1>d, <2>1 DEF FollowsClaim
  <1>5. CASE Create(c)
    <2>1. call[c].at = "create" /\ call'[c].at = "done" /\ call'[c].job = c
      BY <1>5, <1>a DEF Create, TypeOK, Call
    <2> QED BY <1>b, <1>d, <2>1, NoCallAssumption DEF FollowsClaim
  <1>6. CASE Receive(c) \/ CreateRaises(c) \/ PollFinds(c) \/ PollGivesUp(c)
    <2>1. /\ call'[c].job = call[c].job
          /\ \/ call'[c].at \in {"begin", "error", "raised"}
             \/ call[c].at = "poll" /\ call'[c].at = "done"
      BY <1>6, <1>a DEF Receive, CreateRaises, PollFinds, PollGivesUp, CallAt, TypeOK, Call
    <2> QED BY <1>b, <1>d, <2>1 DEF FollowsClaim
  <1>7. ASSUME NEW d \in Calls, d # c, Receive(d) \/ CallStep(d) \/ CreateRaises(d)
        PROVE  Goal
    <2>1. call'[c] = call[c]
      BY <1>7 DEF Receive, CallStep, Claim, Lookup, Create, PollFinds, PollGivesUp,
                  CreateRaises, CallAt, TypeOK
    <2> QED BY <1>1, <2>1
  <1>8. ASSUME \/ \E p \in Replicas : SweepStep(p) \/ SweepRaises(p)
               \/ \E d \in Calls : \/ TaskStep(d) \/ AcquireRaises(d)
                                   \/ FinishRaises(d) \/ ReleaseRaises(d)
               \/ \E r \in Repositories : LockExpires(r)
               \/ UNCHANGED vars
        PROVE  Goal
    <2>1. UNCHANGED call
      BY <1>8 DEF SweepStep, SweepStart, SweepGet, SweepFail, SweepDone, SweepRaises,
         TaskStep, Acquire, RejectBusy, Begin, Work, Finish, Release, AcquireRaises,
         FinishRaises, ReleaseRaises, LockExpires, vars
    <2> QED BY <1>1, <2>1
  <1> QED BY <1>2, <1>3, <1>4, <1>5, <1>6, <1>7, <1>8 DEF Next, CallStep

(* Calls with one identity are answered with one job, whatever replicas    *)
(* take them and however often these crash in between.                     *)
THEOREM JobsSameIdentitySameJob == Spec => []SameIdentitySameJob
  <1>1. Init => CallsFollowClaim
    BY DEF Init, CallsFollowClaim, FollowsClaim
  <1>2. CallsFollowClaim => SameIdentitySameJob
    BY DEF CallsFollowClaim, FollowsClaim, SameIdentitySameJob
  <1> QED BY <1>1, <1>2, TypeInit, TypeStep, FollowClaimStep, PTL DEF Spec

(***************************************************************************)
(* With one replica, as compose.yaml deploys it, IndexerJobs implements    *)
(* JobLifecycle: across crashes, restarts and failing stores an ended job  *)
(* never changes, because the sweep that fails interrupted jobs is over    *)
(* before the process starts a task of its own.                            *)
(***************************************************************************)
SingleReplica == \A p, q \in Replicas : p = q

(* Calls past the readiness gate, and tasks, exist only in a ready process. *)
ReadyBeforeWork ==
    \A c \in Calls : Live(c) \/ call[c].at \in {"lookup", "create", "poll"}
                     => phase[HomeOf(c)] = "ready"

(* The job the sweep is about to fail is still unfinished.                 *)
VictimUnfinished ==
    \A p \in Replicas :
        victim[p] # NoCall => /\ phase[p] = "sweeping"
                              /\ victim[p] \in todo[p]
                              /\ status[victim[p]] \in Unfinished

(* Nothing is stored, and nothing runs, before the call that creates it.   *)
CreatedByItsCall ==
    \A c \in Calls : status[c] # "ABSENT" \/ task[c].at # "none" => call[c].at = "done"

(* Where a task is tells the status its job has.                           *)
TaskTellsStatus ==
    \A c \in Calls :
        /\ task[c].at \in {"acquire", "busy", "begin"} => status[c] = "PENDING"
        /\ task[c].at = "work" => status[c] = "RUNNING"
        /\ task[c].at = "finish" =>
              /\ status[c] \in Unfinished
              /\ task[c].verdict = "COMPLETED" => status[c] = "RUNNING"

LifeInv == /\ TypeOK
           /\ ReadyBeforeWork
           /\ VictimUnfinished
           /\ CreatedByItsCall
           /\ TaskTellsStatus
           /\ UnfinishedIsActive

LEMMA LifeInvInit == Init => LifeInv
  <1> SUFFICES ASSUME Init PROVE LifeInv
    OBVIOUS
  <1>1. TypeOK
    BY TypeInit
  <1>2. ReadyBeforeWork /\ VictimUnfinished /\ CreatedByItsCall /\ TaskTellsStatus
        /\ UnfinishedIsActive
    BY DEF Init, ReadyBeforeWork, VictimUnfinished, CreatedByItsCall, TaskTellsStatus,
           UnfinishedIsActive, Live, Unfinished
  <1> QED BY <1>1, <1>2 DEF LifeInv

(* A crash or a failed sweep makes the one process cold only once all its  *)
(* tasks are gone, and a task or a claim starts only in a ready process.   *)
LEMMA ReadyStep ==
    ASSUME SingleReplica, LifeInv, [Next]_vars
    PROVE  ReadyBeforeWork'
  <1> SUFFICES ASSUME NEW c \in Calls,
                      Live(c)' \/ call'[c].at \in {"lookup", "create", "poll"}
               PROVE  phase'[HomeOf(c)'] = "ready"
    BY DEF ReadyBeforeWork
  <1> USE DEF Live, HomeOf, TypeOK, Call, Task
  <1>0. TypeOK /\ ReadyBeforeWork /\ HomeOf(c)' = HomeOf(c) /\ HomeOf(c) \in Replicas
    BY CallFixed DEF LifeInv
  <1>1. ASSUME NEW p \in Replicas, SweepStep(p) \/ SweepRaises(p)
        PROVE  phase'[HomeOf(c)'] = "ready"
    <2>1. UNCHANGED <<call, task>>
      BY <1>1 DEF SweepStep, SweepStart, SweepGet, SweepFail, SweepDone, SweepRaises
    <2>2. phase[HomeOf(c)] = "ready" /\ p = HomeOf(c)
      BY <2>1, <1>0 DEF ReadyBeforeWork, SingleReplica
    <2>3. UNCHANGED phase
      BY <1>1, <2>2, <1>0 DEF SweepStep, SweepStart, SweepGet, SweepFail, SweepDone, SweepRaises,
                        LifeInv, VictimUnfinished
    <2> QED BY <2>2, <2>3, <1>0
  <1>2. ASSUME NEW p \in Replicas, Crash(p) PROVE phase'[HomeOf(c)'] = "ready"
    BY <1>0, <1>2 DEF SingleReplica, Crash
  <1>3. ASSUME NEW d \in Calls, Claim(d) PROVE phase'[HomeOf(c)'] = "ready"
    BY <1>0, <1>3 DEF Claim, CallAt, sweep, ReadyBeforeWork
  <1>4. ASSUME NEW d \in Calls, Create(d) PROVE phase'[HomeOf(c)'] = "ready"
    BY <1>0, <1>4 DEF Create, sweep, ReadyBeforeWork
  <1>5. ASSUME NEW d \in Calls,
               Receive(d) \/ Lookup(d) \/ PollFinds(d) \/ PollGivesUp(d) \/ CreateRaises(d)
        PROVE  phase'[HomeOf(c)'] = "ready"
    <2>1. CASE Receive(d) \/ CreateRaises(d)
      <3>1. UNCHANGED <<phase, task>>
        BY <2>1 DEF Receive, CreateRaises, sweep
      <3>2. /\ c # d => call'[c] = call[c]
            /\ call'[d].at \in {"begin", "raised"}
        BY <1>0, <2>1 DEF Receive, CreateRaises, CallAt
      <3> QED BY <1>0, <3>1, <3>2 DEF ReadyBeforeWork
    <2>2. CASE Lookup(d)
      BY <1>0, <2>2 DEF Lookup, sweep, ReadyBeforeWork
    <2>3. CASE PollFinds(d) \/ PollGivesUp(d)
      BY <1>0, <2>3 DEF PollFinds, PollGivesUp, CallAt, sweep, ReadyBeforeWork
    <2> QED BY <1>5, <2>1, <2>2, <2>3
  <1>6. ASSUME NEW d \in Calls,
               \/ TaskStep(d) \/ AcquireRaises(d) \/ FinishRaises(d) \/ ReleaseRaises(d)
        PROVE  phase'[HomeOf(c)'] = "ready"
    <2>1. UNCHANGED <<phase, call>>
      BY <1>6 DEF TaskStep, Acquire, RejectBusy, Begin, Work, Finish, Release, AcquireRaises,
                  FinishRaises, ReleaseRaises, sweep
    <2>2. Live(c)' => Live(c)
      BY <1>0, <1>6 DEF TaskStep, Acquire, RejectBusy, Begin, Work, Finish, Release, AcquireRaises,
                  FinishRaises, ReleaseRaises, TaskAt
    <2> QED BY <1>0, <2>1, <2>2 DEF ReadyBeforeWork
  <1>7. CASE UNCHANGED vars \/ \E r \in Repositories : LockExpires(r)
    BY <1>0, <1>7 DEF vars, LockExpires, sweep, ReadyBeforeWork
  <1> QED
    BY <1>1, <1>2, <1>3, <1>4, <1>5, <1>6, <1>7 DEF Next, CallStep

(* The actions that change a stored status.                                *)
LEMMA StatusChange ==
    ASSUME [Next]_vars
    PROVE  \/ UNCHANGED <<status, active>>
           \/ \E p \in Replicas : SweepFail(p)
           \/ \E c \in Calls : Create(c) \/ RejectBusy(c) \/ Begin(c) \/ Finish(c)
  <1> USE DEF store
  <1>1. ASSUME NEW p \in Replicas, SweepStep(p) \/ SweepRaises(p) \/ Crash(p)
        PROVE  UNCHANGED <<status, active>> \/ SweepFail(p)
    BY <1>1 DEF SweepStep, SweepStart, SweepGet, SweepDone, SweepRaises, Crash
  <1>2. ASSUME NEW c \in Calls, Receive(c) \/ CallStep(c) \/ CreateRaises(c)
        PROVE  UNCHANGED <<status, active>> \/ Create(c)
    BY <1>2 DEF Receive, CallStep, Claim, Lookup, PollFinds, PollGivesUp, CreateRaises
  <1>3. ASSUME NEW c \in Calls,
               TaskStep(c) \/ AcquireRaises(c) \/ FinishRaises(c) \/ ReleaseRaises(c)
        PROVE  UNCHANGED <<status, active>> \/ RejectBusy(c) \/ Begin(c) \/ Finish(c)
    BY <1>3 DEF TaskStep, Acquire, Work, Release, AcquireRaises, FinishRaises, ReleaseRaises
  <1>4. CASE UNCHANGED vars \/ \E r \in Repositories : LockExpires(r)
    BY <1>4 DEF vars, LockExpires
  <1> QED BY <1>1, <1>2, <1>3, <1>4 DEF Next

(* What runs past the readiness gate rules out a sweep in progress.        *)
LEMMA WorkOrSweep ==
    ASSUME SingleReplica, LifeInv, NEW p \in Replicas, phase[p] = "sweeping", NEW c \in Calls
    PROVE  ~Live(c) /\ call[c].at \notin {"lookup", "create", "poll"}
  <1>1. HomeOf(c) = p
    BY DEF SingleReplica, HomeOf, LifeInv, TypeOK, Call
  <1> QED BY <1>1 DEF LifeInv, ReadyBeforeWork

(* No task of the one process runs while it sweeps, so the victim of the   *)
(* sweep keeps its status until the sweep fails it.                        *)
LEMMA VictimStep ==
    ASSUME SingleReplica, LifeInv, [Next]_vars
    PROVE  VictimUnfinished'
  <1> DEFINE Goal(p) == /\ phase'[p] = "sweeping"
                        /\ victim'[p] \in todo'[p]
                        /\ status'[victim'[p]] \in Unfinished
  <1> SUFFICES ASSUME NEW p \in Replicas, victim'[p] # NoCall PROVE Goal(p)
    BY DEF VictimUnfinished
  <1> USE DEF TypeOK, store
  <1>0. TypeOK /\ VictimUnfinished
    BY DEF LifeInv
  <1>1. ASSUME NEW q \in Replicas, SweepStep(q) PROVE Goal(p)
    <2>0. p = q
      BY DEF SingleReplica
    <2>1. CASE SweepStart(q)
      BY <1>0, <2>0, <2>1 DEF SweepStart, VictimUnfinished
    <2>2. ASSUME NEW c \in Calls, SweepGet(q, c) PROVE Goal(p)
      BY <1>0, <2>0, <2>2 DEF SweepGet, VictimUnfinished
    <2>3. CASE SweepFail(q)
      BY <1>0, <2>0, <2>3 DEF SweepFail
    <2>4. CASE SweepDone(q)
      BY <1>0, <2>0, <2>4 DEF SweepDone, VictimUnfinished
    <2> QED BY <1>1, <2>1, <2>2, <2>3, <2>4 DEF SweepStep
  <1>2. ASSUME NEW q \in Replicas, SweepRaises(q) \/ Crash(q) PROVE Goal(p)
    BY <1>0, <1>2 DEF SingleReplica, SweepRaises, Crash
  <1>3. CASE UNCHANGED <<sweep, status>>
    BY <1>0, <1>3 DEF sweep, VictimUnfinished
  <1>4. ASSUME NEW d \in Calls, Create(d) \/ RejectBusy(d) \/ Begin(d) \/ Finish(d)
        PROVE  Goal(p)
    <2>1. Live(d) \/ call[d].at = "create"
      BY <1>4 DEF Create, RejectBusy, Begin, Finish, TaskAt, Live
    <2>2. phase[p] # "sweeping"
      BY <2>1, WorkOrSweep
    <2>3. UNCHANGED victim
      BY <1>4 DEF Create, RejectBusy, Begin, Finish, sweep
    <2> QED BY <2>2, <2>3, <1>0 DEF VictimUnfinished
  <1>5. ASSUME NEW d \in Calls, Receive(d) \/ CallStep(d) \/ CreateRaises(d)
        PROVE  UNCHANGED <<sweep, status>> \/ Create(d)
    BY <1>5 DEF Receive, CallStep, Claim, Lookup, PollFinds, PollGivesUp, CreateRaises
  <1>6. ASSUME NEW d \in Calls,
               TaskStep(d) \/ AcquireRaises(d) \/ FinishRaises(d) \/ ReleaseRaises(d)
        PROVE  UNCHANGED <<sweep, status>> \/ RejectBusy(d) \/ Begin(d) \/ Finish(d)
    BY <1>6 DEF TaskStep, Acquire, Work, Release, AcquireRaises, FinishRaises, ReleaseRaises
  <1>7. CASE UNCHANGED vars \/ \E r \in Repositories : LockExpires(r)
    <2>1. UNCHANGED <<sweep, status>>
      BY <1>7 DEF vars, sweep, LockExpires
    <2> QED BY <2>1, <1>3
  <1> QED BY <1>1, <1>2, <1>3, <1>4, <1>5, <1>6, <1>7 DEF Next

(* A call that is answered stays answered, and only the task of its own    *)
(* call, or a sweep that found the job, stores a status.                   *)
LEMMA CreatedStep ==
    ASSUME LifeInv, [Next]_vars
    PROVE  CreatedByItsCall'
  <1> SUFFICES ASSUME NEW c \in Calls, status'[c] # "ABSENT" \/ task'[c].at # "none"
               PROVE  call'[c].at = "done"
    BY DEF CreatedByItsCall
  <1> USE DEF TypeOK, Call, Task, store
  <1>0. TypeOK /\ CreatedByItsCall /\ VictimUnfinished
    BY DEF LifeInv
  <1>1. call[c].at = "done" => call'[c].at = "done"
    <2>1. ASSUME NEW p \in Replicas, SweepStep(p) \/ SweepRaises(p) PROVE UNCHANGED call
      BY <2>1 DEF SweepStep, SweepStart, SweepGet, SweepFail, SweepDone, SweepRaises
    <2>2. ASSUME NEW p \in Replicas, Crash(p), call[c].at = "done" PROVE call'[c].at = "done"
      BY <1>0, <2>2 DEF Crash
    <2>3. ASSUME NEW d \in Calls, Receive(d) \/ CallStep(d) \/ CreateRaises(d),
                 call[c].at = "done"
          PROVE  call'[c].at = "done"
      BY <1>0, <2>3 DEF Receive, CallStep, Claim, Lookup, Create, PollFinds, PollGivesUp,
                        CreateRaises, CallAt
    <2>4. ASSUME NEW d \in Calls,
                 TaskStep(d) \/ AcquireRaises(d) \/ FinishRaises(d) \/ ReleaseRaises(d)
          PROVE  UNCHANGED call
      BY <2>4 DEF TaskStep, Acquire, RejectBusy, Begin, Work, Finish, Release, AcquireRaises,
                  FinishRaises, ReleaseRaises
    <2>5. CASE UNCHANGED vars \/ \E r \in Repositories : LockExpires(r)
      BY <2>5 DEF vars, LockExpires
    <2> QED BY <2>1, <2>2, <2>3, <2>4, <2>5 DEF Next
  <1>2. CASE status[c] # "ABSENT" \/ task[c].at # "none"
    BY <1>0, <1>1, <1>2 DEF CreatedByItsCall
  <1>3. CASE status[c] = "ABSENT" /\ task[c].at = "none"
    <2>1. ASSUME task'[c].at # "none" PROVE Create(c)
      <3>1. ASSUME NEW p \in Replicas, SweepStep(p) \/ SweepRaises(p) PROVE UNCHANGED task
        BY <3>1 DEF SweepStep, SweepStart, SweepGet, SweepFail, SweepDone, SweepRaises
      <3>2. ASSUME NEW p \in Replicas PROVE ~Crash(p)
        BY <1>0, <1>3, <2>1, <3>1 DEF Crash, Live
      <3>3. ASSUME NEW d \in Calls, Receive(d) \/ CallStep(d) \/ CreateRaises(d)
            PROVE  UNCHANGED task \/ Create(d)
        BY <3>3 DEF Receive, CallStep, Claim, Lookup, PollFinds, PollGivesUp, CreateRaises
      <3>4. ASSUME NEW d \in Calls, Create(d) PROVE c = d
        BY <1>0, <1>3, <2>1, <3>4 DEF Create
      <3>5. ASSUME NEW d \in Calls,
                   TaskStep(d) \/ AcquireRaises(d) \/ FinishRaises(d) \/ ReleaseRaises(d)
            PROVE  FALSE
        BY <1>0, <1>3, <2>1, <3>5
           DEF TaskStep, Acquire, RejectBusy, Begin, Work, Finish, Release, AcquireRaises,
               FinishRaises, ReleaseRaises, TaskAt
      <3>6. CASE UNCHANGED vars \/ \E r \in Repositories : LockExpires(r)
        BY <1>3, <2>1, <3>6 DEF vars, LockExpires
      <3> QED BY <1>3, <2>1, <3>1, <3>2, <3>3, <3>4, <3>5, <3>6 DEF Next
    <2>2. ASSUME status'[c] # "ABSENT" PROVE Create(c)
      <3>1. ASSUME NEW p \in Replicas PROVE ~SweepFail(p)
        BY <1>0, <1>3, <2>2 DEF SweepFail, SetStatus, VictimUnfinished, Unfinished
      <3>2. ASSUME NEW d \in Calls PROVE ~RejectBusy(d) /\ ~Begin(d) /\ ~Finish(d)
        BY <1>0, <1>3, <2>2 DEF RejectBusy, Begin, Finish, SetStatus, TaskAt
      <3>3. ASSUME NEW d \in Calls, Create(d) PROVE c = d
        BY <1>0, <1>3, <2>2, <3>3 DEF Create
      <3> QED BY <1>3, <2>2, <3>1, <3>2, <3>3, StatusChange
    <2>3. Create(c)
      BY <2>1, <2>2
    <2> QED BY <1>0, <2>3 DEF Create
  <1> QED BY <1>2, <1>3

LEMMA TaskStatusStep ==
    ASSUME SingleReplica, LifeInv, [Next]_vars
    PROVE  TaskTellsStatus'
  <1> DEFINE Tells(c) ==
        /\ task[c].at \in {"acquire", "busy", "begin"} => status[c] = "PENDING"
        /\ task[c].at = "work" => status[c] = "RUNNING"
        /\ task[c].at = "finish" =>
              /\ status[c] \in Unfinished
              /\ task[c].verdict = "COMPLETED" => status[c] = "RUNNING"
  <1> SUFFICES ASSUME NEW c \in Calls PROVE Tells(c)'
    BY DEF TaskTellsStatus
  <1> USE DEF TypeOK, Call, Task, store, Unfinished
  <1>0. TypeOK /\ Tells(c)
    BY DEF LifeInv, TaskTellsStatus
  <1>1. ASSUME NEW p \in Replicas, SweepFail(p) PROVE Tells(c)'
    <2>1. victim[p] # NoCall /\ phase[p] = "sweeping"
      BY <1>1 DEF SweepFail, LifeInv, VictimUnfinished
    <2>2. ~Live(c)
      BY <2>1, WorkOrSweep
    <2> QED BY <1>1, <2>2 DEF SweepFail, Live
  <1>2. ASSUME NEW p \in Replicas, Crash(p) PROVE Tells(c)'
    BY <1>0, <1>2 DEF Crash
  <1>3. CASE UNCHANGED <<task, status>>
    BY <1>0, <1>3
  <1>4. ASSUME NEW d \in Calls, Create(d) PROVE Tells(c)'
    BY <1>0, <1>4 DEF Create
  <1>5. ASSUME NEW d \in Calls, RejectBusy(d) \/ Begin(d) \/ Finish(d) PROVE Tells(c)'
    <2>1. CASE RejectBusy(d)
      BY <1>0, <2>1 DEF RejectBusy, TaskAt, SetStatus
    <2>2. CASE Begin(d)
      <3>1. task' = [task EXCEPT ![d].at = "work"] /\ status' = [status EXCEPT ![d] = "RUNNING"]
        BY <2>2 DEF Begin, TaskAt, SetStatus
      <3>2. c = d => task'[c].at = "work" /\ status'[c] = "RUNNING"
        BY <1>0, <3>1
      <3>3. c # d => task'[c] = task[c] /\ status'[c] = status[c]
        BY <1>0, <3>1
      <3> QED BY <1>0, <3>2, <3>3
    <2>3. CASE Finish(d)
      BY <1>0, <2>3 DEF Finish, TaskAt, SetStatus
    <2> QED BY <1>5, <2>1, <2>2, <2>3
  <1>6. ASSUME NEW d \in Calls,
               Acquire(d) \/ Release(d) \/ AcquireRaises(d) \/ ReleaseRaises(d)
        PROVE  Tells(c)'
    BY <1>0, <1>6 DEF Acquire, Release, AcquireRaises, ReleaseRaises, TaskAt
  <1>7. ASSUME NEW d \in Calls, FinishRaises(d) \/ \E verdict \in Ended : Work(d, verdict)
        PROVE  Tells(c)'
    <2>1. CASE FinishRaises(d)
      BY <1>0, <2>1 DEF FinishRaises
    <2>2. ASSUME NEW verdict \in Ended, Work(d, verdict) PROVE Tells(c)'
      <3>1. status[d] \in Unfinished /\ (verdict = "COMPLETED" => status[d] = "RUNNING")
        BY <2>2 DEF Work, LifeInv, TaskTellsStatus
      <3>2. /\ task' = [task EXCEPT ![d].at = "finish", ![d].verdict = verdict]
            /\ UNCHANGED status
        BY <2>2 DEF Work
      <3>3. c = d => task'[c].at = "finish" /\ task'[c].verdict = verdict
        BY <1>0, <3>2
      <3>4. c # d => task'[c] = task[c]
        BY <1>0, <3>2
      <3> QED BY <1>0, <3>1, <3>2, <3>3, <3>4
    <2> QED BY <1>7, <2>1, <2>2
  <1>8. ASSUME NEW p \in Replicas, SweepStep(p) \/ SweepRaises(p)
        PROVE  UNCHANGED <<task, status>> \/ SweepFail(p)
    BY <1>8 DEF SweepStep, SweepStart, SweepGet, SweepDone, SweepRaises
  <1>9. ASSUME NEW d \in Calls, Receive(d) \/ CallStep(d) \/ CreateRaises(d)
        PROVE  UNCHANGED <<task, status>> \/ Create(d)
    BY <1>9 DEF Receive, CallStep, Claim, Lookup, PollFinds, PollGivesUp, CreateRaises
  <1>10. CASE UNCHANGED vars \/ \E r \in Repositories : LockExpires(r)
    <2>1. UNCHANGED <<task, status>>
      BY <1>10 DEF vars, LockExpires
    <2> QED BY <2>1, <1>3
  <1> QED
    BY <1>1, <1>2, <1>3, <1>4, <1>5, <1>6, <1>7, <1>8, <1>9, <1>10 DEF Next, TaskStep

(* Only an ended job leaves the active set.                                *)
LEMMA ActiveStep ==
    ASSUME LifeInv, [Next]_vars
    PROVE  UnfinishedIsActive'
  <1> USE DEF TypeOK, UnfinishedIsActive, Unfinished, Ended, SetStatus
  <1>0. TypeOK /\ UnfinishedIsActive
    BY DEF LifeInv
  <1>1. CASE UNCHANGED <<status, active>>
    BY <1>0, <1>1
  <1>2. ASSUME NEW p \in Replicas, SweepFail(p) PROVE UnfinishedIsActive'
    BY <1>0, <1>2 DEF SweepFail
  <1>3. ASSUME NEW c \in Calls, Create(c) PROVE UnfinishedIsActive'
    BY <1>0, <1>3 DEF Create
  <1>4. ASSUME NEW c \in Calls, RejectBusy(c) PROVE UnfinishedIsActive'
    BY <1>0, <1>4 DEF RejectBusy
  <1>5. ASSUME NEW c \in Calls, Begin(c) PROVE UnfinishedIsActive'
    BY <1>0, <1>5 DEF Begin, TaskAt, LifeInv, TaskTellsStatus
  <1>6. ASSUME NEW c \in Calls, Finish(c) PROVE UnfinishedIsActive'
    BY <1>0, <1>6 DEF Finish, Task
  <1> QED BY <1>1, <1>2, <1>3, <1>4, <1>5, <1>6, StatusChange

LEMMA LifeInvStep ==
    ASSUME SingleReplica, LifeInv, [Next]_vars
    PROVE  LifeInv'
  <1>1. TypeOK'
    BY TypeStep DEF LifeInv
  <1> QED
    BY <1>1, ReadyStep, VictimStep, CreatedStep, TaskStatusStep, ActiveStep DEF LifeInv

LEMMA LifeInvariant == SingleReplica => (Spec => []LifeInv)
  <1> SUFFICES ASSUME SingleReplica PROVE Spec => []LifeInv
    OBVIOUS
  <1>1. LifeInv /\ [Next]_vars => LifeInv'
    BY LifeInvStep
  <1> QED BY LifeInvInit, <1>1, PTL DEF Spec

-----------------------------------------------------------------------------
(* An unfinished job is always in the active set, where the next process   *)
(* to start will look for it (service.py, _ensure_job_store_ready).        *)
THEOREM JobsUnfinishedIsActive == SingleReplica => (Spec => []UnfinishedIsActive)
  <1> SUFFICES ASSUME SingleReplica PROVE Spec => []UnfinishedIsActive
    OBVIOUS
  <1>1. LifeInv => UnfinishedIsActive
    BY DEF LifeInv
  <1> QED BY LifeInvariant, <1>1, PTL

(* The restart sweep fails no job that a task is still working on: with    *)
(* one replica every job it finds was left by a process that is gone.      *)
THEOREM JobsSweepFailsOnlyInterrupted ==
    SingleReplica => (Spec => []SweepFailsOnlyInterrupted)
  <1> SUFFICES ASSUME SingleReplica PROVE Spec => []SweepFailsOnlyInterrupted
    OBVIOUS
  <1>1. LifeInv => SweepFailsOnlyInterrupted
    <2> SUFFICES ASSUME LifeInv, NEW p \in Replicas, victim[p] # NoCall
                 PROVE  ~Live(victim[p])
      BY DEF SweepFailsOnlyInterrupted
    <2>1. phase[p] = "sweeping" /\ victim[p] \in Calls
      BY DEF LifeInv, VictimUnfinished, TypeOK
    <2> QED BY <2>1, WorkOrSweep
  <1> QED BY LifeInvariant, <1>1, PTL

LEMMA LifecycleInit == Init => Lifecycle!Init
  BY DEF Init, Lifecycle!Init

(* Every step that stores a status is one of the life cycle's.             *)
LEMMA LifecycleStep ==
    ASSUME LifeInv, [Next]_vars
    PROVE  [Lifecycle!Next]_status
  <1> USE DEF TypeOK, Unfinished, SetStatus, Lifecycle!Next
  <1>0. TypeOK
    BY DEF LifeInv
  <1>1. ASSUME NEW p \in Replicas, SweepFail(p) PROVE Lifecycle!Next
    <2>1. victim[p] \in Calls /\ status[victim[p]] \in Unfinished
      BY <1>0, <1>1 DEF SweepFail, LifeInv, VictimUnfinished
    <2>2. Lifecycle!Fail(victim[p])
      BY <1>1, <2>1 DEF SweepFail, Lifecycle!Fail
    <2> QED BY <2>1, <2>2
  <1>2. ASSUME NEW c \in Calls, Create(c) PROVE Lifecycle!Next
    <2>1. status[c] = "ABSENT"
      BY <1>2 DEF Create, LifeInv, CreatedByItsCall
    <2>2. Lifecycle!Register(c)
      BY <1>2, <2>1 DEF Create, Lifecycle!Register
    <2> QED BY <2>2
  <1>3. ASSUME NEW c \in Calls, RejectBusy(c) PROVE Lifecycle!Next
    <2>1. Lifecycle!Fail(c)
      BY <1>3 DEF RejectBusy, TaskAt, LifeInv, TaskTellsStatus, Lifecycle!Fail
    <2> QED BY <2>1
  <1>4. ASSUME NEW c \in Calls, Begin(c) PROVE Lifecycle!Next
    <2>1. Lifecycle!Run(c)
      BY <1>4 DEF Begin, TaskAt, LifeInv, TaskTellsStatus, Lifecycle!Run
    <2> QED BY <2>1
  <1>5. ASSUME NEW c \in Calls, Finish(c) PROVE Lifecycle!Next
    <2>1. task[c].at = "finish" /\ task[c].verdict \in Ended
      BY <1>0, <1>5 DEF Finish, TaskAt, Task
    <2>2. Lifecycle!Fail(c) \/ Lifecycle!Complete(c)
      BY <1>5, <2>1 DEF Finish, Ended, LifeInv, TaskTellsStatus, Lifecycle!Fail,
                        Lifecycle!Complete
    <2> QED BY <2>2
  <1> QED BY <1>1, <1>2, <1>3, <1>4, <1>5, StatusChange

(* A client that polls a job sees it registered once, run at most once and *)
(* end at most once, across crashes, restarts and failing stores.          *)
THEOREM JobsImplementLifecycle == SingleReplica => (Spec => ImplementsLifecycle)
  <1> SUFFICES ASSUME SingleReplica PROVE Spec => ImplementsLifecycle
    OBVIOUS
  <1>1. LifeInv /\ [Next]_vars => [Lifecycle!Next]_status
    BY LifecycleStep
  <1> QED BY LifeInvariant, LifecycleInit, <1>1, PTL
         DEF Spec, ImplementsLifecycle, Lifecycle!Spec
=================================================================================
