------------------------------ MODULE IndexerJobs ------------------------------
(***************************************************************************)
(* The life of an indexing job in the Indexer service                      *)
(* (indexing/service.py) over Redis (indexing/coordination.py and          *)
(* indexing/redis_job_store.py): replicas accept index_repository calls,   *)
(* claim the request's identity, register a job and run it as a task under *)
(* the repository's lock.  A replica may crash at any point and is         *)
(* restarted (compose.yaml, restart: unless-stopped); the restarted        *)
(* process fails what it finds unfinished.  Store operations are atomic    *)
(* here: RedisIndexJobStore shows that they are.  What a task does to the  *)
(* indexes while it works is IndexPipeline's subject.                      *)
(***************************************************************************)
EXTENDS Naturals

CONSTANTS
    Replicas,       \* Indexer processes that share one Redis
    Calls,          \* calls of index_repository; a call's id is the uuid4 it proposes as job id
    Identities,     \* hashes of (repository, revision, mode, root)
    Repositories,
    RepositoryOf,   \* the repository of an identity
    NoCall,
    StoreFailures,  \* may a Redis command raise?
    Overrun,        \* may a task work past the TTL of its lock?
    MaxCrashes      \* bound on the crashes of a behaviour

ASSUME NoCallAssumption == NoCall \notin Calls
ASSUME RepositoryAssumption == RepositoryOf \in [Identities -> Repositories]
ASSUME FlagAssumption == StoreFailures \in BOOLEAN /\ Overrun \in BOOLEAN
ASSUME CrashAssumption == MaxCrashes \in Nat

VARIABLES
    \* in Redis
    claim,      \* identity -> the job id that claimed it (SET NX)
    status,     \* job id -> status of the stored job
    active,     \* ids of the jobs registered as unfinished
    lock,       \* repository -> token that holds it; one token per task, so the job id
    \* in a replica's memory
    phase,      \* _job_store_ready and the sweep that sets it
    todo,       \* ids the sweep still has to look at
    victim,     \* the job its last get found unfinished
    call,       \* the index_repository calls
    task,       \* the background tasks, by job id
    \* history
    overran,    \* tasks whose lock expired while they worked
    crashes

store == <<claim, status, active, lock>>
sweep == <<phase, todo, victim>>
history == <<overran, crashes>>
vars == <<claim, status, active, lock, phase, todo, victim, call, task, overran, crashes>>

Statuses == {"ABSENT", "PENDING", "RUNNING", "COMPLETED", "FAILED"}
Unfinished == {"PENDING", "RUNNING"}
Ended == {"COMPLETED", "FAILED"}

CallPoints == {"idle", "begin", "lookup", "create", "poll", "done", "error", "raised",
               "dead"}
TaskPoints == {"none", "acquire", "busy", "begin", "work", "finish", "release", "over", "raised",
               "dead"}

Call == [at : CallPoints, replica : Replicas, identity : Identities,
         job : Calls \cup {NoCall}]
Task == [at : TaskPoints, verdict : Ended]

TypeOK ==
    /\ claim \in [Identities -> Calls \cup {NoCall}]
    /\ status \in [Calls -> Statuses]
    /\ active \subseteq Calls
    /\ lock \in [Repositories -> Calls \cup {NoCall}]
    /\ phase \in [Replicas -> {"cold", "sweeping", "ready"}]
    /\ todo \in [Replicas -> SUBSET Calls]
    /\ victim \in [Replicas -> Calls \cup {NoCall}]
    /\ call \in [Calls -> Call]
    /\ task \in [Calls -> Task]
    /\ overran \subseteq Calls
    /\ crashes \in 0..MaxCrashes

Init ==
    /\ claim = [i \in Identities |-> NoCall]
    /\ status = [c \in Calls |-> "ABSENT"]
    /\ active = {}
    /\ lock = [r \in Repositories |-> NoCall]
    /\ phase = [p \in Replicas |-> "cold"]
    /\ todo = [p \in Replicas |-> {}]
    /\ victim = [p \in Replicas |-> NoCall]
    /\ call \in [Calls -> [at : {"idle"}, replica : Replicas, identity : Identities,
                           job : {NoCall}]]
    /\ task = [c \in Calls |-> [at |-> "none", verdict |-> "FAILED"]]
    /\ overran = {}
    /\ crashes = 0

(* The identity a call was made with, the repository a job indexes and the *)
(* replica it runs on do not change.                                       *)
RepoOf(c) == RepositoryOf[call[c].identity]
HomeOf(c) == call[c].replica

CallAt(c, from, to) == /\ call[c].at = from
                       /\ call' = [call EXCEPT ![c].at = to]
TaskAt(c, from, to) == /\ task[c].at = from
                       /\ task' = [task EXCEPT ![c].at = to]

(* update(status=s): an ended job leaves the active set, and no update     *)
(* puts a job back into it.                                                *)
SetStatus(c, s) ==
    /\ status' = [status EXCEPT ![c] = s]
    /\ active' = IF s \in Ended THEN active \ {c} ELSE active

-----------------------------------------------------------------------------
(* Mutant: a starting process does not look for interrupted jobs.          *)
SweepNothing(p) ==
    /\ phase[p] = "cold"
    /\ phase' = [phase EXCEPT ![p] = "ready"]
    /\ UNCHANGED <<store, todo, victim, call, task, history>>

(* _ensure_job_store_ready: the first tool call of a process runs          *)
(* fail_interrupted under an asyncio lock, every other call waits for it.  *)
SweepStart(p) ==
    /\ phase[p] = "cold"
    /\ phase' = [phase EXCEPT ![p] = "sweeping"]
    /\ todo' = [todo EXCEPT ![p] = active]
    /\ UNCHANGED <<store, victim, call, task, history>>

SweepGet(p, c) ==
    /\ phase[p] = "sweeping"
    /\ victim[p] = NoCall
    /\ c \in todo[p]
    /\ IF status[c] \in Unfinished
       THEN victim' = [victim EXCEPT ![p] = c] /\ UNCHANGED todo
       ELSE todo' = [todo EXCEPT ![p] = @ \ {c}] /\ UNCHANGED victim
    /\ UNCHANGED <<store, phase, call, task, history>>

SweepFail(p) ==
    /\ victim[p] # NoCall
    /\ SetStatus(victim[p], "FAILED")
    /\ todo' = [todo EXCEPT ![p] = @ \ {victim[p]}]
    /\ victim' = [victim EXCEPT ![p] = NoCall]
    /\ UNCHANGED <<claim, lock, phase, call, task, history>>

SweepDone(p) ==
    /\ phase[p] = "sweeping"
    /\ todo[p] = {}
    /\ phase' = [phase EXCEPT ![p] = "ready"]
    /\ UNCHANGED <<store, todo, victim, call, task, history>>

(* A command of the sweep raises out of the tool call: the process is      *)
(* still not ready and its next call sweeps again.                         *)
SweepRaises(p) ==
    /\ StoreFailures
    /\ phase[p] = "sweeping"
    /\ phase' = [phase EXCEPT ![p] = "cold"]
    /\ todo' = [todo EXCEPT ![p] = {}]
    /\ victim' = [victim EXCEPT ![p] = NoCall]
    /\ UNCHANGED <<store, call, task, history>>

-----------------------------------------------------------------------------
(* index_repository.                                                       *)
Receive(c) ==
    /\ CallAt(c, "idle", "begin")
    /\ UNCHANGED <<store, sweep, task, history>>

(* Mutants: a call does not wait for the sweep; the comparison with the    *)
(* proposed id is inverted; the key is set without NX.                     *)
ClaimUngated(c) ==
    LET i == call[c].identity IN
    /\ IF claim[i] = NoCall
       THEN /\ CallAt(c, "begin", "create")
            /\ claim' = [claim EXCEPT ![i] = c]
       ELSE /\ CallAt(c, "begin", "lookup")
            /\ UNCHANGED claim
    /\ UNCHANGED <<status, active, lock, sweep, task, history>>

ClaimInverted(c) ==
    LET i == call[c].identity IN
    /\ phase[HomeOf(c)] = "ready"
    /\ CallAt(c, "begin", "lookup")
    /\ claim' = [claim EXCEPT ![i] = IF @ = NoCall THEN c ELSE @]
    /\ UNCHANGED <<status, active, lock, sweep, task, history>>

ClaimOverwrites(c) ==
    /\ phase[HomeOf(c)] = "ready"
    /\ CallAt(c, "begin", "create")
    /\ claim' = [claim EXCEPT ![call[c].identity] = c]
    /\ UNCHANGED <<status, active, lock, sweep, task, history>>

(* SET NX of the idempotency key wins, or the key is looked up.            *)
Claim(c) ==
    LET i == call[c].identity IN
    /\ phase[HomeOf(c)] = "ready"
    /\ IF claim[i] = NoCall
       THEN /\ CallAt(c, "begin", "create")
            /\ claim' = [claim EXCEPT ![i] = c]
       ELSE /\ CallAt(c, "begin", "lookup")
            /\ UNCHANGED claim
    /\ UNCHANGED <<status, active, lock, sweep, task, history>>

(* Mutant: the key is taken for its value.                                 *)
LookupKey(c) ==
    /\ call[c].at = "lookup"
    /\ call' = [call EXCEPT ![c].at = "poll", ![c].job = call[c].identity]
    /\ UNCHANGED <<store, sweep, task, history>>

Lookup(c) ==
    /\ call[c].at = "lookup"
    /\ call' = [call EXCEPT ![c].at = "poll", ![c].job = claim[call[c].identity]]
    /\ UNCHANGED <<store, sweep, task, history>>

(* Mutant: the stored job is not added to the active set.                  *)
CreateUnlisted(c) ==
    /\ call[c].at = "create"
    /\ call' = [call EXCEPT ![c].at = "done", ![c].job = c]
    /\ status' = [status EXCEPT ![c] = "PENDING"]
    /\ task' = [task EXCEPT ![c].at = "acquire"]
    /\ UNCHANGED <<claim, active, lock, sweep, history>>

(* The job is stored and its task started; the answer is the job.          *)
Create(c) ==
    /\ call[c].at = "create"
    /\ call' = [call EXCEPT ![c].at = "done", ![c].job = c]
    /\ status' = [status EXCEPT ![c] = "PENDING"]
    /\ active' = active \cup {c}
    /\ task' = [task EXCEPT ![c].at = "acquire"]
    /\ UNCHANGED <<claim, lock, sweep, history>>

CreateRaises(c) ==
    /\ StoreFailures
    /\ CallAt(c, "create", "raised")
    /\ UNCHANGED <<store, sweep, task, history>>

(* A duplicate polls for the claimed job, and after 20 polls gives up      *)
(* ("still being registered"); the number of polls is abstracted.          *)
PollFinds(c) ==
    /\ CallAt(c, "poll", "done")
    /\ status[call[c].job] # "ABSENT"
    /\ UNCHANGED <<store, sweep, task, history>>

PollGivesUp(c) ==
    /\ CallAt(c, "poll", "error")
    /\ status[call[c].job] = "ABSENT"
    /\ UNCHANGED <<store, sweep, task, history>>

-----------------------------------------------------------------------------
(* _run_repository_job.                                                    *)
(* Mutant: SET without NX takes the lock whoever holds it.                 *)
AcquireAlways(c) ==
    /\ TaskAt(c, "acquire", "begin")
    /\ lock' = [lock EXCEPT ![RepoOf(c)] = c]
    /\ UNCHANGED <<claim, status, active, sweep, call, history>>

Acquire(c) ==
    /\ IF lock[RepoOf(c)] = NoCall
       THEN /\ TaskAt(c, "acquire", "begin")
            /\ lock' = [lock EXCEPT ![RepoOf(c)] = c]
       ELSE /\ TaskAt(c, "acquire", "busy")
            /\ UNCHANGED lock
    /\ UNCHANGED <<claim, status, active, sweep, call, history>>

(* Mutant: the return after the rejection is missing.                      *)
RejectBusyGoesOn(c) ==
    /\ TaskAt(c, "busy", "begin")
    /\ SetStatus(c, "FAILED")
    /\ UNCHANGED <<claim, lock, sweep, call, history>>

RejectBusy(c) ==
    /\ TaskAt(c, "busy", "over")
    /\ SetStatus(c, "FAILED")
    /\ UNCHANGED <<claim, lock, sweep, call, history>>

(* The commands before the try block: an error ends the task, not the job. *)
AcquireRaises(c) ==
    /\ StoreFailures
    /\ TaskAt(c, "acquire", "raised") \/ TaskAt(c, "busy", "raised")
    /\ UNCHANGED <<store, sweep, call, history>>

Begin(c) ==
    /\ TaskAt(c, "begin", "work")
    /\ SetStatus(c, "RUNNING")
    /\ UNCHANGED <<claim, lock, sweep, call, history>>

(* The work ends with a verdict: COMPLETED, or FAILED because a file did   *)
(* not parse or because something in the try block raised.                 *)
Work(c, verdict) ==
    /\ \/ task[c].at = "work"
       \/ task[c].at = "begin" /\ StoreFailures /\ verdict = "FAILED"
    /\ task' = [task EXCEPT ![c].at = "finish", ![c].verdict = verdict]
    /\ UNCHANGED <<store, sweep, call, history>>

Finish(c) ==
    /\ TaskAt(c, "finish", "release")
    /\ SetStatus(c, task[c].verdict)
    /\ UNCHANGED <<claim, lock, sweep, call, history>>

(* The final update raises: COMPLETED turns into the handler's FAILED, and *)
(* if that raises too the lock is released with the job still RUNNING.     *)
FinishRaises(c) ==
    /\ StoreFailures
    /\ task[c].at = "finish"
    /\ task' = [task EXCEPT ![c] =
                  IF @.verdict = "COMPLETED" THEN [@ EXCEPT !.verdict = "FAILED"]
                                             ELSE [@ EXCEPT !.at = "release"]]
    /\ UNCHANGED <<store, sweep, call, history>>

(* Mutant: the release deletes the key without comparing the token.        *)
UnlockedAnyToken(c) == [lock EXCEPT ![RepoOf(c)] = NoCall]

(* The release script deletes the key only if it still holds the token.    *)
Unlocked(c) == [lock EXCEPT ![RepoOf(c)] = IF @ = c THEN NoCall ELSE @]

Release(c) ==
    /\ TaskAt(c, "release", "over")
    /\ lock' = Unlocked(c)
    /\ UNCHANGED <<claim, status, active, sweep, call, history>>

ReleaseRaises(c) ==
    /\ StoreFailures
    /\ TaskAt(c, "release", "raised")
    /\ UNCHANGED <<store, sweep, call, history>>

-----------------------------------------------------------------------------
(* The task exists and has not ended.                                      *)
Live(c) == task[c].at \notin {"none", "over", "raised", "dead"}

(* Between taking the lock and releasing it.                               *)
Working(c) == task[c].at \in {"begin", "work", "finish", "release"}

(* The lock's TTL runs out.  It is never renewed, so it may do so under a  *)
(* task that works longer than the TTL.                                    *)
LockExpires(r) ==
    /\ lock[r] # NoCall
    /\ Working(lock[r]) => Overrun
    /\ lock' = [lock EXCEPT ![r] = NoCall]
    /\ overran' = IF Working(lock[r]) THEN overran \cup {lock[r]} ELSE overran
    /\ UNCHANGED <<claim, status, active, sweep, call, task, crashes>>

(* The process dies with its calls and tasks, also those it had ended, and *)
(* comes back cold.                                                        *)
Crash(p) ==
    /\ crashes < MaxCrashes
    /\ crashes' = crashes + 1
    /\ phase' = [phase EXCEPT ![p] = "cold"]
    /\ todo' = [todo EXCEPT ![p] = {}]
    /\ victim' = [victim EXCEPT ![p] = NoCall]
    /\ call' = [c \in Calls |->
                  IF HomeOf(c) = p /\ call[c].at \notin {"idle", "done", "error", "raised"}
                  THEN [call[c] EXCEPT !.at = "dead"] ELSE call[c]]
    /\ task' = [c \in Calls |->
                  IF HomeOf(c) = p /\ task[c].at # "none"
                  THEN [task[c] EXCEPT !.at = "dead"] ELSE task[c]]
    /\ UNCHANGED <<store, overran>>

-----------------------------------------------------------------------------
SweepStep(p) ==
    \/ SweepStart(p)
    \/ \E c \in Calls : SweepGet(p, c)
    \/ SweepFail(p)
    \/ SweepDone(p)

TaskStep(c) ==
    \/ Acquire(c)
    \/ RejectBusy(c)
    \/ Begin(c)
    \/ \E verdict \in Ended : Work(c, verdict)
    \/ Finish(c)
    \/ Release(c)

CallStep(c) ==
    \/ Claim(c)
    \/ Lookup(c)
    \/ Create(c)
    \/ PollFinds(c)
    \/ PollGivesUp(c)

Next ==
    \/ \E p \in Replicas : SweepStep(p) \/ SweepRaises(p) \/ Crash(p)
    \/ \E c \in Calls : \/ Receive(c)
                        \/ CallStep(c)
                        \/ CreateRaises(c)
                        \/ TaskStep(c)
                        \/ AcquireRaises(c)
                        \/ FinishRaises(c)
                        \/ ReleaseRaises(c)
    \/ \E r \in Repositories : LockExpires(r)

Spec == Init /\ [][Next]_vars

(* The event loop runs every coroutine that can move, and a client that    *)
(* polls get_index_status makes a restarted process sweep.  Nothing forces *)
(* a call to arrive, a lock to expire, an error or a crash.                *)
Fairness ==
    /\ \A p \in Replicas : WF_vars(SweepStep(p))
    /\ \A c \in Calls : WF_vars(CallStep(c)) /\ WF_vars(TaskStep(c))

FairSpec == Spec /\ Fairness

-----------------------------------------------------------------------------
(* A task that works, and whose lock has not run out under it, holds its   *)
(* repository's lock: no other task took it, no other task's late release  *)
(* freed it.                                                               *)
WorkingHoldsLock ==
    \A c \in Calls : Working(c) /\ c \notin overran => lock[RepoOf(c)] = c

(* Two tasks never write one repository's indexes at the same time.        *)
OneWorkerPerRepository ==
    \A c, d \in Calls :
        Working(c) /\ Working(d) /\ RepoOf(c) = RepoOf(d) => c = d

(* Calls with one identity are answered with one job, whatever replica     *)
(* takes them, before and after a crash.                                   *)
SameIdentitySameJob ==
    \A c, d \in Calls :
        /\ call[c].at = "done" /\ call[d].at = "done"
        /\ call[c].identity = call[d].identity
        => call[c].job = call[d].job

(* The sweep of a starting process fails only jobs no task runs any more   *)
(* ("tasks left by a prior process", _ensure_job_store_ready).             *)
SweepFailsOnlyInterrupted ==
    \A p \in Replicas : victim[p] # NoCall => ~Live(victim[p])

(* Every unfinished job is registered as active, so the next process that  *)
(* starts will find it.                                                    *)
UnfinishedIsActive ==
    \A c \in Calls : status[c] \in Unfinished => c \in active

Lifecycle == INSTANCE JobLifecycle WITH Jobs <- Calls

(* Seen by the clients that poll it, a job follows its life cycle.         *)
ImplementsLifecycle == Lifecycle!Spec

(* A registered job ends, also when the process that ran it crashed, as    *)
(* long as the sweeps of the processes that come after do not raise for    *)
(* ever.  Only a job whose task an error of the store ended, or kept from  *)
(* recording its end, may wait until its process dies.                     *)
Stranded(c) == task[c].at \in {"raised", "over"}

RegisteredJobEnds ==
    (\A p \in Replicas : <>[][~SweepRaises(p)]_vars) =>
        \A c \in Calls :
            status[c] \in Unfinished ~> status[c] \in Ended \/ Stranded(c)

(* A claimed identity gets the job its duplicates look for, unless the     *)
(* process died inside the call that claimed it or creating the job raised *)
(* there.                                                                  *)
ClaimGetsJob ==
    \A i \in Identities : \A c \in Calls :
        claim[i] = c ~> status[c] # "ABSENT" \/ call[c].at \in {"dead", "raised"}
=============================================================================
