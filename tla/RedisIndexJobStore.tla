-------------------------- MODULE RedisIndexJobStore --------------------------
(***************************************************************************)
(* indexing/redis_job_store.py: indexing jobs as JSON strings in Redis.    *)
(* Every coroutine that calls the store is a member of Calls; its steps    *)
(* are the Redis commands it sends, so two callers interleave between      *)
(* WATCH, GET and EXEC.  A sweeper runs fail_interrupted, whose update of  *)
(* one job is a call like any other.                                       *)
(***************************************************************************)
EXTENDS Naturals

CONSTANTS Jobs, Calls, NoCall

ASSUME NoCallAssumption == NoCall \notin Calls

VARIABLES
    jobs,      \* Redis strings key_prefix:<id>
    active,    \* Redis set key_prefix:active
    call,      \* what each caller does and where it is
    dirty,     \* callers whose watched key changed after their WATCH
    applied,   \* history: the calls that have taken effect
    sweep      \* the fail_interrupted loop

vars == <<jobs, active, call, dirty, applied, sweep>>

Statuses == {"PENDING", "RUNNING", "COMPLETED", "FAILED"}
Terminal == {"COMPLETED", "FAILED"}
Absent == [status |-> "ABSENT", processed |-> 0]
NewJob == [status |-> "PENDING", processed |-> 0]
Job == [status : Statuses, processed : Nat]

(* What a caller asks for, where it is and the value its GET returned.     *)
Operations == {"none", "create", "get", "update", "increment"}
Points == {"idle", "create", "get", "expire", "watch", "read", "exec",
           "returned", "missing"}
Call == [op : Operations, job : Jobs, status : Statuses,
         at : Points, seen : Job \cup {Absent}]
Sweep == [at : {"idle", "next", "drop", "expire", "fail", "wait"}, todo : SUBSET Jobs,
          job : Jobs, interrupted : BOOLEAN, by : Calls \cup {NoCall}]

TypeOK ==
    /\ jobs \in [Jobs -> Job \cup {Absent}]
    /\ active \subseteq Jobs
    /\ call \in [Calls -> Call]
    /\ dirty \subseteq Calls
    /\ applied \subseteq Calls
    /\ sweep \in Sweep

Init ==
    /\ jobs = [j \in Jobs |-> Absent]
    /\ active = {}
    /\ \E j \in Jobs :
          /\ call = [c \in Calls |-> [op |-> "none", job |-> j, status |-> "PENDING",
                                      at |-> "idle", seen |-> Absent]]
          /\ sweep = [at |-> "idle", todo |-> {}, job |-> j, interrupted |-> FALSE,
                       by |-> NoCall]
    /\ dirty = {}
    /\ applied = {}

(* The callers between WATCH and EXEC on the key of job j; a command that  *)
(* modifies the key makes their EXEC fail.                                 *)
Watchers(j) == {c \in Calls : call[c].at \in {"read", "exec"} /\ call[c].job = j}
Touch(j) == dirty' = dirty \cup Watchers(j)

Goto(c, point) == call' = [call EXCEPT ![c].at = point]

-----------------------------------------------------------------------------
(* create: SET and SADD in one MULTI.  A job id is a fresh uuid4.          *)
CallCreate(c, j) ==
    /\ call[c].at = "idle"
    /\ \A d \in Calls : ~(call[d].op = "create" /\ call[d].job = j)
    /\ call' = [call EXCEPT ![c].op = "create", ![c].job = j, ![c].at = "create"]
    /\ UNCHANGED <<jobs, active, dirty, applied, sweep>>

(* Mutant: the caller is registered as active in place of the job.         *)
CreateRegistersCaller(c) ==
    LET j == call[c].job IN
    /\ call[c].at = "create"
    /\ jobs' = [jobs EXCEPT ![j] = NewJob]
    /\ active' = active \cup {c}
    /\ applied' = applied \cup {c}
    /\ Touch(j)
    /\ Goto(c, "returned")
    /\ UNCHANGED sweep

Create(c) ==
    LET j == call[c].job IN
    /\ call[c].at = "create"
    /\ jobs' = [jobs EXCEPT ![j] = NewJob]
    /\ active' = active \cup {j}
    /\ applied' = applied \cup {c}
    /\ Touch(j)
    /\ Goto(c, "returned")
    /\ UNCHANGED sweep

(* get: GET, then EXPIRE, which counts as a modification for the watchers. *)
CallGet(c, j) ==
    /\ call[c].at = "idle"
    /\ call' = [call EXCEPT ![c].op = "get", ![c].job = j, ![c].at = "get"]
    /\ UNCHANGED <<jobs, active, dirty, applied, sweep>>

Get(c) ==
    /\ call[c].at = "get"
    /\ Goto(c, IF jobs[call[c].job] = Absent THEN "returned" ELSE "expire")
    /\ UNCHANGED <<jobs, active, dirty, applied, sweep>>

TouchExisting(j) == IF jobs[j] = Absent THEN UNCHANGED dirty ELSE Touch(j)

RefreshTtl(c) ==
    /\ call[c].at = "expire"
    /\ TouchExisting(call[c].job)
    /\ Goto(c, "returned")
    /\ UNCHANGED <<jobs, active, applied, sweep>>

(* update and increment: the retry loop of _mutate.                        *)
CallMutate(c, op, j, status) ==
    /\ call[c].at = "idle"
    /\ call' = [call EXCEPT ![c].op = op, ![c].job = j, ![c].status = status,
                            ![c].at = "watch"]

CallUpdate(c, j, status) ==
    /\ CallMutate(c, "update", j, status)
    /\ UNCHANGED <<jobs, active, dirty, applied, sweep>>

CallIncrement(c, j) ==
    /\ CallMutate(c, "increment", j, "PENDING")
    /\ UNCHANGED <<jobs, active, dirty, applied, sweep>>

Watch(c) ==
    /\ call[c].at = "watch"
    /\ dirty' = dirty \ {c}
    /\ Goto(c, "read")
    /\ UNCHANGED <<jobs, active, applied, sweep>>

(* A missing key raises KeyError out of the call.                          *)
Read(c) ==
    LET value == jobs[call[c].job] IN
    /\ call[c].at = "read"
    /\ call' = [call EXCEPT ![c].seen = value,
                            ![c].at = IF value = Absent THEN "missing" ELSE "exec"]
    /\ UNCHANGED <<jobs, active, dirty, applied, sweep>>

Mutated(c) ==
    IF call[c].op = "update"
    THEN [call[c].seen EXCEPT !.status = call[c].status]
    ELSE [call[c].seen EXCEPT !.processed = @ + 1]

(* Mutant: no WATCH, so EXEC never aborts.                                 *)
CommitUnwatched(c) ==
    LET j == call[c].job IN
    /\ call[c].at = "exec"
    /\ jobs' = [jobs EXCEPT ![j] = Mutated(c)]
    /\ active' = IF Mutated(c).status \in Terminal THEN active \ {j} ELSE active
    /\ applied' = applied \cup {c}
    /\ Touch(j)
    /\ Goto(c, "returned")
    /\ UNCHANGED sweep

(* Mutant: the SREM of a terminal write is forgotten.                      *)
CommitStaysActive(c) ==
    LET j == call[c].job IN
    /\ call[c].at = "exec"
    /\ c \notin dirty
    /\ jobs' = [jobs EXCEPT ![j] = Mutated(c)]
    /\ applied' = applied \cup {c}
    /\ Touch(j)
    /\ Goto(c, "returned")
    /\ UNCHANGED <<active, sweep>>

Commit(c) ==
    LET j == call[c].job IN
    /\ call[c].at = "exec"
    /\ c \notin dirty
    /\ jobs' = [jobs EXCEPT ![j] = Mutated(c)]
    /\ active' = IF Mutated(c).status \in Terminal THEN active \ {j} ELSE active
    /\ applied' = applied \cup {c}
    /\ Touch(j)
    /\ Goto(c, "returned")
    /\ UNCHANGED sweep

(* Mutant: the retry sends EXEC again without a new WATCH and GET.         *)
RetryExec(c) ==
    /\ call[c].at = "exec"
    /\ c \in dirty
    /\ dirty' = dirty \ {c}
    /\ UNCHANGED <<jobs, active, call, applied, sweep>>

(* EXEC returns nil: WatchError, the loop starts again.                    *)
Retry(c) ==
    /\ call[c].at = "exec"
    /\ c \in dirty
    /\ Goto(c, "watch")
    /\ UNCHANGED <<jobs, active, dirty, applied, sweep>>

-----------------------------------------------------------------------------
(* The TTL of a job's string runs out; the active set has no TTL.          *)
Expire(j) ==
    /\ jobs[j] # Absent
    /\ jobs' = [jobs EXCEPT ![j] = Absent]
    /\ Touch(j)
    /\ UNCHANGED <<active, call, applied, sweep>>

(* fail_interrupted: SMEMBERS, then one job at a time: get, and SREM if it *)
(* is gone, or update to FAILED if it was unfinished when it was read.     *)
SweepStart ==
    /\ sweep.at = "idle"
    /\ sweep' = [sweep EXCEPT !.at = "next", !.todo = active]
    /\ UNCHANGED <<jobs, active, call, dirty, applied>>

SweepGet(j) ==
    LET value == jobs[j] IN
    /\ sweep.at = "next"
    /\ j \in sweep.todo
    /\ sweep' = [sweep EXCEPT !.todo = @ \ {j}, !.job = j,
                              !.interrupted = value # Absent /\ value.status \notin Terminal,
                              !.at = IF value = Absent THEN "drop" ELSE "expire"]
    /\ UNCHANGED <<jobs, active, call, dirty, applied>>

SweepRefreshTtl ==
    /\ sweep.at = "expire"
    /\ TouchExisting(sweep.job)
    /\ sweep' = [sweep EXCEPT !.at = IF sweep.interrupted THEN "fail" ELSE "next"]
    /\ UNCHANGED <<jobs, active, call, applied>>

SweepDrop ==
    /\ sweep.at = "drop"
    /\ active' = active \ {sweep.job}
    /\ sweep' = [sweep EXCEPT !.at = "next"]
    /\ UNCHANGED <<jobs, call, dirty, applied>>

SweepFail(c) ==
    /\ sweep.at = "fail"
    /\ CallMutate(c, "update", sweep.job, "FAILED")
    /\ sweep' = [sweep EXCEPT !.at = "wait", !.by = c]
    /\ UNCHANGED <<jobs, active, dirty, applied>>

(* The update's KeyError, raised when the job expired after the GET, ends  *)
(* the loop early.                                                         *)
SweepContinue ==
    /\ sweep.at = "wait"
    /\ sweep.by \in Calls
    /\ \/ /\ call[sweep.by].at = "returned"
          /\ sweep' = [sweep EXCEPT !.at = "next", !.by = NoCall]
       \/ /\ call[sweep.by].at = "missing"
          /\ sweep' = [sweep EXCEPT !.at = "idle", !.todo = {}, !.by = NoCall]
    /\ UNCHANGED <<jobs, active, call, dirty, applied>>

SweepEnd ==
    /\ sweep.at = "next"
    /\ sweep.todo = {}
    /\ sweep' = [sweep EXCEPT !.at = "idle"]
    /\ UNCHANGED <<jobs, active, call, dirty, applied>>

-----------------------------------------------------------------------------
Next ==
    \/ \E c \in Calls :
          \/ \E j \in Jobs : \/ CallCreate(c, j)
                             \/ CallGet(c, j)
                             \/ CallIncrement(c, j)
                             \/ \E s \in Statuses \ {"PENDING"} : CallUpdate(c, j, s)
          \/ Create(c)
          \/ Get(c)
          \/ RefreshTtl(c)
          \/ Watch(c)
          \/ Read(c)
          \/ Commit(c)
          \/ Retry(c)
          \/ SweepFail(c)
    \/ \E j \in Jobs : Expire(j) \/ SweepGet(j)
    \/ SweepStart
    \/ SweepRefreshTtl
    \/ SweepDrop
    \/ SweepContinue
    \/ SweepEnd

Spec == Init /\ [][Next]_vars

-----------------------------------------------------------------------------
(* A caller that will pass EXEC holds, in the value it read, exactly what  *)
(* Redis stores, and the job is still there: nothing it is about to        *)
(* overwrite is unknown to it (_mutate's WATCH before GET).                *)
ReadIsCurrent ==
    \A c \in Calls :
        call[c].at = "exec" => /\ call[c].seen # Absent
                               /\ c \notin dirty => call[c].seen = jobs[call[c].job]

(* The list a restarted process works through holds no finished job: the   *)
(* SREM of a terminal write is in the same MULTI as its SET.               *)
ListedIsUnfinished ==
    \A j \in active : jobs[j] # Absent => jobs[j].status \notin Terminal

Atomic == INSTANCE IndexJobStore

(* Redis under interleaved callers and expiring keys behaves as the atomic *)
(* store: no update or increment that took effect is ever lost.            *)
ImplementsAtomicStore == Atomic!Spec
=============================================================================
