---------------------------- MODULE IndexJobStore ----------------------------
(***************************************************************************)
(* What the indexing-job store promises (indexing/job_store.py): every     *)
(* operation takes effect at once, on the value the operations before it   *)
(* left.  The in-process store does exactly this, under one asyncio lock.  *)
(* RedisIndexJobStore promises it with WATCH/MULTI/EXEC and is shown to    *)
(* implement this module.  fail_interrupted is one update after another:   *)
(* the in-process store makes them under one lock, Redis does not.         *)
(***************************************************************************)
EXTENDS Naturals

CONSTANTS Jobs,     \* job ids
          Calls     \* one id per call of create, update or increment

VARIABLES jobs,     \* the stored value of every job
          applied   \* the calls that have taken effect

(* A job's value: its status, and one counter that stands for them all.    *)
Statuses == {"PENDING", "RUNNING", "COMPLETED", "FAILED"}
Terminal == {"COMPLETED", "FAILED"}
Absent == [status |-> "ABSENT", processed |-> 0]
NewJob == [status |-> "PENDING", processed |-> 0]

Init == /\ jobs = [j \in Jobs |-> Absent]
        /\ applied = {}

Create(c, j) ==
    /\ jobs' = [jobs EXCEPT ![j] = NewJob]
    /\ applied' = applied \cup {c}

Update(c, j, status) ==
    /\ jobs[j] # Absent
    /\ jobs' = [jobs EXCEPT ![j].status = status]
    /\ applied' = applied \cup {c}

Increment(c, j) ==
    /\ jobs[j] # Absent
    /\ jobs' = [jobs EXCEPT ![j].processed = @ + 1]
    /\ applied' = applied \cup {c}

(* Redis drops a job nobody touched for its TTL.                           *)
Expire(j) ==
    /\ jobs' = [jobs EXCEPT ![j] = Absent]
    /\ UNCHANGED applied

Next ==
    \/ \E c \in Calls \ applied, j \in Jobs :
          \/ Create(c, j)
          \/ \E status \in Statuses : Update(c, j, status)
          \/ Increment(c, j)
    \/ \E j \in Jobs : Expire(j)

Spec == Init /\ [][Next]_<<jobs, applied>>
=============================================================================
