----------------------------- MODULE JobLifecycle -----------------------------
(***************************************************************************)
(* What an accepted indexing job promises the client that polls it         *)
(* (contracts/indexing.py IndexJobStatus, IndexJob.status): it is          *)
(* registered once, may run once, and ends once.  A job that ended keeps   *)
(* the status it ended with.                                               *)
(***************************************************************************)
CONSTANT Jobs

VARIABLE status

Ended == {"COMPLETED", "FAILED"}

Init == status = [j \in Jobs |-> "ABSENT"]

Register(j) == /\ status[j] = "ABSENT"
               /\ status' = [status EXCEPT ![j] = "PENDING"]

Run(j) == /\ status[j] = "PENDING"
          /\ status' = [status EXCEPT ![j] = "RUNNING"]

Fail(j) == /\ status[j] \in {"PENDING", "RUNNING"}
           /\ status' = [status EXCEPT ![j] = "FAILED"]

Complete(j) == /\ status[j] = "RUNNING"
               /\ status' = [status EXCEPT ![j] = "COMPLETED"]

Next == \E j \in Jobs : Register(j) \/ Run(j) \/ Fail(j) \/ Complete(j)

Spec == Init /\ [][Next]_status
=============================================================================
