----------------------------- MODULE MCIndexerJobs -----------------------------
(* Instances of IndexerJobs for TLC: i1 and i2 are two requests for one    *)
(* repository, for instance two revisions.                                 *)
EXTENDS IndexerJobs, TLC

CONSTANTS i1, i2, repo

MCIdentities == {i1, i2}
MCRepositories == {repo}
MCRepositoryOf == [i \in MCIdentities |-> repo]

(* Only for runs without fairness and liveness.                            *)
Interchangeable ==
    Permutations(Calls) \cup Permutations(Replicas) \cup Permutations(MCIdentities)
=============================================================================
