\* Two healthy replicas, no failure, no crash: the second one sweeps while the first one works.
SPECIFICATION Spec
CONSTANTS
    Replicas = {p1, p2}
    Calls = {c1, c2}
    i1 = i1
    i2 = i2
    repo = repo
    NoCall = NoCall
    Identities <- MCIdentities
    Repositories <- MCRepositories
    RepositoryOf <- MCRepositoryOf
    StoreFailures = FALSE
    Overrun = FALSE
    MaxCrashes = 0
INVARIANT SweepFailsOnlyInterrupted
CHECK_DEADLOCK FALSE
