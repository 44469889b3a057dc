\* Two replicas on one Redis, stores that may fail, locks that may run out under a task.
SPECIFICATION Spec
CONSTANTS
    Replicas = {p1, p2}
    Calls = {c1, c2, c3}
    i1 = i1
    i2 = i2
    repo = repo
    NoCall = NoCall
    Identities <- MCIdentities
    Repositories <- MCRepositories
    RepositoryOf <- MCRepositoryOf
    StoreFailures = TRUE
    Overrun = TRUE
    MaxCrashes = 1
SYMMETRY Interchangeable
INVARIANTS WorkingHoldsLock SameIdentitySameJob
CHECK_DEADLOCK FALSE
