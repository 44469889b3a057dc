\* One replica as in compose.yaml: three calls, two identities, a store that may fail, one crash.
SPECIFICATION FairSpec
CONSTANTS
    Replicas = {p1}
    Calls = {c1, c2, c3}
    i1 = i1
    i2 = i2
    repo = repo
    NoCall = NoCall
    Identities <- MCIdentities
    Repositories <- MCRepositories
    RepositoryOf <- MCRepositoryOf
    StoreFailures = TRUE
    Overrun = FALSE
    MaxCrashes = 1
INVARIANTS TypeOK OneWorkerPerRepository SweepFailsOnlyInterrupted UnfinishedIsActive
PROPERTIES ImplementsLifecycle RegisteredJobEnds ClaimGetsJob
CHECK_DEADLOCK FALSE
