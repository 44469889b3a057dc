SPECIFICATION FairSpec
CONSTANTS
    c1 = c1
    c2 = c2
    r1 = r1
    r2 = r2
    main = main
    dev = dev
    a = a
    b = b
    bad = bad
    Calls <- MCCalls
    Remotes <- MCRemotes
    Refs <- MCRefs
    Commits <- MCCommits
    Unacceptable <- MCUnacceptable
    NoCommit = NoCommit
    NoSnapshot = NoSnapshot
    NoMarker = NoMarker
    NoRemote = NoRemote
    NoRef = NoRef
    NoCall = NoCall
    InitialHeads <- MCInitialHeads
    MaxPushes = 1
    MaxCuts = 1
INVARIANTS
    TypeOK
    SnapshotComplete
    AnswerIsRefCommit
    OneRemote
    StagingRemoved
    CacheUsable
PROPERTIES
    SnapshotImmutable
    AcquisitionEnds
