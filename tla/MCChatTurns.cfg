SPECIFICATION Spec
CONSTANTS
    t1 = t1
    t2 = t2
    s1 = s1
    u1 = u1
    A = A
    B = B
    v1 = v1
    v2 = v2
    brief = brief
    plain = plain
    lookup = lookup
    pronoun = pronoun
    both = both
    None = None
    Turns = {t1, t2}
    Sessions = {s1}
    Users = {u1}
    Repositories = {A, B}
    Revisions = {v1, v2}
    Preferences = {plain, brief}
    Default = plain
    Catalog <- MCCatalog
    HitLists <- MCHitLists
    Grounded <- MCGrounded
    Folded <- MCFolded
    NameLists <- MCNameLists
    Requests <- MCRequests
    MaximumTurns = 3
    MaximumEntities = 2
    EpisodeMaximum = 1
    AuditMaximum = 1
    MaxChanges = 1
CHECK_DEADLOCK FALSE
SYMMETRY MCSymmetry
INVARIANTS
    TypeOK
    CachedIsContextFree
    ScopePairsStayTogether
PROPERTIES
    ImplementsAtomicMemory
