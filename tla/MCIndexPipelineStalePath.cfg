\* A mounted checkout edited between two jobs for one revision.
SPECIFICATION Spec
CONSTANTS
    r1 = r1
    r2 = r2
    r3 = r3
    a = a
    b = b
    bad = bad
    s1 = s1
    s2 = s2
    Revisions = {r1, r2}
    Files = {1, 2}
    Contents <- MCContents
    Broken = {bad}
    Symbols = {s1, s2}
    SymbolsOf <- MCSymbolsOf
    InitialTrees <- TwoRevisionTrees
    NoContent = NoContent
    NoManifest = NoManifest
    ScrollLimit = 1
    MaxFailures = 0
    MaxToolCalls = 0
    MaxEdits = 1
INVARIANT PathsReconciled
