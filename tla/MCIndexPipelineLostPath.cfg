\* Snapshots of one file at three revisions, and one job that fails half-way.
SPECIFICATION Spec
CONSTANTS
    r1 = r1
    r2 = r2
    r3 = r3
    a = a
    b = b
    bad = bad
    s1 = s1
    s2 = s2
    Revisions = {r1, r2, r3}
    Files = {1}
    Contents <- MCContents
    Broken = {bad}
    Symbols = {s1, s2}
    SymbolsOf <- MCSymbolsOf
    InitialTrees <- ThreeRevisionTrees
    NoContent = NoContent
    NoManifest = NoManifest
    ScrollLimit = 1
    MaxFailures = 1
    MaxToolCalls = 0
    MaxEdits = 0
INVARIANT NoPathLost
