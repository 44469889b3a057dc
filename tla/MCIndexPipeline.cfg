\* Two revisions of two files; one failure, one index_file call, one edit.
SPECIFICATION Spec
CONSTANTS
    r1 = r1
    r2 = r2
    r3 = r3
    a = a
    b = b
    bad = bad
    s1 = s1
    s2 = s2
    Revisions = {r1, r2}
    Files = {1, 2}
    Contents <- MCContents
    Broken = {bad}
    Symbols = {s1, s2}
    SymbolsOf <- MCSymbolsOf
    InitialTrees <- TwoRevisionTrees
    NoContent = NoContent
    NoManifest = NoManifest
    ScrollLimit = 1
    MaxFailures = 1
    MaxToolCalls = 1
    MaxEdits = 1
INVARIANTS TypeOK CompletedGraphMatches FullJobRepairs CompletedVectorsMatch ManifestBacked NodesAreLinked
PROPERTY HistoryRetained
