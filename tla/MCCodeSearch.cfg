CONSTANTS
    Paths <- MCPaths
    Programs <- MCPrograms
    Analyzed <- MCAnalyzed
    Queried <- MCQueried
    Graphs <- MCGraphs
    OtherNodes <- MCOtherNodes
    Names <- MCNames
    Words <- MCWords
    MaxDepth = 2
    RowLimit = 3
    HitLimit = 2
    SemanticLimit = 2
    Kinds = {"CONTAINS", "HAS_PARAMETER"}
SPECIFICATION Spec
INVARIANTS
    ResolutionFindsBinding
    AnalysisAgreesWithIndex
    TraversalIsBoundedReach
    FusionRespectsLists
CHECK_DEADLOCK FALSE
