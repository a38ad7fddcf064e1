SPECIFICATION FairSpec
CONSTANTS
    f0 = f0
    f1 = f1
    f2 = f2
    f3 = f3
    n0 = n0
    n1 = n1
    n2 = n2
    n3 = n3
    NoFn = NoFn
    Fns <- MCFns
    Names <- MCNames
    Graphs <- MCGraphs
    Namings <- MCNamings
    Depths <- MCDepths
    Limits <- MCLimits
    CapEdges = 3
    MaxRenames = 1
INVARIANTS
    ExplorerInv
    NearestFirst
    NothingLeftOut
    WalkCoversSubtree
PROPERTY
    EveryWalkEnds
