SPECIFICATION QSpec
CONSTANTS
    P = P
    Q = Q
    f = f
    g = g
    NoFn = NoFn
    NoProgram = NoProgram
    None = None
    Programs <- MCPrograms
    Entries <- MCEntries
    Names <- MCNames
    Group <- MCGroup
    Calls <- MCCalls
    Mapped <- MCMapped
    Queries <- MCQueries
    Last = 1
INVARIANTS
    LeavesAreLeaves
