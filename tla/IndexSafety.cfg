SPECIFICATION Spec
CONSTANTS
    P = P
    Q = Q
    f = f
    g = g
    NoFn = NoFn
    NoProgram = NoProgram
    Programs <- MCPrograms
    Entries <- MCEntries
    Names <- MCNames
    Group <- MCGroup
SYMMETRY Renamings
INVARIANTS
    IndexIsTrue
    NoArbitraryRename
    IndexInv
