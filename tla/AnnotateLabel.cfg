SPECIFICATION Spec
CONSTANTS
    P = P
    Q = Q
    f1 = f1
    f2 = f2
    d = d
    c = c
    v = v
    w = w
    Blank = Blank
    NoProgram = NoProgram
    Programs <- MCPrograms
    FnNames <- MCFnNames
    DataNames <- MCDataNames
    Notes <- MCNotes
    Values <- MCValues
    Passes <- MCPasses
    Scoped <- MCScoped
    MaxLate = 1
INVARIANTS
    LabelErrorsAreReal
