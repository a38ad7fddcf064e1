SPECIFICATION Spec
CONSTANTS
    A = A
    B = B
    C = C
    fw = fw
    boot = boot
    i = i
    a1 = a1
    a2 = a2
    b1 = b1
    NoProject = NoProject
    NoPid = NoPid
    None = None
    Procs <- MCProcs
    Pid <- MCPid
    Project <- MCProject
    Sockets <- MCSockets
    Tells <- MCTells
    Paths <- MCPaths
    First <- MCFirst
    Programs <- MCPrograms
    Imported = i
    MaxChanges = 3
    MaxPolls = 1
INVARIANTS
    InstancesInv
    OnePerProcess
    NobodyHidden
    ConnectedIsShown
PROPERTY
    CompletionIsReal
