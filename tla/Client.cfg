SPECIFICATION FairSpec
CONSTANTS
    p1 = p1
    p2 = p2
    g1 = g1
    b1 = b1
    NoReq = NoReq
    Requests <- MCRequests
    Post <- MCPost
    Probe <- MCProbe
    ClientIdle = 1
    ServerIdle = 2
INVARIANTS
    WriteAtMostOnce
    ReportsAreTrue
    NoKeepAliveRace
    LoadIsBounded
    ClientInv
PROPERTIES
    EveryCallReturns
    ImplementsRemoteCall
