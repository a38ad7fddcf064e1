SPECIFICATION FairSpec
CONSTANTS
    u1 = u1
    u2 = u2
    u3 = u3
    fw = fw
    fwOld = fwOld
    a = a
    b = b
    s = s
    help = help
    sec = sec
    extra = extra
    None = None
    Urls <- MCUrls
    Scanned <- MCScanned
    ConfigUrl = u3
    Instances <- MCInstances
    Strangers <- MCStrangers
    Homes <- MCHomes
    Projects <- MCProjects
    ProjectOf <- MCProjectOf
    Like <- MCLike
    Static <- MCStatic
    ToolsOf <- MCToolsOf
    MaxFaults = 2
    MaxAwaiting = 1
INVARIANTS
    OfOnePiece
    ToolsFollowCatalog
    ConnectionInv
PROPERTIES
    EveryToolReturns
