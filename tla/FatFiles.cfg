SPECIFICATION Spec
CONSTANTS
    f1 = f1
    f2 = f2
    File = {f1, f2}
    LastCluster = 4
    ClusterSize = 2
    Longest = 5
    MaxSize <- MCMaxSize
    Uses <- MCUses
    Lengths = {2}
    Offsets = {3, 5}
    MaxFaults = 1
    Types = {"FAT", "exFAT"}
    None = None
INVARIANTS LinksFollowData PositionsHaveClusters ClusterAccounts
PROPERTIES CallsEnd FilesApart
CHECK_DEADLOCK FALSE
