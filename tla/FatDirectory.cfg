SPECIFICATION Spec
CONSTANTS
    Name <- MCPair
    ShortName <- MCShort
    Parts <- PairParts
    Lossy <- PairLossy
    Short <- PairShort
    Number <- PairNumber
    MaxNumber = 2
    Root = 0
    DirCluster = {5}
    ChdirInto = {5}
    Slots = 3
    MaxClusters = 2
    Clusters = 1
    MaxFaults = 1
    NoDir = NoDir
    Absent = Absent
INVARIANTS TypeOK NamesAreTheirOwn  ClustersAccounted
PROPERTY IsNameSpace
CHECK_DEADLOCK FALSE
VIEW Relevant
