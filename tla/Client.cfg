SPECIFICATION FairSpec
CONSTANTS
    Conns = {c1, c2}
    Addrs = {2, 3}
    NoConn = NoConn
    MaxKeys = 2
    MaxLosses = 1
    MaxJoins = 1
    MaxRemoves = 1
    MaxStops = 1
INVARIANTS SyncReadsItsAnswer AdapterIsLease
PROPERTIES StaysWhileMember SessionsEnd
