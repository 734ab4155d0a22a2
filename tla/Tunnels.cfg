SPECIFICATION Spec
CONSTANTS
    None = None
    Ports = {p1, p2}
    Nodes = {n1}
    MaxEntries = 4
    MaxApps = 3
    InitLen = 2
    MaxPushes = 1
    MaxAdds = 1
    Direct = {d1, d2, d3}
    Relay = {r1, r2, r3}
    CloseCap = 1
    MaxFaults = 1
    MayDegrade = TRUE
    Users = {u1, u2}
    Tunnels = {t1, t2}
    MaxData = 1
    MayClose = TRUE
    UDPUsers = {u1, u2, u3}
    OnePort = {u1, u2}
    UDPData = 3
    Versions = {1, 2, 3, 4}
    Sockets = {"s1", "s2", "s3"}
    Guessed = {"s1", "s2"}
    MaxLoss = 2
    Conns = {i1, i2, i3}
    NoConn = NoConn
    MaxBreaks = 1
CHECK_DEADLOCK FALSE
INVARIANTS OneAppPerPort SidesFit PeersAgree AnswersReachSender
PROPERTIES EnabledAppsRun TunnelsHeal BothGetThrough BothEnd
