SPECIFICATION Spec
CONSTANTS
    Members = {m1, m2}
    Host = h
    MaxClock = 3
    WindowSize = 2
    MaxFrames = 1
    MaxReads = 2
    WindowFrames = 3
    WindowReads = 4
    RateFrames = 2
    RateReads = 3
    TTL = 1
    Second = 2
    PacketRate = 1
    ByteRate = 2
    RoomRate = 3
    Callers = {c1, c2}
    Addresses = {lo, a, b}
    Loopback = lo
    MaxCalls = 4
    MaxRestarts = 1
    Requests = {r1, r2}
    Kinds = {"invalid", "query", "change", "join", "shutdown"}
    MaxState = 2
    MayBreak = TRUE
    Conns = {k1, k2}
    MaxConcurrent = 1
    Nobody = Nobody
    Remover = Remover
CHECK_DEADLOCK FALSE
INVARIANTS NoReplay MemberRate NoLockout CommandsInOrder SlotsAndLocks
