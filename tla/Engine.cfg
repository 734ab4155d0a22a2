SPECIFICATION Spec
CONSTANTS
    None = None
    Sockets = {c1, c2}
    Closers = {"writer", "report"}
    MaxFaults = 2
    Callers = {a1, a2}
    MaxStarts = 2
    Tunnels = {t1, t2}
    Conns = {k1, k2}
    Polls = 1
    QueueSize = 1
    MayStop = TRUE
    Users = {u1, u2}
    OnePort = {u1, u2}
    Pair = pair
    WG = wg
    NoSave = NoSave
    MaxCommands = 4
    MaxCrashes = 1
CHECK_DEADLOCK FALSE
INVARIANTS OneReader OneNetwork OneOwner ConfigKept
PROPERTIES EngineSettles
