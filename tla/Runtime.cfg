SPECIFICATION Spec
CONSTANTS
    Callers = {c1, c2}
    AllCommands = {"startRoom", "stopRoom", "start", "stop", "tunnels", "config", "join", "leave", "close"}
    OverlapCommands = {"start", "stop", "join", "leave"}
    None = None
CHECK_DEADLOCK FALSE
INVARIANTS OneMode EngineServesMode
PROPERTIES LeftJoinReturns
