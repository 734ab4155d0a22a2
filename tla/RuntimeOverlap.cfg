SPECIFICATION Spec
CHECK_DEADLOCK FALSE
CONSTANTS
    Callers = {c1, c2}
    Commands = {"startRoom","join","start"}
    MaxCalls = 2
    HostMayRefuse = TRUE
    MaxJoins = 2
    None = None
INVARIANTS OneMode
