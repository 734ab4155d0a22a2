SPECIFICATION Spec
CONSTANTS
    Conns = {c1, c2}
    MaxConcurrent = 1
    Nobody = Nobody
    Remover = Remover
    Requests = {r1, r2}
    Kinds = {"invalid", "query", "change", "join", "shutdown"}
    MaxState = 2
    MayBreak = TRUE
    None = None
CHECK_DEADLOCK FALSE
PROPERTIES ServerProgresses ClientServed
