SPECIFICATION Spec
CONSTANTS
    c1 = c1
    c2 = c2
    c3 = c3
    u1 = u1
    u2 = u2
    p1 = p1
    p2 = p2
    Nil = Nil
    Conns = {c1}
    MaxClients = 1
    Users = {u1}
    Places = {p1}
    Inputs <- MalformedInputs
    MaxIn = 1
    SendBuf = 1
    KeepAlive = TRUE
    Faults = {}
INVARIANTS
    SurvivesMalformedInput
