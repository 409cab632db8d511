CONSTANTS
    c1 = c1
    c2 = c2
    Conns = {c1, c2}
    Refs = {r1, r2}
    Rights <- MCRights
    NoConn = NoConn
    NoRef = NoRef
    MaxLosses = 1
    MaxInbox = 1
SPECIFICATION Spec
CHECK_DEADLOCK FALSE
PROPERTY DataIsAnswered
