SPECIFICATION Spec
CONSTANTS
    Clients = {c1}
    Workers = {w1, w2}
    MaxLen = 1
    SeqMod = 3
    MaxCalls = 1
    MaxConns = 1
    MayFail = {}
PROPERTY ChunkAcknowledged
CHECK_DEADLOCK FALSE
