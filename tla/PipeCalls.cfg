SPECIFICATION Spec
CONSTANTS
    Clients = {c1, c2}
    Workers = {w1, w2}
    MaxLen = 2
    SeqMod = 2
    MaxCalls = 2
    MaxConns = 2
    MayFail = {1}
INVARIANTS SClientNotShared HandlerGetsRequest ReplyAnswersCall InStepBetweenCalls
PROPERTY StoredClientAnswered
CHECK_DEADLOCK FALSE
