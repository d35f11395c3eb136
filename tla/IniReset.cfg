CONSTANTS
    Svc = svc
    Threads = {svc, edt}
    Readers = {q}
    Reqs = {r}
    Exts = {x}
    Items = {r, x}
    Virtual = {x}
    NoPool = NoPool
    NoCache = NoCache
    MaxLoadFaults = 0
    MaxSaveFaults = 0
    MaxCalls = 4
SPECIFICATION Spec
INVARIANTS StringsStay
