CONSTANTS
    Svc = svc
    Threads = {svc, edt}
    Readers = {q}
    Reqs = {r}
    Exts = {x}
    Items = {r, x}
    Virtual = {x}
    NoPool = NoPool
    NoCache = NoCache
    MaxLoadFaults = 1
    MaxSaveFaults = 1
    MaxCalls = 4
SPECIFICATION Spec
INVARIANTS PoolsAccounted ReaderKeepsPool CacheCovers AckedIsSaved
PROPERTIES VirtualSurvives
