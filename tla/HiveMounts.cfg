CONSTANTS
    Procs = {p1, p2}
    Boxes = {a, b}
    Workers = {w1, w2}
    NoBox = NoBox
    MaxCreate = 3
    MaxRetries = 2
SPECIFICATION FairSpec
INVARIANTS RefCountIsUsers OneLoader HiveStays
PROPERTIES UnusedIsUnloaded
CHECK_DEADLOCK FALSE
