CONSTANTS
    Pids = {p1, p2}
    Boxes = {b1, b2}
    NoBox = NoBox
    Host = Host
    Svc = Svc
    MaxCreate = 2
    MaxRetries = 1
    MaxDeaths = 1
SYMMETRY Symmetry
SPECIFICATION Spec
INVARIANTS
    LoadedIsInjected
    RunsInjectedOrTimedOut
    ChildStaysInBox
    NothingInherited
PROPERTIES
    CancelHitsMarked
CHECK_DEADLOCK FALSE
