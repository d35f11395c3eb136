SPECIFICATION Safety
CONSTANTS
    Pids = {svc, a, b}
    Svc = svc
    Threads = {t1, t2}
    Boxes = {}
    NoBox = none
    StarNames = {star}
    BoxNames = {}
    NoName = noname
    IdMod = 4
    MaxRequests = 2
    MaxStarts = 4
    MaxFailures = 1
INVARIANTS TypeOK ServerKeepsQueue FetchedInOrder NoLostWakeup ReplyAnswersCall ReplyWakesClient
PROPERTY EndOfFileMeansClientGone
CHECK_DEADLOCK FALSE
SYMMETRY Symmetry
