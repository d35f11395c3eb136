SPECIFICATION Spec
CONSTANTS
    Pids = {svc, a, b}
    Svc = svc
    Threads = {t1}
    Boxes = {box1}
    NoBox = none
    StarNames = {star}
    BoxNames = {plain}
    NoName = noname
    IdMod = 16
    MaxRequests = 2
    MaxStarts = 3
    MaxFailures = 0
INVARIANT ServerBelongsToName
PROPERTY RequestServed
CHECK_DEADLOCK FALSE
