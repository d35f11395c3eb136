SPECIFICATION Spec
CONSTANTS
    Clients = {c1, c2}
    MaxProcs = 3
    MaxFaults = 2
INVARIANTS TypeOK OneServer RefusedWhenDisturbed
PROPERTY CallEnds
CHECK_DEADLOCK FALSE
