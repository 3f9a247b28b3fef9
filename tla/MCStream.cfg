CONSTANTS
    Subscribers = {s}
    Pollers = {p}
    SegmentSize = 2
    MaxSegments = 1
    MaxBatch = 2
    MaxItems = 6
SPECIFICATION Spec
INVARIANTS ReadersServed FedUnlessRaced
PROPERTY ReadersReturn
CHECK_DEADLOCK FALSE
