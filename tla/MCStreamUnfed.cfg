\* A first reader that is refused its subscription, and one that comes after it.
CONSTANTS
    Subscribers = {s}
    Pollers = {p}
    SegmentSize = 2
    MaxSegments = 1
    MaxBatch = 1
    MaxItems = 2
SPECIFICATION Spec
INVARIANT BackedByEvents
CHECK_DEADLOCK FALSE
