\* A log that arrives between the release of the lock and Wait.
CONSTANTS
    Subscribers = {s}
    Pollers = {}
    SegmentSize = 2
    MaxSegments = 1
    MaxBatch = 2
    MaxItems = 2
SPECIFICATION Spec
PROPERTY EverythingArrives
CHECK_DEADLOCK FALSE
