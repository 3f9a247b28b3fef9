\* Two subscribers, of which one may be stuck in its callback.
CONSTANTS
    Subscribers = {s, t}
    Pollers = {}
    SegmentSize = 2
    MaxSegments = 1
    MaxBatch = 2
    MaxItems = 3
SPECIFICATION Spec
PROPERTY ReadersReturn
CHECK_DEADLOCK FALSE
