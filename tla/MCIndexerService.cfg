CONSTANTS
    MaxHeight = 5
    MaxCrashes = 1
    MaxFetchErrs = 1
    MaxIndexErrs = 1
SPECIFICATION ServiceSpec
INVARIANT IndexSound
PROPERTY EventuallyIndexed
