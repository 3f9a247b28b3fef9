CONSTANTS
    MaxHeight = 3
    MaxCrashes = 0
    MaxFetchErrs = 1
    MaxIndexErrs = 0
SPECIFICATION ServiceSpec
PROPERTY FetchRetried
