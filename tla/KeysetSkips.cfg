\* Three rows, two of which may be created within one millisecond; pages of one.
SPECIFICATION KeysetSpec
CONSTANTS
    RowIds = {0, 1, 2}
    MaxTime = 2
    PerMilli = 2
    Limit = 1
    MaxDeletes = 1
INVARIANTS EveryRowListed
