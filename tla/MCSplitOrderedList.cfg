\* Two threads, one call each, on keys 1 (prefilled) and 2 (bucket 0, then 2).
CONSTANTS
    W = 4
    Threads = {t1, t2}
    Keys = {1, 2}
    Ops = {"lookup", "insert", "delete"}
    PreKeys = {1, 3, 5, 7}
    MaxOps = 1
    MaxNodes = 12
    NULL = NULL
    NoRet = NoRet
SPECIFICATION Spec
INVARIANT ListSorted
INVARIANT BucketsPublished
PROPERTY UpdatesLinearize
PROPERTY ResultsLinearizable
PROPERTY CallsEnd
INVARIANT SplitOrderSound
INVARIANT ParentSound
PROPERTY SplitOnGrow
INVARIANT LoadFactorKept
