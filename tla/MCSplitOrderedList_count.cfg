\* The count check: two threads, one call each, on keys 1 (prefilled) and 2.
CONSTANTS
    W = 4
    Threads = {t1, t2}
    Keys = {1, 2}
    Ops = {"lookup", "insert", "delete"}
    PreKeys = {1, 3, 5, 7}
    MaxOps = 1
    MaxNodes = 12
    NULL = NULL
    NoRet = NoRet
SPECIFICATION Spec
INVARIANT CountMatchesItems
