\* Two threads, two keys, three node addresses (one more than the set can
\* hold, so the allocator can both reuse a freed address and hand out a
\* fresh one), two calls per thread.
CONSTANTS
    Threads = {t1, t2}
    Keys = {1, 2}
    Addrs = {a1, a2, a3}
    MaxOps = 2
    NULL = NULL
    HEAD = HEAD
    NoOne = NoOne
    NoRet = NoRet
SPECIFICATION Spec
INVARIANT ListWellFormed
INVARIANT CursorLocksLive
INVARIANT IterationSound
PROPERTY SetRefinement
PROPERTY CallsReturn
