\* Cache: three caller threads, two keys; any f may panic.
CONSTANTS
    Threads = {t1, t2, t3}
    Keys = {k1, k2}
    None = None
SPECIFICATION Spec
INVARIANT TypeOK
INVARIANT FCalledOnce
INVARIANT NoCrossKeyBlocking
PROPERTY CacheRefinement
