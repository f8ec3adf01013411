\* HazardBag: two threads, three slot addresses, two pointer values.
CONSTANTS
    Threads = {t1, t2}
    Addrs = {a1, a2, a3}
    Ptrs = {1, 2}
    MaxRounds = 2
    MaxWrites = 1
    MaxScanSteps = 4
    NULL = NULL
SPECIFICATION Spec
INVARIANT ActiveSlotsOwned
