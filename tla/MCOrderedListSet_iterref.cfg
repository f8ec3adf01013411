\* The same bounds as MCOrderedListSet.cfg: an iterator and a remover of
\* the key it has just passed are enough to free a yielded node.
CONSTANTS
    Threads = {t1, t2}
    Keys = {1, 2}
    Addrs = {a1, a2, a3}
    MaxOps = 2
    NULL = NULL
    HEAD = HEAD
    NoOne = NoOne
    NoRet = NoRet
SPECIFICATION Spec
INVARIANT NoDanglingIterRef
