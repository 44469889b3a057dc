\* Three callers on two jobs, keys that may expire, and the restart sweep.
SPECIFICATION Spec
CONSTANTS
    Jobs = {j1, j2}
    Calls = {c1, c2, c3}
    NoCall = NoCall
SYMMETRY Interchangeable
INVARIANTS TypeOK ReadIsCurrent ListedIsUnfinished
PROPERTY ImplementsAtomicStore
CHECK_DEADLOCK FALSE
