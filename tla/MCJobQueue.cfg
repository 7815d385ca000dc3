CONSTANTS
    Jobs = {j1}
    Tasks = {t1, t2, t3}
    MaxMessages = 3
SPECIFICATION Spec
SYMMETRY Symmetry
INVARIANTS
    OneMessagePerKey
    ScheduledRetryIsKept
