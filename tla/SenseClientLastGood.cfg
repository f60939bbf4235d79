CONSTANTS
    MaxReads = 3
SPECIFICATION Spec
INVARIANTS LastGoodIsKept
