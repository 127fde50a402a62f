CONSTANTS
    Callers = {c1, c2}
    MaxKeyBytes = 1
    MaxValueBytes = 1
SPECIFICATION FairSpec
INVARIANTS TypeOK StoredExplained ReadExplained
PROPERTY EveryCallReturns
