CONSTANTS
    g1 = g1
    g2 = g2
    NoOne = NoOne
    Goroutines <- MCGoroutines
    Streams = {1, 2}
    Window = 2
    MaxBinds = 2
SPECIFICATION FairSpec
INVARIANTS TypeOK LockInv EagerDialPins ClientMatchesBinding
PROPERTIES ImplementsHandle EveryCallReturns
