CONSTANTS
    g1 = g1
    g2 = g2
    NoOne = NoOne
    Goroutines <- MCGoroutines
    Streams = {1}
    Window = 2
    MaxBinds = 1
SPECIFICATION AskingSpec

PROPERTY NilIsTransient
