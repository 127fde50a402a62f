SPECIFICATION FairSpec
CONSTANTS
    Entries = 8
    PageCap = 3
    MaxAsked = 4
    MaxReplays = 2
    FileSize = 5
    ChunkBytes = 2
    MaxRead = 6
    Window = 1
INVARIANTS TypeOK CompleteIsWhole OnlyInjectedFailures Exact FaultsCaught
           HonestAccepted ListedReadable
PROPERTIES CursorsAdvance HandlerReturns
CHECK_DEADLOCK FALSE
