CONSTANTS
    Polls = {p1}
    MaxLines = 2
    LineBytes = 2
    MaxBytes = 5
    MaxRotations = 1
    MaxEdits = 1
    RotateDuringPoll = TRUE
SPECIFICATION Spec
INVARIANT ReportsWholeLines
