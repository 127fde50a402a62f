CONSTANTS
    Polls = {p1, p2}
    MaxLines = 2
    LineBytes = 1
    MaxBytes = 4
    MaxRotations = 1
    MaxEdits = 1
    RotateDuringPoll = FALSE
SPECIFICATION Spec
INVARIANTS TypeOK NoLineLost
SYMMETRY Symmetry
