SPECIFICATION SignInSpec
CONSTANTS
    Handlers = {h1, h2, h3}
    LIMIT = 2
    WINDOW = 2
    BLOCK = 2
    MaxTime = 3
    MaxTries = 11
    NoTime = NoTime
INVARIANTS GuessesBounded
SYMMETRY RequestsSymmetry
CHECK_DEADLOCK FALSE
