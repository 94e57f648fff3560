CONSTANTS
    CountsPerWord = 4
    WordsPerPage = 1
    Calls = {"initialize", "increment"}
    Faults = {}
    Muxed = TRUE
SPECIFICATION MCSpec
PROPERTY InitializeAnswered
CHECK_DEADLOCK FALSE
