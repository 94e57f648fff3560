CONSTANTS
    CountsPerWord = 4
    WordsPerPage = 1
    Calls = {"increment"}
    Faults = {}
    Muxed = TRUE
SPECIFICATION MCSpec
INVARIANT NeverPanics
