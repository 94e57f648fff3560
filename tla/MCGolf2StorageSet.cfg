CONSTANTS
    CountsPerWord = 2
    WordsPerPage = 2
    Calls = {"increment"}
    Faults = {}
    Muxed = TRUE
    a1 = a1
    Apps = {a1}
    NoApp = NoApp
SPECIFICATION GSpec
PROPERTY SetAnswered
CHECK_DEADLOCK FALSE
