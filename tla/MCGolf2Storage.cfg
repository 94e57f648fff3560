CONSTANTS
    CountsPerWord = 2
    WordsPerPage = 2
    Calls = {"increment"}
    Faults = {"reset"}
    Muxed = TRUE
    a1 = a1
    Apps = {a1}
    NoApp = NoApp
SPECIFICATION GSpec
INVARIANTS GTypeOK CapsulesAgreeWithMux OnlyPageWriteSticks
PROPERTIES IncrementSucceedsUnlessStuck
