CONSTANTS
    CountsPerWord = 4
    WordsPerPage = 2
    Calls = {"initialize", "increment"}
    Faults = {"fail", "reset"}
    Muxed = TRUE
SPECIFICATION MCSpec
INVARIANTS
    MCTypeOK NoRollback CounterInv WordsMatchPage
PROPERTIES AcknowledgedExactly  IncrementAnswered
