CONSTANTS
    WordsPerBank = 4
    WordsPerPage = 2
    MaxWriteSize = 1
    EraseAttempts = 3
    WriteAttempts = 2
    u1 = u1
    u2 = u2
    u3 = u3
    NoUser = NoUser
    List <- ThreeUsers
    Asked = {"erase", "write"}
    AppIds = {0, 1, 2}
    MaxValue = 4
    Hashers = {"p", "q"}
    Nobody = "none"
    MaxPieces = 2
    Ciphers = {"p", "q"}
    CipherModes = {"EcbDec", "Ctr", "CbcEnc"}
    NoCipher = "none"
    Runners = {"p", "q"}
    NoRunner = "none"
    FifoDepth = 2
    TxLens = {0, 1, 3}
    RxLens = {0, 1, 3}
    MaxBytes = 4
    TickRange = 8
    MaxWords = 2
    MaxWanted = 3
SPECIFICATION MCSpec
INVARIANTS
    MCTypeOK FlashStackSound CallbacksExact 
    EnginesFreed UartSound
PROPERTIES
    ContractKept  FreshValues
     
