SPECIFICATION Spec
CONSTANTS
    Caller = {i1, i2}
    Key = {k1}
    EmptyKey = EmptyKey
    Modulus = 2
    TaDataSize = 12
    HeapSize = 10
    ImageSize <- MCImageSize
    Request <- AllRequests
    MaxCalls = 2
    MaxHandlers = 1
    MaxSigints = 1
INVARIANTS
    TypeOK
    LockStep
    RuntimeOwned
    MemoryCleaned
    SessionsReturned
    NoStaleResource
SYMMETRY CallerSymmetry
PROPERTIES
    ImplementsCoffeeLedger
