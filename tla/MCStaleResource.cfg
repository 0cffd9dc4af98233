SPECIFICATION Spec
CONSTANTS
    Caller = {i1, i2}
    Key = {k1}
    EmptyKey = EmptyKey
    Modulus = 2
    TaDataSize = 12
    HeapSize = 10
    ImageSize <- MCImageSize
    Request <- CoffeeRequests
    MaxCalls = 2
    MaxHandlers = 2
    MaxSigints = 0
SYMMETRY CallerSymmetry
INVARIANTS
    NoStaleResource
