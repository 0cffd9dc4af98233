SPECIFICATION Spec
CONSTANTS
    Caller = {i1, i2, i3}
    Key = {k1, k2}
    EmptyKey = EmptyKey
    Modulus = 2
    TaDataSize = 12
    HeapSize = 10
    ImageSize <- MCImageSize
    Request <- Creates
    MaxCalls = 2
    MaxHandlers = 2
    MaxSigints = 0
SYMMETRY CallerSymmetry
INVARIANTS
    CompleteIsolation
