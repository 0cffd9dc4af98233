SPECIFICATION Spec
CONSTANTS
    Key = {k1}
    EmptyKey = EmptyKey
    Modulus = 2
    Caller = {c1}
    TaDataSize = 4
    HeapSize = 3
    ImageSize <- MCImageSize
    HostArgs <- MCHostArgs
    HostHeap = {1, 3}
INVARIANTS
    TypeOK
    RuntimeHasInstance
    Continuation
    PutFollowsGet
PROPERTIES
    RunKeepsRuntime
    AnswersFollowReads
