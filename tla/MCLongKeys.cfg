SPECIFICATION Spec
CONSTANTS
    Base = 2
    Modulus = 8
    ARGS_NUMBER = 3
    ARG_SIZE = 4
    KEY_SIZE = 4
    VAL_SIZE = 7
    RESPONSE_SIZE = 7
    KEY_MAX = 4
    ARG_MAX = 4
    VAL_MAX = 7
    ClientKey <- LongKeys
    ClientValue <- FewValues
    ModuleValue = {}
    ArgumentList <- Lists
INVARIANTS
    KeysStayApart
