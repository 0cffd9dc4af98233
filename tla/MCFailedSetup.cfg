SPECIFICATION Spec
CONSTANTS
    Caller = {g1}
    Input = {"uuid", "typo"}
    Decoded <- MCDecoded
    Valid = {"uuid", "other", "short"}
    MaxCalls = 1
INVARIANTS
    SentWasAccepted
