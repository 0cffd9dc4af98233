SPECIFICATION Spec
CONSTANTS
    Caller = {g1, g2, g3}
    Input = {"uuid", "other", "short", "typo"}
    Decoded <- MCDecoded
    Valid = {"uuid", "other", "short"}
    MaxCalls = 3
INVARIANTS
    SliceUsable
