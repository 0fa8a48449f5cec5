SPECIFICATION Spec
CONSTANTS
    Singles = {}
    Arguments = {}
    Lists <- AllLists
INVARIANTS
    UnusableKeysAreSkipped
CHECK_DEADLOCK FALSE
