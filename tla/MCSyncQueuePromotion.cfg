SPECIFICATION Spec
CONSTANTS
    Hashes = {h1}
    Hostile = {}
    Calls = {c1}
    MaxItems = 2
INVARIANT PromotedIsWhole
CHECK_DEADLOCK FALSE
