\* An honest and a hostile model, two completions in flight.
SPECIFICATION FairSpec
CONSTANTS
    Hashes = {h1, h2}
    Hostile = {h2}
    Calls = {c1, c2}
    MaxItems = 3
INVARIANTS
    TypeOK
    PromotedOnceMatched
    HostileNeverPromoted
    VerifiedIsInLibrary
PROPERTY ValidatingEnds
\* Every item cancelled or settled and none left to enqueue: nothing more is asked.
CHECK_DEADLOCK FALSE
