\* A disk that writes, two creators, one of them a default root, and one placeholder key.
SPECIFICATION Spec
CONSTANTS
    PublicKeys = {root, creator, placeholder}
    Roots = {root}
    Legacy = {placeholder}
    Lockout = 2
    FaultyDisk = FALSE
    MaxNow = 3
    MaxOps = 4
INVARIANTS
    TypeOK
    BlockedStaysBlocked
    IdentityKept
PROPERTY RegenerationSpaced
