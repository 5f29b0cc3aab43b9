\* One torrent, two polls in flight together.
SPECIFICATION FairSpec
CONSTANTS
    Hashes = {h1}
    Private = {}
    Polls = {p1, p2}
    MaxId = 2
    MaxOps = 2
INVARIANT TypeOK
PROPERTIES
    ForbiddenEventuallyStopped
    ViewConverges
