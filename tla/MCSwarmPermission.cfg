SPECIFICATION HistorySpec
CONSTANTS
    Hashes = {h1}
    Private = {}
    Polls = {p1}
    MaxId = 1
    MaxOps = 3
INVARIANT OptedInOnceGranted
