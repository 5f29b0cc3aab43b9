\* Two torrents, one of which matches an excluded pattern.
SPECIFICATION Spec
CONSTANTS
    Hashes = {h1, h2}
    Private = {h2}
    Polls = {p1}
    MaxId = 1
    MaxOps = 3
INVARIANT PolicyListsDisjoint
PROPERTY CompletionRespectsPolicy
