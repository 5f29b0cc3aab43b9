\* Two jobs, two mounts of the page, two requests and two messages on the way.
SPECIFICATION PageSpec
CONSTANTS
    Jobs = {j1, j2}
    Pages = {1, 2}
    None = None
    MaxChannel = 2
    MaxRequests = 2
INVARIANTS
    PageTypeOK
    JobShown
    PageShowsOutcome
PROPERTIES
    OneJobAtATime
    PackagingEnds
