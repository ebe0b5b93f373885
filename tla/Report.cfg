SPECIFICATION FairSpec
CONSTANTS
    EventCount = 5
    Matching <- MCMatching
    PageSize = 2
    CachedPages = 2
    WindowRows = 2
    MaxActions = 2
    StartTimeout = 1
    IdleTimeout = 2
INVARIANTS TableShowsTheQuery NoneInVain
PROPERTIES LaunchSettles
