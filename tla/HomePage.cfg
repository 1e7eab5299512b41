SPECIFICATION FairSpec
CONSTANTS
    Process = {p1, p2}
    Store = {redis, local}
    Sections <- MCSections
    Watched <- MCWatched
    TTL = 2
    Timeout = 1
    MaxEdits = 2
INVARIANTS
    StaleOnlyIfOvertaken
    NeverOlderThanTTL
PROPERTIES
    EventuallyFresh
