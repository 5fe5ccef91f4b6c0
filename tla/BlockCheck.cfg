CONSTANTS
    Null = Null
    a = a
    ProbeIds = {a}
    Replies <- MCReplies
    MaxReplies = 3
    Servers = {1, 2}
    Hosts = {0, 1, 2}
    Private = {0}
    Dead = {1}
    Refreshes = {f, g}
    Interval = 3
    Backoff = 2
    RateLimit = 4
    Gap = 1
    FailLimit = 2
    MaxAge = 3
    MaxEdits = 3
    MaxFaults = 2
SPECIFICATION FairCheckSpec
INVARIANTS CheckTypeOK VerdictRestsOnWholeProbe VerdictIsAboutItsHost
PROPERTIES VerdictsAreOnlyRenewed EveryHostIsAsked
