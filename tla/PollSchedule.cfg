CONSTANTS
    Servers = {s1, s2}
    Jobs = {j1, j2}
    None = None
    Unclaimed = 3
    MaxEpoch = 2
SPECIFICATION FairSpec
INVARIANTS TypeOK AtMostOnePollPerServer OnboardExclusive
PROPERTIES NoBackToBackPolls EveryServerIsPolled
