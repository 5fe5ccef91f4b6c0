CONSTANTS
    None = None
    PeerHosts = {x}
    Lookupable = {x, y}
    Own = own
    Others = {other}
    Concurrency = 1
    PerTick = 1
    PerMinute = 2
    MaxFailures = 1
SPECIFICATION FairSpec
INVARIANTS TypeOK GeoBelongsToEndpoint
PROPERTY PlaceIsFound
