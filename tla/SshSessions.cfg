\* Two polls at once, which is one more than the queues of gate-poller allow.
SPECIFICATION FairSpec
CONSTANTS
    Polls = {p, q}
    Configs = {x, y}
    Clients = {1, 2, 3, 4}
    None = none
INVARIANTS
    TypeOK
    NoStraySession
    EveryConnectIsKnown
    ReadsOwnServer
PROPERTY
    EveryPollEnds
