\* Two peers, three polls, one of which may end early; the counters start at 2,
\* so that after a reset they can grow and still be lower than before.
SPECIFICATION Spec
CONSTANTS
    Peers = {a, b}
    Faulty = {"peers", "allowed-ips", "latest-handshakes", "endpoints"}
    None = none
    Before = 2
    MaxBytes = 1
    MaxPolls = 3
    MaxAborts = 1
SYMMETRY Symmetry
ACTION_CONSTRAINT CommutingStepsFirst
INVARIANTS
    TypeOK
    NeverOvercounts
    ServerTotalMatchesPeers
    JournalIsSound
PROPERTY
    DeletedOnlyAfterTwoAbsences
