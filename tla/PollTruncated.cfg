\* One peer; "transfer" may print fewer lines than there are peers, too.
SPECIFICATION Spec
CONSTANTS
    Peers = {a}
    Faulty = {"peers", "allowed-ips", "latest-handshakes", "transfer", "endpoints"}
    None = none
    Before = 2
    MaxBytes = 1
    MaxPolls = 3
    MaxAborts = 0
INVARIANT
    NeverOvercounts
