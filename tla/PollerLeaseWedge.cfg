\* One process, two overlapping ticks, no faults.
SPECIFICATION FairSpec
CONSTANTS
    Pollers = {p1}
    Gone = gone
    Ticks = {t1, t2}
    Ttl = 2
    MaxEpoch = 2
    MaxFaults = 0
PROPERTY
    LeaseOwnerCanWrite
