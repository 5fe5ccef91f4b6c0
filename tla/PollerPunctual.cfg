\* One tick at a time, the lease of 45 seconds, one fault.
SPECIFICATION TimedSpec
CONSTANTS
    Pollers = {p1, p2}
    Gone = gone
    Ticks = {t1}
    Ttl = 3
    MaxEpoch = 3
    MaxFaults = 1
SYMMETRY Symmetry
INVARIANTS
    TypeOK
    EpochNamesOneProcess
    PunctualWriterIsAlone
PROPERTY
    ImplementsTokens
