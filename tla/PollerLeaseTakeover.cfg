\* One tick at a time per process: takeover after crashes, stops, stalls and
\* one statement that failed or answer that was lost.
SPECIFICATION FairSpec
CONSTANTS
    Pollers = {p1, p2}
    Gone = gone
    Ticks = {t1}
    Ttl = 2
    MaxEpoch = 3
    MaxFaults = 1
PROPERTY
    SomePollerGetsEpoch
