\* A minute of 2 units, an hour of 4, and a month of three hours of which a day
\* is two; raw samples are kept one unit longer than a day, hours than a month.
SPECIFICATION Spec
CONSTANTS
    Peers = {a, b}
    None = none
    Minute = 2
    Hour = 4
    HalfHour = 2
    Day = 8
    Month = 12
    RawKept = 9
    HourlyKept = 13
    MaxTime = 16
    MaxPolls = 2
    MaxAborts = 1
INVARIANTS
    TypeOK
    TotalsAreHistory
    PointsSumToTotals
