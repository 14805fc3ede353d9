\* One broker, no faults, and a verify that runs beside it.
CONSTANTS
    Op = {o1}
    Junk = Junk
    NoFragment = NoFragment
    Proc = {p1}
    StopOnError = FALSE
    MaxAppends = 2
    MaxLines = 3
    MaxTorn = 0
    MaxWriteback = 0
    MaxPower = 0
    VerifyOverlaps = TRUE
    MaxDrops = 0
    MaxCuts = 0
SPECIFICATION TrailSpec
SYMMETRY Symmetry
INVARIANT NoFalseAlarm
CHECK_DEADLOCK FALSE
