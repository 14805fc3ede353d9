\* One broker, and a log that is lost once and grows again.
CONSTANTS
    Op = {o1, o2}
    Junk = Junk
    NoFragment = NoFragment
    Proc = {p1}
    StopOnError = FALSE
    MaxAppends = 2
    MaxLines = 3
    MaxTorn = 0
    MaxWriteback = 0
    MaxPower = 0
    VerifyOverlaps = FALSE
    MaxDrops = 0
    MaxCuts = 1
SPECIFICATION TrailSpec
SYMMETRY Symmetry
INVARIANT DeletionStaysDetectable
CHECK_DEADLOCK FALSE
