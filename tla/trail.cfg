\* Two brokers and a verify that runs between them.
CONSTANTS
    Op = {o1}
    Junk = Junk
    NoFragment = NoFragment
    Proc = {p1, p2}
    StopOnError = FALSE
    MaxAppends = 2
    MaxLines = 2
    MaxTorn = 1
    MaxWriteback = 1
    MaxPower = 1
    VerifyOverlaps = FALSE
    MaxDrops = 1
    MaxCuts = 1
SPECIFICATION TrailSpec
SYMMETRY Symmetry
INVARIANTS TrailTypeOK SharedLogKeepsAcked NoFalseAlarm TruncationCaught LastOperationAnchored
CHECK_DEADLOCK FALSE
