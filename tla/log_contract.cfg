\* One process at a time, whose caller stops at the first error.
CONSTANTS
    Op = {o1, o2}
    Junk = Junk
    NoFragment = NoFragment
    Proc = {p1}
    StopOnError = TRUE
    MaxAppends = 3
    MaxLines = 4
    MaxTorn = 2
    MaxWriteback = 0
    MaxPower = 2
SPECIFICATION Spec
PROPERTY ImplementsLedger
CHECK_DEADLOCK FALSE
