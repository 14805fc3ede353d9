\* One process whose caller goes on after Append has failed, as deviceaudit does.
CONSTANTS
    Op = {o1}
    Junk = Junk
    NoFragment = NoFragment
    Proc = {p1}
    StopOnError = FALSE
    MaxAppends = 2
    MaxLines = 5
    MaxTorn = 1
    MaxWriteback = 0
    MaxPower = 0
SPECIFICATION Spec
INVARIANT AckedIsVerifiable
CHECK_DEADLOCK FALSE
