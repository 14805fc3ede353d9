\* One process at a time, as the CLI runs: at most two appends in a life.
CONSTANTS
    Op = {o1, o2}
    Junk = Junk
    NoFragment = NoFragment
    Proc = {p1}
    StopOnError = FALSE
    MaxAppends = 2
    MaxLines = 5
    MaxTorn = 2
    MaxWriteback = 1
    MaxPower = 2
SPECIFICATION Spec
SYMMETRY Symmetry
INVARIANTS TypeOK AckedOnDisk NoSilentLoss OpenImpliesVerified AckedSeqUnique
CHECK_DEADLOCK FALSE
