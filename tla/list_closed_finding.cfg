\* The instance of session.cfg: a process killed by what it writes has recorded nothing.
CONSTANTS
    d1 = d1
    d2 = d2
    d3 = d3
    Device = {d1, d2, d3}
    NoDevice = NoDevice
    DevNumber <- Numbers
    MaxFiles = 2
    MaxSize = 2
SPECIFICATION Spec
INVARIANT RecordedEitherWay
CHECK_DEADLOCK FALSE
