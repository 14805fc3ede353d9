\* Three phones, any subcommand, and a file of at most two bytes.
CONSTANTS
    d1 = d1
    d2 = d2
    d3 = d3
    Device = {d1, d2, d3}
    NoDevice = NoDevice
    DevNumber <- Numbers
    MaxFiles = 2
    MaxSize = 2
SPECIFICATION FairSpec
INVARIANTS TypeOK ServesNamed RecordsAreFaithful StreamTellsOutcome FailedTransferIsOneFile NamingIsEnoughToFetch
PROPERTY CommandEnds
CHECK_DEADLOCK FALSE
