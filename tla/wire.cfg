\* Six calls reach a session that fails and the Conn's refusals after it; two
\* items are a first one and a last one.
CONSTANTS
    MaxCalls = 6
    MaxItems = 2
SPECIFICATION FairSpec
INVARIANTS TypeOK AnswerIsTruth ChannelInStep AskedInPlace
PROPERTY CallEnds
CHECK_DEADLOCK FALSE
