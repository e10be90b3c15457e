\* One thread at a time on the connection, replies larger than the buffer.
SPECIFICATION FairSpec
CONSTANTS
    Workers = {"w1"}
    XidPeriod = 3
    Xid <- MCXid
    Forms <- MCForms
    Header <- MCHeader
    Refusals <- MCRefusals
    MaxBuffer = 8
    Sizes = {0, 2, 12}
    MaxCalls = 4
INVARIANTS
    TypeOK
    RepliesMatch
    QuietBetweenCalls
PROPERTIES
    CallsReturn
    Implements
\* The number of calls is bounded.
CHECK_DEADLOCK FALSE
