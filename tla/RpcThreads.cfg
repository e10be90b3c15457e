\* Two threads in a call at the same time, as fuse_main runs the handlers.
SPECIFICATION Spec
CONSTANTS
    Workers = {"w1", "w2"}
    XidPeriod = 3
    Xid <- MCXid
    Forms <- MCForms
    Header <- MCHeader
    Refusals <- MCRefusals
    MaxBuffer = 8
    Sizes = {0, 2}
    MaxCalls = 2
INVARIANT
    RepliesMatch
CHECK_DEADLOCK FALSE
