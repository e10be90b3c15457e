\* Both programs from their start, with every cut of every reply.
SPECIFICATION Spec
CONSTANTS
    Entries <- MCEntries
    Root = "root"
    NoDir = "-"
    Junk = Junk
    Words <- MCWords
    MaxBuffer = 5
INVARIANTS
    TypeOK
    MountedHasRoot
    OnlyFirstReplyBelow
    CookiesAreServers
PROPERTIES
    Implements
    GetsThrough
\* The programs end, or wait for good when mountd refuses.
CHECK_DEADLOCK FALSE
