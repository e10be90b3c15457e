\* Does the toc agree with the directories once something has been removed?
SPECIFICATION Spec
CONSTANTS
    Names <- MCNames
    Dot = "."
    Empty = ""
    Key <- MCKey
    End <- MCEnd
    Paths <- MCPaths
    Descended <- MCDescended
    ListsDot = TRUE
    Block = 3
    MetaCapacity = 13
    DirCapacity = 6
    FileCapacity = 1
    TocCapacity = 5
INVARIANT
    TocLeadsToItsDirectory
CHECK_DEADLOCK FALSE
