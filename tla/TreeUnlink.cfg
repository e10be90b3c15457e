\* Does unlink remove the file it is asked to remove, and nothing else?
SPECIFICATION Spec
CONSTANTS
    Names <- MCNames
    Dot = "."
    Empty = ""
    Key <- MCKey
    End <- MCEnd
    Paths <- MCPaths
    Descended <- MCDescended
    ListsDot = TRUE
    Block = 3
    MetaCapacity = 13
    DirCapacity = 6
    FileCapacity = 1
    TocCapacity = 5
PROPERTY
    UnlinkIsLocal
CHECK_DEADLOCK FALSE
