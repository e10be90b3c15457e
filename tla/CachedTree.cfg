\* A tree read from a server that lists "." first, then changed through FUSE.
SPECIFICATION Spec
CONSTANTS
    Names <- MCNames
    Dot = "."
    Empty = ""
    Key <- MCKey
    End <- MCEnd
    Paths <- MCPaths
    Descended <- MCDescended
    ListsDot = TRUE
    Block = 3
    MetaCapacity = 13
    DirCapacity = 6
    FileCapacity = 1
    TocCapacity = 5
INVARIANTS
    TypeOK
    TocAgrees
    BlocksDisjoint
    SiblingsDistinct
    ObjectsOwnedOnce
    RootIsDirectory
    ReaddirAgrees
    HandlersFindParents
PROPERTIES
    CreateIsLocal
\* A failed assert ends the program, and a full tree has nothing left to do.
CHECK_DEADLOCK FALSE
