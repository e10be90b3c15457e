\* Directories with so many entries that a removal moves parts of them.
SPECIFICATION Spec
CONSTANTS
    Names = {n1, n2, n3, n4, n5, n6}
    Dot = Dot
    Empty = Empty
    Key <- FlatKey
    End <- FlatEnd
    Paths <- FlatPaths
    Descended = {}
    ListsDot = FALSE
    Block = 6
    MetaCapacity = 13
    DirCapacity = 3
    FileCapacity = 5
    TocCapacity = 3
INVARIANT
    ObjectsOwnedOnce
SYMMETRY FlatSymmetry
\* A failed assert ends the program, and a full tree has nothing left to do.
CHECK_DEADLOCK FALSE
