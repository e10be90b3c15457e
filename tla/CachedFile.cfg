\* The handlers of one file, with other clients and the buffer of the code.
SPECIFICATION Spec
CONSTANTS
    MaxSize = 512
    CallBytes = 28
    Sizes <- MCSizes
    Page = 4096
    Crcs = {0, 1}
    Names <- MCNames
    HandleBytes = 32
    Garbage <- MCGarbage
    PathBytes = 8
INVARIANTS
    TypeOK
    SizeAgrees
    CopiesInside
    BufferHolds
    RefusedOnlyWhenFull
\* The program ends by an assert or a wild copy.
CHECK_DEADLOCK FALSE
