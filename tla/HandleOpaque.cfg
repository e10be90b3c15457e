\* Does a pointer decode to its handle when handles are opaque data?
SPECIFICATION Spec
CONSTANTS
    Handles <- MCHandles
    Roots <- MCRoots
    Limb = {0, 1, 2, 7}
    Magic = 7
    Width = 5
    Counted = 4
    LimbsCapacity = 7
INVARIANT
    OpaqueRoundTrip
CHECK_DEADLOCK FALSE
