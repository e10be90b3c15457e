\* Handles of every kind, with and without a zero limb in the root's prefix,
\* stored until the limb array is full.
SPECIFICATION Spec
CONSTANTS
    Handles <- MCHandles
    Roots <- MCRoots
    Limb = {0, 1, 2, 7}
    Magic = 7
    Width = 5
    Counted = 4
    LimbsCapacity = 7
INVARIANTS
    TypeOK
    RoundTrip
    CrashNeedsGap
PROPERTY
    PointersStable
\* A failed assert and a wild copy end the program.
CHECK_DEADLOCK FALSE
