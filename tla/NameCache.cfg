\* The whole life of a small name cache, each call run to its end.
SPECIFICATION FairSpec
CONSTANTS
    Names <- MCNames
    Key <- MCKey
    Length <- MCLength
    KeyMod = 8
    SentinelKey = 1
    NodeCapacity = 5
    TableCapacity = 40
INVARIANTS
    TypeOK
    NamesInternedOnce
    EveryNameIsFound
    StringsDisjoint
PROPERTIES
    CallsReturn
    Implements
\* A failed assert ends the program.
CHECK_DEADLOCK FALSE
