\* Does a string always end inside the table?
SPECIFICATION Spec
CONSTANTS
    Names <- MCNames
    Key <- MCKey
    Length <- MCLength
    KeyMod = 8
    SentinelKey = 1
    NodeCapacity = 5
    TableCapacity = 22
INVARIANT
    StringsInTable
\* A failed assert ends the program.
CHECK_DEADLOCK FALSE
