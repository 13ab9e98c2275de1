\* Ints of three bits, so that the sum of two weights may wrap.
SPECIFICATION Spec
CONSTANTS
    MaxInt = 3
    MaxLength = 3
    MaxWhole = 4
    Lists <- MCLists
CHECK_DEADLOCK FALSE
INVARIANTS
    NeverPastTheEnd
    PickedCounts
