\* Formats of up to three items with all their arguments; the longest texts do
\* not fit the buffer.
SPECIFICATION Spec
CONSTANTS
    Items <- MCItems
    MaxItems = 3
    Numbers <- MCNumbers
    Strings <- MCStrings
    Pointers <- MCPointers
    BYTES = 1
    SIZE = 9
INVARIANTS
    TypeOK
    InsideBuffer
    PassesAgree
    PrintsReference
\* one call is followed to its end
CHECK_DEADLOCK FALSE
