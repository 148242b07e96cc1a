SPECIFICATION Spec
CONSTANTS
    MaxLength = 5
    Sizes = {0, 1, 2, 3, 4, 5, 6, 7, 8, 9, 10, 12, 14, 15, 16, 17, 18, 19, 20, 21}
INVARIANTS
    WithinBuffer
    BareOnlyAtEnd
    ReadAsTyped
    AskedAsTyped
    ShownAsTyped
\* The function returns.
CHECK_DEADLOCK FALSE
