\* Lists of up to three steps on any tools, and of four on distinct ones.
CONSTANTS
    a = a
    b = b
    c = c
    d = d
    Tools = {a, b, c, d}
    Lists <- AllLists
SPECIFICATION Spec
INVARIANTS
    SortedIsOrder
    ErrorsAreTrue
CHECK_DEADLOCK FALSE
