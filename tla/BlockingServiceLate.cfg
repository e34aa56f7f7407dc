\* A call of two texts fails, and the next call meets what it left.
CONSTANTS
    Models = {m1, m2}
    MaxTexts = 2
    MaxSegments = 2
    MaxCalls = 3
    MaxRequests = 3
SPECIFICATION Spec
SYMMETRY Symmetry
INVARIANT NoneLate
CHECK_DEADLOCK FALSE
