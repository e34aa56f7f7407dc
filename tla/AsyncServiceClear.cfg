\* The same service when clear() is called.
CONSTANTS
    Workers = {w1, w2}
    Clients = {c1, c2}
    Models = {m1, m2}
    NoModel = NoModel
    NoClient = NoClient
    MaxRequests = 2
    MaxSegments = 2
    MaxSources = 2
    MaxEpoch = 1
SPECIFICATION SpecWithClear
SYMMETRY Symmetry
INVARIANT WorkersStayOn
CHECK_DEADLOCK FALSE
