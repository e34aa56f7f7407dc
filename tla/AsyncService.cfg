\* Two workers and two clients that use every call: two models, two requests
\* of up to two sentences, so that two workers can share a request and a
\* pivot can be in progress while another client releases a model.
CONSTANTS
    Workers = {w1, w2}
    Clients = {c1, c2}
    Models = {m1, m2}
    NoModel = NoModel
    NoClient = NoClient
    MaxRequests = 2
    MaxSegments = 2
    MaxSources = 2
    MaxEpoch = 1
SPECIFICATION Spec
SYMMETRY Symmetry
INVARIANTS
    NothingStranded
    AnsweredWhole
    WorkersStayOn
    ShutdownDrains
    NeverStuck
    ReleaseDestroys
CHECK_DEADLOCK FALSE
