\* Two clients under fair scheduling, two maintenance passes: the second client
\* may have to wait for maintenanceSerial_.
CONSTANTS
    Workers = {w1, w2}
    Clients = {c1, c2}
    Models = {m1}
    NoModel = NoModel
    NoClient = NoClient
    MaxRequests = 2
    MaxSegments = 1
    MaxSources = 1
    MaxEpoch = 2
SPECIFICATION FairSpec
INVARIANTS
    FlushedWhenAcked
    OneBatchInFlight
PROPERTIES
    MaintenanceReturns
    ShutdownJoins
    AnswersEveryRequest
CHECK_DEADLOCK FALSE
