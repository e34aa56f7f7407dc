\* Two calls on one engine thread, two models that share a directory, and one release
\* that reports false.  A second client would start where the first one did (TornDownClean).
CONSTANTS
    m1 = m1
    m2 = m2
    d1 = d1
    d2 = d2
    Calls = {c1, c2}
    Models = {m1, m2}
    Directories = {d1, d2}
    DirectoriesOf <- SharedDirectory
    MaxClients = 1
    MaxUnconfirmed = 1
SPECIFICATION Spec
INVARIANTS
    LiveFilesOnDisk
    ReservationsExact
    HandlesValid
    SweepBooked
    NeverStuck
    TornDownClean
PROPERTIES
    ImplementsClient
    IdleModelsUnloaded
CHECK_DEADLOCK FALSE
