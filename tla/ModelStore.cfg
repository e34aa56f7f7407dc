\* Three versions and their twins, of which this engine supports the older
\* two; one fault.
CONSTANTS
    MaxVersion = 3
    Supported = {1, 2}
    TrashNames = {t1, t2}
    MaxFaults = 1
SPECIFICATION Spec
INVARIANTS
    InUseStays
PROPERTIES
    CleanupKeepsBest
    TrashGoes
