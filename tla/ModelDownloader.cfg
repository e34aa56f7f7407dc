\* Two assets of two chunks, one retry, and four faults of any kind.
CONSTANTS
    Assets = 2
    Size = 2
    MaxRetries = 1
    MaxFaults = 4
SPECIFICATION Spec
INVARIANTS
    DigestCoversFile
    RequestsBounded
    OneWholeCopy
PROPERTIES
    ImplementsRoot
    FailureKeepsOrRemoves
    EventuallyPublished
