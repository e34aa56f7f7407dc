\* A search while a version is downloaded and the one before it cleaned up;
\* nothing fails.
CONSTANTS
    MaxVersion = 2
    Supported = {1, 2}
    TrashNames = {t1}
    MaxFaults = 0
SPECIFICATION Spec
INVARIANT NoneMeansNone
