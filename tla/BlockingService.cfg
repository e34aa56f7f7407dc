\* Two models, calls of up to two texts, three calls and requests: two calls that fail
\* and one that meets what they left, or a pivot after a failed call.
CONSTANTS
    Models = {m1, m2}
    MaxTexts = 2
    MaxSegments = 2
    MaxCalls = 3
    MaxRequests = 3
SPECIFICATION Spec
INVARIANTS
    ReturnsComplete
    LateTakesTwo
    ReleasedIsGone
PROPERTY CallEnds
CHECK_DEADLOCK FALSE
