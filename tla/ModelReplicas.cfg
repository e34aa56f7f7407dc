\* Two workers, two models that follow or overlap each other, and one address fewer than
\* the replicas of both, so that addresses are used again by the same and by the other worker.
CONSTANTS
    Workers = {w1, w2}
    Clients = {c1}
    Models = {m1, m2}
    Addresses = {a1, a2, a3}
    None = None
SYMMETRY Symmetry
SPECIFICATION Spec
INVARIANTS
    PackedCurrent
    LoadsFromMemory
    ImageReleased
    WeightsStay
CHECK_DEADLOCK FALSE
