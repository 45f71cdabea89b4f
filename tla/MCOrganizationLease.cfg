CONSTANTS
    Assets = {a1, a2}
    Attempts = {r1, r2}
    Calls = {c1, c2}
    Waiters = {w1}
    Wants <- AnyAsset
    Worked = {a1}
    MaxEvents = 1
    MaxToken = 2
    MaxVersion = 3
    MaxBusy = 2
    None = None
SPECIFICATION Spec
SYMMETRY Interchangeable
INVARIANTS TypeOK LeaseLimits WorkIsQueued NoLostJob
PROPERTIES Implements NoLostUpdate
