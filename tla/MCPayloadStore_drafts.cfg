SPECIFICATION Spec
CONSTANTS
    None = None
    Asset = {a1, a2}
    Draft = {d1}
    Payload = {p1, p2, p3}
    Op = {o1, o2}
    Forget = {f1}
    Session = {s1, s2}
    MaxReceipts = 1
    MaxEpoch = 3
SYMMETRY Identities
INVARIANTS DraftsIntact
CHECK_DEADLOCK FALSE
