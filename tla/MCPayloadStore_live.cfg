SPECIFICATION FairSpec
CONSTANTS
    None = None
    Asset = {a1}
    Draft = {d1}
    Payload = {p1, p2}
    Op = {o1, o2}
    Forget = {f1}
    Session = {s1}
    MaxReceipts = 1
    MaxEpoch = 3
PROPERTIES QueuesDrain
CHECK_DEADLOCK FALSE
