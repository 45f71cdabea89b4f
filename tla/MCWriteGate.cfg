SPECIFICATION FairSpec
CONSTANTS
    c1 = c1
    c2 = c2
    m1 = m1
    m2 = m2
    o1 = o1
    o2 = o2
    Proc = {c1, c2, m1, m2, o1, o2}
    ClassOf <- MCClassOf
INVARIANTS TypeOK MutualExclusion WaitersAreCounted NoLostWakeup Alternation
PROPERTIES ControlsGoFirst EveryClassServed
