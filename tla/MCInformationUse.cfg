CONSTANTS
    s1 = s1  s2 = s2
    o1 = o1  o2 = o2
    None = None
    Sources = {s1, s2}
    Slots = {o1, o2}
    MaxRev = 2
    MaxCalls = 3
    MaxReads = 2
    Batch = 2
    Seeds = 1
    MaxWork = 5
SPECIFICATION Spec
SYMMETRY Symmetry
INVARIANTS TypeOK EvidenceConfirmed NotesFollowEvidence LostEvidenceIsNamed
    ToolsMatchBudget ReferencesKeepMeaning
PROPERTIES SeedFirst
CHECK_DEADLOCK FALSE
