SPECIFICATION Spec
CONSTANTS
    Ids = {i1, i2, i3}
    Cidrs = {"net", "half", "other", "one"}
    Len <- MCLen
    Cover <- MCCover
    Vrfs = {v1}
    Global = Global
    None = None
    Workers = {w1, w2}
    Plans <- MCPlans
SYMMETRY Symmetry
INVARIANTS
    Nested
    AllVisible
    Acyclic
    ParentsContain
CHECK_DEADLOCK FALSE
