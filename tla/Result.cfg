SPECIFICATION Spec
CONSTANTS
    o1 = o1
    o2 = o2
    o3 = o3
    v1 = v1
    v2 = v2
    here = here
    there = there
    Objects <- ObjectSet
    Values <- ValueSet
    Locations <- LocationSet
    MaxHops = 3
SYMMETRY Symmetry
INVARIANTS
    OneMemberLives
    HoldsWhatWasPut
CHECK_DEADLOCK FALSE
