SPECIFICATION Spec
CONSTANTS
    a1 = a1  a2 = a2  k1 = k1  k2 = k2
    i1 = i1  i2 = i2  i3 = i3  i4 = i4
    d1 = d1  d2 = d2  d3 = d3
    p1 = p1  p2 = p2  p3 = p3  p4 = p4  p5 = p5
    None = None
    RuleOf <- MCRuleOf
    Events = {a1, a2}
    Keys = {k1, k2}
    KeysOf <- MCKeysOf
    Ages = {0, 3}
    Incidents = {i1, i2, i3}
    Deliveries = {d1, d2}
    Requests = {p1, p2, p3}
    MaxFaults = 2
SYMMETRY Symmetry
INVARIANTS
    TypeOK OneActivePerKey IncidentsHaveEvidence TrueMeansCorrelated SuccessorAfterResolution
    SomebodyProceeds
PROPERTIES
    ImplementsCorrelated
CHECK_DEADLOCK FALSE
