\* Safety of the labeler with faults enough to exhaust the retry budget.
CONSTANTS
    a = a
    b = b
    c = c
    Pods = {a, b, c}
    Managed = {a, b}
    Name <- MCName
    Domain <- MCDomain
    NoPrimary = NoPrimary
    Absent = Absent
    MaxRequeues = 1
    MaxFaults = 2
    MaxFailovers = 2
    MaxRecreate = 1
    MaxChurn = 0
SPECIFICATION Spec
INVARIANTS
    TypeOK
    LabelOnlyOnElected
\* The sidecars block in queue Get once every event is handled and the
\* bounded environment has stopped.
CHECK_DEADLOCK FALSE
