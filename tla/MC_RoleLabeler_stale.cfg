CONSTANTS
    a = a
    b = b
    c = c
    Pods = {a, b}
    Managed = {a, b}
    Name <- MCName
    Domain <- MCDomain
    NoPrimary = NoPrimary
    Absent = Absent
    MaxRequeues = 1
    MaxFaults = 0
    MaxFailovers = 1
    MaxRecreate = 0
    MaxChurn = 1
SPECIFICATION Spec
INVARIANT
    DecisionReflected
\* The sidecars block in queue Get once every event is handled and the
\* bounded environment has stopped.
CHECK_DEADLOCK FALSE
