\* A Secret deleted between secretExists and CreateOrPatchSecret.
CONSTANTS
    BadKind = BadKind
    NoCert = NoCert
    Absent = Absent
    MaxFaults = 0
    MaxEdits = 0
    MaxSecretDeletes = 1
SPECIFICATION Spec
PROPERTY
    OperatorNeverCreatesSecret
