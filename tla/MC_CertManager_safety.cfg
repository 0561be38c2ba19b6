\* Safety of manageTLS passes against edits, deletions and faults.
CONSTANTS
    BadKind = BadKind
    NoCert = NoCert
    Absent = Absent
    MaxFaults = 2
    MaxEdits = 1
    MaxSecretDeletes = 1
SPECIFICATION Spec
INVARIANT
    CertsReferenceExistingIssuer
