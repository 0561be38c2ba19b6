\* Client and exporter certificates with spec.tls.certificate set.
CONSTANTS
    BadKind = BadKind
    NoCert = NoCert
    Absent = Absent
    MaxFaults = 0
    MaxEdits = 0
    MaxSecretDeletes = 0
SPECIFICATION Spec
INVARIANT
    ClientCertsHonourOverrides
