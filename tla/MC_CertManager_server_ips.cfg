\* The server certificate's IP SANs when spec.tls.certificate is set.
CONSTANTS
    BadKind = BadKind
    NoCert = NoCert
    Absent = Absent
    MaxFaults = 0
    MaxEdits = 0
    MaxSecretDeletes = 0
SPECIFICATION Spec
INVARIANT
    ServerCertIPs
