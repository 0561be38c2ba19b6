\* Secrets issued by cert-manager end up owned, through faults, edits and deletions.
CONSTANTS
    BadKind = BadKind
    NoCert = NoCert
    Absent = Absent
    MaxFaults = 1
    MaxEdits = 0
    MaxSecretDeletes = 1
SPECIFICATION Spec
PROPERTY
    SecretsEventuallyOwned
    TLSEventuallyReady
    EventuallyCertsMatchSpec
