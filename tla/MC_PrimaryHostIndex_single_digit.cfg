\* Groups of up to nine members, the most MySQL group replication allows
\* (ordinals 0 to 8).
CONSTANTS
    Names <- MCNames
    Domain <- MCDomain
    MaxOrdinal = 8
    NoPrimary = NoPrimary
SPECIFICATION Spec
INVARIANT
    IndexIsOrdinal
