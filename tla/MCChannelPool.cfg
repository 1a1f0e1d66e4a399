\* One channel, three requests: a stale holder, the request that took its
\* channel over, and a third one let in by the stale holder's release.
\* Liveness is checked, so no symmetry.
CONSTANTS
    s1 = s1
    s2 = s2
    a1 = a1
    LeaseSecs = 1
    TxSecs = 1
    NoLease = NoLease
    NoOne = NoOne
    Activations <- OneActivation
    Channels <- OneChannel
    Servers <- TwoServers
SPECIFICATION Spec
INVARIANTS
    TypeOK
    ExclusiveWhileClean
    NoBadSeqWhileClean
PROPERTIES
    KeepsPromise
    LeaseSelfHeals
