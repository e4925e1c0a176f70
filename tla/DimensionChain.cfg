SPECIFICATION Spec
CONSTANTS
    Null = Null
    Tombstone = Tombstone
    k1 = k1
    k2 = k2
    Keys <- MCKeys
    Sequences <- MCSequences
    Payloads <- MCPayloads
    SparkRank <- ReversedRank
    MaxEvents = 3
SYMMETRY KeySymmetry
CHECK_DEADLOCK FALSE
INVARIANTS
    TypeOK
    HistoryHealthy
    NoRedundantVersions
    StreamConserved
    InOrderFeedIsSplitInvariant
    UncontestedReplayIsNoOp
    UncontestedVerdictsAgree
