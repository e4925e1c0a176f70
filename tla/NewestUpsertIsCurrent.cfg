SPECIFICATION Spec
CONSTANTS
    Null = Null
    Tombstone = Tombstone
    k1 = k1
    k2 = k2
    Keys <- OneKey
    Sequences <- MCSequences
    Payloads <- MCPayloads
    SparkRank <- SameRank
    MaxEvents = 3
CHECK_DEADLOCK FALSE
INVARIANT
    NewestUpsertIsCurrent
