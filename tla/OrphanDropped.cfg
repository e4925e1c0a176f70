SPECIFICATION Spec
CONSTANTS
    Null = Null
    Tombstone = Tombstone
    Absent = Absent
    alice = alice
    s1 = s1
    s2 = s2
    u1 = u1
    u2 = u2
    Keys = {alice}
    Times <- MCTimes
    ChangeSeqs = {1}
    Attributes = {1, 2}
    Rejected = {2}
    DeleteAttributes = {0, 3}
    UpsertOps = {"U"}
    SnapshotPaths = {s1, s2}
    UpdatePaths = {u1, u2}
    Payloads <- MCPayloads
    SparkRank <- MCSparkRank
    Points <- MCPoints
    MaxLandings = 3
    MaxFailures = 1
INVARIANTS
    OrphansHeld
