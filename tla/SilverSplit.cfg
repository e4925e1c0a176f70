SPECIFICATION Spec
CONSTANTS
    Null = Null
    Space = Space
    Tab = Tab
    D = D
    DSpace = DSpace
    DTab = DTab
    U = U
    id1 = id1
    one = one
    zero = zero
    junk = junk
    early = early
    late = late
    year = year
    Empty = Empty
    DeleteCode = D
    Strip <- MCStrip
    Trim <- MCTrim
    Sources = {"order_events", "customer_updates"}
    RuleSetOf <- MCRuleSetOf
    RecordsOf <- MCRecordsOf
    EventTimeOf <- MCEventTimeOf
    WindowDays = 1
    MaxRows = 3
    MaxArrivals = 2
    MaxClock = 2
    MaxFailures = 1
INVARIANTS
    TypeOK
    Conserved
    EachRowOnce
    IdentityIsKey
    DeletesReachSilver
    VerdictsAgreeWhereReadAlike
PROPERTIES
    StaysQuarantined
