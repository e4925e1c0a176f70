SPECIFICATION Spec
CONSTANTS
    Null = Null
    s1 = s1
    s2 = s2
    c1 = c1
    o1 = o1
    o2 = o2
    o3 = o3
    DayLength = 2
    ActivityRows <- MCActivityRows
    OrderRows <- MCOrderRows
    MaxLandings = 4
INVARIANTS
    TypeOK
    SessionsAsDocumented
    WholeSessionsAgree
    DailyCountsSessions
PROPERTIES
    StageNeverFalls
    ConversionLostToCartAdd
