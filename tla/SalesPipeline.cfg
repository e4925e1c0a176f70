SPECIFICATION Spec
CONSTANTS
    Null = Null
    Tombstone = Tombstone
    o1 = o1
    o2 = o2
    p1 = p1
    north = north
    nowhere = nowhere
    BaseCurrency = "USD"
    Rates <- MCRates
    Payloads <- MCPayloads
    SparkRank <- MCSparkRank
    OrderEventRows <- MCOrderEventRows
    ProductRows <- MCProductRows
    StoreRows <- MCStoreRows
    RegionOf <- MCRegionOf
    MaxLandings = 3
INVARIANTS
    TypeOK
    OneRowPerOrder
    OrdersAccountedFor
    DatedProductAsOfSale
    TotalsReported
PROPERTIES
    UncontestedCancelledStaysOut
