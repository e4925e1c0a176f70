--------------------------- MODULE SalesPipeline ---------------------------
(***************************************************************************)
(* The sales branch of the production pipeline (spark/declarations.py):    *)
(*                                                                         *)
(*   order_events_raw -> order_events_valid                 \              *)
(*   products_raw     -> products_valid -> dim_product_hist -> fct_sales   *)
(*   stores_raw       -> stores_valid   -> dim_store_hist   -> dim_store   *)
(*      fct_sales, dim_store -> sales_per_region_daily                     *)
(*      fct_sales            -> sales_per_store_daily                      *)
(*                                                                         *)
(* An update refreshes the datasets layer by layer, as the graph orders    *)
(* them, and may stop after any layer.  Here it is one step: what happens  *)
(* while an update runs is the subject of CustomerPipeline.                *)
(***************************************************************************)
EXTENDS GoldCompiler

CONSTANTS
    OrderEventRows,   \* order events that may land, valid but for duplicates; the
    ProductRows,      \* same of product rows and store rows; their ingestion_order
    StoreRows,        \* is yet Null
    RegionOf,         \* the region in the content of a store row
    MaxLandings       \* bound: rows landed

OrderEventColumns ==
    {"ingestion_order", "event_id", "order_id", "event_type", "event_ts", "price",
     "currency", "product_id", "store_id"}

ProductColumns == {"ingestion_order", "product_id", "effective_date", "category"}

StoreColumns == {"ingestion_order", "store_id", "update_date", "attributes"}

ASSUME SalesAssumption ==
    /\ MaxLandings \in Nat
    /\ \A e \in OrderEventRows :
           /\ DOMAIN e = OrderEventColumns
           /\ e.event_ts \in Int /\ e.price \in Int \cup {Null}
    /\ \A p \in ProductRows :
           /\ DOMAIN p = ProductColumns
           /\ p.effective_date \in SortValue /\ p.category \in Payloads
    /\ Null \notin Version({p.product_id : p \in ProductRows}, Payloads)

ASSUME StoresAssumption ==
    /\ \A s \in StoreRows :
           /\ DOMAIN s = StoreColumns
           /\ s.update_date \in SortValue /\ s.attributes \in Payloads
    /\ Payloads \subseteq DOMAIN RegionOf

VARIABLES
    landed,                   \* the rows in the landing files
    order_events_raw,
    products_raw,
    stores_raw,
    order_events_valid,
    products_valid,
    stores_valid,
    dim_product_hist,
    dim_store_hist,
    fct_sales,
    dim_store,                \* its current rows: [store_id, region]
    sales_per_region_daily,
    sales_per_store_daily,
    outcome                   \* of the last update: "none", "completed", "failed"

bronze == <<order_events_raw, products_raw, stores_raw>>
silver == <<order_events_valid, products_valid, stores_valid>>
dims == <<dim_product_hist, dim_store_hist>>
gold == <<fct_sales, dim_store, sales_per_region_daily, sales_per_store_daily>>
vars == <<landed, bronze, silver, dims, gold, outcome>>

IngestionOrders == 1..MaxLandings

-----------------------------------------------------------------------------
(* What each dataset is computed from.                                     *)

\* A row's columns without its lineage.
Content(r) == [r EXCEPT !.ingestion_order = Null]

\* Of exact copies one row stays.  (Which one is a choice of each evaluation, see
\* SilverSplit; here it is the first.)
FirstCopy(r, rows) ==
    \A q \in rows : Content(q) = Content(r) => r.ingestion_order <= q.ingestion_order

\* Two different rows of one identity are both quarantined, by both sources.
OrderEventsValid(rows) ==
    {r \in rows :
        /\ FirstCopy(r, rows)
        /\ \A q \in rows : q.event_id = r.event_id => Content(q) = Content(r)}

\* A row without a date has no identity to share.
ProductsValid(rows) ==
    {r \in rows :
        /\ FirstCopy(r, rows)
        /\ \A q \in rows :
               /\ q.product_id = r.product_id
               /\ q.effective_date = r.effective_date /\ r.effective_date # Null
               => Content(q) = Content(r)}

StoresValid(rows) ==
    {r \in rows :
        /\ FirstCopy(r, rows)
        /\ \A q \in rows :
               /\ q.store_id = r.store_id
               /\ q.update_date = r.update_date /\ r.update_date # Null
               => Content(q) = Content(r)}

ProductEvent(p) ==
    [key |-> p.product_id, op |-> OpUpsert,
     sequence |-> <<p.effective_date, p.ingestion_order>>, payload |-> p.category]

\* dim_product_hist: the normalized snapshot rows, rebuilt.
DimProductHist(products) ==
    RebuildHistory({}, SparkApplied(SparkResolved({ProductEvent(p) : p \in products}), {}))

\* Fault: stores are ordered as their rows are read.
StoreEvent_AsRead(s) ==
    [key |-> s.store_id, op |-> OpUpsert,
     sequence |-> <<s.ingestion_order, s.ingestion_order>>, payload |-> s.attributes]

StoreEvent(s) ==
    [key |-> s.store_id, op |-> OpUpsert,
     sequence |-> <<s.update_date, s.ingestion_order>>, payload |-> s.attributes]

\* dim_store_hist, in the same way.
DimStoreHist(stores) ==
    RebuildHistory({}, SparkApplied(SparkResolved({StoreEvent(s) : s \in stores}), {}))

\* gold.dim_store, the columns that are joined.
DimStore(history) ==
    {[store_id |-> v.key, region |-> RegionOf[v.attributes]] : v \in CurrentRows(history)}

FctSales(events, history) == WithProductAsOf(RevenueLines(events), history)

-----------------------------------------------------------------------------
Init ==
    /\ landed = {}
    /\ order_events_raw = {} /\ products_raw = {} /\ stores_raw = {}
    /\ order_events_valid = {} /\ products_valid = {} /\ stores_valid = {}
    /\ dim_product_hist = {} /\ dim_store_hist = {}
    /\ fct_sales = {} /\ dim_store = {}
    /\ sales_per_region_daily = {} /\ sales_per_store_daily = {}
    /\ outcome = "none"

\* A row lands in a new file; its place in the order of all rows, which is by file
\* name, has nothing to do with when it lands.
Land(i, row) ==
    /\ \A r \in landed : r.ingestion_order # i
    /\ landed' = landed \cup {[row EXCEPT !.ingestion_order = i]}
    /\ UNCHANGED <<bronze, silver, dims, gold, outcome>>

Layers == 1..5

\* The landed rows of one source.
From(rows) == {r \in landed : Content(r) \in rows}

\* Layer n of an update is refreshed from the layers before it, or the update has
\* stopped before n and the layer stays as it was.
Update(last) ==
    /\ IF last >= 1
       THEN /\ order_events_raw' = From(OrderEventRows)
            /\ products_raw' = From(ProductRows)
            /\ stores_raw' = From(StoreRows)
       ELSE UNCHANGED bronze
    /\ IF last >= 2
       THEN /\ order_events_valid' = OrderEventsValid(order_events_raw')
            /\ products_valid' = ProductsValid(products_raw')
            /\ stores_valid' = StoresValid(stores_raw')
       ELSE UNCHANGED silver
    /\ IF last >= 3
       THEN /\ dim_product_hist' = DimProductHist(products_valid')
            /\ dim_store_hist' = DimStoreHist(stores_valid')
       ELSE UNCHANGED dims
    /\ IF last >= 4
       THEN /\ fct_sales' = FctSales(order_events_valid', dim_product_hist')
            /\ dim_store' = DimStore(dim_store_hist')
       ELSE UNCHANGED <<fct_sales, dim_store>>
    /\ IF last >= 5
       THEN /\ sales_per_region_daily' = DailyAggregate(SalesWithRegion(fct_sales', dim_store'))
            /\ sales_per_store_daily' = DailyAggregate(SalesWithStore(fct_sales'))
       ELSE UNCHANGED <<sales_per_region_daily, sales_per_store_daily>>
    /\ outcome' = IF last = 5 THEN "completed" ELSE "failed"
    /\ UNCHANGED landed

Next ==
    \/ \E i \in IngestionOrders, row \in OrderEventRows \cup ProductRows \cup StoreRows : Land(i, row)
    \/ \E last \in Layers : Update(last)

Spec == Init /\ [][Next]_vars

-----------------------------------------------------------------------------
Ingested(rows) == {[r EXCEPT !.ingestion_order = i] : i \in IngestionOrders, r \in rows}

TypeOK ==
    /\ landed \subseteq Ingested(OrderEventRows \cup ProductRows \cup StoreRows)
    /\ order_events_valid \subseteq Ingested(OrderEventRows)
    /\ products_valid \subseteq Ingested(ProductRows)
    /\ stores_valid \subseteq Ingested(StoreRows)
    /\ dim_product_hist \subseteq Version({p.product_id : p \in ProductRows}, Payloads)
    /\ dim_store_hist \subseteq Version({s.store_id : s \in StoreRows}, Payloads)
    /\ \A x \in fct_sales :
           /\ x.line.amount_base \in Int
           /\ x.product = Null \/ x.product.key = x.line.product_id
    /\ \A cell \in sales_per_region_daily \cup sales_per_store_daily :
           cell.group # Null /\ cell.total \in Int /\ cell.row_count \in Nat \ {0}
    /\ outcome \in {"none", "completed", "failed"}

\* An order is at most one row of fct_sales: the as-of join never multiplies revenue,
\* not on the day a version ends, nor when two versions start on one day.
OneRowPerOrder ==
    \A x, y \in fct_sales : x.line.order_id = y.line.order_id => x = y

\* An order is in fct_sales exactly when nothing cancels it and the last of its
\* payments says what to charge, in the base currency or one with a rate known by then
\* (ADR-0005: "Excluded orders are ABSENT with a reason").
OrdersAccountedFor ==
    outcome = "completed" =>
        \A o \in Orders(order_events_valid) :
            LET of(type) == {e \in order_events_valid : e.order_id = o /\ e.event_type = type}
                final == {e \in of(Paid) : \A f \in of(Paid) :
                             ~SeqLt(EventSequence(e), EventSequence(f))}
                priced(e) ==
                    /\ e.price # Null
                    /\ \/ e.currency \in {Null, BaseCurrency}
                       \/ \E r \in Rates : r.currency = e.currency /\ r.effective_date <= e.event_ts
            IN  (\E x \in fct_sales : x.line.order_id = o)
                    <=> of(Cancelled) = {} /\ \E e \in final : priced(e)

AsOfSale(x) ==
    LET known == {p \in products_valid :
                     /\ p.product_id = x.line.product_id
                     /\ p.effective_date # Null /\ p.effective_date <= x.line.sale_date}
        last  == {p \in known : \A q \in known :
                     ~SeqLt(ProductEvent(p).sequence, ProductEvent(q).sequence)}
    IN  IF known = {} THEN x.product = Null
        ELSE x.product # Null /\ \A p \in last : x.product.attributes = p.category

\* A sale shows the product as the last valid row of it said that was effective on or
\* before the day of the sale, and no product only if there is no such row
\* (gold_compiler.py: "product attributes valid AT the sale date").  Not of products
\* with a valid row without an effective_date: such a row is the first version, a dated
\* row of the same content collapses into it, and no day is on or after no date.
DatedProductAsOfSale ==
    outcome = "completed" =>
        \A x \in fct_sales :
            (\A p \in products_valid :
                 p.product_id = x.line.product_id => p.effective_date # Null) => AsOfSale(x)

\* The region of a store by the valid row of it that has the latest update_date,
\* whenever the row came; Unknown for a store without a row or without a region, and
\* for no store.
RegionNow(store_id) ==
    LET known == {s \in stores_valid : s.store_id = store_id}
        last  == {s \in known : \A q \in known :
                     ~SeqLt(<<s.update_date, s.ingestion_order>>,
                            <<q.update_date, q.ingestion_order>>)}
    IN  IF known = {} THEN Unknown ELSE Bucket(RegionOf[(CHOOSE s \in last : TRUE).attributes])

\* The cells of a table add up to the sales, group by group, in money and in rows.
Reports(table, sales, group) ==
    LET of(g) == {x \in sales : group[x] = g}
        cells(g) == {cell \in table : cell.group = g}
        groups == {group[x] : x \in sales}
    IN  /\ {cell.group : cell \in table} = groups
        /\ \A g \in groups :
               /\ MapThenSumSet(LAMBDA cell : cell.total, cells(g))
                    = MapThenSumSet(LAMBDA x : x.line.amount_base, of(g))
               /\ MapThenSumSet(LAMBDA cell : cell.row_count, cells(g))
                    = Cardinality(of(g))

\* Both daily tables add up to fct_sales, group by group, in money and in rows
\* (aggregates.py: "conservation", null groups "never dropped"): each sale is counted
\* once, in the region its store is in by the latest update and not by a row delivered
\* again late (mock_data/scenarios: "older update_date than already applied — must be
\* ignored").
TotalsReported ==
    outcome = "completed" =>
        /\ Reports(sales_per_region_daily, fct_sales,
                   [x \in fct_sales |-> RegionNow(x.line.store_id)])
        /\ Reports(sales_per_store_daily, fct_sales,
                   [x \in fct_sales |-> Bucket(x.line.store_id)])

CancellationsOf(o) ==
    {e \in order_events_valid : e.order_id = o /\ e.event_type = Cancelled}

\* Once silver has a cancellation of an order, no completed update brings the order
\* into revenue again (ADR-0005: "even events sequenced later never reinstate it").
CancelledStaysOut ==
    [][outcome' = "completed" =>
          \A x \in fct_sales' : CancellationsOf(x.line.order_id) = {}]_vars

\* The same of orders for whose cancellation no other event takes the event_id.
UncontestedCancelledStaysOut ==
    [][outcome' = "completed" =>
          \A x \in fct_sales' : \A e \in CancellationsOf(x.line.order_id) :
              \E r \in order_events_raw' :
                  r.event_id = e.event_id /\ Content(r) # Content(e)]_vars
=============================================================================
