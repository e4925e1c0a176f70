------------------------ MODULE SalesPipelineProofs ------------------------
(***************************************************************************)
(* What the sales branch promises, for any rows that land and any updates  *)
(* that stop half way.  No order is counted twice, since the as-of join    *)
(* finds at most one version of a product on any day; the orders that      *)
(* count are those whose last payment says what to charge; a sale shows    *)
(* its product as of its day and its store as of now; the daily tables add *)
(* up to the sales; and a cancellation keeps its order out for good.       *)
(***************************************************************************)
EXTENDS SalesPipeline, Scd2Proofs

-----------------------------------------------------------------------------
(* The join.                                                               *)

\* Of two states of a key, the version of the earlier one is over on every day on
\* which that of the later one holds: it ends where the next one starts, and that is
\* on or before the start of the later.
LEMMA EarlierIsOver ==
    ASSUME NEW kept, IsFiniteSet(kept), Sequenced(kept),
           NEW s \in kept, NEW t \in kept, Precedes(s, t),
           NEW day \in Int, ValidOn(VersionOf(t, kept), day)
    PROVE  ~ValidOn(VersionOf(s, kept), day)
<1>1. t.sequence \in Later(s, kept)
  BY DEF Later
<1>2. PICK u \in kept :
          /\ VersionOf(s, kept).valid_to = u.sequence
          /\ t.sequence = u.sequence \/ SeqLt(u.sequence, t.sequence)
  BY <1>1, ValidToIsSuccessor
<1>3. u.sequence \in Sequence /\ t.sequence \in Sequence
  BY DEF Sequenced
<1>4. ~IsOpen(VersionOf(s, kept))
  BY <1>2, <1>3, NoSequenceAssumption DEF IsOpen
<1>5. t.sequence[1] # Null /\ t.sequence[1] <= day
  BY DEF ValidOn, VersionOf
<1>6. /\ u.sequence[1] \in SortValue /\ t.sequence[1] \in SortValue
  BY <1>3 DEF Sequence
<1>7. u.sequence[1] = Null \/ u.sequence[1] <= t.sequence[1]
  BY <1>2, <1>5, <1>6, NullAssumption DEF SeqLt, ValueLt, SortValue
<1> QED
  BY <1>2, <1>4, <1>5, <1>6, <1>7, NullAssumption DEF ValidOn, SortValue

\* A sale meets at most one version of its product, the day on which one version ends
\* and the next one starts and versions of a single day included.
THEOREM AtMostOneMatch ==
    ASSUME NEW kept, IsFiniteSet(kept), Sequenced(kept), OnePerSlot(kept),
           NEW line, line.sale_date \in Int,
           NEW v \in Matches(line, Materialize(kept)),
           NEW w \in Matches(line, Materialize(kept))
    PROVE  v = w
<1>1. PICK s \in kept : v = VersionOf(s, kept)
  BY DEF Matches, Materialize
<1>2. PICK t \in kept : w = VersionOf(t, kept)
  BY DEF Matches, Materialize
<1>3. s.key = t.key
  BY <1>1, <1>2 DEF Matches, VersionOf
<1>4. ValidOn(v, line.sale_date) /\ ValidOn(w, line.sale_date)
  BY DEF Matches
<1>5. ~Precedes(s, t) /\ ~Precedes(t, s)
  BY <1>1, <1>2, <1>4, EarlierIsOver
<1> QED
  BY <1>1, <1>2, <1>3, <1>5, PrecedesTotal

-----------------------------------------------------------------------------
(* The rows.                                                               *)

\* What the landed rows keep: a place of its own for each.
Placed ==
    /\ IsFiniteSet(landed)
    /\ landed \subseteq Ingested(OrderEventRows \cup ProductRows \cup StoreRows)
    /\ \A r, q \in landed : r.ingestion_order = q.ingestion_order => r = q

\* A landed row is one of the rows that may land but for its place.
LEMMA LandedRow ==
    ASSUME Placed, NEW r \in landed
    PROVE  /\ r.ingestion_order \in IngestionOrders
           /\ r = [Content(r) EXCEPT !.ingestion_order = r.ingestion_order]
           /\ DOMAIN Content(r) = DOMAIN r
           /\ \A c \in DOMAIN r : c # "ingestion_order" => Content(r)[c] = r[c]
<1>1. PICK i \in IngestionOrders, row \in OrderEventRows \cup ProductRows \cup StoreRows :
          r = [row EXCEPT !.ingestion_order = i]
  BY DEF Placed, Ingested
<1>2. "ingestion_order" \in DOMAIN row
  BY SalesAssumption, StoresAssumption DEF OrderEventColumns, ProductColumns, StoreColumns
<1>3. /\ DOMAIN r = DOMAIN row /\ r.ingestion_order = i
      /\ r = [c \in DOMAIN r |-> r[c]]
  BY <1>1, <1>2
<1> QED
  BY <1>1, <1>2, <1>3 DEF Content

\* Landed rows of one source are ingested rows of it.
LEMMA FromIngested ==
    ASSUME Placed, NEW rows, NEW r \in From(rows)
    PROVE  r \in Ingested(rows) /\ r \in landed
BY LandedRow DEF From, Ingested

LEMMA OrderEventTyped ==
    ASSUME Placed, NEW e \in From(OrderEventRows)
    PROVE  e.event_ts \in Int /\ e.price \in Int \cup {Null}
<1>1. e \in landed /\ Content(e) \in OrderEventRows
  BY DEF From
<1>2. DOMAIN e = OrderEventColumns
  BY <1>1, LandedRow, SalesAssumption
<1>3. Content(e).event_ts = e.event_ts /\ Content(e).price = e.price
  BY <1>1, <1>2, LandedRow DEF OrderEventColumns
<1> QED
  BY <1>1, <1>3, SalesAssumption

LEMMA ProductTyped ==
    ASSUME Placed, NEW p \in From(ProductRows)
    PROVE  /\ p.effective_date \in SortValue /\ p.category \in Payloads
           /\ p.product_id \in {q.product_id : q \in ProductRows}
<1>1. p \in landed /\ Content(p) \in ProductRows
  BY DEF From
<1>2. DOMAIN p = ProductColumns
  BY <1>1, LandedRow, SalesAssumption
<1>3. /\ Content(p).effective_date = p.effective_date /\ Content(p).category = p.category
      /\ Content(p).product_id = p.product_id
  BY <1>1, <1>2, LandedRow DEF ProductColumns
<1> QED
  BY <1>1, <1>3, SalesAssumption

LEMMA StoreTyped ==
    ASSUME Placed, NEW s \in From(StoreRows)
    PROVE  /\ s.update_date \in SortValue /\ s.attributes \in Payloads
           /\ s.store_id \in {q.store_id : q \in StoreRows}
<1>1. s \in landed /\ Content(s) \in StoreRows
  BY DEF From
<1>2. DOMAIN s = StoreColumns
  BY <1>1, LandedRow, StoresAssumption
<1>3. /\ Content(s).update_date = s.update_date /\ Content(s).attributes = s.attributes
      /\ Content(s).store_id = s.store_id
  BY <1>1, <1>2, LandedRow DEF StoreColumns
<1> QED
  BY <1>1, <1>3, StoresAssumption

-----------------------------------------------------------------------------
(* Revenue.                                                                *)

\* A finite set has a last element by any sequence that tells its elements apart.
LEMMA LastExists ==
    ASSUME NEW S, IsFiniteSet(S), S # {}, NEW f, DOMAIN f = S, f = [x \in S |-> f[x]],
           \A x \in S : f[x] \in Sequence
    PROVE  \E m \in S : \A x \in S : f[x] = f[m] \/ SeqLt(f[x], f[m])
<1> DEFINE T == {f[x] : x \in S}
<1>1. IsFiniteSet(T) /\ T \in SUBSET Sequence /\ T # {}
  BY ImageFinite
<1> HIDE DEF T
<1>2. PICK t \in T : \A u \in T : u = t \/ SeqLt(u, t)
  BY <1>1, GreatestExists
<1>3. PICK m \in S : t = f[m]
  BY <1>2 DEF T
<1>4. \A x \in S : f[x] \in T
  BY DEF T
<1> QED
  BY <1>2, <1>3, <1>4

\* The payment that carries the revenue of an order is the last one, if there is one.
LEMMA PaidEventIsLast ==
    ASSUME Placed, NEW events, events \subseteq From(OrderEventRows),
           NEW o, PaidEvents(events, o) # {}
    PROVE  /\ PaidEvent(events, o) \in PaidEvents(events, o)
           /\ \A f \in PaidEvents(events, o) :
                  f = PaidEvent(events, o)
                  \/ SeqLt(EventSequence(f), EventSequence(PaidEvent(events, o)))
<1> DEFINE P == PaidEvents(events, o)
           f == [e \in P |-> EventSequence(e)]
<1>1. P \subseteq events /\ events \subseteq landed
  BY DEF PaidEvents, From
<1>2. IsFiniteSet(P)
  BY <1>1, FS_Subset DEF Placed
<1>3. \A e \in P : EventSequence(e) \in Sequence
  BY <1>1, OrderEventTyped, LandedRow DEF EventSequence, Sequence, SortValue, IngestionOrders
<1>4. DOMAIN f = P /\ f = [e \in P |-> f[e]] /\ \A e \in P : f[e] = EventSequence(e)
  OBVIOUS
<1> HIDE DEF P, f
<1>5. PICK e \in P : \A x \in P : f[x] = f[e] \/ SeqLt(f[x], f[e])
  BY <1>2, <1>3, <1>4, LastExists DEF P
<1>6. \A x \in P : x = e \/ SeqLt(EventSequence(x), EventSequence(e))
  <2> TAKE x \in P
  <2>1. EventSequence(x) = EventSequence(e) => x = e
    BY <1>1 DEF Placed, EventSequence
  <2> QED
    BY <1>4, <1>5, <2>1
<1> QED
  BY <1>6 DEF PaidEvent, P

\* There is a rate to look up when one applies.
LEMMA LookupApplies ==
    ASSUME NEW currency, NEW day, Applicable(currency, day) # {}
    PROVE  Lookup(currency, day) \in Applicable(currency, day)
<1> DEFINE A == Applicable(currency, day)
           f == [r \in A |-> <<r.effective_date, Null>>]
<1>1. IsFiniteSet(A) /\ A \subseteq Rates
  BY RatesAssumption, FS_Subset DEF Applicable
<1>2. \A r \in A : r.effective_date \in Int
  BY <1>1, RatesAssumption
<1>3. DOMAIN f = A /\ f = [r \in A |-> f[r]] /\ \A r \in A : f[r] = <<r.effective_date, Null>>
  OBVIOUS
<1>4. \A r \in A : f[r] \in Sequence
  BY <1>2 DEF Sequence, SortValue
<1> HIDE DEF f, A
<1>5. PICK m \in A : \A r \in A : f[r] = f[m] \/ SeqLt(f[r], f[m])
  BY <1>1, <1>3, <1>4, LastExists DEF A
<1>6. \A r \in A : r.effective_date <= m.effective_date
  BY <1>2, <1>3, <1>5, NullAssumption DEF SeqLt, ValueLt
<1> QED
  BY <1>6 DEF Lookup, A

LEMMA DivisionInt == \A a \in Nat, b \in Nat \ {0} : a \div b \in Nat
BY SMT

\* An amount that has a rate is converted to whole cents.
LEMMA ConvertInt ==
    ASSUME NEW cents \in Int, NEW currency, NEW day, HasRate(currency, day)
    PROVE  Convert(cents, currency, day) \in Int
<1>1. CASE currency = BaseCurrency
  BY <1>1 DEF Convert
<1>2. CASE currency # BaseCurrency
  <2> DEFINE d == Lookup(currency, day).per_base
  <2>1. d \in Nat \ {0}
    BY <1>2, LookupApplies, RatesAssumption DEF HasRate, Applicable
  <2> HIDE DEF d
  <2>2. CASE cents < 0
    <3>1. d - 2 * cents \in Nat /\ 2 * d \in Nat \ {0}
      BY <2>1, <2>2
    <3>2. (d - 2 * cents) \div (2 * d) \in Nat
      BY <3>1, DivisionInt
    <3>3. HalfUp(cents, d) = -((d - 2 * cents) \div (2 * d))
      BY <2>2 DEF HalfUp
    <3>4. \A n \in Nat : -n \in Int
      OBVIOUS
    <3>5. HalfUp(cents, d) \in Int
      BY <3>2, <3>3, <3>4
    <3> QED
      BY <1>2, <3>5 DEF Convert, d
  <2>3. CASE ~(cents < 0)
    <3>1. 2 * cents + d \in Nat /\ 2 * d \in Nat \ {0}
      BY <2>1, <2>3
    <3>2. (2 * cents + d) \div (2 * d) \in Nat
      BY <3>1, DivisionInt
    <3>3. HalfUp(cents, d) = (2 * cents + d) \div (2 * d)
      BY <2>3 DEF HalfUp
    <3>4. HalfUp(cents, d) \in Int
      BY <3>2, <3>3
    <3> QED
      BY <1>2, <3>4 DEF Convert, d
  <2> QED
    BY <2>2, <2>3
<1> QED
  BY <1>1, <1>2

\* A line has a day and an amount.
LEMMA LineTyped ==
    ASSUME Placed, NEW events, events \subseteq From(OrderEventRows),
           NEW o \in RevenueOrders(events)
    PROVE  LineOf(events, o).sale_date \in Int /\ LineOf(events, o).amount_base \in Int
<1> DEFINE paid == PaidEvent(events, o)
<1>1. /\ PaidEvents(events, o) # {} /\ paid.price # Null
      /\ HasRate(CurrencyOf(paid), paid.event_ts)
  BY DEF RevenueOrders
<1>2. paid \in From(OrderEventRows)
  BY <1>1, PaidEventIsLast DEF PaidEvents
<1>3. paid.event_ts \in Int /\ paid.price \in Int
  BY <1>1, <1>2, OrderEventTyped
<1>4. /\ LineOf(events, o).sale_date = paid.event_ts
      /\ LineOf(events, o).amount_base = Convert(paid.price, CurrencyOf(paid), paid.event_ts)
  BY DEF LineOf
<1> QED
  BY <1>1, <1>3, <1>4, ConvertInt

\* A row of fct_sales is a line and what the join found for it.
LEMMA SaleHasLine ==
    ASSUME NEW events, NEW history, NEW x \in FctSales(events, history)
    PROVE  /\ \E o \in RevenueOrders(events) : x.line = LineOf(events, o)
           /\ \/ x = [line |-> x.line, product |-> Null] /\ Matches(x.line, history) = {}
              \/ x = [line |-> x.line, product |-> x.product] /\ x.product \in Matches(x.line, history)
<1>1. PICK l \in RevenueLines(events) :
          \/ x = [line |-> l, product |-> Null] /\ Matches(l, history) = {}
          \/ \E v \in Matches(l, history) : x = [line |-> l, product |-> v]
  BY DEF FctSales, WithProductAsOf
<1>2. x.line = l
  BY <1>1
<1> QED
  BY <1>1, <1>2 DEF RevenueLines

\* Every line is a row of fct_sales.
LEMMA LineHasSale ==
    ASSUME NEW events, NEW history, NEW o \in RevenueOrders(events)
    PROVE  \E x \in FctSales(events, history) : x.line = LineOf(events, o)
<1> DEFINE l == LineOf(events, o)
<1>1. l \in RevenueLines(events)
  BY DEF RevenueLines
<1> HIDE DEF l
<1>2. CASE Matches(l, history) = {}
  <2>1. [line |-> l, product |-> Null] \in FctSales(events, history)
    BY <1>1, <1>2 DEF FctSales, WithProductAsOf
  <2> QED
    BY <2>1 DEF l
<1>3. CASE Matches(l, history) # {}
  <2>1. PICK v \in Matches(l, history) : TRUE
    BY <1>3
  <2>2. [line |-> l, product |-> v] \in FctSales(events, history)
    <3> DEFINE R(line) ==
                 IF Matches(line, history) = {} THEN {[line |-> line, product |-> Null]}
                 ELSE {[line |-> line, product |-> w] : w \in Matches(line, history)}
    <3>1. [line |-> l, product |-> v] \in R(l)
      BY <1>3, <2>1
    <3>2. FctSales(events, history) = UNION {R(line) : line \in RevenueLines(events)}
      BY DEF FctSales, WithProductAsOf
    <3> HIDE DEF R
    <3> QED
      BY <1>1, <3>1, <3>2
  <2> QED
    BY <2>2 DEF l
<1> QED
  BY <1>2, <1>3

-----------------------------------------------------------------------------
(* The dimensions.                                                         *)

\* What a history is rebuilt from when it is built of upserts in slots of their own.
StatesOf(events) == {EventState(e) : e \in events}

\* No event of such a feed loses a tie, waits for its key or shares its slot.
LEMMA SnapshotHistory ==
    ASSUME NEW keys, NEW events \in SUBSET Event(keys, Payloads), IsFiniteSet(events),
           OnePerSlot(events), \A e \in events : e.op = OpUpsert
    PROVE  /\ StatesOf(events) \in SUBSET State(keys, Payloads)
           /\ IsFiniteSet(StatesOf(events)) /\ OnePerSlot(StatesOf(events))
           /\ Sequenced(StatesOf(events))
           /\ RebuildHistory({}, SparkApplied(SparkResolved(events), {}))
                = Materialize(Collapse(StatesOf(events)))
<1>1. SparkResolved(events) = events
  BY UncontestedResolved
<1>2. SparkApplied(events, {}) = events
  BY DEF SparkApplied, SparkOrphans, OpUpsert, OpDelete
<1>3. /\ StatesOf(events) \in SUBSET State(keys, Payloads)
      /\ IsFiniteSet(StatesOf(events)) /\ OnePerSlot(StatesOf(events))
  BY EventStates, StatesFinite DEF StatesOf
<1>4. StatesFromHistory({}) \cup {EventState(e) : e \in events} = StatesOf(events)
  BY DEF StatesFromHistory, StatesOf
<1>5. SlotWinners(StatesOf(events)) = StatesOf(events)
  BY <1>3, PlainWinners
<1>6. Sequenced(StatesOf(events))
  BY <1>3 DEF Sequenced, State
<1> QED
  BY <1>1, <1>2, <1>3, <1>4, <1>5, <1>6 DEF RebuildHistory

ProductKeys == {p.product_id : p \in ProductRows}

StoreKeys == {s.store_id : s \in StoreRows}

\* The rows of the products are upserts, and each has a slot of its own: its place.
LEMMA ProductEvents ==
    ASSUME Placed, NEW products, products \subseteq From(ProductRows),
           NEW events, events = {ProductEvent(p) : p \in products}
    PROVE  /\ events \in SUBSET Event(ProductKeys, Payloads) /\ IsFiniteSet(events)
           /\ OnePerSlot(events) /\ \A e \in events : e.op = OpUpsert
<1>1. products \subseteq landed
  BY DEF From
<1>2. IsFiniteSet(products)
  BY <1>1, FS_Subset DEF Placed
<1>3. \A p \in products : ProductEvent(p) \in Event(ProductKeys, Payloads)
  <2> TAKE p \in products
  <2>1. p.ingestion_order \in SortValue
    BY <1>1, LandedRow DEF IngestionOrders, SortValue
  <2> QED
    BY <2>1, ProductTyped DEF ProductEvent, Event, Sequence, OpUpsert, ProductKeys
<1> DEFINE f == [p \in products |-> ProductEvent(p)]
<1>4. DOMAIN f = products /\ f = [p \in products |-> f[p]] /\ events = {f[p] : p \in products}
  OBVIOUS
<1> HIDE DEF f
<1>5. IsFiniteSet(events)
  <2>1. IsFiniteSet({f[p] : p \in products})
    BY ONLY <1>2, <1>4, ImageFinite
  <2> QED
    BY ONLY <2>1, <1>4
<1>6. \A p, q \in products : SameSlot(ProductEvent(p), ProductEvent(q)) => p = q
  BY <1>1 DEF SameSlot, ProductEvent, Placed
<1> QED
  BY <1>3, <1>5, <1>6 DEF OnePerSlot, ProductEvent

LEMMA StoreEvents ==
    ASSUME Placed, NEW stores, stores \subseteq From(StoreRows),
           NEW events, events = {StoreEvent(s) : s \in stores}
    PROVE  /\ events \in SUBSET Event(StoreKeys, Payloads) /\ IsFiniteSet(events)
           /\ OnePerSlot(events) /\ \A e \in events : e.op = OpUpsert
<1>1. stores \subseteq landed
  BY DEF From
<1>2. IsFiniteSet(stores)
  BY <1>1, FS_Subset DEF Placed
<1>3. \A s \in stores : StoreEvent(s) \in Event(StoreKeys, Payloads)
  <2> TAKE s \in stores
  <2>1. s.ingestion_order \in SortValue
    BY <1>1, LandedRow DEF IngestionOrders, SortValue
  <2> QED
    BY <2>1, StoreTyped DEF StoreEvent, Event, Sequence, OpUpsert, StoreKeys
<1> DEFINE f == [s \in stores |-> StoreEvent(s)]
<1>4. DOMAIN f = stores /\ f = [s \in stores |-> f[s]] /\ events = {f[s] : s \in stores}
  OBVIOUS
<1> HIDE DEF f
<1>5. IsFiniteSet(events)
  <2>1. IsFiniteSet({f[s] : s \in stores})
    BY ONLY <1>2, <1>4, ImageFinite
  <2> QED
    BY ONLY <2>1, <1>4
<1>6. \A s, q \in stores : SameSlot(StoreEvent(s), StoreEvent(q)) => s = q
  BY <1>1 DEF SameSlot, StoreEvent, Placed
<1> QED
  BY <1>3, <1>5, <1>6 DEF OnePerSlot, StoreEvent

ProductStates(products) == StatesOf({ProductEvent(p) : p \in products})

StoreStates(stores) == StatesOf({StoreEvent(s) : s \in stores})

\* dim_product_hist tells the rows of the products, collapsed.
LEMMA ProductHistory ==
    ASSUME Placed, NEW products, products \subseteq From(ProductRows)
    PROVE  /\ ProductStates(products) \in SUBSET State(ProductKeys, Payloads)
           /\ IsFiniteSet(ProductStates(products)) /\ OnePerSlot(ProductStates(products))
           /\ Sequenced(ProductStates(products))
           /\ DimProductHist(products) = Materialize(Collapse(ProductStates(products)))
BY ProductEvents, SnapshotHistory DEF ProductStates, DimProductHist

LEMMA StoreHistory ==
    ASSUME Placed, NEW stores, stores \subseteq From(StoreRows)
    PROVE  /\ StoreStates(stores) \in SUBSET State(StoreKeys, Payloads)
           /\ IsFiniteSet(StoreStates(stores)) /\ OnePerSlot(StoreStates(stores))
           /\ Sequenced(StoreStates(stores))
           /\ DimStoreHist(stores) = Materialize(Collapse(StoreStates(stores)))
BY StoreEvents, SnapshotHistory DEF StoreStates, DimStoreHist

\* Collapsing leaves what can be materialized.
LEMMA CollapsedStates ==
    ASSUME NEW states, IsFiniteSet(states), Sequenced(states), OnePerSlot(states)
    PROVE  /\ Collapse(states) \subseteq states
           /\ IsFiniteSet(Collapse(states)) /\ Sequenced(Collapse(states))
           /\ OnePerSlot(Collapse(states))
<1>1. Collapse(states) \subseteq states
  BY DEF Collapse
<1> QED
  BY <1>1, FS_Subset DEF Sequenced, OnePerSlot

\* A sale meets at most one version.
LEMMA SaleMeetsOne ==
    ASSUME Placed, NEW products, products \subseteq From(ProductRows),
           NEW line, line.sale_date \in Int
    PROVE  \A v, w \in Matches(line, DimProductHist(products)) : v = w
BY ProductHistory, CollapsedStates, AtMostOneMatch

\* fct_sales, computed from what has landed, has one row per order.
LEMMA SalesOneRowPerOrder ==
    ASSUME Placed,
           NEW events, events \subseteq From(OrderEventRows),
           NEW products, products \subseteq From(ProductRows),
           NEW x \in FctSales(events, DimProductHist(products)),
           NEW y \in FctSales(events, DimProductHist(products)),
           x.line.order_id = y.line.order_id
    PROVE  x = y
<1> DEFINE history == DimProductHist(products)
<1>1. PICK o \in RevenueOrders(events) : x.line = LineOf(events, o)
  BY SaleHasLine
<1>2. PICK q \in RevenueOrders(events) : y.line = LineOf(events, q)
  BY SaleHasLine
<1>3. o = q
  BY <1>1, <1>2 DEF LineOf
<1>4. x.line = y.line
  BY <1>1, <1>2, <1>3
<1>5. x.line.sale_date \in Int
  BY <1>1, LineTyped
<1>6. \A v, w \in Matches(x.line, history) : v = w
  BY <1>5, SaleMeetsOne
<1> HIDE DEF history
<1>7. /\ \/ x = [line |-> x.line, product |-> Null] /\ Matches(x.line, history) = {}
         \/ x = [line |-> x.line, product |-> x.product] /\ x.product \in Matches(x.line, history)
      /\ \/ y = [line |-> y.line, product |-> Null] /\ Matches(y.line, history) = {}
         \/ y = [line |-> y.line, product |-> y.product] /\ y.product \in Matches(y.line, history)
  BY SaleHasLine DEF history
<1>8. x = [line |-> x.line, product |-> x.product] /\ y = [line |-> y.line, product |-> y.product]
      /\ x.product = y.product
  BY <1>4, <1>6, <1>7
<1> QED
  BY <1>4, <1>8

-----------------------------------------------------------------------------
(* The inductive invariant.                                                *)

\* Bronze and silver hold landed rows of their source; silver lags behind bronze, and
\* bronze behind what has landed, where updates stop.
Read ==
    /\ order_events_valid \subseteq order_events_raw /\ order_events_raw \subseteq From(OrderEventRows)
    /\ products_valid \subseteq products_raw /\ products_raw \subseteq From(ProductRows)
    /\ stores_valid \subseteq stores_raw /\ stores_raw \subseteq From(StoreRows)

\* After a completed update the dimensions and gold are what silver gives.
Recomputed ==
    outcome = "completed" =>
        /\ dim_product_hist = DimProductHist(products_valid)
        /\ dim_store_hist = DimStoreHist(stores_valid)
        /\ fct_sales = FctSales(order_events_valid, dim_product_hist)
        /\ dim_store = DimStore(dim_store_hist)
        /\ sales_per_region_daily = DailyAggregate(SalesWithRegion(fct_sales, dim_store))
        /\ sales_per_store_daily = DailyAggregate(SalesWithStore(fct_sales))

IInv == Placed /\ Read /\ Recomputed /\ TypeOK /\ OneRowPerOrder

\* A row of fct_sales has an amount, and a version of the product that was sold.
LEMMA SaleTyped ==
    ASSUME Placed, NEW events, events \subseteq From(OrderEventRows),
           NEW history, NEW x \in FctSales(events, history)
    PROVE  /\ x.line.amount_base \in Int /\ x.line.sale_date \in Int
           /\ x.product = Null \/ x.product.key = x.line.product_id
<1>1. PICK o \in RevenueOrders(events) : x.line = LineOf(events, o)
  BY SaleHasLine
<1>2. \/ x = [line |-> x.line, product |-> Null]
      \/ x.product \in Matches(x.line, history)
  BY SaleHasLine
<1>3. x.product = Null \/ x.product.key = x.line.product_id
  BY <1>2 DEF Matches
<1> QED
  BY <1>1, <1>3, LineTyped

\* The lines are finitely many, and so are the sales.
LEMMA SalesFinite ==
    ASSUME Placed, NEW events, events \subseteq From(OrderEventRows),
           NEW products, products \subseteq From(ProductRows)
    PROVE  IsFiniteSet(FctSales(events, DimProductHist(products)))
<1> DEFINE sales == FctSales(events, DimProductHist(products))
           f == [x \in sales |-> x.line.order_id]
           g == [e \in events |-> e.order_id]
<1>1. IsFiniteSet(events)
  BY FS_Subset DEF Placed, From
<1>2. DOMAIN g = events /\ g = [e \in events |-> g[e]] /\ Orders(events) = {g[e] : e \in events}
  BY DEF Orders
<1> HIDE DEF g
<1>3. IsFiniteSet(Orders(events))
  BY <1>1, <1>2, ImageFinite
<1>4. \A x \in sales : x.line.order_id \in Orders(events)
  <2> TAKE x \in sales
  <2>1. PICK o \in RevenueOrders(events) : x.line = LineOf(events, o)
    BY SaleHasLine
  <2> QED
    BY <2>1 DEF LineOf, RevenueOrders
<1>5. f \in Injection(sales, Orders(events))
  BY <1>4, SalesOneRowPerOrder DEF Injection, IsInjective
<1> QED
  BY <1>3, <1>5, FS_Injection
-----------------------------------------------------------------------------
(* The daily tables.                                                       *)

\* The sums that the report and the tables take are sums: over cells,
LEMMA CellTotals ==
    ASSUME NEW S, IsFiniteSet(S)
    PROVE  MapThenSumSet(LAMBDA x : x.total, S) = SumOver([x \in S |-> x.total], S)
<1> DEFINE val == [x \in S |-> x.total]
           It(g) == [s \in SUBSET S |->
                       IF s = {} THEN 0
                       ELSE Chosen(s).total + g[s \ {Chosen(s)}]]
           g == CHOOSE h : h = It(h)
<1>1. PICK h : AddsUp(h, val, S)
  BY SumsExist
<1>2. \A s \in SUBSET S : s # {} => val[Chosen(s)] = Chosen(s).total
  <2>1. \A s \in SUBSET S : s # {} => Chosen(s) \in S
    BY PickIn
  <2> QED
    BY <2>1
<1> HIDE DEF val
<1>3. \A k : AddsUp(k, val, S) <=> k = It(k)
  BY <1>2 DEF AddsUp
<1> HIDE DEF It
<1>4. g = It(g)
  BY <1>1, <1>3
<1>5. AddsUp(g, val, S)
  BY <1>3, <1>4
<1>6. MapThenSumSet(LAMBDA x : x.total, S) = g[S]
  BY DEF MapThenSumSet, MapThenFoldSet, Chosen, It
<1> QED
  BY <1>5, <1>6, SumFound DEF val

\* over cells, of their rows,
LEMMA CellRows ==
    ASSUME NEW S, IsFiniteSet(S)
    PROVE  MapThenSumSet(LAMBDA x : x.row_count, S) = SumOver([x \in S |-> x.row_count], S)
<1> DEFINE val == [x \in S |-> x.row_count]
           It(g) == [s \in SUBSET S |->
                       IF s = {} THEN 0
                       ELSE Chosen(s).row_count + g[s \ {Chosen(s)}]]
           g == CHOOSE h : h = It(h)
<1>1. PICK h : AddsUp(h, val, S)
  BY SumsExist
<1>2. \A s \in SUBSET S : s # {} => val[Chosen(s)] = Chosen(s).row_count
  <2>1. \A s \in SUBSET S : s # {} => Chosen(s) \in S
    BY PickIn
  <2> QED
    BY <2>1
<1> HIDE DEF val
<1>3. \A k : AddsUp(k, val, S) <=> k = It(k)
  BY <1>2 DEF AddsUp
<1> HIDE DEF It
<1>4. g = It(g)
  BY <1>1, <1>3
<1>5. AddsUp(g, val, S)
  BY <1>3, <1>4
<1>6. MapThenSumSet(LAMBDA x : x.row_count, S) = g[S]
  BY DEF MapThenSumSet, MapThenFoldSet, Chosen, It
<1> QED
  BY <1>5, <1>6, SumFound DEF val

\* over sales,
LEMMA SaleAmounts ==
    ASSUME NEW S, IsFiniteSet(S)
    PROVE  MapThenSumSet(LAMBDA x : x.line.amount_base, S) = SumOver([x \in S |-> x.line.amount_base], S)
<1> DEFINE val == [x \in S |-> x.line.amount_base]
           It(g) == [s \in SUBSET S |->
                       IF s = {} THEN 0
                       ELSE Chosen(s).line.amount_base + g[s \ {Chosen(s)}]]
           g == CHOOSE h : h = It(h)
<1>1. PICK h : AddsUp(h, val, S)
  BY SumsExist
<1>2. \A s \in SUBSET S : s # {} => val[Chosen(s)] = Chosen(s).line.amount_base
  <2>1. \A s \in SUBSET S : s # {} => Chosen(s) \in S
    BY PickIn
  <2> QED
    BY <2>1
<1> HIDE DEF val
<1>3. \A k : AddsUp(k, val, S) <=> k = It(k)
  BY <1>2 DEF AddsUp
<1> HIDE DEF It
<1>4. g = It(g)
  BY <1>1, <1>3
<1>5. AddsUp(g, val, S)
  BY <1>3, <1>4
<1>6. MapThenSumSet(LAMBDA x : x.line.amount_base, S) = g[S]
  BY DEF MapThenSumSet, MapThenFoldSet, Chosen, It
<1> QED
  BY <1>5, <1>6, SumFound DEF val

\* and over the joined rows.
LEMMA RowAmounts ==
    ASSUME NEW S, IsFiniteSet(S)
    PROVE  MapThenSumSet(LAMBDA x : x.sale.line.amount_base, S) = SumOver([x \in S |-> x.sale.line.amount_base], S)
<1> DEFINE val == [x \in S |-> x.sale.line.amount_base]
           It(g) == [s \in SUBSET S |->
                       IF s = {} THEN 0
                       ELSE Chosen(s).sale.line.amount_base + g[s \ {Chosen(s)}]]
           g == CHOOSE h : h = It(h)
<1>1. PICK h : AddsUp(h, val, S)
  BY SumsExist
<1>2. \A s \in SUBSET S : s # {} => val[Chosen(s)] = Chosen(s).sale.line.amount_base
  <2>1. \A s \in SUBSET S : s # {} => Chosen(s) \in S
    BY PickIn
  <2> QED
    BY <2>1
<1> HIDE DEF val
<1>3. \A k : AddsUp(k, val, S) <=> k = It(k)
  BY <1>2 DEF AddsUp
<1> HIDE DEF It
<1>4. g = It(g)
  BY <1>1, <1>3
<1>5. AddsUp(g, val, S)
  BY <1>3, <1>4
<1>6. MapThenSumSet(LAMBDA x : x.sale.line.amount_base, S) = g[S]
  BY DEF MapThenSumSet, MapThenFoldSet, Chosen, It
<1> QED
  BY <1>5, <1>6, SumFound DEF val

Amounts(sales) == [x \in sales |-> x.line.amount_base]

\* The sales of a day that are joined with one group.
Alike(x, sales, raw) ==
    {y \in sales : /\ y.line.sale_date = x.line.sale_date
                   /\ Bucket(raw[y]) = Bucket(raw[x])}

CellOf(x, sales, raw) ==
    [sale_date |-> x.line.sale_date,
     group     |-> Bucket(raw[x]),
     total     |-> SumOver(Amounts(sales), Alike(x, sales, raw)),
     row_count |-> Cardinality(Alike(x, sales, raw))]

\* The cells of sales that are joined with a group each.
LEMMA JoinedCells ==
    ASSUME NEW sales, IsFiniteSet(sales), \A x \in sales : x.line.amount_base \in Int,
           NEW raw, NEW rows, rows = {[sale |-> x, group |-> raw[x]] : x \in sales}
    PROVE  DailyAggregate(rows) = {CellOf(x, sales, raw) : x \in sales}
<1> DEFINE f == [x \in sales |-> [sale |-> x, group |-> raw[x]]]
           amount == Amounts(sales)
           part == [x \in sales |-> Alike(x, sales, raw)]
           Cell(r) == {q \in rows : /\ q.sale.line.sale_date = r.sale.line.sale_date
                                    /\ Bucket(q.group) = Bucket(r.group)}
           Made(r) == [sale_date |-> r.sale.line.sale_date,
                       group     |-> Bucket(r.group),
                       total     |-> MapThenSumSet(LAMBDA x : x.sale.line.amount_base, Cell(r)),
                       row_count |-> Cardinality(Cell(r))]
<1>1. \A x \in sales : f[x].sale = x /\ f[x].group = raw[x] /\ f[x] \in rows
  OBVIOUS
<1>2. rows = {f[x] : x \in sales}
  OBVIOUS
<1>3. DOMAIN f = sales /\ \A x, y \in sales : f[x] = f[y] => x = y
  BY <1>1
<1>4. \A x \in sales : amount[x] = x.line.amount_base
  BY DEF Amounts
<1>11. \A x \in sales : /\ part[x] = Alike(x, sales, raw) /\ part[x] \subseteq sales
                        /\ \A y \in sales : y \in part[x] <=>
                               /\ y.line.sale_date = x.line.sale_date
                               /\ Bucket(raw[y]) = Bucket(raw[x])
  BY DEF Alike
<1>5. DailyAggregate(rows) = {Made(r) : r \in rows}
  BY DEF DailyAggregate
<1> HIDE DEF f, amount, part
<1>6. ASSUME NEW x \in sales
      PROVE  /\ Cell(f[x]) = {f[y] : y \in part[x]}
             /\ MapThenSumSet(LAMBDA q : q.sale.line.amount_base, Cell(f[x]))
                  = SumOver(amount, part[x])
             /\ Cardinality(Cell(f[x])) = Cardinality(part[x])
  <2> DEFINE P == part[x]
             C == Cell(f[x])
             h == [y \in P |-> f[y]]
             sums == [q \in C |-> q.sale.line.amount_base]
  <2>1. P \subseteq sales
    BY <1>11
  <2>2. IsFiniteSet(P)
    BY <2>1, FS_Subset
  <2>3. C = {f[y] : y \in P}
    <3>1. \A y \in sales : y \in P <=> f[y] \in C
      BY <1>1, <1>11
    <3>2. C \subseteq rows
      OBVIOUS
    <3> HIDE DEF C, P
    <3> QED
      BY <1>2, <2>1, <3>1, <3>2
  <2>4. DOMAIN h = P /\ h = [y \in P |-> h[y]] /\ \A y \in P : h[y] = f[y]
    OBVIOUS
  <2> HIDE DEF h
  <2>5. C = {h[y] : y \in P}
    BY <2>3, <2>4
  <2>6. \A y, z \in P : h[y] = h[z] => y = z
    BY <1>3, <2>1, <2>4
  <2>7. IsFiniteSet(C)
    <3> HIDE DEF P, C
    <3>1. IsFiniteSet({h[y] : y \in P})
      BY <2>2, <2>4, ImageFinite
    <3> QED
      BY <2>5, <3>1
  <2>8. \A y \in P : amount[y] \in Int /\ sums[h[y]] = amount[y]
    <3> TAKE y \in P
    <3>1. y \in sales /\ h[y] = f[y] /\ f[y].sale = y /\ h[y] \in C
      BY <1>1, <2>1, <2>4, <2>5
    <3> HIDE DEF C, P
    <3>2. sums[h[y]] = h[y].sale.line.amount_base
      BY <3>1
    <3> QED
      BY <1>4, <3>1, <3>2
  <2>9. MapThenSumSet(LAMBDA q : q.sale.line.amount_base, C) = SumOver(sums, C)
    <3> HIDE DEF C
    <3> QED
      BY <2>7, RowAmounts
  <2> HIDE DEF sums, C, P
  <2>10. SumOver(sums, C) = SumOver(amount, P)
    BY <2>2, <2>4, <2>5, <2>6, <2>8, SumImage
  <2>11. Cardinality(C) = Cardinality(P)
    BY <2>2, <2>4, <2>5, <2>6, ImageCardinality
  <2> QED
    BY <2>3, <2>9, <2>10, <2>11 DEF C, P
<1>7. \A x \in sales : Made(f[x]) =
          [sale_date |-> x.line.sale_date, group |-> Bucket(raw[x]),
           total |-> SumOver(amount, part[x]), row_count |-> Cardinality(part[x])]
  BY <1>1, <1>6
<1> HIDE DEF Made
<1>8. {Made(r) : r \in rows} = {Made(f[x]) : x \in sales}
  BY <1>2
<1>9. \A x \in sales : Made(f[x]) = CellOf(x, sales, raw)
  BY <1>7, <1>11 DEF CellOf, amount
<1> QED
  BY <1>5, <1>8, <1>9

\* Such a table reports the sales by the groups they were joined with.
THEOREM TablesReport ==
    ASSUME NEW sales, IsFiniteSet(sales), \A x \in sales : x.line.amount_base \in Int,
           NEW raw, NEW rows, rows = {[sale |-> x, group |-> raw[x]] : x \in sales},
           NEW group, group = [x \in sales |-> Bucket(raw[x])]
    PROVE  Reports(DailyAggregate(rows), sales, group)
<1> DEFINE part == [x \in sales |-> Alike(x, sales, raw)]
           amount == Amounts(sales)
           c == [x \in sales |-> CellOf(x, sales, raw)]
           table == {c[x] : x \in sales}
<1>1. DailyAggregate(rows) = table
  <2>1. DailyAggregate(rows) = {CellOf(x, sales, raw) : x \in sales}
    BY JoinedCells
  <2>2. \A x \in sales : c[x] = CellOf(x, sales, raw)
    OBVIOUS
  <2> HIDE DEF c
  <2> QED
    BY <2>1, <2>2
<1>2. \A x \in sales : /\ c[x].sale_date = x.line.sale_date /\ c[x].group = group[x]
                       /\ c[x].total = SumOver(amount, part[x])
                       /\ c[x].row_count = Cardinality(part[x])
                       /\ group[x] = Bucket(raw[x])
                       /\ part[x] = Alike(x, sales, raw)
                       /\ c[x] = CellOf(x, sales, raw)
  BY DEF CellOf
<1>3. \A x, y \in sales : y \in part[x] <=>
          y.line.sale_date = x.line.sale_date /\ group[y] = group[x]
  BY <1>2 DEF Alike
<1>4. \A x \in sales : part[x] \subseteq sales
  BY <1>2 DEF Alike
<1>5. \A x, y \in sales : part[x] \cap part[y] # {} => part[x] = part[y] /\ c[x] = c[y]
  <2> SUFFICES ASSUME NEW x \in sales, NEW y \in sales, part[x] \cap part[y] # {}
               PROVE  part[x] = part[y] /\ c[x] = c[y]
    OBVIOUS
  <2>1. PICK z \in sales : z \in part[x] /\ z \in part[y]
    BY <1>4
  <2>2. x.line.sale_date = y.line.sale_date /\ group[x] = group[y]
    BY <1>3, <2>1
  <2>3. Bucket(raw[x]) = Bucket(raw[y])
    BY <1>2, <2>2
  <2>4. Alike(x, sales, raw) = Alike(y, sales, raw)
    BY <2>2, <2>3 DEF Alike
  <2>5. CellOf(x, sales, raw) = CellOf(y, sales, raw)
    BY <2>2, <2>3, <2>4 DEF CellOf
  <2> QED
    BY <1>2, <2>4, <2>5
<1>6. DOMAIN c = sales /\ c = [x \in sales |-> c[x]]
  OBVIOUS
<1>7. \A x \in sales : amount[x] = x.line.amount_base /\ amount[x] \in Int
  BY DEF Amounts
<1> HIDE DEF c, part, amount
<1>8. {cell.group : cell \in table} = {group[x] : x \in sales}
  BY <1>2
<1>9. ASSUME NEW g \in {group[x] : x \in sales}
      PROVE  LET of == {x \in sales : group[x] = g}
                 cells == {cell \in table : cell.group = g}
             IN  /\ MapThenSumSet(LAMBDA cell : cell.total, cells)
                      = MapThenSumSet(LAMBDA x : x.line.amount_base, of)
                 /\ MapThenSumSet(LAMBDA cell : cell.row_count, cells) = Cardinality(of)
  <2> DEFINE of == {x \in sales : group[x] = g}
             cells == {cell \in table : cell.group = g}
             block == [cell \in cells |-> {x \in of : c[x] = cell}]
             totals == [cell \in cells |-> cell.total]
             counts == [cell \in cells |-> cell.row_count]
             money == [x \in of |-> x.line.amount_base]
             ones == [x \in of |-> 1]
  <2>1. IsFiniteSet(of) /\ of \subseteq sales
    BY FS_Subset
  <2>2. IsFiniteSet(cells)
    <3>1. IsFiniteSet(table)
      BY <1>6, ImageFinite
    <3> HIDE DEF table
    <3> QED
      BY <3>1, FS_Subset
  <2>3. \A cell \in cells : block[cell] = {x \in of : c[x] = cell}
    OBVIOUS
  <2>4. \A x \in of : c[x] \in cells
    BY <1>2
  <2>5. ASSUME NEW cell \in cells
        PROVE  \E x \in of : cell = c[x] /\ block[cell] = part[x]
    <3>1. PICK x \in sales : cell = c[x]
      OBVIOUS
    <3>2. x \in of
      BY <1>2, <3>1
    <3>3. part[x] \subseteq of
      BY <1>3, <1>4, <3>2
    <3>4. \A y \in of : y \in part[x] <=> c[y] = c[x]
      <4> TAKE y \in of
      <4>1. y \in part[x] => c[y] = c[x]
        <5>1. y \in part[y]
          BY <1>3
        <5> QED
          BY <1>5, <2>1, <5>1
      <4>2. c[y] = c[x] => y.line.sale_date = x.line.sale_date
        BY <1>2
      <4> QED
        BY <1>3, <2>1, <3>2, <4>1, <4>2
    <3>5. block[cell] = {y \in of : c[y] = c[x]}
      BY <2>3, <3>1
    <3> HIDE DEF of, block, cells, table
    <3>6. block[cell] = part[x]
      BY <3>3, <3>4, <3>5
    <3> QED
      BY <3>1, <3>2, <3>6
  <2>6. \A cell \in cells : totals[cell] = cell.total /\ counts[cell] = cell.row_count
    OBVIOUS
  <2>7. \A x \in of : money[x] = amount[x] /\ money[x] \in Int /\ ones[x] = 1
    BY <1>7
  <2>8. \A cell \in cells : totals[cell] = SumOver(money, block[cell])
    <3> TAKE cell \in cells
    <3>1. PICK x \in of : cell = c[x] /\ block[cell] = part[x]
      BY <2>5
    <3>2. part[x] \subseteq of /\ IsFiniteSet(part[x])
      <4>1. block[cell] \subseteq of
        BY <2>3
      <4> HIDE DEF of, block, cells
      <4> QED
        BY <2>1, <3>1, <4>1, FS_Subset
    <3>3. totals[cell] = SumOver(amount, part[x])
      BY <1>2, <2>1, <2>6, <3>1
    <3> HIDE DEF of, block, cells, money, totals
    <3>4. SumOver(amount, part[x]) = SumOver(money, part[x])
      BY <2>7, <3>2, SumSame
    <3> QED
      BY <3>1, <3>3, <3>4
  <2>9. \A cell \in cells : counts[cell] = SumOver(ones, block[cell])
    <3> TAKE cell \in cells
    <3>1. PICK x \in of : cell = c[x] /\ block[cell] = part[x]
      BY <2>5
    <3>2. part[x] \subseteq of /\ IsFiniteSet(part[x])
      <4>1. block[cell] \subseteq of
        BY <2>3
      <4> HIDE DEF of, block, cells
      <4> QED
        BY <2>1, <3>1, <4>1, FS_Subset
    <3>3. counts[cell] = Cardinality(part[x])
      BY <1>2, <2>1, <2>6, <3>1
    <3> HIDE DEF of, block, cells, ones, counts
    <3>4. Cardinality(part[x]) = SumOver(ones, part[x])
      BY <2>7, <3>2, SumOnes
    <3> QED
      BY <3>1, <3>3, <3>4
  <2>10. of = UNION {block[cell] : cell \in cells}
    <3>1. \A cell \in cells : block[cell] \subseteq of
      BY <2>3
    <3>2. \A x \in of : x \in block[c[x]] /\ c[x] \in cells
      BY <2>3, <2>4
    <3> HIDE DEF of, block, cells
    <3> QED
      BY <3>1, <3>2
  <2>11. \A a, b \in cells : block[a] \cap block[b] # {} => a = b
    <3> HIDE DEF block, cells
    <3> QED
      BY <2>3
  <2>12. MapThenSumSet(LAMBDA cell : cell.total, cells) = SumOver(totals, cells)
    <3> HIDE DEF cells
    <3> QED
      BY <2>2, CellTotals
  <2>13. MapThenSumSet(LAMBDA cell : cell.row_count, cells) = SumOver(counts, cells)
    <3> HIDE DEF cells
    <3> QED
      BY <2>2, CellRows
  <2>14. MapThenSumSet(LAMBDA x : x.line.amount_base, of) = SumOver(money, of)
    <3> HIDE DEF of
    <3> QED
      BY <2>1, SaleAmounts
  <2>15. \A x \in of : ones[x] = 1 /\ ones[x] \in Int
    BY <2>7
  <2> HIDE DEF of, cells, block, totals, counts, money, ones
  <2>16. SumOver(totals, cells) = SumOver(money, of)
    <3>1. \A x \in of : money[x] \in Int
      BY <2>7
    <3> QED
      BY <2>1, <2>2, <2>8, <2>10, <2>11, <3>1, SumParts, SMTT(60)
  <2>17. SumOver(counts, cells) = SumOver(ones, of)
    <3>1. \A x \in of : ones[x] \in Int
      BY <2>15
    <3> QED
      BY <2>1, <2>2, <2>9, <2>10, <2>11, <3>1, SumParts, SMTT(60)
  <2>18. SumOver(ones, of) = Cardinality(of)
    BY <2>1, <2>15, SumOnes
  <2> QED
    BY <2>12, <2>13, <2>14, <2>16, <2>17, <2>18 DEF of, cells
<1> HIDE DEF table
<1> QED
  BY <1>1, <1>8, <1>9 DEF Reports

-----------------------------------------------------------------------------
(* The region of a store.                                                  *)

\* The row of stores that speaks for a store: the last one of it.
LastOf(id, stores) ==
    {s \in stores :
        /\ s.store_id = id
        /\ \A q \in stores : q.store_id = id =>
               ~SeqLt(StoreEvent(s).sequence, StoreEvent(q).sequence)}

\* A store with rows is told by exactly one of them.
LEMMA LastRow ==
    ASSUME Placed, NEW stores, stores \subseteq From(StoreRows),
           NEW id, \E s \in stores : s.store_id = id
    PROVE  \E l \in stores :
               /\ l.store_id = id /\ LastOf(id, stores) = {l}
               /\ \A q \in stores : q.store_id = id =>
                      q = l \/ SeqLt(StoreEvent(q).sequence, StoreEvent(l).sequence)
<1> DEFINE K == {s \in stores : s.store_id = id}
           f == [s \in K |-> StoreEvent(s).sequence]
<1>1. stores \subseteq landed /\ K \subseteq stores /\ K # {}
  BY DEF From
<1>2. IsFiniteSet(K)
  BY <1>1, FS_Subset DEF Placed
<1>3. \A s \in stores : StoreEvent(s).sequence \in Sequence
  BY <1>1, StoreTyped, LandedRow DEF StoreEvent, Sequence, SortValue, IngestionOrders
<1>4. DOMAIN f = K /\ f = [s \in K |-> f[s]] /\ \A s \in K : f[s] = StoreEvent(s).sequence
  OBVIOUS
<1>5. \A s \in stores : s \in K <=> s.store_id = id
  OBVIOUS
<1> HIDE DEF K, f
<1>6. PICK l \in K : \A s \in K : f[s] = f[l] \/ SeqLt(f[s], f[l])
  BY <1>1, <1>2, <1>3, <1>4, LastExists
<1>7. \A s \in K : s = l \/ SeqLt(StoreEvent(s).sequence, StoreEvent(l).sequence)
  <2> TAKE s \in K
  <2>1. StoreEvent(s).sequence = StoreEvent(l).sequence => s = l
    BY <1>1 DEF StoreEvent, Placed
  <2> QED
    BY <1>4, <1>6, <2>1
<1>8. l \in LastOf(id, stores)
  BY <1>1, <1>3, <1>5, <1>7, SeqLtIrreflexive, SeqLtAsymmetric DEF LastOf
<1>9. \A s \in LastOf(id, stores) : s = l
  BY <1>1, <1>5, <1>7 DEF LastOf
<1>10. LastOf(id, stores) = {l}
  BY <1>8, <1>9
<1> QED
  BY <1>1, <1>5, <1>7, <1>10

\* dim_store has one row of such a store, and it shows the region of the row that
\* speaks for it: whatever collapsed into an earlier version said the same.
LEMMA OneStoreRow ==
    ASSUME Placed, NEW stores, stores \subseteq From(StoreRows),
           NEW id, NEW l \in stores, l.store_id = id,
           \A q \in stores : q.store_id = id =>
               q = l \/ SeqLt(StoreEvent(q).sequence, StoreEvent(l).sequence)
    PROVE  {s \in DimStore(DimStoreHist(stores)) : s.store_id = id}
             = {[store_id |-> id, region |-> RegionOf[l.attributes]]}
<1> DEFINE states == StoreStates(stores)
           kept == Collapse(states)
           f == EventState(StoreEvent(l))
           H == DimStoreHist(stores)
<1>1. /\ states \in SUBSET State(StoreKeys, Payloads)
      /\ IsFiniteSet(states) /\ OnePerSlot(states) /\ Sequenced(states)
      /\ H = Materialize(kept)
  BY StoreHistory
<1>2. f \in states /\ f.key = id /\ f.content = l.attributes
  BY DEF StoreStates, StatesOf, EventState, StoreEvent, OpUpsert, OpDelete
<1>3. \A q \in states : q.key = id => q = f \/ Precedes(q, f)
  <2> TAKE q \in states
  <2>1. PICK s \in stores : q = EventState(StoreEvent(s))
    BY DEF StoreStates, StatesOf
  <2> QED
    BY <1>2, <2>1 DEF EventState, StoreEvent, Precedes
<1>4. \A q \in states : q.content # Tombstone /\ q.sequence \in Sequence
  <2> TAKE q \in states
  <2>1. PICK s \in stores : q = EventState(StoreEvent(s))
    BY DEF StoreStates, StatesOf
  <2>2. q.content \in Int
    BY <2>1, StoreTyped, PayloadsAssumption DEF EventState, StoreEvent, OpUpsert, OpDelete
  <2> QED
    BY <1>1, <2>2, TombstoneAssumption DEF Sequenced
<1> HIDE DEF states, f, H
<1>5. PICK m \in kept : /\ m = f \/ Precedes(m, f)
                        /\ m.content = f.content
                        /\ \A q \in kept : (q = f \/ Precedes(q, f)) => q = m \/ Precedes(q, m)
  BY <1>1, <1>2, LastKeptSays
<1>6. kept \subseteq states
  BY DEF Collapse
<1> HIDE DEF kept
<1>7. m.key = id
  BY <1>2, <1>5 DEF Precedes
<1>8. \A q \in kept : q.key = id => q = m \/ Precedes(q, m)
  <2> TAKE q \in kept
  <2>1. q \in states
    BY <1>6
  <2> QED
    BY <1>3, <1>5, <2>1
<1>9. Later(m, kept) = {}
  <2>1. \A u \in kept : ~Precedes(m, u)
    <3> TAKE u \in kept
    <3>1. Precedes(m, u) => u = m \/ Precedes(u, m)
      BY <1>7, <1>8 DEF Precedes
    <3>2. m.sequence \in Sequence /\ u.sequence \in Sequence
      BY <1>4, <1>6
    <3> QED
      BY <3>1, <3>2, SeqLtIrreflexive, SeqLtAsymmetric DEF Precedes
  <2> QED
    BY <2>1 DEF Later
<1> DEFINE row == [store_id |-> id, region |-> RegionOf[l.attributes]]
           Row(v) == [store_id |-> v.key, region |-> RegionOf[v.attributes]]
<1>10. row \in DimStore(H)
  <2> DEFINE v == VersionOf(m, kept)
  <2>1. v \in H /\ v.is_current /\ v.key = id /\ v.attributes = l.attributes
    BY <1>1, <1>2, <1>4, <1>5, <1>6, <1>7, <1>9 DEF Materialize, VersionOf
  <2> HIDE DEF v
  <2> QED
    BY <2>1 DEF DimStore, CurrentRows
<1>11. \A s \in DimStore(H) : s.store_id = id => s = row
  <2> SUFFICES ASSUME NEW s \in DimStore(H), s.store_id = id PROVE s = row
    OBVIOUS
  <2>1. PICK v \in CurrentRows(H) : s = Row(v)
    BY DEF DimStore
  <2>2. v \in H /\ v.is_current /\ v.key = id
    BY <2>1 DEF CurrentRows
  <2>3. PICK t \in kept : v = VersionOf(t, kept)
    BY <1>1, <2>2 DEF Materialize
  <2>4. t.key = id /\ Later(t, kept) = {}
    BY <2>2, <2>3 DEF VersionOf
  <2>5. t = m
    BY <1>8, <2>4 DEF Later
  <2>6. v.attributes = l.attributes
    BY <1>2, <1>4, <1>5, <1>6, <2>3, <2>5 DEF VersionOf
  <2> QED
    BY <2>1, <2>2, <2>6
<1>12. row.store_id = id
  OBVIOUS
<1> HIDE DEF row
<1>13. {s \in DimStore(H) : s.store_id = id} = {row}
  BY <1>10, <1>11, <1>12
<1> QED
  BY <1>13 DEF H, row

\* A store without rows is not in dim_store.
LEMMA NoStoreRow ==
    ASSUME Placed, NEW stores, stores \subseteq From(StoreRows),
           NEW id, \A s \in stores : s.store_id # id
    PROVE  {s \in DimStore(DimStoreHist(stores)) : s.store_id = id} = {}
<1> SUFFICES ASSUME NEW s \in DimStore(DimStoreHist(stores)), s.store_id = id PROVE FALSE
  OBVIOUS
<1>1. PICK v \in DimStoreHist(stores) : v.key = id
  BY DEF DimStore, CurrentRows
<1>2. DimStoreHist(stores) = Materialize(Collapse(StoreStates(stores)))
  BY StoreHistory
<1> DEFINE kept == Collapse(StoreStates(stores))
<1>3. PICK t \in StoreStates(stores) : t.key = id
  <2>1. kept \subseteq StoreStates(stores)
    BY DEF Collapse
  <2> HIDE DEF kept
  <2>2. PICK t \in kept : v = VersionOf(t, kept)
    BY <1>1, <1>2 DEF Materialize, kept
  <2> QED
    BY <1>1, <2>1, <2>2 DEF VersionOf
<1> QED
  BY <1>3 DEF StoreStates, StatesOf, EventState, StoreEvent

\* What the left join finds for a store.
RegionFound(id, dim) ==
    LET found == {s \in dim : s.store_id = id}
    IN  IF found = {} THEN Null ELSE (CHOOSE s \in found : TRUE).region

\* RegionNow, by the rows of stores.
RegionBy(id, stores) ==
    LET known == {s \in stores : s.store_id = id}
        last  == {s \in known : \A q \in known :
                     ~SeqLt(<<s.update_date, s.ingestion_order>>,
                            <<q.update_date, q.ingestion_order>>)}
    IN  IF known = {} THEN Unknown ELSE Bucket(RegionOf[(CHOOSE s \in last : TRUE).attributes])

\* Each sale is joined once, with the region of its store as of the last row of it.
LEMMA RegionJoined ==
    ASSUME Placed, NEW stores, stores \subseteq From(StoreRows),
           NEW dim, dim = DimStore(DimStoreHist(stores)), NEW sales
    PROVE  /\ SalesWithRegion(sales, dim)
                = {[sale |-> x, group |-> RegionFound(x.line.store_id, dim)] : x \in sales}
           /\ \A id : Bucket(RegionFound(id, dim)) = RegionBy(id, stores)
<1> DEFINE Found(id) == {s \in dim : s.store_id = id}
           J(x) == IF Found(x.line.store_id) = {} THEN {[sale |-> x, group |-> Null]}
                   ELSE {[sale |-> x, group |-> s.region] : s \in Found(x.line.store_id)}
           One(x) == [sale |-> x, group |-> RegionFound(x.line.store_id, dim)]
<1>1. ASSUME NEW id
      PROVE  /\ \A s, t \in Found(id) : s = t
             /\ Bucket(RegionFound(id, dim)) = RegionBy(id, stores)
  <2>1. CASE \E s \in stores : s.store_id = id
    <3>1. PICK l \in stores :
              /\ l.store_id = id /\ LastOf(id, stores) = {l}
              /\ \A q \in stores : q.store_id = id =>
                     q = l \/ SeqLt(StoreEvent(q).sequence, StoreEvent(l).sequence)
      BY <2>1, LastRow
    <3>2. Found(id) = {[store_id |-> id, region |-> RegionOf[l.attributes]]}
      BY <3>1, OneStoreRow
    <3>3. RegionFound(id, dim) = RegionOf[l.attributes]
      <4> DEFINE row == [store_id |-> id, region |-> RegionOf[l.attributes]]
      <4>1. {s \in dim : s.store_id = id} = {row} /\ row.region = RegionOf[l.attributes]
        BY <3>2
      <4> HIDE DEF row
      <4>2. (CHOOSE s \in {row} : TRUE) = row
        OBVIOUS
      <4> QED
        BY <4>1, <4>2 DEF RegionFound
    <3> DEFINE known == {s \in stores : s.store_id = id}
               last == {s \in known : \A q \in known :
                            ~SeqLt(<<s.update_date, s.ingestion_order>>,
                                   <<q.update_date, q.ingestion_order>>)}
    <3>4. last = LastOf(id, stores)
      BY DEF LastOf, StoreEvent
    <3>5. known # {}
      BY <2>1
    <3>6. RegionBy(id, stores) = Bucket(RegionOf[(CHOOSE s \in last : TRUE).attributes])
      BY <3>5 DEF RegionBy
    <3>7. (CHOOSE s \in last : TRUE) = l
      BY <3>1, <3>4
    <3> QED
      BY <3>2, <3>3, <3>6, <3>7
  <2>2. CASE \A s \in stores : s.store_id # id
    <3>1. {s \in DimStore(DimStoreHist(stores)) : s.store_id = id} = {}
      BY <2>2, NoStoreRow
    <3>5. Found(id) = {}
      BY <3>1
    <3>2. RegionFound(id, dim) = Null
      BY <3>5 DEF RegionFound
    <3>3. {s \in stores : s.store_id = id} = {}
      BY <2>2
    <3>4. RegionBy(id, stores) = Unknown
      BY <3>3 DEF RegionBy
    <3> QED
      BY <3>5, <3>2, <3>4 DEF Bucket
  <2> QED
    BY <2>1, <2>2
<1>2. SalesWithRegion(sales, dim) = UNION {J(x) : x \in sales}
  BY DEF SalesWithRegion
<1>3. \A x \in sales : J(x) = {One(x)}
  <2> TAKE x \in sales
  <2>1. \A s, t \in Found(x.line.store_id) : s = t
    BY <1>1
  <2>2. CASE Found(x.line.store_id) = {}
    BY <2>2 DEF RegionFound
  <2>3. CASE Found(x.line.store_id) # {}
    <3>1. PICK s \in Found(x.line.store_id) : TRUE
      BY <2>3
    <3>2. Found(x.line.store_id) = {s}
      BY <2>1, <3>1
    <3>3. RegionFound(x.line.store_id, dim) = s.region
      BY <2>1, <2>3, <3>1, <3>2 DEF RegionFound
    <3> QED
      BY <2>3, <3>2, <3>3
  <2> QED
    BY <2>2, <2>3
<1> HIDE DEF J, One
<1>4. UNION {J(x) : x \in sales} = {One(x) : x \in sales}
  BY <1>3
<1> QED
  BY <1>1, <1>2, <1>4 DEF One

-----------------------------------------------------------------------------
(* The product of a sale.                                                  *)

\* A version that a sale meets was started by a row effective on or before its day.
LEMMA MatchIsKnown ==
    ASSUME Placed, NEW products, products \subseteq From(ProductRows),
           NEW line, NEW v \in Matches(line, DimProductHist(products))
    PROVE  /\ v \in Version(ProductKeys, Payloads)
           /\ \E p \in products : /\ p.product_id = line.product_id
                                  /\ p.effective_date # Null
                                  /\ p.effective_date <= line.sale_date
<1> DEFINE states == ProductStates(products)
           kept == Collapse(states)
<1>1. /\ states \in SUBSET State(ProductKeys, Payloads)
      /\ IsFiniteSet(states) /\ OnePerSlot(states)
      /\ DimProductHist(products) = Materialize(kept)
  BY ProductHistory
<1>2. v \in Materialize(kept)
  BY <1>1 DEF Matches
<1>3. Materialize(kept) \subseteq Version(ProductKeys, Payloads)
  <2> HIDE DEF states
  <2> QED
    BY <1>1, RebuildWellFormed DEF WellFormed
<1>4. kept \subseteq states
  BY DEF Collapse
<1> HIDE DEF kept, states
<1>5. PICK t \in kept : v = VersionOf(t, kept)
  BY <1>2 DEF Materialize
<1>6. PICK p \in products : t = EventState(ProductEvent(p))
  BY <1>4, <1>5 DEF states, ProductStates, StatesOf
<1>7. v.key = p.product_id /\ v.valid_from[1] = p.effective_date
  BY <1>5, <1>6 DEF VersionOf, EventState, ProductEvent
<1> QED
  BY <1>2, <1>3, <1>7 DEF Matches, ValidOn

\* The last row of a product that was effective by the day of a sale speaks for the
\* version that the sale meets, if all rows of the product are dated.
LEMMA SaleMeetsLast ==
    ASSUME Placed, NEW products, products \subseteq From(ProductRows),
           NEW line, line.sale_date \in Int,
           \A q \in products : q.product_id = line.product_id => q.effective_date # Null,
           NEW p \in products, p.product_id = line.product_id,
           p.effective_date <= line.sale_date,
           \A q \in products :
               q.product_id = line.product_id /\ q.effective_date <= line.sale_date =>
                   q = p \/ SeqLt(ProductEvent(q).sequence, ProductEvent(p).sequence)
    PROVE  \E v \in Matches(line, DimProductHist(products)) : v.attributes = p.category
<1> DEFINE states == ProductStates(products)
           kept == Collapse(states)
           f == EventState(ProductEvent(p))
<1>1. /\ states \in SUBSET State(ProductKeys, Payloads)
      /\ IsFiniteSet(states) /\ OnePerSlot(states) /\ Sequenced(states)
      /\ DimProductHist(products) = Materialize(kept)
  BY ProductHistory
<1>2. f \in states /\ f.key = line.product_id /\ f.content = p.category
  BY DEF ProductStates, StatesOf, EventState, ProductEvent, OpUpsert, OpDelete
<1>3. ASSUME NEW s \in states, s.key = line.product_id
      PROVE  /\ s.sequence \in Sequence /\ s.sequence[1] \in Int /\ s.content # Tombstone
             /\ s.sequence[1] <= line.sale_date => s = f \/ Precedes(s, f)
  <2>1. PICK q \in products : s = EventState(ProductEvent(q))
    BY DEF ProductStates, StatesOf
  <2>2. /\ q.product_id = line.product_id /\ s.sequence = ProductEvent(q).sequence
        /\ s.sequence[1] = q.effective_date /\ s.content = q.category
    BY <1>3, <2>1 DEF EventState, ProductEvent, OpUpsert, OpDelete
  <2>3. q.effective_date \in Int /\ q.category \in Int
    BY <2>2, ProductTyped, PayloadsAssumption DEF SortValue
  <2>4. s.sequence \in Sequence
    BY <1>1 DEF Sequenced
  <2>5. s.sequence[1] <= line.sale_date => s = f \/ Precedes(s, f)
    <3> SUFFICES ASSUME s.sequence[1] <= line.sale_date PROVE s = f \/ Precedes(s, f)
      OBVIOUS
    <3>1. q = p \/ SeqLt(ProductEvent(q).sequence, ProductEvent(p).sequence)
      BY <2>2
    <3>2. f.sequence = ProductEvent(p).sequence
      BY DEF EventState
    <3> QED
      BY <1>2, <1>3, <2>1, <2>2, <3>1, <3>2 DEF Precedes
  <2> QED
    BY <2>2, <2>3, <2>4, <2>5, TombstoneAssumption
<1>4. f.sequence[1] = p.effective_date
  BY DEF EventState, ProductEvent
<1> HIDE DEF states, f
<1>5. PICK m \in kept : /\ m = f \/ Precedes(m, f)
                        /\ m.content = f.content
                        /\ \A q \in kept : (q = f \/ Precedes(q, f)) => q = m \/ Precedes(q, m)
  BY <1>1, <1>2, LastKeptSays
<1>6. kept \subseteq states
  BY DEF Collapse
<1>7. IsFiniteSet(kept) /\ Sequenced(kept) /\ OnePerSlot(kept)
  BY <1>1, CollapsedStates
<1> HIDE DEF kept
<1>8. m \in states /\ m.key = line.product_id
  BY <1>2, <1>5, <1>6 DEF Precedes
<1>9. m.sequence[1] # Null /\ m.sequence[1] <= line.sale_date
  <2>1. m.sequence[1] \in Int /\ f.sequence[1] \in Int
    BY <1>2, <1>3, <1>8
  <2>2. m.sequence[1] <= f.sequence[1]
    BY <1>5, <2>1, NullAssumption DEF Precedes, SeqLt, ValueLt
  <2> QED
    BY <1>4, <2>1, <2>2, NullAssumption
<1> DEFINE v == VersionOf(m, kept)
<1>10. v \in Materialize(kept)
  BY <1>5 DEF Materialize
<1>11. v.key = line.product_id /\ v.valid_from = m.sequence
  BY <1>8 DEF VersionOf
<1>12. m.content # Tombstone
  BY <1>3, <1>8
<1>13. v.attributes = p.category
  BY <1>2, <1>5, <1>12 DEF VersionOf
<1>14. IsOpen(v) \/ (v.valid_to[1] # Null /\ line.sale_date < v.valid_to[1])
  <2>1. CASE Later(m, kept) = {}
    BY <2>1 DEF VersionOf, IsOpen
  <2>2. CASE Later(m, kept) # {}
    <3>1. PICK u \in kept : Precedes(m, u) /\ v.valid_to = u.sequence
      BY <1>5, <1>7, <2>2, ValidToIsSuccessor
    <3>2. u \in states /\ u.key = line.product_id
      BY <1>6, <1>8, <3>1 DEF Precedes
    <3>3. ~(u = m \/ Precedes(u, m))
      BY <1>3, <1>8, <3>1, <3>2, SeqLtIrreflexive, SeqLtAsymmetric DEF Precedes
    <3>4. ~(u.sequence[1] <= line.sale_date)
      BY <1>3, <1>5, <3>2, <3>3
    <3>5. u.sequence[1] \in Int
      BY <1>3, <3>2
    <3> QED
      BY <3>1, <3>4, <3>5, NullAssumption
  <2> QED
    BY <2>1, <2>2
<1> HIDE DEF v
<1>15. v \in Matches(line, Materialize(kept))
  BY <1>9, <1>10, <1>11, <1>14 DEF Matches, ValidOn
<1> QED
  BY <1>1, <1>13, <1>15

\* The product that a completed update shows is the one as of the sale.
LEMMA AsOf ==
    ASSUME Placed, Read, NEW x \in FctSales(order_events_valid, DimProductHist(products_valid)),
           \A p \in products_valid :
               p.product_id = x.line.product_id => p.effective_date # Null
    PROVE  AsOfSale(x)
<1> DEFINE known == {p \in products_valid :
                        /\ p.product_id = x.line.product_id
                        /\ p.effective_date # Null /\ p.effective_date <= x.line.sale_date}
           last == {p \in known : \A q \in known :
                       ~SeqLt(ProductEvent(p).sequence, ProductEvent(q).sequence)}
           history == DimProductHist(products_valid)
<1>1. /\ order_events_valid \subseteq From(OrderEventRows)
      /\ products_valid \subseteq From(ProductRows)
  BY DEF Read
<1>2. x.line.sale_date \in Int
  BY <1>1, SaleTyped
<1>3. \/ x = [line |-> x.line, product |-> Null] /\ Matches(x.line, history) = {}
      \/ x.product \in Matches(x.line, history)
  BY SaleHasLine
<1>4. CASE known = {}
  <2>1. Matches(x.line, history) = {}
    BY <1>1, <1>4, MatchIsKnown
  <2>2. x.product = Null
    BY <1>3, <2>1
  <2> QED
    BY <1>4, <2>2 DEF AsOfSale
<1>5. CASE known # {}
  <2> DEFINE f == [p \in known |-> ProductEvent(p).sequence]
  <2>1. IsFiniteSet(known)
    BY <1>1, FS_Subset DEF Placed, From
  <2>2. \A p \in known : ProductEvent(p).sequence \in Sequence
    BY <1>1, ProductTyped, LandedRow
    DEF From, ProductEvent, Sequence, SortValue, IngestionOrders
  <2>3. DOMAIN f = known /\ f = [p \in known |-> f[p]]
        /\ \A p \in known : f[p] = ProductEvent(p).sequence
    OBVIOUS
  <2> HIDE DEF f
  <2>4. PICK p \in known : \A q \in known : f[q] = f[p] \/ SeqLt(f[q], f[p])
    <3> HIDE DEF known
    <3> QED
      BY <1>5, <2>1, <2>2, <2>3, LastExists
  <2>5. \A q \in known : q = p \/ SeqLt(ProductEvent(q).sequence, ProductEvent(p).sequence)
    <3> TAKE q \in known
    <3>1. ProductEvent(q).sequence = ProductEvent(p).sequence => q = p
      BY <1>1 DEF ProductEvent, From, Placed
    <3> QED
      BY <2>3, <2>4, <3>1
  <2>6. \A q \in last : q = p
    BY <2>5
  <2>7. PICK v \in Matches(x.line, history) : v.attributes = p.category
    BY <1>1, <1>2, <2>5, SaleMeetsLast
  <2>8. v \in Version(ProductKeys, Payloads)
    BY <1>1, MatchIsKnown
  <2>9. v # Null
    BY <2>8, SalesAssumption DEF ProductKeys
  <2>10. x.product = v
    BY <1>1, <1>2, <1>3, <2>7, SaleMeetsOne
  <2> QED
    BY <1>5, <2>6, <2>7, <2>9, <2>10 DEF AsOfSale
<1> QED
  BY <1>4, <1>5

-----------------------------------------------------------------------------
(* The orders.                                                             *)

\* An order has a row in fct_sales when compute_line_revenue gives it a line.
LEMMA SoldOrders ==
    ASSUME NEW events, NEW history, NEW o
    PROVE  (\E x \in FctSales(events, history) : x.line.order_id = o)
             <=> o \in RevenueOrders(events)
<1>1. ASSUME NEW x \in FctSales(events, history), x.line.order_id = o
      PROVE  o \in RevenueOrders(events)
  <2>1. PICK q \in RevenueOrders(events) : x.line = LineOf(events, q)
    BY SaleHasLine
  <2>2. x.line.order_id = q
    BY <2>1 DEF LineOf
  <2> QED
    BY <1>1, <2>2
<1>2. ASSUME o \in RevenueOrders(events)
      PROVE  \E x \in FctSales(events, history) : x.line.order_id = o
  <2>1. PICK x \in FctSales(events, history) : x.line = LineOf(events, o)
    BY <1>2, LineHasSale
  <2>2. x.line.order_id = o
    BY <2>1 DEF LineOf
  <2> QED
    BY <2>2
<1> QED
  BY <1>1, <1>2

\* It gets a line exactly when the last payment says what to charge.
LEMMA OrderAccountedFor ==
    ASSUME Placed, order_events_valid \subseteq From(OrderEventRows),
           NEW o \in Orders(order_events_valid)
    PROVE  LET of(type) == {e \in order_events_valid : e.order_id = o /\ e.event_type = type}
               final == {e \in of(Paid) : \A f \in of(Paid) :
                            ~SeqLt(EventSequence(e), EventSequence(f))}
               priced(e) ==
                   /\ e.price # Null
                   /\ \/ e.currency \in {Null, BaseCurrency}
                      \/ \E r \in Rates : r.currency = e.currency /\ r.effective_date <= e.event_ts
           IN  o \in RevenueOrders(order_events_valid)
                   <=> of(Cancelled) = {} /\ \E e \in final : priced(e)
<1> DEFINE of(type) == {e \in order_events_valid : e.order_id = o /\ e.event_type = type}
           final == {e \in of(Paid) : \A f \in of(Paid) :
                        ~SeqLt(EventSequence(e), EventSequence(f))}
           priced(e) ==
               /\ e.price # Null
               /\ \/ e.currency \in {Null, BaseCurrency}
                  \/ \E r \in Rates : r.currency = e.currency /\ r.effective_date <= e.event_ts
           paid == PaidEvent(order_events_valid, o)
<1>1. of(Paid) = PaidEvents(order_events_valid, o)
  BY DEF PaidEvents
<1>2. IsCancelled(order_events_valid, o) <=> of(Cancelled) # {}
  BY DEF IsCancelled
<1>3. \A e : priced(e) <=> e.price # Null /\ HasRate(CurrencyOf(e), e.event_ts)
  BY DEF CurrencyOf, HasRate, Applicable
<1>4. CASE of(Paid) = {}
  BY <1>1, <1>4 DEF RevenueOrders
<1>5. CASE of(Paid) # {}
  <2>1. /\ paid \in of(Paid)
        /\ \A f \in of(Paid) : f = paid \/ SeqLt(EventSequence(f), EventSequence(paid))
    BY <1>1, <1>5, PaidEventIsLast
  <2>2. \A e \in of(Paid) : EventSequence(e) \in Sequence
    BY OrderEventTyped, LandedRow DEF From, EventSequence, Sequence, SortValue, IngestionOrders
  <2> HIDE DEF of
  <2>3. paid \in final
    BY <2>1, <2>2, SeqLtIrreflexive, SeqLtAsymmetric
  <2>4. \A e \in final : e = paid
    BY <2>1
  <2> HIDE DEF final, priced
  <2>5. (\E e \in final : priced(e)) <=> priced(paid)
    BY <2>3, <2>4
  <2> QED
    BY <1>1, <1>2, <1>3, <1>5, <2>5 DEF RevenueOrders, of, final, priced
<1> QED
  BY <1>4, <1>5

\* A cancellation that nothing contests is valid whenever silver is read anew, itself
\* or as a copy of it.
LEMMA CancellationStays ==
    ASSUME Placed, NEW raw, raw \subseteq From(OrderEventRows), NEW e \in raw,
           \A r \in raw : r.event_id = e.event_id => Content(r) = Content(e)
    PROVE  \E c \in OrderEventsValid(raw) :
               c.order_id = e.order_id /\ c.event_type = e.event_type
<1> DEFINE copies == {q \in raw : Content(q) = Content(e)}
           f == [q \in copies |-> <<q.ingestion_order, Null>>]
           S == {f[q] : q \in copies}
<1>1. raw \subseteq landed /\ copies \subseteq raw /\ e \in copies
  BY DEF From
<1>2. IsFiniteSet(copies)
  BY <1>1, FS_Subset DEF Placed
<1>3. \A q \in copies : q.ingestion_order \in Int
  BY <1>1, LandedRow DEF IngestionOrders
<1>4. DOMAIN f = copies /\ f = [q \in copies |-> f[q]]
      /\ \A q \in copies : f[q] = <<q.ingestion_order, Null>>
  OBVIOUS
<1>5. \A q \in raw : q \in copies <=> Content(q) = Content(e)
  OBVIOUS
<1> HIDE DEF copies, f
<1>6. IsFiniteSet(S) /\ S \in SUBSET Sequence /\ S # {}
  <2>1. IsFiniteSet(S)
    BY <1>2, <1>4, ImageFinite
  <2>2. \A q \in copies : f[q] \in Sequence
    <3> TAKE q \in copies
    <3>1. <<q.ingestion_order, Null>> \in Sequence
      BY <1>3 DEF Sequence, SortValue
    <3> QED
      BY <1>4, <3>1
  <2>3. \A s \in S : s \in Sequence
    BY <2>2
  <2>4. f[e] \in S
    BY <1>1
  <2> HIDE DEF S
  <2> QED
    BY <2>1, <2>3, <2>4
<1>7. PICK s \in S : \A t \in S : s = t \/ SeqLt(s, t)
  <2> HIDE DEF S
  <2> QED
    BY <1>6, LeastExists DEF IsLeast
<1>8. PICK c \in copies : s = f[c]
  BY <1>7
<1>9. \A q \in copies : c.ingestion_order <= q.ingestion_order
  BY <1>3, <1>4, <1>7, <1>8, NullAssumption DEF SeqLt, ValueLt
<1>10. c \in raw /\ Content(c) = Content(e)
  BY <1>1, <1>5
<1>11. ASSUME NEW r \in raw
       PROVE  /\ DOMAIN r = OrderEventColumns
              /\ Content(r).event_id = r.event_id /\ Content(r).order_id = r.order_id
              /\ Content(r).event_type = r.event_type
  <2>1. r \in landed /\ Content(r) \in OrderEventRows
    BY DEF From
  <2>2. DOMAIN r = OrderEventColumns
    BY <2>1, LandedRow, SalesAssumption
  <2> QED
    BY <2>1, <2>2, LandedRow DEF OrderEventColumns
<1>12. c.event_id = e.event_id /\ c.order_id = e.order_id /\ c.event_type = e.event_type
  BY <1>10, <1>11
<1>13. FirstCopy(c, raw)
  BY <1>5, <1>9, <1>10 DEF FirstCopy
<1>14. c \in OrderEventsValid(raw)
  BY <1>10, <1>12, <1>13 DEF OrderEventsValid
<1> QED
  BY <1>12, <1>14

-----------------------------------------------------------------------------
(* The specification.                                                      *)

\* Cells are of a group, with an amount and at least one row.
LEMMA CellsTyped ==
    ASSUME NEW sales, IsFiniteSet(sales), \A x \in sales : x.line.amount_base \in Int,
           NEW raw, NEW rows, rows = {[sale |-> x, group |-> raw[x]] : x \in sales},
           NEW cell \in DailyAggregate(rows)
    PROVE  cell.group # Null /\ cell.total \in Int /\ cell.row_count \in Nat \ {0}
<1>1. PICK x \in sales : cell = CellOf(x, sales, raw)
  BY JoinedCells
<1> DEFINE P == Alike(x, sales, raw)
<1>2. x \in P /\ P \subseteq sales
  BY DEF Alike
<1>3. IsFiniteSet(P)
  BY <1>2, FS_Subset
<1> HIDE DEF P
<1>4. Cardinality(P) \in Nat /\ Cardinality(P) # 0
  BY <1>2, <1>3, FS_CardinalityType, FS_EmptySet
<1>5. \A y \in P : Amounts(sales)[y] \in Int
  BY <1>2 DEF Amounts
<1>6. SumOver(Amounts(sales), P) \in Int
  BY <1>3, <1>5, SumInt
<1>7. Bucket(raw[x]) # Null
  BY UnknownAssumption DEF Bucket
<1> QED
  BY <1>1, <1>4, <1>6, <1>7 DEF CellOf, P

\* What layers 3 to 5 are refreshed with is what TypeOK says.
LEMMA RefreshTyped ==
    ASSUME Placed,
           NEW events, events \subseteq From(OrderEventRows),
           NEW products, products \subseteq From(ProductRows),
           NEW stores, stores \subseteq From(StoreRows),
           NEW sales, sales = FctSales(events, DimProductHist(products)),
           NEW dim, dim = DimStore(DimStoreHist(stores))
    PROVE  /\ DimProductHist(products) \subseteq Version(ProductKeys, Payloads)
           /\ DimStoreHist(stores) \subseteq Version(StoreKeys, Payloads)
           /\ \A x \in sales :
                  /\ x.line.amount_base \in Int
                  /\ x.product = Null \/ x.product.key = x.line.product_id
           /\ \A cell \in DailyAggregate(SalesWithRegion(sales, dim))
                            \cup DailyAggregate(SalesWithStore(sales)) :
                  cell.group # Null /\ cell.total \in Int /\ cell.row_count \in Nat \ {0}
<1>1. DimProductHist(products) \subseteq Version(ProductKeys, Payloads)
  <2>1. WellFormed(Materialize(Collapse(ProductStates(products))), ProductKeys, Payloads)
    BY ProductHistory, RebuildWellFormed
  <2> QED
    BY <2>1, ProductHistory DEF WellFormed
<1>2. DimStoreHist(stores) \subseteq Version(StoreKeys, Payloads)
  <2>1. WellFormed(Materialize(Collapse(StoreStates(stores))), StoreKeys, Payloads)
    BY StoreHistory, RebuildWellFormed
  <2> QED
    BY <2>1, StoreHistory DEF WellFormed
<1>3. /\ IsFiniteSet(sales)
      /\ \A x \in sales : /\ x.line.amount_base \in Int
                          /\ x.product = Null \/ x.product.key = x.line.product_id
  BY SalesFinite, SaleTyped
<1>4. \A cell \in DailyAggregate(SalesWithRegion(sales, dim)) :
          cell.group # Null /\ cell.total \in Int /\ cell.row_count \in Nat \ {0}
  <2> DEFINE raw == [x \in sales |-> RegionFound(x.line.store_id, dim)]
             rows == SalesWithRegion(sales, dim)
  <2>1. rows = {[sale |-> x, group |-> RegionFound(x.line.store_id, dim)] : x \in sales}
    BY RegionJoined
  <2>2. \A x \in sales : raw[x] = RegionFound(x.line.store_id, dim)
    OBVIOUS
  <2> HIDE DEF raw, rows
  <2>3. rows = {[sale |-> x, group |-> raw[x]] : x \in sales}
    BY <2>1, <2>2
  <2>4. \A cell \in DailyAggregate(rows) :
            cell.group # Null /\ cell.total \in Int /\ cell.row_count \in Nat \ {0}
    BY <1>3, <2>3, CellsTyped
  <2> QED
    BY <2>4 DEF rows
<1>5. \A cell \in DailyAggregate(SalesWithStore(sales)) :
          cell.group # Null /\ cell.total \in Int /\ cell.row_count \in Nat \ {0}
  <2> DEFINE raw == [x \in sales |-> x.line.store_id]
             rows == SalesWithStore(sales)
  <2>1. \A x \in sales : raw[x] = x.line.store_id
    OBVIOUS
  <2> HIDE DEF raw
  <2>2. rows = {[sale |-> x, group |-> raw[x]] : x \in sales}
    BY <2>1 DEF SalesWithStore
  <2> HIDE DEF rows
  <2>3. \A cell \in DailyAggregate(rows) :
            cell.group # Null /\ cell.total \in Int /\ cell.row_count \in Nat \ {0}
    BY <1>3, <2>2, CellsTyped
  <2> QED
    BY <2>3 DEF rows
<1> QED
  BY <1>1, <1>2, <1>3, <1>4, <1>5

\* Nothing has landed and there are no sales.
LEMMA InitEstablishes == Init => IInv
BY FS_EmptySet DEF Init, IInv, Placed, Read, Recomputed, TypeOK, OneRowPerOrder

\* A row lands at a free place, where no update has seen it yet.
LEMMA LandPreserves ==
    ASSUME IInv, NEW i \in IngestionOrders,
           NEW row \in OrderEventRows \cup ProductRows \cup StoreRows, Land(i, row)
    PROVE  IInv'
<1> DEFINE new == [row EXCEPT !.ingestion_order = i]
<1>1. new.ingestion_order = i
  BY SalesAssumption, StoresAssumption
  DEF OrderEventColumns, ProductColumns, StoreColumns
<1>2. landed' = landed \cup {new} /\ \A r \in landed : r.ingestion_order # i
  BY DEF Land
<1>3. new \in Ingested(OrderEventRows \cup ProductRows \cup StoreRows)
  BY DEF Ingested
<1> HIDE DEF new
<1>4. UNCHANGED <<bronze, silver, dims, gold, outcome>>
  BY DEF Land
<1>5. landed' \subseteq Ingested(OrderEventRows \cup ProductRows \cup StoreRows)
  BY <1>2, <1>3 DEF IInv, Placed
<1>6. Placed'
  <2>1. IsFiniteSet(landed')
    BY <1>2, FS_AddElement DEF IInv, Placed
  <2>2. \A r, q \in landed' : r.ingestion_order = q.ingestion_order => r = q
    BY <1>1, <1>2 DEF IInv, Placed
  <2> QED
    BY <1>5, <2>1, <2>2 DEF Placed, Ingested, IngestionOrders
<1>7. Read'
  BY <1>2, <1>4 DEF IInv, Read, From, bronze, silver
<1>8. Recomputed' /\ OneRowPerOrder'
  BY <1>4 DEF IInv, Recomputed, OneRowPerOrder, silver, dims, gold
<1>9. TypeOK'
  BY <1>4, <1>5 DEF IInv, TypeOK, silver, dims, gold, Ingested, IngestionOrders
<1> QED
  BY <1>6, <1>7, <1>8, <1>9 DEF IInv

\* An update refreshes the layers it reaches from what has landed.
LEMMA UpdatePreserves ==
    ASSUME IInv, NEW last \in Layers, Update(last)
    PROVE  IInv'
<1>1. landed' = landed /\ last >= 1
  BY DEF Update, Layers
<1>2. Placed /\ Read /\ Recomputed /\ TypeOK /\ OneRowPerOrder
  BY DEF IInv
<1>3. Placed'
  BY <1>1, <1>2 DEF Placed, Ingested, IngestionOrders
<1>4. /\ order_events_raw' = From(OrderEventRows) /\ products_raw' = From(ProductRows)
      /\ stores_raw' = From(StoreRows)
  BY <1>1 DEF Update
<1>5. /\ order_events_valid' \subseteq order_events_raw'
      /\ products_valid' \subseteq products_raw'
      /\ stores_valid' \subseteq stores_raw'
  <2>1. CASE last >= 2
    BY <2>1 DEF Update, OrderEventsValid, ProductsValid, StoresValid
  <2>2. CASE ~(last >= 2)
    BY <1>2, <1>4, <2>2 DEF Update, silver, Read
  <2> QED
    BY <2>1, <2>2
<1>6. Read'
  BY <1>1, <1>4, <1>5 DEF Read, From
<1>7. /\ order_events_valid' \subseteq From(OrderEventRows)
      /\ products_valid' \subseteq From(ProductRows)
      /\ stores_valid' \subseteq From(StoreRows)
  BY <1>4, <1>5
<1>8. \/ /\ dim_product_hist' = DimProductHist(products_valid')
         /\ dim_store_hist' = DimStoreHist(stores_valid')
      \/ last < 3 /\ dim_product_hist' = dim_product_hist /\ dim_store_hist' = dim_store_hist
  BY DEF Update, dims, Layers
<1>9. \/ /\ fct_sales' = FctSales(order_events_valid', DimProductHist(products_valid'))
         /\ dim_store' = DimStore(DimStoreHist(stores_valid'))
      \/ last < 4 /\ fct_sales' = fct_sales /\ dim_store' = dim_store
  <2>1. CASE last >= 4
    <3>1. last >= 3
      BY <2>1 DEF Layers
    <3> QED
      BY <2>1, <3>1 DEF Update
  <2>2. CASE ~(last >= 4)
    BY <2>2 DEF Update, Layers
  <2> QED
    BY <2>1, <2>2
<1>10. \/ /\ last = 5
          /\ sales_per_region_daily' = DailyAggregate(SalesWithRegion(fct_sales', dim_store'))
          /\ sales_per_store_daily' = DailyAggregate(SalesWithStore(fct_sales'))
       \/ /\ last # 5
          /\ sales_per_region_daily' = sales_per_region_daily
          /\ sales_per_store_daily' = sales_per_store_daily
  BY DEF Update, Layers
<1>11. outcome' = IF last = 5 THEN "completed" ELSE "failed"
  BY DEF Update
<1>12. Recomputed'
  <2>1. CASE last = 5
    <3>1. ~(last < 3) /\ ~(last < 4)
      BY <2>1
    <3> QED
      BY <1>8, <1>9, <1>10, <2>1, <3>1 DEF Recomputed, FctSales, DimStore
  <2>2. CASE last # 5
    BY <1>11, <2>2 DEF Recomputed
  <2> QED
    BY <2>1, <2>2
<1>13. OneRowPerOrder'
  <2>1. CASE fct_sales' = FctSales(order_events_valid', DimProductHist(products_valid'))
    BY <1>2, <1>7, <2>1, SalesOneRowPerOrder DEF OneRowPerOrder
  <2>2. CASE fct_sales' = fct_sales
    BY <1>2, <2>2 DEF OneRowPerOrder
  <2> QED
    BY <1>9, <2>1, <2>2
<1>14. TypeOK'
  <2>1. landed' \subseteq Ingested(OrderEventRows \cup ProductRows \cup StoreRows)'
    BY <1>3 DEF Placed, Ingested, IngestionOrders
  <2>2. /\ order_events_valid' \subseteq Ingested(OrderEventRows)
        /\ products_valid' \subseteq Ingested(ProductRows)
        /\ stores_valid' \subseteq Ingested(StoreRows)
    BY <1>2, <1>7, FromIngested
  <2>3. /\ dim_product_hist' \subseteq Version(ProductKeys, Payloads)
        /\ dim_store_hist' \subseteq Version(StoreKeys, Payloads)
    BY <1>2, <1>7, <1>8, RefreshTyped DEF TypeOK, ProductKeys, StoreKeys
  <2>4. \A x \in fct_sales' :
            /\ x.line.amount_base \in Int
            /\ x.product = Null \/ x.product.key = x.line.product_id
    <3>1. CASE fct_sales' = FctSales(order_events_valid', DimProductHist(products_valid'))
      BY <1>2, <1>7, <3>1, SaleTyped
    <3>2. CASE fct_sales' = fct_sales
      BY <1>2, <3>2 DEF TypeOK
    <3> QED
      BY <1>9, <3>1, <3>2
  <2>5. \A cell \in sales_per_region_daily' \cup sales_per_store_daily' :
            cell.group # Null /\ cell.total \in Int /\ cell.row_count \in Nat \ {0}
    <3>1. CASE last = 5
      <4> DEFINE sales == FctSales(order_events_valid', DimProductHist(products_valid'))
                 dim == DimStore(DimStoreHist(stores_valid'))
      <4>1. ~(last < 4)
        BY <3>1
      <4>2. /\ sales_per_region_daily' = DailyAggregate(SalesWithRegion(sales, dim))
            /\ sales_per_store_daily' = DailyAggregate(SalesWithStore(sales))
        BY <1>9, <1>10, <3>1, <4>1
      <4>3. \A cell \in DailyAggregate(SalesWithRegion(sales, dim))
                          \cup DailyAggregate(SalesWithStore(sales)) :
                cell.group # Null /\ cell.total \in Int /\ cell.row_count \in Nat \ {0}
        BY <1>2, <1>7, RefreshTyped
      <4> QED
        BY <4>2, <4>3
    <3>2. CASE last # 5
      BY <1>2, <1>10, <3>2 DEF TypeOK
    <3> QED
      BY <3>1, <3>2
  <2>6. outcome' \in {"none", "completed", "failed"}
    BY <1>11
  <2> QED
    BY <2>1, <2>2, <2>3, <2>4, <2>5, <2>6 DEF TypeOK, ProductKeys, StoreKeys, Ingested, IngestionOrders
<1> QED
  BY <1>3, <1>6, <1>12, <1>13, <1>14 DEF IInv

LEMMA NextPreserves == IInv /\ [Next]_vars => IInv'
<1> SUFFICES ASSUME IInv, [Next]_vars PROVE IInv'
  OBVIOUS
<1>1. CASE Next
  BY <1>1, LandPreserves, UpdatePreserves DEF Next
<1>2. CASE UNCHANGED vars
  BY <1>2 DEF vars, bronze, silver, dims, gold, IInv, Placed, Read, From, Recomputed,
              TypeOK, OneRowPerOrder, Ingested, IngestionOrders
<1> QED
  BY <1>1, <1>2

LEMMA InductiveInvariant == Spec => []IInv
BY InitEstablishes, NextPreserves, PTL DEF Spec

\* Every table holds what its columns say: amounts and totals are whole cents, no group
\* is null, and a version that a sale shows is one of its product.
THEOREM TypeCorrect == Spec => []TypeOK
<1>1. IInv => TypeOK
  BY DEF IInv
<1> QED
  BY <1>1, InductiveInvariant, PTL

\* No order is counted twice in fct_sales, whatever lands and whichever updates fail.
THEOREM NoOrderTwice == Spec => []OneRowPerOrder
<1>1. IInv => OneRowPerOrder
  BY DEF IInv
<1> QED
  BY <1>1, InductiveInvariant, PTL

\* An order is in fct_sales exactly when nothing cancels it and its last payment says
\* what to charge.
THEOREM OrdersCounted == Spec => []OrdersAccountedFor
<1>1. IInv => OrdersAccountedFor
  <2> SUFFICES ASSUME IInv, outcome = "completed" PROVE OrdersAccountedFor
    BY DEF OrdersAccountedFor
  <2>1. /\ fct_sales = FctSales(order_events_valid, dim_product_hist)
        /\ Placed /\ order_events_valid \subseteq From(OrderEventRows)
    BY DEF IInv, Recomputed, Read
  <2>2. \A o : (\E x \in fct_sales : x.line.order_id = o) <=> o \in RevenueOrders(order_events_valid)
    BY <2>1, SoldOrders
  <2> QED
    BY <2>1, <2>2, OrderAccountedFor DEF OrdersAccountedFor
<1> QED
  BY <1>1, InductiveInvariant, PTL

\* A sale shows its product as of its day.
THEOREM ProductsAsOfSale == Spec => []DatedProductAsOfSale
<1>1. IInv => DatedProductAsOfSale
  BY AsOf DEF IInv, Recomputed, DatedProductAsOfSale
<1> QED
  BY <1>1, InductiveInvariant, PTL

\* Both daily tables add up to fct_sales, by the store's region now and by store.
THEOREM TotalsConserved == Spec => []TotalsReported
<1>1. IInv => TotalsReported
  <2> SUFFICES ASSUME IInv, outcome = "completed" PROVE TotalsReported
    BY DEF TotalsReported
  <2>1. /\ Placed /\ order_events_valid \subseteq From(OrderEventRows)
        /\ products_valid \subseteq From(ProductRows) /\ stores_valid \subseteq From(StoreRows)
        /\ fct_sales = FctSales(order_events_valid, DimProductHist(products_valid))
        /\ dim_store = DimStore(DimStoreHist(stores_valid))
        /\ sales_per_region_daily = DailyAggregate(SalesWithRegion(fct_sales, dim_store))
        /\ sales_per_store_daily = DailyAggregate(SalesWithStore(fct_sales))
    BY DEF IInv, Recomputed, Read
  <2>2. IsFiniteSet(fct_sales) /\ \A x \in fct_sales : x.line.amount_base \in Int
    BY <2>1, SalesFinite, SaleTyped
  <2>3. Reports(sales_per_region_daily, fct_sales,
                [x \in fct_sales |-> RegionNow(x.line.store_id)])
    <3> DEFINE raw == [x \in fct_sales |-> RegionFound(x.line.store_id, dim_store)]
               rows == SalesWithRegion(fct_sales, dim_store)
               group == [x \in fct_sales |-> RegionNow(x.line.store_id)]
    <3>1. /\ rows = {[sale |-> x, group |-> RegionFound(x.line.store_id, dim_store)] : x \in fct_sales}
          /\ \A id : Bucket(RegionFound(id, dim_store)) = RegionBy(id, stores_valid)
      BY <2>1, RegionJoined
    <3>2. \A id : RegionBy(id, stores_valid) = RegionNow(id)
      BY DEF RegionBy, RegionNow
    <3>3. \A x \in fct_sales : raw[x] = RegionFound(x.line.store_id, dim_store)
      OBVIOUS
    <3> HIDE DEF raw, rows
    <3>4. rows = {[sale |-> x, group |-> raw[x]] : x \in fct_sales}
      BY <3>1, <3>3
    <3>5. group = [x \in fct_sales |-> Bucket(raw[x])]
      BY <3>1, <3>2, <3>3
    <3> HIDE DEF group
    <3>6. Reports(DailyAggregate(rows), fct_sales, group)
      BY <2>2, <3>4, <3>5, TablesReport
    <3> QED
      BY <2>1, <3>6 DEF rows, group
  <2>4. Reports(sales_per_store_daily, fct_sales,
                [x \in fct_sales |-> Bucket(x.line.store_id)])
    <3> DEFINE raw == [x \in fct_sales |-> x.line.store_id]
               rows == SalesWithStore(fct_sales)
               group == [x \in fct_sales |-> Bucket(x.line.store_id)]
    <3>1. \A x \in fct_sales : raw[x] = x.line.store_id
      OBVIOUS
    <3> HIDE DEF raw
    <3>2. rows = {[sale |-> x, group |-> raw[x]] : x \in fct_sales}
      BY <3>1 DEF SalesWithStore
    <3>3. group = [x \in fct_sales |-> Bucket(raw[x])]
      BY <3>1
    <3> HIDE DEF group, rows
    <3>4. Reports(DailyAggregate(rows), fct_sales, group)
      BY <2>2, <3>2, <3>3, TablesReport
    <3> QED
      BY <2>1, <3>4 DEF rows, group
  <2> QED
    BY <2>3, <2>4 DEF TotalsReported
<1> QED
  BY <1>1, InductiveInvariant, PTL

\* A cancellation for which no other event takes the event_id keeps its order out of
\* revenue, whatever lands later and however updates end.
THEOREM CancelledStayOut == Spec => UncontestedCancelledStaysOut
<1>1. IInv /\ IInv' /\ [Next]_vars =>
          (outcome' = "completed" =>
              \A x \in fct_sales' : \A e \in CancellationsOf(x.line.order_id) :
                  \E r \in order_events_raw' :
                      r.event_id = e.event_id /\ Content(r) # Content(e))
  <2> SUFFICES ASSUME IInv, [Next]_vars, outcome' = "completed",
                      NEW x \in fct_sales', NEW e \in CancellationsOf(x.line.order_id),
                      \A r \in order_events_raw' : r.event_id = e.event_id => Content(r) = Content(e)
               PROVE  FALSE
    OBVIOUS
  <2>1. /\ e \in order_events_valid /\ e.order_id = x.line.order_id /\ e.event_type = Cancelled
        /\ e \in From(OrderEventRows)
    BY DEF CancellationsOf, IInv, Read
  <2>2. CASE fct_sales' = fct_sales /\ outcome' = outcome
    <3>1. x \in FctSales(order_events_valid, dim_product_hist)
      BY <2>2 DEF IInv, Recomputed
    <3>2. x.line.order_id \in RevenueOrders(order_events_valid)
      BY <3>1, SoldOrders
    <3> QED
      BY <2>1, <3>2 DEF RevenueOrders, IsCancelled
  <2>3. CASE Update(5)
    <3>1. /\ order_events_raw' = From(OrderEventRows)
          /\ order_events_valid' = OrderEventsValid(order_events_raw')
          /\ fct_sales' = FctSales(order_events_valid', dim_product_hist')
      BY <2>3 DEF Update
    <3>2. x.line.order_id \in RevenueOrders(order_events_valid')
      BY <3>1, SoldOrders
    <3>3. PICK c \in order_events_valid' :
              c.order_id = e.order_id /\ c.event_type = e.event_type
      BY <2>1, <3>1, CancellationStays DEF IInv
    <3> QED
      BY <2>1, <3>2, <3>3 DEF RevenueOrders, IsCancelled
  <2>4. \/ fct_sales' = fct_sales /\ outcome' = outcome
        \/ Update(5)
    <3>1. ASSUME NEW last \in Layers, Update(last) PROVE last = 5
      BY <3>1 DEF Update
    <3>2. ASSUME NEW i \in IngestionOrders,
                 NEW row \in OrderEventRows \cup ProductRows \cup StoreRows, Land(i, row)
          PROVE  fct_sales' = fct_sales /\ outcome' = outcome
      BY <3>2 DEF Land, gold
    <3>3. UNCHANGED vars => fct_sales' = fct_sales /\ outcome' = outcome
      BY DEF vars, gold
    <3> QED
      BY <3>1, <3>2, <3>3 DEF Next
  <2> QED
    BY <2>2, <2>3, <2>4
<1> QED
  BY <1>1, InductiveInvariant, PTL DEF Spec, UncontestedCancelledStaysOut
=============================================================================
