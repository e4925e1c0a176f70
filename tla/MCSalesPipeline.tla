-------------------------- MODULE MCSalesPipeline --------------------------
(***************************************************************************)
(* Small instances of SalesPipeline: one product, two orders, days 1 to 3, *)
(* and a currency whose first rate is of day 2.                            *)
(***************************************************************************)
EXTENDS SalesPipeline

CONSTANTS o1, o2, p1, north, nowhere

MCRates == {[currency |-> "THB", effective_date |-> 2, per_base |-> 2]}
MCPayloads == {1, 2}
MCSparkRank == [p \in MCPayloads |-> p]
MCRegionOf == [p \in MCPayloads |-> <<"NORTH", "SOUTH">>[p]]

\* The store moves, an old row of it comes again, and one disagrees with another.
MCStoreRows ==
    [ingestion_order : {Null}, store_id : {north}, update_date : {2}, attributes : {1, 2}]
      \cup [ingestion_order : {Null}, store_id : {north}, update_date : {Null}, attributes : {1}]
      \cup [ingestion_order : {Null}, store_id : {north}, update_date : {1}, attributes : {2}]

OrderEvent(id, order, type, day, price, currency, store) ==
    [ingestion_order |-> Null, event_id |-> id, order_id |-> order, event_type |-> type, event_ts |-> day,
     price |-> price, currency |-> currency, product_id |-> p1, store_id |-> store]

MCOrderEventRows ==
    {OrderEvent(1, o1, Paid, 1, 5, "USD", north), OrderEvent(1, o1, Paid, 2, 5, "THB", nowhere),
     OrderEvent(2, o1, Paid, 2, 7, "USD", north), OrderEvent(2, o1, Paid, 1, 5, "THB", north),
     OrderEvent(2, o1, Cancelled, 1, 5, "USD", north), OrderEvent(3, o2, "PLACED", 1, 5, "USD", north),
     OrderEvent(3, o2, Paid, 2, 3, Null, Null), OrderEvent(1, o2, Paid, 3, -5, "THB", nowhere),
     OrderEvent(4, o2, Paid, 3, Null, "USD", north)}

MCProductRows ==
    [ingestion_order : {Null}, product_id : {p1}, effective_date : {2}, category : {1, 2}]
      \cup [ingestion_order : {Null}, product_id : {p1}, effective_date : {Null, 1, 3}, category : {1}]
=============================================================================
