-------------------------- MODULE MCFunnelPipeline --------------------------
(***************************************************************************)
(* Small instances of FunnelPipeline: two sessions, one customer or none,  *)
(* two ticks to the day.  An order lies at each end of the window of the   *)
(* cart add at 1, one just outside of the windows of the adds at 2 on      *)
(* either side; the add at 4 comes after two orders.                       *)
(***************************************************************************)
EXTENDS FunnelPipeline

CONSTANTS s1, s2, c1, o1, o2, o3

Activity(session, customer, type, ts) ==
    [ingestion_order |-> Null, session_id |-> session, customer_id |-> customer,
     activity_type |-> type, activity_ts |-> ts]

OrderEvent(order, type, ts) ==
    [ingestion_order |-> Null, order_id |-> order, customer_id |-> c1,
     event_type |-> type, event_ts |-> ts]

MCActivityRows ==
    {Activity(s1, c1, type, ts) : type \in {"PAGE_VIEW", CartAdd, CartRemove}, ts \in {1, 2}}
      \cup {Activity(s1, Null, CartAdd, 2), Activity(s2, Null, "SEARCH", 1),
            Activity(s2, c1, "WISHLIST", 0), Activity(s1, c1, CartAdd, 4)}

MCOrderRows ==
    {OrderEvent(o1, "PAID", 3), OrderEvent(o1, "CANCELLED", 3), OrderEvent(o2, "PAID", 5),
     OrderEvent(o3, "PAID", 1)}
=============================================================================
