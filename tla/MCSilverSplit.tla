--------------------------- MODULE MCSilverSplit ---------------------------
(***************************************************************************)
(* Small instances of SilverSplit, with the rules of conf/dq_rules.yml on  *)
(* a few columns: order_events quarantines duplicates, customer_updates    *)
(* observes them and has key-only deletes.                                 *)
(***************************************************************************)
EXTENDS SilverSplit, TLC

CONSTANTS Space, Tab, D, DSpace, DTab, U, id1, one, zero, junk, early, late, year

\* A tab is stripped by Python and not by Spark, a space by both.
MCStrip == Space :> Empty @@ Tab :> Empty @@ DSpace :> D @@ DTab :> D
MCTrim == Space :> Empty @@ DSpace :> D

Quarantine(rule, column) ==
    [rule |-> rule, column |-> column, severity |-> "quarantine",
     accepts |-> {}, rlike |-> {}, skew |-> 1]

\* With a window of one: early lies on its edge at 1 and beyond it at 2, and late is
\* implausible at 1 and not at 2.  Of a year alone only Spark makes an instant.
Instants == early :> 0 @@ late :> 3
SparkInstants == Instants @@ year :> 0

OrderEvents ==
    [columns |-> {"event_id", "quantity", "event_ts"},
     casts |-> [quantity |-> (one :> 1 @@ zero :> 0), event_ts |-> Instants],
     try_casts |-> [quantity |-> (one :> 1 @@ zero :> 0), event_ts |-> SparkInstants],
     cast_severity |-> "quarantine",
     identity |-> {"event_id"}, op_column |-> Null, delete_payload |-> Null,
     duplicate |-> "quarantine",
     rules |-> {Quarantine("null_key", "event_id"),
                [Quarantine("range", "quantity") EXCEPT !.accepts = {1}],
                Quarantine("plausibility", "event_ts")}]

CustomerUpdates ==
    [columns |-> {"op", "customer_id", "change_ts", "birth_date"},
     casts |-> [customer_id |-> (id1 :> 1), change_ts |-> Instants,
                birth_date |-> Instants],
     try_casts |-> [customer_id |-> (id1 :> 1), change_ts |-> SparkInstants,
                    birth_date |-> SparkInstants],
     cast_severity |-> "quarantine",
     identity |-> {"customer_id", "change_ts"}, op_column |-> "op",
     delete_payload |-> "key_only", duplicate |-> "observe",
     rules |-> {Quarantine("null_key", "customer_id"), Quarantine("null_key", "change_ts"),
                [Quarantine("domain", "op") EXCEPT !.accepts = {U, D}],
                Quarantine("plausibility", "change_ts")}]

MCRuleSetOf == [order_events |-> OrderEvents, customer_updates |-> CustomerUpdates]

MCEventTimeOf == [order_events |-> "event_ts", customer_updates |-> Null]

\* Every rule of the two sources is violated by some record.
MCRecordsOf ==
    [order_events |->
        [event_id : {id1}, quantity : {one}, event_ts : {early, late, year}]
          \cup [event_id : {id1}, quantity : {zero, junk}, event_ts : {early}]
          \cup [event_id : {Space, Tab}, quantity : {one}, event_ts : {early}],
     customer_updates |->
        [op : {U}, customer_id : {id1}, change_ts : {early, late}, birth_date : {junk}]
          \cup [op : {D}, customer_id : {id1, Null}, change_ts : {early}, birth_date : {Null}]
          \cup [op : {D}, customer_id : {id1}, change_ts : {Space}, birth_date : {Null}]
          \cup [op : {D, DSpace, DTab, junk}, customer_id : {id1}, change_ts : {early},
                birth_date : {junk}]]
=============================================================================
