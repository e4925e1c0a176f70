--------------------------- MODULE FunnelPipeline ---------------------------
(***************************************************************************)
(* The funnel branch of the production pipeline (spark/declarations.py):   *)
(*                                                                         *)
(*   customer_activity_valid \                                             *)
(*                             (funnel_sessions) -> funnel_conversion_daily *)
(*   order_events_valid      /                                             *)
(*                                                                         *)
(* Activity is observed and never quarantined but for a missing            *)
(* activity_id: duplicates of events reach the funnel.  Order events are   *)
(* those that no other event contests (SalesPipeline has the contested,    *)
(* and the updates that stop half way).                                    *)
(***************************************************************************)
EXTENDS Funnel

CONSTANTS
    ActivityRows,     \* customer_activity events that may land, their
                      \* ingestion_order yet Null
    OrderRows,        \* the same of order events
    MaxLandings       \* bound: rows landed

ActivityColumns ==
    {"ingestion_order", "session_id", "customer_id", "activity_type", "activity_ts"}

OrderColumns == {"ingestion_order", "order_id", "customer_id", "event_type", "event_ts"}

ASSUME LandingsAssumption ==
    /\ MaxLandings \in Nat
    /\ \A e \in ActivityRows : DOMAIN e = ActivityColumns /\ e.activity_ts \in Int
    /\ \A o \in OrderRows : DOMAIN o = OrderColumns /\ o.event_ts \in Int

VARIABLES
    landed,
    customer_activity_valid,
    order_events_valid,
    sessions,                   \* the rows of funnel_sessions, not a table
    funnel_conversion_daily

silver == <<customer_activity_valid, order_events_valid>>
vars == <<landed, silver, sessions, funnel_conversion_daily>>

IngestionOrders == 1..MaxLandings

\* The landed rows of one source.
From(rows) == {r \in landed : [r EXCEPT !.ingestion_order = Null] \in rows}

\* The filter in funnel_conversion_daily.
PaidOrders == {o \in order_events_valid : o.event_type = "PAID"}

-----------------------------------------------------------------------------
Init ==
    /\ landed = {}
    /\ customer_activity_valid = {} /\ order_events_valid = {}
    /\ sessions = {} /\ funnel_conversion_daily = {}

\* A row lands, at any place in the order of all rows, which is by file name.
Land(i, row) ==
    /\ \A r \in landed : r.ingestion_order # i
    /\ landed' = landed \cup {[row EXCEPT !.ingestion_order = i]}
    /\ UNCHANGED <<silver, sessions, funnel_conversion_daily>>

\* A completed update.
Update ==
    /\ customer_activity_valid' = From(ActivityRows)
    /\ order_events_valid' = From(OrderRows)
    /\ sessions' = FunnelSessions(customer_activity_valid', PaidOrders')
    /\ funnel_conversion_daily' = FunnelDaily(sessions')
    /\ UNCHANGED landed

Next ==
    \/ \E i \in IngestionOrders, row \in ActivityRows \cup OrderRows : Land(i, row)
    \/ Update

Spec == Init /\ [][Next]_vars

-----------------------------------------------------------------------------
TypeOK ==
    /\ \A r \in landed : r.ingestion_order \in IngestionOrders
    /\ customer_activity_valid \cup order_events_valid \subseteq landed
    /\ \A s \in sessions :
           /\ s.stage \in StageNone..StageConverted
           /\ s.converted \in BOOLEAN /\ s.cart_regressed \in BOOLEAN
           /\ s.session_date \in Int

EventsOf(s) ==
    {e \in customer_activity_valid :
        e.session_id = s.session_id /\ e.customer_id = s.customer_id}

\* A session's stage, regression and conversion are what funnel.py's contract says of
\* its events as a set, in whatever order they landed: the highest stage, a removal with
\* a cart add before it and none after it, and a PAID order of the customer within a day
\* of the last cart add, both ends included.  (Any PAID order: that the contract asks for
\* one that counts as revenue is ConversionsAreRevenue.)
SessionsAsDocumented ==
    \A s \in sessions :
        LET adds    == {e \in EventsOf(s) : e.activity_type = CartAdd}
            removes == {e \in EventsOf(s) : e.activity_type = CartRemove}
            browsed == \E e \in EventsOf(s) : e.activity_type \in BrowseEvents
        IN  /\ s.stage = IF s.converted THEN StageConverted
                         ELSE IF adds # {} THEN StageCart
                         ELSE IF browsed THEN StageBrowse ELSE StageNone
            /\ s.cart_regressed <=>
                   \E r \in removes : /\ \E a \in adds : Before(a, r)
                                      /\ \A a \in adds : Before(a, r)
            /\ s.converted <=>
                   /\ s.customer_id # Null
                   /\ \E a \in adds, o \in PaidOrders :
                          /\ \A b \in adds : b = a \/ Before(b, a)
                          /\ o.customer_id = s.customer_id
                          /\ o.event_ts - a.activity_ts \in 0..Window

\* A session whose events all name one customer, or none, is one row with the verdict
\* that the oracle gives it when run over all activity and orders at once (ADR-0011:
\* grouping by customer is "zero translation risk").
WholeSessionsAgree ==
    \A whole \in AttributeConversions(customer_activity_valid, PaidOrders) :
        LET rows == {s \in sessions : s.session_id = whole.session_id}
            customers == {e.customer_id :
                e \in {f \in customer_activity_valid : f.session_id = whole.session_id}}
        IN  Cardinality(customers) = 1 =>
                \E s \in rows :
                    /\ rows = {s}
                    /\ \A field \in {"customer_id", "stage", "converted", "cart_regressed"} :
                           s[field] = whole[field]

\* Every session is counted, on one day only, and no day has more conversions than
\* carts or more carts than sessions.
DailyCountsSessions ==
    /\ MapThenSumSet(LAMBDA d : d.sessions, funnel_conversion_daily)
         = Cardinality({<<e.session_id, e.customer_id>> : e \in customer_activity_valid})
    /\ \A d \in funnel_conversion_daily :
           d.converted <= d.carted /\ d.carted <= d.sessions

\* What a session has reached short of conversion is permanent: no row that lands
\* later, or earlier in the sequence, takes it back ("Progression is monotone").
StageNeverFalls ==
    [][\A s \in sessions : \E t \in sessions' :
          /\ t.session_id = s.session_id /\ t.customer_id = s.customer_id
          /\ s.stage <= t.stage \/ t.stage >= StageCart]_vars

\* A conversion is not permanent, but only a cart add of the session that is later
\* than those known so far takes it back.
ConversionLostToCartAdd ==
    [][\A s \in sessions, t \in sessions' :
          /\ t.session_id = s.session_id /\ t.customer_id = s.customer_id
          /\ s.converted /\ ~t.converted
          => \E e \in customer_activity_valid' :
                /\ e.session_id = s.session_id /\ e.customer_id = s.customer_id
                /\ e.activity_type = CartAdd
                /\ \A f \in EventsOf(s) : f.activity_type = CartAdd => Before(f, e)]_vars

\* A session converts for an order that counts as revenue: funnel.py attributes "a PAID
\* revenue-eligible order", and a cancelled order is not one.
ConversionsAreRevenue ==
    \A s \in sessions : s.converted =>
        \E o \in PaidOrders :
            /\ o.customer_id = s.customer_id
            /\ ~\E c \in order_events_valid :
                   c.order_id = o.order_id /\ c.event_type = "CANCELLED"
=============================================================================
