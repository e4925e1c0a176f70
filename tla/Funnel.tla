------------------------------- MODULE Funnel -------------------------------
(***************************************************************************)
(* transform/funnel.py and gold_compiler.funnel_sessions: how far each     *)
(* session came, and whether an order of its customer converts it.         *)
(*                                                                         *)
(* An activity event has its ingestion_order, session_id, customer_id      *)
(* (Null when anonymous), activity_type and activity_ts; times are         *)
(* integers, DayLength of them to a day, and never missing here.  Which    *)
(* order converts and how many events repeat a stage is left out.          *)
(***************************************************************************)
EXTENDS Ordering, FiniteSets, SequencesExt

CONSTANTS DayLength

ASSUME FunnelAssumption == DayLength \in Nat \ {0}

BrowseEvents == {"PAGE_VIEW", "SEARCH", "WISHLIST"}
CartAdd == "ADD_TO_CART"
CartRemove == "REMOVE_FROM_CART"

StageNone == 0
StageBrowse == 1
StageCart == 2
StageConverted == 3

DayOf(ts) == ts \div DayLength

\* The attribution window of the pipeline, 24 hours.
Window == DayLength

-----------------------------------------------------------------------------
(* attribute_conversions *)

\* The events in the order (activity_ts, _ingestion_order).
Before(e, f) ==
    SeqLt(<<e.activity_ts, e.ingestion_order>>, <<f.activity_ts, f.ingestion_order>>)

InSequence(events) ==
    CHOOSE s \in [1..Cardinality(events) -> events] :
        \A i, j \in DOMAIN s : i < j => Before(s[i], s[j])

NotStarted == [stage |-> StageNone, regressed |-> FALSE, last_cart_add |-> Null]

\* Fault: the last event decides the stage.
Reached_Last(stage, type) ==
    CASE type \in BrowseEvents -> StageBrowse
      [] type = CartAdd        -> StageCart
      [] OTHER                 -> stage

Reached(stage, type) ==
    CASE type \in BrowseEvents -> Max({stage, StageBrowse})
      [] type = CartAdd        -> Max({stage, StageCart})
      [] OTHER                 -> stage

\* Fault: a later cart add leaves the mark of an earlier removal.
Regressed_Stays(p, type) == p.regressed \/ (type = CartRemove /\ p.stage >= StageCart)

Regressed(p, type) ==
    \/ p.regressed /\ type # CartAdd
    \/ type = CartRemove /\ p.stage >= StageCart

\* One event in the loop over a session's events.
Progress(p, e) ==
    [stage         |-> Reached(p.stage, e.activity_type),
     regressed     |-> Regressed(p, e.activity_type),
     last_cart_add |-> IF e.activity_type = CartAdd THEN e.activity_ts ELSE p.last_cart_add]

\* The first customer that a session's events name.
CustomerOf(events) ==
    LET first == SelectInSeq(events, LAMBDA e : e.customer_id # Null)
    IN  IF first = 0 THEN Null ELSE events[first].customer_id

\* Inclusive at both ends.
InWindow(order, from) == from <= order.event_ts /\ order.event_ts <= from + Window

\* Fault: only the customer's last order is looked at.
Converts_LastOrder(own, from) ==
    \E o \in own : InWindow(o, from) /\ \A q \in own : q.event_ts <= o.event_ts

Converts(own, from) == \E o \in own : InWindow(o, from)

Attributed(session_id, events, orders) ==
    LET customer  == CustomerOf(events)
        progress  == FoldLeft(Progress, NotStarted, events)
        converted == /\ customer # Null /\ progress.last_cart_add # Null
                     /\ Converts({o \in orders : o.customer_id = customer},
                                 progress.last_cart_add)
    IN  [session_id     |-> session_id,
         customer_id    |-> customer,
         stage          |-> IF converted THEN StageConverted ELSE progress.stage,
         converted      |-> converted,
         cart_regressed |-> progress.regressed,
         last_cart_add  |-> progress.last_cart_add]

AttributeConversions(activity, orders) ==
    {Attributed(s, InSequence({e \in activity : e.session_id = s}), orders) :
        s \in {e.session_id : e \in activity}}

-----------------------------------------------------------------------------
(* funnel_sessions *)

\* Fault: only a cart add dates a session.
SessionDate_CartOnly(session, group) ==
    IF session.last_cart_add # Null THEN DayOf(session.last_cart_add) ELSE Null

\* A session's day: of its last cart add or, without one, of the earliest event in
\* the whole group.
SessionDate(session, group) ==
    DayOf(IF session.last_cart_add # Null THEN session.last_cart_add
          ELSE Min({e.activity_ts : e \in group}))

\* attribute: the sessions of one cogroup, the anonymous one included.
Cogroup(activity, orders, customer) ==
    LET group == {e \in activity : e.customer_id = customer}
        own   == {o \in orders : o.customer_id = customer}
    IN  {[session_id     |-> s.session_id,
          customer_id    |-> s.customer_id,
          stage          |-> s.stage,
          converted      |-> s.converted,
          cart_regressed |-> s.cart_regressed,
          session_date   |-> SessionDate(s, group)] : s \in AttributeConversions(group, own)}

\* Fault: an inner cogroup, of customers that have orders.
FunnelSessions_Inner(activity, orders) ==
    UNION {Cogroup(activity, orders, c) :
              c \in {e.customer_id : e \in activity} \cap {o.customer_id : o \in orders}}

FunnelSessions(activity, orders) ==
    UNION {Cogroup(activity, orders, c) : c \in {e.customer_id : e \in activity}}

\* funnel_conversion_daily
FunnelDaily(sessions) ==
    {LET day == {s \in sessions : s.session_date = d}
     IN  [session_date |-> d,
          sessions  |-> Cardinality(day),
          carted    |-> Cardinality({s \in day : s.stage >= StageCart}),
          converted |-> Cardinality({s \in day : s.converted})] :
        d \in {s.session_date : s \in sessions}}
=============================================================================
