------------------------------ MODULE Revenue -------------------------------
(***************************************************************************)
(* transform/revenue.py and transform/fx.py: which orders count, and for   *)
(* how much.                                                               *)
(*                                                                         *)
(* Days and cents are integers.  price is the local amount of the event,   *)
(* quantity * unit_price, and Null when the unit_price is missing; an      *)
(* event_ts is the day it falls on.  (A missing quantity or event_ts is    *)
(* left out: what pandas makes of it is not None.)                         *)
(***************************************************************************)
EXTENDS Ordering, FiniteSets

CONSTANTS
    Rates,          \* the FX rates: [currency, effective_date, per_base]
    BaseCurrency    \* "USD"

\* FxRates.from_records refuses anything else when the registry is loaded.
ASSUME RatesAssumption ==
    /\ IsFiniteSet(Rates)
    /\ \A r \in Rates : r.effective_date \in Int /\ r.per_base \in Nat \ {0}
    /\ \A r, q \in Rates :
           r.currency = q.currency /\ r.effective_date = q.effective_date => r = q

Paid == "PAID"
Cancelled == "CANCELLED"

-----------------------------------------------------------------------------
(* fx.py *)

\* Fault: only a rate of the very day applies.
Applicable_SameDay(currency, day) ==
    {r \in Rates : r.currency = currency /\ r.effective_date = day}

Applicable(currency, day) ==
    {r \in Rates : r.currency = currency /\ r.effective_date <= day}

HasRate(currency, day) == currency = BaseCurrency \/ Applicable(currency, day) # {}

\* lookup: the latest rate effective on or before the day.
Lookup(currency, day) ==
    CHOOSE r \in Applicable(currency, day) :
        \A q \in Applicable(currency, day) : q.effective_date <= r.effective_date

\* quantize(0.01, ROUND_HALF_UP) of cents / divisor: a half goes away from zero.  (No
\* rule keeps the unit_price of an order event from being negative.)
HalfUp(cents, divisor) ==
    IF cents < 0 THEN -((divisor - 2 * cents) \div (2 * divisor))
    ELSE (2 * cents + divisor) \div (2 * divisor)

\* convert: divided and rounded once; the base currency only rounded, which whole
\* cents are already.
Convert(cents, currency, day) ==
    IF currency = BaseCurrency THEN cents
    ELSE HalfUp(cents, Lookup(currency, day).per_base)

-----------------------------------------------------------------------------
(* revenue.py *)

Orders(events) == {e.order_id : e \in events}

EventSequence(e) == <<e.event_ts, e.ingestion_order>>

PaidEvents(events, o) == {e \in events : e.order_id = o /\ e.event_type = Paid}

\* Fault: the last event of the order decides.
IsCancelled_IfLast(events, o) ==
    \E e \in events :
        /\ e.order_id = o /\ e.event_type = Cancelled
        /\ \A f \in events : f.order_id = o => f = e \/ SeqLt(EventSequence(f), EventSequence(e))

\* A missing currency is the base currency.
CurrencyOf(e) == IF e.currency = Null THEN BaseCurrency ELSE e.currency

\* Sticky and terminal: any cancellation, wherever it stands in the sequence.
IsCancelled(events, o) ==
    \E e \in events : e.order_id = o /\ e.event_type = Cancelled

\* The PAID event that carries the revenue: the last in the sequence.
PaidEvent(events, o) ==
    CHOOSE e \in PaidEvents(events, o) :
        \A f \in PaidEvents(events, o) :
            f = e \/ SeqLt(EventSequence(f), EventSequence(e))

\* compute_line_revenue: the orders that get a line; the others are excluded as
\* cancelled, not paid, without amounts, or unpriced, in that order.
RevenueOrders(events) ==
    {o \in Orders(events) :
        /\ ~IsCancelled(events, o)
        /\ PaidEvents(events, o) # {}
        /\ PaidEvent(events, o).price # Null
        /\ HasRate(CurrencyOf(PaidEvent(events, o)), PaidEvent(events, o).event_ts)}

LineOf(events, o) ==
    LET paid == PaidEvent(events, o)
    IN  [order_id    |-> o,
         product_id  |-> paid.product_id,
         store_id    |-> paid.store_id,
         sale_date   |-> paid.event_ts,
         amount_base |-> Convert(paid.price, CurrencyOf(paid), paid.event_ts)]

RevenueLines(events) == {LineOf(events, o) : o \in RevenueOrders(events)}
=============================================================================
