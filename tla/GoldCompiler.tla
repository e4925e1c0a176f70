---------------------------- MODULE GoldCompiler ----------------------------
(***************************************************************************)
(* spark/gold_compiler.py: what gold computes natively, the as-of product  *)
(* join and the daily aggregates.  Revenue lines are the oracle's own,     *)
(* applied to each order (ADR-0011).                                       *)
(*                                                                         *)
(* A version of dim_product_hist starts at <<effective_date, ingestion     *)
(* order>>; the join sees the dates only.                                  *)
(***************************************************************************)
EXTENDS Scd2Compiler, Revenue, FiniteSetsExt

Unknown == "UNKNOWN"

ASSUME UnknownAssumption == Unknown # Null

\* A version's _is_terminal.
IsOpen(v) == v.valid_to = Null

\* Fault: the day on which a version ends still belongs to it.
ValidOn_ClosedInterval(v, day) ==
    /\ v.valid_from[1] # Null /\ v.valid_from[1] <= day
    /\ IsOpen(v) \/ (v.valid_to[1] # Null /\ day <= v.valid_to[1])

\* Fault: only the open version is joined.
ValidOn_CurrentOnly(v, day) ==
    v.valid_from[1] # Null /\ v.valid_from[1] <= day /\ IsOpen(v)

\* The condition of the join; a comparison with a null is not true.
ValidOn(v, day) ==
    /\ v.valid_from[1] # Null /\ v.valid_from[1] <= day
    /\ IsOpen(v) \/ (v.valid_to[1] # Null /\ day < v.valid_to[1])

Matches(line, history) ==
    {v \in history : v.key = line.product_id /\ ValidOn(v, line.sale_date)}

\* with_product_asof: a left join; a row per match, or one without a product.  The
\* version stands for the columns that the row takes from it.
WithProductAsOf(lines, history) ==
    UNION {IF Matches(line, history) = {}
           THEN {[line |-> line, product |-> Null]}
           ELSE {[line |-> line, product |-> v] : v \in Matches(line, history)} :
              line \in lines}

\* Fault: an inner join, for which sales of an unknown store do not exist.
SalesWithRegion_Inner(sales, stores) ==
    UNION {{[sale |-> x, group |-> s.region] :
                s \in {t \in stores : t.store_id = x.line.store_id}} : x \in sales}

\* The left join of sales_per_region_daily with the current stores.
SalesWithRegion(sales, stores) ==
    UNION {LET found == {s \in stores : s.store_id = x.line.store_id}
           IN  IF found = {} THEN {[sale |-> x, group |-> Null]}
               ELSE {[sale |-> x, group |-> s.region] : s \in found} :
              x \in sales}

SalesWithStore(sales) == {[sale |-> x, group |-> x.line.store_id] : x \in sales}

\* Fault: a null group is left null.
Bucket_None(group) == group

\* A null group is an explicit one.
Bucket(group) == IF group = Null THEN Unknown ELSE group

\* daily_aggregate over (sale_date, group).
DailyAggregate(rows) ==
    LET Cell(r) == {x \in rows : /\ x.sale.line.sale_date = r.sale.line.sale_date
                                 /\ Bucket(x.group) = Bucket(r.group)}
        Amount(x) == x.sale.line.amount_base
    IN  {[sale_date |-> r.sale.line.sale_date,
          group     |-> Bucket(r.group),
          total     |-> MapThenSumSet(Amount, Cell(r)),
          row_count |-> Cardinality(Cell(r))] : r \in rows}
=============================================================================
