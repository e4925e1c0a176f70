------------------------------ MODULE Ordering ------------------------------
(***************************************************************************)
(* The ordering and content primitives of transform/ordering.py, which the *)
(* CDC, SCD2, funnel and aggregate code share.                             *)
(*                                                                         *)
(* A sequence is the tuple <<sequence_by, tiebreak>> of ADR-0009.  Either  *)
(* component may be missing (None), and None sorts below every value.  The *)
(* values themselves (timestamps, counters, ingestion orders) are integers *)
(* here: only their order is observable.                                   *)
(***************************************************************************)
EXTENDS Integers

CONSTANTS
    Null        \* Python's None / SQL's NULL

ASSUME NullAssumption == Null \notin Int

SortValue == Int \cup {Null}

\* Every sequence tuple (sequence_by, tiebreak) the code can order.
Sequence == SortValue \X SortValue

ASSUME NoSequenceAssumption == Null \notin Sequence

\* One component: (value is not None, value) compared as Python tuples.
ValueLt(a, b) == b # Null /\ (a = Null \/ a < b)

\* sequence_sort_key(s) < sequence_sort_key(t): lexicographic.
SeqLt(s, t) ==
    \/ ValueLt(s[1], t[1])
    \/ s[1] = t[1] /\ ValueLt(s[2], t[2])

\* m is the least element of S; there is one when S is finite and not empty.
IsLeast(m, S) == m \in S /\ \A x \in S : x = m \/ SeqLt(m, x)

Least(S) == CHOOSE m \in S : IsLeast(m, S)
=============================================================================
