---------------------------- MODULE Scd2Compiler ----------------------------
(***************************************************************************)
(* spark/scd2_compiler.py: the SCD2 rebuild that the pipeline runs, over   *)
(* the window functions of Spark.  Its verdicts must be those of Scd2.     *)
(***************************************************************************)
EXTENDS Scd2, CdcCompiler

\* The order of _content: "__tombstone__" sorts before every JSON object, since
\* "_" < "{".
SparkContentLt(c, d) ==
    d # Tombstone /\ (c = Tombstone \/ SparkRank[c] < SparkRank[d])

\* Per slot, the row of the greatest _content, whether it was stored or came in.
SlotWinners(states) ==
    {s \in states : ~\E t \in states : SameSlot(s, t) /\ SparkContentLt(s.content, t.content)}

\* rebuild_history(history, events): lag() finds the immediate predecessor that
\* Collapse compares with, lead() the successor that ends an interval.  A history
\* of None is the empty one.
RebuildHistory(history, events) ==
    Materialize(Collapse(SlotWinners(
        StatesFromHistory(history) \cup {EventState(e) : e \in events})))
=============================================================================
