--------------------------- MODULE DimensionChain ---------------------------
(***************************************************************************)
(* A dimension kept up to date batch by batch, by both implementations     *)
(* side by side: each batch is normalized against the keys the dimension   *)
(* knows and merged into the history so far.  This is the documented use   *)
(* of normalize and apply_scd2, and what the differential harness drives   *)
(* (the Chain of tests/differential/test_scd2_differential.py).            *)
(*                                                                         *)
(* The feed is arbitrary: batches of any size, events late, replayed,      *)
(* contradicting each other in one slot, deletes of unknown keys.          *)
(***************************************************************************)
EXTENDS Scd2Compiler

CONSTANTS
    Keys,       \* the entity keys
    Sequences,  \* the sequence tuples the feed uses
    MaxEvents   \* bound: events delivered in a behaviour, replays included

ASSUME ChainAssumption ==
    /\ Sequences \subseteq Sequence
    /\ MaxEvents \in Nat

VARIABLES
    oracle_history,  \* the history apply_scd2 keeps
    spark_history,   \* the history rebuild_history keeps
    received,        \* how many events the feed has delivered
    \* What the properties remember of the feed:
    delivered,       \* the distinct events delivered so far
    ordered,         \* no batch reached back into a key's past
    last             \* the last batch, the keys known to it, and its stream

vars == <<oracle_history, spark_history, received, delivered, ordered, last>>

FeedEvent ==
    [key : Keys, op : {OpUpsert, OpDelete}, sequence : Sequences, payload : Payloads]

\* The feed may deliver any list of events.
Batches == UNION {[1..n -> FeedEvent] : n \in 1..(MaxEvents - received)}

\* Every event of the batch is later than all that was delivered of its key.
ExtendsFeed(batch) ==
    \A e \in Distinct(batch), f \in delivered : e.key = f.key => Precedes(f, e)

Init ==
    /\ oracle_history = {}
    /\ spark_history = {}
    /\ received = 0
    /\ delivered = {}
    /\ ordered = TRUE
    /\ last = [batch |-> <<>>, known |-> {}, stream |-> Normalize(<<>>, {})]

\* Chain.apply(records, known_keys).
ApplyBatch(batch) ==
    LET known  == KeysOf(oracle_history)
        stream == Normalize(batch, known)
    IN  /\ oracle_history' = ApplyScd2(oracle_history, stream.events)
        /\ spark_history' =
               RebuildHistory(spark_history, NormalizedStream(batch, known).applied)
        /\ received' = received + Len(batch)
        /\ delivered' = delivered \cup Distinct(batch)
        /\ ordered' = (ordered /\ ExtendsFeed(batch))
        /\ last' = [batch |-> batch, known |-> known, stream |-> stream]

Next == \E batch \in Batches : ApplyBatch(batch)

Spec == Init /\ [][Next]_vars

-----------------------------------------------------------------------------
\* The type invariant.
TypeOK ==
    /\ oracle_history \subseteq Version(Keys, Payloads)
    /\ spark_history \subseteq Version(Keys, Payloads)
    /\ received \in 0..MaxEvents
    /\ delivered \subseteq FeedEvent
    /\ ordered \in BOOLEAN

\* Both histories pass validate_history whatever the feed did: contiguous
\* intervals, one current version per key or none after a final tombstone, an
\* open end (scd2.py, "invariants").
HistoryHealthy ==
    ValidateHistory(oracle_history) /\ ValidateHistory(spark_history)

\* No version repeats the content of the one before it: replays and no-change
\* updates add no rows, even when a late event lands between two versions or
\* replaces one of them (scd2.py, "no-change states collapsed").
NoRedundantVersions ==
    ContentChanges(oracle_history) /\ ContentChanges(spark_history)

\* Normalization loses nothing and duplicates nothing: every distinct event of the
\* batch is applied, held or flagged as a conflict, in exactly one of them, and
\* the replays account for the rest of the batch (cdc.py, ADR-0006 "never applied,
\* never dropped").  And no contested slot falls silent: a flagged loser lost to an
\* event of the same slot that was applied or held.
StreamConserved ==
    LET s == last.stream
    IN  /\ s.events \cup s.held_orphans \cup s.conflicts = Distinct(last.batch)
        /\ Cardinality(s.events) + Cardinality(s.held_orphans)
             + Cardinality(s.conflicts) + s.replays_dropped = Len(last.batch)
        /\ \A c \in s.conflicts : \E e \in s.events \cup s.held_orphans : SameSlot(c, e)

\* No two different contents were ever delivered for one slot.
Uncontested ==
    \A e, f \in delivered : SameSlot(e, f) => e = f

\* A feed that is never late and never contradicts itself gives the history that
\* applying all its events at once gives (README section 7, "Batch-split").
InOrderFeedIsSplitInvariant ==
    ordered /\ Uncontested =>
        oracle_history = ApplyScd2({}, Applied(Resolved(delivered), {}))

\* Delivering the last batch again, against the same known keys, changes nothing
\* (scd2.py, "replaying ... is a no-op").
ReplayIsNoOp ==
    oracle_history =
        ApplyScd2(oracle_history, Normalize(last.batch, last.known).events)

UncontestedReplayIsNoOp == Uncontested => ReplayIsNoOp

\* The compilers and the oracle agree on everything an operator can read, whatever
\* the order of to_json strings, as long as no slot is contested
\* (scd2_compiler.py:1, "verdict-equal to transform.scd2").
UncontestedVerdictsAgree == Uncontested => spark_history = oracle_history

\* The same without the condition: "verdict-equal to transform.scd2".
VerdictsAgree == spark_history = oracle_history

\* e is the event of its key with the greatest sequence.
IsNewest(e) == \A f \in delivered : ~Precedes(e, f)

\* However late the other events of its key came, the newest upsert is what the
\* current row shows (scd2.py, "Late-arriving corrections ... are handled by
\* construction").
NewestUpsertIsCurrent ==
    Uncontested =>
        \A e \in delivered :
            e.op = OpUpsert /\ IsNewest(e) =>
                \E v \in CurrentRows(oracle_history) :
                    v.key = e.key /\ v.attributes = e.payload

=============================================================================
