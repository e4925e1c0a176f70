---------------------------- MODULE CdcNormalize ----------------------------
(***************************************************************************)
(* transform/cdc.py: the pure CDC normalization oracle.                    *)
(*                                                                         *)
(* A payload is the integer rank of its canonical JSON among the payloads, *)
(* so that equality of payloads is equality of canonical forms and "<" is  *)
(* the string order that canonical_payload induces.                        *)
(***************************************************************************)
EXTENDS Ordering, Sequences, FiniteSets, Functions

OpUpsert == "U"
OpDelete == "D"

\* CdcEvent.  is_orphan_delete is not stored: it is membership in "held".
Event(keys, payloads) ==
    [key : keys, op : {OpUpsert, OpDelete}, sequence : Sequence, payload : payloads]

SameSlot(e, f) == e.key = f.key /\ e.sequence = f.sequence

\* f comes before e in the stream of their common key.
Precedes(f, e) == f.key = e.key /\ SeqLt(f.sequence, e.sequence)

\* Stage 1.  content_identity is the whole event, so a set drops the replays.
Distinct(batch) == Range(batch)

\* Stage 2.  The tie of two contents in one slot: max of (op, payload), and
\* "U" > "D", so an upsert beats a delete.
TieLt(e, f) ==
    \/ e.op = OpDelete /\ f.op = OpUpsert
    \/ e.op = f.op /\ e.payload < f.payload

Resolved(events) ==
    {e \in events : \A f \in events : SameSlot(e, f) => ~TieLt(e, f)}

\* Fault: only the upserts of this batch count, not what the target holds.
IsOrphan_TargetForgotten(e, resolved, knownKeys) ==
    /\ e.op = OpDelete
    /\ ~\E u \in resolved : u.op = OpUpsert /\ Precedes(u, e)

\* Stage 3.  A delete with no upsert before it, of a key the target does not
\* know (ADR-0006).
IsOrphan(e, resolved, knownKeys) ==
    /\ e.op = OpDelete
    /\ e.key \notin knownKeys
    /\ ~\E u \in resolved : u.op = OpUpsert /\ Precedes(u, e)

Orphans(resolved, knownKeys) ==
    {e \in resolved : IsOrphan(e, resolved, knownKeys)}

Applied(resolved, knownKeys) == resolved \ Orphans(resolved, knownKeys)

\* Fault: conflict losers are counted as replays too.
Normalize_LosersAreReplays(batch, knownKeys) ==
    LET unique   == Distinct(batch)
        resolved == Resolved(unique)
    IN  [events          |-> Applied(resolved, knownKeys),
         held_orphans    |-> Orphans(resolved, knownKeys),
         conflicts       |-> unique \ resolved,
         replays_dropped |-> Len(batch) - Cardinality(resolved)]

\* normalize(events, known_keys): a NormalizedCdcStream.
Normalize(batch, knownKeys) ==
    LET unique   == Distinct(batch)
        resolved == Resolved(unique)
    IN  [events          |-> Applied(resolved, knownKeys),
         held_orphans    |-> Orphans(resolved, knownKeys),
         conflicts       |-> unique \ resolved,
         replays_dropped |-> Len(batch) - Cardinality(unique)]
=============================================================================
