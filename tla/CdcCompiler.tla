---------------------------- MODULE CdcCompiler -----------------------------
(***************************************************************************)
(* spark/cdc_compiler.py: the CDC normalization that the pipeline runs.    *)
(* Its verdicts must be those of CdcNormalize.                             *)
(*                                                                         *)
(* A DataFrame of events is a set after dropDuplicates, which is the first *)
(* thing done to it.  SparkRank is the order of the to_json strings of the *)
(* payloads: to_json omits nulls and prints numbers unquoted, so it need   *)
(* not be the order of the oracle's json.dumps.                            *)
(***************************************************************************)
EXTENDS CdcNormalize

CONSTANTS
    Payloads,   \* the payloads that occur
    SparkRank   \* payload -> rank of its to_json string

ASSUME PayloadsAssumption ==
    /\ Payloads \subseteq Int
    /\ SparkRank \in [Payloads -> Int]
    /\ IsInjective(SparkRank)

\* row_number over (key, sequence) ordered by op desc, canonical desc.
SparkTieLt(e, f) ==
    \/ e.op = OpDelete /\ f.op = OpUpsert
    \/ e.op = f.op /\ SparkRank[e.payload] < SparkRank[f.payload]

SparkResolved(events) ==
    {e \in events : \A f \in events : SameSlot(e, f) => ~SparkTieLt(e, f)}

\* Fault: a window without a frame counts the whole partition.
PriorUpserts_NoFrame(e, resolved) ==
    Cardinality({u \in resolved : u.key = e.key /\ u.op = OpUpsert})

\* The running count of upserts in the rows strictly before e.
PriorUpserts(e, resolved) ==
    Cardinality({u \in resolved : Precedes(u, e) /\ u.op = OpUpsert})

SparkOrphans(resolved, knownKeys) ==
    {e \in resolved :
        e.op = OpDelete /\ PriorUpserts(e, resolved) = 0 /\ e.key \notin knownKeys}

SparkApplied(resolved, knownKeys) == resolved \ SparkOrphans(resolved, knownKeys)

\* normalized_stream(df, spec, known_keys_df): a CompiledCdcStream.
NormalizedStream(batch, knownKeys) ==
    LET deduped  == Distinct(batch)
        resolved == SparkResolved(deduped)
    IN  [applied         |-> SparkApplied(resolved, knownKeys),
         held_orphans    |-> SparkOrphans(resolved, knownKeys),
         conflicts       |-> deduped \ resolved,
         replays_dropped |-> Len(batch) - Cardinality(deduped)]
=============================================================================
