---------------------------- MODULE SilverSplit ----------------------------
(***************************************************************************)
(* The silver boundary of one source in the pipeline (declarations.py):    *)
(*                                                                         *)
(*                    / <source>_valid      \                              *)
(*   <source>_raw                             dq_reconciliation            *)
(*                    \ <source>_quarantine /                              *)
(*                                                                         *)
(* The two halves of the split are materialized views of their own, each   *)
(* evaluating all the rules over all of bronze for itself, one after the   *)
(* other; what they share is the clock reading (as_of) of the update.      *)
(***************************************************************************)
EXTENDS DqCompiler, Sequences

CONSTANTS
    Sources,        \* names of the sources
    RuleSetOf,      \* source -> its rule set
    RecordsOf,      \* source -> the records that may land
    EventTimeOf,    \* source -> the event-time column of a fact source, Null for a dimension
    WindowDays,     \* the parameter lateness_window_days, in the unit of the clock
    MaxRows,        \* bound: rows in bronze
    MaxArrivals,    \* bound: rows ingested by one update
    MaxClock,       \* bound: the clock
    MaxFailures     \* bound: updates that fail

ASSUME SplitAssumption ==
    /\ \A s \in Sources :
           /\ IsRuleSet(RuleSetOf[s])
           /\ \A record \in RecordsOf[s] : DOMAIN record = RuleSetOf[s].columns
           /\ EventTimeOf[s] # Null =>
                  /\ EventTimeOf[s] \in DOMAIN RuleSetOf[s].casts
                  /\ \A cell \in DOMAIN RuleSetOf[s].try_casts[EventTimeOf[s]] :
                         RuleSetOf[s].try_casts[EventTimeOf[s]][cell] \in Int
    /\ WindowDays \in Nat \ {0} /\ MaxClock \in Nat \ {0}
    /\ MaxRows \in Nat /\ MaxArrivals \in Nat /\ MaxFailures \in Nat

\* What each dataset reads, which orders the refreshes.
SplitReads ==
    [raw            |-> {},
     valid          |-> {"raw"},
     quarantine     |-> {"raw"},
     reconciliation |-> {"raw", "valid", "quarantine"}]

SplitDatasets == DOMAIN SplitReads

VARIABLES
    source,           \* the source of this behaviour; sources are independent
    raw,              \* <source>_raw
    valid,            \* <source>_valid
    quarantine,       \* <source>_quarantine
    reconciliation,   \* the source's row of dq_reconciliation
    as_of,            \* _ctx()["as_of"] of the last update
    clock,
    pending,          \* the datasets the running update has still to refresh
    outcome,          \* of the last update: "none", "running", "completed", "failed"
    failures

tables == <<raw, valid, quarantine, reconciliation>>
vars == <<source, tables, as_of, clock, pending, outcome, failures>>

ruleset == RuleSetOf[source]
event_time == EventTimeOf[source]

\* The ids that an evaluation may give the rows.
RowIds(batch) ==
    {ord \in [batch -> 1..Cardinality(batch)] :
        \A r, q \in batch : ord[r] = ord[q] => r = q}

-----------------------------------------------------------------------------
Init ==
    /\ source \in Sources
    /\ raw = {} /\ valid = {} /\ quarantine = {}
    /\ reconciliation = [raw |-> 0, valid |-> 0, quarantine |-> 0, conserved |-> TRUE]
    /\ clock = 1 /\ as_of = 1
    /\ pending = {}
    /\ outcome = "none"
    /\ failures = 0

Tick ==
    /\ clock < MaxClock
    /\ clock' = clock + 1
    /\ UNCHANGED <<source, tables, as_of, pending, outcome, failures>>

\* The graph is built and the clock read, once for all datasets.
StartUpdate ==
    /\ pending = {}
    /\ as_of' = clock
    /\ pending' = SplitDatasets
    /\ outcome' = "running"
    /\ UNCHANGED <<source, tables, clock, failures>>

Refreshed(d) ==
    /\ d \in pending
    /\ SplitReads[d] \cap pending = {}
    /\ pending' = pending \ {d}
    /\ outcome' = IF pending' = {} THEN "completed" ELSE "running"
    /\ UNCHANGED <<source, as_of, clock, failures>>

\* Auto Loader appends the rows of the new files, after those of earlier ones.
Ingest(records) ==
    /\ Refreshed("raw")
    /\ Cardinality(raw) + Len(records) <= MaxRows
    /\ raw' = raw \cup {[order |-> Cardinality(raw) + i, record |-> records[i]] :
                           i \in DOMAIN records}
    /\ UNCHANGED <<valid, quarantine, reconciliation>>

\* Fault: the clock is read whenever a dataset is evaluated.
EvaluationTime_Now == clock

\* The moment that the rules compare with.
EvaluationTime == as_of

\* The oracle's label of an event, for one that has a time (batches.py).
ClassifyLateness(ts, t) == IF t - ts <= WindowDays THEN "in_window" ELSE "beyond_window"

\* Fault: an event as old as the window allows counts as late.
LatenessColumn_Strict(ts, t) ==
    IF ts # Null /\ ts <= t - WindowDays THEN "beyond_window" ELSE "in_window"

\* The pipeline's: a comparison with null is not true.
LatenessColumn(ts, t) ==
    IF ts # Null /\ ts < t - WindowDays THEN "beyond_window" ELSE "in_window"

\* Valid rows of a fact source carry the label; those of a dimension do not.
Flagged(rows, column, t) ==
    {[order |-> v.order, typed |-> v.typed,
      lateness |-> IF column = Null THEN Null ELSE LatenessColumn(v.typed[column], t)] :
        v \in rows}

RefreshValid ==
    /\ Refreshed("valid")
    /\ \E ord \in RowIds(raw) :
           valid' = Flagged(SparkValid(ruleset, raw, ord, EvaluationTime),
                            event_time, EvaluationTime)
    /\ UNCHANGED <<raw, quarantine, reconciliation>>

RefreshQuarantine ==
    /\ Refreshed("quarantine")
    /\ \E ord \in RowIds(raw) :
           quarantine' = SparkQuarantine(ruleset, raw, ord, EvaluationTime)
    /\ UNCHANGED <<raw, valid, reconciliation>>

\* dq_reconciliation: three counts and their comparison.
RefreshReconciliation ==
    /\ Refreshed("reconciliation")
    /\ reconciliation' =
           [raw        |-> Cardinality(raw),
            valid      |-> Cardinality(valid),
            quarantine |-> Cardinality(quarantine),
            conserved  |-> Cardinality(raw) = Cardinality(valid) + Cardinality(quarantine)]
    /\ UNCHANGED <<raw, valid, quarantine>>

FailUpdate ==
    /\ pending # {}
    /\ failures < MaxFailures
    /\ pending' = {}
    /\ outcome' = "failed"
    /\ failures' = failures + 1
    /\ UNCHANGED <<source, tables, as_of, clock>>

Arrivals == UNION {[1..n -> RecordsOf[source]] : n \in 0..MaxArrivals}

Next ==
    \/ Tick
    \/ StartUpdate
    \/ \E records \in Arrivals : Ingest(records)
    \/ RefreshValid
    \/ RefreshQuarantine
    \/ RefreshReconciliation
    \/ FailUpdate

Spec == Init /\ [][Next]_vars

-----------------------------------------------------------------------------
Row == [order : 1..MaxRows, record : RecordsOf[source]]

TypeOK ==
    /\ source \in Sources
    /\ raw \subseteq Row
    /\ \A v \in valid :
           /\ v.order \in 1..MaxRows /\ DOMAIN v.typed = ruleset.columns
           /\ v.lateness \in IF event_time = Null THEN {Null}
                             ELSE {"in_window", "beyond_window"}
    /\ \A q \in quarantine :
           /\ [order |-> q.order, record |-> q.record] \in Row
           /\ q.reasons # {}
    /\ reconciliation \in [raw : 0..MaxRows, valid : 0..MaxRows, quarantine : 0..MaxRows,
                           conserved : BOOLEAN]
    /\ clock \in 1..MaxClock /\ as_of \in 1..clock
    /\ pending \subseteq SplitDatasets
    /\ outcome \in {"none", "running", "completed", "failed"}
    /\ failures \in 0..MaxFailures

\* The reconciliation that gates the job never reports a loss, though the two halves
\* are evaluated apart, in different row orders, while the clock moves on.
Conserved == reconciliation.conserved

\* The two halves of a completed update share no row and leave none out, copies of
\* one record aside (engine.py: "every input record lands in exactly one").
EachRowOnce ==
    outcome = "completed" =>
        \A r \in raw :
            (\A q \in raw : q.record = r.record => q = r) =>
                ((\E v \in valid : v.order = r.order)
                     <=> ~\E q \in quarantine : q.order = r.order)

\* No two landed strings cast to one value of an identity column.
OneSpelling(rs) ==
    \A c \in rs.identity \cap DOMAIN rs.casts :
        \A x, y \in DOMAIN rs.try_casts[c] :
            rs.try_casts[c][x] = rs.try_casts[c][y] => x = y

\* Two valid rows of a source with blocking duplicates never claim one identity: no
\* part of the pipeline behind the split has to choose between them.  (The rule groups
\* landed strings: this is so as long as no two of them cast to one identity.)
IdentityIsKey ==
    ruleset.duplicate \in Blocking /\ OneSpelling(ruleset) =>
        \A v, w \in valid :
            /\ \A c \in ruleset.identity : v.typed[c] # Null
            /\ SameIdentity(ruleset, v.typed, w.typed)
            => v = w

\* What the oracle takes for a delete whose identity and op are in order reaches silver,
\* whatever columns of no other rule than null_key, format and try_cast hold, and with
\* nothing at all in the others (spec 1.3: a key-only payload is no quality failure).
\* Identity and op must be texts that both languages read alike.
DeletesReachSilver ==
    LET keys == ruleset.identity \cup {ruleset.op_column}
    IN  outcome = "completed" /\ ruleset.duplicate \notin Blocking =>
            \A r \in raw :
                /\ IsDeleteImage(ruleset, r.record)
                /\ \A c \in keys : ReadAlike(ruleset, c, r.record[c])
                /\ \A x \in RuleReasons(ruleset, r.record, as_of) : x[1] \notin keys
                /\ \A q \in RecordRules(ruleset) :
                       \/ q.column \in keys \/ q.rule \in SuppressedRules
                       \/ Nullish(r.record[q.column])
                => \E v \in valid : v.order = r.order

Multiplicity(bag, Matches(_)) == Cardinality({x \in bag : Matches(x)})

SameMultisets(S, T, Content(_)) ==
    \A c \in {Content(x) : x \in S \cup T} :
        Multiplicity(S, LAMBDA x : Content(x) = c) = Multiplicity(T, LAMBDA x : Content(x) = c)

\* The tables of a completed update hold what the oracle makes of bronze, row for row
\* apart from which copy survives, with the same reasons (dq_compiler.py: "Verdicts
\* must equal dq.engine") and the same lateness (declarations.py, lateness_column:
\* "Held verdict-equal to the oracle").
VerdictsAreTheOracles ==
    outcome = "completed" =>
        /\ SameMultisets(valid, ValidRows(ruleset, raw, as_of), LAMBDA v : v.typed)
        /\ SameMultisets(quarantine, QuarantinedRows(ruleset, raw, as_of),
                         LAMBDA q : <<q.record, q.reasons>>)
        /\ \A c \in ruleset.columns \cap {event_time} :
               \A v \in valid :
                   v.typed[c] # Null => v.lateness = ClassifyLateness(v.typed[c], as_of)

\* The same while every cell in bronze is read alike by both languages: nothing else,
\* neither the windows and row ids of the duplicates nor suppression, null rules, clock
\* or lateness, makes a difference.  (Of other cells it is not so: padding that F.trim
\* leaves, texts that one cast accepts and the other does not.)
VerdictsAgreeWhereReadAlike ==
    (\A r \in raw : \A c \in ruleset.columns : ReadAlike(ruleset, c, r.record[c]))
        => VerdictsAreTheOracles

\* What is quarantined for another reason than lying in the future stays quarantined
\* for it: no later row and no later hour releases it.
StaysQuarantined ==
    [][\A q \in quarantine :
          LET lasting == {x \in q.reasons : x[2] # "plausibility"}
          IN  lasting # {} =>
                  \E p \in quarantine' : p.record = q.record /\ lasting \subseteq p.reasons]_vars
=============================================================================
