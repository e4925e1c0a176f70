----------------------------- MODULE DqCompiler -----------------------------
(***************************************************************************)
(* spark/dq_compiler.py: the rules as Spark expressions over the whole     *)
(* bronze table.  Its verdicts must be those of DqEngine.                  *)
(*                                                                         *)
(* Which of several exact copies survives is decided by _ord, which is     *)
(* monotonically_increasing_id(): an injective function of the rows that   *)
(* each evaluation takes afresh.                                           *)
(***************************************************************************)
EXTENDS DqEngine

CONSTANTS
    Trim          \* F.trim on the strings that it changes: spaces go, nothing else

ASSUME TrimAssumption ==
    /\ DOMAIN Trim \subseteq DOMAIN Strip
    /\ \A text \in DOMAIN Trim : Trim[text] # Null /\ Stripped(Trim[text]) = Strip[text]

Trimmed(cell) == IF cell \in DOMAIN Trim THEN Trim[cell] ELSE cell

Nullish(cell) == cell = Null \/ Trimmed(cell) = Empty

\* The _typed_ column: a string as it is unless nullish, otherwise its try_cast, which
\* is given the text untrimmed.
SparkTyped(rs, column, cell) ==
    CASE column \notin DOMAIN rs.casts ->
             IF Nullish(cell) THEN Null ELSE cell
      [] column \in DOMAIN rs.casts ->
             IF cell \in DOMAIN rs.try_casts[column] THEN rs.try_casts[column][cell] ELSE Null

SparkTypedRecord(rs, record) == [c \in rs.columns |-> SparkTyped(rs, c, record[c])]

\* compile_rule: the flag column of rule r.
SparkFlag(rs, r, record, as_of) ==
    LET cell  == record[r.column]
        typed == SparkTyped(rs, r.column, cell)
    IN  CASE r.rule = "null_key"              -> Nullish(cell)
          [] r.rule = "try_cast"              -> ~Nullish(cell) /\ typed = Null
          [] r.rule = "domain"                -> ~Nullish(cell) /\ Trimmed(cell) \notin r.accepts
          [] r.rule = "format"                -> ~Nullish(cell) /\ Trimmed(cell) \notin r.rlike
          [] r.rule = "range"                 -> typed # Null /\ typed \notin r.accepts
          [] r.rule = "plausibility"          -> typed # Null /\ typed > as_of + r.skew

\* Fault: the rules of a delete image are not suppressed.
SparkSuppressed_Never(rs, r, record) == FALSE

SparkSuppressed(rs, r, record) ==
    /\ r.rule \in {"null_key", "format", "try_cast"}
    /\ r.column \notin rs.identity /\ r.column # rs.op_column
    /\ rs.op_column # Null /\ rs.delete_payload = "key_only"
    /\ Trimmed(record[rs.op_column]) = DeleteCode

SparkRuleReasons(rs, record, as_of) ==
    {<<r.column, r.rule>> :
        r \in {q \in RecordRules(rs) :
                  /\ q.severity \in Blocking
                  /\ SparkFlag(rs, q, record, as_of)
                  /\ ~SparkSuppressed(rs, q, record)}}

\* Both languages make the same of a landed cell: of the whitespace around it, of its
\* type and of the patterns that its column must match.
ReadAlike(rs, c, cell) ==
    /\ Trimmed(cell) = Stripped(cell)
    /\ c \in DOMAIN rs.casts => SparkTyped(rs, c, cell) = Coerced(rs, c, cell)
    /\ \A r \in rs.rules :
           r.rule = "format" /\ r.column = c =>
               (Trimmed(cell) \in r.rlike <=> Stripped(cell) \in r.accepts)

\* row_number() over the copies of a payload, ordered by _ord, is greater than 1.
SparkRowDuplicate(batch, ord, r) ==
    \E q \in batch : q.record = r.record /\ ord[q] < ord[r]

\* Fault: every row of the identity is counted, copies included.
SurvivorCount_WithCopies(rs, batch, ord, r) ==
    Cardinality({q \in batch : SameIdentity(rs, q.record, r.record)})

\* Fault: only rows up to r in the window are counted, as by an ordered window.
SurvivorCount_Running(rs, batch, ord, r) ==
    Cardinality({q \in batch :
        /\ SameIdentity(rs, q.record, r.record)
        /\ ~SparkRowDuplicate(batch, ord, q)
        /\ ord[q] <= ord[r]})

\* Fault: only the rivals of r are counted, but still compared with 1.
SurvivorCount_Others(rs, batch, ord, r) ==
    Cardinality({q \in batch \ {r} :
        /\ SameIdentity(rs, q.record, r.record)
        /\ ~SparkRowDuplicate(batch, ord, q)})

\* The survivors in the window of r's identity.
SurvivorCount(rs, batch, ord, r) ==
    Cardinality({q \in batch :
        /\ SameIdentity(rs, q.record, r.record)
        /\ ~SparkRowDuplicate(batch, ord, q)})

SparkKeyDuplicate(rs, batch, ord, r) ==
    /\ ~SparkRowDuplicate(batch, ord, r)
    /\ \A c \in rs.identity : ~Nullish(r.record[c])
    /\ SurvivorCount(rs, batch, ord, r) > 1

\* validated_df: the reason column.
SparkReasons(rs, batch, ord, as_of, r) ==
    SparkRuleReasons(rs, r.record, as_of)
      \cup
    IF rs.duplicate \notin Blocking THEN {}
    ELSE {d \in {RowDuplicate, KeyDuplicate} :
             \/ d = RowDuplicate /\ SparkRowDuplicate(batch, ord, r)
             \/ d = KeyDuplicate /\ SparkKeyDuplicate(rs, batch, ord, r)}

\* split: the two tables, of which the pipeline evaluates one at a time.
SparkValid(rs, batch, ord, as_of) ==
    {[order |-> r.order, typed |-> SparkTypedRecord(rs, r.record)] :
        r \in {q \in batch : SparkReasons(rs, batch, ord, as_of, q) = {}}}

\* Fault: the filter on the reasons is missing.
SparkQuarantine_All(rs, batch, ord, as_of) ==
    {[order |-> r.order, record |-> r.record,
      reasons |-> SparkReasons(rs, batch, ord, as_of, r)] : r \in batch}

SparkQuarantine(rs, batch, ord, as_of) ==
    {[order |-> r.order, record |-> r.record,
      reasons |-> SparkReasons(rs, batch, ord, as_of, r)] :
        r \in {q \in batch : SparkReasons(rs, batch, ord, as_of, q) # {}}}
=============================================================================
