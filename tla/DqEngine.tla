------------------------------ MODULE DqEngine ------------------------------
(***************************************************************************)
(* dq/rules.py and dq/engine.py: the pure oracle of data quality.          *)
(*                                                                         *)
(* A batch is a set of rows [order, record]: a row's place in the input    *)
(* and its landed columns.  A cell is Null or a string; what strings are   *)
(* made of shows only in what str.strip leaves of them, in what the        *)
(* declared type makes of that (casts) and in which of them rules accept.  *)
(***************************************************************************)
EXTENDS Ordering, FiniteSets

CONSTANTS
    Empty,        \* the empty string
    DeleteCode,   \* the op code "D"
    Strip         \* str.strip on the strings that it changes: any whitespace goes

ASSUME StripAssumption ==
    /\ Null # Empty /\ DeleteCode \notin {Null, Empty}
    /\ DOMAIN Strip \cap {Null, Empty, DeleteCode} = {}
    /\ \A text \in DOMAIN Strip : Strip[text] \notin DOMAIN Strip \cup {Null}

Stripped(cell) == IF cell \in DOMAIN Strip THEN Strip[cell] ELSE cell

IsNull(cell) == cell = Null \/ Stripped(cell) = Empty

Blocking == {"quarantine", "gate"}

\* Rules that say nothing of the payload of a key-only delete.
SuppressedRules == {"null_key", "format", "try_cast"}

RecordLocalRules == {"null_key", "domain", "format", "plausibility", "range", "try_cast"}

\* What bind_ruleset is given: the columns, the type of every non-string column (as the
\* partial functions on texts that the two languages make of it: casts in Python,
\* try_casts in Spark), the identity, the configured rules and severities.
IsRuleSet(rs) ==
    /\ Null \notin rs.columns /\ DOMAIN rs.casts \subseteq rs.columns
    /\ rs.identity \subseteq rs.columns
    /\ rs.op_column \in rs.columns \cup {Null}
    /\ \A r \in rs.rules : r.rule \in RecordLocalRules /\ r.column \in rs.columns
    /\ \A r, q \in rs.rules : r.rule = q.rule /\ r.column = q.column => r = q
    /\ DOMAIN rs.try_casts = DOMAIN rs.casts
    /\ \A c \in DOMAIN rs.casts :
           \A text \in DOMAIN rs.casts[c] \cup DOMAIN rs.try_casts[c] : ~IsNull(text)

\* A try_cast rule is synthesized for every non-string column that has none.
RecordRules(rs) ==
    rs.rules \cup
    {[rule |-> "try_cast", column |-> c, severity |-> rs.cast_severity] :
        c \in {d \in DOMAIN rs.casts :
                  ~\E r \in rs.rules : r.rule = "try_cast" /\ r.column = d}}

-----------------------------------------------------------------------------
(* One record.                                                             *)

\* coerce_value: Null on a null or on a failure; a string stays as it landed.
Coerced(rs, column, cell) ==
    IF IsNull(cell) THEN Null
    ELSE IF column \notin DOMAIN rs.casts THEN cell
    ELSE IF Stripped(cell) \in DOMAIN rs.casts[column] THEN rs.casts[column][Stripped(cell)]
    ELSE Null

CoercedRecord(rs, record) == [c \in rs.columns |-> Coerced(rs, c, record[c])]

\* BoundRule.evaluate: every rule but null_key ignores nulls, and a value that
\* cannot be cast violates try_cast alone.
Violates(rs, r, record, as_of) ==
    LET cell  == record[r.column]
        typed == Coerced(rs, r.column, cell)
    IN  CASE r.rule = "null_key"              -> IsNull(cell)
          [] r.rule = "try_cast"              -> ~IsNull(cell) /\ typed = Null
          [] r.rule \in {"domain", "format"}  -> ~IsNull(cell) /\ Stripped(cell) \notin r.accepts
          [] r.rule = "range"                 -> typed # Null /\ typed \notin r.accepts
          [] r.rule = "plausibility"          -> typed # Null /\ typed > as_of + r.skew

IsDeleteImage(rs, record) ==
    rs.op_column # Null /\ rs.delete_payload = "key_only"
        /\ Stripped(record[rs.op_column]) = DeleteCode

Suppressed(rs, r, record) ==
    /\ IsDeleteImage(rs, record)
    /\ r.rule \in SuppressedRules
    /\ r.column \notin rs.identity \cup {rs.op_column}

RuleReasons(rs, record, as_of) ==
    {<<r.column, r.rule>> :
        r \in {q \in RecordRules(rs) :
                  /\ q.severity \in Blocking
                  /\ ~Suppressed(rs, q, record)
                  /\ Violates(rs, q, record, as_of)}}

-----------------------------------------------------------------------------
(* The batch.                                                              *)

RowDuplicate == <<"row", "duplicate">>
KeyDuplicate == <<"key", "duplicate">>

\* Exact copies beyond the first in input order.
RowDuplicates(batch) ==
    {r \in batch : \E q \in batch : q.record = r.record /\ q.order < r.order}

SameIdentity(rs, record, other) == \A c \in rs.identity : record[c] = other[c]

\* Every survivor of an identity that more than one survivor has; rows without an
\* identity belong to null_key.
KeyDuplicates(rs, batch) ==
    LET candidates == {r \in batch \ RowDuplicates(batch) :
                          \A c \in rs.identity : ~IsNull(r.record[c])}
    IN  {r \in candidates :
            \E q \in candidates : q # r /\ SameIdentity(rs, r.record, q.record)}

\* validate_batch: the blocking reasons of row r.
Reasons(rs, batch, as_of, r) ==
    RuleReasons(rs, r.record, as_of)
      \cup
    IF rs.duplicate \notin Blocking THEN {}
    ELSE {d \in {RowDuplicate, KeyDuplicate} :
             \/ d = RowDuplicate /\ r \in RowDuplicates(batch)
             \/ d = KeyDuplicate /\ r \in KeyDuplicates(rs, batch)}

ValidRows(rs, batch, as_of) ==
    {[order |-> r.order, typed |-> CoercedRecord(rs, r.record)] :
        r \in {q \in batch : Reasons(rs, batch, as_of, q) = {}}}

QuarantinedRows(rs, batch, as_of) ==
    {[order |-> r.order, record |-> r.record, reasons |-> Reasons(rs, batch, as_of, r)] :
        r \in {q \in batch : Reasons(rs, batch, as_of, q) # {}}}
=============================================================================
