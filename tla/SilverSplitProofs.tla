------------------------- MODULE SilverSplitProofs --------------------------
(***************************************************************************)
(* Conservation of the split for every rule set, every bronze table and    *)
(* every two orders of its rows: which copies survive may differ between   *)
(* the evaluations, how many rows are valid may not.                       *)
(***************************************************************************)
EXTENDS SilverSplit, BasicProofs

\* Rows that are told apart by their place in the input.
Batch(rows) ==
    /\ IsFiniteSet(rows)
    /\ \A r \in rows : r.order \in 1..Cardinality(rows)
    /\ \A r, q \in rows : r.order = q.order => r = q

\* The rows that an evaluation lets pass.
Passing(rs, rows, ord, t) == {r \in rows : SparkReasons(rs, rows, ord, t, r) = {}}

\* Sets between which there is a one-to-one function are equally large.
LEMMA SameSize ==
    ASSUME NEW S, NEW T, IsFiniteSet(S), NEW f \in [S -> T],
           \A x, y \in S : f[x] = f[y] => x = y,
           \A t \in T : \E x \in S : f[x] = t
    PROVE  IsFiniteSet(T) /\ Cardinality(T) = Cardinality(S)
<1>1. f \in Bijection(S, T)
  BY DEF Bijection, Injection, Surjection, IsInjective
<1>2. ExistsBijection(S, T)
  BY <1>1 DEF ExistsBijection
<1> QED
  BY <1>2, FS_Bijection

\* A set has two different elements exactly if its cardinality is above one.
LEMMA AboveOne ==
    ASSUME NEW S, IsFiniteSet(S)
    PROVE  Cardinality(S) > 1 <=> \E x, y \in S : x # y
<1>1. Cardinality(S) \in Nat
  BY FS_CardinalityType
<1>2. Cardinality(S) = 0 <=> S = {}
  BY FS_EmptySet
<1>3. Cardinality(S) = 1 <=> \E x : S = {x}
  BY FS_Singleton
<1>4. CASE S = {}
  BY <1>2, <1>4
<1>5. CASE S # {}
  <2>1. PICK x \in S : TRUE
    BY <1>5
  <2>2. (\E z : S = {z}) <=> S = {x}
    BY <2>1
  <2>3. S = {x} <=> ~\E y, z \in S : y # z
    BY <2>1
  <2>4. Cardinality(S) # 0
    BY <1>2, <1>5
  <2>5. Cardinality(S) > 1 <=> Cardinality(S) # 1
    BY <1>1, <2>4
  <2> QED
    BY <1>3, <2>2, <2>3, <2>5
<1> QED
  BY <1>4, <1>5

\* Whatever the order, each record that landed has exactly one surviving row.
LEMMA OneSurvivor ==
    ASSUME NEW rows, IsFiniteSet(rows), NEW ord \in RowIds(rows), NEW r \in rows
    PROVE  /\ \E q \in rows : q.record = r.record /\ ~SparkRowDuplicate(rows, ord, q)
           /\ \A q \in rows :
                  q.record = r.record /\ ~SparkRowDuplicate(rows, ord, q)
                      /\ ~SparkRowDuplicate(rows, ord, r) => q = r
<1> DEFINE Copies == {q \in rows : q.record = r.record}
           Before == {p \in rows \X rows : ord[p[1]] < ord[p[2]]}
<1>1. Cardinality(rows) \in Nat
  BY FS_CardinalityType
<1>2. \A q \in rows : ord[q] \in Int
  BY <1>1 DEF RowIds
<1>3. \A p, q \in rows : ord[p] = ord[q] => p = q
  BY DEF RowIds
<1>4. \A p, q \in rows : <<p, q>> \in Before <=> ord[p] < ord[q]
  OBVIOUS
<1> HIDE DEF Before
<1>5. IsFiniteSet(Copies) /\ Copies # {} /\ Copies \subseteq rows
  BY FS_Subset
<1>6. \A p, q \in Copies : p = q \/ <<p, q>> \in Before \/ <<q, p>> \in Before
  <2>1. \A p, q \in rows : p = q \/ ord[p] < ord[q] \/ ord[q] < ord[p]
    BY <1>2, <1>3
  <2> HIDE DEF Copies
  <2> QED
    BY <1>4, <1>5, <2>1
<1>7. \A p, q, s \in Copies :
          <<p, q>> \in Before /\ <<q, s>> \in Before => <<p, s>> \in Before
  BY <1>2, <1>4
<1>8. \E m \in Copies : \A q \in Copies : q = m \/ <<m, q>> \in Before
  <2> HIDE DEF Copies
  <2> QED
    BY <1>5, <1>6, <1>7, FirstExists, ZenonT(40)
<1>9. PICK m \in Copies : \A q \in Copies : q = m \/ ord[m] < ord[q]
  BY <1>4, <1>8
<1>10. ~SparkRowDuplicate(rows, ord, m)
  BY <1>2, <1>9 DEF SparkRowDuplicate
<1>11. ASSUME NEW q \in rows, q.record = r.record, ~SparkRowDuplicate(rows, ord, q)
       PROVE  q = m
  BY <1>9, <1>11 DEF SparkRowDuplicate
<1>12. m \in rows /\ m.record = r.record
  OBVIOUS
<1>13. ~SparkRowDuplicate(rows, ord, r) => r = m
  BY <1>11
<1>14. \E q \in rows : q.record = r.record /\ ~SparkRowDuplicate(rows, ord, q)
  BY <1>10, <1>12
<1>15. ASSUME NEW q \in rows, q.record = r.record, ~SparkRowDuplicate(rows, ord, q),
              ~SparkRowDuplicate(rows, ord, r)
       PROVE  q = r
  <2>1. q = m
    BY <1>11, <1>15
  <2>2. r = m
    BY <1>13, <1>15
  <2> QED
    BY <2>1, <2>2
<1> QED
  BY <1>14, <1>15

\* Another record with this one's identity landed too.
Contested(rs, rows, record) ==
    /\ \A c \in rs.identity : ~Nullish(record[c])
    /\ \E q \in rows : q.record # record /\ SameIdentity(rs, q.record, record)

\* Whether a surviving row is a key duplicate depends on the records alone.
LEMMA KeyDuplicateOfRecords ==
    ASSUME NEW rs, NEW rows, IsFiniteSet(rows), NEW ord \in RowIds(rows), NEW r \in rows,
           ~SparkRowDuplicate(rows, ord, r)
    PROVE  SparkKeyDuplicate(rs, rows, ord, r) <=> Contested(rs, rows, r.record)
<1> DEFINE Survivors == {q \in rows : /\ SameIdentity(rs, q.record, r.record)
                                      /\ ~SparkRowDuplicate(rows, ord, q)}
<1>1. IsFiniteSet(Survivors)
  BY FS_Subset
<1>2. r \in Survivors
  BY DEF SameIdentity
<1>3. (\E x, y \in Survivors : x # y) <=> \E q \in Survivors : q # r
  BY <1>2
<1>4. ASSUME NEW q \in Survivors, q # r
      PROVE  q.record # r.record
  BY <1>4, OneSurvivor
<1>5. ASSUME NEW q \in rows, q.record # r.record, SameIdentity(rs, q.record, r.record)
      PROVE  \E s \in Survivors : s # r
  <2>1. PICK s \in rows : s.record = q.record /\ ~SparkRowDuplicate(rows, ord, s)
    BY OneSurvivor
  <2> QED
    BY <1>5, <2>1
<1>6. (\E q \in Survivors : q # r)
        <=> \E q \in rows : q.record # r.record /\ SameIdentity(rs, q.record, r.record)
  BY <1>4, <1>5
<1>7. SurvivorCount(rs, rows, ord, r) > 1 <=> \E x, y \in Survivors : x # y
  <2>1. SurvivorCount(rs, rows, ord, r) = Cardinality(Survivors)
    BY DEF SurvivorCount
  <2> HIDE DEF Survivors
  <2> QED
    BY <1>1, <2>1, AboveOne
<1> HIDE DEF Survivors
<1> QED
  BY <1>3, <1>6, <1>7 DEF SparkKeyDuplicate, Contested

\* With duplicates not blocking, the order plays no part at all.
LEMMA PassingUnordered ==
    ASSUME NEW rs, rs.duplicate \notin Blocking, NEW rows, NEW ord, NEW t
    PROVE  Passing(rs, rows, ord, t) = {r \in rows : SparkRuleReasons(rs, r.record, t) = {}}
BY DEF Passing, SparkReasons

\* The records that break no rule and are not contested.
CleanRecords(rs, rows, t) ==
    {x \in {r.record : r \in rows} :
        SparkRuleReasons(rs, x, t) = {} /\ ~Contested(rs, rows, x)}

\* With blocking duplicates, the rows that pass are the survivors of those records:
\* one row for each.
LEMMA PassingRecords ==
    ASSUME NEW rs, rs.duplicate \in Blocking, NEW rows, IsFiniteSet(rows),
           NEW ord \in RowIds(rows), NEW t
    PROVE  Cardinality(Passing(rs, rows, ord, t)) = Cardinality(CleanRecords(rs, rows, t))
<1> DEFINE clean == CleanRecords(rs, rows, t)
           P == Passing(rs, rows, ord, t)
           f == [r \in P |-> r.record]
<1>1. \A r \in rows :
          r \in P <=> /\ ~SparkRowDuplicate(rows, ord, r)
                      /\ r.record \in clean
  <2> SUFFICES ASSUME NEW r \in rows
               PROVE  r \in P <=> ~SparkRowDuplicate(rows, ord, r) /\ r.record \in clean
    OBVIOUS
  <2>1. r \in P <=> /\ SparkRuleReasons(rs, r.record, t) = {}
                    /\ ~SparkRowDuplicate(rows, ord, r)
                    /\ ~SparkKeyDuplicate(rs, rows, ord, r)
    BY DEF Passing, SparkReasons, RowDuplicate, KeyDuplicate
  <2>2. ~SparkRowDuplicate(rows, ord, r) =>
            (SparkKeyDuplicate(rs, rows, ord, r) <=> Contested(rs, rows, r.record))
    BY KeyDuplicateOfRecords
  <2> QED
    BY <2>1, <2>2 DEF CleanRecords
<1>2. P \subseteq rows /\ IsFiniteSet(P)
  BY FS_Subset DEF Passing
<1>3. f \in [P -> clean]
  BY <1>1, <1>2
<1>4. \A x, y \in P : f[x] = f[y] => x = y
  BY <1>1, <1>2, OneSurvivor
<1>5. ASSUME NEW x \in clean
      PROVE  \E r \in P : f[r] = x
  <2>1. PICK q \in rows : q.record = x
    BY DEF CleanRecords
  <2>2. PICK r \in rows : r.record = q.record /\ ~SparkRowDuplicate(rows, ord, r)
    BY OneSurvivor
  <2> QED
    BY <1>1, <2>1, <2>2
<1> HIDE DEF clean, P, f
<1>6. IsFiniteSet(clean) /\ Cardinality(clean) = Cardinality(P)
  BY <1>2, <1>3, <1>4, <1>5, SameSize
<1> QED
  BY <1>6 DEF clean, P

\* How many rows pass does not depend on the order.
LEMMA PassingCount ==
    ASSUME NEW rs, NEW rows, IsFiniteSet(rows), NEW t,
           NEW ord \in RowIds(rows), NEW other \in RowIds(rows)
    PROVE  Cardinality(Passing(rs, rows, ord, t)) = Cardinality(Passing(rs, rows, other, t))
<1>1. CASE rs.duplicate \in Blocking
  BY <1>1, PassingRecords
<1>2. CASE rs.duplicate \notin Blocking
  <2> DEFINE clean == {r \in rows : SparkRuleReasons(rs, r.record, t) = {}}
  <2>1. Passing(rs, rows, ord, t) = clean
    BY <1>2, PassingUnordered
  <2>2. Passing(rs, rows, other, t) = clean
    BY <1>2, PassingUnordered
  <2> QED
    BY <2>1, <2>2
<1> QED
  BY <1>1, <1>2

\* The two halves of the split, evaluated in any two orders, add up to the whole.
THEOREM SplitConserves ==
    ASSUME NEW rs, NEW rows, Batch(rows), NEW t,
           NEW ord \in RowIds(rows), NEW other \in RowIds(rows)
    PROVE  /\ IsFiniteSet(SparkValid(rs, rows, ord, t))
           /\ IsFiniteSet(SparkQuarantine(rs, rows, other, t))
           /\ Cardinality(rows) = Cardinality(SparkValid(rs, rows, ord, t))
                                    + Cardinality(SparkQuarantine(rs, rows, other, t))
<1> DEFINE P == Passing(rs, rows, ord, t)
           Q == Passing(rs, rows, other, t)
           V == SparkValid(rs, rows, ord, t)
           W == SparkQuarantine(rs, rows, other, t)
           f == [r \in P |-> [order |-> r.order, typed |-> SparkTypedRecord(rs, r.record)]]
           g == [r \in rows \ Q |-> [order |-> r.order, record |-> r.record,
                                     reasons |-> SparkReasons(rs, rows, other, t, r)]]
<1>1. IsFiniteSet(rows)
  BY DEF Batch
<1>2. P \subseteq rows /\ Q \subseteq rows /\ IsFiniteSet(P) /\ IsFiniteSet(Q)
  BY <1>1, FS_Subset DEF Passing
<1>3. IsFiniteSet(V) /\ Cardinality(V) = Cardinality(P)
  <2>1. f \in [P -> V] /\ \A v \in V : \E r \in P : f[r] = v
    BY DEF SparkValid, Passing
  <2>2. \A x, y \in P : f[x] = f[y] => x = y
    BY <1>2 DEF Batch
  <2> HIDE DEF P, V, f
  <2> QED
    BY <1>2, <2>1, <2>2, SameSize
<1>4. IsFiniteSet(W) /\ Cardinality(W) = Cardinality(rows \ Q)
  <2>1. g \in [rows \ Q -> W] /\ \A w \in W : \E r \in rows \ Q : g[r] = w
    BY DEF SparkQuarantine, Passing
  <2>2. \A x, y \in rows \ Q : g[x] = g[y] => x = y
    BY DEF Batch
  <2>3. IsFiniteSet(rows \ Q)
    BY <1>1, FS_Subset
  <2> HIDE DEF Q, W, g
  <2> QED
    BY <2>1, <2>2, <2>3, SameSize
<1>5. Cardinality(P) = Cardinality(Q)
  BY <1>1, PassingCount
<1>6. Cardinality(rows \ Q) = Cardinality(rows) - Cardinality(Q)
  <2> HIDE DEF Q
  <2>1. rows \cap Q = Q
    BY <1>2
  <2> QED
    BY <1>1, <2>1, FS_Difference
<1>7. Cardinality(rows) \in Nat /\ Cardinality(Q) \in Nat
  BY <1>1, <1>2, FS_CardinalityType
<1> HIDE DEF P, Q, V, W
<1>8. Cardinality(rows) = Cardinality(V) + Cardinality(W)
  BY <1>3, <1>4, <1>5, <1>6, <1>7
<1> QED
  BY <1>3, <1>4, <1>8 DEF V, W

\* A row that has no copy passes in one order if it passes in another.
LEMMA UncopiedRow ==
    ASSUME NEW rs, NEW rows, Batch(rows), NEW t, NEW r \in rows,
           \A q \in rows : q.record = r.record => q = r,
           NEW ord \in RowIds(rows), NEW other \in RowIds(rows)
    PROVE  (\E v \in SparkValid(rs, rows, ord, t) : v.order = r.order)
               <=> ~\E w \in SparkQuarantine(rs, rows, other, t) : w.order = r.order
<1>1. IsFiniteSet(rows) /\ Cardinality(rows) \in Nat
  BY FS_CardinalityType DEF Batch
<1>2. ~SparkRowDuplicate(rows, ord, r) /\ ~SparkRowDuplicate(rows, other, r)
  <2>1. ord[r] \in Int /\ other[r] \in Int
    BY <1>1 DEF RowIds
  <2> QED
    BY <2>1 DEF SparkRowDuplicate
<1>3. SparkKeyDuplicate(rs, rows, ord, r) <=> SparkKeyDuplicate(rs, rows, other, r)
  BY <1>1, <1>2, KeyDuplicateOfRecords
<1>4. SparkReasons(rs, rows, ord, t, r) = SparkReasons(rs, rows, other, t, r)
  BY <1>2, <1>3 DEF SparkReasons
<1>5. (\E v \in SparkValid(rs, rows, ord, t) : v.order = r.order)
          <=> SparkReasons(rs, rows, ord, t, r) = {}
  <2>1. \A v \in SparkValid(rs, rows, ord, t) :
            \E q \in rows : v.order = q.order /\ SparkReasons(rs, rows, ord, t, q) = {}
    BY DEF SparkValid
  <2>2. SparkReasons(rs, rows, ord, t, r) = {} =>
            \E v \in SparkValid(rs, rows, ord, t) : v.order = r.order
    <3> DEFINE v == [order |-> r.order, typed |-> SparkTypedRecord(rs, r.record)]
    <3>1. SparkReasons(rs, rows, ord, t, r) = {} => v \in SparkValid(rs, rows, ord, t)
      BY Zenon DEF SparkValid
    <3> QED
      BY <3>1
  <2> QED
    BY <2>1, <2>2 DEF Batch
<1>6. (\E w \in SparkQuarantine(rs, rows, other, t) : w.order = r.order)
          <=> SparkReasons(rs, rows, other, t, r) # {}
  <2>1. \A w \in SparkQuarantine(rs, rows, other, t) :
            \E q \in rows : w.order = q.order /\ SparkReasons(rs, rows, other, t, q) # {}
    BY DEF SparkQuarantine
  <2>2. SparkReasons(rs, rows, other, t, r) # {} =>
            \E w \in SparkQuarantine(rs, rows, other, t) : w.order = r.order
    <3> DEFINE w == [order |-> r.order, record |-> r.record,
                     reasons |-> SparkReasons(rs, rows, other, t, r)]
    <3>1. SparkReasons(rs, rows, other, t, r) # {} => w \in SparkQuarantine(rs, rows, other, t)
      BY Zenon DEF SparkQuarantine
    <3> QED
      BY <3>1
  <2> QED
    BY <2>1, <2>2 DEF Batch
<1> QED
  BY <1>4, <1>5, <1>6

\* The label of lateness neither merges rows nor renames them.
LEMMA FlaggedSame ==
    ASSUME NEW rs, NEW rows, NEW ord, NEW t, NEW column,
           IsFiniteSet(SparkValid(rs, rows, ord, t))
    PROVE  LET V == SparkValid(rs, rows, ord, t)
               F == Flagged(V, column, t)
           IN  /\ IsFiniteSet(F) /\ Cardinality(F) = Cardinality(V)
               /\ \A o : (\E v \in F : v.order = o) <=> \E v \in V : v.order = o
<1> DEFINE V == SparkValid(rs, rows, ord, t)
           F == Flagged(V, column, t)
           Label(v) == IF column = Null THEN Null ELSE LatenessColumn(v.typed[column], t)
           f == [v \in V |-> [order |-> v.order, typed |-> v.typed, lateness |-> Label(v)]]
<1>1. F = {[order |-> v.order, typed |-> v.typed, lateness |-> Label(v)] : v \in V}
  BY DEF Flagged
<1>2. \A v \in V : v = [order |-> v.order, typed |-> v.typed]
  BY DEF SparkValid
<1> HIDE DEF V, F, Label
<1>3. f \in [V -> F] /\ \A w \in F : \E v \in V : f[v] = w
  BY <1>1
<1>4. \A v, w \in V : f[v] = f[w] => v = w
  <2>1. ASSUME NEW v \in V, NEW w \in V, f[v] = f[w]
        PROVE  v.order = w.order /\ v.typed = w.typed
    BY <2>1
  <2> QED
    BY <1>2, <2>1
<1>5. \A o : (\E w \in F : w.order = o) <=> \E v \in V : v.order = o
  <2>1. \A w \in F : \E v \in V : w.order = v.order
    BY <1>1
  <2>2. \A v \in V : f[v] \in F /\ f[v].order = v.order
    BY <1>3
  <2> HIDE DEF f
  <2> QED
    BY <2>1, <2>2
<1>6. IsFiniteSet(F) /\ Cardinality(F) = Cardinality(V)
  <2>1. IsFiniteSet(V)
    BY DEF V
  <2> HIDE DEF f
  <2> QED
    BY <1>3, <1>4, <2>1, SameSize
<1> QED
  BY <1>5, <1>6 DEF V, F

-----------------------------------------------------------------------------
(* The verdicts of the two validators.                                     *)

\* Every rule, synthesized ones included, is about a column and of a known kind.
LEMMA RulesKnown ==
    ASSUME NEW rs, IsRuleSet(rs), NEW r \in RecordRules(rs)
    PROVE  r.column \in rs.columns /\ r.rule \in RecordLocalRules
BY DEF IsRuleSet, RecordRules, RecordLocalRules

\* What Spark takes for null the oracle takes for null too: it strips no less.
LEMMA NullishIsNull ==
    ASSUME NEW cell, Nullish(cell)
    PROVE  IsNull(cell)
BY StripAssumption, TrimAssumption DEF Nullish, IsNull, Trimmed, Stripped

\* A cell that both languages read alike is null to both or to neither, and has one typed
\* value.
LEMMA CellsAgree ==
    ASSUME NEW rs, IsRuleSet(rs), NEW c, NEW cell, ReadAlike(rs, c, cell)
    PROVE  /\ Nullish(cell) <=> IsNull(cell)
           /\ SparkTyped(rs, c, cell) = Coerced(rs, c, cell)
<1>1. Nullish(cell) <=> IsNull(cell)
  BY DEF ReadAlike, Nullish, IsNull
<1>2. SparkTyped(rs, c, cell) = Coerced(rs, c, cell)
  <2> HIDE DEF Nullish, IsNull
  <2>1. CASE c \notin DOMAIN rs.casts
    BY <1>1, <2>1 DEF SparkTyped, Coerced
  <2>2. CASE c \in DOMAIN rs.casts
    BY <2>2 DEF ReadAlike
  <2> QED
    BY <2>1, <2>2
<1> QED
  BY <1>1, <1>2

\* Such a cell breaks the same rules: a pattern is the same test in both languages, other
\* rules look at the stripped text or at the typed value.
LEMMA FlagsAgree ==
    ASSUME NEW rs, IsRuleSet(rs), NEW r \in RecordRules(rs), NEW record, NEW t,
           ReadAlike(rs, r.column, record[r.column])
    PROVE  SparkFlag(rs, r, record, t) <=> Violates(rs, r, record, t)
<1> DEFINE cell == record[r.column]
<1>1. r.rule \in RecordLocalRules
  BY RulesKnown
<1>2. /\ Nullish(cell) <=> IsNull(cell)
      /\ SparkTyped(rs, r.column, cell) = Coerced(rs, r.column, cell)
  BY CellsAgree
<1>3. Trimmed(cell) = Stripped(cell)
  BY DEF ReadAlike
<1>4. r.rule = "format" => (Trimmed(cell) \in r.rlike <=> Stripped(cell) \in r.accepts)
  <2> SUFFICES ASSUME r.rule = "format"
               PROVE  Trimmed(cell) \in r.rlike <=> Stripped(cell) \in r.accepts
    OBVIOUS
  <2>1. r \in rs.rules
    BY DEF RecordRules
  <2> QED
    BY <2>1 DEF ReadAlike
<1> QED
  BY <1>1, <1>2, <1>3, <1>4 DEF SparkFlag, Violates, RecordLocalRules

\* The two suppress the same rules of a record whose op code both read alike.
LEMMA SuppressionAgrees ==
    ASSUME NEW rs, NEW r, NEW record,
           rs.op_column # Null => ReadAlike(rs, rs.op_column, record[rs.op_column])
    PROVE  SparkSuppressed(rs, r, record) <=> Suppressed(rs, r, record)
BY DEF SparkSuppressed, Suppressed, IsDeleteImage, SuppressedRules, ReadAlike

\* Both languages read every cell of the record alike.
Plain(rs, record) == \A c \in rs.columns : ReadAlike(rs, c, record[c])

LEMMA RecordsAgree ==
    ASSUME NEW rs, IsRuleSet(rs), NEW record, NEW t, Plain(rs, record)
    PROVE  /\ SparkRuleReasons(rs, record, t) = RuleReasons(rs, record, t)
           /\ SparkTypedRecord(rs, record) = CoercedRecord(rs, record)
<1>1. \A r \in RecordRules(rs) : SparkFlag(rs, r, record, t) <=> Violates(rs, r, record, t)
  BY RulesKnown, FlagsAgree DEF Plain
<1>2. \A r \in RecordRules(rs) : SparkSuppressed(rs, r, record) <=> Suppressed(rs, r, record)
  BY SuppressionAgrees DEF Plain, IsRuleSet
<1>3. SparkRuleReasons(rs, record, t) = RuleReasons(rs, record, t)
  BY <1>1, <1>2, Zenon DEF SparkRuleReasons, RuleReasons
<1>4. \A c \in rs.columns : SparkTyped(rs, c, record[c]) = Coerced(rs, c, record[c])
  BY CellsAgree DEF Plain
<1>5. SparkTypedRecord(rs, record) = CoercedRecord(rs, record)
  BY <1>4 DEF SparkTypedRecord, CoercedRecord
<1> QED
  BY <1>3, <1>5

\* The oracle validates as an evaluation does that numbers the rows as they landed.
InputOrder(rows) == [r \in rows |-> r.order]

LEMMA OracleNumbersRows ==
    ASSUME NEW rows, Batch(rows)
    PROVE  /\ InputOrder(rows) \in RowIds(rows)
           /\ \A r \in rows : SparkRowDuplicate(rows, InputOrder(rows), r)
                                  <=> r \in RowDuplicates(rows)
<1>1. InputOrder(rows) \in RowIds(rows)
  BY DEF InputOrder, RowIds, Batch
<1>2. \A r \in rows : SparkRowDuplicate(rows, InputOrder(rows), r)
                          <=> r \in RowDuplicates(rows)
  BY DEF InputOrder, SparkRowDuplicate, RowDuplicates
<1> QED
  BY <1>1, <1>2

LEMMA OracleKeyDuplicates ==
    ASSUME NEW rs, IsRuleSet(rs), NEW rows, Batch(rows), \A r \in rows : Plain(rs, r.record),
           NEW r \in rows
    PROVE  SparkKeyDuplicate(rs, rows, InputOrder(rows), r) <=> r \in KeyDuplicates(rs, rows)
<1> DEFINE ord == InputOrder(rows)
           Named(record) == \A c \in rs.identity : ~IsNull(record[c])
           Survivors == rows \ RowDuplicates(rows)
<1>1. IsFiniteSet(rows) /\ ord \in RowIds(rows)
  BY OracleNumbersRows DEF Batch
<1>2. \A q \in rows : SparkRowDuplicate(rows, ord, q) <=> q \in RowDuplicates(rows)
  BY OracleNumbersRows
<1>3. \A q \in rows : (\A c \in rs.identity : ~Nullish(q.record[c])) <=> Named(q.record)
  BY CellsAgree DEF Plain, IsRuleSet
<1>4. r \in KeyDuplicates(rs, rows) <=>
          /\ r \in Survivors /\ Named(r.record)
          /\ \E q \in Survivors : Named(q.record) /\ q # r /\ SameIdentity(rs, r.record, q.record)
  BY DEF KeyDuplicates
<1>5. SparkKeyDuplicate(rs, rows, ord, r) => r \in Survivors
  BY <1>2 DEF SparkKeyDuplicate
<1> SUFFICES ASSUME r \in Survivors
             PROVE  SparkKeyDuplicate(rs, rows, ord, r) <=> r \in KeyDuplicates(rs, rows)
  BY <1>4, <1>5
<1>6. SparkKeyDuplicate(rs, rows, ord, r) <=> Contested(rs, rows, r.record)
  BY <1>1, <1>2, KeyDuplicateOfRecords
<1>7. ASSUME NEW q \in Survivors, q # r
      PROVE  q.record # r.record
  BY <1>1, <1>2, <1>7, OneSurvivor
<1>8. ASSUME NEW q \in rows, q.record # r.record, SameIdentity(rs, q.record, r.record)
      PROVE  \E s \in Survivors : s # r /\ s.record = q.record
  <2>1. PICK s \in rows : s.record = q.record /\ ~SparkRowDuplicate(rows, ord, s)
    BY <1>1, OneSurvivor
  <2> QED
    BY <1>2, <1>8, <2>1
<1>9. \A q \in rows : SameIdentity(rs, r.record, q.record) /\ Named(r.record) => Named(q.record)
  BY DEF SameIdentity
<1>10. \A q \in rows : SameIdentity(rs, q.record, r.record) <=> SameIdentity(rs, r.record, q.record)
  BY DEF SameIdentity
<1>11. Contested(rs, rows, r.record) <=>
           /\ Named(r.record)
           /\ \E q \in rows : q.record # r.record /\ SameIdentity(rs, r.record, q.record)
  BY <1>3, <1>10 DEF Contested
<1>12. (\E q \in Survivors : q # r /\ SameIdentity(rs, r.record, q.record))
           <=> \E q \in rows : q.record # r.record /\ SameIdentity(rs, r.record, q.record)
  <2>1. \A q \in rows : SameIdentity(rs, r.record, q.record)
                            <=> \A c \in rs.identity : r.record[c] = q.record[c]
    BY DEF SameIdentity
  <2> QED
    BY <1>7, <1>8, <1>10, <2>1
<1> HIDE DEF Named, Survivors
<1> QED
  BY <1>4, <1>6, <1>9, <1>11, <1>12 DEF Survivors

\* Where the two read all cells alike, the oracle's tables are those of one evaluation.
LEMMA OracleIsAnEvaluation ==
    ASSUME NEW rs, IsRuleSet(rs), NEW rows, Batch(rows), \A r \in rows : Plain(rs, r.record),
           NEW t
    PROVE  /\ ValidRows(rs, rows, t) = SparkValid(rs, rows, InputOrder(rows), t)
           /\ QuarantinedRows(rs, rows, t) = SparkQuarantine(rs, rows, InputOrder(rows), t)
<1>1. \A r \in rows : Reasons(rs, rows, t, r) = SparkReasons(rs, rows, InputOrder(rows), t, r)
  <2> TAKE r \in rows
  <2>1. SparkRuleReasons(rs, r.record, t) = RuleReasons(rs, r.record, t)
    BY RecordsAgree
  <2>2. SparkRowDuplicate(rows, InputOrder(rows), r) <=> r \in RowDuplicates(rows)
    BY OracleNumbersRows
  <2>3. SparkKeyDuplicate(rs, rows, InputOrder(rows), r) <=> r \in KeyDuplicates(rs, rows)
    BY OracleKeyDuplicates
  <2> QED
    BY <2>1, <2>2, <2>3 DEF Reasons, SparkReasons
<1>2. \A r \in rows : SparkTypedRecord(rs, r.record) = CoercedRecord(rs, r.record)
  BY RecordsAgree
<1>3. ValidRows(rs, rows, t) = SparkValid(rs, rows, InputOrder(rows), t)
  BY <1>1, <1>2 DEF ValidRows, SparkValid
<1>4. QuarantinedRows(rs, rows, t) = SparkQuarantine(rs, rows, InputOrder(rows), t)
  BY <1>1 DEF QuarantinedRows, SparkQuarantine
<1> QED
  BY <1>3, <1>4

\* Two evaluations give the rows the same reasons, but for which copy has which: there is
\* a one-to-one function of the rows onto themselves that maps each to a copy with the
\* reasons that it has in the other.
Renumbers(p, rs, rows, ord, other, t) ==
    /\ \A x, y \in rows : p[x] = p[y] => x = y
    /\ \A y \in rows : \E x \in rows : p[x] = y
    /\ \A r \in rows :
           /\ p[r].record = r.record
           /\ SparkReasons(rs, rows, ord, t, r) = SparkReasons(rs, rows, other, t, p[r])

LEMMA Renumbering ==
    ASSUME NEW rs, NEW rows, IsFiniteSet(rows), NEW t,
           NEW ord \in RowIds(rows), NEW other \in RowIds(rows)
    PROVE  \E p \in [rows -> rows] : Renumbers(p, rs, rows, ord, other, t)
<1> DEFINE First(r) == ~SparkRowDuplicate(rows, ord, r)
           Second(r) == ~SparkRowDuplicate(rows, other, r)
           HeirOf(r) == CHOOSE q \in rows : q.record = r.record /\ First(q)
           Heir(r) == CHOOSE q \in rows : q.record = r.record /\ Second(q)
           p == [r \in rows |-> IF First(r) THEN Heir(r) ELSE IF Second(r) THEN HeirOf(r) ELSE r]
<1>1. \A r \in rows : HeirOf(r) \in rows /\ HeirOf(r).record = r.record /\ First(HeirOf(r))
  <2> TAKE r \in rows
  <2>1. \E q \in rows : q.record = r.record /\ First(q)
    BY OneSurvivor
  <2> HIDE DEF First
  <2> QED
    BY <2>1
<1>2. \A r \in rows : Heir(r) \in rows /\ Heir(r).record = r.record /\ Second(Heir(r))
  <2> TAKE r \in rows
  <2>1. \E q \in rows : q.record = r.record /\ Second(q)
    BY OneSurvivor
  <2> HIDE DEF Second
  <2> QED
    BY <2>1
<1>3. \A x, y \in rows : x.record = y.record /\ First(x) /\ First(y) => x = y
  BY OneSurvivor
<1>4. \A x, y \in rows : x.record = y.record /\ Second(x) /\ Second(y) => x = y
  BY OneSurvivor
<1>5. \A r \in rows : First(r) /\ Second(r) => Heir(r) = r
  <2> HIDE DEF Heir, First, Second
  <2> QED
    BY <1>2, <1>4
<1>6. \A r \in rows : /\ p[r] \in rows /\ p[r].record = r.record
                      /\ First(r) => p[r] = Heir(r)
                      /\ ~First(r) /\ Second(r) => p[r] = HeirOf(r)
                      /\ ~First(r) /\ ~Second(r) => p[r] = r
  <2> HIDE DEF Heir, HeirOf, First, Second
  <2> QED
    BY <1>1, <1>2
<1>7. p \in [rows -> rows]
  <2> HIDE DEF Heir, HeirOf, First, Second
  <2> QED
    BY <1>1, <1>2
<1> HIDE DEF Heir, HeirOf, First, Second, p
<1>8. ASSUME NEW r \in rows
      PROVE  p[p[r]] = r /\ (First(r) <=> Second(p[r]))
  <2>1. CASE First(r) /\ Second(r)
    BY <1>5, <1>6, <2>1
  <2>2. CASE First(r) /\ ~Second(r)
    <3> DEFINE h == Heir(r)
    <3>1. h \in rows /\ h.record = r.record /\ Second(h) /\ h = p[r]
      BY <1>2, <1>6, <2>2
    <3>2. ~First(h)
      BY <1>3, <2>2, <3>1
    <3>3. p[h] = HeirOf(h) /\ HeirOf(h) \in rows /\ HeirOf(h).record = h.record /\ First(HeirOf(h))
      BY <1>1, <1>6, <3>1, <3>2
    <3>4. HeirOf(h) = r
      BY <1>3, <2>2, <3>1, <3>3
    <3> QED
      BY <2>2, <3>1, <3>3, <3>4
  <2>3. CASE ~First(r) /\ Second(r)
    <3> DEFINE h == HeirOf(r)
    <3>1. h \in rows /\ h.record = r.record /\ First(h) /\ h = p[r]
      BY <1>1, <1>6, <2>3
    <3>2. p[h] = Heir(h) /\ Heir(h) \in rows /\ Heir(h).record = h.record /\ Second(Heir(h))
      BY <1>2, <1>6, <3>1
    <3>3. Heir(h) = r
      BY <1>4, <2>3, <3>1, <3>2
    <3>4. ~Second(h)
      BY <1>4, <2>3, <3>1
    <3> QED
      BY <2>3, <3>1, <3>2, <3>3, <3>4
  <2>4. CASE ~First(r) /\ ~Second(r)
    BY <1>6, <2>4
  <2> QED
    BY <2>1, <2>2, <2>3, <2>4
<1>9. \A x, y \in rows : p[x] = p[y] => x = y
  BY <1>8
<1>10. \A y \in rows : \E x \in rows : p[x] = y
  BY <1>6, <1>8
<1>11. ASSUME NEW r \in rows
       PROVE  SparkReasons(rs, rows, ord, t, r) = SparkReasons(rs, rows, other, t, p[r])
  <2> DEFINE s == p[r]
  <2>1. s \in rows /\ s.record = r.record
    BY <1>6
  <2>2. SparkRowDuplicate(rows, ord, r) <=> SparkRowDuplicate(rows, other, s)
    BY <1>8 DEF First, Second
  <2> HIDE DEF s
  <2>3. SparkKeyDuplicate(rs, rows, ord, r) <=> SparkKeyDuplicate(rs, rows, other, s)
    <3>1. CASE SparkRowDuplicate(rows, ord, r)
      BY <2>2, <3>1 DEF SparkKeyDuplicate
    <3>2. CASE ~SparkRowDuplicate(rows, ord, r)
      BY <2>1, <2>2, <3>2, KeyDuplicateOfRecords
    <3> QED
      BY <3>1, <3>2
  <2>4. SparkReasons(rs, rows, ord, t, r) = SparkReasons(rs, rows, other, t, s)
    BY <2>1, <2>2, <2>3 DEF SparkReasons
  <2> QED
    BY <2>4 DEF s
<1>12. \A r \in rows : p[r].record = r.record
  BY <1>6
<1>13. Renumbers(p, rs, rows, ord, other, t)
  BY <1>9, <1>10, <1>11, <1>12 DEF Renumbers
<1> QED
  BY <1>7, <1>13

\* The rows whose record and reasons in an evaluation are among the picked.
Picked(rs, rows, ord, t, picks) ==
    {r \in rows : <<r.record, SparkReasons(rs, rows, ord, t, r)>> \in picks}

\* Rows chosen by their record and reasons are as many in one evaluation as in another.
LEMMA SameChoice ==
    ASSUME NEW rs, NEW rows, IsFiniteSet(rows), NEW t,
           NEW ord \in RowIds(rows), NEW other \in RowIds(rows), NEW picks
    PROVE  Cardinality(Picked(rs, rows, ord, t, picks))
             = Cardinality(Picked(rs, rows, other, t, picks))
<1> DEFINE A == Picked(rs, rows, ord, t, picks)
           B == Picked(rs, rows, other, t, picks)
<1>1. PICK p \in [rows -> rows] : Renumbers(p, rs, rows, ord, other, t)
  BY Renumbering
<1>2. \A r \in rows : r \in A <=> p[r] \in B
  BY <1>1 DEF Renumbers, Picked
<1>3. A \subseteq rows /\ B \subseteq rows /\ IsFiniteSet(A)
  BY FS_Subset DEF Picked
<1> HIDE DEF A, B
<1> DEFINE f == [r \in A |-> p[r]]
<1>4. f \in [A -> B]
  BY <1>2, <1>3
<1>5. \A x, y \in A : f[x] = f[y] => x = y
  BY <1>1, <1>3 DEF Renumbers
<1>6. \A y \in B : \E x \in A : f[x] = y
  BY <1>1, <1>2, <1>3 DEF Renumbers
<1> HIDE DEF f
<1>7. Cardinality(B) = Cardinality(A)
  BY <1>3, <1>4, <1>5, <1>6, SameSize
<1> QED
  BY <1>7 DEF A, B

\* The rows whose record has the typed values c, paired with no reasons.
Cast(rs, rows, c) == {<<r.record, {}>> : r \in {q \in rows : SparkTypedRecord(rs, q.record) = c}}

\* The valid rows with the typed values c, the quarantined ones with the record and reasons c.
OfValues(rows, c) == {v \in rows : v.typed = c}
OfVerdict(rows, c) == {q \in rows : <<q.record, q.reasons>> = c}

\* Valid rows with the typed values c are as many as rows with such a record and no reason.
LEMMA ValidCount ==
    ASSUME NEW rs, NEW rows, Batch(rows), NEW t, NEW ord \in RowIds(rows), NEW c
    PROVE  Cardinality(OfValues(SparkValid(rs, rows, ord, t), c))
             = Cardinality(Picked(rs, rows, ord, t, Cast(rs, rows, c)))
<1> DEFINE A == Picked(rs, rows, ord, t, Cast(rs, rows, c))
           V == OfValues(SparkValid(rs, rows, ord, t), c)
           Image(r) == [order |-> r.order, typed |-> SparkTypedRecord(rs, r.record)]
           f == [r \in A |-> Image(r)]
<1>1. \A r \in rows : r \in A <=> /\ SparkReasons(rs, rows, ord, t, r) = {}
                                  /\ SparkTypedRecord(rs, r.record) = c
  BY DEF Cast, Picked
<1>2. \A v : v \in V <=> \E r \in rows : /\ SparkReasons(rs, rows, ord, t, r) = {}
                                         /\ SparkTypedRecord(rs, r.record) = c
                                         /\ v = Image(r)
  BY DEF SparkValid, OfValues
<1>3. A \subseteq rows /\ IsFiniteSet(A)
  BY FS_Subset DEF Batch, Picked
<1>4. \A x, y \in A : f[x] = f[y] => x = y
  <2> HIDE DEF A
  <2>1. \A x, y \in A : Image(x) = Image(y) => x.order = y.order
    OBVIOUS
  <2> HIDE DEF Image
  <2> QED
    BY <1>3, <2>1 DEF Batch
<1> HIDE DEF A, V, Image
<1>5. f \in [A -> V] /\ \A v \in V : \E r \in A : f[r] = v
  BY <1>1, <1>2, <1>3
<1> HIDE DEF f
<1>6. Cardinality(V) = Cardinality(A)
  BY <1>3, <1>4, <1>5, SameSize
<1> QED
  BY <1>6 DEF V, A

\* The label of lateness changes none of these counts.
LEMMA FlaggedCount ==
    ASSUME NEW rs, NEW rows, NEW ord, NEW t, NEW column, NEW c,
           IsFiniteSet(SparkValid(rs, rows, ord, t))
    PROVE  Cardinality(OfValues(Flagged(SparkValid(rs, rows, ord, t), column, t), c))
             = Cardinality(OfValues(SparkValid(rs, rows, ord, t), c))
<1> DEFINE V == SparkValid(rs, rows, ord, t)
           Vc == OfValues(V, c)
           Fc == OfValues(Flagged(V, column, t), c)
           Label(v) == IF column = Null THEN Null ELSE LatenessColumn(v.typed[column], t)
           Image(v) == [order |-> v.order, typed |-> v.typed, lateness |-> Label(v)]
           f == [v \in Vc |-> Image(v)]
<1>1. \A w : w \in Flagged(V, column, t) <=> \E v \in V : w = Image(v)
  BY DEF Flagged
<1>2. \A v \in V : v = [order |-> v.order, typed |-> v.typed]
  BY DEF SparkValid
<1> HIDE DEF V
<1>3. Vc \subseteq V /\ IsFiniteSet(Vc)
  BY FS_Subset DEF V, OfValues
<1>4. \A v : Image(v).typed = v.typed /\ Image(v).order = v.order
  BY DEF Image
<1>5. \A x, y \in Vc : f[x] = f[y] => x = y
  <2>1. \A x, y \in V : Image(x) = Image(y) => x = y
    <3> HIDE DEF Image
    <3> QED
      BY <1>2, <1>4
  <2> HIDE DEF Image, Vc
  <2> QED
    BY <1>3, <2>1
<1> HIDE DEF Label, Image
<1>6. f \in [Vc -> Fc] /\ \A w \in Fc : \E v \in Vc : f[v] = w
  BY <1>1, <1>4 DEF OfValues
<1> HIDE DEF f, Vc, Fc
<1>7. Cardinality(Fc) = Cardinality(Vc)
  BY <1>3, <1>5, <1>6, SameSize
<1> QED
  BY <1>7 DEF Fc, Vc, V

\* The record and reasons c alone, if there are any reasons in it.
Blamed(c) == {x \in {c} : x[2] # {}}

\* Quarantined rows with the record and reasons c are as many as rows with them.
LEMMA QuarantineCount ==
    ASSUME NEW rs, NEW rows, Batch(rows), NEW t, NEW ord \in RowIds(rows), NEW c
    PROVE  Cardinality(OfVerdict(SparkQuarantine(rs, rows, ord, t), c))
             = Cardinality(Picked(rs, rows, ord, t, Blamed(c)))
<1> DEFINE A == Picked(rs, rows, ord, t, Blamed(c))
           Q == OfVerdict(SparkQuarantine(rs, rows, ord, t), c)
           Image(r) == [order |-> r.order, record |-> r.record,
                        reasons |-> SparkReasons(rs, rows, ord, t, r)]
           f == [r \in A |-> Image(r)]
<1>1. \A r \in rows : r \in A <=> /\ SparkReasons(rs, rows, ord, t, r) # {}
                                  /\ <<r.record, SparkReasons(rs, rows, ord, t, r)>> = c
  BY DEF Blamed, Picked
<1>2. \A q : q \in Q <=> \E r \in rows : /\ SparkReasons(rs, rows, ord, t, r) # {}
                                         /\ <<r.record, SparkReasons(rs, rows, ord, t, r)>> = c
                                         /\ q = Image(r)
  BY DEF SparkQuarantine, OfVerdict
<1>3. A \subseteq rows /\ IsFiniteSet(A)
  BY FS_Subset DEF Batch, Picked
<1>4. \A x, y \in A : f[x] = f[y] => x = y
  <2> HIDE DEF A
  <2>1. \A x, y \in A : Image(x) = Image(y) => x.order = y.order
    OBVIOUS
  <2> HIDE DEF Image
  <2> QED
    BY <1>3, <2>1 DEF Batch
<1> HIDE DEF A, Q, Image
<1>5. f \in [A -> Q] /\ \A q \in Q : \E r \in A : f[r] = q
  BY <1>1, <1>2, <1>3
<1> HIDE DEF f
<1>6. Cardinality(Q) = Cardinality(A)
  BY <1>3, <1>4, <1>5, SameSize
<1> QED
  BY <1>6 DEF Q, A

-----------------------------------------------------------------------------
\* What the last update, running or completed, has refreshed.
Done(d) == outcome \in {"running", "completed"} /\ d \notin pending

IInv ==
    /\ Batch(raw)
    /\ pending \subseteq SplitDatasets
    /\ outcome = "running" <=> pending # {}
    /\ Done("valid") =>
           /\ Done("raw")
           /\ \E ord \in RowIds(raw) :
                  valid = Flagged(SparkValid(ruleset, raw, ord, as_of), event_time, as_of)
    /\ Done("quarantine") =>
           /\ Done("raw")
           /\ \E ord \in RowIds(raw) : quarantine = SparkQuarantine(ruleset, raw, ord, as_of)
    /\ reconciliation.conserved = TRUE

\* Appended rows continue the numbering.
LEMMA AppendedBatch ==
    ASSUME Batch(raw), NEW records \in Arrivals
    PROVE  Batch(raw \cup {[order |-> Cardinality(raw) + i, record |-> records[i]] :
                              i \in DOMAIN records})
<1> DEFINE C == Cardinality(raw)
           New == {[order |-> C + i, record |-> records[i]] : i \in DOMAIN records}
           f == [i \in DOMAIN records |-> [order |-> C + i, record |-> records[i]]]
<1>1. C \in Nat /\ IsFiniteSet(raw)
  BY FS_CardinalityType DEF Batch
<1>2. PICK n \in Nat : DOMAIN records = 1..n
  BY SplitAssumption DEF Arrivals
<1>3. IsFiniteSet(1..n) /\ Cardinality(1..n) = n
  BY FS_Interval
<1>4. IsFiniteSet(New) /\ Cardinality(New) = n
  <2>1. f \in [1..n -> New] /\ \A y \in New : \E i \in 1..n : f[i] = y
    BY <1>2
  <2>2. \A i, j \in 1..n : f[i] = f[j] => i = j
    BY <1>1, <1>2
  <2> HIDE DEF New, f
  <2> QED
    BY <1>3, <2>1, <2>2, SameSize
<1>5. \A r \in New : r.order \in C + 1..C + n
  BY <1>1, <1>2
<1>6. raw \cap New = {}
  BY <1>1, <1>5 DEF Batch
<1>7. \A r, q \in New : r.order = q.order => r = q
  BY <1>1, <1>2
<1> HIDE DEF New
<1>8. IsFiniteSet(raw \cup New) /\ Cardinality(raw \cup New) = C + n
  BY <1>1, <1>4, <1>6, FS_EmptySet, FS_Union
<1>9. \A r \in raw : r.order \in 1..C
  BY DEF Batch
<1>10. \A r \in raw \cup New : r.order \in 1..(C + n)
  BY <1>1, <1>5, <1>9
<1>11. \A r, q \in raw \cup New : r.order = q.order => r = q
  BY <1>1, <1>5, <1>7, <1>9 DEF Batch
<1> HIDE DEF C
<1>12. Batch(raw \cup New)
  BY <1>8, <1>10, <1>11 DEF Batch
<1> QED
  BY <1>12 DEF New, C

LEMMA InitEstablishes == Init => IInv
<1> SUFFICES ASSUME Init PROVE IInv
  OBVIOUS
<1>1. Batch(raw)
  BY FS_EmptySet DEF Init, Batch
<1> QED
  BY <1>1 DEF Init, IInv, Done

LEMMA NextPreserves == IInv /\ [Next]_vars => IInv'
<1> SUFFICES ASSUME IInv, [Next]_vars PROVE IInv'
  OBVIOUS
<1> USE DEF IInv, Done
<1>1. CASE Tick
  BY <1>1 DEF Tick, tables, ruleset, event_time
<1>2. CASE StartUpdate
  BY <1>2 DEF StartUpdate, tables, ruleset, event_time, SplitDatasets, SplitReads
<1>3. ASSUME NEW records \in Arrivals, Ingest(records)
      PROVE  IInv'
  <2>1. Batch(raw')
    BY <1>3, AppendedBatch DEF Ingest
  <2>2. ~Done("raw") /\ ~Done("valid") /\ ~Done("quarantine")
    BY <1>3 DEF Ingest, Refreshed
  <2>3. pending' = pending \ {"raw"} /\ outcome' = IF pending' = {} THEN "completed" ELSE "running"
    BY <1>3 DEF Ingest, Refreshed
  <2>4. "valid" \in pending /\ "quarantine" \in pending
    BY <1>3, <2>2 DEF Ingest, Refreshed
  <2> QED
    BY <1>3, <2>1, <2>3, <2>4 DEF Ingest, Refreshed
<1>4. CASE RefreshValid
  <2>1. "raw" \notin pending /\ "valid" \in pending
    BY <1>4 DEF RefreshValid, Refreshed, SplitReads
  <2>2. PICK ord \in RowIds(raw) :
            valid' = Flagged(SparkValid(ruleset, raw, ord, as_of), event_time, as_of)
    BY <1>4 DEF RefreshValid, EvaluationTime
  <2>3. UNCHANGED <<raw, as_of, ruleset, event_time, quarantine, reconciliation>>
    BY <1>4 DEF RefreshValid, Refreshed, ruleset, event_time
  <2>4. pending' = pending \ {"valid"} /\ outcome' = IF pending' = {} THEN "completed" ELSE "running"
    BY <1>4 DEF RefreshValid, Refreshed
  <2>5. outcome = "running"
    BY <2>1
  <2> QED
    BY <2>1, <2>2, <2>3, <2>4, <2>5
<1>5. CASE RefreshQuarantine
  <2>1. "raw" \notin pending /\ "quarantine" \in pending
    BY <1>5 DEF RefreshQuarantine, Refreshed, SplitReads
  <2>2. PICK ord \in RowIds(raw) : quarantine' = SparkQuarantine(ruleset, raw, ord, as_of)
    BY <1>5 DEF RefreshQuarantine, EvaluationTime
  <2>3. UNCHANGED <<raw, as_of, ruleset, event_time, valid, reconciliation>>
    BY <1>5 DEF RefreshQuarantine, Refreshed, ruleset, event_time
  <2>4. pending' = pending \ {"quarantine"}
          /\ outcome' = IF pending' = {} THEN "completed" ELSE "running"
    BY <1>5 DEF RefreshQuarantine, Refreshed
  <2>5. outcome = "running"
    BY <2>1
  <2> QED
    BY <2>1, <2>2, <2>3, <2>4, <2>5
<1>6. CASE RefreshReconciliation
  <2>1. "reconciliation" \in pending /\ "raw" \notin pending
          /\ "valid" \notin pending /\ "quarantine" \notin pending
    BY <1>6 DEF RefreshReconciliation, Refreshed, SplitReads
  <2>2. outcome = "running"
    BY <2>1
  <2>3. PICK ord \in RowIds(raw) :
            valid = Flagged(SparkValid(ruleset, raw, ord, as_of), event_time, as_of)
    BY <2>1, <2>2
  <2>4. PICK other \in RowIds(raw) : quarantine = SparkQuarantine(ruleset, raw, other, as_of)
    BY <2>1, <2>2
  <2>5. Cardinality(raw) = Cardinality(valid) + Cardinality(quarantine)
    BY <2>3, <2>4, SplitConserves, FlaggedSame
  <2>6. reconciliation'.conserved = TRUE
    BY <1>6, <2>5 DEF RefreshReconciliation
  <2>7. UNCHANGED <<raw, as_of, ruleset, event_time, valid, quarantine>>
    BY <1>6 DEF RefreshReconciliation, Refreshed, ruleset, event_time
  <2>8. pending' = pending \ {"reconciliation"}
          /\ outcome' = IF pending' = {} THEN "completed" ELSE "running"
    BY <1>6 DEF RefreshReconciliation, Refreshed
  <2> QED
    BY <2>1, <2>2, <2>6, <2>7, <2>8
<1>7. CASE FailUpdate
  BY <1>7 DEF FailUpdate, tables, ruleset, event_time
<1>8. CASE UNCHANGED vars
  BY <1>8 DEF vars, tables, ruleset, event_time
<1> QED
  BY <1>1, <1>2, <1>3, <1>4, <1>5, <1>6, <1>7, <1>8 DEF Next

LEMMA InductiveInvariant == Spec => []IInv
BY InitEstablishes, NextPreserves, PTL DEF Spec

\* dq_reconciliation never reports a loss: for every rule set, however the rows of
\* bronze are numbered by the two evaluations, and whatever update failed before.
THEOREM ReconciliationConserved == Spec => []Conserved
<1>1. IInv => Conserved
  BY DEF IInv, Conserved
<1> QED
  BY <1>1, InductiveInvariant, PTL

\* After a completed update a row without copies is in one of the halves, and only one.
THEOREM RowsInOneHalf == Spec => []EachRowOnce
<1>1. IInv => EachRowOnce
  <2> SUFFICES ASSUME IInv, outcome = "completed", NEW r \in raw,
                      \A q \in raw : q.record = r.record => q = r
               PROVE  (\E v \in valid : v.order = r.order)
                          <=> ~\E q \in quarantine : q.order = r.order
    BY DEF EachRowOnce
  <2>1. Done("valid") /\ Done("quarantine")
    BY DEF IInv, Done
  <2>2. PICK ord \in RowIds(raw) :
            valid = Flagged(SparkValid(ruleset, raw, ord, as_of), event_time, as_of)
    BY <2>1 DEF IInv
  <2>3. PICK other \in RowIds(raw) : quarantine = SparkQuarantine(ruleset, raw, other, as_of)
    BY <2>1 DEF IInv
  <2>4. Batch(raw)
    BY DEF IInv
  <2>5. (\E v \in valid : v.order = r.order)
            <=> \E v \in SparkValid(ruleset, raw, ord, as_of) : v.order = r.order
    BY <2>2, <2>4, SplitConserves, FlaggedSame
  <2> QED
    BY <2>3, <2>4, <2>5, UncopiedRow
<1> QED
  BY <1>1, InductiveInvariant, PTL

-----------------------------------------------------------------------------
(* Types.                                                                  *)

\* Where a valid row comes from.
LEMMA ValidFrom ==
    ASSUME NEW rs, NEW rows, NEW ord, NEW t, NEW column,
           NEW v \in Flagged(SparkValid(rs, rows, ord, t), column, t)
    PROVE  \E r \in rows :
               /\ SparkReasons(rs, rows, ord, t, r) = {}
               /\ v.order = r.order /\ v.typed = SparkTypedRecord(rs, r.record)
               /\ v.lateness = IF column = Null THEN Null ELSE LatenessColumn(v.typed[column], t)
<1>1. PICK w \in SparkValid(rs, rows, ord, t) :
          v = [order |-> w.order, typed |-> w.typed,
               lateness |-> IF column = Null THEN Null ELSE LatenessColumn(w.typed[column], t)]
  BY DEF Flagged
<1>2. PICK r \in rows : /\ SparkReasons(rs, rows, ord, t, r) = {}
                        /\ w = [order |-> r.order, typed |-> SparkTypedRecord(rs, r.record)]
  BY DEF SparkValid
<1> QED
  BY <1>1, <1>2

\* Labelled rows of one place and content are one row.
LEMMA LabelledByRow ==
    ASSUME NEW V, NEW column, NEW t, NEW v \in Flagged(V, column, t), NEW w \in Flagged(V, column, t),
           v.order = w.order, v.typed = w.typed
    PROVE  v = w
<1> DEFINE Label(typed) == IF column = Null THEN Null ELSE LatenessColumn(typed[column], t)
<1>1. \A x \in Flagged(V, column, t) :
          x = [order |-> x.order, typed |-> x.typed, lateness |-> Label(x.typed)]
  BY DEF Flagged
<1> HIDE DEF Label
<1> QED
  BY <1>1

LEMMA QuarantineFrom ==
    ASSUME NEW rs, NEW rows, NEW ord, NEW t, NEW q \in SparkQuarantine(rs, rows, ord, t)
    PROVE  \E r \in rows : /\ q.order = r.order /\ q.record = r.record
                           /\ q.reasons = SparkReasons(rs, rows, ord, t, r)
                           /\ q.reasons # {}
BY DEF SparkQuarantine

LEMMA FirstN ==
    ASSUME NEW n \in Nat
    PROVE  IsFiniteSet(1..n) /\ Cardinality(1..n) = n
BY FS_Interval

TypeInv == TypeOK /\ Cardinality(raw) <= MaxRows

LEMMA TypesInitially == Init => TypeInv
<1> SUFFICES ASSUME Init PROVE TypeInv
  OBVIOUS
<1>1. Cardinality(raw) = 0
  BY FS_EmptySet DEF Init
<1> QED
  BY <1>1, SplitAssumption DEF Init, TypeInv, TypeOK

LEMMA TypesPreserved == IInv /\ IInv' /\ TypeInv /\ [Next]_vars => TypeInv'
<1> SUFFICES ASSUME IInv, IInv', TypeInv, [Next]_vars PROVE TypeInv'
  OBVIOUS
<1> USE DEF TypeInv, TypeOK, ruleset, event_time, Row
<1>0. Batch(raw) /\ IsFiniteSet(raw) /\ Cardinality(raw) \in Nat /\ MaxRows \in Nat
  BY FS_CardinalityType, SplitAssumption DEF IInv, Batch
<1>1. CASE Tick
  BY <1>1, SplitAssumption DEF Tick, tables
<1>2. CASE StartUpdate
  <2>1. UNCHANGED <<source, raw, valid, quarantine, reconciliation, clock, failures>>
    BY <1>2 DEF StartUpdate, tables
  <2>2. pending' \subseteq SplitDatasets /\ outcome' = "running" /\ as_of' = clock
    BY <1>2 DEF StartUpdate
  <2>3. as_of' \in 1..clock'
    BY <2>1, <2>2, SplitAssumption
  <2> QED
    BY <2>1, <2>2, <2>3
<1>3. ASSUME NEW records \in Arrivals, Ingest(records)
      PROVE  TypeInv'
  <2>1. PICK n \in Nat : records \in [1..n -> RecordsOf[source]] /\ n \in 0..MaxArrivals
    BY SplitAssumption DEF Arrivals
  <2>2. Len(records) = n /\ DOMAIN records = 1..n
    BY <2>1
  <2> DEFINE C == Cardinality(raw)
             Added == {[order |-> C + i, record |-> records[i]] : i \in DOMAIN records}
  <2>3. raw' = raw \cup Added /\ C + n <= MaxRows
    BY <1>3, <2>2 DEF Ingest
  <2>4. \A i \in 1..n : [order |-> C + i, record |-> records[i]] \in Row
    BY <1>0, <2>1, <2>3
  <2>5. Added \subseteq Row
    BY <2>2, <2>4
  <2>6. Cardinality(raw') <= C + n
    <3> DEFINE I == 1..n
               f == [i \in I |-> [order |-> C + i, record |-> records[i]]]
    <3>1. f \in [I -> Added] /\ \A y \in Added : \E i \in I : f[i] = y
      BY <2>2
    <3>2. \A i, j \in I : f[i] = f[j] => i = j
      BY <1>0, <2>1
    <3>3. IsFiniteSet(I) /\ Cardinality(I) = n
      BY FirstN
    <3> HIDE DEF f, Added, I
    <3>4. IsFiniteSet(Added) /\ Cardinality(Added) = Cardinality(I)
      BY <3>1, <3>2, <3>3, SameSize
    <3>5. Cardinality(raw \cup Added)
            = Cardinality(raw) + Cardinality(Added) - Cardinality(raw \cap Added)
      BY <1>0, <3>4, FS_Union
    <3>6. Cardinality(raw \cap Added) \in Nat
      BY <1>0, FS_Subset, FS_CardinalityType
    <3> HIDE DEF C
    <3> QED
      BY <1>0, <2>3, <3>3, <3>4, <3>5, <3>6 DEF C
  <2>7. Cardinality(raw') \in Nat
    BY FS_CardinalityType DEF IInv, Batch
  <2>8. Cardinality(raw') <= MaxRows
    BY <1>0, <2>1, <2>3, <2>6, <2>7
  <2> HIDE DEF Added
  <2> QED
    BY <1>3, <2>3, <2>5, <2>8 DEF Ingest, Refreshed
<1>4. CASE RefreshValid
  <2>1. PICK ord \in RowIds(raw) :
            valid' = Flagged(SparkValid(ruleset, raw, ord, as_of), event_time, as_of)
    BY <1>4 DEF RefreshValid, EvaluationTime
  <2>2. ASSUME NEW v \in valid'
        PROVE  /\ v.order \in 1..MaxRows /\ DOMAIN v.typed = ruleset.columns
               /\ v.lateness \in IF event_time = Null THEN {Null}
                                 ELSE {"in_window", "beyond_window"}
    <3>1. PICK r \in raw :
              /\ v.order = r.order /\ v.typed = SparkTypedRecord(ruleset, r.record)
              /\ v.lateness = IF event_time = Null THEN Null
                              ELSE LatenessColumn(v.typed[event_time], as_of)
      BY <2>1, <2>2, ValidFrom
    <3> QED
      BY <3>1 DEF SparkTypedRecord, LatenessColumn
  <2> QED
    BY <1>4, <2>2 DEF RefreshValid, Refreshed
<1>5. CASE RefreshQuarantine
  <2>1. PICK ord \in RowIds(raw) : quarantine' = SparkQuarantine(ruleset, raw, ord, as_of)
    BY <1>5 DEF RefreshQuarantine, EvaluationTime
  <2>2. ASSUME NEW q \in quarantine'
        PROVE  [order |-> q.order, record |-> q.record] \in Row /\ q.reasons # {}
    <3>1. PICK r \in raw : q.order = r.order /\ q.record = r.record /\ q.reasons # {}
      BY <2>1, <2>2, QuarantineFrom
    <3>2. r \in Row
      BY <3>1
    <3> QED
      BY <3>1, <3>2
  <2> QED
    BY <1>5, <2>2 DEF RefreshQuarantine, Refreshed
<1>6. CASE RefreshReconciliation
  <2>1. outcome = "running" /\ "valid" \notin pending /\ "quarantine" \notin pending
    BY <1>6 DEF RefreshReconciliation, Refreshed, SplitReads, IInv
  <2>2. PICK ord \in RowIds(raw) :
            valid = Flagged(SparkValid(ruleset, raw, ord, as_of), event_time, as_of)
    BY <2>1 DEF IInv, Done
  <2>3. PICK other \in RowIds(raw) : quarantine = SparkQuarantine(ruleset, raw, other, as_of)
    BY <2>1 DEF IInv, Done
  <2>4. /\ IsFiniteSet(valid) /\ IsFiniteSet(quarantine)
        /\ Cardinality(raw) = Cardinality(valid) + Cardinality(quarantine)
    BY <1>0, <2>2, <2>3, SplitConserves, FlaggedSame
  <2>5. Cardinality(valid) \in Nat /\ Cardinality(quarantine) \in Nat
    BY <2>4, FS_CardinalityType
  <2>6. /\ Cardinality(raw) \in 0..MaxRows /\ Cardinality(valid) \in 0..MaxRows
        /\ Cardinality(quarantine) \in 0..MaxRows
    BY <1>0, <2>4, <2>5
  <2>7. reconciliation' \in [raw : 0..MaxRows, valid : 0..MaxRows, quarantine : 0..MaxRows,
                             conserved : BOOLEAN]
    BY <1>6, <2>6 DEF RefreshReconciliation
  <2> QED
    BY <1>6, <2>7 DEF RefreshReconciliation, Refreshed
<1>7. CASE FailUpdate
  BY <1>7, SplitAssumption DEF FailUpdate, tables
<1>8. CASE UNCHANGED vars
  BY <1>8 DEF vars, tables
<1> QED
  BY <1>1, <1>2, <1>3, <1>4, <1>5, <1>6, <1>7, <1>8 DEF Next

\* The tables hold rows of bronze and typed values of their columns, the label of lateness
\* is there exactly for fact sources, and the counts never exceed the bound on bronze.
THEOREM TypeCorrect == Spec => []TypeOK
<1>1. Init => IInv /\ TypeInv
  BY InitEstablishes, TypesInitially
<1>2. IInv /\ TypeInv /\ [Next]_vars => IInv' /\ TypeInv'
  BY NextPreserves, TypesPreserved
<1>3. TypeInv => TypeOK
  BY DEF TypeInv
<1> QED
  BY <1>1, <1>2, <1>3, PTL DEF Spec

LEMMA Typed == Spec => [](IInv /\ TypeInv)
<1>1. Init => IInv /\ TypeInv
  BY InitEstablishes, TypesInitially
<1>2. IInv /\ TypeInv /\ [Next]_vars => IInv' /\ TypeInv'
  BY NextPreserves, TypesPreserved
<1> QED
  BY <1>1, <1>2, PTL DEF Spec

LEMMA RuleSetKnown ==
    ASSUME TypeInv
    PROVE  IsRuleSet(ruleset) /\ \A r \in raw : r.record \in RecordsOf[source]
BY SplitAssumption DEF TypeInv, TypeOK, Row, ruleset

-----------------------------------------------------------------------------
(* Deletes.                                                                *)

\* A nullish cell breaks no other rule than null_key.
LEMMA NullishPasses ==
    ASSUME NEW rs, IsRuleSet(rs), NEW r \in RecordRules(rs), NEW record, NEW t,
           r.rule # "null_key", Nullish(record[r.column])
    PROVE  ~SparkFlag(rs, r, record, t)
<1>1. r.rule \in RecordLocalRules
  BY RulesKnown
<1>2. SparkTyped(rs, r.column, record[r.column]) = Null
  <2>1. ASSUME r.column \in DOMAIN rs.casts
        PROVE  record[r.column] \notin DOMAIN rs.try_casts[r.column]
    BY <2>1, NullishIsNull DEF IsRuleSet
  <2> QED
    BY <2>1 DEF SparkTyped
<1> QED
  BY <1>1, <1>2 DEF SparkFlag, RecordLocalRules

\* A delete image that is in order where rules are not suppressed breaks no rule.
LEMMA DeleteImagePasses ==
    ASSUME NEW rs, IsRuleSet(rs), NEW record, NEW t,
           IsDeleteImage(rs, record),
           \A c \in rs.identity \cup {rs.op_column} : ReadAlike(rs, c, record[c]),
           \A x \in RuleReasons(rs, record, t) : x[1] \notin rs.identity \cup {rs.op_column},
           \A q \in RecordRules(rs) :
               \/ q.column \in rs.identity \cup {rs.op_column}
               \/ q.rule \in SuppressedRules
               \/ Nullish(record[q.column])
    PROVE  SparkRuleReasons(rs, record, t) = {}
<1> DEFINE keys == rs.identity \cup {rs.op_column}
<1> SUFFICES ASSUME NEW q \in RecordRules(rs), q.severity \in Blocking,
                    SparkFlag(rs, q, record, t), ~SparkSuppressed(rs, q, record)
             PROVE  FALSE
  BY DEF SparkRuleReasons
<1>1. ~Suppressed(rs, q, record)
  BY SuppressionAgrees
<1>2. CASE q.column \in keys
  <2>1. ReadAlike(rs, q.column, record[q.column])
    BY <1>2
  <2>2. Violates(rs, q, record, t)
    BY <2>1, FlagsAgree
  <2>3. <<q.column, q.rule>> \in RuleReasons(rs, record, t)
    BY <1>1, <2>2 DEF RuleReasons
  <2>4. <<q.column, q.rule>>[1] = q.column
    OBVIOUS
  <2> QED
    BY <1>2, <2>3, <2>4
<1>3. CASE q.column \notin keys /\ q.rule \in SuppressedRules
  BY <1>1, <1>3 DEF Suppressed
<1>4. CASE q.column \notin keys /\ q.rule \notin SuppressedRules
  <2>1. Nullish(record[q.column]) /\ q.rule # "null_key"
    BY <1>4 DEF SuppressedRules
  <2> QED
    BY <2>1, NullishPasses
<1> QED
  BY <1>2, <1>3, <1>4

\* A delete that is in order where it must be is valid after a completed update, for every
\* rule set, whatever the columns of suppressed rules hold.
THEOREM DeletesPass == Spec => []DeletesReachSilver
<1>1. IInv /\ TypeInv => DeletesReachSilver
  <2> SUFFICES ASSUME IInv, TypeInv, outcome = "completed", ruleset.duplicate \notin Blocking,
                      NEW r \in raw, IsDeleteImage(ruleset, r.record),
                      \A c \in ruleset.identity \cup {ruleset.op_column} :
                          ReadAlike(ruleset, c, r.record[c]),
                      \A x \in RuleReasons(ruleset, r.record, as_of) :
                          x[1] \notin ruleset.identity \cup {ruleset.op_column},
                      \A q \in RecordRules(ruleset) :
                          \/ q.column \in ruleset.identity \cup {ruleset.op_column}
                          \/ q.rule \in SuppressedRules
                          \/ Nullish(r.record[q.column])
               PROVE  \E v \in valid : v.order = r.order
    BY DEF DeletesReachSilver
  <2>1. PICK ord \in RowIds(raw) :
            valid = Flagged(SparkValid(ruleset, raw, ord, as_of), event_time, as_of)
    BY DEF IInv, Done
  <2>2. SparkRuleReasons(ruleset, r.record, as_of) = {}
    BY RuleSetKnown, DeleteImagePasses
  <2>3. SparkReasons(ruleset, raw, ord, as_of, r) = {}
    BY <2>2 DEF SparkReasons
  <2> DEFINE v == [order |-> r.order, typed |-> SparkTypedRecord(ruleset, r.record)]
  <2>4. v \in SparkValid(ruleset, raw, ord, as_of)
    BY <2>3, Zenon DEF SparkValid
  <2>5. \E w \in SparkValid(ruleset, raw, ord, as_of) : w.order = r.order
    BY <2>4
  <2>6. IsFiniteSet(SparkValid(ruleset, raw, ord, as_of))
    BY SplitConserves DEF IInv
  <2> QED
    BY <2>1, <2>5, <2>6, FlaggedSame
<1> QED
  BY <1>1, Typed, PTL

-----------------------------------------------------------------------------
(* Identities.                                                             *)

\* Typed values of an identity column that agree come from one landed cell.
LEMMA OneSource ==
    ASSUME NEW rs, IsRuleSet(rs), OneSpelling(rs), NEW c \in rs.identity, NEW x, NEW y,
           SparkTyped(rs, c, x) # Null, SparkTyped(rs, c, x) = SparkTyped(rs, c, y)
    PROVE  x = y /\ ~Nullish(x)
<1>1. CASE c \notin DOMAIN rs.casts
  BY <1>1 DEF SparkTyped
<1>2. CASE c \in DOMAIN rs.casts
  <2>1. x \in DOMAIN rs.try_casts[c] /\ y \in DOMAIN rs.try_casts[c]
          /\ rs.try_casts[c][x] = rs.try_casts[c][y]
    BY <1>2 DEF SparkTyped
  <2>2. x = y
    BY <1>2, <2>1 DEF OneSpelling
  <2>3. ~Nullish(x)
    BY <1>2, <2>1, NullishIsNull DEF IsRuleSet
  <2> QED
    BY <2>2, <2>3
<1> QED
  BY <1>1, <1>2

\* Rows that one evaluation lets pass have different identities.
LEMMA PassingDiffer ==
    ASSUME NEW rs, IsRuleSet(rs), OneSpelling(rs), rs.duplicate \in Blocking,
           NEW rows, IsFiniteSet(rows), NEW ord \in RowIds(rows), NEW t,
           NEW r \in rows, NEW q \in rows,
           SparkReasons(rs, rows, ord, t, r) = {}, SparkReasons(rs, rows, ord, t, q) = {},
           \A c \in rs.identity : SparkTypedRecord(rs, r.record)[c] # Null,
           SameIdentity(rs, SparkTypedRecord(rs, r.record), SparkTypedRecord(rs, q.record))
    PROVE  r = q
<1>1. \A c \in rs.identity : r.record[c] = q.record[c] /\ ~Nullish(r.record[c])
  <2> TAKE c \in rs.identity
  <2>1. /\ SparkTyped(rs, c, r.record[c]) # Null
        /\ SparkTyped(rs, c, r.record[c]) = SparkTyped(rs, c, q.record[c])
    BY DEF IsRuleSet, SparkTypedRecord, SameIdentity
  <2> QED
    BY <2>1, OneSource
<1>2. /\ ~SparkRowDuplicate(rows, ord, r) /\ ~SparkRowDuplicate(rows, ord, q)
      /\ ~SparkKeyDuplicate(rs, rows, ord, r)
  BY DEF SparkReasons, RowDuplicate, KeyDuplicate
<1>3. ~Contested(rs, rows, r.record)
  BY <1>2, KeyDuplicateOfRecords
<1>4. SameIdentity(rs, q.record, r.record)
  BY <1>1 DEF SameIdentity
<1>5. q.record = r.record
  BY <1>1, <1>3, <1>4 DEF Contested
<1> QED
  BY <1>2, <1>5, OneSurvivor

\* Valid rows of a source with blocking duplicates have different identities, in every state
\* and for every rule set whose identity casts keep landed strings apart.
THEOREM IdentityClaimedOnce == Spec => []IdentityIsKey
<1>1. Init => IdentityIsKey
  BY DEF Init, IdentityIsKey
<1>2. IInv /\ TypeInv /\ IdentityIsKey /\ [Next]_vars => IdentityIsKey'
  <2> SUFFICES ASSUME IInv, TypeInv, IdentityIsKey, [Next]_vars
               PROVE  IdentityIsKey'
    OBVIOUS
  <2>1. CASE RefreshValid
    <3>1. PICK ord \in RowIds(raw) :
              valid' = Flagged(SparkValid(ruleset, raw, ord, as_of), event_time, as_of)
      BY <2>1 DEF RefreshValid, EvaluationTime
    <3>2. ruleset' = ruleset
      BY <2>1 DEF RefreshValid, Refreshed, ruleset
    <3>3. ASSUME NEW v \in valid', NEW w \in valid',
                 ruleset.duplicate \in Blocking, OneSpelling(ruleset),
                 \A c \in ruleset.identity : v.typed[c] # Null,
                 SameIdentity(ruleset, v.typed, w.typed)
          PROVE  v = w
      <4>1. PICK r \in raw :
                /\ SparkReasons(ruleset, raw, ord, as_of, r) = {}
                /\ v.order = r.order /\ v.typed = SparkTypedRecord(ruleset, r.record)
        BY <3>1, <3>3, ValidFrom
      <4>2. PICK q \in raw :
                /\ SparkReasons(ruleset, raw, ord, as_of, q) = {}
                /\ w.order = q.order /\ w.typed = SparkTypedRecord(ruleset, q.record)
        BY <3>1, <3>3, ValidFrom
      <4>3. r = q
        BY <3>3, <4>1, <4>2, RuleSetKnown, PassingDiffer DEF IInv, Batch
      <4>4. v.order = w.order /\ v.typed = w.typed
        BY <4>1, <4>2, <4>3
      <4>5. v = w
        BY <3>1, <3>3, <4>4, LabelledByRow
      <4> QED
        BY <4>5
    <3> QED
      BY <3>2, <3>3 DEF IdentityIsKey
  <2>2. CASE UNCHANGED <<valid, source>>
    BY <2>2 DEF IdentityIsKey, ruleset
  <2>3. \/ RefreshValid
        \/ UNCHANGED <<valid, source>>
    BY DEF Next, vars, Tick, StartUpdate, Ingest, RefreshQuarantine, RefreshReconciliation,
           FailUpdate, Refreshed, tables
  <2> QED
    BY <2>1, <2>2, <2>3
<1> QED
  BY <1>1, <1>2, Typed, PTL DEF Spec

-----------------------------------------------------------------------------
(* What stays in quarantine.                                               *)

\* A rule other than plausibility does not look at the clock.
LEMMA Timeless ==
    ASSUME NEW rs, IsRuleSet(rs), NEW record, NEW t, NEW later,
           NEW x \in SparkRuleReasons(rs, record, t), x[2] # "plausibility"
    PROVE  x \in SparkRuleReasons(rs, record, later)
<1>1. PICK q \in RecordRules(rs) :
          /\ x = <<q.column, q.rule>> /\ q.severity \in Blocking
          /\ SparkFlag(rs, q, record, t) /\ ~SparkSuppressed(rs, q, record)
  BY DEF SparkRuleReasons
<1>2. q.rule \in RecordLocalRules \ {"plausibility"}
  BY <1>1, RulesKnown
<1>3. SparkFlag(rs, q, record, later)
  BY <1>1, <1>2 DEF SparkFlag, RecordLocalRules
<1> QED
  BY <1>1, <1>3 DEF SparkRuleReasons

LEMMA NoRuleSaysDuplicate ==
    ASSUME NEW rs, IsRuleSet(rs), NEW record, NEW t
    PROVE  RowDuplicate \notin SparkRuleReasons(rs, record, t)
               /\ KeyDuplicate \notin SparkRuleReasons(rs, record, t)
<1>1. \A x \in SparkRuleReasons(rs, record, t) : x[2] \in RecordLocalRules
  <2> SUFFICES ASSUME NEW x \in SparkRuleReasons(rs, record, t)
               PROVE  x[2] \in RecordLocalRules
    OBVIOUS
  <2>1. PICK q \in RecordRules(rs) : x = <<q.column, q.rule>>
    BY DEF SparkRuleReasons
  <2> QED
    BY <2>1, RulesKnown
<1>2. RowDuplicate[2] \notin RecordLocalRules /\ KeyDuplicate[2] \notin RecordLocalRules
  BY DEF RowDuplicate, KeyDuplicate, RecordLocalRules
<1> QED
  BY <1>1, <1>2

\* Each reason of a quarantined row, but for plausibility, still has its cause in bronze:
\* a second copy, a rival for the identity, a rule that the record breaks at any time.
Caused(q) ==
    /\ \E r \in raw : r.record = q.record
    /\ RowDuplicate \in q.reasons =>
           /\ ruleset.duplicate \in Blocking
           /\ KeyDuplicate \notin q.reasons
           /\ \E r, p \in raw : r # p /\ r.record = q.record /\ p.record = q.record
    /\ KeyDuplicate \in q.reasons =>
           ruleset.duplicate \in Blocking /\ Contested(ruleset, raw, q.record)
    /\ \A x \in q.reasons \ {RowDuplicate, KeyDuplicate} :
           x[2] # "plausibility" => x \in SparkRuleReasons(ruleset, q.record, as_of)

Kept == \A q \in quarantine : Caused(q)

\* So it is when the row is quarantined.
LEMMA CausedAtFirst ==
    ASSUME Batch(raw), IsRuleSet(ruleset), NEW ord \in RowIds(raw),
           NEW q \in SparkQuarantine(ruleset, raw, ord, as_of)
    PROVE  Caused(q)
<1>0. IsFiniteSet(raw)
  BY DEF Batch
<1>1. PICK r \in raw : q.record = r.record /\ q.reasons = SparkReasons(ruleset, raw, ord, as_of, r)
  BY QuarantineFrom
<1> DEFINE R == SparkRuleReasons(ruleset, r.record, as_of)
<1>2. RowDuplicate \notin R /\ KeyDuplicate \notin R
  BY NoRuleSaysDuplicate
<1>3. RowDuplicate # KeyDuplicate
  BY DEF RowDuplicate, KeyDuplicate
<1>4. /\ \A x \in q.reasons : x \in R \/ x = RowDuplicate \/ x = KeyDuplicate
      /\ RowDuplicate \in q.reasons =>
             ruleset.duplicate \in Blocking /\ SparkRowDuplicate(raw, ord, r)
      /\ KeyDuplicate \in q.reasons =>
             ruleset.duplicate \in Blocking /\ SparkKeyDuplicate(ruleset, raw, ord, r)
  <2> HIDE DEF R
  <2>1. q.reasons = R \cup IF ruleset.duplicate \notin Blocking THEN {}
                           ELSE {d \in {RowDuplicate, KeyDuplicate} :
                                   \/ d = RowDuplicate /\ SparkRowDuplicate(raw, ord, r)
                                   \/ d = KeyDuplicate /\ SparkKeyDuplicate(ruleset, raw, ord, r)}
    BY <1>1 DEF SparkReasons, R
  <2> QED
    BY <1>2, <1>3, <2>1
<1>5. SparkRowDuplicate(raw, ord, r) => \E p \in raw : p # r /\ p.record = r.record
  <2>1. ord[r] \in Int
    BY <1>0, FS_CardinalityType DEF RowIds
  <2> QED
    BY <2>1 DEF SparkRowDuplicate
<1>6. SparkKeyDuplicate(ruleset, raw, ord, r) => ~SparkRowDuplicate(raw, ord, r)
  BY DEF SparkKeyDuplicate
<1>7. SparkKeyDuplicate(ruleset, raw, ord, r) => Contested(ruleset, raw, r.record)
  BY <1>0, <1>6, KeyDuplicateOfRecords
<1> HIDE DEF R
<1>8. \A x \in q.reasons \ {RowDuplicate, KeyDuplicate} :
          x \in SparkRuleReasons(ruleset, q.record, as_of)
  BY <1>1, <1>4 DEF R
<1>9. RowDuplicate \in q.reasons =>
          /\ ruleset.duplicate \in Blocking
          /\ KeyDuplicate \notin q.reasons
          /\ \E a, p \in raw : a # p /\ a.record = q.record /\ p.record = q.record
  BY <1>1, <1>4, <1>5, <1>6
<1> QED
  BY <1>1, <1>4, <1>7, <1>8, <1>9 DEF Caused

\* More rows and another hour take no cause away.
LEMMA CausesRemain ==
    ASSUME IsRuleSet(ruleset), ruleset' = ruleset, raw \subseteq raw', NEW q, Caused(q)
    PROVE  Caused(q)'
<1>1. Contested(ruleset, raw, q.record) => Contested(ruleset, raw', q.record)
  BY DEF Contested
<1>2. \A x \in SparkRuleReasons(ruleset, q.record, as_of) :
          x[2] # "plausibility" => x \in SparkRuleReasons(ruleset, q.record, as_of')
  BY Timeless
<1> QED
  BY <1>1, <1>2 DEF Caused

LEMMA KeptPreserved == IInv /\ TypeInv /\ Kept /\ [Next]_vars => Kept'
<1> SUFFICES ASSUME IInv, TypeInv, Kept, [Next]_vars PROVE Kept'
  OBVIOUS
<1>1. IsRuleSet(ruleset) /\ Batch(raw)
  BY RuleSetKnown DEF IInv
<1>2. ruleset' = ruleset /\ raw \subseteq raw'
  BY DEF Next, vars, Tick, StartUpdate, Ingest, RefreshValid, RefreshQuarantine,
         RefreshReconciliation, FailUpdate, Refreshed, tables, ruleset
<1>3. \A q \in quarantine : Caused(q)'
  BY <1>1, <1>2, CausesRemain DEF Kept
<1>4. CASE RefreshQuarantine
  <2>1. PICK ord \in RowIds(raw) : quarantine' = SparkQuarantine(ruleset, raw, ord, as_of)
    BY <1>4 DEF RefreshQuarantine, EvaluationTime
  <2>2. \A q \in quarantine' : Caused(q)
    BY <1>1, <2>1, CausedAtFirst
  <2>3. \A q \in quarantine' : Caused(q)'
    BY <1>1, <1>2, <2>2, CausesRemain
  <2> QED
    BY <2>3 DEF Kept
<1>5. CASE UNCHANGED quarantine
  BY <1>3, <1>5 DEF Kept
<1>6. RefreshQuarantine \/ UNCHANGED quarantine
  BY DEF Next, vars, Tick, StartUpdate, Ingest, RefreshValid, RefreshReconciliation,
         FailUpdate, Refreshed, tables
<1> QED
  BY <1>4, <1>5, <1>6

\* A record whose lasting reasons have their causes in bronze is quarantined for them by
\* any evaluation.
LEMMA QuarantinedAgain ==
    ASSUME Batch(raw), IsRuleSet(ruleset), NEW ord \in RowIds(raw), NEW q, Caused(q),
           NEW lasting, lasting = {x \in q.reasons : x[2] # "plausibility"}, lasting # {}
    PROVE  \E p \in SparkQuarantine(ruleset, raw, ord, as_of) :
               p.record = q.record /\ lasting \subseteq p.reasons
<1> DEFINE R == SparkRuleReasons(ruleset, q.record, as_of)
           Given(r) == SparkReasons(ruleset, raw, ord, as_of, r)
<1>0. IsFiniteSet(raw)
  BY DEF Batch
<1>1. \A x \in lasting : x \in R \/ x = RowDuplicate \/ x = KeyDuplicate
  BY DEF Caused
<1>2. \A r \in raw : r.record = q.record =>
          /\ R \subseteq Given(r)
          /\ ruleset.duplicate \in Blocking /\ SparkRowDuplicate(raw, ord, r)
                 => RowDuplicate \in Given(r)
          /\ ruleset.duplicate \in Blocking /\ SparkKeyDuplicate(ruleset, raw, ord, r)
                 => KeyDuplicate \in Given(r)
  BY DEF SparkReasons
<1> HIDE DEF R, Given
<1>3. \E r \in raw : r.record = q.record /\ lasting \subseteq Given(r)
  <2>1. CASE RowDuplicate \in q.reasons
    <3>1. PICK r, p \in raw : r # p /\ r.record = q.record /\ p.record = q.record
      BY <2>1 DEF Caused
    <3>2. SparkRowDuplicate(raw, ord, r) \/ SparkRowDuplicate(raw, ord, p)
      BY <1>0, <3>1, OneSurvivor
    <3>3. KeyDuplicate \notin lasting /\ ruleset.duplicate \in Blocking
      BY <2>1 DEF Caused
    <3> QED
      BY <1>1, <1>2, <3>1, <3>2, <3>3
  <2>2. CASE RowDuplicate \notin q.reasons /\ KeyDuplicate \in q.reasons
    <3>1. PICK r \in raw : r.record = q.record
      BY DEF Caused
    <3>2. PICK s \in raw : s.record = r.record /\ ~SparkRowDuplicate(raw, ord, s)
      BY <1>0, OneSurvivor
    <3>3. SparkKeyDuplicate(ruleset, raw, ord, s)
      BY <1>0, <2>2, <3>1, <3>2, KeyDuplicateOfRecords DEF Caused
    <3>4. RowDuplicate \notin lasting /\ ruleset.duplicate \in Blocking
      BY <2>2 DEF Caused
    <3> QED
      BY <1>1, <1>2, <3>1, <3>2, <3>3, <3>4
  <2>3. CASE RowDuplicate \notin q.reasons /\ KeyDuplicate \notin q.reasons
    BY <1>1, <1>2, <2>3 DEF Caused
  <2> QED
    BY <2>1, <2>2, <2>3
<1>4. PICK r \in raw : r.record = q.record /\ lasting \subseteq Given(r)
  BY <1>3
<1> DEFINE p == [order |-> r.order, record |-> r.record, reasons |-> Given(r)]
<1>5. SparkReasons(ruleset, raw, ord, as_of, r) # {}
  BY <1>4 DEF Given
<1>6. p \in SparkQuarantine(ruleset, raw, ord, as_of)
  BY <1>5, Zenon DEF SparkQuarantine, Given
<1>7. p.record = q.record /\ lasting \subseteq p.reasons
  BY <1>4
<1> QED
  BY <1>6, <1>7

\* A record is never released from quarantine but by the hour: what it was quarantined
\* for, other than lying in the future, it stays quarantined for.
THEOREM QuarantineLasts == Spec => StaysQuarantined
<1> DEFINE Stays == \A q \in quarantine :
                        LET lasting == {x \in q.reasons : x[2] # "plausibility"}
                        IN  lasting # {} =>
                                \E p \in quarantine' : p.record = q.record /\ lasting \subseteq p.reasons
<1>1. Init => Kept
  BY DEF Init, Kept
<1>2. IInv /\ TypeInv /\ Kept /\ [Next]_vars => Kept'
  BY KeptPreserved
<1>3. IInv /\ TypeInv /\ Kept /\ [Next]_vars => [Stays]_vars
  <2> SUFFICES ASSUME IInv, TypeInv, Kept, [Next]_vars, NEW q \in quarantine,
                      NEW lasting, lasting = {x \in q.reasons : x[2] # "plausibility"},
                      lasting # {}
               PROVE  \E p \in quarantine' : p.record = q.record /\ lasting \subseteq p.reasons
    BY Zenon
  <2>1. CASE RefreshQuarantine
    <3>1. PICK ord \in RowIds(raw) : quarantine' = SparkQuarantine(ruleset, raw, ord, as_of)
      BY <2>1 DEF RefreshQuarantine, EvaluationTime
    <3>2. Batch(raw) /\ IsRuleSet(ruleset) /\ Caused(q)
      BY RuleSetKnown DEF IInv, Kept
    <3> QED
      BY <3>1, <3>2, QuarantinedAgain
  <2>2. CASE UNCHANGED quarantine
    BY <2>2
  <2>3. RefreshQuarantine \/ UNCHANGED quarantine
    BY DEF Next, vars, Tick, StartUpdate, Ingest, RefreshValid, RefreshReconciliation,
           FailUpdate, Refreshed, tables
  <2> QED
    BY <2>1, <2>2, <2>3
<1>4. (IInv /\ TypeInv) /\ (IInv /\ TypeInv)' /\ Kept /\ [Next]_vars => Kept' /\ [Stays]_vars
  BY <1>2, <1>3
<1> QED
  BY <1>1, <1>4, Typed, PTL DEF Spec, StaysQuarantined

-----------------------------------------------------------------------------
(* The verdicts of a completed update.                                     *)

\* The label agrees with the oracle's on every event that has a time.
LEMMA LabelsAgree ==
    ASSUME NEW ts \in Int, NEW t \in Int
    PROVE  LatenessColumn(ts, t) = ClassifyLateness(ts, t)
<1>1. WindowDays \in Int /\ ts # Null
  BY SplitAssumption, NullAssumption
<1> QED
  BY <1>1 DEF LatenessColumn, ClassifyLateness

\* The typed time of an event is a number or Null.
LEMMA EventTimesAreNumbers ==
    ASSUME TypeInv, event_time # Null, NEW cell
    PROVE  SparkTyped(ruleset, event_time, cell) \in Int \cup {Null}
<1>1. /\ event_time \in DOMAIN ruleset.casts
      /\ \A c \in DOMAIN ruleset.try_casts[event_time] :
             ruleset.try_casts[event_time][c] \in Int
  BY SplitAssumption DEF TypeInv, TypeOK, ruleset, event_time
<1> HIDE DEF ruleset, event_time
<1> QED
  BY <1>1 DEF SparkTyped

\* While Python and Spark read every landed cell alike (strip and trim, casts, patterns), the
\* halves that a completed update leaves are the oracle's, as multisets, whatever rows the
\* evaluations numbered first, and its labels of lateness are the oracle's too.
THEOREM VerdictsAgree == Spec => []VerdictsAgreeWhereReadAlike
<1>1. IInv /\ TypeInv => VerdictsAgreeWhereReadAlike
  <2> SUFFICES ASSUME IInv, TypeInv, outcome = "completed",
                      \A r \in raw : \A c \in ruleset.columns : ReadAlike(ruleset, c, r.record[c])
               PROVE  VerdictsAreTheOracles
    BY DEF VerdictsAgreeWhereReadAlike, VerdictsAreTheOracles
  <2> DEFINE own == InputOrder(raw)
  <2>1. PICK ord \in RowIds(raw) :
            valid = Flagged(SparkValid(ruleset, raw, ord, as_of), event_time, as_of)
    BY DEF IInv, Done
  <2>2. PICK other \in RowIds(raw) : quarantine = SparkQuarantine(ruleset, raw, other, as_of)
    BY DEF IInv, Done
  <2>3. Batch(raw) /\ IsFiniteSet(raw) /\ IsRuleSet(ruleset) /\ own \in RowIds(raw)
          /\ as_of \in Int /\ source \in Sources
    BY RuleSetKnown, OracleNumbersRows DEF IInv, Batch, TypeInv, TypeOK
  <2>4. \A r \in raw : Plain(ruleset, r.record)
    BY DEF Plain
  <2>5. /\ ValidRows(ruleset, raw, as_of) = SparkValid(ruleset, raw, own, as_of)
        /\ QuarantinedRows(ruleset, raw, as_of) = SparkQuarantine(ruleset, raw, own, as_of)
    BY <2>3, <2>4, OracleIsAnEvaluation
  <2> HIDE DEF own
  <2>6. ASSUME NEW c
        PROVE  Cardinality(OfValues(valid, c))
                 = Cardinality(OfValues(ValidRows(ruleset, raw, as_of), c))
    <3>1. Cardinality(OfValues(valid, c))
            = Cardinality(OfValues(SparkValid(ruleset, raw, ord, as_of), c))
      BY <2>1, <2>3, SplitConserves, FlaggedCount
    <3> DEFINE picks == Cast(ruleset, raw, c)
    <3>2. /\ Cardinality(OfValues(SparkValid(ruleset, raw, ord, as_of), c))
               = Cardinality(Picked(ruleset, raw, ord, as_of, picks))
          /\ Cardinality(OfValues(SparkValid(ruleset, raw, own, as_of), c))
               = Cardinality(Picked(ruleset, raw, own, as_of, picks))
      BY <2>3, ValidCount
    <3> HIDE DEF picks
    <3>3. Cardinality(Picked(ruleset, raw, ord, as_of, picks))
            = Cardinality(Picked(ruleset, raw, own, as_of, picks))
      BY <2>3, SameChoice
    <3> QED
      BY <2>5, <3>1, <3>2, <3>3
  <2>7. ASSUME NEW c
        PROVE  Cardinality(OfVerdict(quarantine, c))
                 = Cardinality(OfVerdict(QuarantinedRows(ruleset, raw, as_of), c))
    <3>1. /\ Cardinality(OfVerdict(SparkQuarantine(ruleset, raw, other, as_of), c))
               = Cardinality(Picked(ruleset, raw, other, as_of, Blamed(c)))
          /\ Cardinality(OfVerdict(SparkQuarantine(ruleset, raw, own, as_of), c))
               = Cardinality(Picked(ruleset, raw, own, as_of, Blamed(c)))
      BY <2>3, QuarantineCount
    <3>2. Cardinality(Picked(ruleset, raw, other, as_of, Blamed(c)))
            = Cardinality(Picked(ruleset, raw, own, as_of, Blamed(c)))
      BY <2>3, SameChoice
    <3> QED
      BY <2>2, <2>5, <3>1, <3>2
  <2>8. SameMultisets(valid, ValidRows(ruleset, raw, as_of), LAMBDA v : v.typed)
    BY <2>6 DEF SameMultisets, Multiplicity, OfValues
  <2>9. SameMultisets(quarantine, QuarantinedRows(ruleset, raw, as_of),
                      LAMBDA q : <<q.record, q.reasons>>)
    BY <2>7 DEF SameMultisets, Multiplicity, OfVerdict
  <2>10. ASSUME NEW c \in ruleset.columns \cap {event_time}, NEW v \in valid, v.typed[c] # Null
         PROVE  v.lateness = ClassifyLateness(v.typed[c], as_of)
    <3>1. PICK r \in raw :
              /\ v.typed = SparkTypedRecord(ruleset, r.record)
              /\ v.lateness = IF event_time = Null THEN Null
                              ELSE LatenessColumn(v.typed[event_time], as_of)
      BY <2>1, <2>10, ValidFrom
    <3>2. v.typed[c] = SparkTyped(ruleset, c, r.record[c]) /\ c = event_time
      BY <2>10, <3>1 DEF SparkTypedRecord
    <3>3. event_time # Null
      BY <2>3, <2>10 DEF IsRuleSet
    <3>4. v.typed[c] \in Int
      BY <2>10, <3>2, <3>3, EventTimesAreNumbers
    <3> QED
      BY <2>3, <3>1, <3>2, <3>3, <3>4, LabelsAgree
  <2> QED
    BY <2>8, <2>9, <2>10 DEF VerdictsAreTheOracles
<1> QED
  BY <1>1, Typed, PTL
=============================================================================
