----------------------------- MODULE Scd2Proofs -----------------------------
(***************************************************************************)
(* What CDC normalization guarantees of every batch, for the oracle and    *)
(* for the compiler, whose orders of payloads differ: it loses no event,   *)
(* it decides every contested slot, what it applies is one event per slot. *)
(* And what the SCD2 rebuild guarantees of every set of states it is       *)
(* given, whoever assembled it.                                            *)
(***************************************************************************)
EXTENDS Scd2Compiler, BasicProofs

\* At most one row per (key, sequence): of events, of states.
OnePerSlot(rows) == \A r, s \in rows : SameSlot(r, s) => r = s

\* Rows whose sequences can be ordered.
Sequenced(rows) == \A r \in rows : r.sequence \in Sequence

\* Rows of one key in different slots are ordered.
LEMMA PrecedesTotal ==
    ASSUME NEW rows, Sequenced(rows), OnePerSlot(rows),
           NEW s \in rows, NEW t \in rows, s.key = t.key
    PROVE  s = t \/ Precedes(s, t) \/ Precedes(t, s)
BY SeqLtTotal DEF Sequenced, OnePerSlot, SameSlot, Precedes

-----------------------------------------------------------------------------
(* The ties.                                                               *)

\* The events that survive the ties are one per slot: TieLt orders the events of a
\* slot totally, so two of them cannot both be undefeated.
LEMMA ResolvedOnePerSlot ==
    ASSUME NEW keys, NEW payloads \in SUBSET Int,
           NEW events \in SUBSET Event(keys, payloads)
    PROVE  OnePerSlot(Resolved(events))
<1> SUFFICES ASSUME NEW e \in Resolved(events), NEW f \in Resolved(events),
                    SameSlot(e, f)
             PROVE  e = f
  BY DEF OnePerSlot
<1>1. /\ e \in Event(keys, payloads) /\ f \in Event(keys, payloads)
      /\ ~TieLt(e, f) /\ ~TieLt(f, e)
  BY DEF Resolved, SameSlot
<1>2. e.key = f.key /\ e.sequence = f.sequence
  BY DEF SameSlot
<1>3. e.payload \in Int /\ f.payload \in Int /\ e.op = f.op /\ ~(e.payload < f.payload)
      /\ ~(f.payload < e.payload)
  BY <1>1 DEF Event, TieLt, OpUpsert, OpDelete
<1>4. e.payload = f.payload
  BY <1>3
<1> QED
  BY <1>1, <1>2, <1>3, <1>4 DEF Event

\* The same with the order of to_json strings, which is injective too.
LEMMA SparkResolvedOnePerSlot ==
    ASSUME NEW keys, NEW events \in SUBSET Event(keys, Payloads)
    PROVE  OnePerSlot(SparkResolved(events))
<1> SUFFICES ASSUME NEW e \in SparkResolved(events), NEW f \in SparkResolved(events),
                    SameSlot(e, f)
             PROVE  e = f
  BY DEF OnePerSlot
<1>1. /\ e \in Event(keys, Payloads) /\ f \in Event(keys, Payloads)
      /\ ~SparkTieLt(e, f) /\ ~SparkTieLt(f, e)
  BY DEF SparkResolved, SameSlot
<1>2. e.key = f.key /\ e.sequence = f.sequence
  BY DEF SameSlot
<1>3. /\ e.payload \in Payloads /\ f.payload \in Payloads /\ e.op = f.op
      /\ ~(SparkRank[e.payload] < SparkRank[f.payload])
      /\ ~(SparkRank[f.payload] < SparkRank[e.payload])
  BY <1>1 DEF Event, SparkTieLt, OpUpsert, OpDelete
<1>4. SparkRank[e.payload] = SparkRank[f.payload]
  <2>1. SparkRank[e.payload] \in Int /\ SparkRank[f.payload] \in Int
    BY <1>3, PayloadsAssumption
  <2> QED
    BY <1>3, <2>1
<1>5. e.payload = f.payload
  BY <1>3, <1>4, PayloadsAssumption DEF IsInjective
<1> QED
  BY <1>1, <1>2, <1>3, <1>5 DEF Event

\* Every slot that has an event keeps one: a tie has a winner.
LEMMA SlotHasAWinner ==
    ASSUME NEW keys, NEW payloads \in SUBSET Int,
           NEW events \in SUBSET Event(keys, payloads), IsFiniteSet(events),
           NEW c \in events
    PROVE  \E e \in Resolved(events) : SameSlot(c, e)
<1> DEFINE Slot == {e \in events : SameSlot(c, e)}
           R == {p \in Slot \X Slot : TieLt(p[2], p[1])}
<1>1. Slot # {} /\ IsFiniteSet(Slot) /\ Slot \subseteq events
  BY FS_Subset DEF SameSlot
<1>2. \A e \in Slot : e \in Event(keys, payloads) /\ SameSlot(c, e)
  OBVIOUS
<1>3. \A x, y \in Slot : <<x, y>> \in R <=> TieLt(y, x)
  OBVIOUS
<1>4. \A e \in events : SameSlot(c, e) => e \in Slot
  OBVIOUS
<1> HIDE DEF Slot, R
<1>5. ASSUME NEW x \in Slot, NEW y \in Slot
      PROVE  x = y \/ TieLt(x, y) \/ TieLt(y, x)
  <2>1. x \in Event(keys, payloads) /\ y \in Event(keys, payloads)
        /\ x.key = y.key /\ x.sequence = y.sequence
    BY <1>2 DEF SameSlot
  <2>2. x.payload \in Int /\ y.payload \in Int
    BY <2>1 DEF Event
  <2>3. x.payload = y.payload \/ x.payload < y.payload \/ y.payload < x.payload
    BY <2>2
  <2>4. x.op = y.op \/ (x.op = OpDelete /\ y.op = OpUpsert)
                   \/ (x.op = OpUpsert /\ y.op = OpDelete)
    BY <2>1 DEF Event
  <2>5. x.op = y.op /\ x.payload = y.payload => x = y
    BY <2>1 DEF Event
  <2> QED
    BY <2>3, <2>4, <2>5 DEF TieLt
<1>6. ASSUME NEW x \in Slot, NEW y \in Slot, NEW z \in Slot, TieLt(y, x), TieLt(z, y)
      PROVE  TieLt(z, x)
  <2>1. x.payload \in Int /\ y.payload \in Int /\ z.payload \in Int
    BY <1>2 DEF Event
  <2> QED
    BY <1>6, <2>1 DEF TieLt, OpUpsert, OpDelete
<1>7. \A x, y \in Slot : x = y \/ <<x, y>> \in R \/ <<y, x>> \in R
  BY <1>3, <1>5
<1>8. \A x, y, z \in Slot : <<x, y>> \in R /\ <<y, z>> \in R => <<x, z>> \in R
  BY <1>3, <1>6
<1>9. PICK m \in Slot : \A x \in Slot : x = m \/ <<m, x>> \in R
  BY <1>1, <1>7, <1>8, FirstExists, ZenonT(40)
<1>10. \A x \in Slot : x = m \/ TieLt(x, m)
  BY <1>3, <1>9
<1>11. ASSUME NEW x \in Slot, TieLt(x, m) PROVE ~TieLt(m, x)
  <2>1. x.payload \in Int /\ m.payload \in Int
    BY <1>2 DEF Event
  <2> QED
    BY <1>11, <2>1 DEF TieLt, OpUpsert, OpDelete
<1>12. ~TieLt(m, m)
  <2>1. m.payload \in Int
    BY <1>2 DEF Event
  <2> QED
    BY <2>1 DEF TieLt, OpUpsert, OpDelete
<1>13. m \in events /\ SameSlot(c, m)
  BY <1>1, <1>2
<1>14. \A f \in events : SameSlot(m, f) => f \in Slot
  BY <1>4, <1>13 DEF SameSlot
<1>15. m \in Resolved(events)
  BY <1>10, <1>11, <1>12, <1>13, <1>14 DEF Resolved
<1> QED
  BY <1>13, <1>15

\* So it does in the compiler, where an upsert wins wherever there is one.
LEMMA SparkSlotHasAWinner ==
    ASSUME NEW keys, NEW events \in SUBSET Event(keys, Payloads), IsFiniteSet(events),
           NEW c \in events
    PROVE  \E e \in SparkResolved(events) :
               SameSlot(c, e) /\ (c.op = OpUpsert => e.op = OpUpsert)
<1> DEFINE Slot == {e \in events : SameSlot(c, e)}
           R == {p \in Slot \X Slot : SparkTieLt(p[2], p[1])}
<1>1. Slot # {} /\ IsFiniteSet(Slot) /\ Slot \subseteq events /\ c \in Slot
  BY FS_Subset DEF SameSlot
<1>2. \A e \in Slot : e \in Event(keys, Payloads) /\ SameSlot(c, e)
  OBVIOUS
<1>3. \A x, y \in Slot : <<x, y>> \in R <=> SparkTieLt(y, x)
  OBVIOUS
<1>4. \A e \in events : SameSlot(c, e) => e \in Slot
  OBVIOUS
<1> HIDE DEF Slot, R
<1>5. \A e \in Slot : e.payload \in Payloads /\ SparkRank[e.payload] \in Int
                       /\ e.op \in {OpUpsert, OpDelete}
  BY <1>2, PayloadsAssumption DEF Event
<1>6. ASSUME NEW x \in Slot, NEW y \in Slot
      PROVE  x = y \/ SparkTieLt(x, y) \/ SparkTieLt(y, x)
  <2>1. x \in Event(keys, Payloads) /\ y \in Event(keys, Payloads)
        /\ x.key = y.key /\ x.sequence = y.sequence
    BY <1>2 DEF SameSlot
  <2>2. x.op = y.op /\ x.payload = y.payload => x = y
    BY <2>1 DEF Event
  <2>3. x.payload = y.payload \/ SparkRank[x.payload] # SparkRank[y.payload]
    BY <1>5, PayloadsAssumption DEF IsInjective
  <2> QED
    BY <1>5, <2>2, <2>3 DEF SparkTieLt
<1>7. \A x, y, z \in Slot : SparkTieLt(y, x) /\ SparkTieLt(z, y) => SparkTieLt(z, x)
  BY <1>5 DEF SparkTieLt, OpUpsert, OpDelete
<1>8. \A x, y \in Slot : x = y \/ <<x, y>> \in R \/ <<y, x>> \in R
  BY <1>3, <1>6
<1>9. \A x, y, z \in Slot : <<x, y>> \in R /\ <<y, z>> \in R => <<x, z>> \in R
  BY <1>3, <1>7
<1>10. PICK m \in Slot : \A x \in Slot : x = m \/ <<m, x>> \in R
  BY <1>1, <1>8, <1>9, FirstExists, ZenonT(40)
<1>11. \A x \in Slot : x = m \/ SparkTieLt(x, m)
  BY <1>3, <1>10
<1>12. \A x \in Slot : ~SparkTieLt(m, x)
  BY <1>5, <1>11 DEF SparkTieLt, OpUpsert, OpDelete
<1>13. m \in events /\ SameSlot(c, m)
  BY <1>1, <1>2
<1>14. \A f \in events : SameSlot(m, f) => f \in Slot
  BY <1>4, <1>13 DEF SameSlot
<1>15. m \in SparkResolved(events)
  BY <1>12, <1>13, <1>14 DEF SparkResolved
<1>16. c.op = OpUpsert => m.op = OpUpsert
  BY <1>1, <1>5, <1>11 DEF SparkTieLt, OpUpsert, OpDelete
<1> QED
  BY <1>13, <1>15, <1>16

-----------------------------------------------------------------------------
(* The stream.                                                             *)

\* A batch is a list of events; its distinct events are finitely many.
LEMMA DistinctFinite ==
    ASSUME NEW T, NEW batch \in Seq(T)
    PROVE  IsFiniteSet(Distinct(batch)) /\ Distinct(batch) \subseteq T
<1>1. DOMAIN batch = 1..Len(batch) /\ Len(batch) \in Nat
  OBVIOUS
<1>2. IsFiniteSet(1..Len(batch))
  BY <1>1, FS_Interval
<1>3. batch = [i \in 1..Len(batch) |-> batch[i]]
  BY <1>1
<1>4. IsFiniteSet({batch[i] : i \in 1..Len(batch)})
  BY <1>1, <1>2, <1>3, ImageFinite
<1>5. Distinct(batch) = {batch[i] : i \in 1..Len(batch)}
  BY <1>1 DEF Distinct, Range
<1> QED
  BY <1>4, <1>5

\* Disjoint sets add up.
LEMMA DisjointUnionCardinality ==
    ASSUME NEW S, NEW T, IsFiniteSet(S), IsFiniteSet(T), S \cap T = {}
    PROVE  Cardinality(S \cup T) = Cardinality(S) + Cardinality(T)
<1>1. Cardinality(S \cap T) = 0
  BY FS_EmptySet
<1>2. Cardinality(S) \in Nat /\ Cardinality(T) \in Nat
  BY FS_CardinalityType
<1>3. Cardinality(S \cup T) = Cardinality(S) + Cardinality(T) - Cardinality(S \cap T)
  BY FS_Union
<1> QED
  BY <1>1, <1>2, <1>3

\* Every distinct event of a batch is applied, held or a conflict, exactly one of
\* them, and the replays are the rest of the batch.
THEOREM NormalizeConserves ==
    ASSUME NEW T, NEW batch \in Seq(T), NEW known
    PROVE  LET s == Normalize(batch, known)
           IN  /\ s.events \cup s.held_orphans \cup s.conflicts = Distinct(batch)
               /\ Cardinality(s.events) + Cardinality(s.held_orphans)
                    + Cardinality(s.conflicts) + s.replays_dropped = Len(batch)
<1> DEFINE unique == Distinct(batch)
           resolved == Resolved(unique)
           held == Orphans(resolved, known)
           applied == Applied(resolved, known)
           conflicts == unique \ resolved
<1>1. resolved \subseteq unique /\ held \subseteq resolved /\ applied = resolved \ held
  BY DEF Resolved, Orphans, Applied
<1>2. IsFiniteSet(unique) /\ Len(batch) \in Nat
  BY DistinctFinite
<1>3. Normalize(batch, known) =
        [events |-> applied, held_orphans |-> held, conflicts |-> conflicts,
         replays_dropped |-> Len(batch) - Cardinality(unique)]
  BY DEF Normalize
<1> HIDE DEF unique, resolved, held, applied
<1>4. IsFiniteSet(resolved) /\ IsFiniteSet(held) /\ IsFiniteSet(applied)
      /\ IsFiniteSet(conflicts)
  BY <1>1, <1>2, FS_Subset
<1>5. Cardinality(unique) = Cardinality(resolved) + Cardinality(conflicts)
  <2>1. unique = resolved \cup conflicts /\ resolved \cap conflicts = {}
    BY <1>1
  <2> QED
    BY <2>1, <1>4, DisjointUnionCardinality
<1>6. Cardinality(resolved) = Cardinality(applied) + Cardinality(held)
  <2>1. resolved = applied \cup held /\ applied \cap held = {}
    BY <1>1
  <2> QED
    BY <2>1, <1>4, DisjointUnionCardinality
<1>7. applied \cup held \cup conflicts = unique
  BY <1>1
<1>8. /\ Cardinality(unique) \in Nat /\ Cardinality(resolved) \in Nat
      /\ Cardinality(applied) \in Nat /\ Cardinality(held) \in Nat
      /\ Cardinality(conflicts) \in Nat
  BY <1>2, <1>4, FS_CardinalityType
<1>9. Cardinality(applied) + Cardinality(held) + Cardinality(conflicts)
        + (Len(batch) - Cardinality(unique)) = Len(batch)
  <2> HIDE DEF conflicts
  <2>1. Cardinality(applied) + Cardinality(held) + Cardinality(conflicts)
          = Cardinality(unique)
    BY <1>5, <1>6, <1>8
  <2>2. Cardinality(unique) + (Len(batch) - Cardinality(unique)) = Len(batch)
    BY ONLY <1>2, <1>8
  <2> QED
    BY ONLY <2>1, <2>2
<1> QED
  BY <1>3, <1>7, <1>9 DEF unique
-----------------------------------------------------------------------------
(* Feeds that do not contradict themselves.                                *)

\* Where no slot is contested nothing loses a tie, whoever breaks it.
LEMMA UncontestedResolved ==
    ASSUME NEW keys, NEW events \in SUBSET Event(keys, Payloads), OnePerSlot(events)
    PROVE  Resolved(events) = events /\ SparkResolved(events) = events
<1>1. ASSUME NEW e \in events PROVE ~TieLt(e, e) /\ ~SparkTieLt(e, e)
  <2>1. e.payload \in Int /\ SparkRank[e.payload] \in Int
    BY PayloadsAssumption DEF Event
  <2> QED
    BY <2>1 DEF TieLt, SparkTieLt, OpUpsert, OpDelete
<1> QED
  BY <1>1 DEF Resolved, SparkResolved, OnePerSlot

\* The running count of the compiler is 0 exactly where the oracle sees no upsert.
LEMMA OrphansAgree ==
    ASSUME NEW resolved, IsFiniteSet(resolved), NEW known
    PROVE  /\ SparkOrphans(resolved, known) = Orphans(resolved, known)
           /\ SparkApplied(resolved, known) = Applied(resolved, known)
<1>1. ASSUME NEW e \in resolved
      PROVE  PriorUpserts(e, resolved) = 0
               <=> ~\E u \in resolved : u.op = OpUpsert /\ Precedes(u, e)
  <2> DEFINE before == {u \in resolved : Precedes(u, e) /\ u.op = OpUpsert}
  <2>1. IsFiniteSet(before)
    BY FS_Subset
  <2>2. PriorUpserts(e, resolved) = Cardinality(before)
    BY DEF PriorUpserts
  <2>3. Cardinality(before) = 0 <=> before = {}
    BY <2>1, FS_EmptySet
  <2> QED
    BY <2>2, <2>3
<1>2. SparkOrphans(resolved, known) = Orphans(resolved, known)
  BY <1>1 DEF SparkOrphans, Orphans, IsOrphan
<1> QED
  BY <1>2 DEF SparkApplied, Applied

-----------------------------------------------------------------------------
(* Histories.                                                              *)

\* At most one version per slot, whose sequence is valid_from.
OneVersionPerSlot(history) ==
    \A v, w \in history : v.key = w.key /\ v.valid_from = w.valid_from => v = w

\* The starts of the later versions are a finite set of sequences.
LEMMA LaterFinite ==
    ASSUME NEW kept, IsFiniteSet(kept), Sequenced(kept), NEW s \in kept
    PROVE  Later(s, kept) \in SUBSET Sequence /\ IsFiniteSet(Later(s, kept))
<1> DEFINE U == {u \in kept : Precedes(s, u)}
<1> DEFINE f == [u \in U |-> u.sequence]
<1>1. IsFiniteSet(U)
  BY FS_Subset
<1>2. DOMAIN f = U /\ f = [u \in U |-> f[u]]
  OBVIOUS
<1>3. {f[u] : u \in U} = {u.sequence : u \in U}
  OBVIOUS
<1> HIDE DEF U, f
<1>4. IsFiniteSet({f[u] : u \in U})
  BY <1>1, <1>2, ImageFinite
<1>5. Later(s, kept) = {u.sequence : u \in U}
  BY DEF Later, U
<1> QED
  BY <1>3, <1>4, <1>5 DEF Sequenced, U

\* A version with a successor ends at a sequence of a following state, and no state
\* starts in between.
LEMMA ValidToIsSuccessor ==
    ASSUME NEW kept, IsFiniteSet(kept), Sequenced(kept),
           NEW s \in kept, Later(s, kept) # {}
    PROVE  \E u \in kept : /\ Precedes(s, u)
                           /\ VersionOf(s, kept).valid_to = u.sequence
                           /\ \A t \in kept : Precedes(s, t) =>
                                 t.sequence = u.sequence \/ SeqLt(u.sequence, t.sequence)
<1> DEFINE m == Least(Later(s, kept))
<1>1. m \in Later(s, kept) /\ IsLeast(m, Later(s, kept))
  BY LaterFinite, LeastIsLeast
<1>2. PICK u \in kept : Precedes(s, u) /\ u.sequence = m
  BY <1>1 DEF Later
<1>3. VersionOf(s, kept).valid_to = m
  BY DEF VersionOf
<1>4. ASSUME NEW t \in kept, Precedes(s, t)
      PROVE  t.sequence = m \/ SeqLt(m, t.sequence)
  <2>1. t.sequence \in Later(s, kept)
    BY <1>4 DEF Later
  <2> QED
    BY <1>1, <2>1 DEF IsLeast
<1> QED
  BY <1>2, <1>3, <1>4

\* Whatever states it is given, one per slot, the rebuild returns a history that
\* validate_history accepts.
THEOREM MaterializeHealthy ==
    ASSUME NEW kept, IsFiniteSet(kept), Sequenced(kept), OnePerSlot(kept)
    PROVE  ValidateHistory(Materialize(kept))
<1> DEFINE H == Materialize(kept)
<1>1. \A v \in H : \E s \in kept : v = VersionOf(s, kept)
  BY DEF Materialize
<1>2. \A s \in kept : VersionOf(s, kept) \in H
  BY DEF Materialize
<1>3. \A s, t \in kept :
         Follows(VersionOf(s, kept), VersionOf(t, kept)) <=> Precedes(s, t)
  BY DEF Follows, Precedes, VersionOf
<1>4. \A s \in kept : IsLast(VersionOf(s, kept), H) <=> Later(s, kept) = {}
  <2> TAKE s \in kept
  <2>1. IsLast(VersionOf(s, kept), H) <=> ~\E t \in kept : Precedes(s, t)
    BY <1>1, <1>2, <1>3 DEF IsLast
  <2> QED
    BY <2>1 DEF Later
<1> HIDE DEF H
<1>5. ASSUME NEW v \in H, IsLast(v, H)
      PROVE  /\ Cardinality({w \in CurrentRows(H) : w.key = v.key})
                  = (IF v.is_deleted THEN 0 ELSE 1)
             /\ v.valid_to = Null
  <2>1. PICK s \in kept : v = VersionOf(s, kept)
    BY <1>1
  <2>2. Later(s, kept) = {}
    BY <1>4, <1>5, <2>1
  <2>3. ASSUME NEW w \in CurrentRows(H), w.key = v.key PROVE w = v
    <3>1. PICK u \in kept : w = VersionOf(u, kept)
      BY <1>1, <2>3 DEF CurrentRows
    <3>2. Later(u, kept) = {}
      BY <2>3, <3>1 DEF CurrentRows, VersionOf
    <3>3. u.key = s.key
      BY <2>1, <2>3, <3>1 DEF VersionOf
    <3>4. ~Precedes(u, s) /\ ~Precedes(s, u)
      BY <2>2, <3>2 DEF Later
    <3>5. u = s
      BY <3>3, <3>4, PrecedesTotal
    <3> QED
      BY <2>1, <3>1, <3>5
  <2>4. v.is_current <=> ~v.is_deleted
    BY <2>1, <2>2 DEF VersionOf
  <2>5. CASE v.is_deleted
    <3>1. {w \in CurrentRows(H) : w.key = v.key} = {}
      BY <2>3, <2>4, <2>5 DEF CurrentRows
    <3> QED
      BY <3>1, <2>1, <2>2, <2>5, FS_EmptySet DEF VersionOf
  <2>6. CASE ~v.is_deleted
    <3>1. {w \in CurrentRows(H) : w.key = v.key} = {v}
      BY <2>3, <2>4, <2>6 DEF CurrentRows
    <3> QED
      BY <3>1, <2>1, <2>2, <2>6, FS_Singleton DEF VersionOf
  <2> QED
    BY <2>5, <2>6
<1>6. ASSUME NEW v \in H, NEW w \in H, Adjacent(v, w, H)
      PROVE  v.valid_to = w.valid_from
  <2>1. PICK s \in kept, t \in kept : v = VersionOf(s, kept) /\ w = VersionOf(t, kept)
    BY <1>1
  <2>2. Precedes(s, t) /\ ~\E x \in kept : Precedes(s, x) /\ Precedes(x, t)
    BY <1>2, <1>3, <1>6, <2>1 DEF Adjacent
  <2>3. Later(s, kept) # {}
    BY <2>2 DEF Later
  <2>4. PICK u \in kept :
            /\ Precedes(s, u)
            /\ v.valid_to = u.sequence
            /\ \A x \in kept : Precedes(s, x) =>
                  x.sequence = u.sequence \/ SeqLt(u.sequence, x.sequence)
    BY <2>1, <2>3, ValidToIsSuccessor
  <2>5. u.key = t.key /\ ~Precedes(u, t)
    BY <2>2, <2>4 DEF Precedes
  <2>6. u.sequence = t.sequence
    BY <2>2, <2>4, <2>5 DEF Precedes
  <2> QED
    BY <2>1, <2>4, <2>6 DEF VersionOf
<1>7. ASSUME NEW v \in CurrentRows(H) PROVE IsLast(v, H)
  <2>1. PICK s \in kept : v = VersionOf(s, kept)
    BY <1>1, <1>7 DEF CurrentRows
  <2>2. Later(s, kept) = {}
    BY <1>7, <2>1 DEF CurrentRows, VersionOf
  <2> QED
    BY <1>4, <2>1, <2>2
<1> QED
  BY <1>5, <1>6, <1>7 DEF ValidateHistory, H

-----------------------------------------------------------------------------
(* The states of a history, of events, and their merge are one per slot.   *)

\* Turning events into states keeps their slots.
LEMMA EventStates ==
    ASSUME NEW keys, NEW payloads,
           NEW events \in SUBSET Event(keys, payloads), OnePerSlot(events)
    PROVE  /\ {EventState(e) : e \in events} \subseteq State(keys, payloads)
           /\ OnePerSlot({EventState(e) : e \in events})
BY DEF Event, State, EventState, OnePerSlot, SameSlot, OpUpsert, OpDelete

\* Reading the states back from a history keeps its slots.
LEMMA HistoryStates ==
    ASSUME NEW keys, NEW payloads,
           NEW history \in SUBSET Version(keys, payloads),
           \A v \in history : ~v.is_deleted => v.attributes \in payloads,
           OneVersionPerSlot(history)
    PROVE  /\ StatesFromHistory(history) \subseteq State(keys, payloads)
           /\ OnePerSlot(StatesFromHistory(history))
BY DEF Version, State, StatesFromHistory, OnePerSlot, OneVersionPerSlot, SameSlot

\* Finite histories and finite batches give finitely many states.
LEMMA StatesFinite ==
    ASSUME NEW rows, IsFiniteSet(rows)
    PROVE  /\ IsFiniteSet({EventState(e) : e \in rows})
           /\ IsFiniteSet(StatesFromHistory(rows))
<1> DEFINE f == [e \in rows |-> EventState(e)]
           g == [v \in rows |->
                   [key |-> v.key, sequence |-> v.valid_from,
                    content |-> IF v.is_deleted THEN Tombstone ELSE v.attributes]]
<1>1. DOMAIN f = rows /\ f = [e \in rows |-> f[e]]
  OBVIOUS
<1>2. DOMAIN g = rows /\ g = [v \in rows |-> g[v]]
  OBVIOUS
<1>3. {EventState(e) : e \in rows} = {f[e] : e \in rows}
  OBVIOUS
<1>4. StatesFromHistory(rows) = {g[v] : v \in rows}
  BY DEF StatesFromHistory
<1> HIDE DEF f, g
<1> QED
  BY <1>1, <1>2, <1>3, <1>4, ImageFinite

\* Contents are totally ordered, the tombstone above every payload.
LEMMA ContentLtTotal ==
    ASSUME NEW c \in Int \cup {Tombstone}, NEW d \in Int \cup {Tombstone}
    PROVE  c = d \/ ContentLt(c, d) \/ ContentLt(d, c)
<1>1. CASE c = Tombstone \/ d = Tombstone
  BY <1>1 DEF ContentLt
<1>2. CASE c # Tombstone /\ d # Tombstone
  <2>1. c \in Int /\ d \in Int
    BY <1>2
  <2>2. c = d \/ c < d \/ d < c
    BY <2>1
  <2> QED
    BY <1>2, <2>2 DEF ContentLt
<1> QED
  BY <1>1, <1>2

\* So a merge leaves one state per slot.
LEMMA MergeOnePerSlot ==
    ASSUME NEW keys, NEW payloads \in SUBSET Int,
           NEW stored \in SUBSET State(keys, payloads), OnePerSlot(stored),
           NEW incoming \in SUBSET State(keys, payloads), OnePerSlot(incoming)
    PROVE  OnePerSlot(Merge(stored, incoming))
<1>1. ASSUME NEW s \in stored, NEW i \in incoming, SameSlot(s, i),
             ~ContentLt(s.content, i.content), ~ContentLt(i.content, s.content)
      PROVE  s = i
  <2>1. s \in State(keys, payloads) /\ i \in State(keys, payloads)
    OBVIOUS
  <2>2. s.content \in Int \cup {Tombstone} /\ i.content \in Int \cup {Tombstone}
    BY <2>1 DEF State
  <2>3. s.content = i.content
    BY <1>1, <2>2, ContentLtTotal
  <2> QED
    BY <1>1, <2>1, <2>3 DEF State, SameSlot
<1>2. \A r, s : SameSlot(r, s) => SameSlot(s, r)
  BY DEF SameSlot
<1> QED
  BY <1>1, <1>2 DEF OnePerSlot, Merge

-----------------------------------------------------------------------------
(* What the collapse of no-change states leaves.                           *)

\* A state with an earlier one in its key has an immediate predecessor, at or after
\* that one.
LEMMA PredecessorExists ==
    ASSUME NEW states, IsFiniteSet(states), Sequenced(states), OnePerSlot(states),
           NEW p \in states, NEW s \in states, Precedes(p, s)
    PROVE  \E q \in states : IsPredecessor(q, s, states) /\ (q = p \/ Precedes(p, q))
<1> DEFINE U == {q \in states : Precedes(q, s)}
           f == [q \in U |-> q.sequence]
           Starts == {f[q] : q \in U}
<1>1. IsFiniteSet(U) /\ p \in U /\ \A q \in U : q \in states /\ Precedes(q, s)
  BY FS_Subset
<1>2. DOMAIN f = U /\ f = [q \in U |-> f[q]] /\ \A q \in U : f[q] = q.sequence
  OBVIOUS
<1>3. \A q \in states : Precedes(q, s) => q \in U
  OBVIOUS
<1> HIDE DEF U, f
<1>4. IsFiniteSet(Starts) /\ Starts # {}
  BY <1>1, <1>2, ImageFinite
<1>5. Starts \in SUBSET Sequence
  BY <1>1, <1>2 DEF Sequenced
<1>6. PICK m \in Starts : \A x \in Starts : x = m \/ SeqLt(x, m)
  BY <1>4, <1>5, GreatestExists
<1>7. PICK q \in U : m = q.sequence
  BY <1>2
<1>8. \A r \in U : r.sequence = q.sequence \/ SeqLt(r.sequence, q.sequence)
  BY <1>2, <1>6, <1>7
<1>9. q \in states /\ Precedes(q, s)
  BY <1>1
<1>10. ASSUME NEW r \in states, Precedes(q, r), Precedes(r, s) PROVE FALSE
  <2>1. r.sequence = q.sequence \/ SeqLt(r.sequence, q.sequence)
    BY <1>3, <1>8, <1>10
  <2>2. SeqLt(q.sequence, r.sequence) /\ r.sequence \in Sequence /\ q.sequence \in Sequence
    BY <1>9, <1>10 DEF Precedes, Sequenced
  <2> QED
    BY <2>1, <2>2, SeqLtIrreflexive, SeqLtAsymmetric
<1>11. q = p \/ Precedes(p, q)
  <2>1. p.key = q.key /\ ~Precedes(q, p)
    BY <1>9, <1>10 DEF Precedes
  <2> QED
    BY <1>9, <2>1, PrecedesTotal
<1> QED
  BY <1>9, <1>10, <1>11 DEF IsPredecessor

\* Two kept states of a key with no kept state between them differ in content, even
\* when states between them were dropped: the first of those that differed from the
\* earlier one would have been kept.
LEMMA CollapseNoRepeats ==
    ASSUME NEW states, IsFiniteSet(states), Sequenced(states), OnePerSlot(states),
           NEW p \in Collapse(states), NEW s \in Collapse(states), Precedes(p, s),
           \A q \in Collapse(states) : ~(Precedes(p, q) /\ Precedes(q, s))
    PROVE  p.content # s.content
<1> SUFFICES ASSUME p.content = s.content PROVE FALSE
  OBVIOUS
<1> DEFINE D == {q \in states : Precedes(p, q) /\ Precedes(q, s) /\ q.content # p.content}
           f == [q \in D |-> q.sequence]
           Starts == {f[q] : q \in D}
<1>1. p \in states /\ s \in states
  BY DEF Collapse
<1>2. PICK q \in states : IsPredecessor(q, s, states) /\ (q = p \/ Precedes(p, q))
  BY <1>1, PredecessorExists
<1>3. q.content # s.content
  BY <1>2 DEF Collapse
<1>4. q \in D
  BY <1>2, <1>3 DEF IsPredecessor
<1>5. IsFiniteSet(D) /\ \A r \in D : r \in states
  BY FS_Subset
<1>6. DOMAIN f = D /\ f = [r \in D |-> f[r]] /\ \A r \in D : f[r] = r.sequence
  OBVIOUS
<1>7. \A r \in D : Precedes(p, r) /\ Precedes(r, s) /\ r.content # p.content
  OBVIOUS
<1>8. \A r \in states :
         Precedes(p, r) /\ Precedes(r, s) /\ r \notin D => r.content = p.content
  OBVIOUS
<1> HIDE DEF D, f
<1>9. IsFiniteSet(Starts) /\ Starts # {} /\ Starts \in SUBSET Sequence
  BY <1>4, <1>5, <1>6, ImageFinite DEF Sequenced
<1>10. PICK x \in Starts : IsLeast(x, Starts)
  BY <1>9, LeastExists
<1>11. PICK m \in D : x = m.sequence
  BY <1>6
<1>12. \A r \in D : r.sequence = m.sequence \/ SeqLt(m.sequence, r.sequence)
  BY <1>6, <1>10, <1>11 DEF IsLeast
<1>13. m \notin Collapse(states)
  BY <1>7
<1>14. PICK r \in states : IsPredecessor(r, m, states) /\ r.content = m.content
  BY <1>5, <1>13 DEF Collapse
<1>15. m \in states /\ Precedes(p, m) /\ Precedes(m, s) /\ m.content # p.content
  BY <1>5, <1>7
<1>16. Precedes(r, m) /\ ~Precedes(r, p)
  BY <1>1, <1>14, <1>15 DEF IsPredecessor
<1>17. Precedes(p, r)
  <2>1. p.key = r.key /\ r # p
    BY <1>14, <1>15, <1>16 DEF Precedes
  <2> QED
    BY <1>1, <1>16, <2>1, PrecedesTotal
<1>18. Precedes(r, s)
  BY <1>1, <1>14, <1>15, <1>16, SeqLtTransitive DEF Precedes, Sequenced
<1>19. r \in D
  BY <1>8, <1>14, <1>15, <1>17, <1>18
<1>20. SeqLt(r.sequence, m.sequence) /\ r.sequence \in Sequence /\ m.sequence \in Sequence
  BY <1>14, <1>15, <1>16 DEF Precedes, Sequenced
<1> QED
  BY <1>12, <1>19, <1>20, SeqLtIrreflexive, SeqLtAsymmetric

\* The sequences of a finite set of states are finitely many.
LEMMA SequencesFinite ==
    ASSUME NEW states, IsFiniteSet(states), Sequenced(states)
    PROVE  IsFiniteSet({s.sequence : s \in states}) /\ {s.sequence : s \in states} \subseteq Sequence
<1> DEFINE f == [s \in states |-> s.sequence]
<1>1. DOMAIN f = states /\ f = [s \in states |-> f[s]]
  OBVIOUS
<1>2. {f[s] : s \in states} = {s.sequence : s \in states}
  OBVIOUS
<1> HIDE DEF f
<1>3. IsFiniteSet({f[s] : s \in states})
  BY <1>1, ImageFinite
<1> QED
  BY <1>2, <1>3 DEF Sequenced

\* Of the states of a key up to a state some are kept, and the last kept one has its
\* content.
LEMMA LastKeptSays ==
    ASSUME NEW states, IsFiniteSet(states), Sequenced(states), OnePerSlot(states),
           NEW f \in states
    PROVE  \E m \in Collapse(states) :
               /\ m = f \/ Precedes(m, f)
               /\ m.content = f.content
               /\ \A q \in Collapse(states) : (q = f \/ Precedes(q, f)) => q = m \/ Precedes(q, m)
<1> DEFINE Upto == {q \in states : q = f \/ Precedes(q, f)}
           Kept == {q \in Collapse(states) : q = f \/ Precedes(q, f)}
<1>1. Upto \subseteq states /\ f \in Upto /\ Kept \subseteq states
  BY DEF Collapse
<1>2. IsFiniteSet(Upto) /\ IsFiniteSet(Kept) /\ Sequenced(Upto) /\ Sequenced(Kept)
  BY <1>1, FS_Subset DEF Sequenced
<1>3. Kept # {}
  <2>1. PICK x \in {q.sequence : q \in Upto} : IsLeast(x, {q.sequence : q \in Upto})
    BY <1>1, <1>2, SequencesFinite, LeastExists
  <2>2. PICK a \in Upto : x = a.sequence
    OBVIOUS
  <2>3. ASSUME NEW p \in states, IsPredecessor(p, a, states) PROVE FALSE
    <3>1. p \in Upto
      BY <1>1, <2>2, <2>3, SeqLtTransitive DEF IsPredecessor, Precedes, Sequenced
    <3>2. p.sequence = a.sequence \/ SeqLt(a.sequence, p.sequence)
      BY <2>1, <2>2, <3>1 DEF IsLeast
    <3>3. SeqLt(p.sequence, a.sequence) /\ p.sequence \in Sequence /\ a.sequence \in Sequence
      BY <1>1, <2>2, <2>3 DEF IsPredecessor, Precedes, Sequenced
    <3> QED
      BY <3>2, <3>3, SeqLtIrreflexive, SeqLtAsymmetric
  <2> QED
    BY <1>1, <2>2, <2>3 DEF Collapse
<1>4. PICK y \in {q.sequence : q \in Kept} :
         \A x \in {q.sequence : q \in Kept} : x = y \/ SeqLt(x, y)
  BY <1>2, <1>3, SequencesFinite, GreatestExists
<1>5. PICK m \in Kept : y = m.sequence
  OBVIOUS
<1>6. \A q \in Kept : q.sequence = m.sequence \/ SeqLt(q.sequence, m.sequence)
  BY <1>4, <1>5
<1>7. ASSUME NEW q \in Kept PROVE q = m \/ Precedes(q, m)
  <2>1. q.key = m.key
    BY <1>5 DEF Precedes
  <2> QED
    BY <1>1, <1>5, <1>6, <2>1 DEF OnePerSlot, SameSlot, Precedes
<1>8. m.content = f.content
  <2> SUFFICES ASSUME m.content # f.content PROVE FALSE
    OBVIOUS
  <2> DEFINE B == {q \in Upto : Precedes(m, q) /\ q.content # m.content}
  <2>1. Precedes(m, f) /\ m \in states
    BY <1>1, <1>5
  <2>2. f \in B
    BY <1>1, <2>1
  <2>3. IsFiniteSet(B) /\ Sequenced(B) /\ B \subseteq Upto
    BY <1>2, FS_Subset DEF Sequenced
  <2>4. PICK x \in {q.sequence : q \in B} : IsLeast(x, {q.sequence : q \in B})
    <3> HIDE DEF B
    <3> QED
      BY <2>2, <2>3, SequencesFinite, LeastExists
  <2>5. PICK b \in B : x = b.sequence
    OBVIOUS
  <2>6. \A q \in B : q.sequence = b.sequence \/ SeqLt(b.sequence, q.sequence)
    BY <2>4, <2>5 DEF IsLeast
  <2>7. b \in states /\ Precedes(m, b) /\ b.content # m.content /\ (b = f \/ Precedes(b, f))
    BY <1>1, <2>5
  <2>8. b \notin Collapse(states)
    <3>1. SUFFICES ASSUME b \in Collapse(states) PROVE FALSE
      OBVIOUS
    <3>2. b = m \/ Precedes(b, m)
      BY <1>7, <2>7, <3>1
    <3> QED
      BY <2>1, <2>7, <3>2, SeqLtIrreflexive, SeqLtAsymmetric DEF Precedes, Sequenced
  <2>9. PICK r \in states : IsPredecessor(r, b, states) /\ r.content = b.content
    BY <2>7, <2>8 DEF Collapse
  <2>10. Precedes(r, b) /\ ~(Precedes(r, m) /\ Precedes(m, b))
    BY <2>1, <2>9 DEF IsPredecessor
  <2>11. Precedes(m, r)
    <3>1. m.key = r.key /\ r # m
      BY <2>7, <2>9, <2>10 DEF Precedes
    <3> QED
      BY <2>1, <2>7, <2>10, <3>1, PrecedesTotal
  <2>12. Precedes(r, f)
    BY <2>7, <2>10, SeqLtTransitive DEF Precedes, Sequenced
  <2>13. r \in B
    BY <2>7, <2>9, <2>11, <2>12
  <2>14. SeqLt(r.sequence, b.sequence) /\ r.sequence \in Sequence /\ b.sequence \in Sequence
    BY <2>7, <2>10 DEF Precedes, Sequenced
  <2> QED
    BY <2>6, <2>13, <2>14, SeqLtIrreflexive, SeqLtAsymmetric
<1> QED
  BY <1>5, <1>7, <1>8

-----------------------------------------------------------------------------
(* The rebuild as a whole.                                                 *)

\* A well-formed history: finite, one version per slot, attributes on every version
\* that is not a tombstone, and accepted by validate_history.
WellFormed(history, keys, payloads) ==
    /\ history \in SUBSET Version(keys, payloads)
    /\ IsFiniteSet(history)
    /\ \A v \in history : ~v.is_deleted => v.attributes \in payloads
    /\ OneVersionPerSlot(history)
    /\ ValidateHistory(history)
    /\ ContentChanges(history)

\* Rebuilding any finite set of states, one per slot, gives a well-formed history.
LEMMA RebuildWellFormed ==
    ASSUME NEW keys, NEW payloads,
           NEW states \in SUBSET State(keys, payloads), IsFiniteSet(states),
           OnePerSlot(states)
    PROVE  WellFormed(Materialize(Collapse(states)), keys, payloads)
<1> DEFINE kept == Collapse(states)
           H == Materialize(kept)
<1>1. kept \subseteq states
  BY DEF Collapse
<1>2. IsFiniteSet(kept) /\ OnePerSlot(kept) /\ kept \in SUBSET State(keys, payloads)
  BY <1>1, FS_Subset DEF OnePerSlot
<1>3. Sequenced(kept)
  BY <1>2 DEF Sequenced, State
<1> HIDE DEF kept
<1>4. ASSUME NEW s \in kept
      PROVE  /\ VersionOf(s, kept) \in Version(keys, payloads)
             /\ ~VersionOf(s, kept).is_deleted =>
                    VersionOf(s, kept).attributes \in payloads
  <2>1. Later(s, kept) # {} => Least(Later(s, kept)) \in Sequence
    BY <1>2, <1>3, LaterFinite, LeastIsLeast
  <2>2. s \in State(keys, payloads)
    BY <1>2
  <2> QED
    BY <2>1, <2>2 DEF VersionOf, Version, State
<1>5. H \in SUBSET Version(keys, payloads)
  BY <1>4 DEF Materialize
<1>6. \A v \in H : ~v.is_deleted => v.attributes \in payloads
  BY <1>4 DEF Materialize
<1>7. IsFiniteSet(H)
  <2> DEFINE f == [s \in kept |-> VersionOf(s, kept)]
  <2>1. DOMAIN f = kept /\ f = [s \in kept |-> f[s]]
    OBVIOUS
  <2>2. H = {f[s] : s \in kept}
    BY DEF Materialize
  <2> HIDE DEF f, H
  <2> QED
    BY <1>2, <2>1, <2>2, ImageFinite
<1>8. OneVersionPerSlot(H)
  <2>1. \A s \in kept :
           VersionOf(s, kept).key = s.key /\ VersionOf(s, kept).valid_from = s.sequence
    BY DEF VersionOf
  <2>2. \A s, t \in kept : s.key = t.key /\ s.sequence = t.sequence => s = t
    BY <1>2 DEF OnePerSlot, SameSlot
  <2>3. \A v \in H : \E s \in kept : v = VersionOf(s, kept)
    BY DEF Materialize
  <2> HIDE DEF H
  <2> QED
    BY <2>1, <2>2, <2>3 DEF OneVersionPerSlot
<1>9. ValidateHistory(H)
  BY <1>2, <1>3, MaterializeHealthy
<1>10. ContentChanges(H)
  <2> SUFFICES ASSUME NEW v \in H, NEW w \in H, Adjacent(v, w, H)
               PROVE  <<v.is_deleted, v.attributes>> # <<w.is_deleted, w.attributes>>
    BY DEF ContentChanges
  <2>1. PICK p \in kept, s \in kept : v = VersionOf(p, kept) /\ w = VersionOf(s, kept)
    BY DEF Materialize
  <2>2. \A x \in kept : VersionOf(x, kept) \in H
    BY DEF Materialize
  <2>3. \A x, y \in kept :
           Follows(VersionOf(x, kept), VersionOf(y, kept)) <=> Precedes(x, y)
    BY DEF Follows, Precedes, VersionOf
  <2>4. Precedes(p, s) /\ \A q \in kept : ~(Precedes(p, q) /\ Precedes(q, s))
    BY <2>1, <2>2, <2>3 DEF Adjacent
  <2>5. Sequenced(states)
    BY DEF Sequenced, State
  <2>6. p.content # s.content
    BY <2>4, <2>5, CollapseNoRepeats DEF kept
  <2>7. /\ v.is_deleted = (p.content = Tombstone)
        /\ w.is_deleted = (s.content = Tombstone)
        /\ p.content # Tombstone => v.attributes = p.content
        /\ s.content # Tombstone => w.attributes = s.content
    BY <2>1 DEF VersionOf
  <2> QED
    BY <2>6, <2>7
<1> QED
  BY <1>5, <1>6, <1>7, <1>8, <1>9, <1>10 DEF WellFormed, kept

\* apply_scd2 takes a well-formed history and normalized events to a well-formed
\* history.
THEOREM ApplyScd2WellFormed ==
    ASSUME NEW keys, NEW payloads \in SUBSET Int,
           NEW history, WellFormed(history, keys, payloads),
           NEW events \in SUBSET Event(keys, payloads), IsFiniteSet(events),
           OnePerSlot(events)
    PROVE  WellFormed(ApplyScd2(history, events), keys, payloads)
<1> DEFINE stored == StatesFromHistory(history)
           incoming == {EventState(e) : e \in events}
<1>1. stored \in SUBSET State(keys, payloads) /\ OnePerSlot(stored)
  BY HistoryStates DEF WellFormed
<1>2. incoming \in SUBSET State(keys, payloads) /\ OnePerSlot(incoming)
  BY EventStates
<1>3. IsFiniteSet(stored)
  BY StatesFinite DEF WellFormed
<1>4. IsFiniteSet(incoming)
  BY StatesFinite
<1> HIDE DEF stored, incoming
<1>5. Merge(stored, incoming) \subseteq stored \cup incoming
  BY DEF Merge
<1>6. IsFiniteSet(stored \cup incoming)
  BY <1>3, <1>4, FS_Union
<1>7. IsFiniteSet(Merge(stored, incoming))
  BY <1>5, <1>6, FS_Subset
<1>8. Merge(stored, incoming) \in SUBSET State(keys, payloads)
  BY <1>1, <1>2, <1>5
<1>9. OnePerSlot(Merge(stored, incoming))
  BY <1>1, <1>2, MergeOnePerSlot
<1> QED
  BY <1>7, <1>8, <1>9, RebuildWellFormed DEF ApplyScd2, stored, incoming

\* The content that SlotWinners keeps in a slot is unique: to_json strings are
\* totally ordered, the tombstone below all of them.
LEMMA SlotWinnersOnePerSlot ==
    ASSUME NEW keys, NEW states \in SUBSET State(keys, Payloads)
    PROVE  OnePerSlot(SlotWinners(states))
<1> SUFFICES ASSUME NEW s \in SlotWinners(states), NEW t \in SlotWinners(states),
                    SameSlot(s, t)
             PROVE  s = t
  BY DEF OnePerSlot
<1>1. /\ s \in State(keys, Payloads) /\ t \in State(keys, Payloads)
      /\ ~SparkContentLt(s.content, t.content) /\ ~SparkContentLt(t.content, s.content)
  BY DEF SlotWinners, SameSlot
<1>2. s.content \in Payloads \cup {Tombstone} /\ t.content \in Payloads \cup {Tombstone}
  BY <1>1 DEF State
<1>3. s.content = t.content
  <2>1. CASE s.content = Tombstone \/ t.content = Tombstone
    BY <1>1, <2>1 DEF SparkContentLt
  <2>2. CASE s.content # Tombstone /\ t.content # Tombstone
    <3>1. s.content \in Payloads /\ t.content \in Payloads
      BY <1>2, <2>2
    <3>2. SparkRank[s.content] \in Int /\ SparkRank[t.content] \in Int
      BY <3>1, PayloadsAssumption
    <3>3. SparkRank[s.content] = SparkRank[t.content]
      BY <1>1, <2>2, <3>2 DEF SparkContentLt
    <3> QED
      BY <3>1, <3>3, PayloadsAssumption DEF IsInjective
  <2> QED
    BY <2>1, <2>2
<1> QED
  BY <1>1, <1>3 DEF State, SameSlot

\* rebuild_history takes a well-formed history and normalized events to a well-formed
\* history.
THEOREM RebuildHistoryWellFormed ==
    ASSUME NEW keys, NEW history, WellFormed(history, keys, Payloads),
           NEW events \in SUBSET Event(keys, Payloads), IsFiniteSet(events),
           OnePerSlot(events)
    PROVE  WellFormed(RebuildHistory(history, events), keys, Payloads)
<1> DEFINE states == StatesFromHistory(history) \cup {EventState(e) : e \in events}
<1>1. states \in SUBSET State(keys, Payloads)
  BY HistoryStates, EventStates DEF WellFormed
<1>2. IsFiniteSet(states)
  BY StatesFinite, FS_Union DEF WellFormed
<1> HIDE DEF states
<1>3. SlotWinners(states) \subseteq states
  BY DEF SlotWinners
<1>4. SlotWinners(states) \in SUBSET State(keys, Payloads) /\ IsFiniteSet(SlotWinners(states))
  BY <1>1, <1>2, <1>3, FS_Subset
<1>5. OnePerSlot(SlotWinners(states))
  BY <1>1, SlotWinnersOnePerSlot
<1> QED
  BY <1>4, <1>5, RebuildWellFormed DEF RebuildHistory, states

\* The empty history is well-formed.
LEMMA EmptyWellFormed ==
    ASSUME NEW keys, NEW payloads
    PROVE  WellFormed({}, keys, payloads)
BY FS_EmptySet
   DEF WellFormed, OneVersionPerSlot, ValidateHistory, ContentChanges, CurrentRows
-----------------------------------------------------------------------------
(* Histories that say the same.                                            *)

\* What the last kept state up to f says, the states between it and f say as well.
LEMMA BetweenSaysTheSame ==
    ASSUME NEW states, IsFiniteSet(states), Sequenced(states), OnePerSlot(states),
           NEW f \in states, NEW m \in Collapse(states),
           m = f \/ Precedes(m, f),
           \A q \in Collapse(states) : (q = f \/ Precedes(q, f)) => q = m \/ Precedes(q, m),
           NEW p \in states, m = p \/ Precedes(m, p), p = f \/ Precedes(p, f)
    PROVE  p.content = m.content
<1>1. PICK n \in Collapse(states) :
         /\ n = p \/ Precedes(n, p)
         /\ n.content = p.content
         /\ \A q \in Collapse(states) : (q = p \/ Precedes(q, p)) => q = n \/ Precedes(q, n)
  BY LastKeptSays
<1>2. n \in states /\ m \in states
  BY DEF Collapse
<1>3. n = f \/ Precedes(n, f)
  BY <1>1, <1>2, SeqLtTransitive DEF Precedes, Sequenced
<1>4. n = m \/ Precedes(n, m)
  BY <1>3
<1>5. m = n \/ Precedes(m, n)
  BY <1>1
<1>6. m = n
  BY <1>2, <1>4, <1>5, SeqLtAsymmetric DEF Precedes, Sequenced
<1> QED
  BY <1>1, <1>6

\* States may be left out before collapsing as long as those that are kept stay: it is
\* enough to remember the collapsed history.
LEMMA CollapseBetween ==
    ASSUME NEW states, IsFiniteSet(states), Sequenced(states), OnePerSlot(states),
           NEW some, Collapse(states) \subseteq some, some \subseteq states
    PROVE  Collapse(some) = Collapse(states)
<1> DEFINE Kept == Collapse(states)
<1>1. IsFiniteSet(some) /\ Sequenced(some) /\ OnePerSlot(some)
  BY FS_Subset DEF Sequenced, OnePerSlot
<1>2. ASSUME NEW s \in some, s \notin Kept PROVE s \notin Collapse(some)
  <2>1. PICK m \in Kept :
           /\ m = s \/ Precedes(m, s)
           /\ m.content = s.content
           /\ \A q \in Kept : (q = s \/ Precedes(q, s)) => q = m \/ Precedes(q, m)
    BY LastKeptSays
  <2>2. Precedes(m, s) /\ m \in some /\ s \in states
    BY <1>2, <2>1
  <2>3. PICK p \in some : IsPredecessor(p, s, some) /\ (p = m \/ Precedes(m, p))
    BY <1>1, <2>2, PredecessorExists
  <2>4. p.content = m.content
    BY <2>1, <2>2, <2>3, BetweenSaysTheSame DEF IsPredecessor
  <2> QED
    BY <2>1, <2>3, <2>4 DEF Collapse
<1>3. ASSUME NEW s \in Kept, s \notin Collapse(some) PROVE FALSE
  <2>1. s \in some /\ s \in states
    BY DEF Collapse
  <2>2. PICK p \in some : IsPredecessor(p, s, some) /\ p.content = s.content
    BY <1>3, <2>1 DEF Collapse
  <2>3. Precedes(p, s) /\ p \in states
    BY <2>2 DEF IsPredecessor
  <2>4. PICK q \in states : IsPredecessor(q, s, states) /\ (q = p \/ Precedes(p, q))
    BY <2>1, <2>3, PredecessorExists
  <2>5. q.content # s.content /\ Precedes(q, s)
    BY <1>3, <2>4 DEF Collapse, IsPredecessor
  <2>6. PICK m \in Kept :
           /\ m = q \/ Precedes(m, q)
           /\ m.content = q.content
           /\ \A r \in Kept : (r = q \/ Precedes(r, q)) => r = m \/ Precedes(r, m)
    BY LastKeptSays
  <2>7. m \in some /\ m \in states
    BY <2>6 DEF Collapse
  <2>8. Precedes(m, s)
    BY <2>1, <2>5, <2>6, <2>7, SeqLtTransitive DEF Precedes, Sequenced
  <2>9. ~Precedes(p, m)
    BY <2>2, <2>7, <2>8 DEF IsPredecessor
  <2>10. m = p \/ Precedes(m, p)
    <3>1. m.key = p.key
      BY <2>3, <2>8 DEF Precedes
    <3> QED
      BY <2>3, <2>7, <2>9, <3>1, PrecedesTotal
  <2>11. p.content = m.content
    BY <2>3, <2>4, <2>6, <2>7, <2>10, BetweenSaysTheSame
  <2> QED
    BY <2>2, <2>5, <2>6, <2>11
<1> QED
  BY <1>2, <1>3 DEF Collapse

\* The states read back from a history are those that it was built from.
LEMMA StatesReadBack ==
    ASSUME NEW keys, NEW payloads \in SUBSET Int, NEW kept \in SUBSET State(keys, payloads)
    PROVE  StatesFromHistory(Materialize(kept)) = kept
<1> DEFINE Back(v) == [key |-> v.key, sequence |-> v.valid_from,
                       content |-> IF v.is_deleted THEN Tombstone ELSE v.attributes]
<1>1. ASSUME NEW s \in kept PROVE Back(VersionOf(s, kept)) = s
  <2> DEFINE v == VersionOf(s, kept)
  <2>1. /\ v.key = s.key /\ v.valid_from = s.sequence
        /\ v.is_deleted <=> s.content = Tombstone
        /\ s.content # Tombstone => v.attributes = s.content
    BY DEF VersionOf
  <2> HIDE DEF v
  <2>2. s = [key |-> s.key, sequence |-> s.sequence, content |-> s.content]
    BY DEF State
  <2>3. Back(v) = s
    BY <2>1, <2>2
  <2> QED
    BY <2>3 DEF v
<1>2. StatesFromHistory(Materialize(kept)) = {Back(VersionOf(s, kept)) : s \in kept}
  BY DEF StatesFromHistory, Materialize
<1> HIDE DEF Back
<1> QED
  BY <1>1, <1>2

\* A history has the keys of the states that it was built from.
LEMMA KeysOfMaterialized ==
    ASSUME NEW kept
    PROVE  KeysOf(Materialize(kept)) = {s.key : s \in kept}
<1>1. KeysOf(Materialize(kept)) = {VersionOf(s, kept).key : s \in kept}
  BY DEF KeysOf, Materialize
<1>2. \A s \in kept : VersionOf(s, kept).key = s.key
  BY DEF VersionOf
<1> QED
  BY <1>1, <1>2

\* Where no slot is contested, merging is a union, for the oracle
LEMMA PlainMerge ==
    ASSUME NEW keys, NEW payloads \in SUBSET Int,
           NEW stored \in SUBSET State(keys, payloads),
           NEW incoming \in SUBSET State(keys, payloads), OnePerSlot(stored \cup incoming)
    PROVE  Merge(stored, incoming) = stored \cup incoming
<1>1. ASSUME NEW s \in stored \cup incoming PROVE ~ContentLt(s.content, s.content)
  <2>1. s.content = Tombstone \/ s.content \in Int
    BY DEF State
  <2> QED
    BY <2>1 DEF ContentLt
<1>2. \A s \in stored, i \in incoming :
         SameSlot(s, i) => ~ContentLt(s.content, i.content) /\ ~ContentLt(i.content, s.content)
  BY <1>1 DEF OnePerSlot
<1> QED
  BY <1>2 DEF Merge

\* and for the compiler.
LEMMA PlainWinners ==
    ASSUME NEW keys, NEW states \in SUBSET State(keys, Payloads), OnePerSlot(states)
    PROVE  SlotWinners(states) = states
<1>1. ASSUME NEW s \in states PROVE ~SparkContentLt(s.content, s.content)
  <2>1. s.content = Tombstone \/ SparkRank[s.content] \in Int
    BY PayloadsAssumption DEF State
  <2> QED
    BY <2>1 DEF SparkContentLt
<1> QED
  BY <1>1 DEF SlotWinners, OnePerSlot
=============================================================================
