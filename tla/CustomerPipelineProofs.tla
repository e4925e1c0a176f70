----------------------- MODULE CustomerPipelineProofs -----------------------
(***************************************************************************)
(* The customer branch, for any customers, paths, contents and bounds:     *)
(* what its types are, that a completed update is a full recompute, that   *)
(* no delete is lost, that customers of the feed stay, and that the        *)
(* published history answers as-of questions as DimTimeline does.          *)
(***************************************************************************)
EXTENDS CustomerPipeline, Scd2Proofs, TLAPS

AtOrBefore(s, p) == s = p \/ SeqLt(s, p)

\* The states of k that are not later than p, and which of them is the latest.
KnownStates(states, k, p) == {f \in states : f.key = k /\ AtOrBefore(f.sequence, p)}

IsLatest(f, states, k, p) ==
    /\ f \in KnownStates(states, k, p)
    /\ \A g \in KnownStates(states, k, p) : AtOrBefore(g.sequence, f.sequence)

\* "At or before" is transitive, and on both sides only of equals.
LEMMA AtOrBeforeTransitive ==
    ASSUME NEW s \in Sequence, NEW t \in Sequence, NEW u \in Sequence,
           AtOrBefore(s, t), AtOrBefore(t, u)
    PROVE  AtOrBefore(s, u) /\ (SeqLt(u, s) => FALSE)
BY SeqLtTransitive, SeqLtIrreflexive, SeqLtAsymmetric DEF AtOrBefore

-----------------------------------------------------------------------------
(* As-of questions.                                                        *)

\* Where no state is known, no version covers.
LEMMA NothingCovers ==
    ASSUME NEW states, NEW k, NEW p, KnownStates(states, k, p) = {}
    PROVE  Covering(Materialize(Collapse(states)), k, p) = {}
<1> SUFFICES ASSUME NEW v \in Covering(Materialize(Collapse(states)), k, p) PROVE FALSE
  OBVIOUS
<1>1. PICK s \in Collapse(states) : v = VersionOf(s, Collapse(states))
  BY DEF Covering, Materialize
<1>2. s.key = k /\ AtOrBefore(s.sequence, p)
  BY <1>1 DEF Covering, VersionOf, AtOrBefore
<1> QED
  BY <1>2 DEF KnownStates, Collapse

\* Otherwise one version covers the point, and it has the content of the latest state.
LEMMA LatestCovers ==
    ASSUME NEW states, IsFiniteSet(states), Sequenced(states), OnePerSlot(states),
           NEW k, NEW p \in Sequence, NEW f, IsLatest(f, states, k, p)
    PROVE  \E m \in Collapse(states) :
               /\ Covering(Materialize(Collapse(states)), k, p) = {VersionOf(m, Collapse(states))}
               /\ m.content = f.content
<1> DEFINE kept == Collapse(states)
           H == Materialize(kept)
<1>1. f \in states /\ f.key = k /\ AtOrBefore(f.sequence, p) /\ f.sequence \in Sequence
  BY DEF IsLatest, KnownStates, Sequenced
<1>2. PICK m \in kept :
         /\ m = f \/ Precedes(m, f)
         /\ m.content = f.content
         /\ \A q \in kept : (q = f \/ Precedes(q, f)) => q = m \/ Precedes(q, m)
  BY <1>1, LastKeptSays
<1>3. kept \subseteq states
  BY DEF Collapse
<1>4. IsFiniteSet(kept) /\ Sequenced(kept) /\ m \in states /\ m.key = k
      /\ m.sequence \in Sequence /\ AtOrBefore(m.sequence, p)
  BY <1>1, <1>2, <1>3, FS_Subset, AtOrBeforeTransitive DEF Sequenced, Precedes, AtOrBefore
<1>5. ASSUME NEW q \in kept, q.key = k, AtOrBefore(q.sequence, p)
      PROVE  q = m \/ Precedes(q, m)
  <2>1. q \in states /\ AtOrBefore(q.sequence, f.sequence)
    BY <1>3, <1>5 DEF IsLatest, KnownStates
  <2>2. q = f \/ Precedes(q, f)
    BY <1>1, <1>5, <2>1 DEF AtOrBefore, Precedes, OnePerSlot, SameSlot
  <2> QED
    BY <1>2, <2>2
<1> HIDE DEF kept
<1>6. VersionOf(m, kept) \in Covering(H, k, p)
  <2>1. VersionOf(m, kept).valid_to = Null \/ SeqLt(p, VersionOf(m, kept).valid_to)
    <3>1. CASE Later(m, kept) = {}
      BY <3>1 DEF VersionOf
    <3>2. CASE Later(m, kept) # {}
      <4>1. PICK u \in kept : Precedes(m, u) /\ VersionOf(m, kept).valid_to = u.sequence
        BY <1>2, <1>4, <3>2, ValidToIsSuccessor
      <4>2. u.key = k /\ u.sequence \in Sequence /\ SeqLt(m.sequence, u.sequence)
        BY <1>4, <4>1 DEF Precedes, Sequenced
      <4>3. ~AtOrBefore(u.sequence, p)
        BY <1>4, <1>5, <4>2, SeqLtIrreflexive, SeqLtAsymmetric DEF Precedes
      <4> QED
        BY <4>1, <4>2, <4>3, SeqLtTotal DEF AtOrBefore
    <3> QED
      BY <3>1, <3>2
  <2> QED
    BY <1>2, <1>4, <2>1 DEF Covering, Materialize, VersionOf, AtOrBefore
<1>7. ASSUME NEW w \in Covering(H, k, p) PROVE w = VersionOf(m, kept)
  <2>1. PICK s \in kept : w = VersionOf(s, kept)
    BY <1>7 DEF Covering, Materialize
  <2>2. s.key = k /\ AtOrBefore(s.sequence, p)
        /\ (w.valid_to = Null \/ SeqLt(p, w.valid_to))
    BY <1>7, <2>1 DEF Covering, VersionOf, AtOrBefore
  <2>3. SUFFICES ASSUME Precedes(s, m) PROVE FALSE
    BY <1>5, <2>1, <2>2
  <2>4. Later(s, kept) # {}
    BY <1>2, <2>3 DEF Later
  <2>5. PICK u \in kept : /\ w.valid_to = u.sequence
                          /\ m.sequence = u.sequence \/ SeqLt(u.sequence, m.sequence)
    BY <1>2, <1>4, <2>1, <2>3, <2>4, ValidToIsSuccessor
  <2>6. u.sequence \in Sequence /\ SeqLt(p, u.sequence)
    BY <1>4, <2>2, <2>5, NoSequenceAssumption DEF Sequenced
  <2>7. AtOrBefore(u.sequence, m.sequence)
    BY <2>5 DEF AtOrBefore
  <2> QED
    BY <1>4, <2>6, <2>7, AtOrBeforeTransitive
<1> QED
  BY <1>2, <1>6, <1>7 DEF kept

\* There is a latest state wherever one is known.
LEMMA LatestExists ==
    ASSUME NEW states, IsFiniteSet(states), Sequenced(states),
           NEW k, NEW p, KnownStates(states, k, p) # {}
    PROVE  \E f \in states : IsLatest(f, states, k, p)
<1> DEFINE K == KnownStates(states, k, p)
<1>1. K \subseteq states
  BY DEF KnownStates
<1>2. IsFiniteSet(K) /\ Sequenced(K)
  BY <1>1, FS_Subset DEF Sequenced
<1> HIDE DEF K
<1>3. K # {}
  BY DEF K
<1>4. PICK y \in {q.sequence : q \in K} : \A x \in {q.sequence : q \in K} : x = y \/ SeqLt(x, y)
  BY <1>2, <1>3, SequencesFinite, GreatestExists
<1>5. PICK f \in K : y = f.sequence
  OBVIOUS
<1>6. \A g \in K : AtOrBefore(g.sequence, f.sequence)
  BY <1>4, <1>5 DEF AtOrBefore
<1> QED
  BY <1>1, <1>5, <1>6 DEF IsLatest, K

\* How a history answers, and what the states say, as of a point.
Answer(history, k, p) ==
    IF Covering(history, k, p) = {} THEN Absent
    ELSE LET v == CHOOSE v \in Covering(history, k, p) : TRUE
         IN  IF v.is_deleted THEN Tombstone ELSE v.attributes

StateAsOf(states, k, p) ==
    IF KnownStates(states, k, p) = {} THEN Absent
    ELSE (CHOOSE f \in KnownStates(states, k, p) :
             \A g \in KnownStates(states, k, p) : AtOrBefore(g.sequence, f.sequence)).content

\* The rebuilt history answers with the latest state.
THEOREM AnswerIsAsOf ==
    ASSUME NEW states, IsFiniteSet(states), Sequenced(states), OnePerSlot(states),
           NEW k, NEW p \in Sequence
    PROVE  Answer(Materialize(Collapse(states)), k, p) = StateAsOf(states, k, p)
<1>1. CASE KnownStates(states, k, p) = {}
  BY <1>1, NothingCovers DEF Answer, StateAsOf
<1>2. CASE KnownStates(states, k, p) # {}
  <2> DEFINE f == CHOOSE f \in KnownStates(states, k, p) :
                    \A g \in KnownStates(states, k, p) : AtOrBefore(g.sequence, f.sequence)
  <2>1. \E g \in KnownStates(states, k, p) :
           \A h \in KnownStates(states, k, p) : AtOrBefore(h.sequence, g.sequence)
    BY <1>2, LatestExists DEF IsLatest
  <2>2. f \in KnownStates(states, k, p)
        /\ \A g \in KnownStates(states, k, p) : AtOrBefore(g.sequence, f.sequence)
    BY <2>1
  <2>3. StateAsOf(states, k, p) = f.content
    BY <1>2 DEF StateAsOf
  <2> HIDE DEF f
  <2>4. IsLatest(f, states, k, p)
    BY <2>2 DEF IsLatest
  <2>5. PICK m \in Collapse(states) :
           /\ Covering(Materialize(Collapse(states)), k, p) = {VersionOf(m, Collapse(states))}
           /\ m.content = f.content
    BY <2>4, LatestCovers
  <2>6. Answer(Materialize(Collapse(states)), k, p) = m.content
    <3> DEFINE v == VersionOf(m, Collapse(states))
    <3>1. v.is_deleted = (m.content = Tombstone)
          /\ v.attributes = IF m.content = Tombstone THEN Null ELSE m.content
      BY DEF VersionOf
    <3> HIDE DEF v
    <3>2. \A C : C = {v} => (CHOOSE w \in C : TRUE) = v
      OBVIOUS
    <3>3. Covering(Materialize(Collapse(states)), k, p) = {v}
      BY <2>5 DEF v
    <3> QED
      BY <3>1, <3>2, <3>3 DEF Answer
  <2> QED
    BY <2>3, <2>5, <2>6
<1> QED
  BY <1>1, <1>2

-----------------------------------------------------------------------------
(* The stream of the customers, and the history built from it.             *)

\* Valid rows, finitely many, of which the stream is made.
ValidRows(snapshots, updates) ==
    /\ snapshots \in SUBSET SnapshotRow /\ IsFiniteSet(snapshots)
    /\ updates \in SUBSET UpdateRow /\ IsFiniteSet(updates)

LEMMA EventsTyped ==
    ASSUME NEW snapshots, NEW updates, ValidRows(snapshots, updates)
    PROVE  /\ Events(snapshots, updates) \in SUBSET Event(Keys, Payloads)
           /\ IsFiniteSet(Events(snapshots, updates))
<1> DEFINE f == [r \in snapshots |-> SnapshotEvent(r)]
           g == [r \in updates |-> UpdateEvent(r)]
<1>1. \A r \in SnapshotRow : SnapshotEvent(r) \in Event(Keys, Payloads)
  <2> SUFFICES ASSUME NEW r \in SnapshotRow PROVE SnapshotEvent(r) \in Event(Keys, Payloads)
    OBVIOUS
  <2>1. r.customer_id \in Keys /\ r.updated_at \in Int /\ r.attributes \in Attributes
    BY PipelineAssumption DEF SnapshotRow
  <2>2. SnapshotPayload(r.attributes) \in Payloads
    BY <2>1, PipelineAssumption
  <2>3. <<r.updated_at, Null>> \in Sequence
    BY <2>1 DEF Sequence, SortValue
  <2> QED
    BY <2>1, <2>2, <2>3 DEF SnapshotEvent, Event
<1>2. \A r \in UpdateRow : UpdateEvent(r) \in Event(Keys, Payloads)
  <2> SUFFICES ASSUME NEW r \in UpdateRow PROVE UpdateEvent(r) \in Event(Keys, Payloads)
    OBVIOUS
  <2>1. /\ r.customer_id \in Keys /\ r.change_ts \in Int /\ r.change_seq \in SortValue
        /\ r.attributes \in Attributes \cup DeleteAttributes
    BY PipelineAssumption DEF UpdateRow
  <2>2. UpdatePayload(r.attributes) \in Payloads
    BY <2>1, PipelineAssumption
  <2>3. <<r.change_ts, r.change_seq>> \in Sequence
    BY <2>1 DEF Sequence, SortValue
  <2> QED
    BY <2>1, <2>2, <2>3 DEF UpdateEvent, Event
<1>3. IsFiniteSet({SnapshotEvent(r) : r \in snapshots})
  <2>1. DOMAIN f = snapshots /\ f = [r \in snapshots |-> f[r]]
    OBVIOUS
  <2>2. {f[r] : r \in snapshots} = {SnapshotEvent(r) : r \in snapshots}
    OBVIOUS
  <2> HIDE DEF f
  <2>3. IsFiniteSet({f[r] : r \in snapshots})
    BY <2>1, ImageFinite DEF ValidRows
  <2> QED
    BY <2>2, <2>3
<1>4. IsFiniteSet({UpdateEvent(r) : r \in updates})
  <2>1. DOMAIN g = updates /\ g = [r \in updates |-> g[r]]
    OBVIOUS
  <2>2. {g[r] : r \in updates} = {UpdateEvent(r) : r \in updates}
    OBVIOUS
  <2> HIDE DEF g
  <2>3. IsFiniteSet({g[r] : r \in updates})
    BY <2>1, ImageFinite DEF ValidRows
  <2> QED
    BY <2>2, <2>3
<1>5. Events(snapshots, updates) \in SUBSET Event(Keys, Payloads)
  BY <1>1, <1>2 DEF Events, ValidRows
<1>6. IsFiniteSet(Events(snapshots, updates))
  BY <1>3, <1>4, FS_Union DEF Events
<1> QED
  BY <1>5, <1>6

\* What the applied events say.
Facts(snapshots, updates) ==
    {EventState(e) : e \in SparkApplied(EventStream(snapshots, updates), {})}

LEMMA StreamTyped ==
    ASSUME NEW snapshots, NEW updates, ValidRows(snapshots, updates)
    PROVE  LET stream  == EventStream(snapshots, updates)
               applied == SparkApplied(stream, {})
           IN  /\ stream \in SUBSET Event(Keys, Payloads) /\ IsFiniteSet(stream) /\ OnePerSlot(stream)
               /\ applied \in SUBSET Event(Keys, Payloads) /\ IsFiniteSet(applied)
               /\ OnePerSlot(applied)
<1> DEFINE stream == EventStream(snapshots, updates)
           applied == SparkApplied(stream, {})
<1>1. stream \subseteq Events(snapshots, updates)
  BY DEF EventStream, SparkResolved
<1>2. stream \in SUBSET Event(Keys, Payloads) /\ IsFiniteSet(stream)
  BY <1>1, EventsTyped, FS_Subset
<1>3. OnePerSlot(stream)
  BY EventsTyped, SparkResolvedOnePerSlot DEF EventStream
<1>4. applied \subseteq stream
  BY DEF SparkApplied
<1> HIDE DEF stream, applied
<1>5. IsFiniteSet(applied) /\ applied \in SUBSET Event(Keys, Payloads) /\ OnePerSlot(applied)
  BY <1>2, <1>3, <1>4, FS_Subset DEF OnePerSlot
<1> QED
  BY <1>2, <1>3, <1>5 DEF stream, applied

LEMMA FactsTyped ==
    ASSUME NEW snapshots, NEW updates, ValidRows(snapshots, updates)
    PROVE  LET facts == Facts(snapshots, updates)
           IN  /\ facts \in SUBSET State(Keys, Payloads) /\ IsFiniteSet(facts)
               /\ OnePerSlot(facts) /\ Sequenced(facts)
<1> DEFINE applied == SparkApplied(EventStream(snapshots, updates), {})
<1>1. applied \in SUBSET Event(Keys, Payloads) /\ IsFiniteSet(applied) /\ OnePerSlot(applied)
  BY StreamTyped
<1>2. Facts(snapshots, updates) = {EventState(e) : e \in applied}
  BY DEF Facts
<1> HIDE DEF applied
<1>3. /\ {EventState(e) : e \in applied} \subseteq State(Keys, Payloads)
      /\ OnePerSlot({EventState(e) : e \in applied})
      /\ IsFiniteSet({EventState(e) : e \in applied})
  BY <1>1, EventStates, StatesFinite
<1>4. \A s \in State(Keys, Payloads) : s.sequence \in Sequence
  BY DEF State
<1> QED
  BY <1>2, <1>3, <1>4 DEF Sequenced

\* The facts are one to a slot, so that the tie of stored and incoming states, which
\* the rebuild settles, has nothing to settle.
LEMMA HistoryOfFacts ==
    ASSUME NEW snapshots, NEW updates, ValidRows(snapshots, updates)
    PROVE  DimCustomerHist(snapshots, updates) = Materialize(Collapse(Facts(snapshots, updates)))
<1> DEFINE facts == Facts(snapshots, updates)
<1>1. facts \in SUBSET State(Keys, Payloads) /\ OnePerSlot(facts)
  BY FactsTyped
<1>2. StatesFromHistory({}) \cup facts = facts
  BY DEF StatesFromHistory
<1>3. DimCustomerHist(snapshots, updates) = Materialize(Collapse(SlotWinners(facts)))
  BY <1>2 DEF DimCustomerHist, RebuildHistory, Facts
<1> HIDE DEF facts
<1>4. SlotWinners(facts) = facts
  <2> SUFFICES ASSUME NEW s \in facts, NEW t \in facts, SameSlot(s, t)
               PROVE  ~SparkContentLt(s.content, t.content)
    BY DEF SlotWinners
  <2>1. s = t /\ s.content \in Payloads \cup {Tombstone}
    BY <1>1 DEF OnePerSlot, State
  <2>2. \A c \in Payloads : SparkRank[c] \in Int
    BY PayloadsAssumption
  <2> QED
    BY <2>1, <2>2 DEF SparkContentLt
<1> QED
  BY <1>3, <1>4 DEF facts

LEMMA HistoryWellFormed ==
    ASSUME NEW snapshots, NEW updates, ValidRows(snapshots, updates)
    PROVE  WellFormed(DimCustomerHist(snapshots, updates), Keys, Payloads)
BY StreamTyped, EmptyWellFormed, RebuildHistoryWellFormed DEF DimCustomerHist

-----------------------------------------------------------------------------
(* Customers of the feed, and deletes.                                     *)

HasUpsert(updates, k) == \E r \in updates : r.customer_id = k /\ r.op # OpDelete

\* An applied event is an upsert, or a delete with an upsert before it.
LEMMA AppliedOrHeld ==
    ASSUME NEW snapshots, NEW updates, ValidRows(snapshots, updates),
           NEW e \in EventStream(snapshots, updates)
    PROVE  LET stream == EventStream(snapshots, updates)
               before == {u \in stream : Precedes(u, e) /\ u.op = OpUpsert}
           IN  /\ e \in SparkApplied(stream, {}) <=> e.op # OpDelete \/ before # {}
               /\ e \in SparkOrphans(stream, {}) <=> e.op = OpDelete /\ before = {}
<1> DEFINE stream == EventStream(snapshots, updates)
           before == {u \in stream : Precedes(u, e) /\ u.op = OpUpsert}
<1>1. IsFiniteSet(before)
  BY StreamTyped, FS_Subset
<1>2. PriorUpserts(e, stream) = Cardinality(before)
  BY DEF PriorUpserts
<1> HIDE DEF before, stream
<1>3. PriorUpserts(e, stream) = 0 <=> before = {}
  BY <1>1, <1>2, FS_EmptySet
<1>4. e \in stream
  BY DEF stream
<1>5. e \in SparkOrphans(stream, {}) <=> e.op = OpDelete /\ before = {}
  BY <1>3, <1>4 DEF SparkOrphans
<1>6. e \in SparkApplied(stream, {}) <=> e.op # OpDelete \/ before # {}
  BY <1>4, <1>5 DEF SparkApplied
<1> QED
  BY <1>5, <1>6 DEF stream, before

\* A customer with an upsert in the feed is in the history.
LEMMA UpsertShows ==
    ASSUME NEW snapshots, NEW updates, ValidRows(snapshots, updates),
           NEW k, HasUpsert(updates, k)
    PROVE  k \in KeysOf(DimCustomerHist(snapshots, updates))
<1>1. PICK r \in updates : r.customer_id = k /\ r.op # OpDelete
  BY DEF HasUpsert
<1> DEFINE c == UpdateEvent(r)
<1>2. c \in Events(snapshots, updates) /\ c.key = k /\ c.op = OpUpsert
  BY <1>1 DEF Events, UpdateEvent
<1>3. PICK e \in EventStream(snapshots, updates) : SameSlot(c, e) /\ e.op = OpUpsert
  BY <1>2, EventsTyped, SparkSlotHasAWinner DEF EventStream
<1>4. e \in SparkApplied(EventStream(snapshots, updates), {}) /\ e.key = k
  BY <1>2, <1>3, AppliedOrHeld DEF SameSlot, OpUpsert, OpDelete
<1>5. EventState(e) \in Facts(snapshots, updates) /\ EventState(e).key = k
  BY <1>4 DEF Facts, EventState
<1>6. PICK m \in Collapse(Facts(snapshots, updates)) :
         m = EventState(e) \/ Precedes(m, EventState(e))
  BY <1>5, FactsTyped, LastKeptSays
<1>7. VersionOf(m, Collapse(Facts(snapshots, updates))).key = k
  BY <1>5, <1>6 DEF Precedes, VersionOf
<1>8. VersionOf(m, Collapse(Facts(snapshots, updates))) \in DimCustomerHist(snapshots, updates)
  BY HistoryOfFacts DEF Materialize
<1> QED
  BY <1>7, <1>8 DEF KeysOf

\* A customer in the history who is in no snapshot has an upsert in the feed.
LEMMA ShownHasUpsert ==
    ASSUME NEW snapshots, NEW updates, ValidRows(snapshots, updates),
           NEW k \in KeysOf(DimCustomerHist(snapshots, updates)),
           \A r \in snapshots : r.customer_id # k
    PROVE  HasUpsert(updates, k)
<1> DEFINE stream == EventStream(snapshots, updates)
<1>1. ASSUME NEW e \in stream, e.key = k, e.op = OpUpsert
      PROVE  HasUpsert(updates, k)
  <2>1. e \in Events(snapshots, updates)
    BY DEF EventStream, SparkResolved
  <2>2. ASSUME NEW r \in snapshots PROVE e # SnapshotEvent(r)
    BY <1>1 DEF SnapshotEvent
  <2>3. PICK r \in updates : e = UpdateEvent(r)
    BY <2>1, <2>2 DEF Events
  <2>4. r.customer_id = k /\ r.op # OpDelete
    BY <1>1, <2>3 DEF UpdateEvent, OpUpsert, OpDelete
  <2> QED
    BY <2>4 DEF HasUpsert
<1>2. PICK v \in DimCustomerHist(snapshots, updates) : v.key = k
  BY DEF KeysOf
<1>3. PICK s \in Collapse(Facts(snapshots, updates)) :
         v = VersionOf(s, Collapse(Facts(snapshots, updates)))
  BY <1>2, HistoryOfFacts DEF Materialize
<1>4. s \in Facts(snapshots, updates) /\ s.key = k
  BY <1>2, <1>3 DEF Collapse, VersionOf
<1>5. PICK e \in SparkApplied(stream, {}) : e.key = k
  BY <1>4 DEF Facts, EventState
<1>6. e \in stream
  BY DEF SparkApplied
<1>7. e.op # OpDelete \/ \E u \in stream : Precedes(u, e) /\ u.op = OpUpsert
  BY <1>6, AppliedOrHeld
<1>8. e.op \in {OpUpsert, OpDelete}
  BY <1>6, StreamTyped DEF Event
<1> QED
  BY <1>1, <1>5, <1>6, <1>7, <1>8 DEF Precedes

\* At the point of a fact the history shows what the fact says.
LEMMA FactShows ==
    ASSUME NEW snapshots, NEW updates, ValidRows(snapshots, updates),
           NEW f \in Facts(snapshots, updates)
    PROVE  (\E v \in Covering(DimCustomerHist(snapshots, updates), f.key, f.sequence) : v.is_deleted)
               <=> f.content = Tombstone
<1> DEFINE facts == Facts(snapshots, updates)
           kept == Collapse(facts)
<1>1. IsLatest(f, facts, f.key, f.sequence) /\ f.sequence \in Sequence
  BY FactsTyped DEF IsLatest, KnownStates, AtOrBefore, Sequenced
<1>2. PICK m \in kept :
         /\ Covering(Materialize(kept), f.key, f.sequence) = {VersionOf(m, kept)}
         /\ m.content = f.content
  BY <1>1, FactsTyped, LatestCovers
<1>3. VersionOf(m, kept).is_deleted <=> m.content = Tombstone
  BY DEF VersionOf
<1> DEFINE w == VersionOf(m, kept)
<1>4. Covering(DimCustomerHist(snapshots, updates), f.key, f.sequence) = {w}
  BY <1>2, HistoryOfFacts
<1>5. w.is_deleted <=> f.content = Tombstone
  BY <1>2, <1>3
<1> HIDE DEF w
<1> QED
  BY <1>4, <1>5

\* Whether the customer shows as deleted at a point.
Shown(snapshots, updates, k, p) ==
    \E v \in Covering(DimCustomerHist(snapshots, updates), k, p) : v.is_deleted

\* The delete that wins its slot is held exactly if it does not show.
LEMMA WinnerHeldOrShown ==
    ASSUME NEW snapshots, NEW updates, ValidRows(snapshots, updates),
           NEW e \in EventStream(snapshots, updates), e.op = OpDelete
    PROVE  e \in HeldOrphans(snapshots, updates) <=> ~Shown(snapshots, updates, e.key, e.sequence)
<1> DEFINE stream == EventStream(snapshots, updates)
           shown == Shown(snapshots, updates, e.key, e.sequence)
           held == e \in HeldOrphans(snapshots, updates)
<1>1. HeldOrphans(snapshots, updates) = SparkOrphans(stream, {})
  BY DEF HeldOrphans
<1>2. stream \in SUBSET Event(Keys, Payloads) /\ OnePerSlot(stream) /\ e \in stream
  BY StreamTyped
<1>3. \A d \in SparkApplied(stream, {}) : EventState(d) \in Facts(snapshots, updates)
  BY DEF Facts
<1> HIDE DEF stream
<1>4. CASE {u \in stream : Precedes(u, e) /\ u.op = OpUpsert} = {}
  <2>1. held /\ e \notin SparkApplied(stream, {})
    BY <1>1, <1>4, AppliedOrHeld DEF stream
  <2>2. ASSUME NEW d \in SparkApplied(stream, {}), d.key = e.key,
               AtOrBefore(d.sequence, e.sequence)
        PROVE  FALSE
    <3>1. d \in stream /\ d # e
      BY <2>1 DEF SparkApplied
    <3>2. Precedes(d, e)
      BY <1>2, <2>2, <3>1 DEF AtOrBefore, OnePerSlot, SameSlot, Precedes
    <3>3. d.op = OpDelete
      BY <1>2, <1>4, <3>1, <3>2 DEF Event
    <3>4. PICK u \in stream : Precedes(u, d) /\ u.op = OpUpsert
      BY <2>2, <3>1, <3>3, AppliedOrHeld DEF stream
    <3>5. Precedes(u, e)
      <4>1. u.sequence \in Sequence /\ d.sequence \in Sequence /\ e.sequence \in Sequence
        BY <1>2, <3>1, <3>4 DEF Event
      <4> QED
        BY <3>2, <3>4, <4>1, SeqLtTransitive DEF Precedes
    <3> QED
      BY <1>4, <3>4, <3>5
  <2>3. KnownStates(Facts(snapshots, updates), e.key, e.sequence) = {}
    <3> SUFFICES ASSUME NEW g \in Facts(snapshots, updates), g.key = e.key,
                        AtOrBefore(g.sequence, e.sequence)
                 PROVE  FALSE
      BY DEF KnownStates
    <3>1. PICK d \in SparkApplied(stream, {}) : g = EventState(d)
      BY DEF Facts, stream
    <3> QED
      BY <2>2, <3>1 DEF EventState
  <2>4. ~shown
    BY <2>3, NothingCovers, HistoryOfFacts DEF Shown
  <2> QED
    BY <2>1, <2>4
<1>5. CASE {u \in stream : Precedes(u, e) /\ u.op = OpUpsert} # {}
  <2>1. ~held /\ e \in SparkApplied(stream, {})
    BY <1>1, <1>5, AppliedOrHeld DEF stream
  <2> DEFINE g == EventState(e)
  <2>2. g \in Facts(snapshots, updates) /\ g.key = e.key /\ g.sequence = e.sequence
        /\ g.content = Tombstone
    BY <1>3, <2>1 DEF EventState
  <2> HIDE DEF g
  <2>3. shown
    BY <2>2, FactShows DEF Shown
  <2> QED
    BY <2>1, <2>3
<1> QED
  BY <1>4, <1>5

\* The slot of a delete is an upsert's, or a delete of it is held, or one shows.
LEMMA DeleteAccountedFor ==
    ASSUME NEW snapshots, NEW updates, ValidRows(snapshots, updates),
           NEW r \in updates, r.op = OpDelete
    PROVE  LET e       == UpdateEvent(r)
               upserts == {u \in Events(snapshots, updates) : SameSlot(u, e) /\ u.op = OpUpsert}
               held    == {h \in HeldOrphans(snapshots, updates) : SameSlot(h, e)}
               shown   == Shown(snapshots, updates, e.key, e.sequence)
           IN  /\ upserts # {} => held = {} /\ ~shown
               /\ upserts = {} => (held # {} <=> ~shown)
<1> DEFINE e == UpdateEvent(r)
           events == Events(snapshots, updates)
           stream == EventStream(snapshots, updates)
           orphans == HeldOrphans(snapshots, updates)
           upserts == {u \in events : SameSlot(u, e) /\ u.op = OpUpsert}
           held == {h \in orphans : SameSlot(h, e)}
           shown == Shown(snapshots, updates, e.key, e.sequence)
<1>1. e \in events /\ events \in SUBSET Event(Keys, Payloads) /\ IsFiniteSet(events)
  BY EventsTyped DEF Events
<1>2. /\ stream \in SUBSET Event(Keys, Payloads) /\ OnePerSlot(stream)
      /\ stream = SparkResolved(events) /\ stream \subseteq events
  BY StreamTyped DEF EventStream, SparkResolved
<1>3. \A h \in orphans : h \in stream /\ h.op = OpDelete
  BY DEF HeldOrphans, SparkOrphans
<1>4. \A d \in SparkApplied(stream, {}) : EventState(d) \in Facts(snapshots, updates)
  BY DEF Facts
<1> HIDE DEF e, events, stream, orphans
<1>5. PICK w \in stream : SameSlot(e, w)
  BY <1>1, <1>2, SparkSlotHasAWinner
<1>6. \A h \in held : h = w
  BY <1>2, <1>3, <1>5 DEF OnePerSlot, SameSlot
<1>7. shown <=> Shown(snapshots, updates, w.key, w.sequence)
  BY <1>5 DEF SameSlot
<1>8. CASE w.op = OpUpsert
  <2>1. w \in upserts
    BY <1>2, <1>5, <1>8 DEF SameSlot
  <2>2. held = {}
    BY <1>3, <1>6, <1>8 DEF OpUpsert, OpDelete
  <2>3. w \in SparkApplied(stream, {})
    BY <1>8, AppliedOrHeld DEF stream, OpUpsert, OpDelete
  <2> DEFINE g == EventState(w)
  <2>4. g \in Facts(snapshots, updates) /\ g.key = w.key /\ g.sequence = w.sequence
        /\ g.content # Tombstone
    <3>1. w.payload \in Int
      BY <1>2, PayloadsAssumption DEF Event
    <3> QED
      BY <1>4, <1>8, <2>3, <3>1, TombstoneAssumption DEF EventState, OpUpsert, OpDelete
  <2> HIDE DEF g
  <2>5. ~shown
    BY <1>7, <2>4, FactShows DEF Shown
  <2> QED
    BY <2>1, <2>2, <2>5 DEF events, e, orphans
<1>9. CASE w.op # OpUpsert
  <2>1. w.op = OpDelete
    BY <1>2, <1>9 DEF Event
  <2>2. upserts = {}
    <3> SUFFICES ASSUME NEW u \in events, SameSlot(u, e), u.op = OpUpsert PROVE FALSE
      OBVIOUS
    <3>1. PICK x \in stream : SameSlot(u, x) /\ x.op = OpUpsert
      BY <1>1, <1>2, SparkSlotHasAWinner
    <3>2. x = w
      BY <1>2, <1>5, <3>1 DEF OnePerSlot, SameSlot
    <3> QED
      BY <1>9, <3>1, <3>2
  <2>3. w \in orphans <=> ~shown
    BY <1>7, <2>1, WinnerHeldOrShown DEF stream, orphans
  <2>4. w \in orphans <=> held # {}
    BY <1>5, <1>6 DEF SameSlot
  <2> QED
    BY <2>2, <2>3, <2>4 DEF events, e, orphans
<1> QED
  BY <1>8, <1>9

-----------------------------------------------------------------------------
(* The inductive invariant.                                                *)

Landed == {p \in Paths : files[p] # Null}

\* Only finitely many files have landed, and so of everything there is finitely much.
Finite ==
    /\ files = [p \in Paths |-> files[p]]
    /\ IsFiniteSet(Landed)
    /\ IsFiniteSet(customers_raw) /\ IsFiniteSet(customer_updates_raw)
    /\ ValidRows(customers_valid, customer_updates_valid)

\* What a dataset was computed from, in an update.
FromInputs ==
    /\ "customers_valid" \notin pending => customers_valid = CustomersValid(customers_raw)
    /\ "customer_updates_valid" \notin pending =>
           customer_updates_valid = CustomerUpdatesValid(customer_updates_raw)
    /\ "dim_customer_hist" \notin pending =>
           dim_customer_hist = DimCustomerHist(customers_valid, customer_updates_valid)
    /\ "dim_customer_held_orphans" \notin pending =>
           dim_customer_held_orphans = HeldOrphans(customers_valid, customer_updates_valid)
    /\ "dim_customer" \notin pending => dim_customer = CurrentRows(dim_customer_hist)

\* In an update that has not failed, what has been refreshed is of its inputs, and
\* these have been refreshed as well and stay as they are.
UpToDate ==
    /\ outcome # "running" => pending = {}
    /\ outcome \in {"running", "completed"} =>
           /\ \A d \in Datasets : d \notin pending => Reads[d] \cap pending = {}
           /\ FromInputs

\* Silver is no more than what bronze has, and a customer in the history who is in no
\* snapshot has an upsert in silver.
Feed ==
    /\ customers_valid \subseteq Rows(customers_raw)
    /\ customer_updates_valid \subseteq CustomerUpdatesValid(customer_updates_raw)
    /\ \A k \in KeysOf(dim_customer_hist) :
           (\A b \in customers_raw : b.row.customer_id # k) =>
               HasUpsert(customer_updates_valid, k)

IInv ==
    /\ TypeOK
    /\ Finite
    /\ UpToDate
    /\ Feed

LEMMA DatasetNames ==
    Datasets = {"customers_raw", "customer_updates_raw", "customers_valid",
                "customer_updates_valid", "dim_customer_hist", "dim_customer_held_orphans",
                "dim_customer"}
BY DEF Datasets, Reads

LEMMA DatasetReads ==
    /\ Reads["customers_raw"] = {}
    /\ Reads["customer_updates_raw"] = {}
    /\ Reads["customers_valid"] = {"customers_raw"}
    /\ Reads["customer_updates_valid"] = {"customer_updates_raw"}
    /\ Reads["dim_customer_hist"] = {"customers_valid", "customer_updates_valid"}
    /\ Reads["dim_customer_held_orphans"] = {"customers_valid", "customer_updates_valid"}
    /\ Reads["dim_customer"] = {"dim_customer_hist"}
BY DEF Reads

\* The rows that an ingestion adds: finitely many, and typed.
LEMMA NewRowsTyped ==
    ASSUME TypeOK, Finite, NEW paths \in SUBSET Paths, NEW raw
    PROVE  /\ IsFiniteSet(NewRows(raw, paths))
           /\ \A b \in NewRows(raw, paths) :
                  /\ b = [path |-> b.path, row |-> files[b.path]]
                  /\ b.path \in paths /\ b.row \in RowsOf(b.path)
<1> DEFINE P == {q \in paths : files[q] # Null /\ \A b \in raw : b.path # q}
           f == [p \in P |-> [path |-> p, row |-> files[p]]]
<1>1. IsFiniteSet(P)
  <2>1. P \subseteq Landed
    BY DEF Landed
  <2> QED
    BY <2>1, FS_Subset DEF Finite
<1>2. DOMAIN f = P /\ f = [p \in P |-> f[p]]
  OBVIOUS
<1>3. {f[p] : p \in P} = NewRows(raw, paths)
  BY DEF NewRows
<1>4. \A p \in P : f[p] = [path |-> p, row |-> files[p]] /\ p \in paths
                  /\ files[p] \in RowsOf(p)
  BY DEF TypeOK
<1> HIDE DEF P, f
<1>5. IsFiniteSet({f[p] : p \in P})
  BY <1>1, <1>2, ImageFinite
<1>6. IsFiniteSet(NewRows(raw, paths))
  BY <1>3, <1>5
<1>7. ASSUME NEW b \in NewRows(raw, paths)
      PROVE  /\ b = [path |-> b.path, row |-> files[b.path]]
             /\ b.path \in paths /\ b.row \in RowsOf(b.path)
  <2>1. PICK p \in P : b = f[p]
    BY <1>3, <1>7
  <2>2. b = [path |-> p, row |-> files[p]]
    BY <1>4, <2>1
  <2> QED
    BY <1>4, <2>2
<1> QED
  BY <1>6, <1>7

LEMMA RowsFinite ==
    ASSUME NEW raw, IsFiniteSet(raw)
    PROVE  IsFiniteSet(Rows(raw))
<1> DEFINE f == [b \in raw |-> b.row]
<1>1. DOMAIN f = raw /\ f = [b \in raw |-> f[b]]
  OBVIOUS
<1>2. {f[b] : b \in raw} = Rows(raw)
  BY DEF Rows
<1> HIDE DEF f
<1>3. IsFiniteSet({f[b] : b \in raw})
  BY <1>1, ImageFinite
<1> QED
  BY <1>2, <1>3

\* What the rules let through is typed.
LEMMA ValidTyped ==
    ASSUME TypeOK, Finite
    PROVE  /\ CustomersValid(customers_raw) \in SUBSET SnapshotRow
           /\ IsFiniteSet(CustomersValid(customers_raw))
           /\ CustomersValid(customers_raw) \subseteq Rows(customers_raw)
           /\ CustomerUpdatesValid(customer_updates_raw) \in SUBSET UpdateRow
           /\ IsFiniteSet(CustomerUpdatesValid(customer_updates_raw))
<1>1. /\ CustomersValid(customers_raw) \subseteq Rows(customers_raw)
      /\ CustomerUpdatesValid(customer_updates_raw) \subseteq Rows(customer_updates_raw)
  BY DEF CustomersValid, CustomerUpdatesValid
<1>2. Rows(customers_raw) \subseteq SnapshotRow /\ Rows(customer_updates_raw) \subseteq UpdateRow
  BY DEF TypeOK, Raw, Rows
<1>3. IsFiniteSet(Rows(customers_raw)) /\ IsFiniteSet(Rows(customer_updates_raw))
  BY RowsFinite DEF Finite
<1>4. /\ IsFiniteSet(CustomersValid(customers_raw))
      /\ IsFiniteSet(CustomerUpdatesValid(customer_updates_raw))
  BY <1>1, <1>3, FS_Subset
<1> QED
  BY <1>1, <1>2, <1>4

\* A refresh: the update is running; what reads the dataset is still to come.
LEMMA RefreshStep ==
    ASSUME IInv, NEW d \in Datasets, Refreshed(d)
    PROVE  /\ outcome = "running" /\ FromInputs
           /\ d \in pending /\ pending' = pending \ {d} /\ pending' \subseteq Datasets
           /\ outcome' \in {"running", "completed"}
           /\ outcome' # "running" => pending' = {}
           /\ \A x \in Datasets : x \notin pending' => Reads[x] \cap pending' = {}
           /\ \A x \in Datasets : d \in Reads[x] => x \in pending'
           /\ UNCHANGED <<files, landings, failures>>
<1>1. d \in pending /\ Reads[d] \cap pending = {} /\ pending' = pending \ {d}
      /\ UNCHANGED <<files, landings, failures>>
      /\ outcome' = IF pending' = {} THEN "completed" ELSE "running"
  BY DEF Refreshed
<1>2. outcome = "running" /\ FromInputs
      /\ \A x \in Datasets : x \notin pending => Reads[x] \cap pending = {}
  BY <1>1 DEF IInv, UpToDate
<1>3. pending \subseteq Datasets
  BY DEF IInv, TypeOK
<1>4. \A x \in Datasets : d \in Reads[x] => x \in pending'
  BY <1>1, <1>2
<1> QED
  BY <1>1, <1>2, <1>3, <1>4

-----------------------------------------------------------------------------
(* The inductive invariant, action by action.                              *)

LEMMA InitEstablishes == Init => IInv
<1> SUFFICES ASSUME Init PROVE IInv
  OBVIOUS
<1>1. TypeOK
  BY PipelineAssumption DEF Init, TypeOK, Datasets
<1>2. Finite
  <2>1. Landed = {}
    BY DEF Init, Landed
  <2> QED
    BY <2>1, FS_EmptySet DEF Init, Finite, ValidRows
<1>3. UpToDate
  BY DEF Init, UpToDate
<1>4. Feed
  BY DEF Init, Feed, KeysOf, Rows, CustomerUpdatesValid
<1> QED
  BY <1>1, <1>2, <1>3, <1>4 DEF IInv

\* A file lands: one more path has one.
LEMMA FileLands ==
    ASSUME IInv, NEW path \in Paths, NEW row \in RowsOf(path), Land(path, row)
    PROVE  IInv'
<1>1. UNCHANGED <<bronze, silver, dims, pending, outcome, failures>>
      /\ files' = [files EXCEPT ![path] = row] /\ landings' = landings + 1
      /\ landings < MaxLandings
  BY DEF Land
<1>2. files = [p \in Paths |-> files[p]]
  BY DEF IInv, Finite
<1>3. files' = [p \in Paths |-> files'[p]]
      /\ \A p \in Paths : files'[p] = IF p = path THEN row ELSE files[p]
  BY <1>1, <1>2
<1>4. TypeOK'
  <2>1. \A p \in Paths : files'[p] \in RowsOf(p) \cup {Null}
    BY <1>3 DEF IInv, TypeOK
  <2> QED
    BY <1>1, <2>1, PipelineAssumption DEF IInv, TypeOK, bronze, silver, dims
<1>5. Finite'
  <2>1. Landed' \subseteq Landed \cup {path}
    BY <1>3 DEF Landed
  <2>2. IsFiniteSet(Landed')
    BY <2>1, FS_AddElement, FS_Subset DEF IInv, Finite
  <2> QED
    BY <1>1, <1>3, <2>2 DEF IInv, Finite, bronze, silver
<1>6. UpToDate' /\ Feed'
  BY <1>1 DEF IInv, UpToDate, FromInputs, Feed, bronze, silver, dims
<1> QED
  BY <1>4, <1>5, <1>6 DEF IInv

\* An update starts, and everything is still to be refreshed.
LEMMA UpdateStarts ==
    ASSUME IInv, StartUpdate
    PROVE  IInv'
<1>1. pending' = Datasets /\ outcome' = "running"
      /\ UNCHANGED <<files, bronze, silver, dims, landings, failures>>
  BY DEF StartUpdate
<1>2. TypeOK'
  BY <1>1 DEF IInv, TypeOK, bronze, silver, dims
<1>3. Finite' /\ Feed'
  BY <1>1 DEF IInv, Finite, Landed, Feed, bronze, silver, dims
<1>4. UpToDate'
  BY <1>1, DatasetNames DEF UpToDate, FromInputs
<1> QED
  BY <1>2, <1>3, <1>4 DEF IInv

\* An update fails: nothing is claimed of what it has refreshed.
LEMMA UpdateFails ==
    ASSUME IInv, FailUpdate
    PROVE  IInv'
<1>1. pending' = {} /\ outcome' = "failed" /\ failures' = failures + 1 /\ failures < MaxFailures
      /\ UNCHANGED <<files, bronze, silver, dims, landings>>
  BY DEF FailUpdate
<1>2. TypeOK'
  BY <1>1, PipelineAssumption DEF IInv, TypeOK, bronze, silver, dims
<1>3. Finite' /\ Feed'
  BY <1>1 DEF IInv, Finite, Landed, Feed, bronze, silver, dims
<1>4. UpToDate'
  BY <1>1 DEF UpToDate
<1> QED
  BY <1>2, <1>3, <1>4 DEF IInv

\* Bronze grows by paths that it does not have; all that reads it is still to come.
LEMMA CustomersIngested ==
    ASSUME IInv, IngestCustomers
    PROVE  IInv'
<1> DEFINE new == NewRows(customers_raw, SnapshotPaths)
<1>1. customers_raw' = customers_raw \cup new
      /\ UNCHANGED <<customer_updates_raw, silver, dims>> /\ Refreshed("customers_raw")
  BY DEF IngestCustomers
<1>2. /\ outcome = "running" /\ FromInputs
      /\ pending' = pending \ {"customers_raw"} /\ pending' \subseteq Datasets
      /\ outcome' \in {"running", "completed"} /\ (outcome' # "running" => pending' = {})
      /\ \A x \in Datasets : x \notin pending' => Reads[x] \cap pending' = {}
      /\ "customers_valid" \in pending'
      /\ UNCHANGED <<files, landings, failures>>
  BY <1>1, DatasetNames, DatasetReads, RefreshStep
<1>3. /\ IsFiniteSet(new)
      /\ \A b \in new : /\ b = [path |-> b.path, row |-> files[b.path]]
                        /\ b.path \in SnapshotPaths /\ b.row \in RowsOf(b.path)
  BY NewRowsTyped DEF IInv, Paths
<1> HIDE DEF new
<1>4. TypeOK'
  <2>1. customers_raw' \subseteq Raw(SnapshotPaths, SnapshotRow)
    BY <1>1, <1>3 DEF IInv, TypeOK, Raw, RowsOf
  <2> QED
    BY <1>1, <1>2, <2>1 DEF IInv, TypeOK, silver, dims
<1>5. Finite'
  <2>1. IsFiniteSet(customers_raw')
    BY <1>1, <1>3, FS_Union DEF IInv, Finite
  <2> QED
    BY <1>1, <1>2, <2>1 DEF IInv, Finite, Landed, silver
<1>6. UpToDate'
  BY <1>1, <1>2 DEF UpToDate, FromInputs, silver, dims
<1>7. Feed'
  BY <1>1 DEF IInv, Feed, Rows, silver, dims
<1> QED
  BY <1>4, <1>5, <1>6, <1>7 DEF IInv

LEMMA CustomerUpdatesIngested ==
    ASSUME IInv, IngestCustomerUpdates
    PROVE  IInv'
<1> DEFINE new == NewRows(customer_updates_raw, UpdatePaths)
<1>1. customer_updates_raw' = customer_updates_raw \cup new
      /\ UNCHANGED <<customers_raw, silver, dims>> /\ Refreshed("customer_updates_raw")
  BY DEF IngestCustomerUpdates
<1>2. /\ outcome = "running" /\ FromInputs
      /\ pending' = pending \ {"customer_updates_raw"} /\ pending' \subseteq Datasets
      /\ outcome' \in {"running", "completed"} /\ (outcome' # "running" => pending' = {})
      /\ \A x \in Datasets : x \notin pending' => Reads[x] \cap pending' = {}
      /\ "customer_updates_valid" \in pending'
      /\ UNCHANGED <<files, landings, failures>>
  BY <1>1, DatasetNames, DatasetReads, RefreshStep
<1>3. /\ IsFiniteSet(new)
      /\ \A b \in new : /\ b = [path |-> b.path, row |-> files[b.path]]
                        /\ b.path \in UpdatePaths /\ b.row \in RowsOf(b.path)
  BY NewRowsTyped DEF IInv, Paths
<1> HIDE DEF new
<1>4. TypeOK'
  <2>1. customer_updates_raw' \subseteq Raw(UpdatePaths, UpdateRow)
    BY <1>1, <1>3, PipelineAssumption DEF IInv, TypeOK, Raw, RowsOf
  <2> QED
    BY <1>1, <1>2, <2>1 DEF IInv, TypeOK, silver, dims
<1>5. Finite'
  <2>1. IsFiniteSet(customer_updates_raw')
    BY <1>1, <1>3, FS_Union DEF IInv, Finite
  <2> QED
    BY <1>1, <1>2, <2>1 DEF IInv, Finite, Landed, silver
<1>6. UpToDate'
  BY <1>1, <1>2 DEF UpToDate, FromInputs, silver, dims
<1>7. Feed'
  <2>1. CustomerUpdatesValid(customer_updates_raw) \subseteq CustomerUpdatesValid(customer_updates_raw')
    BY <1>1 DEF CustomerUpdatesValid, Rows
  <2> QED
    BY <1>1, <2>1 DEF IInv, Feed, silver, dims
<1> QED
  BY <1>4, <1>5, <1>6, <1>7 DEF IInv

\* Silver follows bronze; the history and the orphans are still to come.
LEMMA CustomersValidRefreshed ==
    ASSUME IInv, RefreshCustomersValid
    PROVE  IInv'
<1>1. customers_valid' = CustomersValid(customers_raw)
      /\ UNCHANGED <<bronze, customer_updates_valid, dims>> /\ Refreshed("customers_valid")
  BY DEF RefreshCustomersValid
<1>2. /\ outcome = "running" /\ FromInputs
      /\ pending' = pending \ {"customers_valid"} /\ pending' \subseteq Datasets
      /\ outcome' \in {"running", "completed"} /\ (outcome' # "running" => pending' = {})
      /\ \A x \in Datasets : x \notin pending' => Reads[x] \cap pending' = {}
      /\ "dim_customer_hist" \in pending' /\ "dim_customer_held_orphans" \in pending'
      /\ UNCHANGED <<files, landings, failures>>
  BY <1>1, DatasetNames, DatasetReads, RefreshStep
<1>3. customers_valid' \in SUBSET SnapshotRow /\ IsFiniteSet(customers_valid')
      /\ customers_valid' \subseteq Rows(customers_raw)
  BY <1>1, ValidTyped DEF IInv
<1>4. TypeOK' /\ Finite'
  BY <1>1, <1>2, <1>3
     DEF IInv, TypeOK, Finite, Landed, ValidRows, bronze, dims
<1>5. UpToDate'
  BY <1>1, <1>2 DEF UpToDate, FromInputs, bronze, dims
<1>6. Feed'
  BY <1>1, <1>3 DEF IInv, Feed, Rows, bronze, dims
<1> QED
  BY <1>4, <1>5, <1>6 DEF IInv

LEMMA CustomerUpdatesValidRefreshed ==
    ASSUME IInv, RefreshCustomerUpdatesValid
    PROVE  IInv'
<1>1. customer_updates_valid' = CustomerUpdatesValid(customer_updates_raw)
      /\ UNCHANGED <<bronze, customers_valid, dims>> /\ Refreshed("customer_updates_valid")
  BY DEF RefreshCustomerUpdatesValid
<1>2. /\ outcome = "running" /\ FromInputs
      /\ pending' = pending \ {"customer_updates_valid"} /\ pending' \subseteq Datasets
      /\ outcome' \in {"running", "completed"} /\ (outcome' # "running" => pending' = {})
      /\ \A x \in Datasets : x \notin pending' => Reads[x] \cap pending' = {}
      /\ "dim_customer_hist" \in pending' /\ "dim_customer_held_orphans" \in pending'
      /\ UNCHANGED <<files, landings, failures>>
  BY <1>1, DatasetNames, DatasetReads, RefreshStep
<1>3. customer_updates_valid' \in SUBSET UpdateRow /\ IsFiniteSet(customer_updates_valid')
  BY <1>1, ValidTyped DEF IInv
<1>4. TypeOK' /\ Finite'
  BY <1>1, <1>2, <1>3
     DEF IInv, TypeOK, Finite, Landed, ValidRows, bronze, dims
<1>5. UpToDate'
  BY <1>1, <1>2 DEF UpToDate, FromInputs, bronze, dims
<1>6. Feed'
  <2>1. customer_updates_valid \subseteq customer_updates_valid'
    BY <1>1 DEF IInv, Feed
  <2>2. \A k : HasUpsert(customer_updates_valid, k) => HasUpsert(customer_updates_valid, k)'
    BY <2>1 DEF HasUpsert
  <2> QED
    BY <1>1, <2>2 DEF IInv, Feed, Rows, CustomerUpdatesValid, bronze, dims
<1> QED
  BY <1>4, <1>5, <1>6 DEF IInv

\* The history follows silver.
LEMMA DimCustomerHistRefreshed ==
    ASSUME IInv, RefreshDimCustomerHist
    PROVE  IInv'
<1>1. dim_customer_hist' = DimCustomerHist(customers_valid, customer_updates_valid)
      /\ UNCHANGED <<bronze, silver, dim_customer_held_orphans, dim_customer>>
      /\ Refreshed("dim_customer_hist")
  BY DEF RefreshDimCustomerHist
<1>2. /\ outcome = "running" /\ FromInputs
      /\ pending' = pending \ {"dim_customer_hist"} /\ pending' \subseteq Datasets
      /\ outcome' \in {"running", "completed"} /\ (outcome' # "running" => pending' = {})
      /\ \A x \in Datasets : x \notin pending' => Reads[x] \cap pending' = {}
      /\ "dim_customer" \in pending'
      /\ UNCHANGED <<files, landings, failures>>
  BY <1>1, DatasetNames, DatasetReads, RefreshStep
<1>3. ValidRows(customers_valid, customer_updates_valid)
  BY DEF IInv, Finite
<1>4. dim_customer_hist' \subseteq Version(Keys, Payloads)
  BY <1>1, <1>3, HistoryWellFormed DEF WellFormed
<1>5. TypeOK' /\ Finite'
  BY <1>1, <1>2, <1>4
     DEF IInv, TypeOK, Finite, Landed, bronze, silver
<1>6. UpToDate'
  BY <1>1, <1>2 DEF UpToDate, FromInputs, bronze, silver
<1>7. Feed'
  <2>1. ASSUME NEW k \in KeysOf(dim_customer_hist'),
               \A b \in customers_raw : b.row.customer_id # k
        PROVE  HasUpsert(customer_updates_valid, k)
    <3>1. \A r \in customers_valid : r.customer_id # k
      BY <2>1 DEF IInv, Feed, Rows
    <3> QED
      BY <1>1, <1>3, <2>1, <3>1, ShownHasUpsert
  <2> QED
    BY <1>1, <2>1 DEF IInv, Feed, bronze, silver, HasUpsert, KeysOf
<1> QED
  BY <1>5, <1>6, <1>7 DEF IInv

\* The orphans follow silver, and the current rows the history.
LEMMA HeldOrphansRefreshed ==
    ASSUME IInv, RefreshHeldOrphans
    PROVE  IInv'
<1>1. dim_customer_held_orphans' = HeldOrphans(customers_valid, customer_updates_valid)
      /\ UNCHANGED <<bronze, silver, dim_customer_hist, dim_customer>>
      /\ Refreshed("dim_customer_held_orphans")
  BY DEF RefreshHeldOrphans
<1>2. /\ outcome = "running" /\ FromInputs
      /\ pending' = pending \ {"dim_customer_held_orphans"} /\ pending' \subseteq Datasets
      /\ outcome' \in {"running", "completed"} /\ (outcome' # "running" => pending' = {})
      /\ \A x \in Datasets : x \notin pending' => Reads[x] \cap pending' = {}
      /\ UNCHANGED <<files, landings, failures>>
  BY <1>1, DatasetNames, RefreshStep
<1>3. dim_customer_held_orphans' \subseteq Event(Keys, Payloads)
  <2>1. ValidRows(customers_valid, customer_updates_valid)
    BY DEF IInv, Finite
  <2> QED
    BY <1>1, <2>1, StreamTyped DEF HeldOrphans, SparkOrphans
<1>4. TypeOK' /\ Finite'
  BY <1>1, <1>2, <1>3
     DEF IInv, TypeOK, Finite, Landed, bronze, silver
<1>5. UpToDate'
  BY <1>1, <1>2 DEF UpToDate, FromInputs, bronze, silver
<1>6. Feed'
  BY <1>1 DEF IInv, Feed, bronze, silver
<1> QED
  BY <1>4, <1>5, <1>6 DEF IInv

LEMMA DimCustomerRefreshed ==
    ASSUME IInv, RefreshDimCustomer
    PROVE  IInv'
<1>1. dim_customer' = CurrentRows(dim_customer_hist)
      /\ UNCHANGED <<bronze, silver, dim_customer_hist, dim_customer_held_orphans>>
      /\ Refreshed("dim_customer")
  BY DEF RefreshDimCustomer
<1>2. /\ outcome = "running" /\ FromInputs
      /\ pending' = pending \ {"dim_customer"} /\ pending' \subseteq Datasets
      /\ outcome' \in {"running", "completed"} /\ (outcome' # "running" => pending' = {})
      /\ \A x \in Datasets : x \notin pending' => Reads[x] \cap pending' = {}
      /\ UNCHANGED <<files, landings, failures>>
  BY <1>1, DatasetNames, RefreshStep
<1>3. TypeOK' /\ Finite'
  BY <1>1, <1>2
     DEF IInv, TypeOK, Finite, Landed, CurrentRows, bronze, silver
<1>4. UpToDate'
  BY <1>1, <1>2 DEF UpToDate, FromInputs, bronze, silver
<1>5. Feed'
  BY <1>1 DEF IInv, Feed, bronze, silver
<1> QED
  BY <1>3, <1>4, <1>5 DEF IInv

LEMMA NextPreserves == IInv /\ [Next]_vars => IInv'
<1> SUFFICES ASSUME IInv, [Next]_vars PROVE IInv'
  OBVIOUS
<1>1. ASSUME NEW path \in Paths, NEW row \in RowsOf(path), Land(path, row) PROVE IInv'
  BY <1>1, FileLands
<1>2. CASE StartUpdate
  BY <1>2, UpdateStarts
<1>3. CASE IngestCustomers
  BY <1>3, CustomersIngested
<1>4. CASE IngestCustomerUpdates
  BY <1>4, CustomerUpdatesIngested
<1>5. CASE RefreshCustomersValid
  BY <1>5, CustomersValidRefreshed
<1>6. CASE RefreshCustomerUpdatesValid
  BY <1>6, CustomerUpdatesValidRefreshed
<1>7. CASE RefreshDimCustomerHist
  BY <1>7, DimCustomerHistRefreshed
<1>8. CASE RefreshHeldOrphans
  BY <1>8, HeldOrphansRefreshed
<1>9. CASE RefreshDimCustomer
  BY <1>9, DimCustomerRefreshed
<1>10. CASE FailUpdate
  BY <1>10, UpdateFails
<1>11. CASE UNCHANGED vars
  BY <1>11 DEF vars, bronze, silver, dims, IInv, TypeOK, Finite, Landed, UpToDate,
               FromInputs, Feed
<1> QED
  BY <1>1, <1>2, <1>3, <1>4, <1>5, <1>6, <1>7, <1>8, <1>9, <1>10, <1>11 DEF Next, Refresh

LEMMA InductiveInvariant == Spec => []IInv
BY InitEstablishes, NextPreserves, PTL DEF Spec

-----------------------------------------------------------------------------
(* The theorems.                                                           *)

\* Every table has rows of its type only, whatever lands and fails.
THEOREM TypeCorrect == Spec => []TypeOK
BY InductiveInvariant, PTL DEF IInv

\* When an update has completed, every dataset of it is of the bronze tables of now.
LEMMA CompletedInputs ==
    ASSUME IInv, outcome = "completed"
    PROVE  /\ customers_valid = CustomersValid(customers_raw)
           /\ customer_updates_valid = CustomerUpdatesValid(customer_updates_raw)
           /\ dim_customer_hist = DimCustomerHist(customers_valid, customer_updates_valid)
           /\ dim_customer_held_orphans = HeldOrphans(customers_valid, customer_updates_valid)
           /\ dim_customer = CurrentRows(dim_customer_hist)
BY DEF IInv, UpToDate, FromInputs

\* A completed update leaves what recomputing everything from bronze gives; nothing of
\* an update that failed before it is left.
THEOREM UpdateRecomputes == Spec => []CompletedIsRecomputed
<1>1. IInv => CompletedIsRecomputed
  BY CompletedInputs DEF CompletedIsRecomputed
<1> QED
  BY <1>1, InductiveInvariant, PTL

\* Every point at which a valid delete came is an upsert's, or a delete of it is held, or
\* it shows.
THEOREM DeletesNotLost == Spec => []DeletesAccountedFor
<1>1. IInv => DeletesAccountedFor
  <2> SUFFICES ASSUME IInv, outcome = "completed", NEW r \in Deleted
               PROVE  LET e     == UpdateEvent(r)
                          shown == \E v \in Covering(dim_customer_hist, e.key, e.sequence) :
                                       v.is_deleted
                      IN  /\ UpsertsInSlot(e) # {} => HeldInSlot(e) = {} /\ ~shown
                          /\ UpsertsInSlot(e) = {} => (HeldInSlot(e) # {} <=> ~shown)
    BY DEF DeletesAccountedFor
  <2>1. ValidRows(customers_valid, customer_updates_valid)
    BY DEF IInv, Finite
  <2>2. r \in customer_updates_valid /\ r.op = OpDelete
    BY CompletedInputs DEF Deleted
  <2>3. dim_customer_hist = DimCustomerHist(customers_valid, customer_updates_valid)
        /\ dim_customer_held_orphans = HeldOrphans(customers_valid, customer_updates_valid)
    BY CompletedInputs
  <2> QED
    BY <2>1, <2>2, <2>3, DeleteAccountedFor DEF UpsertsInSlot, HeldInSlot, Shown
<1> QED
  BY <1>1, InductiveInvariant, PTL

\* Only its own refresh changes the history, and it changes nothing that it reads.
LEMMA HistoryChanges ==
    ASSUME [Next]_vars
    PROVE  \/ UNCHANGED dim_customer_hist
           \/ /\ dim_customer_hist' = DimCustomerHist(customers_valid, customer_updates_valid)
              /\ UNCHANGED <<customers_raw, customers_valid, customer_updates_valid>>
BY DEF Next, vars, Land, StartUpdate, Refresh, FailUpdate, IngestCustomers,
       IngestCustomerUpdates, RefreshCustomersValid, RefreshCustomerUpdatesValid,
       RefreshDimCustomerHist, RefreshHeldOrphans, RefreshDimCustomer, bronze, silver, dims

\* A customer of the feed who is in no snapshot does not leave the dimension.
THEOREM FeedCustomersStay == Spec => CdcCustomerStays
<1>1. ASSUME IInv, [Next]_vars, NEW k \in KeysOf(dim_customer_hist),
             \A b \in customers_raw' : b.row.customer_id # k
      PROVE  k \in KeysOf(dim_customer_hist')
  <2>1. CASE UNCHANGED dim_customer_hist
    BY <1>1, <2>1
  <2>2. CASE /\ dim_customer_hist' = DimCustomerHist(customers_valid, customer_updates_valid)
             /\ UNCHANGED <<customers_raw, customers_valid, customer_updates_valid>>
    <3>1. HasUpsert(customer_updates_valid, k)
      BY <1>1, <2>2 DEF IInv, Feed
    <3>2. ValidRows(customers_valid, customer_updates_valid)
      BY <1>1 DEF IInv, Finite
    <3> QED
      BY <2>2, <3>1, <3>2, UpsertShows
  <2> QED
    BY <1>1, <2>1, <2>2, HistoryChanges
<1>2. IInv /\ [Next]_vars =>
         [\A k \in KeysOf(dim_customer_hist) :
             (\A b \in customers_raw' : b.row.customer_id # k) =>
                 k \in KeysOf(dim_customer_hist')]_vars
  BY <1>1
<1> QED
  BY <1>2, InductiveInvariant, PTL DEF Spec, CdcCustomerStays

-----------------------------------------------------------------------------
(* The dimension implements a timeline.                                    *)

\* What a published history answers is what the facts of the timeline say.
LEMMA AnswersOfFacts ==
    ASSUME IInv, dim_customer_hist' = DimCustomerHist(customers_valid, customer_updates_valid),
           NEW k, NEW p \in Points
    PROVE  AnswerAt(k, p)' = Timeline!AsOf(k, p)
<1> DEFINE facts == Facts(customers_valid, customer_updates_valid)
<1>1. ValidRows(customers_valid, customer_updates_valid) /\ p \in Sequence
  BY PointsAssumption DEF IInv, Finite
<1>2. AnswerAt(k, p)' = Answer(dim_customer_hist', k, p)
  BY DEF AnswerAt, Answer
<1>3. dim_customer_hist' = Materialize(Collapse(facts))
  BY <1>1, HistoryOfFacts
<1>4. Answer(Materialize(Collapse(facts)), k, p) = StateAsOf(facts, k, p)
  BY <1>1, FactsTyped, AnswerIsAsOf
<1>5. Timeline!AsOf(k, p) = StateAsOf(facts, k, p)
  BY DEF Timeline!AsOf, Timeline!Known, Timeline!AtOrBefore, Timeline!SeqLt, Timeline!ValueLt,
         StateAsOf, KnownStates, AtOrBefore, SeqLt, ValueLt, Facts
<1> QED
  BY <1>2, <1>3, <1>4, <1>5

LEMMA InitMaps == Init => Timeline!Init
<1> SUFFICES ASSUME Init PROVE Timeline!Init
  OBVIOUS
<1>1. {EventState(e) : e \in SparkApplied(EventStream(customers_valid, customer_updates_valid), {})}
         = {}
  BY DEF Init, Events, EventStream, SparkResolved, SparkApplied
<1>2. \A k, p : AnswerAt(k, p) = Absent
  BY DEF Init, AnswerAt, Covering
<1> QED
  BY <1>1, <1>2 DEF Timeline!Init

\* A refresh of the history publishes; any other step at most revises the facts.
LEMMA StepMaps == IInv /\ IInv' /\ [Next]_vars => [Timeline!Next]_(Timeline!vars)
<1> SUFFICES ASSUME IInv, IInv', [Next]_vars PROVE [Timeline!Next]_(Timeline!vars)
  OBVIOUS
<1>1. CASE UNCHANGED dim_customer_hist
  <2> DEFINE facts == Facts(customers_valid, customer_updates_valid)
  <2>1. [q \in Keys \X Points |-> AnswerAt(q[1], q[2])]'
           = [q \in Keys \X Points |-> AnswerAt(q[1], q[2])]
    BY <1>1 DEF AnswerAt, Covering
  <2>2. OnePerSlot(facts')
    <3>1. ValidRows(customers_valid', customer_updates_valid')
      BY DEF IInv, Finite, ValidRows
    <3>2. facts' = Facts(customers_valid', customer_updates_valid')
      BY DEF Facts
    <3> QED
      BY <3>1, <3>2, FactsTyped
  <2>3. \A f, g \in facts' : f.key = g.key /\ f.sequence = g.sequence => f = g
    BY <2>2 DEF OnePerSlot, SameSlot
  <2>4. Timeline!Revise
    BY <2>1, <2>3 DEF Timeline!Revise, Facts
  <2> QED
    BY <2>4 DEF Timeline!Next
<1>2. CASE /\ dim_customer_hist' = DimCustomerHist(customers_valid, customer_updates_valid)
           /\ UNCHANGED <<customers_raw, customers_valid, customer_updates_valid>>
  <2>1. [q \in Keys \X Points |-> AnswerAt(q[1], q[2])]'
           = [q \in Keys \X Points |-> Timeline!AsOf(q[1], q[2])]
    BY <1>2, AnswersOfFacts
  <2>2. {EventState(e) :
            e \in SparkApplied(EventStream(customers_valid, customer_updates_valid), {})}'
           = {EventState(e) :
                 e \in SparkApplied(EventStream(customers_valid, customer_updates_valid), {})}
    BY <1>2
  <2>3. Timeline!Publish
    BY <2>1, <2>2 DEF Timeline!Publish
  <2> QED
    BY <2>3 DEF Timeline!Next
<1> QED
  BY <1>1, <1>2, HistoryChanges

\* Every behaviour of the pipeline is one of the timeline: each as-of question is
\* answered with the latest fact, and answers change by publication only.
THEOREM PipelineImplementsTimeline == Spec => ImplementsTimeline
<1>1. Spec => Timeline!Init
  BY InitMaps DEF Spec
<1> QED
  BY <1>1, InductiveInvariant, StepMaps, PTL DEF Spec, ImplementsTimeline, Timeline!Spec
=============================================================================
