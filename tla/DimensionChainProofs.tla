------------------------ MODULE DimensionChainProofs ------------------------
(***************************************************************************)
(* For every set of keys, payloads and sequences, and feeds of any length: *)
(* both histories of DimensionChain stay healthy and say nothing twice,    *)
(* and normalization conserves every batch.                                *)
(***************************************************************************)
EXTENDS DimensionChain, Scd2Proofs

\* Every version of the oracle was said by an event: where no slot is contested, a new
\* event finds in its slot what it says itself, or nothing.
Sourced ==
    /\ IsFiniteSet(delivered)
    /\ StatesFromHistory(oracle_history) \subseteq {EventState(e) : e \in delivered}

\* The inductive invariant.  HistoryHealthy alone is not inductive: two versions in
\* one slot, or an infinite history, would satisfy it and break the next rebuild.
IInv ==
    /\ WellFormed(oracle_history, Keys, Payloads)
    /\ WellFormed(spark_history, Keys, Payloads)
    /\ received \in 0..MaxEvents
    /\ delivered \subseteq FeedEvent
    /\ ordered \in BOOLEAN
    /\ StreamConserved
    /\ Sourced
    /\ InOrderFeedIsSplitInvariant
    /\ UncontestedReplayIsNoOp
    /\ UncontestedVerdictsAgree

\* Nothing has been delivered, and the histories are empty.
LEMMA InitIInv == Init => IInv
<1> SUFFICES ASSUME Init PROVE IInv
  OBVIOUS
<1>1. WellFormed(oracle_history, Keys, Payloads) /\ WellFormed(spark_history, Keys, Payloads)
  BY EmptyWellFormed DEF Init
<1>2. received \in 0..MaxEvents /\ delivered \subseteq FeedEvent /\ ordered \in BOOLEAN
  BY ChainAssumption DEF Init
<1>3. <<>> \in Seq({}) /\ Distinct(<<>>) = {}
  BY DEF Distinct, Range
<1>4. last.stream.conflicts = {}
  BY <1>3 DEF Init, Normalize
<1>5. StreamConserved
  BY <1>3, <1>4, NormalizeConserves DEF Init, StreamConserved
<1>6. StatesFromHistory({}) = {} /\ {EventState(e) : e \in {}} = {}
  BY DEF StatesFromHistory
<1>7. Sourced
  BY <1>6, FS_EmptySet DEF Init, Sourced
<1>8. /\ Resolved({}) = {} /\ Applied({}, {}) = {}
      /\ Collapse(Merge({}, {})) = {} /\ Materialize({}) = {}
  BY DEF Resolved, Applied, Collapse, Merge, Materialize
<1>9. ApplyScd2({}, {}) = {}
  BY <1>6, <1>8 DEF ApplyScd2
<1>10. InOrderFeedIsSplitInvariant /\ UncontestedVerdictsAgree
  BY <1>8, <1>9 DEF Init, InOrderFeedIsSplitInvariant, UncontestedVerdictsAgree
<1>11. UncontestedReplayIsNoOp
  BY <1>3, <1>8, <1>9 DEF Init, UncontestedReplayIsNoOp, ReplayIsNoOp, Normalize
<1> QED
  BY <1>1, <1>2, <1>5, <1>7, <1>10, <1>11 DEF IInv

\* What a batch does to the histories, said of the events themselves.
LEMMA BatchSays ==
    ASSUME IInv, NEW batch \in Batches, ApplyBatch(batch)
    PROVE  LET unique   == Distinct(batch)
               known    == KeysOf(oracle_history)
               events   == Applied(Resolved(unique), known)
               stored   == StatesFromHistory(oracle_history)
               incoming == {EventState(e) : e \in events}
           IN  /\ IsFiniteSet(unique) /\ unique \in SUBSET Event(Keys, Payloads)
               /\ IsFiniteSet(delivered') /\ delivered' \in SUBSET Event(Keys, Payloads)
               /\ delivered' = delivered \cup unique
               /\ events \subseteq unique
               /\ stored \in SUBSET State(Keys, Payloads) /\ IsFiniteSet(stored)
               /\ incoming \in SUBSET State(Keys, Payloads) /\ IsFiniteSet(incoming)
               /\ stored \cup incoming \subseteq {EventState(e) : e \in delivered'}
               /\ oracle_history' = Materialize(Collapse(Merge(stored, incoming)))
               /\ StatesFromHistory(oracle_history') = Collapse(Merge(stored, incoming))
<1> DEFINE unique   == Distinct(batch)
           known    == KeysOf(oracle_history)
           events   == Applied(Resolved(unique), known)
           stored   == StatesFromHistory(oracle_history)
           incoming == {EventState(e) : e \in events}
<1>1. FeedEvent \subseteq Event(Keys, Payloads) /\ Payloads \in SUBSET Int
  BY ChainAssumption, PayloadsAssumption DEF FeedEvent, Event
<1>2. PICK n \in 1..(MaxEvents - received) : batch \in [1..n -> FeedEvent]
  BY DEF Batches
<1>3. batch \in Seq(FeedEvent)
  BY <1>2, ChainAssumption DEF IInv
<1>4. IsFiniteSet(unique) /\ unique \subseteq FeedEvent
  BY <1>3, DistinctFinite
<1>5. delivered' = delivered \cup unique /\ IsFiniteSet(delivered')
      /\ delivered' \subseteq FeedEvent
  BY <1>4, FS_Union DEF ApplyBatch, IInv, Sourced
<1>6. events \subseteq Resolved(unique) /\ Resolved(unique) \subseteq unique
  BY DEF Applied, Resolved
<1>7. OnePerSlot(events) /\ IsFiniteSet(events) /\ events \in SUBSET Event(Keys, Payloads)
  <2>1. unique \in SUBSET Event(Keys, Payloads)
    BY <1>1, <1>4
  <2>2. OnePerSlot(Resolved(unique))
    BY <1>1, <2>1, ResolvedOnePerSlot
  <2> HIDE DEF events, unique
  <2> QED
    BY <1>4, <1>6, <2>1, <2>2, FS_Subset DEF OnePerSlot
<1> HIDE DEF unique, events
<1>8. stored \in SUBSET State(Keys, Payloads) /\ IsFiniteSet(stored) /\ OnePerSlot(stored)
  BY HistoryStates, StatesFinite DEF IInv, WellFormed
<1>9. incoming \in SUBSET State(Keys, Payloads) /\ IsFiniteSet(incoming)
      /\ OnePerSlot(incoming)
  BY <1>7, EventStates, StatesFinite
<1>10. stored \cup incoming \subseteq {EventState(e) : e \in delivered'}
  BY <1>5, <1>6 DEF IInv, Sourced
<1>11. oracle_history' = Materialize(Collapse(Merge(stored, incoming)))
  BY DEF ApplyBatch, ApplyScd2, Normalize, unique, events
<1> HIDE DEF stored, incoming
<1>12. Collapse(Merge(stored, incoming)) \in SUBSET State(Keys, Payloads)
  BY <1>8, <1>9 DEF Collapse, Merge
<1>13. StatesFromHistory(oracle_history') = Collapse(Merge(stored, incoming))
  BY <1>1, <1>11, <1>12, StatesReadBack
<1> QED
  BY <1>1, <1>4, <1>5, <1>6, <1>8, <1>9, <1>10, <1>11, <1>13
     DEF unique, events, stored, incoming

\* Versions come from events after every batch.
LEMMA ApplyBatchSourced ==
    ASSUME IInv, NEW batch \in Batches, ApplyBatch(batch)
    PROVE  Sourced'
<1> DEFINE unique   == Distinct(batch)
           events   == Applied(Resolved(unique), KeysOf(oracle_history))
           stored   == StatesFromHistory(oracle_history)
           incoming == {EventState(e) : e \in events}
<1>1. /\ IsFiniteSet(delivered')
      /\ stored \cup incoming \subseteq {EventState(e) : e \in delivered'}
      /\ StatesFromHistory(oracle_history') = Collapse(Merge(stored, incoming))
  BY BatchSays
<1> HIDE DEF stored, incoming
<1>2. Collapse(Merge(stored, incoming)) \subseteq stored \cup incoming
  BY DEF Collapse, Merge
<1>3. StatesFromHistory(oracle_history') \subseteq {EventState(e) : e \in delivered'}
  BY <1>1, <1>2
<1> QED
  BY <1>1, <1>3 DEF Sourced

\* Where no slot is contested, the batch is added to what is stored, ties or not.
LEMMA UncontestedBatch ==
    ASSUME IInv, NEW batch \in Batches, ApplyBatch(batch), Uncontested'
    PROVE  LET unique   == Distinct(batch)
               known    == KeysOf(oracle_history)
               events   == Applied(unique, known)
               stored   == StatesFromHistory(oracle_history)
               incoming == {EventState(e) : e \in events}
           IN  /\ Uncontested
               /\ OnePerSlot(delivered') /\ OnePerSlot(unique)
               /\ Resolved(unique) = unique /\ SparkResolved(unique) = unique
               /\ IsFiniteSet(stored \cup incoming) /\ OnePerSlot(stored \cup incoming)
               /\ Sequenced(stored \cup incoming)
               /\ stored \cup incoming \in SUBSET State(Keys, Payloads)
               /\ oracle_history' = Materialize(Collapse(stored \cup incoming))
               /\ StatesFromHistory(oracle_history') = Collapse(stored \cup incoming)
<1> DEFINE unique   == Distinct(batch)
           known    == KeysOf(oracle_history)
           events   == Applied(unique, known)
           stored   == StatesFromHistory(oracle_history)
           incoming == {EventState(e) : e \in events}
<1>1. delivered' = delivered \cup unique /\ unique \in SUBSET Event(Keys, Payloads)
      /\ delivered' \in SUBSET Event(Keys, Payloads)
  BY BatchSays
<1>2. Uncontested /\ OnePerSlot(delivered') /\ OnePerSlot(unique)
  <2> HIDE DEF unique
  <2> QED
    BY <1>1 DEF Uncontested, OnePerSlot
<1>3. Resolved(unique) = unique /\ SparkResolved(unique) = unique
  <2> HIDE DEF unique
  <2> QED
    BY <1>1, <1>2, UncontestedResolved
<1>4. /\ stored \in SUBSET State(Keys, Payloads) /\ IsFiniteSet(stored)
      /\ incoming \in SUBSET State(Keys, Payloads) /\ IsFiniteSet(incoming)
      /\ stored \cup incoming \subseteq {EventState(e) : e \in delivered'}
      /\ oracle_history' = Materialize(Collapse(Merge(stored, incoming)))
      /\ StatesFromHistory(oracle_history') = Collapse(Merge(stored, incoming))
  BY <1>3, BatchSays
<1> HIDE DEF stored, incoming
<1>5. OnePerSlot({EventState(e) : e \in delivered'})
  BY <1>1, <1>2, EventStates
<1>6. OnePerSlot(stored \cup incoming) /\ IsFiniteSet(stored \cup incoming)
      /\ stored \cup incoming \in SUBSET State(Keys, Payloads)
  BY <1>4, <1>5, FS_Union DEF OnePerSlot
<1>7. Sequenced(stored \cup incoming)
  BY <1>6 DEF Sequenced, State
<1>8. Merge(stored, incoming) = stored \cup incoming
  BY <1>4, <1>6, PayloadsAssumption, PlainMerge
<1> QED
  BY <1>2, <1>3, <1>4, <1>6, <1>7, <1>8 DEF stored, incoming

\* The batch once more changes nothing: what of it was collapsed away is collapsed again.
LEMMA ReplayChangesNothing ==
    ASSUME IInv, NEW batch \in Batches, ApplyBatch(batch)
    PROVE  UncontestedReplayIsNoOp'
<1> SUFFICES ASSUME Uncontested' PROVE ReplayIsNoOp'
  BY DEF UncontestedReplayIsNoOp
<1> DEFINE unique   == Distinct(batch)
           known    == KeysOf(oracle_history)
           events   == Applied(unique, known)
           stored   == StatesFromHistory(oracle_history)
           incoming == {EventState(e) : e \in events}
           states   == stored \cup incoming
           kept     == Collapse(states)
<1>1. /\ Resolved(unique) = unique
      /\ IsFiniteSet(states) /\ OnePerSlot(states) /\ Sequenced(states)
      /\ states \in SUBSET State(Keys, Payloads)
      /\ oracle_history' = Materialize(kept)
      /\ StatesFromHistory(oracle_history') = kept
  BY UncontestedBatch
<1>2. Normalize(last'.batch, last'.known).events = events
  BY <1>1 DEF ApplyBatch, Normalize
<1> HIDE DEF stored, events
<1>3. kept \subseteq states
  BY DEF Collapse
<1>4. kept \cup incoming \subseteq states
  BY <1>3
<1> HIDE DEF kept, incoming, states
<1>5. Collapse(kept \cup incoming) = kept
  BY <1>1, <1>4, CollapseBetween DEF kept
<1>6. Merge(kept, incoming) = kept \cup incoming
  <2>1. OnePerSlot(kept \cup incoming) /\ kept \cup incoming \in SUBSET State(Keys, Payloads)
    BY <1>1, <1>4 DEF OnePerSlot
  <2>2. kept \in SUBSET State(Keys, Payloads) /\ incoming \in SUBSET State(Keys, Payloads)
    BY <2>1
  <2> QED
    BY <2>1, <2>2, PayloadsAssumption, PlainMerge
<1>7. ApplyScd2(oracle_history', events) = Materialize(kept)
  BY <1>1, <1>5, <1>6 DEF ApplyScd2, incoming
<1> QED
  BY <1>1, <1>2, <1>7 DEF ReplayIsNoOp

\* The compilers do the same to the batch.
LEMMA CompilersFollow ==
    ASSUME IInv, NEW batch \in Batches, ApplyBatch(batch)
    PROVE  UncontestedVerdictsAgree'
<1> SUFFICES ASSUME Uncontested' PROVE spark_history' = oracle_history'
  BY DEF UncontestedVerdictsAgree
<1> DEFINE unique   == Distinct(batch)
           known    == KeysOf(oracle_history)
           events   == Applied(unique, known)
           stored   == StatesFromHistory(oracle_history)
           incoming == {EventState(e) : e \in events}
<1>1. /\ Uncontested /\ SparkResolved(unique) = unique
      /\ OnePerSlot(stored \cup incoming)
      /\ stored \cup incoming \in SUBSET State(Keys, Payloads)
      /\ oracle_history' = Materialize(Collapse(stored \cup incoming))
  BY UncontestedBatch
<1>2. spark_history = oracle_history
  BY <1>1 DEF IInv, UncontestedVerdictsAgree
<1>3. SparkApplied(unique, known) = events
  <2>1. IsFiniteSet(unique)
    BY BatchSays
  <2> QED
    BY <2>1, OrphansAgree
<1>4. spark_history' = RebuildHistory(oracle_history, events)
  BY <1>1, <1>2, <1>3 DEF ApplyBatch, NormalizedStream
<1>5. SlotWinners(stored \cup incoming) = stored \cup incoming
  <2> HIDE DEF stored, incoming
  <2> QED
    BY <1>1, PlainWinners
<1> QED
  BY <1>1, <1>4, <1>5 DEF RebuildHistory

\* An in-order batch is to what it finds what it would be to all events before it.
LEMMA SplitsAgree ==
    ASSUME IInv, NEW batch \in Batches, ApplyBatch(batch)
    PROVE  InOrderFeedIsSplitInvariant'
<1> SUFFICES ASSUME Uncontested', ordered'
             PROVE  oracle_history' = ApplyScd2({}, Applied(Resolved(delivered'), {}))
  BY DEF InOrderFeedIsSplitInvariant
<1> DEFINE unique   == Distinct(batch)
           known    == KeysOf(oracle_history)
           events   == Applied(unique, known)
           stored   == StatesFromHistory(oracle_history)
           incoming == {EventState(e) : e \in events}
           before   == Applied(delivered, {})
           earlier  == {EventState(e) : e \in before}
           after    == Applied(delivered', {})
<1>1. /\ Uncontested /\ OnePerSlot(delivered')
      /\ oracle_history' = Materialize(Collapse(stored \cup incoming))
  BY UncontestedBatch
<1>2. /\ delivered' = delivered \cup unique
      /\ IsFiniteSet(delivered') /\ delivered' \in SUBSET Event(Keys, Payloads)
  BY BatchSays
<1>3. ordered /\ \A e \in unique, f \in delivered : e.key = f.key => Precedes(f, e)
  BY DEF ApplyBatch, ExtendsFeed
<1> HIDE DEF unique
<1>4. Resolved(delivered') = delivered' /\ Resolved(delivered) = delivered
  <2>1. OnePerSlot(delivered) /\ delivered \in SUBSET Event(Keys, Payloads)
    BY <1>1, <1>2 DEF OnePerSlot
  <2> QED
    BY <1>1, <1>2, <2>1, UncontestedResolved
<1>5. /\ IsFiniteSet(earlier) /\ OnePerSlot(earlier) /\ Sequenced(earlier)
      /\ earlier \in SUBSET State(Keys, Payloads)
  <2>1. /\ before \subseteq delivered' /\ IsFiniteSet(before) /\ OnePerSlot(before)
        /\ before \in SUBSET Event(Keys, Payloads)
    BY <1>1, <1>2, FS_Subset DEF Applied, OnePerSlot
  <2> HIDE DEF before
  <2> QED
    BY <2>1, EventStates, StatesFinite DEF Sequenced, State
<1>6. \A S : Merge({}, S) = S
  BY DEF Merge
<1>7. \A E : ApplyScd2({}, E) = Materialize(Collapse({EventState(e) : e \in E}))
  BY <1>6 DEF ApplyScd2, StatesFromHistory
<1>8. oracle_history = Materialize(Collapse(earlier))
  BY <1>1, <1>3, <1>4, <1>7 DEF IInv, InOrderFeedIsSplitInvariant
<1>9. stored = Collapse(earlier)
  <2> HIDE DEF earlier
  <2>1. Collapse(earlier) \in SUBSET State(Keys, Payloads)
    BY <1>5 DEF Collapse
  <2> QED
    BY <1>8, <2>1, PayloadsAssumption, StatesReadBack
<1>10. \A k : k \in known <=> \E u \in delivered : u.op = OpUpsert /\ u.key = k
  <2>1. \A k : k \in known <=> \E s \in Collapse(earlier) : s.key = k
    <3> HIDE DEF earlier
    <3> QED
      BY <1>8, KeysOfMaterialized
  <2>2. \A k : (\E s \in Collapse(earlier) : s.key = k) <=> \E s \in earlier : s.key = k
    <3> HIDE DEF earlier
    <3>1. ASSUME NEW s \in earlier PROVE \E m \in Collapse(earlier) : m.key = s.key
      BY <1>5, LastKeptSays DEF Precedes
    <3> QED
      BY <3>1 DEF Collapse
  <2>3. \A k : (\E s \in earlier : s.key = k) <=> \E e \in before : e.key = k
    <3>1. \A e \in before : EventState(e).key = e.key
      BY DEF EventState
    <3> HIDE DEF before
    <3> QED
      BY <3>1
  <2>4. \A e \in delivered : e.op = OpUpsert => e \in before
    BY DEF Applied, Orphans, IsOrphan, OpUpsert, OpDelete
  <2>5. \A e \in before : e.op = OpUpsert \/
            \E u \in delivered : u.op = OpUpsert /\ u.key = e.key
    BY <1>2 DEF Applied, Orphans, IsOrphan, Event, Precedes
  <2>6. before \subseteq delivered
    BY DEF Applied
  <2> HIDE DEF before, earlier, known
  <2> QED
    BY <2>1, <2>2, <2>3, <2>4, <2>5, <2>6
<1>11. after = before \cup events
  <2>1. ASSUME NEW e \in delivered
        PROVE  e \in Orphans(delivered', {}) <=> e \in Orphans(delivered, {})
    <3>1. ASSUME NEW u \in unique, Precedes(u, e) PROVE FALSE
      <4>1. Precedes(e, u)
        BY <1>3, <3>1 DEF Precedes
      <4> QED
        BY <1>2, <3>1, <4>1, SeqLtAsymmetric DEF Precedes, Event
    <3> QED
      BY <1>2, <3>1 DEF Orphans, IsOrphan
  <2>2. ASSUME NEW e \in unique
        PROVE  e \in Orphans(delivered', {}) <=> e \in Orphans(unique, known)
    <3>1. \A u \in delivered : u.key = e.key => Precedes(u, e)
      BY <1>3
    <3>2. e.key \in known <=> \E u \in delivered : u.op = OpUpsert /\ Precedes(u, e)
      BY <1>10, <3>1 DEF Precedes
    <3> HIDE DEF known
    <3> QED
      BY <1>2, <3>2 DEF Orphans, IsOrphan
  <2>3. ASSUME NEW e \in delivered, e \in unique PROVE FALSE
    BY <1>2, <1>3, <2>3, SeqLtIrreflexive DEF Precedes, Event
  <2> HIDE DEF known
  <2> QED
    BY <1>2, <2>1, <2>2, <2>3 DEF Applied
<1>12. {EventState(e) : e \in after} = earlier \cup incoming
  <2> HIDE DEF after, before, events
  <2> QED
    BY <1>11
<1>13. Collapse(earlier \cup incoming) = Collapse(stored \cup incoming)
  <2> DEFINE states == earlier \cup incoming
  <2>1. /\ IsFiniteSet(states) /\ OnePerSlot(states) /\ Sequenced(states)
    <3>1. /\ after \subseteq delivered' /\ IsFiniteSet(after) /\ OnePerSlot(after)
          /\ after \in SUBSET Event(Keys, Payloads)
      BY <1>1, <1>2, FS_Subset DEF Applied, OnePerSlot
    <3> HIDE DEF after, earlier, incoming
    <3> QED
      BY <1>12, <3>1, EventStates, StatesFinite DEF Sequenced, State
  <2>2. \A i \in incoming, s \in earlier : i.key = s.key => Precedes(s, i)
    BY <1>3 DEF EventState, Applied, Precedes
  <2>3. stored \cup incoming \subseteq states
    BY <1>9 DEF Collapse
  <2>4. ASSUME NEW s \in earlier, s \in Collapse(states) PROVE s \in Collapse(earlier)
    <3> HIDE DEF earlier, incoming
    <3>1. SUFFICES ASSUME NEW p \in earlier, IsPredecessor(p, s, earlier), p.content = s.content
                   PROVE  FALSE
      BY DEF Collapse
    <3>2. ASSUME NEW q \in incoming, Precedes(q, s) PROVE FALSE
      <4>1. Precedes(s, q)
        BY <2>2, <3>2 DEF Precedes
      <4> QED
        BY <2>1, <3>2, <4>1, SeqLtAsymmetric DEF Precedes, Sequenced
    <3>3. IsPredecessor(p, s, states)
      BY <3>1, <3>2 DEF IsPredecessor
    <3> QED
      BY <2>4, <3>1, <3>3 DEF Collapse
  <2>5. Collapse(states) \subseteq stored \cup incoming
    <3>1. Collapse(states) \subseteq states
      BY DEF Collapse
    <3> HIDE DEF earlier, incoming
    <3> QED
      BY <1>9, <2>4, <3>1
  <2> HIDE DEF stored, incoming, states
  <2> QED
    BY <2>1, <2>3, <2>5, CollapseBetween DEF states
<1> HIDE DEF after, before, events, earlier, incoming, stored
<1> QED
  BY <1>1, <1>4, <1>7, <1>12, <1>13 DEF after

\* Every batch the feed can deliver preserves it.
LEMMA ApplyBatchIInv ==
    ASSUME IInv, NEW batch \in Batches, ApplyBatch(batch)
    PROVE  IInv'
<1> DEFINE known == KeysOf(oracle_history)
           unique == Distinct(batch)
<1>1. FeedEvent \subseteq Event(Keys, Payloads)
  BY ChainAssumption DEF FeedEvent, Event
<1>2. PICK n \in 1..(MaxEvents - received) : batch \in [1..n -> FeedEvent]
  BY DEF Batches
<1>3. batch \in Seq(FeedEvent) /\ Len(batch) = n
  BY <1>2, ChainAssumption DEF IInv
<1>4. IsFiniteSet(unique) /\ unique \subseteq FeedEvent
  BY <1>3, DistinctFinite
<1>5. unique \in SUBSET Event(Keys, Payloads) /\ Payloads \in SUBSET Int
  BY <1>1, <1>4, PayloadsAssumption
<1> HIDE DEF unique
<1>6. /\ Resolved(unique) \subseteq unique /\ SparkResolved(unique) \subseteq unique
      /\ IsFiniteSet(Resolved(unique)) /\ IsFiniteSet(SparkResolved(unique))
  BY <1>4, FS_Subset DEF Resolved, SparkResolved
<1>7. WellFormed(oracle_history', Keys, Payloads)
  <2> DEFINE events == Applied(Resolved(unique), known)
  <2>1. oracle_history' = ApplyScd2(oracle_history, events)
    BY DEF ApplyBatch, Normalize, unique
  <2>2. events \subseteq Resolved(unique)
    BY DEF Applied
  <2>3. OnePerSlot(Resolved(unique))
    BY <1>5, ResolvedOnePerSlot
  <2> HIDE DEF events
  <2>4. OnePerSlot(events) /\ IsFiniteSet(events) /\ events \in SUBSET Event(Keys, Payloads)
    BY <1>5, <1>6, <2>2, <2>3, FS_Subset DEF OnePerSlot
  <2> QED
    BY <1>5, <2>1, <2>4, ApplyScd2WellFormed DEF IInv
<1>8. WellFormed(spark_history', Keys, Payloads)
  <2> DEFINE events == SparkApplied(SparkResolved(unique), known)
  <2>1. spark_history' = RebuildHistory(spark_history, events)
    BY DEF ApplyBatch, NormalizedStream, unique
  <2>2. events \subseteq SparkResolved(unique)
    BY DEF SparkApplied
  <2>3. OnePerSlot(SparkResolved(unique))
    BY <1>5, SparkResolvedOnePerSlot
  <2> HIDE DEF events
  <2>4. OnePerSlot(events) /\ IsFiniteSet(events) /\ events \in SUBSET Event(Keys, Payloads)
    BY <1>5, <1>6, <2>2, <2>3, FS_Subset DEF OnePerSlot
  <2> QED
    BY <2>1, <2>4, RebuildHistoryWellFormed DEF IInv
<1>9. received' \in 0..MaxEvents
  <2>1. received' = received + n /\ received \in 0..MaxEvents /\ MaxEvents \in Nat
    BY <1>3, ChainAssumption DEF ApplyBatch, IInv
  <2> QED
    BY <2>1
<1>10. delivered' \subseteq FeedEvent /\ ordered' \in BOOLEAN
  BY <1>4 DEF ApplyBatch, IInv, unique, ExtendsFeed
<1>11. last'.batch = batch /\ last'.stream = Normalize(batch, known)
  BY DEF ApplyBatch
<1>12. \A c \in last'.stream.conflicts :
           \E e \in last'.stream.events \cup last'.stream.held_orphans : SameSlot(c, e)
  <2>1. /\ last'.stream.events = Applied(Resolved(unique), known)
        /\ last'.stream.held_orphans = Orphans(Resolved(unique), known)
        /\ last'.stream.conflicts = unique \ Resolved(unique)
    BY DEF ApplyBatch, Normalize, unique
  <2>2. Applied(Resolved(unique), known) \cup Orphans(Resolved(unique), known)
          = Resolved(unique)
    BY DEF Applied, Orphans
  <2>3. \A c \in unique : \E e \in Resolved(unique) : SameSlot(c, e)
    BY <1>4, <1>5, SlotHasAWinner
  <2> QED
    BY <2>1, <2>2, <2>3
<1>13. StreamConserved'
  BY <1>3, <1>11, <1>12, NormalizeConserves DEF StreamConserved
<1>14. Sourced' /\ InOrderFeedIsSplitInvariant' /\ UncontestedReplayIsNoOp'
       /\ UncontestedVerdictsAgree'
  BY ApplyBatchSourced, SplitsAgree, ReplayChangesNothing, CompilersFollow
<1> QED
  BY <1>7, <1>8, <1>9, <1>10, <1>13, <1>14 DEF IInv

\* IInv is an invariant of the specification.
THEOREM Invariance == Spec => []IInv
<1>1. IInv /\ [Next]_vars => IInv'
  <2> SUFFICES ASSUME IInv, [Next]_vars PROVE IInv'
    OBVIOUS
  <2>1. CASE Next
    BY <2>1, ApplyBatchIInv DEF Next
  <2>2. CASE UNCHANGED vars
    BY <2>2 DEF vars, IInv, StreamConserved, Sourced, InOrderFeedIsSplitInvariant,
                UncontestedReplayIsNoOp, ReplayIsNoOp, UncontestedVerdictsAgree, Uncontested
  <2> QED
    BY <2>1, <2>2
<1> QED
  BY InitIInv, <1>1, PTL DEF Spec

\* The type invariant, for every feed.
THEOREM TypeCorrect == Spec => []TypeOK
<1>1. IInv => TypeOK
  BY DEF IInv, TypeOK, WellFormed
<1> QED
  BY Invariance, <1>1, PTL

\* Whatever the feed does, both histories pass validate_history after every batch.
THEOREM HistoriesHealthy == Spec => []HistoryHealthy
<1>1. IInv => HistoryHealthy
  BY DEF IInv, HistoryHealthy, WellFormed
<1> QED
  BY Invariance, <1>1, PTL

\* No version ever repeats the one before it, in either history.
THEOREM VersionsDiffer == Spec => []NoRedundantVersions
<1>1. IInv => NoRedundantVersions
  BY DEF IInv, NoRedundantVersions, WellFormed
<1> QED
  BY Invariance, <1>1, PTL

\* Normalization conserves every batch and silences no slot.
THEOREM StreamsConserved == Spec => []StreamConserved
<1>1. IInv => StreamConserved
  BY DEF IInv
<1> QED
  BY Invariance, <1>1, PTL

\* A feed that is never late and never contradicts itself may be cut into batches
\* anywhere: the history is that of all its events at once.
THEOREM SplitInvariance == Spec => []InOrderFeedIsSplitInvariant
<1>1. IInv => InOrderFeedIsSplitInvariant
  BY DEF IInv
<1> QED
  BY Invariance, <1>1, PTL

\* Where no slot was ever contested, delivering the last batch again changes nothing.
THEOREM ReplaysAreNoOps == Spec => []UncontestedReplayIsNoOp
<1>1. IInv => UncontestedReplayIsNoOp
  BY DEF IInv
<1> QED
  BY Invariance, <1>1, PTL

\* Where no slot was ever contested, the compilers keep the history of the oracle,
\* whatever the order of to_json strings.
THEOREM VerdictsEqual == Spec => []UncontestedVerdictsAgree
<1>1. IInv => UncontestedVerdictsAgree
  BY DEF IInv
<1> QED
  BY Invariance, <1>1, PTL
=============================================================================
