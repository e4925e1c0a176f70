-------------------------------- MODULE Scd2 --------------------------------
(***************************************************************************)
(* transform/scd2.py: the pure SCD Type 2 oracle.                          *)
(*                                                                         *)
(* A history is the set of its versions: the code returns them sorted by   *)
(* (key, valid_from), which is a key of the relation.  A state is what a   *)
(* version says at the point it starts: its slot and its content, which is *)
(* a payload or the tombstone.                                             *)
(***************************************************************************)
EXTENDS CdcNormalize

CONSTANTS
    Tombstone   \* the content of a deleted state, "__tombstone__"

ASSUME TombstoneAssumption == Tombstone \notin Int /\ Tombstone # Null

State(keys, payloads) ==
    [key : keys, sequence : Sequence, content : payloads \cup {Tombstone}]

Version(keys, payloads) ==
    [key : keys, attributes : payloads \cup {Null}, valid_from : Sequence,
     valid_to : Sequence \cup {Null}, is_current : BOOLEAN, is_deleted : BOOLEAN]

\* The state an event asserts: a delete keeps its slot and loses its payload.
EventState(e) ==
    [key |-> e.key, sequence |-> e.sequence,
     content |-> IF e.op = OpDelete THEN Tombstone ELSE e.payload]

\* Fault: the merge loads only the open versions of the target.
StatesFromHistory_CurrentOnly(history) ==
    {[key |-> v.key, sequence |-> v.valid_from,
      content |-> IF v.is_deleted THEN Tombstone ELSE v.attributes] :
        v \in {w \in history : w.is_current}}

StatesFromHistory(history) ==
    {[key |-> v.key, sequence |-> v.valid_from,
      content |-> IF v.is_deleted THEN Tombstone ELSE v.attributes] : v \in history}

\* The canonical order of contents.  A tombstone is compared as "{}", and
\* "{}" > "{\"...": it ranks above every payload.
ContentLt(c, d) == c # Tombstone /\ (d = Tombstone \/ c < d)

\* Where an incoming state meets a stored one in its slot, the greater content
\* stays; everything else is kept.
Merge(stored, incoming) ==
    {s \in stored : ~\E i \in incoming : SameSlot(s, i) /\ ContentLt(s.content, i.content)}
      \cup
    {i \in incoming : ~\E s \in stored : SameSlot(s, i) /\ ContentLt(i.content, s.content)}

IsPredecessor(p, s, states) ==
    /\ Precedes(p, s)
    /\ ~\E q \in states : Precedes(p, q) /\ Precedes(q, s)

\* Fault: a tombstone is never taken for a repetition.
Collapse_TombstonesStay(states) ==
    {s \in states :
        \/ s.content = Tombstone
        \/ ~\E p \in states : IsPredecessor(p, s, states) /\ p.content = s.content}

\* Fault: a content that returns after another is taken for a repetition.
Collapse_AnyEarlier(states) ==
    {s \in states : ~\E p \in states : Precedes(p, s) /\ p.content = s.content}

\* A state whose content is that of the state before it says nothing new.  (The
\* loop compares with the last state it kept; that one has the content of the
\* immediate predecessor, kept or not.)
Collapse(states) ==
    {s \in states :
        ~\E p \in states : IsPredecessor(p, s, states) /\ p.content = s.content}

\* Where the versions of s's key that follow s start.
Later(s, kept) == {t.sequence : t \in {u \in kept : Precedes(s, u)}}

\* Fault: the tombstone's marker reaches the attributes.
VersionOf_MarkerLeaks(s, kept) ==
    [key        |-> s.key,
     attributes |-> s.content,
     valid_from |-> s.sequence,
     valid_to   |-> IF Later(s, kept) = {} THEN Null ELSE Least(Later(s, kept)),
     is_current |-> Later(s, kept) = {} /\ s.content # Tombstone,
     is_deleted |-> s.content = Tombstone]

\* Fault: the last version is current, deleted or not.
VersionOf_DeletedIsCurrent(s, kept) ==
    [key        |-> s.key,
     attributes |-> IF s.content = Tombstone THEN Null ELSE s.content,
     valid_from |-> s.sequence,
     valid_to   |-> IF Later(s, kept) = {} THEN Null ELSE Least(Later(s, kept)),
     is_current |-> Later(s, kept) = {},
     is_deleted |-> s.content = Tombstone]

\* A version ends where its successor starts; only the last one of a key, if it is
\* not a tombstone, is current.
VersionOf(s, kept) ==
    [key        |-> s.key,
     attributes |-> IF s.content = Tombstone THEN Null ELSE s.content,
     valid_from |-> s.sequence,
     valid_to   |-> IF Later(s, kept) = {} THEN Null ELSE Least(Later(s, kept)),
     is_current |-> Later(s, kept) = {} /\ s.content # Tombstone,
     is_deleted |-> s.content = Tombstone]

Materialize(kept) == {VersionOf(s, kept) : s \in kept}

\* apply_scd2(history, events): the new full history.
ApplyScd2(history, events) ==
    Materialize(Collapse(Merge(StatesFromHistory(history), {EventState(e) : e \in events})))

CurrentRows(history) == {v \in history : v.is_current}

KeysOf(history) == {v.key : v \in history}

-----------------------------------------------------------------------------
(* validate_history, which the tests and the audit use as the definition   *)
(* of a healthy chain.                                                     *)

Follows(v, w) == v.key = w.key /\ SeqLt(v.valid_from, w.valid_from)

IsLast(v, history) == ~\E w \in history : Follows(v, w)

Adjacent(v, w, history) ==
    Follows(v, w) /\ ~\E x \in history : Follows(v, x) /\ Follows(x, w)

\* validate_history(history) = []: one current version per key, or none when the
\* last is a tombstone; contiguous intervals; an open end; no current version
\* that is not the last.
ValidateHistory(history) ==
    /\ \A v \in history : IsLast(v, history) =>
           /\ Cardinality({w \in CurrentRows(history) : w.key = v.key})
                = (IF v.is_deleted THEN 0 ELSE 1)
           /\ v.valid_to = Null
    /\ \A v, w \in history : Adjacent(v, w, history) => v.valid_to = w.valid_from
    /\ \A v \in CurrentRows(history) : IsLast(v, history)

\* Not checked by validate_history: each version says something that the version
\* before it did not.
ContentChanges(history) ==
    \A v, w \in history :
        Adjacent(v, w, history) =>
            <<v.is_deleted, v.attributes>> # <<w.is_deleted, w.attributes>>
=============================================================================
