---------------------------- MODULE DimTimeline -----------------------------
(***************************************************************************)
(* What a slowly changing dimension promises its readers, with no versions *)
(* and no intervals: from time to time it is published, and from then on   *)
(* an as-of question about a key at a point is answered with the content   *)
(* of the latest fact about the key at or before the point.                *)
(*                                                                         *)
(* The facts are what the source tables say when the dimension is          *)
(* published.  They may be revised freely between publications: rows       *)
(* arrive late, are corrected, or are withdrawn into quarantine.           *)
(***************************************************************************)
EXTENDS Ordering

CONSTANTS
    Keys,       \* the entity keys
    Points,     \* the sequence points readers ask about
    Absent      \* the answer when nothing is known at the point

VARIABLES
    facts,      \* [key, sequence, content] records, one per (key, sequence)
    answers     \* the published dimension: <<key, point>> -> content

vars == <<facts, answers>>

AtOrBefore(s, p) == s = p \/ SeqLt(s, p)

\* The facts about k that are not later than p.
Known(k, p) == {f \in facts : f.key = k /\ AtOrBefore(f.sequence, p)}

AsOf(k, p) ==
    IF Known(k, p) = {} THEN Absent
    ELSE (CHOOSE f \in Known(k, p) :
             \A g \in Known(k, p) : AtOrBefore(g.sequence, f.sequence)).content

Init ==
    /\ facts = {}
    /\ answers = [q \in Keys \X Points |-> Absent]

\* The sources change; readers do not see it yet.
Revise ==
    /\ \A f, g \in facts' : f.key = g.key /\ f.sequence = g.sequence => f = g
    /\ UNCHANGED answers

Publish ==
    /\ answers' = [q \in Keys \X Points |-> AsOf(q[1], q[2])]
    /\ UNCHANGED facts

Next == Revise \/ Publish

Spec == Init /\ [][Next]_vars
=============================================================================
