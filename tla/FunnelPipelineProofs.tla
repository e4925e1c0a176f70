------------------------ MODULE FunnelPipelineProofs ------------------------
(***************************************************************************)
(* What the funnel promises, for any activity and orders that land in any  *)
(* order.  A session's events are walked in sequence; what the walk tells  *)
(* depends on the events as a set (SessionTold), and so do the sessions,   *)
(* what later rows may change of them and the daily counts.                *)
(***************************************************************************)
EXTENDS FunnelPipeline, BasicProofs

-----------------------------------------------------------------------------
(* A session's events in sequence.                                         *)

\* Finitely many events, each with a place of its own.
Orderly(S) ==
    /\ IsFiniteSet(S)
    /\ \A e \in S : /\ e.activity_ts \in Int /\ e.ingestion_order \in Int
                    /\ \A f \in S : e.ingestion_order = f.ingestion_order => e = f

\* Before is a strict total order of them.
LEMMA BeforeOrders ==
    ASSUME NEW S, Orderly(S), NEW e \in S, NEW f \in S
    PROVE  /\ ~Before(e, e)
           /\ e = f \/ Before(e, f) \/ Before(f, e)
           /\ Before(e, f) => ~Before(f, e)
           /\ \A g \in S : Before(e, f) /\ Before(f, g) => Before(e, g)
<1> DEFINE seq(x) == <<x.activity_ts, x.ingestion_order>>
<1>1. \A x \in S : seq(x) \in Sequence
  BY DEF Orderly, Sequence, SortValue
<1>2. \A x, y \in S : seq(x) = seq(y) => x = y
  BY DEF Orderly
<1>3. \A x, y \in S : Before(x, y) <=> SeqLt(seq(x), seq(y))
  BY DEF Before
<1> HIDE DEF seq
<1>4. ~Before(e, e)
  BY <1>1, <1>3, SeqLtIrreflexive
<1>5. e = f \/ Before(e, f) \/ Before(f, e)
  BY <1>1, <1>2, <1>3, SeqLtTotal
<1>6. Before(e, f) => ~Before(f, e)
  BY <1>1, <1>3, SeqLtAsymmetric
<1>7. \A g \in S : Before(e, f) /\ Before(f, g) => Before(e, g)
  BY <1>1, <1>3, SeqLtTransitive
<1> QED
  BY <1>4, <1>5, <1>6, <1>7

LEMMA OrderlySubset ==
    ASSUME NEW S, Orderly(S), NEW T, T \subseteq S
    PROVE  Orderly(T)
BY FS_Subset DEF Orderly

\* So InSequence lists them all, each before those that follow it.
LEMMA InSequenceLists ==
    ASSUME NEW S, Orderly(S)
    PROVE  /\ Cardinality(S) \in Nat
           /\ InSequence(S) \in [1..Cardinality(S) -> S]
           /\ \A i, j \in 1..Cardinality(S) : i < j => Before(InSequence(S)[i], InSequence(S)[j])
           /\ \A e \in S : \E i \in 1..Cardinality(S) : InSequence(S)[i] = e
<1> DEFINE R == {p \in S \X S : Before(p[1], p[2])}
           n == Cardinality(S)
           s == InSequence(S)
<1>1. \A e, f \in S : <<e, f>> \in R <=> Before(e, f)
  OBVIOUS
<1> HIDE DEF R
<1>2. n \in Nat /\ IsFiniteSet(S)
  BY FS_CardinalityType DEF Orderly
<1>3. \A e, f \in S : e = f \/ <<e, f>> \in R \/ <<f, e>> \in R
  BY <1>1, BeforeOrders
<1>4. \A e, f, g \in S : <<e, f>> \in R /\ <<f, g>> \in R => <<e, g>> \in R
  BY <1>1, BeforeOrders
<1>5. PICK t : Lists(t, S, R)
  BY <1>2, <1>3, <1>4, ListExists
<1>6. t \in [1..n -> S] /\ \A i, j \in 1..n : i < j => <<t[i], t[j]>> \in R
  BY <1>5 DEF Lists
<1>7. DOMAIN t = 1..n /\ \A i, j \in DOMAIN t : i < j => Before(t[i], t[j])
  <2>1. \A i \in 1..n : t[i] \in S
    BY <1>6
  <2> HIDE DEF n
  <2> QED
    BY <1>1, <1>6, <2>1
<1>8. s \in [1..n -> S] /\ \A i, j \in DOMAIN s : i < j => Before(s[i], s[j])
  BY <1>6, <1>7 DEF InSequence
<1> HIDE DEF s
<1>9. \A i, j \in 1..n : i < j => <<s[i], s[j]>> \in R
  <2>1. \A i \in 1..n : s[i] \in S /\ i \in DOMAIN s
    BY <1>8
  <2> QED
    BY <1>1, <1>8, <2>1
<1>10. Lists(s, S, R)
  BY <1>8, <1>9 DEF Lists
<1>11. \A e \in S : <<e, e>> \notin R
  BY <1>1, BeforeOrders
<1>12. \A e \in S : \E i \in 1..n : s[i] = e
  BY <1>2, <1>10, <1>11, ListsAll
<1>13. \A i, j \in 1..n : i < j => Before(s[i], s[j])
  BY <1>8
<1> QED
  BY <1>2, <1>8, <1>12, <1>13 DEF s

-----------------------------------------------------------------------------
(* The walk over them.                                                     *)

Stages == StageNone..StageConverted
ProgressType == [stage : Stages, regressed : BOOLEAN, last_cart_add : Int \cup {Null}]

LEMMA MaxOfTwo ==
    ASSUME NEW a \in Int, NEW b \in Int
    PROVE  Max({a, b}) = IF a >= b THEN a ELSE b
<1> DEFINE m == IF a >= b THEN a ELSE b
<1>1. m \in {a, b} /\ \A y \in {a, b} : m >= y
  OBVIOUS
<1>2. \A x \in {a, b} : (\A y \in {a, b} : x >= y) => x = m
  OBVIOUS
<1> HIDE DEF m
<1>3. Max({a, b}) = m
  BY <1>1, <1>2 DEF Max
<1> QED
  BY <1>3 DEF m

LEMMA ReachedIs ==
    ASSUME NEW stage \in Stages, NEW type
    PROVE  Reached(stage, type)
             = IF type \in BrowseEvents THEN (IF stage >= StageBrowse THEN stage ELSE StageBrowse)
               ELSE IF type = CartAdd THEN (IF stage >= StageCart THEN stage ELSE StageCart)
               ELSE stage
<1>1. CartAdd \notin BrowseEvents
  BY DEF CartAdd, BrowseEvents
<1>2. stage \in Int /\ StageBrowse \in Int /\ StageCart \in Int
  BY DEF Stages, StageNone, StageBrowse, StageCart, StageConverted
<1>3. /\ Max({stage, StageBrowse}) = IF stage >= StageBrowse THEN stage ELSE StageBrowse
      /\ Max({stage, StageCart}) = IF stage >= StageCart THEN stage ELSE StageCart
  BY <1>2, MaxOfTwo
<1>4. CASE type \in BrowseEvents
  BY <1>1, <1>3, <1>4 DEF Reached
<1>5. CASE type = CartAdd
  BY <1>1, <1>3, <1>5 DEF Reached
<1>6. CASE type \notin BrowseEvents /\ type # CartAdd
  BY <1>6 DEF Reached
<1> QED
  BY <1>4, <1>5, <1>6

LEMMA ProgressTyped ==
    ASSUME NEW p \in ProgressType, NEW e, e.activity_ts \in Int
    PROVE  Progress(p, e) \in ProgressType
<1>1. Reached(p.stage, e.activity_type) \in Stages
  BY ReachedIs DEF ProgressType, Stages, StageNone, StageBrowse, StageCart, StageConverted
<1>2. Regressed(p, e.activity_type) \in BOOLEAN
  BY DEF Regressed, ProgressType
<1> HIDE DEF Stages
<1> QED
  BY <1>1, <1>2 DEF Progress, ProgressType

\* p goes through the events of s, one by one.
Walks(p, s, n) ==
    /\ p[0] = NotStarted
    /\ \A i \in 1..n : p[i - 1] \in ProgressType /\ p[i] = Progress(p[i - 1], s[i])
    /\ p[n] = FoldLeft(Progress, NotStarted, s) /\ p[n] \in ProgressType

\* The fold is the end of a walk, event by event.
LEMMA WalkExists ==
    ASSUME NEW n \in Nat, NEW E, NEW s \in [1..n -> E], \A e \in E : e.activity_ts \in Int
    PROVE  \E p : Walks(p, s, n)
<1> DEFINE I == 1..n
           step == [x \in ProgressType \X I |-> Progress(x[1], s[x[2]])]
           It(g) == [t \in SUBSET I |-> IF t = {} THEN NotStarted
                       ELSE Progress(g[t \ {Highest(t)}], s[Highest(t)])]
           g == CHOOSE h : h = It(h)
<1>1. IsFiniteSet(I) /\ \A t \in SUBSET I : t # {} => Highest(t) \in t
  <2>1. IsFiniteSet(I)
    BY FS_Interval
  <2>2. \A t \in SUBSET I : t # {} => Highest(t) \in t
    BY HighestIn
  <2> QED
    BY <2>1, <2>2
<1>2. NotStarted \in ProgressType
  BY DEF NotStarted, ProgressType, Stages, StageNone, StageConverted
<1>3. step \in [ProgressType \X I -> ProgressType]
  <2>1. \A q \in ProgressType, i \in I : Progress(q, s[i]) \in ProgressType
    BY ProgressTyped
  <2> QED
    BY <2>1
<1>4. \A q \in ProgressType, i \in I : step[<<q, i>>] = Progress(q, s[i])
  OBVIOUS
<1> HIDE DEF step, I
<1>5. PICK h : FoldsUp(h, NotStarted, step, I)
  BY <1>1, FoldsExist
<1>6. \A t \in SUBSET I : h[t] \in ProgressType
  BY <1>1, <1>2, <1>3, <1>5, FoldsStay
<1>7. \A t \in SUBSET I : t # {} =>
          step[<<h[t \ {Highest(t)}], Highest(t)>>] = Progress(h[t \ {Highest(t)}], s[Highest(t)])
  <2> TAKE t \in SUBSET I
  <2> HAVE t # {}
  <2>1. Highest(t) \in I /\ t \ {Highest(t)} \in SUBSET I
    BY <1>1
  <2>2. h[t \ {Highest(t)}] \in ProgressType
    BY <1>6, <2>1
  <2> QED
    BY <1>4, <2>1, <2>2
<1>8. h = It(h)
  BY <1>5, <1>7 DEF FoldsUp
<1> HIDE DEF It
<1>9. g = It(g)
  BY <1>8
<1>10. FoldLeft(Progress, NotStarted, s) = g[I]
  <2>1. DOMAIN s = I
    BY DEF I
  <2> QED
    BY <2>1 DEF FoldLeft, MapThenFoldSet, Max, Highest, It
<1> HIDE DEF g
<1> DEFINE p == [i \in 0..n |-> g[1..i]]
           Good == {i \in 0..n : p[i] \in ProgressType}
<1>11. p[0] = NotStarted
  <2>1. 1..0 = {} /\ {} \in SUBSET I
    OBVIOUS
  <2>2. g[{}] = It(g)[{}]
    BY <1>9
  <2>3. It(g)[{}] = NotStarted
    BY <2>1 DEF It
  <2> QED
    BY <2>1, <2>2, <2>3
<1>12. \A i \in 1..n : p[i] = Progress(p[i - 1], s[i])
  <2> TAKE i \in 1..n
  <2> DEFINE t == 1..i
  <2>1. t \in SUBSET I /\ t # {}
    <3>1. i \in t /\ \A x \in t : x \in I
      BY DEF I
    <3> QED
      BY <3>1
  <2>2. Highest(t) = i /\ t \ {Highest(t)} = 1..(i - 1)
    BY HighestUpTo
  <2> HIDE DEF t
  <2>3. g[t] = It(g)[t]
    BY <1>9
  <2>4. It(g)[t] = Progress(g[t \ {Highest(t)}], s[Highest(t)])
    BY <2>1 DEF It
  <2>5. p[i] = g[t] /\ p[i - 1] = g[1..(i - 1)]
    BY DEF t
  <2> QED
    BY <2>2, <2>3, <2>4, <2>5
<1>13. p[n] = g[I]
  BY DEF I
<1> HIDE DEF p
<1>14. 0 \in Good /\ \A i \in 0..n : i \in Good /\ i < n => i + 1 \in Good
  <2>1. 0 \in Good
    BY <1>2, <1>11
  <2>2. ASSUME NEW i \in 0..n, i \in Good, i < n PROVE i + 1 \in Good
    <3>1. i + 1 \in 1..n /\ (i + 1) - 1 = i
      BY <2>2
    <3>2. p[i + 1] = Progress(p[i], s[i + 1]) /\ p[i] \in ProgressType /\ s[i + 1] \in E
      BY <1>12, <2>2, <3>1
    <3>3. p[i + 1] \in ProgressType
      BY <3>2, ProgressTyped
    <3> QED
      BY <3>1, <3>3
  <2> QED
    BY <2>1, <2>2
<1> HIDE DEF Good
<1>15. 0..n \subseteq Good
  BY <1>14, InductionUpTo
<1>16. p[n] \in ProgressType /\ \A i \in 1..n : p[i - 1] \in ProgressType
  BY <1>15 DEF Good
<1>17. Walks(p, s, n)
  BY <1>10, <1>11, <1>12, <1>13, <1>16 DEF Walks
<1> QED
  BY <1>17

Adds(s, i) == {j \in 1..i : s[j].activity_type = CartAdd}
Browses(s, i) == {j \in 1..i : s[j].activity_type \in BrowseEvents}
Removes(s, i) == {j \in 1..i : s[j].activity_type = CartRemove}

\* What is known after i events.
Walked(p, s, i) ==
    /\ p.stage = IF Adds(s, i) # {} THEN StageCart
                 ELSE IF Browses(s, i) # {} THEN StageBrowse ELSE StageNone
    /\ p.regressed <=> \E r \in Removes(s, i) : /\ Adds(s, i) # {}
                                                /\ \A a \in Adds(s, i) : a < r
    /\ IF Adds(s, i) = {} THEN p.last_cart_add = Null
       ELSE \E a \in Adds(s, i) : /\ \A b \in Adds(s, i) : b <= a
                                  /\ p.last_cart_add = s[a].activity_ts

LEMMA WalkOn ==
    ASSUME NEW n \in Nat, NEW s, NEW i \in 1..n, NEW p \in ProgressType, Walked(p, s, i - 1)
    PROVE  Walked(Progress(p, s[i]), s, i)
<1> DEFINE A == Adds(s, i - 1)
           B == Browses(s, i - 1)
           R == Removes(s, i - 1)
           type == s[i].activity_type
           q == Progress(p, s[i])
<1>1. /\ Adds(s, i) = IF type = CartAdd THEN A \cup {i} ELSE A
      /\ Browses(s, i) = IF type \in BrowseEvents THEN B \cup {i} ELSE B
      /\ Removes(s, i) = IF type = CartRemove THEN R \cup {i} ELSE R
  <2>1. 1..i = (1..(i - 1)) \cup {i} /\ i \notin 1..(i - 1)
    OBVIOUS
  <2>2. Adds(s, i) = IF type = CartAdd THEN A \cup {i} ELSE A
    BY <2>1 DEF Adds
  <2>3. Browses(s, i) = IF type \in BrowseEvents THEN B \cup {i} ELSE B
    BY <2>1 DEF Browses
  <2>4. Removes(s, i) = IF type = CartRemove THEN R \cup {i} ELSE R
    BY <2>1 DEF Removes
  <2> QED
    BY <2>2, <2>3, <2>4
<1>2. \A j \in A \cup B \cup R : j \in Int /\ j < i
  BY DEF Adds, Browses, Removes
<1>3. /\ p.stage = IF A # {} THEN StageCart ELSE IF B # {} THEN StageBrowse ELSE StageNone
      /\ p.regressed <=> \E r \in R : A # {} /\ \A a \in A : a < r
      /\ IF A = {} THEN p.last_cart_add = Null
         ELSE \E a \in A : (\A b \in A : b <= a) /\ p.last_cart_add = s[a].activity_ts
  BY DEF Walked
<1>4. CartAdd \notin BrowseEvents /\ CartRemove \notin BrowseEvents /\ CartAdd # CartRemove
  BY DEF CartAdd, CartRemove, BrowseEvents
<1>5. p.stage \in Stages /\ p.regressed \in BOOLEAN /\ i \in Int
  BY DEF ProgressType
<1> HIDE DEF A, B, R
<1>6. /\ q.stage = Reached(p.stage, type)
      /\ q.regressed = Regressed(p, type)
      /\ q.last_cart_add = IF type = CartAdd THEN s[i].activity_ts ELSE p.last_cart_add
  BY DEF Progress
<1> HIDE DEF q
<1>7. q.stage = IF Adds(s, i) # {} THEN StageCart
                ELSE IF Browses(s, i) # {} THEN StageBrowse ELSE StageNone
  <2>1. q.stage = IF type \in BrowseEvents
                  THEN (IF p.stage >= StageBrowse THEN p.stage ELSE StageBrowse)
                  ELSE IF type = CartAdd
                       THEN (IF p.stage >= StageCart THEN p.stage ELSE StageCart)
                       ELSE p.stage
    BY <1>5, <1>6, ReachedIs
  <2> HIDE DEF type
  <2> QED
    BY <1>1, <1>3, <1>4, <2>1 DEF StageNone, StageBrowse, StageCart
<1>8. q.regressed <=> \E r \in Removes(s, i) : /\ Adds(s, i) # {}
                                               /\ \A a \in Adds(s, i) : a < r
  <2>0. p.stage >= StageCart <=> A # {}
    BY <1>3 DEF StageNone, StageBrowse, StageCart
  <2>00. q.regressed <=> \/ p.regressed /\ type # CartAdd
                         \/ type = CartRemove /\ A # {}
    BY <1>6, <2>0 DEF Regressed
  <2> HIDE DEF type
  <2>1. CASE type = CartAdd
    <3>1. Adds(s, i) = A \cup {i} /\ Removes(s, i) = R
      BY <1>1, <1>4, <2>1
    <3>2. \A r \in R : ~(i < r)
      BY <1>2, <1>5
    <3>3. ~q.regressed
      BY <1>4, <2>00, <2>1
    <3> QED
      BY <3>1, <3>2, <3>3
  <2>2. CASE type = CartRemove
    <3>1. Adds(s, i) = A /\ Removes(s, i) = R \cup {i}
      BY <1>1, <1>4, <2>2
    <3>2. \A a \in A : a < i
      BY <1>2
    <3>3. q.regressed <=> p.regressed \/ A # {}
      BY <1>4, <2>00, <2>2
    <3> QED
      BY <1>3, <3>1, <3>2, <3>3
  <2>3. CASE type # CartAdd /\ type # CartRemove
    BY <1>1, <1>3, <2>00, <2>3
  <2> QED
    BY <2>1, <2>2, <2>3
<1>9. IF Adds(s, i) = {} THEN q.last_cart_add = Null
      ELSE \E a \in Adds(s, i) : /\ \A b \in Adds(s, i) : b <= a
                                 /\ q.last_cart_add = s[a].activity_ts
  <2>1. CASE type = CartAdd
    <3>1. Adds(s, i) = A \cup {i}
      BY <1>1, <2>1
    <3>2. \A b \in A \cup {i} : b <= i
      BY <1>2, <1>5
    <3>3. q.last_cart_add = s[i].activity_ts
      BY <1>6, <2>1
    <3> QED
      BY <3>1, <3>2, <3>3
  <2>2. CASE type # CartAdd
    <3>1. Adds(s, i) = A /\ q.last_cart_add = p.last_cart_add
      BY <1>1, <1>6, <2>2
    <3> QED
      BY <1>3, <3>1
  <2> QED
    BY <2>1, <2>2
<1> QED
  BY <1>7, <1>8, <1>9 DEF Walked, q

OfType(E, type) == {e \in E : e.activity_type = type}
Browsing(E) == {e \in E : e.activity_type \in BrowseEvents}

\* What the contract says of a session's events as a set.
Told(p, E) ==
    /\ p.regressed \in BOOLEAN
    /\ p.stage = IF OfType(E, CartAdd) # {} THEN StageCart
                 ELSE IF Browsing(E) # {} THEN StageBrowse ELSE StageNone
    /\ p.regressed <=> \E r \in OfType(E, CartRemove) :
                           /\ \E a \in OfType(E, CartAdd) : Before(a, r)
                           /\ \A a \in OfType(E, CartAdd) : Before(a, r)
    /\ IF OfType(E, CartAdd) = {} THEN p.last_cart_add = Null
       ELSE \E a \in OfType(E, CartAdd) :
                /\ \A b \in OfType(E, CartAdd) : b = a \/ Before(b, a)
                /\ p.last_cart_add = a.activity_ts

\* The walk over a session's events in sequence ends with what they say as a set.
THEOREM SessionTold ==
    ASSUME NEW E, Orderly(E)
    PROVE  Told(FoldLeft(Progress, NotStarted, InSequence(E)), E)
<1> DEFINE n == Cardinality(E)
           s == InSequence(E)
           I == 1..n
           final == FoldLeft(Progress, NotStarted, s)
<1>1. /\ n \in Nat /\ s \in [I -> E]
      /\ \A i, j \in I : i < j => Before(s[i], s[j])
      /\ \A e \in E : \E i \in I : s[i] = e
  BY InSequenceLists
<1>2. \A e \in E : e.activity_ts \in Int
  BY DEF Orderly
<1> HIDE DEF n, s
<1>3. PICK p : /\ p[0] = NotStarted
               /\ \A i \in I : p[i - 1] \in ProgressType /\ p[i] = Progress(p[i - 1], s[i])
               /\ p[n] = final /\ p[n] \in ProgressType
  <2>1. \E p : Walks(p, s, n)
    BY <1>1, <1>2, WalkExists
  <2> QED
    BY <2>1 DEF Walks
<1> HIDE DEF final
<1> DEFINE Good == {i \in 0..n : Walked(p[i], s, i)}
<1>4. 0 \in Good
  <2>1. Adds(s, 0) = {} /\ Browses(s, 0) = {} /\ Removes(s, 0) = {}
    BY DEF Adds, Browses, Removes
  <2>2. Walked(p[0], s, 0)
    BY <1>3, <2>1 DEF Walked, NotStarted
  <2> QED
    BY <1>1, <2>2
<1>5. ASSUME NEW i \in 0..n, i \in Good, i < n PROVE i + 1 \in Good
  <2> DEFINE j == i + 1
  <2>1. j \in I /\ j - 1 = i /\ j \in 0..n
    BY <1>1, <1>5
  <2> HIDE DEF j
  <2>2. p[j - 1] \in ProgressType /\ p[j] = Progress(p[j - 1], s[j])
    BY <1>3, <2>1
  <2>3. Walked(p[j - 1], s, j - 1)
    BY <1>5, <2>1
  <2>4. Walked(Progress(p[j - 1], s[j]), s, j)
    BY <1>1, <2>1, <2>2, <2>3, WalkOn
  <2> QED
    BY <2>1, <2>2, <2>4 DEF j
<1> HIDE DEF Good
<1>6. 0..n \subseteq Good
  BY <1>1, <1>4, <1>5, InductionUpTo
<1>7. Walked(final, s, n)
  <2>1. n \in Good
    BY <1>1, <1>6
  <2> QED
    BY <1>3, <2>1 DEF Good
<1>8. \A i, j \in I : Before(s[i], s[j]) <=> i < j
  <2> TAKE i, j \in I
  <2>1. s[i] \in E /\ s[j] \in E
    BY <1>1
  <2>2. CASE i < j
    BY <1>1, <2>2
  <2>3. CASE j < i
    BY <1>1, <2>1, <2>3, BeforeOrders
  <2>4. CASE i = j
    BY <2>1, <2>4, BeforeOrders
  <2> QED
    BY <2>2, <2>3, <2>4
<1>9. /\ \A i \in I : i \in Adds(s, n) <=> s[i] \in OfType(E, CartAdd)
      /\ \A i \in I : i \in Browses(s, n) <=> s[i] \in Browsing(E)
      /\ \A i \in I : i \in Removes(s, n) <=> s[i] \in OfType(E, CartRemove)
      /\ Adds(s, n) \subseteq I /\ Browses(s, n) \subseteq I /\ Removes(s, n) \subseteq I
      /\ OfType(E, CartAdd) \subseteq E /\ Browsing(E) \subseteq E /\ OfType(E, CartRemove) \subseteq E
  BY <1>1 DEF Adds, Browses, Removes, OfType, Browsing
<1> DEFINE A == Adds(s, n)
           B == Browses(s, n)
           R == Removes(s, n)
           EA == OfType(E, CartAdd)
           EB == Browsing(E)
           ER == OfType(E, CartRemove)
<1>10. /\ final.stage = IF A # {} THEN StageCart ELSE IF B # {} THEN StageBrowse ELSE StageNone
       /\ final.regressed <=> \E r \in R : A # {} /\ \A a \in A : a < r
       /\ IF A = {} THEN final.last_cart_add = Null
          ELSE \E a \in A : (\A b \in A : b <= a) /\ final.last_cart_add = s[a].activity_ts
  BY <1>7 DEF Walked
<1>11. /\ \A i \in I : (i \in A <=> s[i] \in EA) /\ (i \in B <=> s[i] \in EB) /\ (i \in R <=> s[i] \in ER)
       /\ A \subseteq I /\ B \subseteq I /\ R \subseteq I
       /\ EA \subseteq E /\ EB \subseteq E /\ ER \subseteq E
  BY <1>9
<1> HIDE DEF A, B, R, EA, EB, ER
<1>12. (A = {} <=> EA = {}) /\ (B = {} <=> EB = {})
  BY <1>1, <1>11
<1>13. final.regressed <=> \E r \in ER : /\ \E a \in EA : Before(a, r)
                                         /\ \A a \in EA : Before(a, r)
  <2>1. ASSUME NEW r \in R, A # {}, \A a \in A : a < r
        PROVE  /\ s[r] \in ER
               /\ \E a \in EA : Before(a, s[r])
               /\ \A a \in EA : Before(a, s[r])
    <3>1. s[r] \in ER /\ r \in I
      BY <1>11
    <3>2. \A a \in EA : Before(a, s[r])
      <4> TAKE a \in EA
      <4>1. PICK i \in I : s[i] = a
        BY <1>1, <1>11
      <4> QED
        BY <1>8, <1>11, <2>1, <3>1, <4>1
    <3>3. EA # {}
      BY <1>12, <2>1
    <3> QED
      BY <3>1, <3>2, <3>3
  <2>2. ASSUME NEW r \in ER, NEW c \in EA, \A a \in EA : Before(a, r)
        PROVE  \E q \in R : A # {} /\ \A a \in A : a < q
    <3>1. PICK q \in I : s[q] = r
      BY <1>1, <1>11
    <3>2. q \in R
      BY <1>11, <3>1
    <3>3. \A a \in A : a < q
      BY <1>8, <1>11, <2>2, <3>1
    <3> QED
      BY <1>12, <3>2, <3>3
  <2> QED
    BY <1>10, <2>1, <2>2
<1>14. IF EA = {} THEN final.last_cart_add = Null
       ELSE \E a \in EA : /\ \A b \in EA : b = a \/ Before(b, a)
                          /\ final.last_cart_add = a.activity_ts
  <2>1. CASE EA = {}
    BY <1>10, <1>12, <2>1
  <2>2. CASE EA # {}
    <3>1. PICK i \in A : (\A b \in A : b <= i) /\ final.last_cart_add = s[i].activity_ts
      BY <1>10, <1>12, <2>2
    <3>2. i \in I /\ s[i] \in EA
      BY <1>11
    <3>3. \A b \in EA : b = s[i] \/ Before(b, s[i])
      <4> TAKE b \in EA
      <4>1. PICK j \in I : s[j] = b
        BY <1>1, <1>11
      <4>2. j \in A /\ j <= i
        BY <1>11, <3>1, <4>1
      <4>3. j = i \/ j < i
        BY <3>2, <4>2
      <4> QED
        BY <1>8, <3>2, <4>1, <4>3
    <3> QED
      BY <2>2, <3>1, <3>2, <3>3
  <2> QED
    BY <2>1, <2>2
<1>15. final.stage = IF EA # {} THEN StageCart ELSE IF EB # {} THEN StageBrowse ELSE StageNone
  BY <1>10, <1>12
<1>16. final.regressed \in BOOLEAN
  BY <1>3 DEF ProgressType
<1> QED
  BY <1>13, <1>14, <1>15, <1>16 DEF Told, final, s, EA, EB, ER

-----------------------------------------------------------------------------
(* The sessions.                                                           *)

\* A session of one customer is that customer's, or nobody's.
LEMMA CustomerOfGroup ==
    ASSUME NEW E, Orderly(E), E # {}, NEW c, \A e \in E : e.customer_id = c
    PROVE  CustomerOf(InSequence(E)) = c
<1> DEFINE n == Cardinality(E)
           s == InSequence(E)
           first == SelectInSeq(s, LAMBDA e : e.customer_id # Null)
           named == {i \in 1..Len(s) : s[i].customer_id # Null}
<1>1. n \in Nat /\ s \in [1..n -> E] /\ n # 0
  BY InSequenceLists
<1>2. Len(s) = n
  BY <1>1
<1>3. first = IF named # {} THEN Min(named) ELSE 0
  BY DEF SelectInSeq
<1>4. CustomerOf(s) = IF first = 0 THEN Null ELSE s[first].customer_id
  BY DEF CustomerOf
<1> HIDE DEF n, s, first
<1>5. CASE c = Null
  <2>1. named = {}
    BY <1>1, <1>2, <1>5
  <2> QED
    BY <1>3, <1>4, <1>5, <2>1 DEF s
<1>6. CASE c # Null
  <2>1. named = 1..n
    BY <1>1, <1>2, <1>6
  <2> HIDE DEF named
  <2>2. named \in SUBSET Int /\ named # {} /\ IsFiniteSet(named)
    <3>1. 1 \in named /\ 1..n \subseteq Int
      BY <1>1, <2>1
    <3>2. IsFiniteSet(1..n)
      BY <1>1, FS_Interval
    <3> QED
      BY <2>1, <3>1, <3>2
  <2>3. \E m \in named : \A x \in named : m <= x
    BY <2>2, IntLeast
  <2>4. Min(named) \in named
    BY <2>3 DEF Min
  <2>5. first \in 1..n
    BY <1>3, <2>1, <2>2, <2>4
  <2>6. s[first] \in E /\ first # 0
    BY <1>1, <2>5
  <2> QED
    BY <1>4, <2>6 DEF s
<1> QED
  BY <1>5, <1>6

Group(activity, c) == {e \in activity : e.customer_id = c}
Own(orders, c) == {o \in orders : o.customer_id = c}
Events(activity, c, id) == {e \in Group(activity, c) : e.session_id = id}

Verdict(activity, orders, c, id) ==
    Attributed(id, InSequence(Events(activity, c, id)), Own(orders, c))

RowOf(activity, orders, c, id) ==
    LET s == Verdict(activity, orders, c, id)
    IN  [session_id     |-> s.session_id,
         customer_id    |-> s.customer_id,
         stage          |-> s.stage,
         converted      |-> s.converted,
         cart_regressed |-> s.cart_regressed,
         session_date   |-> SessionDate(s, Group(activity, c))]

\* funnel_sessions has a row for the customer and the session of each event.
LEMMA SessionRows ==
    ASSUME NEW activity, NEW orders
    PROVE  /\ \A e \in activity :
                  RowOf(activity, orders, e.customer_id, e.session_id) \in FunnelSessions(activity, orders)
           /\ \A s \in FunnelSessions(activity, orders) :
                  \E e \in activity : s = RowOf(activity, orders, e.customer_id, e.session_id)
<1>1. ASSUME NEW e \in activity
      PROVE  RowOf(activity, orders, e.customer_id, e.session_id) \in FunnelSessions(activity, orders)
  <2> DEFINE c == e.customer_id
             id == e.session_id
  <2>1. e \in Group(activity, c)
    BY DEF Group
  <2>2. Verdict(activity, orders, c, id)
          \in AttributeConversions(Group(activity, c), Own(orders, c))
    BY <2>1 DEF AttributeConversions, Verdict, Events
  <2>3. RowOf(activity, orders, c, id) \in Cogroup(activity, orders, c)
    BY <2>2 DEF Cogroup, RowOf, Group, Own
  <2> QED
    BY <2>3 DEF FunnelSessions
<1>2. ASSUME NEW s \in FunnelSessions(activity, orders)
      PROVE  \E e \in activity : s = RowOf(activity, orders, e.customer_id, e.session_id)
  <2>1. PICK f \in activity : s \in Cogroup(activity, orders, f.customer_id)
    BY DEF FunnelSessions
  <2> DEFINE c == f.customer_id
  <2>2. PICK v \in AttributeConversions(Group(activity, c), Own(orders, c)) :
            s = [session_id     |-> v.session_id,
                 customer_id    |-> v.customer_id,
                 stage          |-> v.stage,
                 converted      |-> v.converted,
                 cart_regressed |-> v.cart_regressed,
                 session_date   |-> SessionDate(v, Group(activity, c))]
    BY <2>1 DEF Cogroup, Group, Own
  <2>3. PICK e \in Group(activity, c) : v = Verdict(activity, orders, c, e.session_id)
    BY DEF AttributeConversions, Verdict, Events
  <2>4. e \in activity /\ e.customer_id = c
    BY DEF Group
  <2> QED
    BY <2>2, <2>3, <2>4 DEF RowOf
<1> QED
  BY <1>1, <1>2

\* a is the last cart add of E.
LastAdd(a, E) ==
    /\ a \in OfType(E, CartAdd)
    /\ \A b \in OfType(E, CartAdd) : b = a \/ Before(b, a)

\* One of the orders is within a day of a.
Followed(a, c, orders) ==
    \E o \in orders : o.customer_id = c /\ InWindow(o, a.activity_ts)

Removed(E) ==
    \E r \in OfType(E, CartRemove) :
        /\ \E a \in OfType(E, CartAdd) : Before(a, r)
        /\ \A a \in OfType(E, CartAdd) : Before(a, r)

StageOf(E) ==
    IF OfType(E, CartAdd) # {} THEN StageCart
    ELSE IF Browsing(E) # {} THEN StageBrowse ELSE StageNone

\* What a row says, of the events of its session as a set.
LEMMA RowTells ==
    ASSUME NEW activity, Orderly(activity), NEW orders,
           NEW c, NEW id, NEW E, E = Events(activity, c, id), E # {},
           NEW r, r = RowOf(activity, orders, c, id)
    PROVE  /\ r.session_id = id /\ r.customer_id = c
           /\ r.converted \in BOOLEAN /\ r.cart_regressed \in BOOLEAN
           /\ r.converted <=> /\ c # Null
                              /\ \E a \in E : LastAdd(a, E) /\ Followed(a, c, orders)
           /\ r.stage = IF r.converted THEN StageConverted ELSE StageOf(E)
           /\ r.cart_regressed <=> Removed(E)
           /\ r.session_date \in Int
<1> DEFINE own == Own(orders, c)
           s == InSequence(E)
           p == FoldLeft(Progress, NotStarted, s)
           v == Verdict(activity, orders, c, id)
<1>1. E \subseteq activity /\ \A e \in E : e.customer_id = c
  BY DEF Events, Group
<1>2. Orderly(E)
  BY <1>1, OrderlySubset
<1>3. CustomerOf(s) = c
  BY <1>1, <1>2, CustomerOfGroup
<1>4. Told(p, E)
  BY <1>2, SessionTold
<1> DEFINE converted == /\ c # Null /\ p.last_cart_add # Null
                        /\ Converts({o \in own : o.customer_id = c}, p.last_cart_add)
<1>5. v = [session_id     |-> id,
           customer_id    |-> c,
           stage          |-> IF converted THEN StageConverted ELSE p.stage,
           converted      |-> converted,
           cart_regressed |-> p.regressed,
           last_cart_add  |-> p.last_cart_add]
  <2>1. v = Attributed(id, s, own)
    BY DEF Verdict
  <2> HIDE DEF own, s, v
  <2> QED
    BY <1>3, <2>1 DEF Attributed, s
<1>6. /\ p.stage = StageOf(E)
      /\ p.regressed \in BOOLEAN /\ (p.regressed <=> Removed(E))
      /\ IF OfType(E, CartAdd) = {} THEN p.last_cart_add = Null
         ELSE \E a \in OfType(E, CartAdd) : LastAdd(a, E) /\ p.last_cart_add = a.activity_ts
  BY <1>4 DEF Told, StageOf, Removed, LastAdd
<1>7. \A e \in activity : e.activity_ts \in Int
  BY DEF Orderly
<1> HIDE DEF p
<1>8. p.last_cart_add \in Int \cup {Null}
  BY <1>1, <1>6, <1>7 DEF OfType
<1>9. converted <=> c # Null /\ \E a \in E : LastAdd(a, E) /\ Followed(a, c, orders)
  <2>1. \A from : Converts({o \in own : o.customer_id = c}, from)
                    <=> \E o \in orders : o.customer_id = c /\ InWindow(o, from)
    BY DEF Converts, Own
  <2>2. \A a \in E : Followed(a, c, orders)
                       <=> Converts({o \in own : o.customer_id = c}, a.activity_ts)
    BY <2>1 DEF Followed
  <2>3. \A a, b \in E : LastAdd(a, E) /\ LastAdd(b, E) => a = b
    BY <1>2, BeforeOrders DEF LastAdd
  <2> HIDE DEF own
  <2>4. CASE OfType(E, CartAdd) = {}
    BY <1>6, <2>4 DEF LastAdd
  <2>5. CASE OfType(E, CartAdd) # {}
    <3>1. PICK a \in OfType(E, CartAdd) : LastAdd(a, E) /\ p.last_cart_add = a.activity_ts
      BY <1>6, <2>5
    <3>2. a \in E /\ a.activity_ts # Null
      BY <1>1, <1>7, NullAssumption DEF OfType
    <3> QED
      BY <2>2, <2>3, <3>1, <3>2
  <2> QED
    BY <2>4, <2>5
<1>13. converted \in BOOLEAN
  OBVIOUS
<1> HIDE DEF converted
<1>10. v.session_id = id /\ v.customer_id = c /\ v.last_cart_add = p.last_cart_add
       /\ v.stage = (IF converted THEN StageConverted ELSE p.stage)
       /\ v.converted = converted /\ v.cart_regressed = p.regressed
  BY <1>5
<1> HIDE DEF v
<1>11. r.session_id = id /\ r.customer_id = c
       /\ r.stage = v.stage /\ r.converted = v.converted /\ r.cart_regressed = v.cart_regressed
       /\ r.session_date = SessionDate(v, Group(activity, c))
  BY <1>10 DEF RowOf, v
<1>12. r.session_date \in Int
  <2> DEFINE G == Group(activity, c)
             f == [e \in G |-> e.activity_ts]
             T == {f[e] : e \in G}
  <2>1. G \subseteq activity /\ G # {} /\ IsFiniteSet(G)
    BY <1>1, FS_Subset DEF Group, Events, Orderly
  <2>2. f = [e \in G |-> f[e]] /\ DOMAIN f = G
    OBVIOUS
  <2>3. T = {e.activity_ts : e \in G} /\ T # {} /\ T \in SUBSET Int
    BY <1>7, <2>1
  <2> HIDE DEF f, G
  <2>4. IsFiniteSet(T)
    BY <2>1, <2>2, ImageFinite
  <2> HIDE DEF T
  <2>5. \E m \in T : \A x \in T : m <= x
    BY <2>3, <2>4, IntLeast
  <2>6. Min(T) \in Int
    BY <2>3, <2>5 DEF Min
  <2>7. SessionDate(v, G) = DayOf(IF v.last_cart_add # Null THEN v.last_cart_add ELSE Min(T))
    BY <2>3 DEF SessionDate
  <2>8. (IF v.last_cart_add # Null THEN v.last_cart_add ELSE Min(T)) \in Int
    BY <1>8, <1>10, <2>6
  <2>9. \A x \in Int : DayOf(x) \in Int
    BY FunnelAssumption DEF DayOf
  <2> QED
    BY <1>11, <2>7, <2>8, <2>9 DEF G

<1> QED
  BY <1>6, <1>9, <1>10, <1>11, <1>12, <1>13

-----------------------------------------------------------------------------
(* The invariant.                                                          *)

\* Landed rows are finitely many, each at a place of its own.
Placed ==
    /\ IsFiniteSet(landed)
    /\ \A r \in landed : \E row \in ActivityRows \cup OrderRows, i \in IngestionOrders :
           r = [row EXCEPT !.ingestion_order = i]
    /\ \A r, q \in landed : r.ingestion_order = q.ingestion_order => r = q

\* Silver is what has been read of them.
Read ==
    /\ customer_activity_valid \subseteq From(ActivityRows)
    /\ order_events_valid \subseteq From(OrderRows)

\* The tables are recomputed from silver.
Recomputed ==
    /\ sessions = FunnelSessions(customer_activity_valid, PaidOrders)
    /\ funnel_conversion_daily = FunnelDaily(sessions)

IInv == Placed /\ Read /\ Recomputed

LEMMA LandedRow ==
    ASSUME Placed, NEW r \in landed
    PROVE  /\ r.ingestion_order \in IngestionOrders /\ r.ingestion_order \in Int
           /\ [r EXCEPT !.ingestion_order = Null] \in ActivityRows => r.activity_ts \in Int
           /\ [r EXCEPT !.ingestion_order = Null] \in OrderRows => r.event_ts \in Int
<1>1. PICK row \in ActivityRows \cup OrderRows, i \in IngestionOrders :
          r = [row EXCEPT !.ingestion_order = i]
  BY DEF Placed
<1>2. DOMAIN row = ActivityColumns \/ DOMAIN row = OrderColumns
  BY LandingsAssumption
<1>3. "ingestion_order" \in DOMAIN row
  BY <1>2 DEF ActivityColumns, OrderColumns
<1>4. r.ingestion_order = i /\ DOMAIN r = DOMAIN row
  BY <1>1, <1>3
<1>5. i \in Int
  BY LandingsAssumption DEF IngestionOrders
<1> DEFINE content == [r EXCEPT !.ingestion_order = Null]
<1>6. DOMAIN content = DOMAIN r
      /\ \A c \in DOMAIN r : c # "ingestion_order" => content[c] = r[c]
  OBVIOUS
<1> HIDE DEF content
<1>7. ASSUME content \in ActivityRows PROVE r.activity_ts \in Int
  <2>1. content.activity_ts \in Int /\ "activity_ts" \in DOMAIN content
    BY <1>7, LandingsAssumption DEF ActivityColumns
  <2> QED
    BY <1>6, <2>1
<1>8. ASSUME content \in OrderRows PROVE r.event_ts \in Int
  <2>1. content.event_ts \in Int /\ "event_ts" \in DOMAIN content
    BY <1>8, LandingsAssumption DEF OrderColumns
  <2> QED
    BY <1>6, <2>1
<1> QED
  BY <1>4, <1>5, <1>7, <1>8 DEF content

LEMMA ActivityOrderly ==
    ASSUME Placed, NEW activity, activity \subseteq From(ActivityRows)
    PROVE  Orderly(activity)
<1>1. activity \subseteq landed /\ IsFiniteSet(activity)
  BY FS_Subset DEF From, Placed
<1>2. ASSUME NEW e \in activity
      PROVE  e.activity_ts \in Int /\ e.ingestion_order \in Int
  BY <1>1, LandedRow DEF From
<1> QED
  BY <1>1, <1>2 DEF Orderly, Placed

LEMMA InitIInv == Init => IInv
<1> SUFFICES ASSUME Init PROVE IInv
  OBVIOUS
<1>1. Placed
  BY FS_EmptySet DEF Init, Placed
<1>2. Read
  BY DEF Init, Read
<1>3. FunnelSessions({}, PaidOrders) = {} /\ FunnelDaily({}) = {}
  BY DEF FunnelSessions, FunnelDaily
<1>4. Recomputed
  BY <1>3 DEF Init, Recomputed
<1> QED
  BY <1>1, <1>2, <1>4 DEF IInv

LEMMA LandKeeps ==
    ASSUME IInv, NEW i \in IngestionOrders, NEW row \in ActivityRows \cup OrderRows, Land(i, row)
    PROVE  IInv' /\ landed \subseteq landed'
<1> DEFINE new == [row EXCEPT !.ingestion_order = i]
<1>1. /\ landed' = landed \cup {new}
      /\ \A r \in landed : r.ingestion_order # i
      /\ UNCHANGED <<customer_activity_valid, order_events_valid, sessions, funnel_conversion_daily>>
  BY DEF Land, silver
<1>2. "ingestion_order" \in DOMAIN row
  BY LandingsAssumption DEF ActivityColumns, OrderColumns
<1>3. new.ingestion_order = i
  BY <1>2
<1>4. \E q \in ActivityRows \cup OrderRows, j \in IngestionOrders : new = [q EXCEPT !.ingestion_order = j]
  OBVIOUS
<1> HIDE DEF new
<1>5. Placed'
  <2>1. IsFiniteSet(landed')
    BY <1>1, FS_AddElement DEF IInv, Placed
  <2>2. \A r \in landed' : \E q \in ActivityRows \cup OrderRows, j \in IngestionOrders :
            r = [q EXCEPT !.ingestion_order = j]
    BY <1>1, <1>4 DEF IInv, Placed
  <2>3. \A r, q \in landed' : r.ingestion_order = q.ingestion_order => r = q
    BY <1>1, <1>3 DEF IInv, Placed
  <2> QED
    BY <2>1, <2>2, <2>3 DEF Placed, IngestionOrders
<1>6. Read'
  BY <1>1 DEF IInv, Read, From
<1>7. Recomputed'
  BY <1>1 DEF IInv, Recomputed, PaidOrders
<1> QED
  BY <1>1, <1>5, <1>6, <1>7 DEF IInv

LEMMA UpdateKeeps ==
    ASSUME IInv, Update
    PROVE  IInv' /\ landed \subseteq landed'
<1>1. landed' = landed
  BY DEF Update
<1>2. Placed'
  BY <1>1 DEF IInv, Placed, IngestionOrders
<1>3. Read'
  BY <1>1 DEF Update, Read, From
<1>4. Recomputed'
  BY DEF Update, Recomputed
<1> QED
  BY <1>1, <1>2, <1>3, <1>4 DEF IInv

LEMMA NextIInv == IInv /\ [Next]_vars => IInv'
<1> SUFFICES ASSUME IInv, [Next]_vars PROVE IInv'
  OBVIOUS
<1>1. ASSUME NEW i \in IngestionOrders, NEW row \in ActivityRows \cup OrderRows, Land(i, row)
      PROVE  IInv'
  BY <1>1, LandKeeps
<1>2. CASE Update
  BY <1>2, UpdateKeeps
<1>3. CASE UNCHANGED vars
  BY <1>3 DEF vars, silver, IInv, Placed, Read, Recomputed, IngestionOrders, From, PaidOrders
<1> QED
  BY <1>1, <1>2, <1>3 DEF Next

LEMMA Invariant == Spec => []IInv
BY InitIInv, NextIInv, PTL DEF Spec

\* The rows of sessions, by their events.
LEMMA Sessions ==
    ASSUME IInv, NEW s \in sessions
    PROVE  \E e \in customer_activity_valid :
               /\ s = RowOf(customer_activity_valid, PaidOrders, e.customer_id, e.session_id)
               /\ s.customer_id = e.customer_id /\ s.session_id = e.session_id
               /\ EventsOf(s) = Events(customer_activity_valid, e.customer_id, e.session_id)
               /\ e \in EventsOf(s)
<1>1. PICK e \in customer_activity_valid :
          s = RowOf(customer_activity_valid, PaidOrders, e.customer_id, e.session_id)
  BY SessionRows DEF IInv, Recomputed
<1> DEFINE E == Events(customer_activity_valid, e.customer_id, e.session_id)
<1>2. e \in E
  BY DEF Events, Group
<1>3. Orderly(customer_activity_valid)
  BY ActivityOrderly DEF IInv, Read
<1> HIDE DEF E
<1>4. s.session_id = e.session_id /\ s.customer_id = e.customer_id
  <2>1. E = Events(customer_activity_valid, e.customer_id, e.session_id) /\ E # {}
    BY <1>2 DEF E
  <2> QED
    BY <1>1, <1>3, <2>1, RowTells
<1>5. EventsOf(s) = E
  BY <1>4 DEF EventsOf, E, Events, Group
<1> QED
  BY <1>1, <1>2, <1>4, <1>5 DEF E

LEMMA SessionSays ==
    ASSUME IInv, NEW s \in sessions, NEW E, E = EventsOf(s)
    PROVE  /\ E # {} /\ E \subseteq customer_activity_valid /\ Orderly(E)
           /\ s.converted \in BOOLEAN /\ s.cart_regressed \in BOOLEAN
           /\ s.converted <=> /\ s.customer_id # Null
                              /\ \E a \in E : LastAdd(a, E) /\ Followed(a, s.customer_id, PaidOrders)
           /\ s.stage = IF s.converted THEN StageConverted ELSE StageOf(E)
           /\ s.cart_regressed <=> Removed(E)
           /\ s.session_date \in Int
<1>1. PICK e \in customer_activity_valid :
          /\ s = RowOf(customer_activity_valid, PaidOrders, e.customer_id, e.session_id)
          /\ s.customer_id = e.customer_id /\ s.session_id = e.session_id
          /\ E = Events(customer_activity_valid, e.customer_id, e.session_id)
          /\ e \in E
  BY Sessions
<1>2. Orderly(customer_activity_valid)
  BY ActivityOrderly DEF IInv, Read
<1>3. E # {} /\ E \subseteq customer_activity_valid
  BY <1>1 DEF Events, Group
<1>4. Orderly(E)
  BY <1>2, <1>3, OrderlySubset
<1> QED
  BY <1>1, <1>2, <1>3, <1>4, RowTells

\* There is one row for each session of each customer.
LEMMA SessionOf ==
    ASSUME IInv, NEW e \in customer_activity_valid
    PROVE  \E s \in sessions : s.customer_id = e.customer_id /\ s.session_id = e.session_id
<1> DEFINE E == Events(customer_activity_valid, e.customer_id, e.session_id)
           s == RowOf(customer_activity_valid, PaidOrders, e.customer_id, e.session_id)
<1>1. Orderly(customer_activity_valid)
  BY ActivityOrderly DEF IInv, Read
<1>2. E # {}
  BY DEF Events, Group
<1>3. s.session_id = e.session_id /\ s.customer_id = e.customer_id
  BY <1>1, <1>2, RowTells
<1>4. s \in sessions
  BY SessionRows DEF IInv, Recomputed
<1> QED
  BY <1>3, <1>4

LEMMA SameSession ==
    ASSUME IInv, NEW s \in sessions, NEW t \in sessions,
           s.customer_id = t.customer_id, s.session_id = t.session_id
    PROVE  s = t
<1>1. PICK e \in customer_activity_valid :
          /\ s = RowOf(customer_activity_valid, PaidOrders, e.customer_id, e.session_id)
          /\ s.customer_id = e.customer_id /\ s.session_id = e.session_id
  BY Sessions
<1>2. PICK f \in customer_activity_valid :
          /\ t = RowOf(customer_activity_valid, PaidOrders, f.customer_id, f.session_id)
          /\ t.customer_id = f.customer_id /\ t.session_id = f.session_id
  BY Sessions
<1> QED
  BY <1>1, <1>2

LEMMA PaidOrdersTyped ==
    ASSUME IInv
    PROVE  \A o \in PaidOrders : o.event_ts \in Int
<1> TAKE o \in PaidOrders
<1>1. o \in landed /\ [o EXCEPT !.ingestion_order = Null] \in OrderRows
  BY DEF PaidOrders, IInv, Read, From
<1> QED
  BY <1>1, LandedRow DEF IInv

-----------------------------------------------------------------------------
(* The theorems.                                                           *)

\* The branch is well typed: stages are those of the code, each session has a day.
THEOREM TypeCorrect == Spec => []TypeOK
<1>1. IInv => TypeOK
  <2> SUFFICES ASSUME IInv PROVE TypeOK
    OBVIOUS
  <2>1. \A r \in landed : r.ingestion_order \in IngestionOrders
    BY LandedRow DEF IInv
  <2>2. customer_activity_valid \cup order_events_valid \subseteq landed
    BY DEF IInv, Read, From
  <2>3. ASSUME NEW s \in sessions
        PROVE  /\ s.stage \in StageNone..StageConverted
               /\ s.converted \in BOOLEAN /\ s.cart_regressed \in BOOLEAN
               /\ s.session_date \in Int
    <3>1. /\ s.converted \in BOOLEAN /\ s.cart_regressed \in BOOLEAN
          /\ s.stage = IF s.converted THEN StageConverted ELSE StageOf(EventsOf(s))
          /\ s.session_date \in Int
      BY SessionSays
    <3>2. s.stage \in StageNone..StageConverted
      BY <3>1 DEF StageOf, StageNone, StageBrowse, StageCart, StageConverted
    <3> QED
      BY <3>1, <3>2
  <2> QED
    BY <2>1, <2>2, <2>3 DEF TypeOK
<1> QED
  BY <1>1, Invariant, PTL

LEMMA AsDocumented ==
    ASSUME IInv
    PROVE  SessionsAsDocumented
<1> SUFFICES ASSUME NEW s \in sessions
             PROVE  LET adds    == {e \in EventsOf(s) : e.activity_type = CartAdd}
                        removes == {e \in EventsOf(s) : e.activity_type = CartRemove}
                        browsed == \E e \in EventsOf(s) : e.activity_type \in BrowseEvents
                    IN  /\ s.stage = IF s.converted THEN StageConverted
                                     ELSE IF adds # {} THEN StageCart
                                     ELSE IF browsed THEN StageBrowse ELSE StageNone
                        /\ s.cart_regressed <=>
                               \E r \in removes : /\ \E a \in adds : Before(a, r)
                                                  /\ \A a \in adds : Before(a, r)
                        /\ s.converted <=>
                               /\ s.customer_id # Null
                               /\ \E a \in adds, o \in PaidOrders :
                                      /\ \A b \in adds : b = a \/ Before(b, a)
                                      /\ o.customer_id = s.customer_id
                                      /\ o.event_ts - a.activity_ts \in 0..Window
  BY DEF SessionsAsDocumented
<1> DEFINE E == EventsOf(s)
           adds == OfType(E, CartAdd)
<1>1. /\ Orderly(E)
      /\ s.converted <=> /\ s.customer_id # Null
                         /\ \E a \in E : LastAdd(a, E) /\ Followed(a, s.customer_id, PaidOrders)
      /\ s.stage = IF s.converted THEN StageConverted ELSE StageOf(E)
      /\ s.cart_regressed <=> Removed(E)
  BY SessionSays
<1> HIDE DEF E
<1>2. /\ adds = {e \in E : e.activity_type = CartAdd}
      /\ OfType(E, CartRemove) = {e \in E : e.activity_type = CartRemove}
      /\ Browsing(E) # {} <=> \E e \in E : e.activity_type \in BrowseEvents
  BY DEF OfType, Browsing
<1>3. \A a \in adds, o \in PaidOrders :
          InWindow(o, a.activity_ts) <=> o.event_ts - a.activity_ts \in 0..Window
  <2> TAKE a \in adds, o \in PaidOrders
  <2>1. a.activity_ts \in Int /\ o.event_ts \in Int /\ Window \in Int
    BY <1>1, PaidOrdersTyped, FunnelAssumption DEF OfType, Orderly, Window
  <2> QED
    BY <2>1 DEF InWindow
<1>4. (\E a \in E : LastAdd(a, E) /\ Followed(a, s.customer_id, PaidOrders))
        <=> \E a \in adds, o \in PaidOrders :
                /\ \A b \in adds : b = a \/ Before(b, a)
                /\ o.customer_id = s.customer_id
                /\ o.event_ts - a.activity_ts \in 0..Window
  BY <1>3 DEF LastAdd, Followed, OfType
<1> HIDE DEF adds
<1>5. s.stage = IF s.converted THEN StageConverted
                ELSE IF adds # {} THEN StageCart
                ELSE IF \E e \in E : e.activity_type \in BrowseEvents THEN StageBrowse ELSE StageNone
  BY <1>1, <1>2 DEF StageOf, adds
<1>6. s.cart_regressed <=> \E r \in OfType(E, CartRemove) : /\ \E a \in adds : Before(a, r)
                                                           /\ \A a \in adds : Before(a, r)
  BY <1>1 DEF Removed, adds
<1> QED
  BY <1>1, <1>2, <1>4, <1>5, <1>6 DEF E

\* Whatever the order in which rows land, a session's stage, regression and conversion
\* are those that funnel.py gives its events as a set and its customer's PAID orders, of
\* which the contract asks besides that they count as revenue.
THEOREM AsContracted == Spec => []SessionsAsDocumented
BY Invariant, AsDocumented, PTL

\* A verdict on one customer's session needs that customer's orders only.
LEMMA OwnOrdersSuffice ==
    ASSUME NEW E, Orderly(E), E # {}, NEW c, \A e \in E : e.customer_id = c,
           NEW orders, NEW id
    PROVE  Attributed(id, InSequence(E), Own(orders, c)) = Attributed(id, InSequence(E), orders)
<1> DEFINE s == InSequence(E)
<1>1. CustomerOf(s) = c
  BY CustomerOfGroup
<1>2. {o \in Own(orders, c) : o.customer_id = c} = {o \in orders : o.customer_id = c}
  BY DEF Own
<1> HIDE DEF s
<1> QED
  BY <1>1, <1>2 DEF Attributed, s

LEMMA WholeAgree ==
    ASSUME IInv
    PROVE  WholeSessionsAgree
<1> DEFINE activity == customer_activity_valid
<1> SUFFICES ASSUME NEW whole \in AttributeConversions(activity, PaidOrders)
             PROVE  LET rows == {s \in sessions : s.session_id = whole.session_id}
                        customers == {e.customer_id :
                            e \in {f \in activity : f.session_id = whole.session_id}}
                    IN  Cardinality(customers) = 1 =>
                            \E s \in rows :
                                /\ rows = {s}
                                /\ \A field \in {"customer_id", "stage", "converted", "cart_regressed"} :
                                       s[field] = whole[field]
  BY DEF WholeSessionsAgree
<1>1. Orderly(activity)
  BY ActivityOrderly DEF IInv, Read
<1>2. PICK x \in activity :
          whole = Attributed(x.session_id, InSequence({e \in activity : e.session_id = x.session_id}),
                             PaidOrders)
  BY DEF AttributeConversions
<1> DEFINE id == x.session_id
           F == {e \in activity : e.session_id = id}
           named == [e \in F |-> e.customer_id]
           customers == {named[e] : e \in F}
           rows == {s \in sessions : s.session_id = id}
<1>3. whole.session_id = id
  BY <1>2 DEF Attributed
<1>4. customers = {e.customer_id : e \in {f \in activity : f.session_id = whole.session_id}}
  BY <1>3
<1> SUFFICES ASSUME Cardinality(customers) = 1
             PROVE  \E s \in rows :
                        /\ rows = {s}
                        /\ \A field \in {"customer_id", "stage", "converted", "cart_regressed"} :
                               s[field] = whole[field]
  BY <1>3, <1>4
<1>5. F \subseteq activity /\ x \in F
  OBVIOUS
<1>6. Orderly(F)
  BY <1>1, <1>5, OrderlySubset
<1>7. \A e \in F : e.customer_id \in customers
  OBVIOUS
<1>8. IsFiniteSet(customers)
  <2>1. IsFiniteSet(F) /\ DOMAIN named = F /\ named = [e \in F |-> named[e]]
    BY <1>6 DEF Orderly
  <2> HIDE DEF named, F
  <2> QED
    BY <2>1, ImageFinite
<1> HIDE DEF customers
<1>9. PICK c : customers = {c}
  BY <1>8, FS_Singleton
<1>10. \A e \in F : e.customer_id = c
  BY <1>7, <1>9
<1>11. F = Events(activity, c, id)
  BY <1>10 DEF Events, Group
<1>12. x.customer_id = c
  BY <1>5, <1>10
<1> HIDE DEF F
<1> DEFINE s == RowOf(activity, PaidOrders, c, id)
<1>13. s \in sessions
  BY <1>12, SessionRows DEF IInv, Recomputed
<1>14. s.session_id = id /\ s.customer_id = c
  BY <1>1, <1>5, <1>11, RowTells
<1>15. Verdict(activity, PaidOrders, c, id) = whole
  <2>1. whole = Attributed(id, InSequence(F), PaidOrders)
    BY <1>2 DEF F
  <2>2. Verdict(activity, PaidOrders, c, id) = Attributed(id, InSequence(F), Own(PaidOrders, c))
    BY <1>11 DEF Verdict
  <2> QED
    BY <1>5, <1>6, <1>10, <2>1, <2>2, OwnOrdersSuffice
<1>16. /\ s.customer_id = whole.customer_id /\ s.stage = whole.stage
       /\ s.converted = whole.converted /\ s.cart_regressed = whole.cart_regressed
  BY <1>15 DEF RowOf
<1> HIDE DEF s
<1>17. \A t \in rows : t = s
  <2> TAKE t \in rows
  <2>1. PICK e \in activity : t.customer_id = e.customer_id /\ t.session_id = e.session_id
    BY Sessions
  <2>2. e \in F
    BY <2>1 DEF F
  <2> QED
    BY <1>10, <1>13, <1>14, <2>1, <2>2, SameSession
<1>18. s \in rows /\ rows = {s}
  BY <1>13, <1>14, <1>17
<1> QED
  BY <1>16, <1>18

\* A session whose events all name one customer, or none, is one row, with the verdict of
\* the oracle over everything: grouping by customer loses nothing (ADR-0011).
THEOREM WholeSessionsAsOracle == Spec => []WholeSessionsAgree
BY Invariant, WholeAgree, PTL

\* A step takes away no activity and no order, and leaves each session its row.
LEMMA OnlyMore ==
    ASSUME IInv, [Next]_vars
    PROVE  /\ customer_activity_valid \subseteq customer_activity_valid'
           /\ PaidOrders \subseteq PaidOrders'
<1>1. CASE Update
  <2>1. From(ActivityRows)' = From(ActivityRows) /\ From(OrderRows)' = From(OrderRows)
    BY <1>1 DEF Update, From
  <2> QED
    BY <1>1, <2>1 DEF Update, IInv, Read, PaidOrders
<1>2. ASSUME NEW i \in IngestionOrders, NEW row \in ActivityRows \cup OrderRows, Land(i, row)
      PROVE  UNCHANGED silver
  BY <1>2 DEF Land
<1>3. CASE UNCHANGED silver
  BY <1>3 DEF silver, PaidOrders
<1> QED
  BY <1>1, <1>2, <1>3 DEF Next, vars

EventsHaveRows ==
    \A e \in customer_activity_valid :
        \E s \in sessions : s.customer_id = e.customer_id /\ s.session_id = e.session_id

RowsHaveEvents == \A s \in sessions : EventsOf(s) # {}

\* What the action properties need of a state.
Facts ==
    /\ SessionsAsDocumented /\ EventsHaveRows /\ RowsHaveEvents
    /\ Orderly(customer_activity_valid)

LEMMA FactsHold == IInv => Facts
<1> SUFFICES ASSUME IInv PROVE Facts
  OBVIOUS
<1>1. EventsHaveRows
  BY SessionOf DEF EventsHaveRows
<1>2. RowsHaveEvents
  BY Sessions DEF RowsHaveEvents
<1>3. Orderly(customer_activity_valid)
  BY ActivityOrderly DEF IInv, Read
<1> QED
  BY <1>1, <1>2, <1>3, AsDocumented DEF Facts

\* What a session has reached short of conversion is never taken back, by no row that
\* lands later and at no place of the sequence.
THEOREM StagesNeverFall == Spec => StageNeverFalls
<1> DEFINE Kept == \A s \in sessions : \E t \in sessions' :
                      /\ t.session_id = s.session_id /\ t.customer_id = s.customer_id
                      /\ s.stage <= t.stage \/ t.stage >= StageCart
<1>1. IInv /\ Facts /\ Facts' /\ [Next]_vars => [Kept]_vars
  <2> SUFFICES ASSUME IInv, Facts, Facts', [Next]_vars, NEW s \in sessions
               PROVE  \E t \in sessions' :
                          /\ t.session_id = s.session_id /\ t.customer_id = s.customer_id
                          /\ s.stage <= t.stage \/ t.stage >= StageCart
    OBVIOUS
  <2> DEFINE E == {e \in customer_activity_valid :
                      e.session_id = s.session_id /\ e.customer_id = s.customer_id}
  <2>1. E = EventsOf(s) /\ E # {}
    BY DEF EventsOf, Facts, RowsHaveEvents
  <2>2. PICK e \in customer_activity_valid :
            s.customer_id = e.customer_id /\ s.session_id = e.session_id
    BY <2>1
  <2>3. customer_activity_valid \subseteq customer_activity_valid'
    BY OnlyMore
  <2>4. PICK t \in sessions' : t.customer_id = s.customer_id /\ t.session_id = s.session_id
    BY <2>2, <2>3 DEF Facts, EventsHaveRows
  <2> DEFINE F == {f \in customer_activity_valid' :
                      f.session_id = t.session_id /\ f.customer_id = t.customer_id}
  <2>5. E \subseteq F
    BY <2>3, <2>4
  <2>6. s.stage = IF s.converted THEN StageConverted
                  ELSE IF {x \in E : x.activity_type = CartAdd} # {} THEN StageCart
                  ELSE IF \E x \in E : x.activity_type \in BrowseEvents THEN StageBrowse
                  ELSE StageNone
    BY DEF Facts, SessionsAsDocumented, EventsOf
  <2>7. s.converted => {x \in E : x.activity_type = CartAdd} # {}
    BY DEF Facts, SessionsAsDocumented, EventsOf
  <2>8. t.stage = IF t.converted THEN StageConverted
                  ELSE IF {x \in F : x.activity_type = CartAdd} # {} THEN StageCart
                  ELSE IF \E x \in F : x.activity_type \in BrowseEvents THEN StageBrowse
                  ELSE StageNone
    BY DEF Facts, SessionsAsDocumented, EventsOf
  <2> HIDE DEF E, F
  <2>9. s.stage <= t.stage \/ t.stage >= StageCart
    BY <2>5, <2>6, <2>7, <2>8 DEF StageNone, StageBrowse, StageCart, StageConverted
  <2> QED
    BY <2>4, <2>9
<1> QED
  BY <1>1, Invariant, FactsHold, PTL DEF Spec, StageNeverFalls

\* A conversion is lost only to a cart add of its session that is later than all that
\* were known: neither to an earlier event nor to any order.
THEOREM ConversionsLast == Spec => ConversionLostToCartAdd
<1> DEFINE Kept == \A s \in sessions, t \in sessions' :
                      /\ t.session_id = s.session_id /\ t.customer_id = s.customer_id
                      /\ s.converted /\ ~t.converted
                      => \E e \in customer_activity_valid' :
                            /\ e.session_id = s.session_id /\ e.customer_id = s.customer_id
                            /\ e.activity_type = CartAdd
                            /\ \A f \in EventsOf(s) : f.activity_type = CartAdd => Before(f, e)
<1>1. IInv /\ Facts /\ Facts' /\ [Next]_vars => [Kept]_vars
  <2> SUFFICES ASSUME IInv, Facts, Facts', [Next]_vars, NEW s \in sessions, NEW t \in sessions',
                      t.session_id = s.session_id, t.customer_id = s.customer_id,
                      s.converted, ~t.converted
               PROVE  \E e \in customer_activity_valid' :
                          /\ e.session_id = s.session_id /\ e.customer_id = s.customer_id
                          /\ e.activity_type = CartAdd
                          /\ \A f \in EventsOf(s) : f.activity_type = CartAdd => Before(f, e)
    OBVIOUS
  <2> DEFINE E == {e \in customer_activity_valid :
                      e.session_id = s.session_id /\ e.customer_id = s.customer_id}
             F == {f \in customer_activity_valid' :
                      f.session_id = t.session_id /\ f.customer_id = t.customer_id}
             EA == {e \in E : e.activity_type = CartAdd}
             FA == {e \in F : e.activity_type = CartAdd}
  <2>1. E \subseteq F /\ PaidOrders \subseteq PaidOrders' /\ EA \subseteq FA
    BY OnlyMore
  <2>2. /\ s.customer_id # Null
        /\ \E a \in EA, o \in PaidOrders :
               /\ \A b \in EA : b = a \/ Before(b, a)
               /\ o.customer_id = s.customer_id
               /\ o.event_ts - a.activity_ts \in 0..Window
    BY DEF Facts, SessionsAsDocumented, EventsOf
  <2>3. ~\E a \in FA, o \in PaidOrders' :
            /\ \A b \in FA : b = a \/ Before(b, a)
            /\ o.customer_id = t.customer_id
            /\ o.event_ts - a.activity_ts \in 0..Window
    BY <2>2 DEF Facts, SessionsAsDocumented, EventsOf
  <2>4. Orderly(F)
    BY OrderlySubset DEF Facts
  <2>5. FA = OfType(F, CartAdd) /\ FA \subseteq F
    BY DEF OfType
  <2>6. E = EventsOf(s) /\ \A e \in F : e \in customer_activity_valid'
           /\ e.session_id = s.session_id /\ e.customer_id = s.customer_id
    BY DEF EventsOf
  <2>7. \A f \in E : f.activity_type = CartAdd => f \in EA
    OBVIOUS
  <2>8. \A f \in EA : f \in E
    OBVIOUS
  <2>9. \A f \in FA : f.activity_type = CartAdd
    OBVIOUS
  <2> HIDE DEF E, F, EA, FA
  <2>10. PICK a \in EA, o \in PaidOrders :
             /\ \A b \in EA : b = a \/ Before(b, a)
             /\ o.customer_id = s.customer_id
             /\ o.event_ts - a.activity_ts \in 0..Window
    BY <2>2
  <2>11. PICK e \in FA : \A b \in FA : b = e \/ Before(b, e)
    <3>1. FA # {}
      BY <2>1, <2>10
    <3> QED
      BY <2>4, <2>5, <3>1, SessionTold DEF Told
  <2>12. e # a
    BY <2>1, <2>3, <2>10, <2>11
  <2>13. Before(a, e) /\ ~Before(e, a)
    <3>1. a \in FA /\ a \in F /\ e \in F
      BY <2>1, <2>5, <2>10
    <3> QED
      BY <2>4, <2>11, <2>12, <3>1, BeforeOrders
  <2>14. e \notin EA
    BY <2>10, <2>12, <2>13
  <2>15. \A f \in EA : Before(f, e)
    BY <2>1, <2>11, <2>14
  <2> QED
    BY <2>5, <2>6, <2>7, <2>9, <2>15
<1> QED
  BY <1>1, Invariant, FactsHold, PTL DEF Spec, ConversionLostToCartAdd

-----------------------------------------------------------------------------
(* The daily counts.                                                       *)

\* The sum that the property takes is a sum.
LEMMA SessionTotals ==
    ASSUME NEW S, IsFiniteSet(S)
    PROVE  MapThenSumSet(LAMBDA d : d.sessions, S) = SumOver([d \in S |-> d.sessions], S)
<1> DEFINE val == [d \in S |-> d.sessions]
           It(g) == [s \in SUBSET S |->
                       IF s = {} THEN 0
                       ELSE Chosen(s).sessions + g[s \ {Chosen(s)}]]
           g == CHOOSE h : h = It(h)
<1>1. PICK h : AddsUp(h, val, S)
  BY SumsExist
<1>2. \A s \in SUBSET S : s # {} => val[Chosen(s)] = Chosen(s).sessions
  <2>1. \A s \in SUBSET S : s # {} => Chosen(s) \in S
    BY PickIn
  <2> QED
    BY <2>1
<1> HIDE DEF val
<1>3. \A k : AddsUp(k, val, S) <=> k = It(k)
  BY <1>2 DEF AddsUp
<1> HIDE DEF It
<1>4. g = It(g)
  BY <1>1, <1>3
<1>5. AddsUp(g, val, S)
  BY <1>3, <1>4
<1>6. MapThenSumSet(LAMBDA d : d.sessions, S) = g[S]
  BY DEF MapThenSumSet, MapThenFoldSet, Chosen, It
<1> QED
  BY <1>5, <1>6, SumFound DEF val

OfDay(rows, d) == {s \in rows : s.session_date = d}

DayRow(rows, d) ==
    [session_date |-> d,
     sessions  |-> Cardinality(OfDay(rows, d)),
     carted    |-> Cardinality({s \in OfDay(rows, d) : s.stage >= StageCart}),
     converted |-> Cardinality({s \in OfDay(rows, d) : s.converted})]

Days(rows) == {s.session_date : s \in rows}

LEMMA DailyRows ==
    ASSUME NEW rows
    PROVE  FunnelDaily(rows) = {DayRow(rows, d) : d \in Days(rows)}
BY DEF FunnelDaily, DayRow, OfDay, Days

\* Any finitely many sessions are counted once by their daily table.
LEMMA DailyCounted ==
    ASSUME NEW rows, IsFiniteSet(rows)
    PROVE  /\ IsFiniteSet(FunnelDaily(rows))
           /\ MapThenSumSet(LAMBDA d : d.sessions, FunnelDaily(rows)) = Cardinality(rows)
<1> DEFINE D == Days(rows)
           date == [s \in rows |-> s.session_date]
           part == [d \in D |-> OfDay(rows, d)]
           sums == [d \in D |-> Cardinality(part[d])]
           ones == [s \in rows |-> 1]
           f == [d \in D |-> DayRow(rows, d)]
           table == {f[d] : d \in D}
           val == [x \in table |-> x.sessions]
<1>1. IsFiniteSet(D)
  <2>1. DOMAIN date = rows /\ date = [s \in rows |-> date[s]] /\ D = {date[s] : s \in rows}
    BY DEF Days
  <2> HIDE DEF date, D
  <2> QED
    BY <2>1, ImageFinite
<1>2. FunnelDaily(rows) = table
  BY DailyRows
<1>3. /\ rows = UNION {part[d] : d \in D}
      /\ \A d \in D : part[d] \subseteq rows
      /\ \A d, e \in D : part[d] \cap part[e] # {} => d = e
  <2>1. \A d \in D : \A s : s \in part[d] <=> s \in rows /\ s.session_date = d
    BY DEF OfDay
  <2>2. \A s \in rows : s.session_date \in D
    BY DEF Days
  <2> HIDE DEF part, D
  <2> QED
    BY <2>1, <2>2
<1>4. \A s \in rows : ones[s] = 1
  OBVIOUS
<1>5. \A d \in D : /\ sums[d] = Cardinality(part[d])
                   /\ f[d].session_date = d /\ f[d].sessions = Cardinality(part[d])
  BY DEF DayRow
<1>6. f = [d \in D |-> f[d]] /\ DOMAIN f = D
  OBVIOUS
<1>7. \A d \in D : val[f[d]] = f[d].sessions
  OBVIOUS
<1> HIDE DEF D, part, sums, ones, f
<1>8. \A d \in D : IsFiniteSet(part[d]) /\ Cardinality(part[d]) \in Int
  <2> TAKE d \in D
  <2>1. IsFiniteSet(part[d])
    BY <1>3, FS_Subset
  <2> QED
    BY <2>1, FS_CardinalityType
<1>9. \A d \in D : sums[d] = SumOver(ones, part[d])
  <2> TAKE d \in D
  <2>1. \A s \in part[d] : ones[s] = 1
    BY <1>3, <1>4
  <2>2. SumOver(ones, part[d]) = Cardinality(part[d])
    BY <1>8, <2>1, SumOnes
  <2> QED
    BY <1>5, <2>2
<1>10. SumOver(sums, D) = SumOver(ones, rows)
  <2>1. \A s \in rows : ones[s] \in Int
    BY <1>4
  <2>2. /\ IsFiniteSet(D) /\ IsFiniteSet(rows) /\ rows = UNION {part[d] : d \in D}
        /\ \A d, e \in D : part[d] \cap part[e] # {} => d = e
        /\ \A d \in D : sums[d] = SumOver(ones, part[d])
    BY <1>1, <1>3, <1>9
  <2> QED
    BY <2>1, <2>2, SumParts, SMTT(60)
<1>11. SumOver(ones, rows) = Cardinality(rows)
  BY <1>4, SumOnes
<1>12. \A d, e \in D : f[d] = f[e] => d = e
  BY <1>5
<1>13. \A d \in D : sums[d] \in Int /\ val[f[d]] = sums[d]
  BY <1>5, <1>7, <1>8
<1>14. IsFiniteSet(table)
  BY <1>1, <1>6, ImageFinite
<1>15. MapThenSumSet(LAMBDA d : d.sessions, table) = SumOver(val, table)
  <2> HIDE DEF table
  <2> QED
    BY <1>14, SessionTotals
<1> HIDE DEF val
<1>16. SumOver(val, table) = SumOver(sums, D)
  BY <1>1, <1>6, <1>12, <1>13, SumImage
<1> QED
  BY <1>2, <1>10, <1>11, <1>14, <1>15, <1>16

LEMMA SessionsCounted ==
    ASSUME IInv
    PROVE  /\ IsFiniteSet(sessions)
           /\ Cardinality(sessions)
                = Cardinality({<<e.session_id, e.customer_id>> : e \in customer_activity_valid})
<1> DEFINE activity == customer_activity_valid
           g == [e \in activity |-> RowOf(activity, PaidOrders, e.customer_id, e.session_id)]
           f == [s \in sessions |-> <<s.session_id, s.customer_id>>]
           ids == {<<e.session_id, e.customer_id>> : e \in activity}
<1>1. IsFiniteSet(activity)
  BY ActivityOrderly DEF IInv, Read, Orderly
<1>2. sessions = {g[e] : e \in activity} /\ g = [e \in activity |-> g[e]] /\ DOMAIN g = activity
  <2>1. sessions = FunnelSessions(activity, PaidOrders)
    BY DEF IInv, Recomputed
  <2>2. \A e \in activity : g[e] \in sessions
    BY <2>1, SessionRows
  <2>3. \A s \in sessions : \E e \in activity : s = g[e]
    BY <2>1, SessionRows
  <2>4. g = [e \in activity |-> g[e]] /\ DOMAIN g = activity
    OBVIOUS
  <2> HIDE DEF g
  <2> QED
    BY <2>2, <2>3, <2>4
<1> HIDE DEF g
<1>3. IsFiniteSet(sessions)
  <2> HIDE DEF activity
  <2> QED
    BY <1>1, <1>2, ImageFinite
<1>4. \A s, t \in sessions : f[s] = f[t] => s = t
  BY SameSession
<1>5. f = [s \in sessions |-> f[s]] /\ DOMAIN f = sessions
  OBVIOUS
<1>6. {f[s] : s \in sessions} = ids
  <2>1. \A s \in sessions : f[s] \in ids
    BY Sessions
  <2>2. ASSUME NEW x \in ids PROVE \E s \in sessions : x = f[s]
    <3>1. PICK e \in activity : x = <<e.session_id, e.customer_id>>
      BY <2>2
    <3>2. PICK s \in sessions : s.customer_id = e.customer_id /\ s.session_id = e.session_id
      BY SessionOf
    <3> QED
      BY <3>1, <3>2
  <2> HIDE DEF f, ids
  <2> QED
    BY <2>1, <2>2
<1> HIDE DEF f, ids
<1>7. Cardinality({f[s] : s \in sessions}) = Cardinality(sessions)
  BY <1>3, <1>4, <1>5, ImageCardinality
<1> QED
  BY <1>3, <1>6, <1>7 DEF ids

LEMMA DailyCount ==
    ASSUME IInv
    PROVE  DailyCountsSessions
<1>1. funnel_conversion_daily = FunnelDaily(sessions)
  BY DEF IInv, Recomputed
<1>2. MapThenSumSet(LAMBDA d : d.sessions, funnel_conversion_daily)
        = Cardinality({<<e.session_id, e.customer_id>> : e \in customer_activity_valid})
  <2>1. MapThenSumSet(LAMBDA d : d.sessions, FunnelDaily(sessions)) = Cardinality(sessions)
    BY SessionsCounted, DailyCounted
  <2> QED
    BY <1>1, <2>1, SessionsCounted
<1>3. ASSUME NEW row \in funnel_conversion_daily
      PROVE  row.converted <= row.carted /\ row.carted <= row.sessions
  <2>1. PICK d \in Days(sessions) : row = DayRow(sessions, d)
    BY <1>1, DailyRows
  <2> DEFINE S == OfDay(sessions, d)
             T == {s \in S : s.stage >= StageCart}
             U == {s \in S : s.converted}
  <2>2. row.sessions = Cardinality(S) /\ row.carted = Cardinality(T) /\ row.converted = Cardinality(U)
    BY <2>1 DEF DayRow
  <2>3. S \subseteq sessions /\ T \subseteq S
    BY DEF OfDay
  <2>4. U \subseteq T
    <3>1. \A s \in sessions : s.converted => s.stage = StageConverted
      BY SessionSays
    <3> QED
      BY <2>3, <3>1 DEF StageCart, StageConverted
  <2> HIDE DEF S, T, U
  <2>5. IsFiniteSet(S) /\ IsFiniteSet(T)
    BY <2>3, SessionsCounted, FS_Subset
  <2>6. Cardinality(U) <= Cardinality(T) /\ Cardinality(T) <= Cardinality(S)
    BY <2>3, <2>4, <2>5, FS_Subset
  <2> QED
    BY <2>2, <2>6
<1> QED
  BY <1>2, <1>3 DEF DailyCountsSessions

\* The daily table counts every session of every customer, on one day each, and no more
\* conversions than carts or carts than sessions.
THEOREM SessionsCountedDaily == Spec => []DailyCountsSessions
BY Invariant, DailyCount, PTL
=============================================================================
