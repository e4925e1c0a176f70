---------------------------- MODULE BasicProofs -----------------------------
(***************************************************************************)
(* What the other proofs need of sequences, finite sets and sums: SeqLt is *)
(* a strict total order, nulls included, and a finite set of sequences has *)
(* a least and a greatest element; a property of finite sets may be proved *)
(* by induction; sums are what one expects of them.                        *)
(***************************************************************************)
EXTENDS Ordering, FiniteSets, FiniteSetTheorems, WellFoundedInduction, TLAPS

-----------------------------------------------------------------------------
(* The order of sequences.                                                 *)

\* No sequence sorts before itself.
LEMMA SeqLtIrreflexive ==
    ASSUME NEW s \in Sequence
    PROVE  ~SeqLt(s, s)
BY NullAssumption DEF Sequence, SortValue, SeqLt, ValueLt

\* The order is transitive.
LEMMA SeqLtTransitive ==
    ASSUME NEW s \in Sequence, NEW t \in Sequence, NEW u \in Sequence,
           SeqLt(s, t), SeqLt(t, u)
    PROVE  SeqLt(s, u)
BY NullAssumption DEF Sequence, SortValue, SeqLt, ValueLt

\* The order is asymmetric.
LEMMA SeqLtAsymmetric ==
    ASSUME NEW s \in Sequence, NEW t \in Sequence, SeqLt(s, t)
    PROVE  ~SeqLt(t, s)
BY SeqLtIrreflexive, SeqLtTransitive

\* Two different tuples are always ordered: with the None-safe key no pair of
\* sequences is incomparable.
LEMMA SeqLtTotal ==
    ASSUME NEW s \in Sequence, NEW t \in Sequence
    PROVE  s = t \/ SeqLt(s, t) \/ SeqLt(t, s)
<1>1. s = <<s[1], s[2]>> /\ t = <<t[1], t[2]>>
  BY DEF Sequence
<1>2. /\ s[1] \in SortValue /\ s[2] \in SortValue
      /\ t[1] \in SortValue /\ t[2] \in SortValue
  BY DEF Sequence
<1>3. \A a, b \in SortValue : a = b \/ ValueLt(a, b) \/ ValueLt(b, a)
  BY NullAssumption DEF SortValue, ValueLt
<1> QED
  BY <1>1, <1>2, <1>3 DEF SeqLt

\* A finite set that is not empty has a first element in any strict total order R
\* of it.  (Among the subsets without one take a smallest; removing an element gives
\* a set that has one, which is then compared with the element removed.)
LEMMA FirstExists ==
    ASSUME NEW S, IsFiniteSet(S), S # {}, NEW R,
           \A x, y \in S : x = y \/ <<x, y>> \in R \/ <<y, x>> \in R,
           \A x, y, z \in S : <<x, y>> \in R /\ <<y, z>> \in R => <<x, z>> \in R
    PROVE  \E m \in S : \A x \in S : x = m \/ <<m, x>> \in R
<1> DEFINE First(m, T) == m \in T /\ \A x \in T : x = m \/ <<m, x>> \in R
           Bad == {T \in SUBSET S : T # {} /\ ~\E m \in T : First(m, T)}
<1> SUFFICES ASSUME Bad # {} PROVE FALSE
  OBVIOUS
<1>1. IsWellFoundedOn(StrictSubsetOrdering(S), SUBSET S)
  <2> HIDE DEF Bad
  <2>1. FiniteSubsetsOf(S) = SUBSET S
    BY FS_FiniteSubsetsOfFinite
  <2>2. IsWellFoundedOn(StrictSubsetOrdering(S), FiniteSubsetsOf(S))
    BY FS_StrictSubsetOrderingWellFounded
  <2> QED
    BY <2>1, <2>2
<1>2. PICK T \in Bad : \A U \in Bad : <<U, T>> \notin StrictSubsetOrdering(S)
  <2>1. Bad \subseteq SUBSET S
    OBVIOUS
  <2> HIDE DEF Bad
  <2> QED
    BY <1>1, <2>1, WFMin
<1>3. T \subseteq S /\ T # {} /\ ~\E m \in T : First(m, T)
  BY <1>2
<1>4. PICK x \in T : TRUE
  BY <1>3
<1>5. T # {x}
  BY <1>3
<1>6. T \ {x} \subseteq T /\ T \ {x} # T /\ T \ {x} # {} /\ T \ {x} \in SUBSET S
  BY <1>3, <1>4, <1>5
<1>7. <<T \ {x}, T>> \in StrictSubsetOrdering(S)
  BY <1>6, <1>3 DEF StrictSubsetOrdering
<1>8. PICK m \in T \ {x} : First(m, T \ {x})
  BY <1>6, <1>7, <1>2
<1>9. x \in S /\ m \in S /\ m # x
  BY <1>3, <1>4
<1>10. CASE <<m, x>> \in R
  <2>1. First(m, T)
    BY <1>8, <1>10
  <2> QED
    BY <2>1, <1>3
<1>11. CASE <<x, m>> \in R
  <2>1. ASSUME NEW y \in T PROVE y = x \/ <<x, y>> \in R
    BY <1>3, <1>8, <1>9, <1>11
  <2>2. First(x, T)
    BY <2>1, <1>4
  <2> QED
    BY <2>2, <1>3
<1> QED
  BY <1>9, <1>10, <1>11

\* So a finite set of sequences that is not empty has a least element,
LEMMA LeastExists ==
    ASSUME NEW S \in SUBSET Sequence, IsFiniteSet(S), S # {}
    PROVE  \E m \in S : IsLeast(m, S)
<1> DEFINE R == {p \in Sequence \X Sequence : SeqLt(p[1], p[2])}
<1>1. \A x, y \in S : <<x, y>> \in R <=> SeqLt(x, y)
  OBVIOUS
<1> HIDE DEF R
<1>2. \A x, y \in S : x = y \/ <<x, y>> \in R \/ <<y, x>> \in R
  BY <1>1, SeqLtTotal
<1>3. \A x, y, z \in S : <<x, y>> \in R /\ <<y, z>> \in R => <<x, z>> \in R
  BY <1>1, SeqLtTransitive
<1>4. \E m \in S : \A x \in S : x = m \/ <<m, x>> \in R
  BY <1>2, <1>3, FirstExists, ZenonT(40)
<1> QED
  BY <1>1, <1>4 DEF IsLeast

\* and a greatest one.
LEMMA GreatestExists ==
    ASSUME NEW S \in SUBSET Sequence, IsFiniteSet(S), S # {}
    PROVE  \E m \in S : \A x \in S : x = m \/ SeqLt(x, m)
<1> DEFINE R == {p \in Sequence \X Sequence : SeqLt(p[2], p[1])}
<1>1. \A x, y \in S : <<x, y>> \in R <=> SeqLt(y, x)
  OBVIOUS
<1> HIDE DEF R
<1>2. \A x, y \in S : x = y \/ <<x, y>> \in R \/ <<y, x>> \in R
  BY <1>1, SeqLtTotal
<1>3. \A x, y, z \in S : <<x, y>> \in R /\ <<y, z>> \in R => <<x, z>> \in R
  BY <1>1, SeqLtTransitive
<1>4. \E m \in S : \A x \in S : x = m \/ <<m, x>> \in R
  BY <1>2, <1>3, FirstExists, ZenonT(40)
<1> QED
  BY <1>1, <1>4

\* Least returns that element.
LEMMA LeastIsLeast ==
    ASSUME NEW S \in SUBSET Sequence, IsFiniteSet(S), S # {}
    PROVE  Least(S) \in S /\ IsLeast(Least(S), S)
<1>1. PICK m \in S : IsLeast(m, S)
  BY LeastExists
<1>2. IsLeast(Least(S), S)
  BY <1>1 DEF Least
<1> QED
  BY <1>2 DEF IsLeast

\* The image of a finite set is finite.
LEMMA ImageFinite ==
    ASSUME NEW S, IsFiniteSet(S), NEW f, DOMAIN f = S, f = [x \in S |-> f[x]]
    PROVE  IsFiniteSet({f[x] : x \in S})
<1>1. f \in [S -> {f[x] : x \in S}]
  OBVIOUS
<1>2. f \in Surjection(S, {f[x] : x \in S})
  BY <1>1 DEF Surjection
<1> QED
  BY <1>2, FS_Surjection

-----------------------------------------------------------------------------
(* Induction over finite sets.                                             *)

\* A set of subsets that has each subset all of whose proper subsets it has, has all.
LEMMA SubsetInduction ==
    ASSUME NEW S, IsFiniteSet(S), NEW Good,
           \A T \in SUBSET S : (\A U \in SUBSET T : U # T => U \in Good) => T \in Good
    PROVE  SUBSET S \subseteq Good
<1> DEFINE Bad == (SUBSET S) \ Good
<1> SUFFICES ASSUME Bad # {} PROVE FALSE
  OBVIOUS
<1>1. IsWellFoundedOn(StrictSubsetOrdering(S), SUBSET S)
  <2>1. FiniteSubsetsOf(S) = SUBSET S
    BY FS_FiniteSubsetsOfFinite
  <2>2. IsWellFoundedOn(StrictSubsetOrdering(S), FiniteSubsetsOf(S))
    BY FS_StrictSubsetOrderingWellFounded
  <2> QED
    BY <2>1, <2>2
<1>2. PICK T \in Bad : \A U \in Bad : <<U, T>> \notin StrictSubsetOrdering(S)
  <2>1. Bad \subseteq SUBSET S
    OBVIOUS
  <2> HIDE DEF Bad
  <2> QED
    BY <1>1, <2>1, WFMin
<1>3. T \in SUBSET S /\ T \notin Good
  OBVIOUS
<1>4. PICK U \in SUBSET T : U # T /\ U \notin Good
  BY <1>3
<1>5. U \in Bad /\ <<U, T>> \in StrictSubsetOrdering(S)
  BY <1>3, <1>4 DEF StrictSubsetOrdering
<1> QED
  BY <1>2, <1>5

-----------------------------------------------------------------------------
(* AddsUp: what MapThenSumSet computes.                                      *)

Chosen(s) == CHOOSE x \in s : TRUE

LEMMA PickIn == \A s : s # {} => Chosen(s) \in s
BY DEF Chosen

\* g sums val over every subset of S, element by element.
AddsUp(g, val, S) ==
    g = [s \in SUBSET S |-> IF s = {} THEN 0 ELSE val[Chosen(s)] + g[s \ {Chosen(s)}]]

\* It gives what it says.
LEMMA SumsSay ==
    ASSUME NEW val, NEW S, NEW g, AddsUp(g, val, S)
    PROVE  /\ g[{}] = 0
           /\ \A s \in SUBSET S : s # {} => g[s] = val[Chosen(s)] + g[s \ {Chosen(s)}]
<1> DEFINE G(h) == [s \in SUBSET S |-> IF s = {} THEN 0 ELSE val[Chosen(s)] + h[s \ {Chosen(s)}]]
<1>1. g = G(g)
  BY DEF AddsUp
<1>2. \A s \in SUBSET S : G(g)[s] = IF s = {} THEN 0 ELSE val[Chosen(s)] + g[s \ {Chosen(s)}]
  OBVIOUS
<1> HIDE DEF G
<1>3. \A s \in SUBSET S : g[s] = IF s = {} THEN 0 ELSE val[Chosen(s)] + g[s \ {Chosen(s)}]
  BY <1>1, <1>2
<1> QED
  BY <1>3

\* Two of them agree where both are defined.
LEMMA SumsUnique ==
    ASSUME NEW val, NEW S, NEW T, IsFiniteSet(S), S \subseteq T,
           NEW g, AddsUp(g, val, S), NEW h, AddsUp(h, val, T)
    PROVE  \A s \in SUBSET S : g[s] = h[s]
<1> DEFINE Good == {s \in SUBSET S : g[s] = h[s]}
<1>1. ASSUME NEW s \in SUBSET S, \A u \in SUBSET s : u # s => u \in Good
      PROVE  s \in Good
  <2>1. CASE s = {}
    BY <2>1, SumsSay
  <2>2. CASE s # {}
    <3>1. Chosen(s) \in s
      BY <2>2, PickIn
    <3>2. s \ {Chosen(s)} \in SUBSET s /\ s \ {Chosen(s)} # s
      BY <3>1
    <3>3. g[s \ {Chosen(s)}] = h[s \ {Chosen(s)}]
      BY <1>1, <3>2
    <3>4. g[s] = val[Chosen(s)] + g[s \ {Chosen(s)}]
      BY <2>2, SumsSay
    <3>5. h[s] = val[Chosen(s)] + h[s \ {Chosen(s)}]
      BY <2>2, SumsSay
    <3> QED
      BY <3>3, <3>4, <3>5
  <2> QED
    BY <2>1, <2>2
<1> HIDE DEF Good
<1>2. SUBSET S \subseteq Good
  BY <1>1, SubsetInduction
<1> QED
  BY <1>2 DEF Good

\* There is one for every finite set.
LEMMA SumsExist ==
    ASSUME NEW S, IsFiniteSet(S), NEW val
    PROVE  \E g : AddsUp(g, val, S)
<1> DEFINE Good == {T \in SUBSET S : \E g : AddsUp(g, val, T)}
           G(T) == CHOOSE g : AddsUp(g, val, T)
           Next(T) == val[Chosen(T)] + G(T \ {Chosen(T)})[T \ {Chosen(T)}]
<1>1. ASSUME NEW T \in SUBSET S, \A U \in SUBSET T : U # T => U \in Good
      PROVE  T \in Good
  <2> DEFINE g == [s \in SUBSET T |-> IF s = {} THEN 0 ELSE Next(s)]
  <2>1. \A U \in SUBSET T : U # T => AddsUp(G(U), val, U)
    <3>1. \A U \in SUBSET T : U # T => \E h : AddsUp(h, val, U)
      BY <1>1
    <3> QED
      BY <3>1
  <2> HIDE DEF G
  <2>2. ASSUME NEW s \in SUBSET T, s # {}
        PROVE  Next(s) = val[Chosen(s)] + g[s \ {Chosen(s)}]
    <3> DEFINE r == s \ {Chosen(s)}
    <3>1. Chosen(s) \in s
      BY <2>2, PickIn
    <3>2. r \in SUBSET T /\ r # T /\ r \in SUBSET r
      BY <3>1
    <3>3. AddsUp(G(r), val, r)
      BY <2>1, <3>2
    <3> HIDE DEF r
    <3>4. CASE r = {}
      <4>1. G(r)[r] = 0
        BY <3>3, <3>4, SumsSay
      <4>2. g[r] = 0
        BY <3>2, <3>4
      <4> QED
        BY <4>1, <4>2 DEF r
    <3>5. CASE r # {}
      <4> DEFINE q == r \ {Chosen(r)}
      <4>1. Chosen(r) \in r
        BY <3>5, PickIn
      <4>2. q \in SUBSET r /\ q # r /\ q # T /\ q \in SUBSET T /\ q \in SUBSET q
        BY <3>2, <4>1
      <4> HIDE DEF q
      <4>3. AddsUp(G(q), val, q)
        BY <2>1, <4>2
      <4>4. G(r)[r] = val[Chosen(r)] + G(r)[q]
        BY <3>2, <3>3, <3>5, SumsSay DEF q
      <4>5. G(q)[q] = G(r)[q]
        <5>1. IsFiniteSet(q)
          BY <4>2, FS_Subset
        <5> QED
          BY <3>3, <4>2, <4>3, <5>1, SumsUnique
      <4>6. g[r] = Next(r)
        BY <3>2, <3>5
      <4>7. G(r)[r] = g[r]
        BY <4>4, <4>5, <4>6 DEF q
      <4> QED
        BY <4>7 DEF r
    <3> QED
      BY <3>4, <3>5
  <2>3. g = [s \in SUBSET T |-> IF s = {} THEN 0 ELSE val[Chosen(s)] + g[s \ {Chosen(s)}]]
    <3> DEFINE h == [s \in SUBSET T |-> IF s = {} THEN 0 ELSE val[Chosen(s)] + g[s \ {Chosen(s)}]]
    <3>1. \A s \in SUBSET T : g[s] = h[s]
      <4> SUFFICES ASSUME NEW s \in SUBSET T PROVE g[s] = h[s]
        OBVIOUS
      <4>1. g[s] = IF s = {} THEN 0 ELSE Next(s)
        OBVIOUS
      <4>2. h[s] = IF s = {} THEN 0 ELSE val[Chosen(s)] + g[s \ {Chosen(s)}]
        <5> HIDE DEF g
        <5> QED
          OBVIOUS
      <4> HIDE DEF g, h, Next
      <4> QED
        BY <2>2, <4>1, <4>2
    <3>2. /\ DOMAIN g = SUBSET T /\ DOMAIN h = SUBSET T
          /\ g = [s \in SUBSET T |-> g[s]] /\ h = [s \in SUBSET T |-> h[s]]
      OBVIOUS
    <3>3. h = g
      <4> HIDE DEF g, h
      <4> QED
        BY <3>1, <3>2
    <3> QED
      BY <3>3
  <2> HIDE DEF g
  <2> QED
    BY <2>3 DEF AddsUp
<1> HIDE DEF Good
<1>2. SUBSET S \subseteq Good
  BY <1>1, SubsetInduction
<1> QED
  BY <1>2 DEF Good

SumOver(val, S) == (CHOOSE g : AddsUp(g, val, S))[S]

\* Any function that adds up like this ends with the sum.
LEMMA SumFound ==
    ASSUME NEW val, NEW S, IsFiniteSet(S), NEW g, AddsUp(g, val, S)
    PROVE  g[S] = SumOver(val, S)
<1> DEFINE h == CHOOSE x : AddsUp(x, val, S)
<1>1. AddsUp(h, val, S)
  OBVIOUS
<1> HIDE DEF h
<1>2. g[S] = h[S]
  BY <1>1, SumsUnique
<1> QED
  BY <1>2 DEF SumOver, h

LEMMA SumEmpty == \A val : SumOver(val, {}) = 0
<1> TAKE val
<1>1. PICK g : AddsUp(g, val, {})
  BY FS_EmptySet, SumsExist
<1>2. g[{}] = 0
  BY <1>1, SumsSay
<1> QED
  BY <1>1, <1>2, FS_EmptySet, SumFound

LEMMA SumStep ==
    ASSUME NEW val, NEW S, IsFiniteSet(S), S # {}
    PROVE  SumOver(val, S) = val[Chosen(S)] + SumOver(val, S \ {Chosen(S)})
<1> DEFINE R == S \ {Chosen(S)}
<1>1. PICK g : AddsUp(g, val, S)
  BY SumsExist
<1>2. g[S] = val[Chosen(S)] + g[R]
  BY <1>1, SumsSay
<1>3. IsFiniteSet(R) /\ R \subseteq S
  BY FS_Subset
<1> HIDE DEF R
<1>4. PICK h : AddsUp(h, val, R)
  BY <1>3, SumsExist
<1>5. h[R] = g[R]
  BY <1>1, <1>3, <1>4, SumsUnique
<1>6. g[S] = SumOver(val, S) /\ h[R] = SumOver(val, R)
  BY <1>1, <1>3, <1>4, SumFound
<1> QED
  BY <1>2, <1>5, <1>6 DEF R

\* Sums of integers are integers, of naturals naturals.
LEMMA SumInt ==
    ASSUME NEW val, NEW S, IsFiniteSet(S), \A x \in S : val[x] \in Int
    PROVE  SumOver(val, S) \in Int
<1> DEFINE Good == {T \in SUBSET S : SumOver(val, T) \in Int}
<1>1. ASSUME NEW T \in SUBSET S, \A U \in SUBSET T : U # T => U \in Good
      PROVE  T \in Good
  <2>1. CASE T = {}
    BY <2>1, SumEmpty
  <2>2. CASE T # {}
    <3>1. Chosen(T) \in T /\ T \ {Chosen(T)} \in Good
      BY <1>1, <2>2, PickIn
    <3>2. SumOver(val, T) = val[Chosen(T)] + SumOver(val, T \ {Chosen(T)})
      BY <2>2, FS_Subset, SumStep
    <3> QED
      BY <3>1, <3>2
  <2> QED
    BY <2>1, <2>2
<1> HIDE DEF Good
<1>2. SUBSET S \subseteq Good
  BY <1>1, SubsetInduction
<1> QED
  BY <1>2 DEF Good

LEMMA SumNat ==
    ASSUME NEW val, NEW S, IsFiniteSet(S), \A x \in S : val[x] \in Nat
    PROVE  SumOver(val, S) \in Nat
<1> DEFINE Good == {T \in SUBSET S : SumOver(val, T) \in Nat}
<1>1. ASSUME NEW T \in SUBSET S, \A U \in SUBSET T : U # T => U \in Good
      PROVE  T \in Good
  <2>1. CASE T = {}
    BY <2>1, SumEmpty
  <2>2. CASE T # {}
    <3>1. Chosen(T) \in T /\ T \ {Chosen(T)} \in Good
      BY <1>1, <2>2, PickIn
    <3>2. SumOver(val, T) = val[Chosen(T)] + SumOver(val, T \ {Chosen(T)})
      BY <2>2, FS_Subset, SumStep
    <3> QED
      BY <3>1, <3>2
  <2> QED
    BY <2>1, <2>2
<1> HIDE DEF Good
<1>2. SUBSET S \subseteq Good
  BY <1>1, SubsetInduction
<1> QED
  BY <1>2 DEF Good

LEMMA PlusMoves ==
    \A a, b, c \in Int : a + (b + c) = b + (a + c) /\ (a + b) + c = a + (b + c)
OBVIOUS

\* The sum does not depend on the element it starts with.
LEMMA SumRemove ==
    ASSUME NEW val, NEW S, IsFiniteSet(S), \A x \in S : val[x] \in Int
    PROVE  \A x \in S : SumOver(val, S) = val[x] + SumOver(val, S \ {x})
<1> DEFINE Free(T) == \A x \in T : SumOver(val, T) = val[x] + SumOver(val, T \ {x})
           Good == {T \in SUBSET S : Free(T)}
<1>1. ASSUME NEW T \in SUBSET S, \A U \in SUBSET T : U # T => U \in Good
      PROVE  T \in Good
  <2> SUFFICES ASSUME NEW x \in T PROVE SumOver(val, T) = val[x] + SumOver(val, T \ {x})
    OBVIOUS
  <2> DEFINE y == Chosen(T)
  <2>1. y \in T /\ IsFiniteSet(T)
    BY PickIn, FS_Subset
  <2>2. SumOver(val, T) = val[y] + SumOver(val, T \ {y})
    BY <2>1, SumStep
  <2> HIDE DEF y
  <2>3. CASE x = y
    BY <2>2, <2>3
  <2>4. CASE x # y
    <3> DEFINE R == (T \ {x}) \ {y}
    <3>1. Free(T \ {y}) /\ Free(T \ {x})
      BY <1>1, <2>1
    <3>2. SumOver(val, T \ {y}) = val[x] + SumOver(val, (T \ {y}) \ {x})
      BY <2>1, <2>4, <3>1
    <3>3. SumOver(val, T \ {x}) = val[y] + SumOver(val, R)
      BY <2>1, <2>4, <3>1
    <3>4. (T \ {y}) \ {x} = R
      OBVIOUS
    <3>5. SumOver(val, R) \in Int /\ val[x] \in Int /\ val[y] \in Int
      <4>1. IsFiniteSet(R) /\ R \subseteq S
        BY <2>1, FS_Subset
      <4> QED
        BY <2>1, <4>1, SumInt
    <3> HIDE DEF R
    <3>6. SumOver(val, T) = val[y] + (val[x] + SumOver(val, R))
      BY <2>2, <3>2, <3>4
    <3>7. val[y] + (val[x] + SumOver(val, R)) = val[x] + (val[y] + SumOver(val, R))
      BY <3>5, PlusMoves
    <3> QED
      BY <3>3, <3>6, <3>7
  <2> QED
    BY <2>3, <2>4
<1> HIDE DEF Good
<1>2. SUBSET S \subseteq Good
  BY <1>1, SubsetInduction
<1> QED
  BY <1>2 DEF Good

\* The sum is that of the values on the set, whatever else they are defined on,
LEMMA SumSame ==
    ASSUME NEW val, NEW wal, NEW S, IsFiniteSet(S), \A x \in S : val[x] = wal[x]
    PROVE  SumOver(val, S) = SumOver(wal, S)
<1> DEFINE Good == {T \in SUBSET S : SumOver(val, T) = SumOver(wal, T)}
<1>1. ASSUME NEW T \in SUBSET S, \A U \in SUBSET T : U # T => U \in Good
      PROVE  T \in Good
  <2>1. CASE T = {}
    BY <2>1, SumEmpty
  <2>2. CASE T # {}
    <3>1. Chosen(T) \in T /\ T \ {Chosen(T)} \in Good /\ IsFiniteSet(T)
      BY <1>1, <2>2, PickIn, FS_Subset
    <3>2. SumOver(val, T) = val[Chosen(T)] + SumOver(val, T \ {Chosen(T)})
      BY <2>2, <3>1, SumStep
    <3>3. SumOver(wal, T) = wal[Chosen(T)] + SumOver(wal, T \ {Chosen(T)})
      BY <2>2, <3>1, SumStep
    <3> QED
      BY <3>1, <3>2, <3>3
  <2> QED
    BY <2>1, <2>2
<1> HIDE DEF Good
<1>2. SUBSET S \subseteq Good
  BY <1>1, SubsetInduction
<1> QED
  BY <1>2 DEF Good

\* of pointwise sums the sum of the sums,
LEMMA SumPlus ==
    ASSUME NEW u, NEW v, NEW w, NEW S, IsFiniteSet(S),
           \A x \in S : v[x] \in Int /\ w[x] \in Int /\ u[x] = v[x] + w[x]
    PROVE  SumOver(u, S) = SumOver(v, S) + SumOver(w, S)
<1> DEFINE Good == {T \in SUBSET S : SumOver(u, T) = SumOver(v, T) + SumOver(w, T)}
<1>1. ASSUME NEW T \in SUBSET S, \A U \in SUBSET T : U # T => U \in Good
      PROVE  T \in Good
  <2>1. CASE T = {}
    BY <2>1, SumEmpty
  <2>2. CASE T # {}
    <3> DEFINE p == Chosen(T)
               R == T \ {p}
    <3>1. p \in T /\ R \in Good /\ IsFiniteSet(T) /\ IsFiniteSet(R)
      BY <1>1, <2>2, PickIn, FS_Subset
    <3>2. /\ SumOver(u, T) = u[p] + SumOver(u, R)
          /\ SumOver(v, T) = v[p] + SumOver(v, R)
          /\ SumOver(w, T) = w[p] + SumOver(w, R)
      BY <2>2, <3>1, SumStep
    <3>3. SumOver(v, R) \in Int /\ SumOver(w, R) \in Int
      BY <3>1, SumInt
    <3>4. u[p] = v[p] + w[p] /\ v[p] \in Int /\ w[p] \in Int
      BY <3>1
    <3>5. SumOver(u, R) = SumOver(v, R) + SumOver(w, R)
      BY <3>1
    <3> HIDE DEF p, R
    <3> QED
      BY <3>2, <3>3, <3>4, <3>5
  <2> QED
    BY <2>1, <2>2
<1> HIDE DEF Good
<1>2. SUBSET S \subseteq Good
  BY <1>1, SubsetInduction
<1> QED
  BY <1>2 DEF Good

\* of ones the number of elements,
LEMMA SumOnes ==
    ASSUME NEW val, NEW S, IsFiniteSet(S), \A x \in S : val[x] = 1
    PROVE  SumOver(val, S) = Cardinality(S)
<1> DEFINE Good == {T \in SUBSET S : SumOver(val, T) = Cardinality(T)}
<1>1. ASSUME NEW T \in SUBSET S, \A U \in SUBSET T : U # T => U \in Good
      PROVE  T \in Good
  <2>1. CASE T = {}
    BY <2>1, SumEmpty, FS_EmptySet
  <2>2. CASE T # {}
    <3> DEFINE p == Chosen(T)
    <3>1. p \in T /\ T \ {p} \in Good /\ IsFiniteSet(T)
      BY <1>1, <2>2, PickIn, FS_Subset
    <3>2. SumOver(val, T) = val[p] + SumOver(val, T \ {p})
      BY <2>2, <3>1, SumStep
    <3> HIDE DEF p
    <3>3. Cardinality(T \ {p}) = Cardinality(T) - 1 /\ Cardinality(T) \in Nat
      BY <3>1, FS_RemoveElement, FS_CardinalityType
    <3> QED
      BY <3>1, <3>2, <3>3
  <2> QED
    BY <2>1, <2>2
<1> HIDE DEF Good
<1>2. SUBSET S \subseteq Good
  BY <1>1, SubsetInduction
<1> QED
  BY <1>2 DEF Good

\* of two disjoint sets the sum of theirs,
LEMMA SumDisjoint ==
    ASSUME NEW val, NEW S, NEW R, IsFiniteSet(S), IsFiniteSet(R), S \cap R = {},
           \A x \in S \cup R : val[x] \in Int
    PROVE  SumOver(val, S \cup R) = SumOver(val, S) + SumOver(val, R)
<1> DEFINE Good == {T \in SUBSET S : SumOver(val, T \cup R) = SumOver(val, T) + SumOver(val, R)}
<1>0. SumOver(val, R) \in Int
  BY SumInt
<1>1. ASSUME NEW T \in SUBSET S, \A U \in SUBSET T : U # T => U \in Good
      PROVE  T \in Good
  <2>1. CASE T = {}
    <3>1. T \cup R = R /\ SumOver(val, T) = 0
      BY <2>1, SumEmpty
    <3> QED
      BY <1>0, <2>1, <3>1
  <2>2. CASE T # {}
    <3> DEFINE p == Chosen(T)
               Q == T \ {p}
    <3>1. p \in T /\ Q \in Good /\ IsFiniteSet(T) /\ IsFiniteSet(Q)
      BY <1>1, <2>2, PickIn, FS_Subset
    <3>2. SumOver(val, T) = val[p] + SumOver(val, Q)
      BY <2>2, <3>1, SumStep
    <3>3. IsFiniteSet(T \cup R) /\ p \in T \cup R /\ \A x \in T \cup R : val[x] \in Int
      BY <3>1, FS_Union
    <3>4. SumOver(val, T \cup R) = val[p] + SumOver(val, (T \cup R) \ {p})
      BY <3>3, SumRemove
    <3>5. (T \cup R) \ {p} = Q \cup R
      BY <3>1
    <3>6. SumOver(val, Q) \in Int /\ val[p] \in Int
      BY <3>1, SumInt
    <3>7. SumOver(val, Q \cup R) = SumOver(val, Q) + SumOver(val, R)
      BY <3>1
    <3> HIDE DEF p, Q
    <3>8. SumOver(val, T \cup R) = SumOver(val, T) + SumOver(val, R)
      <4>1. SumOver(val, T \cup R) = val[p] + (SumOver(val, Q) + SumOver(val, R))
        BY <3>4, <3>5, <3>7
      <4>2. (val[p] + SumOver(val, Q)) + SumOver(val, R) = val[p] + (SumOver(val, Q) + SumOver(val, R))
        BY <1>0, <3>6, PlusMoves
      <4> QED
        BY <3>2, <4>1, <4>2
    <3> QED
      BY <3>8
  <2> QED
    BY <2>1, <2>2
<1> HIDE DEF Good
<1>2. SUBSET S \subseteq Good
  BY <1>1, SubsetInduction
<1> QED
  BY <1>2 DEF Good

\* and of a set cut into parts the sum of the sums of the parts.
LEMMA SumParts ==
    ASSUME NEW I, IsFiniteSet(I), NEW part, NEW val, NEW S, S = UNION {part[i] : i \in I},
           IsFiniteSet(S), \A x \in S : val[x] \in Int,
           \A i, j \in I : part[i] \cap part[j] # {} => i = j,
           NEW sums, \A i \in I : sums[i] = SumOver(val, part[i])
    PROVE  SumOver(sums, I) = SumOver(val, S)
<1> DEFINE Of(J) == UNION {part[i] : i \in J}
           Good == {J \in SUBSET I : SumOver(sums, J) = SumOver(val, Of(J))}
<1>1. ASSUME NEW J \in SUBSET I, \A U \in SUBSET J : U # J => U \in Good
      PROVE  J \in Good
  <2>1. CASE J = {}
    BY <2>1, SumEmpty
  <2>2. CASE J # {}
    <3> DEFINE p == Chosen(J)
               K == J \ {p}
    <3>1. p \in J /\ K \in Good /\ IsFiniteSet(J)
      BY <1>1, <2>2, PickIn, FS_Subset
    <3>2. SumOver(sums, J) = sums[p] + SumOver(sums, K)
      BY <2>2, <3>1, SumStep
    <3> HIDE DEF p
    <3>3. Of(J) = part[p] \cup Of(K) /\ part[p] \cap Of(K) = {}
      BY <3>1
    <3>4. Of(J) \subseteq S
      OBVIOUS
    <3> HIDE DEF Of
    <3>5. IsFiniteSet(part[p]) /\ IsFiniteSet(Of(K)) /\ \A x \in Of(J) : val[x] \in Int
      BY <3>3, <3>4, FS_Subset
    <3>6. SumOver(val, Of(J)) = SumOver(val, part[p]) + SumOver(val, Of(K))
      <4> DEFINE A == part[p]
                 B == Of(K)
      <4>1. IsFiniteSet(A) /\ IsFiniteSet(B) /\ A \cap B = {} /\ Of(J) = A \cup B
            /\ \A x \in A \cup B : val[x] \in Int
        BY <3>3, <3>5
      <4> HIDE DEF A, B
      <4>2. SumOver(val, A \cup B) = SumOver(val, A) + SumOver(val, B)
        BY <4>1, SumDisjoint
      <4> QED
        BY <4>1, <4>2 DEF A, B
    <3> QED
      BY <3>1, <3>2, <3>6
  <2> QED
    BY <2>1, <2>2
<1> HIDE DEF Good
<1>2. SUBSET I \subseteq Good
  BY <1>1, SubsetInduction
<1>3. Of(I) = S
  OBVIOUS
<1> QED
  BY <1>2, <1>3 DEF Good

\* A sum over an image that tells the elements apart is the sum over the elements.
LEMMA SumImage ==
    ASSUME NEW S, IsFiniteSet(S), NEW f, DOMAIN f = S, f = [x \in S |-> f[x]],
           \A x, y \in S : f[x] = f[y] => x = y,
           NEW val, NEW wal, \A x \in S : wal[x] \in Int /\ val[f[x]] = wal[x]
    PROVE  SumOver(val, {f[x] : x \in S}) = SumOver(wal, S)
<1> DEFINE T == {f[x] : x \in S}
           part == [t \in T |-> {x \in S : f[x] = t}]
           sums == [t \in T |-> SumOver(wal, part[t])]
<1>1. IsFiniteSet(T)
  BY ImageFinite
<1>2. \A t \in T : part[t] = {x \in S : f[x] = t}
  OBVIOUS
<1>3. \A t \in T : sums[t] = SumOver(wal, part[t])
  OBVIOUS
<1>4. S = UNION {part[t] : t \in T}
  <2>1. \A x \in S : f[x] \in T /\ x \in part[f[x]]
    OBVIOUS
  <2>2. \A t \in T : part[t] \subseteq S
    OBVIOUS
  <2> HIDE DEF part, T
  <2> QED
    BY <2>1, <2>2
<1> HIDE DEF sums, part
<1>5. \A t, u \in T : part[t] \cap part[u] # {} => t = u
  <2> HIDE DEF T
  <2> QED
    BY <1>2
<1>6. SumOver(sums, T) = SumOver(wal, S)
  <2> HIDE DEF T
  <2> QED
    BY <1>1, <1>3, <1>4, <1>5, SumParts, SMTT(60)
<1>7. \A t \in T : val[t] = sums[t]
  <2> TAKE t \in T
  <2>1. PICK x \in S : t = f[x]
    OBVIOUS
  <2>2. part[t] = {x}
    <3>1. part[t] = {y \in S : f[y] = t}
      BY <1>2
    <3> HIDE DEF T
    <3> QED
      BY <2>1, <3>1
  <2>3. SumOver(wal, {x}) = wal[Chosen({x})] + SumOver(wal, {x} \ {Chosen({x})})
    <3> DEFINE O == {x}
    <3>1. IsFiniteSet(O) /\ O # {}
      BY FS_Singleton
    <3> HIDE DEF O
    <3>2. SumOver(wal, O) = wal[Chosen(O)] + SumOver(wal, O \ {Chosen(O)})
      BY <3>1, SumStep
    <3> QED
      BY <3>2 DEF O
  <2>4. Chosen({x}) = x /\ {x} \ {x} = {}
    BY PickIn
  <2>5. SumOver(wal, {x}) = wal[x]
    BY <2>3, <2>4, SumEmpty
  <2> QED
    BY <1>3, <2>1, <2>2, <2>5
<1>8. SumOver(val, T) = SumOver(sums, T)
  <2> HIDE DEF T
  <2> QED
    BY <1>1, <1>7, SumSame
<1> QED
  BY <1>6, <1>8

\* The size of such an image is that of the set.
LEMMA ImageCardinality ==
    ASSUME NEW S, IsFiniteSet(S), NEW f, DOMAIN f = S, f = [x \in S |-> f[x]],
           \A x, y \in S : f[x] = f[y] => x = y
    PROVE  Cardinality({f[x] : x \in S}) = Cardinality(S)
<1> DEFINE T == {f[x] : x \in S}
<1>1. f \in [S -> T] /\ \A t \in T : \E x \in S : f[x] = t
  OBVIOUS
<1>2. f \in Surjection(S, T) /\ f \in Injection(S, T)
  BY <1>1 DEF Surjection, Injection, IsInjective
<1> HIDE DEF T
<1>3. IsFiniteSet(T)
  BY <1>2, FS_Surjection
<1> QED
  BY <1>2, <1>3, FS_Injection DEF T

-----------------------------------------------------------------------------
(* Sequences and folds.                                                    *)

\* A finite set of integers that is not empty has a least element,
LEMMA IntLeast ==
    ASSUME NEW S \in SUBSET Int, IsFiniteSet(S), S # {}
    PROVE  \E m \in S : \A x \in S : m <= x
<1> DEFINE R == {p \in Int \X Int : p[1] < p[2]}
<1>1. \A x, y \in S : <<x, y>> \in R <=> x < y
  OBVIOUS
<1> HIDE DEF R
<1>0. \A x \in S : x \in Int
  OBVIOUS
<1>2. \A x, y \in S : x = y \/ <<x, y>> \in R \/ <<y, x>> \in R
  <2> TAKE x, y \in S
  <2>1. x \in Int /\ y \in Int /\ (<<x, y>> \in R <=> x < y) /\ (<<y, x>> \in R <=> y < x)
    BY <1>1
  <2> QED
    BY <2>1
<1>3. \A x, y, z \in S : <<x, y>> \in R /\ <<y, z>> \in R => <<x, z>> \in R
  <2> TAKE x, y, z \in S
  <2>1. /\ x \in Int /\ y \in Int /\ z \in Int
        /\ (<<x, y>> \in R <=> x < y) /\ (<<y, z>> \in R <=> y < z)
        /\ (<<x, z>> \in R <=> x < z)
    BY <1>0, <1>1
  <2> QED
    BY ONLY <2>1
<1>4. \E m \in S : \A x \in S : x = m \/ <<m, x>> \in R
  BY <1>2, <1>3, FirstExists, ZenonT(40)
<1>5. PICK m \in S : \A x \in S : x = m \/ <<m, x>> \in R
  BY <1>4
<1>6. ASSUME NEW x \in S PROVE m <= x
  <2>1. m \in Int /\ x \in Int /\ (x = m \/ m < x)
    BY <1>1, <1>5
  <2> QED
    BY <2>1
<1> QED
  BY <1>6

\* and a greatest one.
LEMMA IntGreatest ==
    ASSUME NEW S \in SUBSET Int, IsFiniteSet(S), S # {}
    PROVE  \E m \in S : \A x \in S : m >= x
<1> DEFINE R == {p \in Int \X Int : p[1] > p[2]}
<1>1. \A x, y \in S : <<x, y>> \in R <=> x > y
  OBVIOUS
<1> HIDE DEF R
<1>0. \A x \in S : x \in Int
  OBVIOUS
<1>2. \A x, y \in S : x = y \/ <<x, y>> \in R \/ <<y, x>> \in R
  <2> TAKE x, y \in S
  <2>1. x \in Int /\ y \in Int /\ (<<x, y>> \in R <=> x > y) /\ (<<y, x>> \in R <=> y > x)
    BY <1>1
  <2> QED
    BY <2>1
<1>3. \A x, y, z \in S : <<x, y>> \in R /\ <<y, z>> \in R => <<x, z>> \in R
  <2> TAKE x, y, z \in S
  <2>1. /\ x \in Int /\ y \in Int /\ z \in Int
        /\ (<<x, y>> \in R <=> x > y) /\ (<<y, z>> \in R <=> y > z)
        /\ (<<x, z>> \in R <=> x > z)
    BY <1>0, <1>1
  <2> QED
    BY ONLY <2>1
<1>4. \E m \in S : \A x \in S : x = m \/ <<m, x>> \in R
  BY <1>2, <1>3, FirstExists, ZenonT(40)
<1>5. PICK m \in S : \A x \in S : x = m \/ <<m, x>> \in R
  BY <1>4
<1>6. ASSUME NEW x \in S PROVE m >= x
  <2>1. m \in Int /\ x \in Int /\ (x = m \/ m > x)
    BY <1>1, <1>5
  <2> QED
    BY <2>1
<1> QED
  BY <1>6

\* What holds of 0 and, with a number below n, of the next one, holds up to n.
LEMMA InductionUpTo ==
    ASSUME NEW n \in Nat, NEW Good, 0 \in Good,
           \A i \in 0..n : i \in Good /\ i < n => i + 1 \in Good
    PROVE  0..n \subseteq Good
<1> DEFINE Bad == (0..n) \ Good
<1> SUFFICES ASSUME Bad # {} PROVE FALSE
  OBVIOUS
<1>1. Bad \in SUBSET Int /\ IsFiniteSet(Bad)
  <2>1. IsFiniteSet(0..n)
    BY FS_Interval
  <2> QED
    BY <2>1, FS_Subset
<1> HIDE DEF Bad
<1>2. PICK m \in Bad : \A x \in Bad : m <= x
  BY <1>1, IntLeast
<1>3. m \in 0..n /\ m \notin Good /\ m # 0
  BY DEF Bad
<1>4. m - 1 \in 0..n /\ m - 1 \notin Bad
  BY <1>2, <1>3
<1>5. m - 1 \in Good /\ m - 1 < n /\ (m - 1) + 1 = m
  BY <1>3, <1>4 DEF Bad
<1> QED
  BY <1>3, <1>4, <1>5

\* s lists the elements of S, each before those that follow it in R.
Lists(s, S, R) ==
    /\ s \in [1..Cardinality(S) -> S]
    /\ \A i, j \in 1..Cardinality(S) : i < j => <<s[i], s[j]>> \in R

\* A finite set can be listed in any total order.
LEMMA ListExists ==
    ASSUME NEW S, IsFiniteSet(S), NEW R,
           \A x, y \in S : x = y \/ <<x, y>> \in R \/ <<y, x>> \in R,
           \A x, y, z \in S : <<x, y>> \in R /\ <<y, z>> \in R => <<x, z>> \in R
    PROVE  \E s : Lists(s, S, R)
<1> DEFINE Good == {T \in SUBSET S : \E s : Lists(s, T, R)}
<1>1. ASSUME NEW T \in SUBSET S, \A U \in SUBSET T : U # T => U \in Good
      PROVE  T \in Good
  <2>1. CASE T = {}
    <3>1. Cardinality(T) = 0
      BY <2>1, FS_EmptySet
    <3>2. Lists([i \in 1..0 |-> 0], T, R)
      BY <3>1 DEF Lists
    <3> QED
      BY <3>2
  <2>2. CASE T # {}
    <3> DEFINE V == {p \in S \X S : <<p[2], p[1]>> \in R}
    <3>1. \A x, y \in T : <<x, y>> \in V <=> <<y, x>> \in R
      OBVIOUS
    <3> HIDE DEF V
    <3>2. IsFiniteSet(T)
      BY FS_Subset
    <3>3. \A x, y \in T : x = y \/ <<x, y>> \in V \/ <<y, x>> \in V
      BY <3>1
    <3>4. \A x, y, z \in T : <<x, y>> \in V /\ <<y, z>> \in V => <<x, z>> \in V
      BY <3>1
    <3>5. PICK m \in T : \A x \in T : x = m \/ <<m, x>> \in V
      BY <2>2, <3>2, <3>3, <3>4, FirstExists, ZenonT(40)
    <3> DEFINE U == T \ {m}
               n == Cardinality(U)
    <3>6. U \in Good /\ U \subseteq T
      BY <1>1
    <3>7. \A x \in U : <<x, m>> \in R
      BY <3>1, <3>5
    <3>8. n \in Nat /\ Cardinality(T) = n + 1
      <4>1. IsFiniteSet(U) /\ Cardinality(U) = Cardinality(T) - 1 /\ Cardinality(T) \in Nat
        BY <3>2, FS_RemoveElement, FS_CardinalityType
      <4>2. Cardinality(U) \in Nat
        BY <4>1, FS_CardinalityType
      <4> QED
        BY <4>1, <4>2
    <3>9. PICK r : Lists(r, U, R)
      BY <3>6
    <3>10. r \in [1..n -> U] /\ \A i, j \in 1..n : i < j => <<r[i], r[j]>> \in R
      BY <3>9 DEF Lists
    <3> HIDE DEF U, n
    <3> DEFINE s == [i \in 1..(n + 1) |-> IF i = n + 1 THEN m ELSE r[i]]
    <3>11. \A i \in 1..(n + 1) : (s[i] = m /\ i = n + 1) \/ (s[i] = r[i] /\ i \in 1..n)
      BY <3>8
    <3>12. s \in [1..(n + 1) -> T]
      BY <3>6, <3>8, <3>10
    <3> HIDE DEF s
    <3>13. ASSUME NEW i \in 1..(n + 1), NEW j \in 1..(n + 1), i < j
           PROVE  <<s[i], s[j]>> \in R
      <4>1. i \in 1..n /\ s[i] = r[i] /\ r[i] \in U
        BY <3>8, <3>10, <3>11, <3>13
      <4>2. CASE j = n + 1
        BY <3>7, <3>8, <3>11, <4>1, <4>2
      <4>3. CASE j \in 1..n
        BY <3>8, <3>10, <3>11, <3>13, <4>1, <4>3
      <4> QED
        BY <3>8, <4>2, <4>3
    <3>14. Lists(s, T, R)
      BY <3>8, <3>12, <3>13 DEF Lists
    <3> QED
      BY <3>14
  <2> QED
    BY <2>1, <2>2
<1> HIDE DEF Good
<1>2. SUBSET S \subseteq Good
  BY <1>1, SubsetInduction
<1> QED
  BY <1>2 DEF Good

\* A list leaves no element out, if nothing is before itself.
LEMMA ListsAll ==
    ASSUME NEW S, IsFiniteSet(S), NEW R, \A x \in S : <<x, x>> \notin R,
           NEW s, Lists(s, S, R)
    PROVE  \A x \in S : \E i \in 1..Cardinality(S) : s[i] = x
<1> DEFINE n == Cardinality(S)
<1>1. n \in Nat /\ IsFiniteSet(1..n) /\ Cardinality(1..n) = n
  <2>1. n \in Nat
    BY FS_CardinalityType
  <2> HIDE DEF n
  <2> QED
    BY <2>1, FS_Interval
<1>2. s \in Injection(1..n, S)
  <2>1. s \in [1..n -> S] /\ \A i, j \in 1..n : i < j => <<s[i], s[j]>> \in R
    BY DEF Lists
  <2>2. \A i, j \in 1..n : s[i] = s[j] => i = j
    <3> SUFFICES ASSUME NEW i \in 1..n, NEW j \in 1..n, s[i] = s[j], i < j PROVE FALSE
      BY <1>1
    <3> QED
      BY <2>1
  <2> QED
    BY <2>1, <2>2 DEF Injection, IsInjective
<1> HIDE DEF n
<1>3. s \in Surjection(1..n, S)
  BY <1>1, <1>2, FS_Injection DEF n
<1> QED
  BY <1>3 DEF Surjection, n

-----------------------------------------------------------------------------
(* FoldsUp: what FoldLeft computes.                                        *)

Highest(s) == CHOOSE x \in s : \A y \in s : x >= y

\* A set of numbers up to n has a highest.
LEMMA HighestIn ==
    ASSUME NEW n \in Nat
    PROVE  \A s \in SUBSET (1..n) : s # {} => Highest(s) \in s /\ \A y \in s : Highest(s) >= y
<1> SUFFICES ASSUME NEW s \in SUBSET (1..n), s # {}
             PROVE  Highest(s) \in s /\ \A y \in s : Highest(s) >= y
  OBVIOUS
<1>1. s \in SUBSET Int /\ IsFiniteSet(s)
  <2>1. IsFiniteSet(1..n) /\ 1..n \subseteq Int
    BY FS_Interval
  <2> QED
    BY <2>1, FS_Subset
<1>2. \E m \in s : \A x \in s : m >= x
  BY <1>1, IntGreatest
<1> QED
  BY <1>2 DEF Highest

LEMMA HighestUpTo ==
    ASSUME NEW n \in Nat, n # 0
    PROVE  Highest(1..n) = n /\ (1..n) \ {Highest(1..n)} = 1..(n - 1)
<1>1. 1..n \in SUBSET (1..n) /\ 1..n # {}
  OBVIOUS
<1>2. Highest(1..n) \in 1..n /\ \A y \in 1..n : Highest(1..n) >= y
  BY <1>1, HighestIn
<1>3. Highest(1..n) = n
  BY <1>2
<1> QED
  BY <1>3

\* g takes base through step over the elements of every subset of S, in ascending order.
FoldsUp(g, base, step, S) ==
    g = [s \in SUBSET S |-> IF s = {} THEN base
                            ELSE step[<<g[s \ {Highest(s)}], Highest(s)>>]]

\* It gives what it says.
LEMMA FoldsSay ==
    ASSUME NEW base, NEW step, NEW S, NEW g, FoldsUp(g, base, step, S)
    PROVE  /\ g[{}] = base
           /\ \A s \in SUBSET S : s # {} => g[s] = step[<<g[s \ {Highest(s)}], Highest(s)>>]
<1> DEFINE G(h) == [s \in SUBSET S |-> IF s = {} THEN base ELSE step[<<h[s \ {Highest(s)}], Highest(s)>>]]
<1>1. g = G(g)
  BY DEF FoldsUp
<1>2. \A s \in SUBSET S : G(g)[s] = IF s = {} THEN base ELSE step[<<g[s \ {Highest(s)}], Highest(s)>>]
  OBVIOUS
<1> HIDE DEF G
<1>3. \A s \in SUBSET S : g[s] = IF s = {} THEN base ELSE step[<<g[s \ {Highest(s)}], Highest(s)>>]
  BY <1>1, <1>2
<1> QED
  BY <1>3

\* Two of them agree where both are defined.
LEMMA FoldsUnique ==
    ASSUME NEW base, NEW step, NEW S, NEW T, IsFiniteSet(S), S \subseteq T,
           \A s \in SUBSET S : s # {} => Highest(s) \in s,
           NEW g, FoldsUp(g, base, step, S), NEW h, FoldsUp(h, base, step, T)
    PROVE  \A s \in SUBSET S : g[s] = h[s]
<1> DEFINE Good == {s \in SUBSET S : g[s] = h[s]}
<1>1. ASSUME NEW s \in SUBSET S, \A u \in SUBSET s : u # s => u \in Good
      PROVE  s \in Good
  <2>1. CASE s = {}
    BY <2>1, FoldsSay
  <2>2. CASE s # {}
    <3>1. Highest(s) \in s
      BY <2>2
    <3>2. s \ {Highest(s)} \in SUBSET s /\ s \ {Highest(s)} # s
      BY <3>1
    <3>3. g[s \ {Highest(s)}] = h[s \ {Highest(s)}]
      BY <1>1, <3>2
    <3>4. g[s] = step[<<g[s \ {Highest(s)}], Highest(s)>>]
      BY <2>2, FoldsSay
    <3>5. h[s] = step[<<h[s \ {Highest(s)}], Highest(s)>>]
      <4>1. s \in SUBSET T
        OBVIOUS
      <4> QED
        BY <2>2, <4>1, FoldsSay
    <3> QED
      BY <3>3, <3>4, <3>5
  <2> QED
    BY <2>1, <2>2
<1> HIDE DEF Good
<1>2. SUBSET S \subseteq Good
  BY <1>1, SubsetInduction
<1> QED
  BY <1>2 DEF Good

\* There is one for every finite set.
LEMMA FoldsExist ==
    ASSUME NEW S, IsFiniteSet(S), NEW base, NEW step,
           \A s \in SUBSET S : s # {} => Highest(s) \in s
    PROVE  \E g : FoldsUp(g, base, step, S)
<1> DEFINE Good == {T \in SUBSET S : \E g : FoldsUp(g, base, step, T)}
           G(T) == CHOOSE g : FoldsUp(g, base, step, T)
           Next(T) == step[<<G(T \ {Highest(T)})[T \ {Highest(T)}], Highest(T)>>]
<1>1. ASSUME NEW T \in SUBSET S, \A U \in SUBSET T : U # T => U \in Good
      PROVE  T \in Good
  <2> DEFINE g == [s \in SUBSET T |-> IF s = {} THEN base ELSE Next(s)]
  <2>1. \A U \in SUBSET T : U # T => FoldsUp(G(U), base, step, U)
    <3>1. \A U \in SUBSET T : U # T => \E h : FoldsUp(h, base, step, U)
      BY <1>1
    <3> QED
      BY <3>1
  <2> HIDE DEF G
  <2>2. ASSUME NEW s \in SUBSET T, s # {}
        PROVE  Next(s) = step[<<g[s \ {Highest(s)}], Highest(s)>>]
    <3> DEFINE r == s \ {Highest(s)}
    <3>1. Highest(s) \in s
      BY <2>2
    <3>2. r \in SUBSET T /\ r # T /\ r \in SUBSET r
      BY <3>1
    <3>3. FoldsUp(G(r), base, step, r)
      BY <2>1, <3>2
    <3> HIDE DEF r
    <3>4. CASE r = {}
      <4>1. G(r)[r] = base
        BY <3>3, <3>4, FoldsSay
      <4>2. g[r] = base
        BY <3>2, <3>4
      <4> QED
        BY <4>1, <4>2 DEF r
    <3>5. CASE r # {}
      <4> DEFINE q == r \ {Highest(r)}
      <4>1. Highest(r) \in r
        BY <3>2, <3>5
      <4>2. q \in SUBSET r /\ q # r /\ q # T /\ q \in SUBSET T /\ q \in SUBSET q
        BY <3>2, <4>1
      <4> HIDE DEF q
      <4>3. FoldsUp(G(q), base, step, q)
        BY <2>1, <4>2
      <4>4. G(r)[r] = step[<<G(r)[q], Highest(r)>>]
        BY <3>2, <3>3, <3>5, FoldsSay DEF q
      <4>5. G(q)[q] = G(r)[q]
        <5>1. IsFiniteSet(q) /\ \A x \in SUBSET q : x # {} => Highest(x) \in x
          BY <4>2, FS_Subset
        <5> QED
          BY <3>3, <4>2, <4>3, <5>1, FoldsUnique
      <4>6. g[r] = Next(r)
        BY <3>2, <3>5
      <4>7. G(r)[r] = g[r]
        BY <4>4, <4>5, <4>6 DEF q
      <4> QED
        BY <4>7 DEF r
    <3> QED
      BY <3>4, <3>5
  <2>3. g = [s \in SUBSET T |-> IF s = {} THEN base ELSE step[<<g[s \ {Highest(s)}], Highest(s)>>]]
    <3> DEFINE h == [s \in SUBSET T |-> IF s = {} THEN base ELSE step[<<g[s \ {Highest(s)}], Highest(s)>>]]
    <3>1. \A s \in SUBSET T : g[s] = h[s]
      <4> SUFFICES ASSUME NEW s \in SUBSET T PROVE g[s] = h[s]
        OBVIOUS
      <4>1. g[s] = IF s = {} THEN base ELSE Next(s)
        OBVIOUS
      <4>2. h[s] = IF s = {} THEN base ELSE step[<<g[s \ {Highest(s)}], Highest(s)>>]
        <5> HIDE DEF g
        <5> QED
          OBVIOUS
      <4> HIDE DEF g, h, Next
      <4> QED
        BY <2>2, <4>1, <4>2
    <3>2. /\ DOMAIN g = SUBSET T /\ DOMAIN h = SUBSET T
          /\ g = [s \in SUBSET T |-> g[s]] /\ h = [s \in SUBSET T |-> h[s]]
      OBVIOUS
    <3>3. h = g
      <4> HIDE DEF g, h
      <4> QED
        BY <3>1, <3>2
    <3> QED
      BY <3>3
  <2> HIDE DEF g
  <2> QED
    BY <2>3 DEF FoldsUp
<1> HIDE DEF Good
<1>2. SUBSET S \subseteq Good
  BY <1>1, SubsetInduction
<1> QED
  BY <1>2 DEF Good

\* Where step stays in V, so does the fold.
LEMMA FoldsStay ==
    ASSUME NEW S, IsFiniteSet(S), NEW V, NEW base \in V, NEW step \in [V \X S -> V],
           \A s \in SUBSET S : s # {} => Highest(s) \in s,
           NEW g, FoldsUp(g, base, step, S)
    PROVE  \A s \in SUBSET S : g[s] \in V
<1> DEFINE Good == {s \in SUBSET S : g[s] \in V}
<1>1. ASSUME NEW s \in SUBSET S, \A u \in SUBSET s : u # s => u \in Good
      PROVE  s \in Good
  <2>1. CASE s = {}
    BY <2>1, FoldsSay
  <2>2. CASE s # {}
    <3>1. Highest(s) \in s /\ Highest(s) \in S
      BY <2>2
    <3>2. s \ {Highest(s)} \in SUBSET s /\ s \ {Highest(s)} # s
      BY <3>1
    <3>3. g[s \ {Highest(s)}] \in V
      BY <1>1, <3>2
    <3>4. g[s] = step[<<g[s \ {Highest(s)}], Highest(s)>>]
      BY <2>2, FoldsSay
    <3> QED
      BY <3>1, <3>3, <3>4
  <2> QED
    BY <2>1, <2>2
<1> HIDE DEF Good
<1>2. SUBSET S \subseteq Good
  BY <1>1, SubsetInduction
<1> QED
  BY <1>2 DEF Good
=============================================================================
