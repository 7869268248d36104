------------------------------ MODULE Folds_proofs ------------------------------
(***************************************************************************)
(* Folds over finite sets, sums above all, as facts of first-order logic.  *)
(* Induction is by minimal counterexample: a property that fails of some   *)
(* finite set fails of one of whose proper subsets it holds.               *)
(***************************************************************************)
EXTENDS Integers, FiniteSetsExt, FiniteSetTheorems, WellFoundedInduction, TLAPS

LEMMA MinimalSet ==
  ASSUME NEW S, IsFiniteSet(S), NEW C, C # {}, C \subseteq SUBSET S
  PROVE  \E T \in C : \A U \in C : U \subseteq T => U = T
<1>1. IsWellFoundedOn(StrictSubsetOrdering(S), FiniteSubsetsOf(S))
  BY FS_StrictSubsetOrderingWellFounded
<1>2. C \subseteq FiniteSubsetsOf(S)
  BY FS_FiniteSubsetsOfFinite
<1>3. PICK T \in C : \A U \in C : ~ (<<U, T>> \in StrictSubsetOrdering(S))
  BY <1>1, <1>2, WFMin
<1>4. QED BY <1>3 DEF StrictSubsetOrdering

-------------------------------------------------------------------------------
(* A fold takes the elements of a set out one by one, as pick says. *)

IsFold(g, T, base, pick, step) ==
  \A s \in SUBSET T : g[s] = IF s = {} THEN base ELSE step[<<s, g[s \ {pick[s]}]>>]

Picks(pick, S) == \A s \in SUBSET S : s # {} => pick[s] \in s

LEMMA FoldUnique ==
  ASSUME NEW S, IsFiniteSet(S), NEW base, NEW pick, NEW step, Picks(pick, S),
         NEW T \in SUBSET S, NEW U \in SUBSET S, NEW g, NEW h,
         IsFold(g, T, base, pick, step), IsFold(h, U, base, pick, step)
  PROVE  \A s \in SUBSET (T \cap U) : g[s] = h[s]
<1> DEFINE C == {r \in SUBSET (T \cap U) : g[r] # h[r]}
<1>1. SUFFICES ASSUME C # {} PROVE FALSE
  OBVIOUS
<1>2. C \subseteq SUBSET S
  OBVIOUS
<1>3. PICK r \in C : \A u \in C : u \subseteq r => u = r
  <2> HIDE DEF C
  <2> QED BY <1>1, <1>2, MinimalSet
<1>4. r # {}
  BY DEF IsFold
<1>5. pick[r] \in r
  BY <1>4 DEF Picks
<1>6. g[r \ {pick[r]}] = h[r \ {pick[r]}]
  BY <1>3, <1>5
<1>7. QED BY <1>4, <1>6 DEF IsFold

LEMMA FoldExists ==
  ASSUME NEW S, IsFiniteSet(S), NEW A, NEW base \in A, NEW pick, Picks(pick, S),
         NEW step \in [(SUBSET S) \X A -> A]
  PROVE  \E g \in [SUBSET S -> A] : IsFold(g, S, base, pick, step)
<1> DEFINE Has(T) == \E g \in [SUBSET T -> A] : IsFold(g, T, base, pick, step)
           C == {T \in SUBSET S : ~ Has(T)}
<1>1. SUFFICES ASSUME C # {} PROVE FALSE
  OBVIOUS
<1>2. C \subseteq SUBSET S
  OBVIOUS
<1>3. PICK T \in C : \A U \in C : U \subseteq T => U = T
  <2> HIDE DEF C
  <2> QED BY <1>1, <1>2, MinimalSet
<1>4. \A U \in SUBSET T : U # T => Has(U)
  BY <1>3
<1> DEFINE fold == [U \in SUBSET T |->
                      CHOOSE g \in [SUBSET U -> A] : IsFold(g, U, base, pick, step)]
           below == [U \in SUBSET T |-> fold[U][U]]
           full == [U \in SUBSET T |->
                      IF U # T THEN below[U]
                      ELSE IF T = {} THEN base ELSE step[<<T, below[T \ {pick[T]}]>>]]
<1>5. \A U \in SUBSET T : U # T => /\ fold[U] \in [SUBSET U -> A]
                                   /\ IsFold(fold[U], U, base, pick, step)
  <2> HIDE DEF C
  <2> QED BY <1>4
<1> HIDE DEF C, Has, fold
<1>6. T \in SUBSET S /\ Picks(pick, T)
  BY <1>3 DEF C, Picks
<1>7. \A U \in SUBSET T : U # T => below[U] \in A
  BY <1>5
<1>8. \A U \in SUBSET T : U # T /\ U # {} => below[U] = step[<<U, below[U \ {pick[U]}]>>]
  <2> SUFFICES ASSUME NEW U \in SUBSET T, U # T, U # {}
               PROVE  below[U] = step[<<U, below[U \ {pick[U]}]>>]
    OBVIOUS
  <2> DEFINE V == U \ {pick[U]}
  <2>1. V \in SUBSET U /\ V \in SUBSET T /\ V # T
    OBVIOUS
  <2>2. fold[U][U] = step[<<U, fold[U][V]>>]
    BY <1>5 DEF IsFold
  <2>3. fold[U][V] = fold[V][V]
    <3> DEFINE g == fold[U]
               h == fold[V]
    <3>1. IsFold(g, U, base, pick, step) /\ IsFold(h, V, base, pick, step)
      BY <1>5, <2>1
    <3>2. U \in SUBSET S /\ V \in SUBSET S /\ V \in SUBSET (U \cap V)
      BY <1>6, <2>1
    <3> HIDE DEF V, below, full, g, h
    <3>3. \A s \in SUBSET (U \cap V) : g[s] = h[s]
      BY <3>1, <3>2, FoldUnique, SMTT(60)
    <3>4. QED BY <3>2, <3>3 DEF g, h
  <2>4. QED BY <2>1, <2>2, <2>3
<1>9. \A U \in SUBSET T : U # T /\ U = {} => below[U] = base
  BY <1>5 DEF IsFold
<1> HIDE DEF below
<1>10. full \in [SUBSET T -> A]
  BY <1>6, <1>7 DEF Picks
<1>11. IsFold(full, T, base, pick, step)
  <2>1. ASSUME NEW U \in SUBSET T
        PROVE  full[U] = IF U = {} THEN base ELSE step[<<U, full[U \ {pick[U]}]>>]
    <3>1. CASE U = T
      BY <3>1, <1>6 DEF Picks
    <3>2. CASE U # T
      BY <3>2, <1>8, <1>9
    <3>3. QED BY <3>1, <3>2
  <2>2. QED BY <2>1 DEF IsFold
<1>12. Has(T)
  BY <1>10, <1>11 DEF Has
<1>13. QED BY <1>12 DEF C

-------------------------------------------------------------------------------
(* Sums of natural numbers *)

\* the element that SumFunction takes out first
Picked(s) == CHOOSE x \in s : TRUE
PickedIn(S) == [s \in SUBSET S |-> Picked(s)]

SumEquation(g, f, S) ==
  g = [s \in SUBSET S |-> IF s = {} THEN 0 ELSE f[Picked(s)] + g[s \ {Picked(s)}]]

SumStep(f, S) == [r \in (SUBSET S) \X Nat |-> IF r[1] = {} THEN 0 ELSE f[Picked(r[1])] + r[2]]

LEMMA PickedPicks ==
  ASSUME NEW S
  PROVE  /\ Picks(PickedIn(S), S)
         /\ \A s \in SUBSET S : s # {} => PickedIn(S)[s] = Picked(s) /\ Picked(s) \in s
<1>1. ASSUME NEW s \in SUBSET S, s # {}
      PROVE  Picked(s) \in s
  BY <1>1 DEF Picked
<1>2. QED BY <1>1 DEF Picks, PickedIn

\* g holds the sum of f over every part of S.
HoldsSums(g, f, S) ==
  \A s \in SUBSET S : g[s] = IF s = {} THEN 0 ELSE f[Picked(s)] + g[s \ {Picked(s)}]

LEMMA SumsAgree ==
  ASSUME NEW S, IsFiniteSet(S), NEW f, NEW g, NEW h, HoldsSums(g, f, S),
         NEW T \in SUBSET S, NEW e, \A x \in T : e[x] = f[x], HoldsSums(h, e, T)
  PROVE  h[T] = g[T]
<1> DEFINE C == {s \in SUBSET T : g[s] # h[s]}
<1>1. SUFFICES ASSUME C # {} PROVE FALSE
  OBVIOUS
<1>2. C \subseteq SUBSET S
  OBVIOUS
<1>3. PICK r \in C : \A u \in C : u \subseteq r => u = r
  <2> HIDE DEF C
  <2> QED BY <1>1, <1>2, MinimalSet
<1>4. r # {} /\ r \in SUBSET T
  BY DEF HoldsSums
<1>5. Picked(r) \in r
  BY <1>4, PickedPicks
<1>6. g[r \ {Picked(r)}] = h[r \ {Picked(r)}]
  BY <1>3, <1>4, <1>5
<1>7. QED BY <1>4, <1>5, <1>6 DEF HoldsSums

\* The sum over every part of a finite set, by one function
LEMMA SumIsFold ==
  ASSUME NEW S, IsFiniteSet(S), NEW f, \A x \in S : f[x] \in Nat
  PROVE  \E g \in [SUBSET S -> Nat] :
HoldsSums(g, f, S) /\ SumFunctionOnSet(f, S) = g[S]
<1> DEFINE pick == PickedIn(S)
           step == SumStep(f, S)
<1>1. Picks(pick, S)
  BY PickedPicks
<1>2. step \in [(SUBSET S) \X Nat -> Nat]
  <2>1. ASSUME NEW s \in SUBSET S, NEW n \in Nat
        PROVE  (IF s = {} THEN 0 ELSE f[Picked(s)] + n) \in Nat
    BY PickedPicks
  <2>2. QED BY <2>1 DEF SumStep
<1>3. PICK g \in [SUBSET S -> Nat] : IsFold(g, S, 0, pick, step)
  <2> HIDE DEF pick, step
  <2> QED BY <1>1, <1>2, FoldExists
<1>4. \A s \in SUBSET S : s # {} => step[<<s, g[s \ {pick[s]}]>>] = f[Picked(s)] + g[s \ {Picked(s)}]
  BY PickedPicks DEF SumStep
<1>5. HoldsSums(g, f, S)
  <2> HIDE DEF pick, step
  <2> QED BY <1>3, <1>4 DEF IsFold, HoldsSums
<1>6. SumEquation(g, f, S)
  BY <1>5 DEF SumEquation, HoldsSums
<1> DEFINE h == CHOOSE k : SumEquation(k, f, S)
<1>7. SumEquation(h, f, S)
  BY <1>6
<1>8. SumFunctionOnSet(f, S) = h[S]
  BY DEF SumEquation, Picked, SumFunctionOnSet, FoldFunctionOnSet, MapThenFoldSet
<1> HIDE DEF h
<1>9. HoldsSums(h, f, S)
  BY <1>7 DEF SumEquation, HoldsSums
<1>10. h[S] = g[S]
  BY <1>5, <1>9, SumsAgree
<1>11. QED BY <1>5, <1>8, <1>10

LEMMA SumEmpty ==
  ASSUME NEW f
  PROVE  SumFunctionOnSet(f, {}) = 0
BY SumIsFold, FS_EmptySet DEF HoldsSums

LEMMA SumType ==
  ASSUME NEW S, IsFiniteSet(S), NEW f, \A x \in S : f[x] \in Nat
  PROVE  SumFunctionOnSet(f, S) \in Nat
<1>1. PICK g \in [SUBSET S -> Nat] : SumFunctionOnSet(f, S) = g[S]
  BY SumIsFold
<1>2. QED BY <1>1

\* A sum is made of its terms alone.
LEMMA SumSame ==
  ASSUME NEW S, IsFiniteSet(S), NEW f, NEW e,
         \A x \in S : f[x] \in Nat, \A x \in S : e[x] = f[x]
  PROVE  SumFunctionOnSet(e, S) = SumFunctionOnSet(f, S)
<1>1. PICK g \in [SUBSET S -> Nat] : HoldsSums(g, f, S) /\ SumFunctionOnSet(f, S) = g[S]
  BY SumIsFold
<1>2. PICK h \in [SUBSET S -> Nat] : HoldsSums(h, e, S) /\ SumFunctionOnSet(e, S) = h[S]
  BY SumIsFold
<1>3. QED BY <1>1, <1>2, SumsAgree

\* Any term may be taken out first.
LEMMA SumTakeOut ==
  ASSUME NEW S, IsFiniteSet(S), NEW f, \A x \in S : f[x] \in Nat, NEW e \in S
  PROVE  SumFunctionOnSet(f, S) = f[e] + SumFunctionOnSet(f, S \ {e})
<1>1. PICK g \in [SUBSET S -> Nat] : HoldsSums(g, f, S) /\ SumFunctionOnSet(f, S) = g[S]
  BY SumIsFold
<1>2. SumFunctionOnSet(f, S \ {e}) = g[S \ {e}]
  <2>1. IsFiniteSet(S \ {e}) /\ S \ {e} \in SUBSET S
    BY FS_RemoveElement
  <2>2. PICK h \in [SUBSET (S \ {e}) -> Nat] :
          HoldsSums(h, f, S \ {e}) /\ SumFunctionOnSet(f, S \ {e}) = h[S \ {e}]
    BY <2>1, SumIsFold
  <2>3. QED BY <1>1, <2>1, <2>2, SumsAgree
<1> DEFINE Out(s) == \A x \in s : g[s] = f[x] + g[s \ {x}]
           C == {s \in SUBSET S : ~ Out(s)}
<1>3. C = {}
  <2>1. SUFFICES ASSUME C # {} PROVE FALSE
    OBVIOUS
  <2>2. C \subseteq SUBSET S
    OBVIOUS
  <2>3. PICK r \in C : \A u \in C : u \subseteq r => u = r
    <3> HIDE DEF C
    <3> QED BY <2>1, <2>2, MinimalSet
  <2>4. PICK x \in r : g[r] # f[x] + g[r \ {x}]
    OBVIOUS
  <2> DEFINE y == Picked(r)
  <2>5. r \in SUBSET S /\ y \in r /\ g[r] = f[y] + g[r \ {y}]
    BY <1>1, <2>4, PickedPicks DEF HoldsSums
  <2> HIDE DEF y
  <2>6. x # y
    BY <2>4, <2>5
  <2>7. Out(r \ {x}) /\ Out(r \ {y})
    <3>1. \A z \in r : r \ {z} \notin C
      <4> HIDE DEF C
      <4> QED BY <2>3
    <3>2. r \ {x} \in SUBSET S /\ r \ {y} \in SUBSET S
      BY <2>5
    <3> HIDE DEF Out
    <3>3. QED BY <2>5, <3>1, <3>2
  <2>8. g[r \ {y}] = f[x] + g[(r \ {y}) \ {x}] /\ g[r \ {x}] = f[y] + g[(r \ {x}) \ {y}]
    BY <2>4, <2>5, <2>6, <2>7
  <2>9. (r \ {y}) \ {x} = (r \ {x}) \ {y} /\ (r \ {y}) \ {x} \in SUBSET S
    BY <2>5
  <2>10. f[x] \in Nat /\ f[y] \in Nat /\ g[(r \ {y}) \ {x}] \in Nat
    BY <2>4, <2>5, <2>9
  <2> DEFINE rest == g[(r \ {y}) \ {x}]
  <2>11. g[r \ {x}] = f[y] + rest /\ g[r] = f[y] + (f[x] + rest)
    BY <2>5, <2>8, <2>9
  <2> HIDE DEF C, Out, rest
  <2>12. f[x] \in Nat /\ f[y] \in Nat /\ rest \in Nat
    BY <2>10 DEF rest
  <2>13. g[r] = f[x] + g[r \ {x}]
    BY <2>11, <2>12
  <2>14. QED BY <2>4, <2>13
<1>4. QED BY <1>1, <1>2, <1>3

\* A part of a sum is no more than the whole.
LEMMA SumOfPart ==
  ASSUME NEW S, IsFiniteSet(S), NEW f, \A x \in S : f[x] \in Nat, NEW T \in SUBSET S
  PROVE  SumFunctionOnSet(f, T) <= SumFunctionOnSet(f, S)
<1> DEFINE Sum(s) == SumFunctionOnSet(f, s)
           C == {s \in SUBSET S : T \subseteq s /\ ~ (Sum(T) <= Sum(s))}
<1>1. SUFFICES ASSUME C # {} PROVE FALSE
  OBVIOUS
<1>2. C \subseteq SUBSET S
  OBVIOUS
<1>3. PICK s \in C : \A u \in C : u \subseteq s => u = s
  <2> HIDE DEF C
  <2> QED BY <1>1, <1>2, MinimalSet
<1>4. s \in SUBSET S /\ T \subseteq s /\ ~ (Sum(T) <= Sum(s))
  OBVIOUS
<1>5. \A u \in SUBSET S : Sum(u) \in Nat
  <2> SUFFICES ASSUME NEW u \in SUBSET S PROVE Sum(u) \in Nat
    OBVIOUS
  <2>1. IsFiniteSet(u) /\ \A x \in u : f[x] \in Nat
    BY FS_Subset
  <2>2. QED BY <2>1, SumType
<1> HIDE DEF Sum
<1>6. PICK x \in s : x \notin T
  <2>1. s # T
    BY <1>4, <1>5
  <2>2. QED BY <1>4, <2>1
<1>7. Sum(T) <= Sum(s \ {x})
  <2>1. s \ {x} \notin C
    <3> HIDE DEF C
    <3> QED BY <1>3, <1>6
  <2>2. s \ {x} \in SUBSET S /\ T \subseteq s \ {x}
    BY <1>4, <1>6
  <2>3. QED BY <2>1, <2>2
<1>8. Sum(s) = f[x] + Sum(s \ {x}) /\ f[x] \in Nat
  <2>1. IsFiniteSet(s) /\ \A y \in s : f[y] \in Nat
    BY <1>4, FS_Subset
  <2>2. QED BY <1>6, <2>1, SumTakeOut DEF Sum
<1>9. Sum(T) \in Nat /\ Sum(s \ {x}) \in Nat
  BY <1>4, <1>5
<1>10. QED BY <1>4, <1>7, <1>8, <1>9

-------------------------------------------------------------------------------
(* Finitely many numbers can be put in order. *)

\* (an operator, as SMT would take the subsets of such a set for sets of numbers)
Integral(S) == S \subseteq Int

LEMMA LargestOf ==
  ASSUME NEW S, IsFiniteSet(S), Integral(S), S # {}
  PROVE  \E p \in S : \A d \in S : d <= p
<1> DEFINE C == {s \in SUBSET S : s # {} /\ ~ \E p \in s : \A d \in s : d <= p}
<1>1. SUFFICES ASSUME C # {} PROVE FALSE
  OBVIOUS
<1>2. C \subseteq SUBSET S
  OBVIOUS
<1>3. PICK s \in C : \A u \in C : u \subseteq s => u = s
  <2> HIDE DEF C
  <2> QED BY <1>1, <1>2, MinimalSet
<1>4. PICK x \in s : s \in SUBSET S
  OBVIOUS
<1>5. CASE s = {x}
  <2>1. x \in Int
    BY <1>4 DEF Integral
  <2>2. QED BY <1>4, <1>5, <2>1
<1>6. CASE s # {x}
  <2>1. s \ {x} \notin C
    <3> HIDE DEF C
    <3> QED BY <1>3, <1>4
  <2>2. PICK p \in s \ {x} : \A d \in s \ {x} : d <= p
    BY <1>4, <1>6, <2>1
  <2>3. s \subseteq Int
    BY <1>4 DEF Integral
  <2>4. CASE x <= p
    BY <2>2, <2>4
  <2>5. CASE p <= x
    <3>1. \A d \in s : d <= x
      BY <1>4, <2>2, <2>3, <2>5
    <3>2. QED BY <3>1
  <2>6. QED BY <2>3, <2>4, <2>5
<1>7. QED BY <1>5, <1>6

Ascending(order) == \A i, j \in DOMAIN order : i < j => order[i] < order[j]

LEMMA OrderExists ==
  ASSUME NEW S, IsFiniteSet(S), Integral(S)
  PROVE  \E order \in [1..Cardinality(S) -> S] : Ascending(order)
<1> DEFINE Sorts(s) == \E order \in [1..Cardinality(s) -> s] : Ascending(order)
           C == {s \in SUBSET S : ~ Sorts(s)}
<1>1. SUFFICES ASSUME C # {} PROVE FALSE
  OBVIOUS
<1>2. C \subseteq SUBSET S
  OBVIOUS
<1>3. PICK s \in C : \A u \in C : u \subseteq s => u = s
  <2> HIDE DEF C
  <2> QED BY <1>1, <1>2, MinimalSet
<1>4. s \in SUBSET S /\ ~ Sorts(s)
  OBVIOUS
<1>5. CASE s = {}
  <2>1. Cardinality(s) = 0
    BY <1>5, FS_EmptySet
  <2>2. [i \in 1..0 |-> i] \in [1..Cardinality(s) -> s] /\ Ascending([i \in 1..0 |-> i])
    BY <2>1 DEF Ascending
  <2>3. QED BY <1>4, <2>2
<1>6. CASE s # {}
  <2>1. IsFiniteSet(s) /\ s \subseteq Int /\ Integral(s)
    BY <1>4, FS_Subset DEF Integral
  <2>2. PICK p \in s : \A d \in s : d <= p
    BY <1>6, <2>1, LargestOf
  <2> DEFINE t == s \ {p}
             n == Cardinality(t)
  <2>3. IsFiniteSet(t) /\ n \in Nat /\ Cardinality(s) = n + 1
    <3>1. IsFiniteSet(t) /\ Cardinality(t) = Cardinality(s) - 1
      BY <2>1, <2>2, FS_RemoveElement
    <3>2. Cardinality(s) \in Nat /\ Cardinality(t) \in Nat
      BY <2>1, <3>1, FS_CardinalityType
    <3>3. QED BY <3>1, <3>2
  <2>4. Sorts(t)
    <3>1. t \notin C
      <4> HIDE DEF C
      <4> QED BY <1>3
    <3>2. t \in SUBSET S
      BY <1>4
    <3> HIDE DEF Sorts, t
    <3>3. QED BY <3>1, <3>2
  <2>5. PICK order \in [1..n -> t] : Ascending(order)
    BY <2>4
  <2> DEFINE longer == [i \in 1..(n + 1) |-> IF i = n + 1 THEN p ELSE order[i]]
  <2> HIDE DEF n
  <2>6. longer \in [1..(n + 1) -> s]
    BY <2>3
  <2>7. Ascending(longer)
    <3> SUFFICES ASSUME NEW i \in 1..(n + 1), NEW j \in 1..(n + 1), i < j
                 PROVE  longer[i] < longer[j]
      BY DEF Ascending
    <3>1. i \in 1..n /\ order[i] \in t /\ longer[i] = order[i]
      BY <2>3
    <3>2. CASE j = n + 1
      <4>1. order[i] \in Int /\ p \in Int /\ order[i] <= p /\ order[i] # p
        BY <2>1, <2>2, <3>1
      <4>2. QED BY <3>1, <3>2, <4>1
    <3>3. CASE j # n + 1
      BY <2>3, <2>5, <3>1, <3>3 DEF Ascending
    <3>4. QED BY <3>2, <3>3
  <2>8. QED BY <1>4, <2>3, <2>6, <2>7
<1>7. QED BY <1>5, <1>6

LEMMA OrderIsComplete ==
  ASSUME NEW S, IsFiniteSet(S), Integral(S),
         NEW order \in [1..Cardinality(S) -> S], Ascending(order)
  PROVE  /\ Cardinality(S) \in Nat
         /\ \A x \in S : \E i \in 1..Cardinality(S) : order[i] = x
         /\ \A i, j \in 1..Cardinality(S) : order[i] = order[j] => i = j
<1> DEFINE n == Cardinality(S)
<1>1. n \in Nat
  BY FS_CardinalityType
<1> HIDE DEF n
<1>2. \A i, j \in 1..n : order[i] = order[j] => i = j
  <2> SUFFICES ASSUME NEW i \in 1..n, NEW j \in 1..n, order[i] = order[j], i # j PROVE FALSE
    OBVIOUS
  <2>1. order[i] \in Int
    BY DEF n, Integral
  <2>2. i < j \/ j < i
    BY <1>1
  <2>3. order[i] < order[j] \/ order[j] < order[i]
    BY <2>2 DEF Ascending, n
  <2>4. QED BY <2>1, <2>3
<1>3. order \in Injection(1..n, S)
  BY <1>2 DEF Injection, IsInjective, n
<1>4. IsFiniteSet(1..n) /\ Cardinality(1..n) = n
  <2>1. 1 \in Int /\ n \in Int
    BY <1>1
  <2>2. QED BY <1>1, <2>1, FS_Interval
<1>5. order \in Surjection(1..n, S)
  BY <1>3, <1>4, FS_Injection DEF n
<1>6. \A x \in S : \E i \in 1..n : order[i] = x
  BY <1>5 DEF Surjection
<1>7. QED BY <1>1, <1>2, <1>6 DEF n

-------------------------------------------------------------------------------
(* Left folds of sequences, which take the largest index out first *)

LEMMA MaxOf ==
  ASSUME NEW S, IsFiniteSet(S), Integral(S), S # {}
  PROVE  Max(S) \in S /\ \A y \in S : y <= Max(S)
<1>1. PICK p \in S : \A d \in S : d <= p
  BY LargestOf
<1>2. \A d \in S : p >= d
  <2> SUFFICES ASSUME NEW d \in S PROVE p >= d
    OBVIOUS
  <2>1. p \in Int /\ d \in Int /\ d <= p
    BY <1>1 DEF Integral
  <2>2. QED BY <2>1
<1>3. Max(S) \in S /\ \A y \in S : Max(S) >= y
  BY <1>2 DEF Max
<1>4. ASSUME NEW y \in S PROVE y <= Max(S)
  <2>1. y \in Int /\ Max(S) \in Int /\ Max(S) >= y
    BY <1>3 DEF Integral
  <2>2. QED BY <2>1
<1>5. QED BY <1>3, <1>4

LEMMA MaxOfInterval ==
  ASSUME NEW k \in Nat, k # 0
  PROVE  Max(1..k) = k /\ (1..k) \ {k} = 1..(k - 1)
<1>1. IsFiniteSet(1..k) /\ Integral(1..k) /\ k \in 1..k
  BY FS_Interval DEF Integral
<1>2. Max(1..k) \in 1..k /\ k <= Max(1..k)
  BY <1>1, MaxOf
<1>3. QED BY <1>2

\* the element a left fold takes out first
LastIn(S) == [s \in SUBSET S |-> Max(s)]

IsLeftFold(g, n, base, seq, step) ==
  \A s \in SUBSET (1..n) :
    g[s] = IF s = {} THEN base ELSE step[<<g[s \ {Max(s)}], seq[Max(s)]>>]

\* Every left fold with a typed step is a function of the sets of indices folded.
LEMMA LeftFoldExists ==
  ASSUME NEW n \in Nat, NEW A, NEW base \in A, NEW B, NEW seq \in [1..n -> B],
         NEW step \in [A \X B -> A]
  PROVE  \E g \in [SUBSET (1..n) -> A] : IsLeftFold(g, n, base, seq, step)
<1> DEFINE S == 1..n
           pick == LastIn(S)
           turn == [r \in (SUBSET S) \X A |-> IF r[1] = {} THEN r[2] ELSE step[<<r[2], seq[Max(r[1])]>>]]
<1>1. IsFiniteSet(S) /\ Integral(S)
  BY FS_Interval DEF Integral
<1>2. \A s \in SUBSET S : s # {} => Max(s) \in s
  <2> SUFFICES ASSUME NEW s \in SUBSET S, s # {} PROVE Max(s) \in s
    OBVIOUS
  <2>1. IsFiniteSet(s) /\ Integral(s)
    BY <1>1, FS_Subset DEF Integral
  <2>2. QED BY <2>1, MaxOf
<1> HIDE DEF S
<1>3. Picks(pick, S)
  BY <1>2 DEF Picks, LastIn
<1>4. \A s \in SUBSET S : s # {} => seq[Max(s)] \in B
  BY <1>2 DEF S
<1>5. turn \in [(SUBSET S) \X A -> A]
  <2>1. ASSUME NEW s \in SUBSET S, NEW a \in A
        PROVE  (IF s = {} THEN a ELSE step[<<a, seq[Max(s)]>>]) \in A
    BY <1>4
  <2>2. QED BY <2>1
<1>6. PICK g \in [SUBSET S -> A] : IsFold(g, S, base, pick, turn)
  <2> HIDE DEF pick, turn
  <2> QED BY <1>1, <1>3, <1>5, FoldExists
<1>7. ASSUME NEW s \in SUBSET S
      PROVE  g[s] = IF s = {} THEN base ELSE step[<<g[s \ {Max(s)}], seq[Max(s)]>>]
  <2>1. g[s] = IF s = {} THEN base ELSE turn[<<s, g[s \ {pick[s]}]>>]
    <3> HIDE DEF pick, turn
    <3> QED BY <1>6 DEF IsFold
  <2>2. pick[s] = Max(s) /\ g[s \ {Max(s)}] \in A
    BY DEF LastIn
  <2>3. s # {} => turn[<<s, g[s \ {Max(s)}]>>] = step[<<g[s \ {Max(s)}], seq[Max(s)]>>]
    BY <2>2
  <2> HIDE DEF pick, turn
  <2>4. QED BY <2>1, <2>2, <2>3
<1>8. QED BY <1>7 DEF S, IsLeftFold

\* A property of the prefixes of an interval that holds of the first and goes
\* from each to the next holds of all (C, where it does not, is a set of numbers).
LEMMA PartOfInterval ==
  ASSUME NEW n \in Nat, NEW C, C \subseteq 0..n
  PROVE  IsFiniteSet(C) /\ Integral(C)
<1>1. PICK S : S = 0..n
  OBVIOUS
<1>2. IsFiniteSet(S)
  BY <1>1, FS_Interval
<1>3. C \in SUBSET S
  BY <1>1
<1>4. IsFiniteSet(C)
  BY <1>2, <1>3, FS_Subset
<1>5. QED BY <1>4 DEF Integral

LEMMA NoFirstFailure ==
  ASSUME NEW n \in Nat, NEW C, C \subseteq 0..n, 0 \notin C,
         \A k \in 1..n : k \in C => k - 1 \in C
  PROVE  C = {}
<1>1. SUFFICES ASSUME C # {} PROVE FALSE
  OBVIOUS
<1>2. PICK E : E = {n - j : j \in C}
  OBVIOUS
<1>3. E \subseteq 0..n /\ E # {}
  <2>1. \A j \in C : n - j \in 0..n
    OBVIOUS
  <2>2. E # {}
    BY <1>1, <1>2, Zenon
  <2>3. \A p \in E : p \in 0..n
    BY <1>2, <2>1, Zenon
  <2>4. QED BY <2>2, <2>3, Zenon
<1>4. PICK p \in E : \A d \in E : d <= p
  BY <1>3, PartOfInterval, LargestOf
<1>5. PICK k \in C : p = n - k
  BY <1>2
<1>6. \A j \in C : n - j <= n - k
  BY <1>2, <1>4, <1>5
<1>7. k \in 1..n
  OBVIOUS
<1>8. k - 1 \in C
  BY <1>7
<1>9. n - (k - 1) <= n - k
  BY <1>6, <1>8
<1>10. QED BY <1>7, <1>9

\* of numbers up to n
LEMMA LeastOf ==
  ASSUME NEW n \in Nat, NEW S, S \subseteq 0..n, S # {}
  PROVE  Min(S) \in S
<1>1. PICK E : E = {n - j : j \in S}
  OBVIOUS
<1>2. E \subseteq 0..n /\ E # {}
  <2>1. \A j \in S : n - j \in 0..n
    OBVIOUS
  <2>2. E # {}
    BY <1>1, Zenon
  <2>3. \A p \in E : p \in 0..n
    BY <1>1, <2>1, Zenon
  <2>4. QED BY <2>2, <2>3, Zenon
<1>3. PICK p \in E : \A d \in E : d <= p
  BY <1>2, PartOfInterval, LargestOf
<1>4. PICK k \in S : p = n - k
  BY <1>1
<1>5. \A j \in S : n - j <= n - k
  BY <1>1, <1>3, <1>4
<1>6. \A j \in S : k <= j
  BY <1>5
<1>7. QED BY <1>6 DEF Min

\* Parts of an interval, built up by ever larger elements
LEMMA LargestInPart ==
  ASSUME NEW n \in Nat, NEW s \in SUBSET (1..n), s # {}
  PROVE  Max(s) \in s
<1>1. s \subseteq 0..n
  OBVIOUS
<1>2. QED BY <1>1, PartOfInterval, MaxOf

LEMMA BuiltUp ==
  ASSUME NEW n \in Nat, NEW G, {} \in G,
         \A s \in SUBSET (1..n) : s # {} /\ s \ {Max(s)} \in G => s \in G
  PROVE  1..n \in G
<1> DEFINE C == {s \in SUBSET (1..n) : s \notin G}
<1>1. SUFFICES ASSUME C # {} PROVE FALSE
  OBVIOUS
<1>2. PICK S : S = 1..n
  OBVIOUS
<1>3. IsFiniteSet(S) /\ C \subseteq SUBSET S
  BY <1>2, FS_Interval
<1>4. PICK s \in C : \A u \in C : u \subseteq s => u = s
  <2> HIDE DEF C
  <2> QED BY <1>1, <1>3, MinimalSet
<1>5. s \in SUBSET (1..n) /\ s # {} /\ s \notin G
  BY <1>4
<1>6. Max(s) \in s
  BY <1>5, LargestInPart
<1>7. s \ {Max(s)} \in G
  BY <1>4, <1>5, <1>6
<1>8. QED BY <1>5, <1>7

-------------------------------------------------------------------------------
(* A left fold is a loop over the sequence, if its step keeps some set A.     *)

IsLoop(f, seq, base, step, A, B) ==
  /\ f = [s \in SUBSET DOMAIN seq |->
            IF s = {} THEN base ELSE step[<<f[s \ {Max(s)}], seq[Max(s)]>>]]
  /\ \A s \in SUBSET DOMAIN seq : s # {} => f[s \ {Max(s)}] \in A /\ seq[Max(s)] \in B

LEMMA LoopExists ==
  ASSUME NEW n \in Nat, NEW A, NEW base \in A, NEW B, NEW seq \in [1..n -> B],
         NEW step \in [A \X B -> A]
  PROVE  \E f : IsLoop(f, seq, base, step, A, B)
<1>1. PICK f \in [SUBSET (1..n) -> A] : IsLeftFold(f, n, base, seq, step)
  BY LeftFoldExists
<1>2. PICK T : T = 1..n
  OBVIOUS
<1>3. \A s \in SUBSET T : s # {} => Max(s) \in s
  BY <1>2, LargestInPart
<1>4. f \in [SUBSET T -> A] /\ seq \in [T -> B] /\ DOMAIN seq = T
  BY <1>1, <1>2
<1>5. \A s \in SUBSET T : f[s] = IF s = {} THEN base ELSE step[<<f[s \ {Max(s)}], seq[Max(s)]>>]
  BY <1>1, <1>2 DEF IsLeftFold
<1>6. \A s \in SUBSET T : s # {} => f[s \ {Max(s)}] \in A /\ seq[Max(s)] \in B
  BY <1>3, <1>4
<1>7. QED BY <1>4, <1>5, <1>6 DEF IsLoop

\* what the loop has after i turns
LEMMA FirstTurns ==
  ASSUME NEW n \in Nat
  PROVE  /\ 1..0 = {} /\ {} \in SUBSET (1..n)
         /\ \A i \in 1..n : /\ 1..i \in SUBSET (1..n) /\ 1..i # {}
                            /\ Max(1..i) = i /\ (1..i) \ {i} = 1..(i - 1)
<1>1. ASSUME NEW i \in 1..n
      PROVE  /\ 1..i \in SUBSET (1..n) /\ 1..i # {}
             /\ Max(1..i) = i /\ (1..i) \ {i} = 1..(i - 1)
  BY MaxOfInterval
<1>2. QED BY <1>1
===============================================================================
