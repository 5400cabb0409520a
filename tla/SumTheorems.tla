---------------------------- MODULE SumTheorems ----------------------------
(***************************************************************************)
(* What a sum over a finite set is worth: SumFunctionOnSet of the module   *)
(* Functions is a recursive function that picks the elements in an order   *)
(* CHOOSE decides.  These facts say that the recursion is well defined and *)
(* that the order does not matter, which is all a proof about balances     *)
(* needs.                                                                  *)
(*                                                                         *)
(* An induction is a proof that the set of counterexamples is empty: a set *)
(* of finite sets that is not empty has a minimal element (Minimal below). *)
(***************************************************************************)
EXTENDS Functions, FiniteSetTheorems, TLAPS

Chosen(s) == CHOOSE x \in s : TRUE

\* One step of the recursion: g is the sum of the smaller sets.
SumStep(f, g, s) == IF s = {} THEN 0 ELSE f[Chosen(s)] + g[s \ {Chosen(s)}]

\* g is the sum of f over every set in sets.
SumsOver(f, g, sets) == g = [s \in sets |-> SumStep(f, g, s)]

\* Among subsets of a finite set there is always one that has no proper
\* subset among them.
LEMMA Minimal ==
    ASSUME NEW S, IsFiniteSet(S), NEW Bad, Bad \subseteq SUBSET S, Bad # {}
    PROVE  \E s \in Bad : \A u \in SUBSET s : u \in Bad => u = s
<1>1. FiniteSubsetsOf(S) = SUBSET S
  BY FS_FiniteSubsetsOfFinite
<1>2. IsWellFoundedOn(StrictSubsetOrdering(S), FiniteSubsetsOf(S))
  BY FS_StrictSubsetOrderingWellFounded
<1>3. PICK s \in Bad : \A u \in Bad : <<u, s>> \notin StrictSubsetOrdering(S)
  BY <1>1, <1>2, WFMin
<1>4. ASSUME NEW u \in SUBSET s, u \in Bad, u # s
      PROVE  FALSE
  <2>1. <<u, s>> \in (SUBSET S) \X (SUBSET S)
    BY <1>4
  <2>2. <<u, s>> \in StrictSubsetOrdering(S)
    BY <1>4, <2>1 DEF StrictSubsetOrdering
  <2> QED
    BY <1>3, <1>4, <2>2
<1> QED
  BY <1>4

\* A set that is not empty contains its chosen element.
LEMMA ChosenIn ==
    ASSUME NEW s, s # {}
    PROVE  Chosen(s) \in s
  BY DEF Chosen

\* For every n there is a function that sums f over the subsets of S of at
\* most n elements.
LEMMA SumExistsUpTo ==
    ASSUME NEW f, NEW S, IsFiniteSet(S)
    PROVE  \A n \in Nat : \E g : SumsOver(f, g, {s \in SUBSET S : Cardinality(s) <= n})
<1> DEFINE Upto(n) == {s \in SUBSET S : Cardinality(s) <= n}
           Bad == {n \in Nat : ~ \E g : SumsOver(f, g, Upto(n))}
<1>0. \A s \in SUBSET S : IsFiniteSet(s) /\ Cardinality(s) \in Nat
  BY FS_Subset, FS_CardinalityType
<1>1. ASSUME Bad # {}
      PROVE  FALSE
  <2>1. PICK n \in Bad : \A k \in Bad : ~ (<<k, n>> \in OpToRel(<, Nat))
    BY <1>1, WFMin, NatLessThanWellFounded
  <2>2. \A k \in Nat : k < n => k \notin Bad
    BY <2>1 DEF OpToRel
  <2>3. CASE n = 0
    <3> DEFINE g == [s \in Upto(0) |-> 0]
    <3>1. \A s \in Upto(0) : s = {}
      BY <1>0, FS_EmptySet
    <3>2. SumsOver(f, g, Upto(0))
      BY <3>1 DEF SumsOver, SumStep
    <3> QED
      BY <2>3, <3>2
  <2>4. CASE n # 0
    <3>1. n - 1 \in Nat /\ n - 1 < n
      BY <2>4
    <3>2. PICK g : SumsOver(f, g, Upto(n - 1))
      BY <2>2, <3>1
    <3> DEFINE h == [s \in Upto(n) |-> SumStep(f, g, s)]
    <3>3. ASSUME NEW s \in Upto(n), s # {}
          PROVE  h[s \ {Chosen(s)}] = g[s \ {Chosen(s)}]
      <4> DEFINE u == s \ {Chosen(s)}
      <4>1. u \in SUBSET S /\ Cardinality(u) = Cardinality(s) - 1
        BY <1>0, <3>3, ChosenIn, FS_RemoveElement
      <4>2. Cardinality(s) \in Nat /\ Cardinality(s) <= n /\ Cardinality(u) \in Nat
        BY <1>0, <4>1
      <4>3. u \in Upto(n - 1) /\ u \in Upto(n)
        BY <4>1, <4>2, <3>1
      <4>4. g[u] = SumStep(f, g, u)
        BY <3>2, <4>3 DEF SumsOver
      <4> QED
        BY <4>3, <4>4
    <3>4. \A s \in Upto(n) : h[s] = SumStep(f, h, s)
      BY <3>3 DEF SumStep
    <3>5. SumsOver(f, h, Upto(n))
      BY <3>4 DEF SumsOver
    <3> QED
      BY <3>5
  <2> QED
    BY <2>3, <2>4
<1> QED
  BY <1>1

\* The recursion that defines a sum over a finite set has a solution, and the
\* sum is its value.
LEMMA SumIsSolution ==
    ASSUME NEW f, NEW S, IsFiniteSet(S)
    PROVE  \E g : SumsOver(f, g, SUBSET S) /\ SumFunctionOnSet(f, S) = g[S]
<1> DEFINE g == CHOOSE h : h = [s \in SUBSET S |-> SumStep(f, h, s)]
<1>1. SumFunctionOnSet(f, S) = g[S]
  BY DEF SumFunctionOnSet, FoldFunctionOnSet, MapThenFoldSet, SumStep, Chosen
<1>2. Cardinality(S) \in Nat
  BY FS_CardinalityType
<1>3. {s \in SUBSET S : Cardinality(s) <= Cardinality(S)} = SUBSET S
  BY FS_Subset
<1>4. \E h : SumsOver(f, h, {s \in SUBSET S : Cardinality(s) <= Cardinality(S)})
  <2> HIDE DEF g
  <2>1. \A n \in Nat : \E h : SumsOver(f, h, {s \in SUBSET S : Cardinality(s) <= n})
    BY SumExistsUpTo
  <2> QED
    BY <1>2, <2>1
<1>5. SumsOver(f, g, SUBSET S)
  BY <1>3, <1>4 DEF SumsOver
<1> QED
  BY <1>1, <1>5

\* Two functions that sum f over all subsets of a finite set agree.
LEMMA SumUnique ==
    ASSUME NEW f, NEW S, IsFiniteSet(S), NEW T, NEW g, NEW h, S \subseteq T,
           SumsOver(f, g, SUBSET T), SumsOver(f, h, SUBSET S)
    PROVE  \A s \in SUBSET S : g[s] = h[s]
<1> DEFINE Bad == {s \in SUBSET S : g[s] # h[s]}
<1>1. ASSUME Bad # {}
      PROVE  FALSE
  <2>0. \E s \in Bad : \A u \in SUBSET s : u \in Bad => u = s
    <3>1. Bad \subseteq SUBSET S
      OBVIOUS
    <3> HIDE DEF Bad
    <3> QED
      BY <1>1, <3>1, Minimal
  <2>1. PICK s \in Bad : \A u \in SUBSET s : u \in Bad => u = s
    BY <2>0
  <2>2. s \in SUBSET T /\ g[s] = SumStep(f, g, s) /\ h[s] = SumStep(f, h, s)
    BY DEF SumsOver
  <2>3. CASE s = {}
    BY <2>2, <2>3 DEF SumStep
  <2>4. CASE s # {}
    <3>1. s \ {Chosen(s)} \notin Bad /\ s \ {Chosen(s)} \in SUBSET S
      BY <2>1, <2>4, ChosenIn
    <3> QED
      BY <2>2, <2>4, <3>1 DEF SumStep
  <2> QED
    BY <2>3, <2>4
<1> QED
  BY <1>1

\* The sum over no element is 0.
THEOREM SumEmpty == \A f : SumFunctionOnSet(f, {}) = 0
<1> SUFFICES ASSUME NEW f PROVE SumFunctionOnSet(f, {}) = 0
  OBVIOUS
<1>1. PICK g : SumsOver(f, g, SUBSET {}) /\ SumFunctionOnSet(f, {}) = g[{}]
  BY FS_EmptySet, SumIsSolution
<1> QED
  BY <1>1 DEF SumsOver, SumStep

\* The recursion: the chosen element and the sum over the others.
LEMMA SumUnfold ==
    ASSUME NEW f, NEW S, IsFiniteSet(S), S # {}
    PROVE  SumFunctionOnSet(f, S) = f[Chosen(S)] + SumFunctionOnSet(f, S \ {Chosen(S)})
<1> DEFINE T == S \ {Chosen(S)}
<1>1. IsFiniteSet(T)
  BY FS_RemoveElement
<1>2. PICK g : SumsOver(f, g, SUBSET S) /\ SumFunctionOnSet(f, S) = g[S]
  BY SumIsSolution
<1>3. PICK h : SumsOver(f, h, SUBSET T) /\ SumFunctionOnSet(f, T) = h[T]
  BY <1>1, SumIsSolution
<1>4. g[T] = h[T]
  <2>1. T \subseteq S /\ T \in SUBSET T
    OBVIOUS
  <2> HIDE DEF T
  <2> QED
    BY <2>1, <1>1, <1>2, <1>3, SumUnique
<1>5. g[S] = f[Chosen(S)] + g[T]
  BY <1>2 DEF SumsOver, SumStep
<1> QED
  BY <1>2, <1>3, <1>4, <1>5

\* A sum of integers is an integer.
THEOREM SumType ==
    ASSUME NEW f, NEW S, IsFiniteSet(S), \A x \in S : f[x] \in Int
    PROVE  SumFunctionOnSet(f, S) \in Int
<1> DEFINE Bad == {s \in SUBSET S : SumFunctionOnSet(f, s) \notin Int}
<1>1. ASSUME Bad # {}
      PROVE  FALSE
  <2>0. \E s \in Bad : \A u \in SUBSET s : u \in Bad => u = s
    <3>1. Bad \subseteq SUBSET S
      OBVIOUS
    <3> HIDE DEF Bad
    <3> QED
      BY <1>1, <3>1, Minimal
  <2>1. PICK s \in Bad : \A u \in SUBSET s : u \in Bad => u = s
    BY <2>0
  <2>2. s # {}
    BY SumEmpty
  <2>3. Chosen(s) \in s /\ IsFiniteSet(s)
    BY <2>2, ChosenIn, FS_Subset
  <2>4. SumFunctionOnSet(f, s \ {Chosen(s)}) \in Int
    BY <2>1, <2>3
  <2> QED
    BY <2>2, <2>3, <2>4, SumUnfold
<1> QED
  BY <1>1

\* Any element may be taken out first: the order CHOOSE decides is immaterial.
THEOREM SumRemove ==
    ASSUME NEW f, NEW S, IsFiniteSet(S), \A x \in S : f[x] \in Int, NEW a \in S
    PROVE  SumFunctionOnSet(f, S) = f[a] + SumFunctionOnSet(f, S \ {a})
<1> DEFINE Sum(s) == SumFunctionOnSet(f, s)
           Fails(s, x) == Sum(s) # f[x] + Sum(s \ {x})
           Bad == {s \in SUBSET S : \E x \in s : Fails(s, x)}
<1>1. \A s \in SUBSET S : IsFiniteSet(s)
  BY FS_Subset
<1>2. \A s \in SUBSET S : Sum(s) \in Int
  BY <1>1, SumType
<1>3. ASSUME Bad # {}
      PROVE  FALSE
  <2>0. \E s \in Bad : \A u \in SUBSET s : u \in Bad => u = s
    <3>1. Bad \subseteq SUBSET S
      OBVIOUS
    <3> HIDE DEF Bad
    <3> QED
      BY <1>3, <3>1, Minimal
  <2>1. PICK s \in Bad : \A u \in SUBSET s : u \in Bad => u = s
    BY <2>0
  <2>2. PICK x \in s : Fails(s, x)
    OBVIOUS
  <2> DEFINE c == Chosen(s)
  <2>3. c \in s /\ Sum(s) = f[c] + Sum(s \ {c})
    BY <1>1, <2>2, ChosenIn, SumUnfold
  <2>4. CASE c = x
    BY <2>2, <2>3, <2>4
  <2>5. CASE c # x
    <3> HIDE DEF c
    <3>0. s \ {c} \in SUBSET S /\ s \ {x} \in SUBSET S /\ x \in S /\ c \in S
      BY <2>2, <2>3
    <3>1. s \ {c} \notin Bad /\ s \ {x} \notin Bad
      <4>1. s \ {c} \in SUBSET s /\ s \ {c} # s /\ s \ {x} \in SUBSET s /\ s \ {x} # s
        BY <2>2, <2>3
      <4> QED
        BY <2>1, <4>1
    <3>2. Sum(s \ {c}) = f[x] + Sum((s \ {c}) \ {x})
      BY <2>2, <2>5, <3>0, <3>1
    <3>3. Sum(s \ {x}) = f[c] + Sum((s \ {x}) \ {c})
      BY <2>3, <2>5, <3>0, <3>1
    <3>4. (s \ {c}) \ {x} = (s \ {x}) \ {c}
      OBVIOUS
    <3>5. Sum((s \ {x}) \ {c}) \in Int /\ f[c] \in Int /\ f[x] \in Int
      BY <1>2, <3>0
    <3>6. Sum(s) = f[c] + (f[x] + Sum((s \ {x}) \ {c}))
      BY <2>3, <3>2, <3>4
    <3>7. \A i, j, k \in Int : i + (j + k) = j + (i + k)
      OBVIOUS
    <3>8. Sum(s) = f[x] + Sum(s \ {x})
      BY <3>3, <3>5, <3>6, <3>7
    <3> QED
      BY <2>2, <3>8
  <2> QED
    BY <2>4, <2>5
<1> QED
  BY <1>3

\* Adding a new element adds its value.
THEOREM SumAdd ==
    ASSUME NEW f, NEW S, IsFiniteSet(S), NEW a, a \notin S,
           \A x \in S \cup {a} : f[x] \in Int
    PROVE  SumFunctionOnSet(f, S \cup {a}) = f[a] + SumFunctionOnSet(f, S)
<1>1. IsFiniteSet(S \cup {a}) /\ a \in S \cup {a} /\ (S \cup {a}) \ {a} = S
  BY FS_AddElement
<1> QED
  BY <1>1, SumRemove

\* A sum depends only on the values the set selects.
THEOREM SumSame ==
    ASSUME NEW f, NEW g, NEW S, IsFiniteSet(S), \A x \in S : f[x] = g[x]
    PROVE  SumFunctionOnSet(f, S) = SumFunctionOnSet(g, S)
<1> DEFINE Bad == {s \in SUBSET S : SumFunctionOnSet(f, s) # SumFunctionOnSet(g, s)}
<1>1. ASSUME Bad # {}
      PROVE  FALSE
  <2>0. \E s \in Bad : \A u \in SUBSET s : u \in Bad => u = s
    <3>1. Bad \subseteq SUBSET S
      OBVIOUS
    <3> HIDE DEF Bad
    <3> QED
      BY <1>1, <3>1, Minimal
  <2>1. PICK s \in Bad : \A u \in SUBSET s : u \in Bad => u = s
    BY <2>0
  <2>2. s # {}
    BY SumEmpty
  <2>3. Chosen(s) \in s /\ IsFiniteSet(s)
    BY <2>2, ChosenIn, FS_Subset
  <2>4. SumFunctionOnSet(f, s \ {Chosen(s)}) = SumFunctionOnSet(g, s \ {Chosen(s)})
    BY <2>1, <2>3
  <2> QED
    BY <2>2, <2>3, <2>4, SumUnfold
<1> QED
  BY <1>1

\* Changing the value of one element changes the sum by the difference.
THEOREM SumUpdate ==
    ASSUME NEW f, NEW g, NEW S, IsFiniteSet(S), NEW a \in S,
           \A x \in S : f[x] \in Int /\ g[x] \in Int,
           \A x \in S \ {a} : g[x] = f[x]
    PROVE  SumFunctionOnSet(g, S) = SumFunctionOnSet(f, S) - f[a] + g[a]
<1>1. IsFiniteSet(S \ {a})
  BY FS_RemoveElement
<1>2. SumFunctionOnSet(g, S) = g[a] + SumFunctionOnSet(g, S \ {a})
  BY SumRemove
<1>3. SumFunctionOnSet(f, S) = f[a] + SumFunctionOnSet(f, S \ {a})
  BY SumRemove
<1>4. SumFunctionOnSet(g, S \ {a}) = SumFunctionOnSet(f, S \ {a})
  BY <1>1, SumSame
<1>5. SumFunctionOnSet(f, S \ {a}) \in Int
  BY <1>1, SumType
<1> QED
  BY <1>2, <1>3, <1>4, <1>5

----------------------------------------------------------------------------
(* The same for SumFunction, which adds up a whole function.               *)

\* The functions over a finite set whose values are integers.
Summable(f) == IsFiniteSet(DOMAIN f) /\ \A x \in DOMAIN f : f[x] \in Int

\* The sum of a function without arguments is 0.
LEMMA SumOfNothing ==
    ASSUME NEW f, DOMAIN f = {}
    PROVE  SumFunction(f) = 0 /\ Summable(f)
  BY SumEmpty, FS_EmptySet DEF SumFunction, Summable

\* A function with one argument more has that argument's value more.
LEMMA SumOfExtended ==
    ASSUME NEW f, NEW g, NEW a, Summable(f), a \notin DOMAIN f, g[a] \in Int,
           DOMAIN g = DOMAIN f \cup {a}, \A x \in DOMAIN f : g[x] = f[x]
    PROVE  SumFunction(g) = SumFunction(f) + g[a] /\ Summable(g)
<1> DEFINE S == DOMAIN f
<1>1. IsFiniteSet(S) /\ IsFiniteSet(S \cup {a}) /\ \A x \in S \cup {a} : g[x] \in Int
  BY FS_AddElement DEF Summable
<1>2. SumFunctionOnSet(g, S \cup {a}) = g[a] + SumFunctionOnSet(g, S)
  BY <1>1, SumAdd
<1>3. SumFunctionOnSet(g, S) = SumFunctionOnSet(f, S)
  BY <1>1, SumSame
<1>4. SumFunctionOnSet(f, S) \in Int
  BY <1>1, SumType DEF Summable
<1>5. SumFunction(g) = SumFunctionOnSet(g, S \cup {a}) /\ SumFunction(f) = SumFunctionOnSet(f, S)
  BY DEF SumFunction
<1> QED
  BY <1>1, <1>2, <1>3, <1>4, <1>5 DEF Summable

\* A function with one argument less has that argument's value less.
LEMMA SumOfReduced ==
    ASSUME NEW f, NEW g, Summable(f), NEW a \in DOMAIN f,
           DOMAIN g = DOMAIN f \ {a}, \A x \in DOMAIN g : g[x] = f[x]
    PROVE  SumFunction(g) = SumFunction(f) - f[a] /\ Summable(g)
<1>1. Summable(g)
  BY FS_RemoveElement DEF Summable
<1>2. a \notin DOMAIN g /\ f[a] \in Int /\ DOMAIN f = DOMAIN g \cup {a}
  BY DEF Summable
<1>3. SumFunction(f) = SumFunction(g) + f[a]
  BY <1>1, <1>2, SumOfExtended
<1>4. SumFunction(g) \in Int
  BY <1>1, SumType DEF SumFunction, Summable
<1> QED
  BY <1>1, <1>2, <1>3, <1>4

\* Changing one value changes the sum by the difference.
LEMMA SumOfUpdated ==
    ASSUME NEW f, NEW g, Summable(f), NEW a \in DOMAIN f, g[a] \in Int,
           DOMAIN g = DOMAIN f, \A x \in DOMAIN f : x # a => g[x] = f[x]
    PROVE  SumFunction(g) = SumFunction(f) - f[a] + g[a] /\ Summable(g)
<1> DEFINE S == DOMAIN f
<1>1. IsFiniteSet(S) /\ \A x \in S : f[x] \in Int /\ g[x] \in Int
  BY DEF Summable
<1>2. \A x \in S \ {a} : g[x] = f[x]
  OBVIOUS
<1>3. SumFunctionOnSet(g, S) = SumFunctionOnSet(f, S) - f[a] + g[a]
  BY <1>1, <1>2, SumUpdate
<1> QED
  BY <1>1, <1>3 DEF SumFunction, Summable

\* Two functions that agree on one finite domain have one sum.
LEMMA SumOfSame ==
    ASSUME NEW f, NEW g, Summable(f), DOMAIN g = DOMAIN f,
           \A x \in DOMAIN f : f[x] = g[x]
    PROVE  SumFunction(g) = SumFunction(f) /\ Summable(g)
  BY SumSame DEF SumFunction, Summable

\* A sum is an integer.
LEMMA SumOfSummable ==
    ASSUME NEW f, Summable(f)
    PROVE  SumFunction(f) \in Int
  BY SumType DEF SumFunction, Summable

\* A sum of naturals is a natural.
LEMMA SumOfNaturals ==
    ASSUME NEW f, IsFiniteSet(DOMAIN f), \A x \in DOMAIN f : f[x] \in Nat
    PROVE  SumFunction(f) \in Nat
<1> DEFINE S == DOMAIN f
           Bad == {s \in SUBSET S : SumFunctionOnSet(f, s) \notin Nat}
<1>1. ASSUME Bad # {}
      PROVE  FALSE
  <2>0. \E s \in Bad : \A u \in SUBSET s : u \in Bad => u = s
    <3>1. Bad \subseteq SUBSET S
      OBVIOUS
    <3> HIDE DEF Bad
    <3> QED
      BY <1>1, <3>1, Minimal
  <2>1. PICK s \in Bad : \A u \in SUBSET s : u \in Bad => u = s
    BY <2>0
  <2>2. s # {}
    BY SumEmpty
  <2>3. Chosen(s) \in s /\ IsFiniteSet(s)
    BY <2>2, ChosenIn, FS_Subset
  <2>4. SumFunctionOnSet(f, s \ {Chosen(s)}) \in Nat
    BY <2>1, <2>3
  <2> QED
    BY <2>2, <2>3, <2>4, SumUnfold
<1> QED
  BY <1>1 DEF SumFunction

\* The sum over an interval, its last element first.
LEMMA SumOfInterval ==
    ASSUME NEW n \in Nat \ {0}, NEW f, \A i \in 1..n : f[i] \in Int
    PROVE  SumFunctionOnSet(f, 1..n) = f[n] + SumFunctionOnSet(f, 1..(n - 1))
<1>1. n \in 1..n
  OBVIOUS
<1>2. \A i : i \in (1..n) \ {n} <=> i \in 1..(n - 1)
  OBVIOUS
<1>3. (1..n) \ {n} = 1..(n - 1)
  BY <1>2
<1>4. IsFiniteSet(1..n)
  BY FS_Interval
<1> DEFINE S == 1..n
<1>5. n \in S /\ IsFiniteSet(S) /\ \A i \in S : f[i] \in Int
  BY <1>1, <1>4
<1> HIDE DEF S
<1>6. \A a \in S : SumFunctionOnSet(f, S) = f[a] + SumFunctionOnSet(f, S \ {a})
  BY <1>5, SumRemove, ZenonT(60)
<1>7. SumFunctionOnSet(f, S) = f[n] + SumFunctionOnSet(f, S \ {n})
  BY <1>5, <1>6
<1> QED
  BY <1>3, <1>7 DEF S

\* Without its first element a sequence of integers adds up to that element less.
LEMMA SumOfTail ==
    ASSUME NEW N \in Nat, NEW f, NEW g, DOMAIN f = 1..(N + 1), DOMAIN g = 1..N,
           \A i \in 1..(N + 1) : f[i] \in Int, \A i \in 1..N : g[i] = f[i + 1]
    PROVE  SumFunction(g) = SumFunction(f) - f[1]
<1> DEFINE F(n) == SumFunctionOnSet(f, 1..(n + 1))
           G(n) == SumFunctionOnSet(g, 1..n)
           Bad == {n \in 0..N : G(n) # F(n) - f[1]}
<1>0. \A n \in 0..N : F(n) \in Int /\ G(n) \in Int
  <2> SUFFICES ASSUME NEW n \in 0..N PROVE F(n) \in Int /\ G(n) \in Int
    OBVIOUS
  <2>1. IsFiniteSet(1..(n + 1)) /\ IsFiniteSet(1..n)
    BY FS_Interval, SMTT(30)
  <2>2. (\A i \in 1..(n + 1) : f[i] \in Int) /\ (\A i \in 1..n : g[i] \in Int)
    OBVIOUS
  <2> QED
    BY <2>1, <2>2, SumType
<1>1. ASSUME NEW n \in 0..N, n # 0
      PROVE  F(n) = f[n + 1] + F(n - 1) /\ G(n) = f[n + 1] + G(n - 1)
  <2>1. /\ n \in Nat \ {0} /\ n + 1 \in Nat \ {0} /\ (n + 1) - 1 = n /\ (n - 1) + 1 = n
        /\ g[n] = f[n + 1]
    BY <1>1
  <2>2. (\A i \in 1..(n + 1) : f[i] \in Int) /\ (\A i \in 1..n : g[i] \in Int)
    OBVIOUS
  <2>3. SumFunctionOnSet(f, 1..(n + 1)) = f[n + 1] + SumFunctionOnSet(f, 1..n)
    BY <2>1, <2>2, SumOfInterval
  <2>4. SumFunctionOnSet(g, 1..n) = g[n] + SumFunctionOnSet(g, 1..(n - 1))
    BY <2>1, <2>2, SumOfInterval
  <2> QED
    BY <2>1, <2>3, <2>4
<1>2. F(0) = f[1] /\ G(0) = 0
  <2>1. 1..0 = {} /\ f[1] \in Int /\ 1 \in Nat \ {0} /\ 1 - 1 = 0 /\ 0 + 1 = 1
    OBVIOUS
  <2>2. \A i \in 1..1 : f[i] \in Int
    BY <2>1
  <2>3. SumFunctionOnSet(f, 1..1) = f[1] + SumFunctionOnSet(f, 1..0)
    BY <2>1, <2>2, SumOfInterval
  <2>4. SumFunctionOnSet(f, 1..0) = 0 /\ SumFunctionOnSet(g, 1..0) = 0
    BY <2>1, SumEmpty
  <2> QED
    BY <2>1, <2>3, <2>4
<1> HIDE DEF F, G
<1>3. ASSUME Bad # {}
      PROVE  FALSE
  <2>1. Bad \subseteq Nat
    OBVIOUS
  <2>2. \E n \in Bad : \A k \in Bad : ~ (<<k, n>> \in OpToRel(<, Nat))
    <3> HIDE DEF Bad
    <3> QED
      BY <1>3, <2>1, WFMin, NatLessThanWellFounded
  <2>3. PICK n \in Bad : \A k \in Bad : ~ (<<k, n>> \in OpToRel(<, Nat))
    BY <2>2
  <2>4. \A k \in Nat : k < n => k \notin Bad
    BY <2>1, <2>3 DEF OpToRel
  <2>5. n # 0
    BY <1>2
  <2>6. n - 1 \in 0..N /\ n - 1 \notin Bad
    BY <2>4, <2>5
  <2>7. G(n - 1) = F(n - 1) - f[1] /\ F(n - 1) \in Int
    BY <1>0, <2>6
  <2>8. f[1] \in Int /\ f[n + 1] \in Int
    OBVIOUS
  <2> QED
    BY <1>1, <2>5, <2>7, <2>8
<1>4. G(N) = F(N) - f[1]
  BY <1>3
<1> QED
  BY <1>4 DEF F, G, SumFunction
============================================================================
