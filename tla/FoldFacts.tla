----------------------------- MODULE FoldFacts -----------------------------
(***************************************************************************)
(* Facts about the folds of the community modules that the proofs need,    *)
(* sums over finite sets and flattened sequences, and about the account    *)
(* lists of AccountMetas, for every input.                                 *)
(*                                                                         *)
(* Induction is done here without a theorem over predicates: what is wrong *)
(* for some finite set or some number is wrong for a least one, which      *)
(* follows from the well-founded orders of the library.                    *)
(***************************************************************************)
EXTENDS AccountMetas, FiniteSetTheorems, SequenceTheorems, WellFoundedInduction,
        TLAPS

-----------------------------------------------------------------------------
\* A set of natural numbers that is not empty has a least element.
LEMMA LeastNumber ==
    ASSUME NEW T \in SUBSET Nat, T # {}
    PROVE  \E m \in T : \A n \in T : m <= n
<1> DEFINE R == OpToRel(<, Nat)
<1>1. IsWellFoundedOn(R, Nat)
  BY NatLessThanWellFounded
<1>2. \A x, y \in Nat : x < y => <<x, y>> \in R
  BY DEF OpToRel
<1> HIDE DEF R
<1>3. PICK x \in T : \A y \in T : ~ (<<y, x>> \in R)
  BY <1>1, WFMin
<1>4. \A y \in T : y \in Nat /\ x \in Nat /\ ~(y < x)
  BY <1>2, <1>3
<1> QED
  BY <1>4

\* What holds of 0 and of the successor of each number it holds of holds of all.
LEMMA NumberInduction ==
    ASSUME NEW T, 0 \in T, \A n \in Nat : n \in T => n + 1 \in T
    PROVE  Nat \subseteq T
<1>1. SUFFICES ASSUME Nat \ T # {} PROVE FALSE
  OBVIOUS
<1>2. PICK m \in Nat \ T : \A n \in Nat \ T : m <= n
  BY <1>1, LeastNumber
<1>3. m # 0 /\ m - 1 \in Nat
  BY <1>2
<1>4. m - 1 \in T
  BY <1>2, <1>3
<1> QED
  BY <1>2, <1>3, <1>4

\* A step repeated any number of times, from x.
Repeats(f, x, step, n) ==
    f = [k \in 0..n |-> IF k = 0 THEN x ELSE step[f[k - 1]]]
Repeated(x, step, n) == CHOOSE f : Repeats(f, x, step, n)

LEMMA RepeatedExists ==
    ASSUME NEW x, NEW step, NEW n \in Nat
    PROVE  Repeats(Repeated(x, step, n), x, step, n)
<1> DEFINE T == {m \in Nat : \E f : Repeats(f, x, step, m)}
<1>1. 0 \in T
  <2> DEFINE f == [k \in 0..0 |-> x]
  <2>1. Repeats(f, x, step, 0)
    BY DEF Repeats
  <2> HIDE DEF f
  <2> QED
    BY <2>1
<1>2. ASSUME NEW m \in Nat, m \in T PROVE m + 1 \in T
  <2>1. PICK f : Repeats(f, x, step, m)
    BY <1>2
  <2> DEFINE g == [k \in 0..(m + 1) |-> IF k = m + 1 THEN step[f[m]] ELSE f[k]]
  <2>2. /\ \A k \in 0..m : g[k] = f[k]
        /\ g[m + 1] = step[f[m]] /\ g[m] = f[m]
    OBVIOUS
  <2>3. \A k \in 0..m : f[k] = IF k = 0 THEN x ELSE step[f[k - 1]]
    BY <2>1 DEF Repeats
  <2>4. ASSUME NEW k \in 0..(m + 1) PROVE g[k] = IF k = 0 THEN x ELSE step[g[k - 1]]
    <3> HIDE DEF g
    <3>1. CASE k = m + 1
      BY <2>2, <3>1
    <3>2. CASE k = 0
      BY <2>2, <2>3, <3>2
    <3>3. CASE k # m + 1 /\ k # 0
      <4>1. k \in 0..m /\ k - 1 \in 0..m
        BY <3>3
      <4> QED
        BY <2>2, <2>3, <3>3, <4>1
    <3> QED
      BY <3>1, <3>2, <3>3
  <2>5. g = [k \in 0..(m + 1) |-> g[k]]
    OBVIOUS
  <2> HIDE DEF g
  <2>6. Repeats(g, x, step, m + 1)
    BY <2>4, <2>5 DEF Repeats
  <2> QED
    BY <2>6
<1> HIDE DEF T
<1>3. n \in T
  BY <1>1, <1>2, NumberInduction
<1> QED
  BY <1>3 DEF T, Repeated

LEMMA RepeatedAgrees ==
    ASSUME NEW x, NEW step, NEW m \in Nat, NEW n \in Nat, NEW k \in Nat, k <= m, k <= n
    PROVE  Repeated(x, step, m)[k] = Repeated(x, step, n)[k]
<1> DEFINE T == {i \in Nat : i <= m /\ i <= n => Repeated(x, step, m)[i] = Repeated(x, step, n)[i]}
<1>1. /\ \A i \in 0..m : Repeated(x, step, m)[i]
                           = IF i = 0 THEN x ELSE step[Repeated(x, step, m)[i - 1]]
      /\ \A i \in 0..n : Repeated(x, step, n)[i]
                           = IF i = 0 THEN x ELSE step[Repeated(x, step, n)[i - 1]]
  BY RepeatedExists DEF Repeats
<1>2. 0 \in T
  BY <1>1
<1>3. ASSUME NEW i \in Nat, i \in T PROVE i + 1 \in T
  <2> SUFFICES ASSUME i + 1 <= m, i + 1 <= n
               PROVE  Repeated(x, step, m)[i + 1] = Repeated(x, step, n)[i + 1]
    OBVIOUS
  <2>1. i + 1 \in 0..m /\ i + 1 \in 0..n /\ i + 1 # 0 /\ (i + 1) - 1 = i /\ i <= m /\ i <= n
    OBVIOUS
  <2>2. Repeated(x, step, m)[i] = Repeated(x, step, n)[i]
    BY <1>3, <2>1
  <2> QED
    BY <1>1, <2>1, <2>2
<1> HIDE DEF T
<1>4. k \in T
  BY <1>2, <1>3, NumberInduction
<1> QED
  BY <1>4 DEF T

\* So there is a function on the natural numbers that is x at 0 and one step further
\* at each next number.
Iterates(f, S, x, step) ==
    f \in [Nat -> S] /\ f[0] = x /\ \A n \in Nat : f[n + 1] = step[f[n]]

LEMMA IterationExists ==
    ASSUME NEW S, NEW x \in S, NEW step \in [S -> S]
    PROVE  \E f : Iterates(f, S, x, step)
<1> DEFINE f == [n \in Nat |-> Repeated(x, step, n)[n]]
<1>1. f[0] = x
  <2>1. 0 \in 0..0
    OBVIOUS
  <2> QED
    BY <2>1, RepeatedExists DEF Repeats
<1>2. ASSUME NEW n \in Nat PROVE f[n + 1] = step[f[n]]
  <2>1. n + 1 \in Nat /\ n + 1 \in 0..(n + 1) /\ n + 1 # 0 /\ (n + 1) - 1 = n /\ n <= n + 1
    OBVIOUS
  <2>2. Repeated(x, step, n + 1)[n + 1] = step[Repeated(x, step, n + 1)[n]]
    BY <2>1, RepeatedExists DEF Repeats
  <2>3. Repeated(x, step, n + 1)[n] = Repeated(x, step, n)[n]
    BY <2>1, RepeatedAgrees
  <2> QED
    BY <2>1, <2>2, <2>3
<1>3. f = [n \in Nat |-> f[n]]
  OBVIOUS
<1> HIDE DEF f
<1> DEFINE T == {n \in Nat : f[n] \in S}
<1>4. 0 \in T
  BY <1>1
<1>5. ASSUME NEW n \in Nat, n \in T PROVE n + 1 \in T
  BY <1>2, <1>5
<1> HIDE DEF T
<1>6. Nat \subseteq T
  BY <1>4, <1>5, NumberInduction
<1>7. f \in [Nat -> S]
  BY <1>3, <1>6 DEF T
<1> QED
  BY <1>1, <1>2, <1>7 DEF Iterates

\* What holds of a finite set when it holds of its proper subsets holds of every
\* subset of a finite set.
LEMMA SubsetInduction ==
    ASSUME NEW S, IsFiniteSet(S), NEW P \in SUBSET SUBSET S,
           \A T \in SUBSET S : (\A U \in SUBSET T : U # T => U \in P) => T \in P
    PROVE  P = SUBSET S
<1> DEFINE Bad == (SUBSET S) \ P
<1>1. SUFFICES ASSUME Bad # {} PROVE FALSE
  OBVIOUS
<1>2. IsWellFoundedOn(StrictSubsetOrdering(S), SUBSET S)
  BY FS_StrictSubsetOrderingWellFounded, FS_FiniteSubsetsOfFinite
<1>3. PICK T \in Bad : \A U \in Bad : ~ (<<U, T>> \in StrictSubsetOrdering(S))
  <2>1. Bad \subseteq SUBSET S
    OBVIOUS
  <2> HIDE DEF Bad
  <2> QED
    BY <1>1, <1>2, <2>1, WFMin
<1>4. \A U \in SUBSET T : U # T => U \in P
  BY <1>3 DEF StrictSubsetOrdering
<1> QED
  BY <1>3, <1>4

-----------------------------------------------------------------------------
\* The function behind SumFunctionOnSet.
Chosen(T) == CHOOSE x \in T : TRUE
Adds(f, S, iter) ==
    iter = [T \in SUBSET S |-> IF T = {} THEN 0 ELSE f[Chosen(T)] + iter[T \ {Chosen(T)}]]
Adder(f, S) == CHOOSE iter : Adds(f, S, iter)

LEMMA SumIsAdder ==
    ASSUME NEW f, NEW S
    PROVE  SumFunctionOnSet(f, S) = Adder(f, S)[S]
BY Zenon DEF SumFunctionOnSet, FoldFunctionOnSet, MapThenFoldSet, Adder, Adds, Chosen


LEMMA AddersAgree ==
    ASSUME NEW f, NEW S, NEW T \in SUBSET S, IsFiniteSet(T), NEW g, NEW h,
           Adds(f, S, g), Adds(f, T, h)
    PROVE  \A U \in SUBSET T : g[U] = h[U]
<1> DEFINE P == {U \in SUBSET T : g[U] = h[U]}
<1>1. ASSUME NEW U \in SUBSET T, \A V \in SUBSET U : V # U => V \in P
      PROVE  U \in P
  <2>1. CASE U = {}
    BY <2>1 DEF Adds
  <2>2. CASE U # {}
    <3> DEFINE V == U \ {Chosen(U)}
    <3>1. Chosen(U) \in U
      BY <2>2 DEF Chosen
    <3>2. V \in SUBSET U /\ V # U /\ U \in SUBSET S
      BY <3>1
    <3>3. g[V] = h[V]
      BY <3>2, <1>1
    <3>4. g[U] = f[Chosen(U)] + g[V] /\ h[U] = f[Chosen(U)] + h[V]
      BY <2>2, <3>2 DEF Adds
    <3> QED
      BY <3>3, <3>4
  <2> QED
    BY <2>1, <2>2
<1>2. P \in SUBSET SUBSET T
  OBVIOUS
<1> HIDE DEF P
<1>3. P = SUBSET T
  BY <1>1, <1>2, SubsetInduction
<1> QED
  BY <1>3 DEF P

\* The recursion of the fold has a solution.
LEMMA AdderExists ==
    ASSUME NEW f, NEW S, IsFiniteSet(S)
    PROVE  Adds(f, S, Adder(f, S))
<1> DEFINE P == {T \in SUBSET S : \E iter : Adds(f, T, iter)}
<1>1. ASSUME NEW T \in SUBSET S, \A U \in SUBSET T : U # T => U \in P
      PROVE  T \in P
  <2> DEFINE rest == T \ {Chosen(T)}
             all == IF T = {} THEN 0 ELSE f[Chosen(T)] + Adder(f, rest)[rest]
             iter == [U \in SUBSET T |-> IF U = T THEN all ELSE Adder(f, U)[U]]
  <2>1. \A U \in SUBSET T : U # T => Adds(f, U, Adder(f, U))
    BY <1>1 DEF Adder
  <2>2. ASSUME NEW U \in SUBSET T
        PROVE  iter[U] = IF U = {} THEN 0 ELSE f[Chosen(U)] + iter[U \ {Chosen(U)}]
    <3>1. CASE U = T
      <4>1. T # {} => Chosen(T) \in T
        BY DEF Chosen
      <4> QED
        BY <3>1, <4>1
    <3>2. CASE U # T /\ U = {}
      BY <3>2, <2>1 DEF Adds
    <3>3. CASE U # T /\ U # {}
      <4> DEFINE V == U \ {Chosen(U)}
      <4>1. Chosen(U) \in U
        BY <3>3 DEF Chosen
      <4>2. V \in SUBSET U /\ V \in SUBSET T /\ V # T /\ IsFiniteSet(V)
        BY <3>3, <4>1, FS_Subset
      <4>3. Adds(f, U, Adder(f, U)) /\ Adds(f, V, Adder(f, V))
        BY <3>3, <4>2, <2>1
      <4>4. Adder(f, U)[V] = Adder(f, V)[V]
        BY <4>2, <4>3, AddersAgree
      <4>5. Adder(f, U)[U] = f[Chosen(U)] + Adder(f, U)[V]
        BY <3>3, <4>3 DEF Adds
      <4> HIDE DEF V
      <4>6. iter[V] = Adder(f, V)[V] /\ iter[U] = Adder(f, U)[U]
        BY <3>3, <4>2
      <4> QED
        BY <3>3, <4>4, <4>5, <4>6 DEF V
    <3> QED
      BY <3>1, <3>2, <3>3
  <2>3. Adds(f, T, iter)
    BY <2>2, Zenon DEF Adds
  <2> QED
    BY <2>3
<1>2. P \in SUBSET SUBSET S
  OBVIOUS
<1> HIDE DEF P
<1>3. P = SUBSET S
  BY <1>1, <1>2, SubsetInduction
<1>4. S \in P
  BY <1>3
<1> QED
  BY <1>4 DEF P, Adder

-----------------------------------------------------------------------------
\* Sums over a finite set.
LEMMA SumEmpty == ASSUME NEW f PROVE SumFunctionOnSet(f, {}) = 0
<1>1. IsFiniteSet({})
  BY FS_EmptySet
<1>2. Adds(f, {}, Adder(f, {}))
  BY <1>1, AdderExists
<1> QED
  BY <1>2, SumIsAdder DEF Adds

\* The functions of a set and of a subset agree on the subset.
LEMMA AddersAgreeAt ==
    ASSUME NEW f, NEW S, NEW T \in SUBSET S, IsFiniteSet(S)
    PROVE  Adder(f, S)[T] = Adder(f, T)[T]
<1>1. IsFiniteSet(T)
  BY FS_Subset
<1>2. Adds(f, S, Adder(f, S))
  BY AdderExists
<1>3. Adds(f, T, Adder(f, T))
  BY <1>1, AdderExists
<1>4. \A U \in SUBSET T : Adder(f, S)[U] = Adder(f, T)[U]
  BY <1>1, <1>2, <1>3, AddersAgree
<1>5. T \in SUBSET T
  OBVIOUS
<1> QED
  BY <1>4, <1>5

LEMMA SumRemoveAny ==
    ASSUME NEW f, NEW S, IsFiniteSet(S), S # {}
    PROVE  /\ Chosen(S) \in S
           /\ SumFunctionOnSet(f, S) = f[Chosen(S)] + SumFunctionOnSet(f, S \ {Chosen(S)})
<1> DEFINE Rest == S \ {Chosen(S)}
<1>1. Chosen(S) \in S
  BY DEF Chosen
<1>2. Rest \in SUBSET S /\ IsFiniteSet(Rest)
  BY FS_Subset
<1>3. Adds(f, S, Adder(f, S)) /\ Adds(f, Rest, Adder(f, Rest))
  BY <1>2, AdderExists
<1>4. Adder(f, S)[S] = f[Chosen(S)] + Adder(f, S)[Rest]
  BY <1>3 DEF Adds
<1>5. Adder(f, S)[Rest] = Adder(f, Rest)[Rest]
  BY <1>2, AddersAgreeAt
<1> HIDE DEF Rest
<1>6. SumFunctionOnSet(f, S) = f[Chosen(S)] + SumFunctionOnSet(f, Rest)
  BY <1>4, <1>5, SumIsAdder
<1> QED
  BY <1>1, <1>6 DEF Rest

LEMMA SumType ==
    ASSUME NEW f, NEW S, IsFiniteSet(S), \A s \in S : f[s] \in Int
    PROVE  SumFunctionOnSet(f, S) \in Int
<1> DEFINE P == {T \in SUBSET S : SumFunctionOnSet(f, T) \in Int}
<1>1. ASSUME NEW T \in SUBSET S, \A U \in SUBSET T : U # T => U \in P
      PROVE  T \in P
  <2>1. CASE T = {}
    BY <2>1, SumEmpty
  <2>2. CASE T # {}
    <3>1. IsFiniteSet(T)
      BY FS_Subset
    <3>2. /\ Chosen(T) \in T
          /\ SumFunctionOnSet(f, T) = f[Chosen(T)] + SumFunctionOnSet(f, T \ {Chosen(T)})
      BY <2>2, <3>1, SumRemoveAny
    <3>3. T \ {Chosen(T)} \in P
      BY <3>2, <1>1
    <3> QED
      BY <3>2, <3>3
  <2> QED
    BY <2>1, <2>2
<1>2. P \in SUBSET SUBSET S
  OBVIOUS
<1> HIDE DEF P
<1>3. P = SUBSET S
  BY <1>1, <1>2, SubsetInduction
<1> QED
  BY <1>3 DEF P

\* Chosen element may be taken out of the sum.
LEMMA SumRemove ==
    ASSUME NEW f, NEW S, IsFiniteSet(S), \A s \in S : f[s] \in Int, NEW x \in S
    PROVE  SumFunctionOnSet(f, S) = f[x] + SumFunctionOnSet(f, S \ {x})
<1> DEFINE Sum(T) == SumFunctionOnSet(f, T)
           P == {T \in SUBSET S : \A y \in T : Sum(T) = f[y] + Sum(T \ {y})}
<1>1. ASSUME NEW T \in SUBSET S, \A U \in SUBSET T : U # T => U \in P
      PROVE  T \in P
  <2>1. SUFFICES ASSUME NEW y \in T PROVE Sum(T) = f[y] + Sum(T \ {y})
    OBVIOUS
  <2> DEFINE a == Chosen(T)
  <2>2. IsFiniteSet(T)
    BY FS_Subset
  <2>3. a \in T /\ Sum(T) = f[a] + Sum(T \ {a})
    BY <2>1, <2>2, SumRemoveAny
  <2> HIDE DEF a
  <2>4. CASE y = a
    BY <2>3, <2>4
  <2>5. CASE y # a
    <3> DEFINE Ta == T \ {a}
               Ty == T \ {y}
               Tay == Ta \ {y}
    <3>1. Ta \in P /\ Ty \in P
      BY <2>1, <2>3, <1>1
    <3>2. Sum(Ta) = f[y] + Sum(Tay)
      BY <2>1, <2>5, <3>1
    <3>3. Sum(Ty) = f[a] + Sum(Ty \ {a})
      BY <2>3, <2>5, <3>1
    <3>4. Ty \ {a} = Tay
      OBVIOUS
    <3>5. Sum(Tay) \in Int
      <4>1. IsFiniteSet(Tay) /\ Tay \subseteq S
        BY <2>2, FS_Subset
      <4> QED
        BY <4>1, SumType
    <3>6. f[a] \in Int /\ f[y] \in Int
      BY <2>3
    <3>7. Sum(T) = f[a] + Sum(Ta)
      BY <2>3
    <3>8. Sum(Ty) = f[a] + Sum(Tay)
      BY <3>3, <3>4
    <3> HIDE DEF Sum, Ta, Ty, Tay
    <3>9. Sum(T) = f[y] + Sum(Ty)
      BY <3>2, <3>5, <3>6, <3>7, <3>8
    <3> QED
      BY <3>9 DEF Ty
  <2> QED
    BY <2>4, <2>5
<1>2. P \in SUBSET SUBSET S
  OBVIOUS
<1> HIDE DEF P
<1>3. P = SUBSET S
  BY <1>1, <1>2, SubsetInduction
<1> QED
  BY <1>3 DEF P

\* Summands compared one by one: the sums compare alike, and equal sums have equal
\* summands.
LEMMA SumCompare ==
    ASSUME NEW S, IsFiniteSet(S), NEW f, NEW g,
           \A s \in S : f[s] \in Int /\ g[s] \in Int /\ f[s] <= g[s]
    PROVE  /\ SumFunctionOnSet(f, S) <= SumFunctionOnSet(g, S)
           /\ SumFunctionOnSet(f, S) = SumFunctionOnSet(g, S) <=> \A s \in S : f[s] = g[s]
<1> DEFINE F(T) == SumFunctionOnSet(f, T)
           G(T) == SumFunctionOnSet(g, T)
           P == {T \in SUBSET S : F(T) <= G(T) /\ (F(T) = G(T) <=> \A s \in T : f[s] = g[s])}
<1>1. ASSUME NEW T \in SUBSET S, \A U \in SUBSET T : U # T => U \in P
      PROVE  T \in P
  <2>1. CASE T = {}
    BY <2>1, SumEmpty
  <2>2. CASE T # {}
    <3> DEFINE a == Chosen(T)
               U == T \ {a}
    <3>1. IsFiniteSet(T)
      BY FS_Subset
    <3>2. a \in T /\ F(T) = f[a] + F(U) /\ G(T) = g[a] + G(U)
      BY <2>2, <3>1, SumRemoveAny
    <3>3. U \in P
      BY <3>2, <1>1
    <3>4. IsFiniteSet(U) /\ U \subseteq S
      BY <3>1, FS_Subset
    <3>5. F(U) \in Int /\ G(U) \in Int
      BY <3>4, SumType
    <3>6. f[a] \in Int /\ g[a] \in Int /\ f[a] <= g[a]
      BY <3>2
    <3>7. F(U) <= G(U) /\ (F(U) = G(U) <=> \A s \in U : f[s] = g[s])
      BY <3>3
    <3>8. (\A s \in T : f[s] = g[s]) <=> f[a] = g[a] /\ \A s \in U : f[s] = g[s]
      BY <3>2
    <3> HIDE DEF F, G, U, a
    <3> QED
      BY <3>2, <3>5, <3>6, <3>7, <3>8
  <2> QED
    BY <2>1, <2>2
<1>2. P \in SUBSET SUBSET S
  OBVIOUS
<1> HIDE DEF P
<1>3. P = SUBSET S
  BY <1>1, <1>2, SubsetInduction
<1> QED
  BY <1>3 DEF P

\* Summands of 0 may be left out.
\* Half of it, its hypotheses as one word.
Bounded(f, g, S) ==
    IsFiniteSet(S) /\ \A s \in S : f[s] \in Int /\ g[s] \in Int /\ f[s] <= g[s]
SumsEqual(f, g, S) == SumFunctionOnSet(f, S) = SumFunctionOnSet(g, S)

LEMMA SumBounded ==
    ASSUME NEW S, NEW f, NEW g, Bounded(f, g, S)
    PROVE  /\ SumFunctionOnSet(f, S) <= SumFunctionOnSet(g, S)
           /\ SumsEqual(f, g, S) => \A s \in S : f[s] = g[s]
BY SumCompare DEF Bounded, SumsEqual

LEMMA SumOfRest ==
    ASSUME NEW S, IsFiniteSet(S), NEW f, \A s \in S : f[s] \in Int,
           NEW T \in SUBSET S, \A s \in S \ T : f[s] = 0
    PROVE  SumFunctionOnSet(f, S) = SumFunctionOnSet(f, T)
<1> DEFINE Sum(U) == SumFunctionOnSet(f, U)
           P == {U \in SUBSET S : Sum(U) = Sum(U \cap T)}
<1>1. ASSUME NEW U \in SUBSET S, \A V \in SUBSET U : V # U => V \in P
      PROVE  U \in P
  <2>1. CASE U \subseteq T
    <3>1. U \cap T = U
      BY <2>1
    <3> QED
      BY <3>1
  <2>2. CASE ~(U \subseteq T)
    <3>1. PICK x \in U : x \notin T
      BY <2>2
    <3> DEFINE V == U \ {x}
               W == U \cap T
    <3>2. IsFiniteSet(U) /\ IsFiniteSet(V)
      BY FS_Subset
    <3>3. Sum(U) = f[x] + Sum(V)
      BY <3>2, SumRemove
    <3>4. Sum(V) \in Int
      BY <3>2, SumType
    <3>5. V \in P
      BY <1>1
    <3>6. V \cap T = W /\ f[x] = 0
      BY <3>1
    <3>7. Sum(V) = Sum(W)
      BY <3>5, <3>6
    <3>8. Sum(U) = Sum(W)
      <4> HIDE DEF Sum, V, W
      <4> QED
        BY <3>3, <3>4, <3>6, <3>7
    <3> QED
      BY <3>8
  <2> QED
    BY <2>1, <2>2
<1>2. P \in SUBSET SUBSET S
  OBVIOUS
<1> HIDE DEF P
<1>3. S \in P
  BY <1>1, <1>2, SubsetInduction
<1>4. S \cap T = T
  OBVIOUS
<1> QED
  BY <1>3, <1>4 DEF P

\* Sums of the same summands are the same.
LEMMA SumSame ==
    ASSUME NEW S, IsFiniteSet(S), NEW f, NEW g, \A s \in S : f[s] \in Int /\ f[s] = g[s]
    PROVE  SumFunctionOnSet(f, S) = SumFunctionOnSet(g, S)
<1>1. \A s \in S : f[s] \in Int /\ g[s] \in Int /\ f[s] <= g[s]
  OBVIOUS
<1> QED
  BY <1>1, SumCompare

\* A summand that changes changes the sum by as much.
LEMMA SumChange ==
    ASSUME NEW S, IsFiniteSet(S), NEW f, NEW g, \A s \in S : f[s] \in Int /\ g[s] \in Int,
           NEW x \in S, \A s \in S \ {x} : f[s] = g[s]
    PROVE  SumFunctionOnSet(g, S) = SumFunctionOnSet(f, S) + g[x] - f[x]
<1> DEFINE T == S \ {x}
<1>1. IsFiniteSet(T) /\ \A s \in T : f[s] \in Int /\ f[s] = g[s]
  BY FS_Subset
<1>2. SumFunctionOnSet(f, T) = SumFunctionOnSet(g, T) /\ SumFunctionOnSet(f, T) \in Int
  BY <1>1, SumSame, SumType
<1>3. SumFunctionOnSet(f, S) = f[x] + SumFunctionOnSet(f, T)
  BY SumRemove
<1>4. SumFunctionOnSet(g, S) = g[x] + SumFunctionOnSet(g, T)
  BY SumRemove
<1>5. f[x] \in Int /\ g[x] \in Int
  OBVIOUS
<1> HIDE DEF T
<1> QED
  BY <1>2, <1>3, <1>4, <1>5

-----------------------------------------------------------------------------
\* A suffix, element by element.
LEMMA SuffixElements ==
    ASSUME NEW A, NEW s \in Seq(A), NEW t \in Seq(A), Len(s) <= Len(t),
           \A i \in 1..Len(s) : s[i] = t[i + Len(t) - Len(s)]
    PROVE  IsSuffix(s, t)
<1>1. Len(s) \in Nat /\ Len(t) \in Nat
  OBVIOUS
<1>2. Reverse(s) = [i \in 1..Len(s) |-> s[Len(s) - i + 1]]
  BY DEF Reverse
<1>3. Reverse(t) = [i \in 1..Len(t) |-> t[Len(t) - i + 1]]
  BY DEF Reverse
<1>4. \A i \in 1..Len(s) : s[Len(s) - i + 1] \in A
  BY <1>1
<1>5. \A i \in 1..Len(t) : t[Len(t) - i + 1] \in A
  BY <1>1
<1>6. Reverse(s) \in Seq(A) /\ Len(Reverse(s)) = Len(s)
  BY <1>1, <1>2, <1>4
<1>7. Reverse(t) \in Seq(A) /\ Len(Reverse(t)) = Len(t)
  BY <1>1, <1>3, <1>5
<1>8. ASSUME NEW i \in 1..Len(s) PROVE Reverse(s)[i] = Reverse(t)[i]
  <2>1. Len(s) - i + 1 \in 1..Len(s)
    BY <1>1
  <2>2. s[Len(s) - i + 1] = t[(Len(s) - i + 1) + Len(t) - Len(s)]
    BY <2>1
  <2>3. (Len(s) - i + 1) + Len(t) - Len(s) = Len(t) - i + 1
    BY <1>1
  <2>4. i \in 1..Len(t)
    BY <1>1
  <2> QED
    BY <1>2, <1>3, <2>2, <2>3, <2>4
<1> DEFINE p == SubSeq(Reverse(s), 1, Len(s))
           q == SubSeq(Reverse(t), 1, Len(s))
<1>9. p \in Seq(A) /\ Len(p) = Len(s) /\ \A i \in 1..Len(s) : p[i] = Reverse(s)[i]
  BY <1>1, <1>6
<1>10. q \in Seq(A) /\ Len(q) = Len(s) /\ \A i \in 1..Len(s) : q[i] = Reverse(t)[i]
  BY <1>1, <1>7
<1>11. p = q
  <2> HIDE DEF p, q
  <2> QED
    BY <1>8, <1>9, <1>10
<1> QED
  BY <1>6, <1>7, <1>11 DEF IsSuffix, IsPrefix

-----------------------------------------------------------------------------
\* The recursion behind FlattenSeq, and its solution.
Flattens(s, g) == g = [i \in 1..Len(s) |-> IF i = 1 THEN s[i] ELSE g[i - 1] \o s[i]]
Flat(s) == CHOOSE g : Flattens(s, g)

LEMMA FlattenIsFlat ==
    ASSUME NEW s, Len(s) # 0
    PROVE  FlattenSeq(s) = Flat(s)[Len(s)]
BY Zenon DEF FlattenSeq, Flat, Flattens

LEMMA FlatExists ==
    ASSUME NEW A, NEW s \in Seq(A)
    PROVE  Flattens(s, Flat(s))
<1> DEFINE Upto(n, g) == g = [i \in 1..n |-> IF i = 1 THEN s[i] ELSE g[i - 1] \o s[i]]
           T == {n \in Nat : \E g : Upto(n, g)}
<1>1. 0 \in T
  <2> DEFINE g == [i \in 1..0 |-> s[i]]
  <2>1. Upto(0, g)
    OBVIOUS
  <2> QED
    BY <2>1
<1>2. ASSUME NEW n \in Nat, n \in T PROVE n + 1 \in T
  <2>1. PICK g : Upto(n, g)
    BY <1>2
  <2> DEFINE h == [i \in 1..(n + 1) |->
                      IF i = 1 THEN s[i] ELSE g[i - 1] \o s[i]]
  <2>2. \A i \in 1..(n + 1) : i # 1 => i - 1 \in 1..n
    OBVIOUS
  <2>3. \A i \in 1..n : g[i] = IF i = 1 THEN s[i] ELSE g[i - 1] \o s[i]
    BY <2>1
  <2>4. \A i \in 1..n : h[i] = g[i]
    BY <2>3
  <2>5. \A i \in 1..(n + 1) : h[i] = IF i = 1 THEN s[i] ELSE h[i - 1] \o s[i]
    BY <2>2, <2>4
  <2>6. Upto(n + 1, h)
    <3> DEFINE k == [i \in 1..(n + 1) |-> IF i = 1 THEN s[i] ELSE h[i - 1] \o s[i]]
    <3>1. DOMAIN h = DOMAIN k /\ \A i \in 1..(n + 1) : h[i] = k[i]
      BY <2>5
    <3>2. h = k
      BY <3>1
    <3> QED
      BY <3>2
  <2>7. \E f : Upto(n + 1, f)
    <3> HIDE DEF h, Upto
    <3> QED
      BY <2>6
  <2> QED
    <3> HIDE DEF Upto
    <3> QED
      BY <2>7
<1> HIDE DEF T
<1>3. Nat \subseteq T
  BY <1>1, <1>2, NumberInduction
<1>4. Len(s) \in T
  BY <1>3
<1> QED
  BY <1>4, Zenon DEF T, Flat, Flattens

\* What comes last is flattened last.
LEMMA FlattenAppend ==
    ASSUME NEW A, NEW s \in Seq(Seq(A)), NEW x \in Seq(A)
    PROVE  FlattenSeq(Append(s, x)) = FlattenSeq(s) \o x
<1> DEFINE t == Append(s, x)
           n == Len(s)
<1>1. t \in Seq(Seq(A)) /\ Len(t) = n + 1 /\ t[n + 1] = x /\ n \in Nat
      /\ \A i \in 1..n : t[i] = s[i]
  OBVIOUS
<1>0. Len(t) # 0
  BY <1>1
<1> HIDE DEF t
<1>2. Flattens(t, Flat(t)) /\ Flattens(s, Flat(s))
  BY <1>1, FlatExists
<1>3. FlattenSeq(t) = Flat(t)[n + 1]
  BY <1>0, <1>1, FlattenIsFlat
<1>6. /\ DOMAIN Flat(t) = 1..(n + 1)
      /\ \A i \in 1..(n + 1) : i # 1 => Flat(t)[i] = Flat(t)[i - 1] \o t[i]
  BY <1>1, <1>2 DEF Flattens
<1>4. CASE n = 0
  <2>1. Flat(t)[1] = x
    BY <1>1, <1>2, <1>4 DEF Flattens
  <2>2. s = <<>> /\ FlattenSeq(s) = <<>>
    BY <1>4 DEF FlattenSeq
  <2> QED
    BY <1>3, <1>4, <2>1, <2>2, ConcatEmptySeq DEF t
<1>5. CASE n # 0
  <2> DEFINE T == {i \in Nat : i + 1 \in 1..n => Flat(t)[i + 1] = Flat(s)[i + 1]}
  <2>1. 0 \in T
    BY <1>1, <1>2 DEF Flattens
  <2>2. ASSUME NEW i \in Nat, i \in T PROVE i + 1 \in T
    <3>1. SUFFICES ASSUME i + 2 \in 1..n PROVE Flat(t)[i + 2] = Flat(s)[i + 2]
      OBVIOUS
    <3>2. i + 1 \in 1..n /\ i + 2 \in 1..(n + 1) /\ (i + 2) - 1 = i + 1 /\ i + 2 # 1
      BY <1>1, <3>1
    <3>3. Flat(t)[i + 2] = Flat(t)[i + 1] \o t[i + 2]
      BY <1>6, <3>2
    <3>4. Flat(s)[i + 2] = Flat(s)[i + 1] \o s[i + 2]
      BY <1>2, <3>1, <3>2 DEF Flattens
    <3>5. t[i + 2] = s[i + 2]
      BY <1>1, <3>1
    <3>6. Flat(t)[i + 1] = Flat(s)[i + 1]
      BY <2>2, <3>2
    <3> QED
      BY <3>3, <3>4, <3>5, <3>6
  <2>3. n - 1 \in T
    <3> HIDE DEF T
    <3>1. Nat \subseteq T
      BY <2>1, <2>2, NumberInduction
    <3> QED
      BY <1>1, <1>5, <3>1
  <2>4. Flat(t)[n] = Flat(s)[n]
    <3>1. (n - 1) + 1 = n /\ n \in 1..n
      BY <1>1, <1>5
    <3> QED
      BY <2>3, <3>1
  <2>5. Flat(t)[n + 1] = Flat(t)[n] \o x
    <3>1. n + 1 \in 1..Len(t) /\ n + 1 # 1 /\ (n + 1) - 1 = n
      BY <1>1, <1>5
    <3> QED
      BY <1>1, <1>6, <3>1
  <2> QED
    BY <1>3, <1>5, <2>4, <2>5, FlattenIsFlat DEF t
<1> QED
  BY <1>4, <1>5 DEF t

\* Lists are lists of one element more than others.
LEMMA LastElement ==
    ASSUME NEW A, NEW s \in Seq(A), s # <<>>
    PROVE  /\ Front(s) \in Seq(A) /\ Len(Front(s)) = Len(s) - 1
           /\ s = Append(Front(s), s[Len(s)]) /\ s[Len(s)] \in A
           /\ \A i \in 1..(Len(s) - 1) : Front(s)[i] = s[i]
<1>1. Len(s) \in Nat \ {0}
  OBVIOUS
<1>2. Front(s) = SubSeq(s, 1, Len(s) - 1)
  BY DEF Front
<1>3. Front(s) \in Seq(A) /\ Len(Front(s)) = Len(s) - 1
      /\ \A i \in 1..(Len(s) - 1) : Front(s)[i] = s[i]
  <2>1. \A i \in 1..(Len(s) - 1) : s[i] \in A
    BY <1>1
  <2>2. PICK n \in Nat : n = Len(s) - 1
    BY <1>1
  <2>3. n - 1 + 1 = n /\ \A i \in 1..n : 1 + i - 1 = i /\ s[i] \in A
    BY <2>1, <2>2
  <2>4. /\ SubSeq(s, 1, n) \in Seq(A)
        /\ Len(SubSeq(s, 1, n)) = n
        /\ \A i \in 1..n : SubSeq(s, 1, n)[i] = s[i]
    BY <2>3, SubSeqProperties
  <2> QED
    BY <1>2, <2>2, <2>4
<1>4. s[Len(s)] \in A
  BY <1>1
<1>5. Append(Front(s), s[Len(s)]) \in Seq(A)
      /\ Len(Append(Front(s), s[Len(s)])) = Len(s)
  BY <1>1, <1>3, <1>4
<1>6. \A i \in 1..Len(s) : Append(Front(s), s[Len(s)])[i] = s[i]
  BY <1>1, <1>3
<1>7. s = Append(Front(s), s[Len(s)])
  BY <1>5, <1>6, SeqEqual
<1> QED
  BY <1>3, <1>4, <1>7

\* Induction over lists, from their end.
LEMMA ListInduction ==
    ASSUME NEW A, NEW T, <<>> \in T,
           \A s \in Seq(A) : \A e \in A : s \in T => Append(s, e) \in T
    PROVE  Seq(A) \subseteq T
<1> DEFINE N == {n \in Nat : \A s \in Seq(A) : Len(s) = n => s \in T}
<1>1. 0 \in N
  <2>1. \A s \in Seq(A) : Len(s) = 0 => s = <<>>
    OBVIOUS
  <2> QED
    BY <2>1
<1>2. ASSUME NEW n \in Nat, n \in N PROVE n + 1 \in N
  <2>1. SUFFICES ASSUME NEW s \in Seq(A), Len(s) = n + 1 PROVE s \in T
    OBVIOUS
  <2>2. s # <<>> /\ n = Len(s) - 1
    BY <2>1
  <2>3. /\ Front(s) \in Seq(A) /\ Len(Front(s)) = n
        /\ s = Append(Front(s), s[Len(s)]) /\ s[Len(s)] \in A
    BY <2>2, LastElement
  <2>4. Front(s) \in T
    BY <1>2, <2>3
  <2> QED
    BY <2>3, <2>4
<1> HIDE DEF N
<1>3. Nat \subseteq N
  BY <1>1, <1>2, NumberInduction
<1>4. ASSUME NEW s \in Seq(A) PROVE s \in T
  <2>1. Len(s) \in N
    BY <1>3
  <2> QED
    BY <2>1 DEF N
<1> QED
  BY <1>4

LEMMA ConcatElements ==
    ASSUME NEW A, NEW s \in Seq(A), NEW t \in Seq(A)
    PROVE  ToSet(s \o t) = ToSet(s) \cup ToSet(t)
<1>1. s \o t \in Seq(A) /\ Len(s \o t) = Len(s) + Len(t) /\ Len(s) \in Nat /\ Len(t) \in Nat
  OBVIOUS
<1>2. DOMAIN s = 1..Len(s) /\ DOMAIN t = 1..Len(t) /\ DOMAIN (s \o t) = 1..(Len(s) + Len(t))
  BY <1>1
<1>3. \A i \in 1..Len(s) : i \in 1..(Len(s) + Len(t)) /\ (s \o t)[i] = s[i]
  BY <1>1
<1>4. \A i \in 1..Len(t) : Len(s) + i \in 1..(Len(s) + Len(t)) /\ (s \o t)[Len(s) + i] = t[i]
  BY <1>1
<1>5. \A i \in 1..(Len(s) + Len(t)) : \/ i \in 1..Len(s)
                                      \/ i - Len(s) \in 1..Len(t) /\ Len(s) + (i - Len(s)) = i
  BY <1>1
<1> QED
  BY <1>2, <1>3, <1>4, <1>5 DEF ToSet

LEMMA PrependElements ==
    ASSUME NEW A, NEW x \in A, NEW s \in Seq(A)
    PROVE  <<x>> \o s \in Seq(A) /\ ToSet(<<x>> \o s) = {x} \cup ToSet(s)
<1>0. <<x>> \in Seq(A)
  OBVIOUS
<1>1. PICK h \in Seq(A) : h = <<x>>
  BY <1>0
<1>2. h \o s \in Seq(A) /\ ToSet(h \o s) = ToSet(h) \cup ToSet(s)
  BY ConcatElements
<1>3. ToSet(h) = {x}
  BY <1>1 DEF ToSet
<1> QED
  BY <1>1, <1>2, <1>3

\* A list with one element in front.
LEMMA PrependFacts ==
    ASSUME NEW A, NEW x \in A, NEW s \in Seq(A)
    PROVE  /\ <<x>> \o s \in Seq(A)
           /\ Len(<<x>> \o s) = Len(s) + 1
           /\ <<x>> \o s # <<>>
           /\ Head(<<x>> \o s) = x
           /\ Tail(<<x>> \o s) = s
<1>1. <<x>> \in Seq(A)
  OBVIOUS
<1>2. PICK h \in Seq(A) : h = <<x>>
  BY <1>1
<1>3. Len(h) = 1 /\ h[1] = x /\ Len(s) \in Nat
  BY <1>2
<1>0. /\ h \o s \in Seq(A) /\ Len(h \o s) = Len(h) + Len(s)
      /\ \A i \in 1..(Len(h) + Len(s)) :
            (h \o s)[i] = IF i <= Len(h) THEN h[i] ELSE s[i - Len(h)]
  BY ConcatProperties
<1>4. PICK u \in Seq(A) : u = h \o s
  BY <1>0
<1>5. /\ Len(u) = 1 + Len(s)
      /\ \A i \in 1..(1 + Len(s)) : u[i] = IF i <= 1 THEN h[i] ELSE s[i - 1]
  BY <1>0, <1>3, <1>4
<1>6. u # <<>> /\ Head(u) = x
  BY <1>3, <1>5
<1>7. /\ Tail(u) \in Seq(A) /\ Len(Tail(u)) = Len(s)
      /\ \A i \in 1..Len(s) : Tail(u)[i] = u[i + 1]
  BY <1>3, <1>5, <1>6, HeadTailProperties
<1>8. \A i \in 1..Len(s) : Tail(u)[i] = s[i]
  BY <1>3, <1>5, <1>7
<1>9. Tail(u) = s
  BY <1>7, <1>8, SeqEqual
<1> QED
  BY <1>2, <1>3, <1>4, <1>5, <1>6, <1>9

\* A list made of two falls apart into them, and every list is made of its parts.
LEMMA SplitFacts ==
    ASSUME NEW A, NEW s \in Seq(A), NEW t \in Seq(A)
    PROVE  /\ s \o t \in Seq(A) /\ Len(s \o t) = Len(s) + Len(t)
           /\ SubSeq(s \o t, 1, Len(s)) = s
           /\ SubSeq(s \o t, Len(s) + 1, Len(s) + Len(t)) = t
<1>1. PICK m \in Nat, n \in Nat : m = Len(s) /\ n = Len(t)
  OBVIOUS
<1>0. /\ s \o t \in Seq(A) /\ Len(s \o t) = Len(s) + Len(t)
      /\ \A i \in 1..(Len(s) + Len(t)) :
            (s \o t)[i] = IF i <= Len(s) THEN s[i] ELSE t[i - Len(s)]
  BY ConcatProperties
<1>2. PICK u \in Seq(A) : u = s \o t
  BY <1>0
<1>3. /\ Len(u) = m + n
      /\ \A i \in 1..(m + n) : u[i] = IF i <= m THEN s[i] ELSE t[i - m]
  BY <1>0, <1>1, <1>2
<1>4. SubSeq(u, 1, m) = s
  <2>1. \A i \in 1..m : u[i] \in A /\ u[i] = s[i]
    BY <1>1, <1>3
  <2>2. /\ SubSeq(u, 1, m) \in Seq(A)
        /\ Len(SubSeq(u, 1, m)) = IF 1 <= m THEN m - 1 + 1 ELSE 0
        /\ \A i \in 1..(m - 1 + 1) : SubSeq(u, 1, m)[i] = u[1 + i - 1]
    BY <2>1, SubSeqProperties
  <2>3. Len(SubSeq(u, 1, m)) = m /\ \A i \in 1..m : SubSeq(u, 1, m)[i] = u[i]
    BY <2>2
  <2> QED
    BY <1>1, <2>1, <2>2, <2>3, SeqEqual
<1>5. SubSeq(u, m + 1, m + n) = t
  <2>1. \A i \in (m + 1)..(m + n) : u[i] \in A
    BY <1>3
  <2>2. /\ SubSeq(u, m + 1, m + n) \in Seq(A)
        /\ Len(SubSeq(u, m + 1, m + n)) = IF m + 1 <= m + n THEN (m + n) - (m + 1) + 1 ELSE 0
        /\ \A i \in 1..((m + n) - (m + 1) + 1) : SubSeq(u, m + 1, m + n)[i] = u[(m + 1) + i - 1]
    BY <2>1, SubSeqProperties
  <2>3. /\ Len(SubSeq(u, m + 1, m + n)) = n
        /\ \A i \in 1..n : SubSeq(u, m + 1, m + n)[i] = u[m + i]
    BY <2>2
  <2>4. ASSUME NEW i \in 1..n PROVE u[m + i] = t[i]
    <3>1. m + i \in 1..(m + n) /\ ~(m + i <= m) /\ (m + i) - m = i
      OBVIOUS
    <3> QED
      BY <1>3, <3>1
  <2>5. \A i \in 1..n : SubSeq(u, m + 1, m + n)[i] = t[i]
    BY <2>3, <2>4
  <2> QED
    BY <1>1, <2>2, <2>3, <2>5, SeqEqual
<1> QED
  BY <1>0, <1>1, <1>2, <1>4, <1>5

LEMMA JoinFacts ==
    ASSUME NEW A, NEW u \in Seq(A), NEW n \in 0..Len(u)
    PROVE  /\ SubSeq(u, 1, n) \in Seq(A) /\ Len(SubSeq(u, 1, n)) = n
           /\ SubSeq(u, n + 1, Len(u)) \in Seq(A) /\ Len(SubSeq(u, n + 1, Len(u))) = Len(u) - n
           /\ u = SubSeq(u, 1, n) \o SubSeq(u, n + 1, Len(u))
<1>1. Len(u) \in Nat /\ n \in Nat /\ n <= Len(u) /\ DOMAIN u = 1..Len(u)
      /\ \A i \in 1..Len(u) : u[i] \in A
  OBVIOUS
<1>2. SubSeq(u, 1, n) \in Seq(A) /\ Len(SubSeq(u, 1, n)) = n
  <2>1. \A i \in 1..n : u[i] \in A
    BY <1>1
  <2>2. SubSeq(u, 1, n) \in Seq(A) /\ Len(SubSeq(u, 1, n)) = IF 1 <= n THEN n - 1 + 1 ELSE 0
    BY <1>1, <2>1, SubSeqProperties
  <2> QED
    BY <1>1, <2>2
<1>3. SubSeq(u, n + 1, Len(u)) \in Seq(A) /\ Len(SubSeq(u, n + 1, Len(u))) = Len(u) - n
  <2>1. \A i \in (n + 1)..Len(u) : u[i] \in A
    BY <1>1
  <2>2. /\ SubSeq(u, n + 1, Len(u)) \in Seq(A)
        /\ Len(SubSeq(u, n + 1, Len(u))) = IF n + 1 <= Len(u) THEN Len(u) - (n + 1) + 1 ELSE 0
    BY <1>1, <2>1, SubSeqProperties
  <2>3. PICK m \in Nat, k \in Nat : m = Len(u) /\ k = n /\ k <= m
    BY <1>1
  <2>4. (IF k + 1 <= m THEN m - (k + 1) + 1 ELSE 0) = m - k
    BY <2>3
  <2> QED
    BY <2>2, <2>3, <2>4
<1>4. SubSeq(u, 1, n) \o SubSeq(u, n + 1, Len(u)) = SubSeq(u, 1, Len(u))
  <2>1. 1 \in 1..(Len(u) + 1) /\ n \in (1 - 1)..Len(u) /\ Len(u) \in n..Len(u)
    BY <1>1
  <2> QED
    BY <2>1, ConcatAdjacentSubSeq
<1> QED
  BY <1>2, <1>3, <1>4, SubSeqFull

\* A list is its first element and the others.
LEMMA HeadFirst ==
    ASSUME NEW A, NEW s \in Seq(A), s # <<>>
    PROVE  /\ Head(s) \in A /\ Tail(s) \in Seq(A) /\ Len(Tail(s)) = Len(s) - 1
           /\ s = <<Head(s)>> \o Tail(s)
           /\ Head(s) = s[1]
<1>1. Len(s) \in Nat \ {0} /\ 1 \in 1..Len(s) /\ Len(s) \in 1..Len(s)
  OBVIOUS
<1>2. SubSeq(s, 1, Len(s)) = <<s[1]>> \o SubSeq(s, 1 + 1, Len(s))
  BY <1>1, SubSeqRecursiveFirst
<1>3. Tail(s) = SubSeq(s, 2, Len(s)) /\ SubSeq(s, 1, Len(s)) = s
  BY TailIsSubSeq, SubSeqFull
<1>4. Head(s) = s[1] /\ 1 + 1 = 2
  OBVIOUS
<1>5. Head(s) \in A /\ Tail(s) \in Seq(A) /\ Len(Tail(s)) = Len(s) - 1
  BY HeadTailProperties
<1> QED
  BY <1>2, <1>3, <1>4, <1>5

LEMMA PartFacts ==
    ASSUME NEW A, NEW u \in Seq(A), NEW k \in Nat, NEW m \in Nat, k + m <= Len(u)
    PROVE  /\ SubSeq(u, k + 1, k + m) \in Seq(A)
           /\ Len(SubSeq(u, k + 1, k + m)) = m
           /\ \A i \in 1..m : SubSeq(u, k + 1, k + m)[i] = u[k + i]
<1>1. PICK from \in Int, to \in Int : from = k + 1 /\ to = k + m
  OBVIOUS
<1>2. \A i \in from..to : u[i] \in A
  BY <1>1
<1>3. /\ SubSeq(u, from, to) \in Seq(A)
      /\ Len(SubSeq(u, from, to)) = IF from <= to THEN to - from + 1 ELSE 0
      /\ \A i \in 1..(to - from + 1) : SubSeq(u, from, to)[i] = u[from + i - 1]
  BY <1>2, SubSeqProperties
<1>4. /\ (IF from <= to THEN to - from + 1 ELSE 0) = m /\ to - from + 1 = m
      /\ \A i \in 1..m : from + i - 1 = k + i
  BY <1>1
<1>5. \A i \in 1..m : SubSeq(u, from, to)[i] = u[k + i]
  BY <1>3, <1>4
<1> QED
  BY <1>1, <1>3, <1>4, <1>5

\* What a list begins with.
LEMMA BeginsWith ==
    ASSUME NEW A, NEW s \in Seq(A), NEW t \in Seq(A)
    PROVE  IsPrefix(s, s \o t)
<1>1. Len(s \o t) = Len(s) + Len(t) /\ SubSeq(s \o t, 1, Len(s)) = s
  BY SplitFacts
<1>2. SubSeq(s, 1, Len(s)) = s
  BY SubSeqFull
<1>3. Len(s) <= Len(s) + Len(t)
  OBVIOUS
<1> QED
  BY <1>1, <1>2, <1>3 DEF IsPrefix

\* Concatenation is associative, as one word.
Associative(s, t, u) == (s \o t) \o u = s \o (t \o u)

LEMMA Associates ==
    ASSUME NEW A, NEW s \in Seq(A), NEW t \in Seq(A), NEW u \in Seq(A)
    PROVE  Associative(s, t, u)
BY ConcatAssociative DEF Associative

\* What ends one list begins the next.
LEMMA AppendPrepend ==
    ASSUME NEW A, NEW s \in Seq(A), NEW x \in A, NEW t \in Seq(A)
    PROVE  Append(s, x) \o t = s \o (<<x>> \o t)
<1>1. <<x>> \in Seq(A) /\ Append(s, x) = s \o <<x>>
  BY AppendIsConcat
<1>2. PICK h \in Seq(A) : h = <<x>>
  BY <1>1
<1>3. Associative(s, h, t)
  BY Associates
<1> QED
  BY <1>1, <1>2, <1>3, Zenon DEF Associative

\* The hypotheses of the fact above, as one word.
Prependable(A, s, x, t) == s \in Seq(A) /\ x \in A /\ t \in Seq(A)

LEMMA PrependableAppend ==
    ASSUME NEW A, NEW s, NEW x, NEW t, Prependable(A, s, x, t)
    PROVE  Append(s, x) \o t = s \o (<<x>> \o t)
BY AppendPrepend DEF Prependable

\* A list whose elements all lie in a set is a list of that set.
LEMMA ListOf ==
    ASSUME NEW A, NEW S, NEW d \in Seq(A), \A i \in 1..Len(d) : d[i] \in S
    PROVE  d \in Seq(S)
<1>1. PICK n \in Nat : n = Len(d)
  OBVIOUS
<1>2. d \in [1..n -> S]
  BY <1>1
<1> QED
  BY <1>1, <1>2, SeqDef

\* An element and a list in the middle of a list.
LEMMA MiddleFacts ==
    ASSUME NEW A, NEW a \in Seq(A), NEW h \in Seq(A), Len(h) = 1,
           NEW b \in Seq(A), NEW c \in Seq(A),
           NEW u, u = (a \o h) \o (b \o c)
    PROVE  /\ u \in Seq(A) /\ Len(a) + 1 + Len(b) <= Len(u)
           /\ u[Len(a) + 1] = h[1]
           /\ SubSeq(u, Len(a) + 2, Len(a) + 1 + Len(b)) = b
<1>2. PICK l \in Nat, m \in Nat, n \in Nat : l = Len(a) /\ m = Len(b) /\ n = Len(c)
  OBVIOUS
<1>3. PICK p \in Seq(A) : p = a \o h
  BY ConcatProperties
<1>4. Len(p) = l + 1 /\ p[l + 1] = h[1]
  <2>1. /\ Len(a \o h) = Len(a) + Len(h)
        /\ \A i \in 1..(Len(a) + Len(h)) : (a \o h)[i] = IF i <= Len(a) THEN a[i] ELSE h[i - Len(a)]
    BY ConcatProperties
  <2>2. l + 1 \in 1..(l + 1) /\ ~(l + 1 <= l) /\ (l + 1) - l = 1
    OBVIOUS
  <2> QED
    BY <1>2, <1>3, <2>1, <2>2
<1>5. PICK q \in Seq(A) : q = b \o c
  BY ConcatProperties
<1>6. Len(q) = m + n /\ SubSeq(q, 1, m) = b
  BY <1>2, <1>5, SplitFacts
<1>7. u = p \o q
  BY <1>3, <1>5
<1>8. /\ u \in Seq(A) /\ Len(u) = Len(p) + Len(q)
      /\ \A i \in 1..(Len(p) + Len(q)) : u[i] = IF i <= Len(p) THEN p[i] ELSE q[i - Len(p)]
  BY <1>7, ConcatProperties
<1>9. u[l + 1] = h[1]
  <2>1. l + 1 \in 1..((l + 1) + (m + n)) /\ l + 1 <= l + 1
    OBVIOUS
  <2> QED
    BY <1>4, <1>6, <1>8, <2>1
<1>10. Len(u) = (l + 1) + (m + n)
  BY <1>4, <1>6, <1>8
<1>11. SubSeq(u, l + 2, l + 1 + m) = b
  <2>1. ASSUME NEW i \in 1..m PROVE u[(l + 2) + i - 1] = b[i]
    <3>1. /\ (l + 2) + i - 1 \in 1..((l + 1) + (m + n)) /\ ~((l + 2) + i - 1 <= l + 1)
          /\ ((l + 2) + i - 1) - (l + 1) = i
      OBVIOUS
    <3>2. u[(l + 2) + i - 1] = q[i]
      BY <1>4, <1>6, <1>8, <3>1
    <3>3. q[i] = b[i]
      <4>1. \A j \in 1..(Len(b) + Len(c)) : (b \o c)[j] = IF j <= Len(b) THEN b[j] ELSE c[j - Len(b)]
        BY ConcatProperties
      <4>2. i \in 1..(m + n) /\ i <= m
        OBVIOUS
      <4> QED
        BY <1>2, <1>5, <4>1, <4>2
    <3> QED
      BY <3>2, <3>3
  <2>2. PICK k \in Nat : k = l + 1
    OBVIOUS
  <2>3. k + m <= Len(u)
    BY <1>10, <2>2
  <2>4. /\ SubSeq(u, k + 1, k + m) \in Seq(A) /\ Len(SubSeq(u, k + 1, k + m)) = m
        /\ \A i \in 1..m : SubSeq(u, k + 1, k + m)[i] = u[k + i]
    <3>1. PICK w \in Seq(A) : w = u
      BY <1>8
    <3>2. k + m <= Len(w)
      BY <2>3, <3>1
    <3>3. /\ SubSeq(w, k + 1, k + m) \in Seq(A) /\ Len(SubSeq(w, k + 1, k + m)) = m
          /\ \A i \in 1..m : SubSeq(w, k + 1, k + m)[i] = w[k + i]
      BY <3>2, PartFacts
    <3> QED
      BY <3>1, <3>3
  <2>5. k + 1 = l + 2 /\ k + m = l + 1 + m /\ \A i \in 1..m : k + i = (l + 2) + i - 1
    BY <2>2
  <2>6. \A i \in 1..m : SubSeq(u, k + 1, k + m)[i] = b[i]
    <3>1. ASSUME NEW i \in 1..m PROVE SubSeq(u, k + 1, k + m)[i] = b[i]
      <4>1. SubSeq(u, k + 1, k + m)[i] = u[k + i]
        BY <2>4
      <4>2. u[(l + 2) + i - 1] = b[i]
        BY <2>1
      <4> QED
        BY <2>5, <4>1, <4>2
    <3> QED
      BY <3>1
  <2>7. PICK w \in Seq(A) : w = SubSeq(u, k + 1, k + m) /\ Len(w) = m
    BY <2>4
  <2>8. Len(w) = Len(b) /\ \A i \in 1..Len(w) : w[i] = b[i]
    BY <1>2, <2>6, <2>7
  <2>9. w = b
    BY <2>8, SeqEqual, Zenon
  <2> QED
    BY <2>5, <2>7, <2>9
<1>12. l + 1 + m <= (l + 1) + (m + n)
  OBVIOUS
<1> QED
  BY <1>2, <1>7, <1>8, <1>9, <1>10, <1>11, <1>12

\* A flattened list of lists is a list of their elements.
LEMMA FlattenType ==
    ASSUME NEW A, NEW s \in Seq(Seq(A))
    PROVE  /\ FlattenSeq(s) \in Seq(A)
           /\ ToSet(FlattenSeq(s)) = UNION {ToSet(s[k]) : k \in DOMAIN s}
<1> DEFINE T == {t \in Seq(Seq(A)) : /\ FlattenSeq(t) \in Seq(A)
                                     /\ ToSet(FlattenSeq(t)) = UNION {ToSet(t[k]) : k \in DOMAIN t}}
<1>1. <<>> \in T
  <2>1. FlattenSeq(<<>>) = <<>>
    BY DEF FlattenSeq
  <2>2. DOMAIN <<>> = {} /\ ToSet(<<>>) = {} /\ <<>> \in Seq(A) /\ <<>> \in Seq(Seq(A))
    BY DEF ToSet
  <2> QED
    BY <2>1, <2>2
<1>2. ASSUME NEW u \in Seq(Seq(A)), NEW x \in Seq(A), u \in T PROVE Append(u, x) \in T
  <2>0. Append(u, x) \in Seq(Seq(A))
    OBVIOUS
  <2>1. PICK t \in Seq(Seq(A)) : t = Append(u, x)
    BY <2>0
  <2>2. PICK n \in Nat : n = Len(u)
    OBVIOUS
  <2>3. /\ DOMAIN t = DOMAIN u \cup {n + 1} /\ t[n + 1] = x
        /\ \A k \in DOMAIN u : t[k] = u[k]
    BY <2>1, <2>2
  <2>4. FlattenSeq(t) = FlattenSeq(u) \o x
    BY <2>1, FlattenAppend
  <2>5. PICK v \in Seq(A) : v = FlattenSeq(u)
    BY <1>2
  <2>6. ToSet(v \o x) = ToSet(v) \cup ToSet(x) /\ v \o x \in Seq(A)
    BY ConcatElements
  <2>7. ToSet(v) = UNION {ToSet(u[k]) : k \in DOMAIN u}
    BY <1>2, <2>5
  <2>9. UNION {ToSet(t[k]) : k \in DOMAIN t}
           = (UNION {ToSet(u[k]) : k \in DOMAIN u}) \cup ToSet(x)
    BY <2>3, Zenon
  <2>8. ToSet(FlattenSeq(t)) = UNION {ToSet(t[k]) : k \in DOMAIN t}
    <3>1. ToSet(FlattenSeq(t)) = ToSet(v) \cup ToSet(x)
      BY <2>4, <2>5, <2>6, Zenon
    <3> QED
      BY <2>7, <2>9, <3>1, Zenon
  <2> QED
    BY <2>1, <2>4, <2>5, <2>6, <2>8
<1> HIDE DEF T
<1>3. Seq(Seq(A)) \subseteq T
  BY <1>1, <1>2, ListInduction
<1>4. s \in T
  BY <1>3
<1> QED
  BY <1>4 DEF T

LEMMA ConcatAppend ==
    ASSUME NEW A, NEW s \in Seq(A), NEW t \in Seq(A), NEW x \in A
    PROVE  s \o Append(t, x) = Append(s \o t, x)
<1>1. Append(t, x) = t \o <<x>> /\ Append(s \o t, x) = (s \o t) \o <<x>>
  BY AppendIsConcat
<1>2. <<x>> \in Seq(A)
  OBVIOUS
<1>3. PICK h \in Seq(A) : h = <<x>>
  BY <1>2
<1>4. Associative(s, t, h)
  BY Associates
<1> QED
  BY <1>1, <1>3, <1>4, Zenon DEF Associative

\* Lists that follow each other are flattened one after the other.
LEMMA FlattenConcat ==
    ASSUME NEW A, NEW s \in Seq(Seq(A)), NEW t \in Seq(Seq(A))
    PROVE  FlattenSeq(s \o t) = FlattenSeq(s) \o FlattenSeq(t)
<1> DEFINE T == {u \in Seq(Seq(A)) : FlattenSeq(s \o u) = FlattenSeq(s) \o FlattenSeq(u)}
<1>1. FlattenSeq(s) \in Seq(A)
  BY FlattenType
<1>2. <<>> \in T
  <2>1. <<>> \in Seq(Seq(A)) /\ s \o <<>> = s
    BY ConcatEmptySeq
  <2>2. FlattenSeq(<<>>) = <<>>
    BY DEF FlattenSeq
  <2>3. FlattenSeq(s) \o <<>> = FlattenSeq(s)
    BY <1>1, ConcatEmptySeq
  <2> QED
    BY <2>1, <2>2, <2>3
<1>3. ASSUME NEW u \in Seq(Seq(A)), NEW x \in Seq(A), u \in T PROVE Append(u, x) \in T
  <2>1. Append(u, x) \in Seq(Seq(A)) /\ s \o u \in Seq(Seq(A))
    OBVIOUS
  <2>2. s \o Append(u, x) = Append(s \o u, x)
    BY ConcatAppend
  <2>3. FlattenSeq(Append(s \o u, x)) = FlattenSeq(s \o u) \o x
    BY <2>1, FlattenAppend
  <2>4. FlattenSeq(Append(u, x)) = FlattenSeq(u) \o x
    BY FlattenAppend
  <2>5. FlattenSeq(u) \in Seq(A)
    BY FlattenType
  <2>6. (FlattenSeq(s) \o FlattenSeq(u)) \o x = FlattenSeq(s) \o (FlattenSeq(u) \o x)
    <3>1. Associative(FlattenSeq(s), FlattenSeq(u), x)
      BY <1>1, <2>5, Associates
    <3> QED
      BY <3>1, Zenon DEF Associative
  <2> QED
    BY <1>3, <2>1, <2>2, <2>3, <2>4, <2>6
<1> HIDE DEF T
<1>4. Seq(Seq(A)) \subseteq T
  BY <1>2, <1>3, ListInduction
<1>5. t \in T
  BY <1>4
<1> QED
  BY <1>5 DEF T

\* What comes first is flattened first.
LEMMA FlattenPrepend ==
    ASSUME NEW A, NEW x \in Seq(A), NEW s \in Seq(Seq(A))
    PROVE  FlattenSeq(<<x>> \o s) = x \o FlattenSeq(s)
<1>1. <<>> \in Seq(Seq(A)) /\ Append(<<>>, x) = <<x>> /\ <<x>> \in Seq(Seq(A))
  OBVIOUS
<1>2. FlattenSeq(<<>>) = <<>>
  BY DEF FlattenSeq
<1>3. FlattenSeq(Append(<<>>, x)) = FlattenSeq(<<>>) \o x
  BY <1>1, FlattenAppend
<1>4. FlattenSeq(<<x>>) = x
  BY <1>1, <1>2, <1>3, ConcatEmptySeq
<1>5. PICK h \in Seq(Seq(A)) : h = <<x>>
  BY <1>1
<1>6. FlattenSeq(h \o s) = FlattenSeq(h) \o FlattenSeq(s)
  BY FlattenConcat
<1> QED
  BY <1>4, <1>5, <1>6

\* A list, each element replaced by what a function makes of it; and the lists a
\* function makes of the elements, one after the other.
Mapped(s, f) == [k \in DOMAIN s |-> f[s[k]]]
FlatMapped(s, f) == FlattenSeq(Mapped(s, f))

LEMMA MappedType ==
    ASSUME NEW A, NEW B, NEW f \in [A -> B], NEW s \in Seq(A)
    PROVE  Mapped(s, f) \in Seq(B)
<1>1. DOMAIN s = 1..Len(s) /\ Len(s) \in Nat
  OBVIOUS
<1> QED
  BY <1>1 DEF Mapped

LEMMA MappedLength ==
    ASSUME NEW A, NEW f, NEW s \in Seq(A)
    PROVE  Len(Mapped(s, f)) = Len(s)
<1>1. DOMAIN s = 1..Len(s) /\ Len(s) \in Nat
  OBVIOUS
<1> QED
  BY <1>1 DEF Mapped

LEMMA MappedConcat ==
    ASSUME NEW A, NEW B, NEW f \in [A -> B], NEW s \in Seq(A), NEW t \in Seq(A)
    PROVE  Mapped(s \o t, f) = Mapped(s, f) \o Mapped(t, f)
<1>0. s \o t \in Seq(A)
  OBVIOUS
<1>1. PICK u \in Seq(A) : u = s \o t
  BY <1>0
<1>2. PICK m \in Nat, n \in Nat : m = Len(s) /\ n = Len(t)
  OBVIOUS
<1>3. /\ Len(u) = m + n
      /\ \A i \in 1..(m + n) : u[i] = IF i <= m THEN s[i] ELSE t[i - m]
  BY <1>1, <1>2, ConcatProperties
<1>4. PICK x \in Seq(B), y \in Seq(B), z \in Seq(B) :
        x = Mapped(s, f) /\ y = Mapped(t, f) /\ z = Mapped(u, f)
  BY MappedType
<1>5. Len(x) = m /\ Len(y) = n /\ Len(z) = m + n
  <2>1. Len(Mapped(s, f)) = Len(s) /\ Len(Mapped(t, f)) = Len(t) /\ Len(Mapped(u, f)) = Len(u)
    BY MappedLength
  <2> QED
    BY <1>2, <1>3, <1>4, <2>1
<1>6. /\ \A i \in 1..m : x[i] = f[s[i]]
      /\ \A i \in 1..n : y[i] = f[t[i]]
      /\ \A i \in 1..(m + n) : z[i] = f[u[i]]
  BY <1>2, <1>3, <1>4 DEF Mapped
<1>7. /\ x \o y \in Seq(B) /\ Len(x \o y) = m + n
      /\ \A i \in 1..(m + n) : (x \o y)[i] = IF i <= m THEN x[i] ELSE y[i - m]
  BY <1>5, ConcatProperties
<1>8. ASSUME NEW i \in 1..(m + n) PROVE z[i] = (x \o y)[i]
  <2>1. CASE i <= m
    BY <1>2, <1>3, <1>6, <1>7, <2>1
  <2>2. CASE ~(i <= m)
    <3>1. i - m \in 1..n
      BY <1>2, <2>2
    <3>2. u[i] = t[i - m] /\ (x \o y)[i] = y[i - m]
      BY <1>3, <1>7, <2>2
    <3> QED
      BY <1>6, <3>1, <3>2
  <2> QED
    BY <2>1, <2>2
<1>9. z = x \o y
  BY <1>5, <1>7, <1>8, SeqEqual
<1> QED
  BY <1>1, <1>4, <1>9

LEMMA MappedOne ==
    ASSUME NEW A, NEW f, NEW x \in A, NEW h \in Seq(A), h = <<x>>
    PROVE  Mapped(h, f) = <<f[x]>>
<1>1. DOMAIN h = 1..1 /\ h[1] = x
  OBVIOUS
<1> QED
  BY <1>1 DEF Mapped

LEMMA MappedAppend ==
    ASSUME NEW A, NEW B, NEW f \in [A -> B], NEW s \in Seq(A), NEW x \in A
    PROVE  Mapped(Append(s, x), f) = Append(Mapped(s, f), f[x])
<1>1. <<x>> \in Seq(A) /\ f[x] \in B
  OBVIOUS
<1>2. PICK h \in Seq(A) : h = <<x>>
  BY <1>1
<1>3. Append(s, x) = s \o h
  BY <1>2, AppendIsConcat
<1>4. Mapped(s \o h, f) = Mapped(s, f) \o Mapped(h, f)
  BY MappedConcat
<1>5. Mapped(h, f) = <<f[x]>>
  BY <1>2, MappedOne
<1>6. Mapped(s, f) \in Seq(B)
  BY MappedType
<1>7. Mapped(s, f) \o <<f[x]>> = Append(Mapped(s, f), f[x])
  BY <1>1, <1>6, AppendIsConcat
<1> QED
  BY <1>3, <1>4, <1>5, <1>7

LEMMA ListsMappedType ==
    ASSUME NEW A, NEW B, NEW f \in [A -> Seq(B)], NEW s \in Seq(A)
    PROVE  Mapped(s, f) \in Seq(Seq(B))
<1> DEFINE C == Seq(B)
<1>1. f \in [A -> C]
  OBVIOUS
<1> HIDE DEF C
<1>2. Mapped(s, f) \in Seq(C)
  BY <1>1, MappedType
<1> QED
  BY <1>2 DEF C

\* The same, its hypotheses as one word.
Mappable(A, B, f, s, t) == f \in [A -> B] /\ s \in Seq(A) /\ t \in Seq(A)

LEMMA MappableConcat ==
    ASSUME NEW A, NEW B, NEW f, NEW s, NEW t, Mappable(A, B, f, s, t)
    PROVE  Mapped(s \o t, f) = Mapped(s, f) \o Mapped(t, f)
BY MappedConcat DEF Mappable

LEMMA ListsMappedConcat ==
    ASSUME NEW A, NEW B, NEW f \in [A -> Seq(B)], NEW s \in Seq(A), NEW t \in Seq(A)
    PROVE  Mapped(s \o t, f) = Mapped(s, f) \o Mapped(t, f)
<1>1. Mappable(A, Seq(B), f, s, t)
  BY DEF Mappable
<1> QED
  BY <1>1, MappableConcat

LEMMA FlatMappedType ==
    ASSUME NEW A, NEW B, NEW f \in [A -> Seq(B)], NEW s \in Seq(A)
    PROVE  FlatMapped(s, f) \in Seq(B)
BY ListsMappedType, FlattenType DEF FlatMapped

LEMMA FlatMappedEmpty ==
    ASSUME NEW f
    PROVE  FlatMapped(<<>>, f) = <<>>
<1>1. Mapped(<<>>, f) = <<>>
  BY DEF Mapped
<1> QED
  BY <1>1 DEF FlatMapped, FlattenSeq

LEMMA FlatMappedAppend ==
    ASSUME NEW A, NEW B, NEW f \in [A -> Seq(B)], NEW s \in Seq(A), NEW x \in A
    PROVE  FlatMapped(Append(s, x), f) = FlatMapped(s, f) \o f[x]
<1>1. <<x>> \in Seq(A) /\ f[x] \in Seq(B)
  OBVIOUS
<1>2. PICK h \in Seq(A) : h = <<x>>
  BY <1>1
<1>3. Append(s, x) = s \o h
  BY <1>2, AppendIsConcat
<1>4. Mapped(s \o h, f) = Mapped(s, f) \o <<f[x]>> /\ Mapped(s, f) \in Seq(Seq(B))
  <2>1. Mapped(h, f) = <<f[x]>>
    BY <1>2, MappedOne
  <2>2. Mapped(s \o h, f) = Mapped(s, f) \o Mapped(h, f)
    BY ListsMappedConcat
  <2>3. Mapped(s, f) \in Seq(Seq(B))
    BY ListsMappedType
  <2> QED
    BY <2>1, <2>2, <2>3
<1>5. Mapped(s, f) \o <<f[x]>> = Append(Mapped(s, f), f[x])
  BY <1>1, <1>4, AppendIsConcat
<1> QED
  BY <1>1, <1>3, <1>4, <1>5, FlattenAppend DEF FlatMapped

LEMMA FlatMappedPrepend ==
    ASSUME NEW A, NEW B, NEW f \in [A -> Seq(B)], NEW s \in Seq(A), NEW x \in A
    PROVE  FlatMapped(<<x>> \o s, f) = f[x] \o FlatMapped(s, f)
<1>1. <<x>> \in Seq(A) /\ f[x] \in Seq(B)
  OBVIOUS
<1>2. PICK h \in Seq(A) : h = <<x>>
  BY <1>1
<1>3. Mapped(h \o s, f) = <<f[x]>> \o Mapped(s, f) /\ Mapped(s, f) \in Seq(Seq(B))
  <2>1. Mapped(h, f) = <<f[x]>>
    BY <1>2, MappedOne
  <2>2. Mapped(h \o s, f) = Mapped(h, f) \o Mapped(s, f)
    BY ListsMappedConcat
  <2>3. Mapped(s, f) \in Seq(Seq(B))
    BY ListsMappedType
  <2> QED
    BY <2>1, <2>2, <2>3
<1> QED
  BY <1>1, <1>2, <1>3, FlattenPrepend DEF FlatMapped

\* Both, their hypotheses as one word.
FlatMappable(A, B, f, s, x) == f \in [A -> Seq(B)] /\ s \in Seq(A) /\ x \in A

LEMMA FlatMappableAppend ==
    ASSUME NEW A, NEW B, NEW f, NEW s, NEW x, FlatMappable(A, B, f, s, x)
    PROVE  FlatMapped(Append(s, x), f) = FlatMapped(s, f) \o f[x]
BY FlatMappedAppend DEF FlatMappable

LEMMA FlatMappablePrepend ==
    ASSUME NEW A, NEW B, NEW f, NEW s, NEW x, FlatMappable(A, B, f, s, x), NEW h, h = <<x>>
    PROVE  FlatMapped(h \o s, f) = f[x] \o FlatMapped(s, f)
BY FlatMappedPrepend DEF FlatMappable

-----------------------------------------------------------------------------
\* A list without repetition is as long as the set of its elements.
Once(s) == \A i, j \in DOMAIN s : s[i] = s[j] => i = j

LEMMA OnceCount ==
    ASSUME NEW A, NEW s \in Seq(A), Once(s)
    PROVE  IsFiniteSet(ToSet(s)) /\ Cardinality(ToSet(s)) = Len(s)
<1>1. Len(s) \in Nat /\ DOMAIN s = 1..Len(s) /\ s \in [1..Len(s) -> A]
  OBVIOUS
<1>2. s \in [1..Len(s) -> ToSet(s)]
  BY <1>1 DEF ToSet
<1>3. s \in Surjection(1..Len(s), ToSet(s))
  BY <1>1, <1>2 DEF Surjection, ToSet
<1>4. s \in Injection(1..Len(s), ToSet(s))
  BY <1>1, <1>2 DEF Injection, IsInjective, Once
<1>5. IsFiniteSet(1..Len(s)) /\ Cardinality(1..Len(s)) = Len(s)
  BY <1>1, FS_Interval
<1> QED
  BY <1>3, <1>4, <1>5, FS_Surjection

\* Two lists of different elements, one after the other.
LEMMA OnceConcat ==
    ASSUME NEW A, NEW s \in Seq(A), NEW t \in Seq(A), Once(s), Once(t),
           ToSet(s) \cap ToSet(t) = {}
    PROVE  Once(s \o t)
<1>1. Len(s) \in Nat /\ Len(t) \in Nat /\ DOMAIN s = 1..Len(s) /\ DOMAIN t = 1..Len(t)
      /\ DOMAIN (s \o t) = 1..(Len(s) + Len(t))
  OBVIOUS
<1>2. \A i \in 1..Len(s) : (s \o t)[i] = s[i] /\ s[i] \in ToSet(s)
  BY <1>1 DEF ToSet
<1>3. \A i \in 1..(Len(s) + Len(t)) : i \notin 1..Len(s) =>
        i - Len(s) \in 1..Len(t) /\ (s \o t)[i] = t[i - Len(s)] /\ t[i - Len(s)] \in ToSet(t)
  BY <1>1 DEF ToSet
<1>4. SUFFICES ASSUME NEW i \in 1..(Len(s) + Len(t)), NEW j \in 1..(Len(s) + Len(t)),
                      (s \o t)[i] = (s \o t)[j]
               PROVE  i = j
  BY <1>1 DEF Once
<1>5. CASE i \in 1..Len(s) /\ j \in 1..Len(s)
  BY <1>1, <1>2, <1>4, <1>5 DEF Once
<1>6. CASE i \notin 1..Len(s) /\ j \notin 1..Len(s)
  <2>1. i - Len(s) = j - Len(s)
    BY <1>1, <1>3, <1>4, <1>6 DEF Once
  <2> QED
    BY <1>1, <2>1
<1>7. CASE (i \in 1..Len(s)) # (j \in 1..Len(s))
  BY <1>2, <1>3, <1>4, <1>7
<1> QED
  BY <1>5, <1>6, <1>7

-----------------------------------------------------------------------------
\* Sums of natural numbers.
LEMMA SumNat ==
    ASSUME NEW S, IsFiniteSet(S), NEW f, \A s \in S : f[s] \in Nat
    PROVE  SumFunctionOnSet(f, S) \in Nat
<1> DEFINE zero == [s \in S |-> 0]
<1>1. SumFunctionOnSet(zero, S) = 0
  <2>1. {} \in SUBSET S /\ \A s \in S : zero[s] = 0 /\ zero[s] \in Int
    OBVIOUS
  <2> HIDE DEF zero
  <2> QED
    BY <2>1, SumOfRest, SumEmpty
<1>2. \A s \in S : zero[s] \in Int /\ f[s] \in Int /\ zero[s] <= f[s]
  OBVIOUS
<1> HIDE DEF zero
<1>3. SumFunctionOnSet(zero, S) <= SumFunctionOnSet(f, S)
  BY <1>2, SumCompare
<1> QED
  BY <1>1, <1>2, <1>3, SumType

\* No summand is more than the sum.
LEMMA SumBounds ==
    ASSUME NEW S, IsFiniteSet(S), NEW f, \A s \in S : f[s] \in Nat, NEW x \in S
    PROVE  f[x] <= SumFunctionOnSet(f, S)
<1>1. IsFiniteSet(S \ {x})
  BY FS_Subset
<1>2. SumFunctionOnSet(f, S \ {x}) \in Nat
  BY <1>1, SumNat
<1>3. SumFunctionOnSet(f, S) = f[x] + SumFunctionOnSet(f, S \ {x})
  BY SumRemove
<1> QED
  BY <1>2, <1>3

\* Summands of 1 and more add up to the number of summands and more.
LEMMA SumCounts ==
    ASSUME NEW n \in Nat, NEW f, \A s \in 1..n : f[s] \in Nat \ {0}
    PROVE  n <= SumFunctionOnSet(f, 1..n)
<1> DEFINE T == {m \in Nat : m <= n => m <= SumFunctionOnSet(f, 1..m)}
<1>1. 0 \in T
  <2>1. 1..0 = {}
    OBVIOUS
  <2>2. SumFunctionOnSet(f, 1..0) = 0
    BY <2>1, SumEmpty
  <2> QED
    BY <2>2
<1>2. ASSUME NEW m \in Nat, m \in T PROVE m + 1 \in T
  <2>1. SUFFICES ASSUME m + 1 <= n PROVE m + 1 <= SumFunctionOnSet(f, 1..(m + 1))
    OBVIOUS
  <2>2. m <= SumFunctionOnSet(f, 1..m)
    BY <1>2, <2>1
  <2>3. IsFiniteSet(1..(m + 1)) /\ IsFiniteSet(1..m)
    BY FS_Interval
  <2>4. \A s \in 1..(m + 1) : f[s] \in Nat \ {0}
    BY <2>1
  <2>5. (1..(m + 1)) \ {m + 1} = 1..m /\ m + 1 \in 1..(m + 1)
    OBVIOUS
  <2>6. SumFunctionOnSet(f, 1..(m + 1)) = f[m + 1] + SumFunctionOnSet(f, (1..(m + 1)) \ {m + 1})
    BY <2>3, <2>4, <2>5, SumRemove
  <2>7. SumFunctionOnSet(f, 1..m) \in Nat
    BY <2>1, <2>3, SumNat
  <2>8. SumFunctionOnSet(f, 1..(m + 1)) = f[m + 1] + SumFunctionOnSet(f, 1..m)
    BY <2>5, <2>6
  <2>9. f[m + 1] \in Nat \ {0}
    BY <2>4, <2>5
  <2> QED
    BY <2>2, <2>7, <2>8, <2>9
<1> HIDE DEF T
<1>3. n \in T
  BY <1>1, <1>2, NumberInduction
<1> QED
  BY <1>3 DEF T

\* Summands of at most b add up to at most b each.
LEMMA SumAtMost ==
    ASSUME NEW n \in Nat, NEW b \in Nat, NEW f, \A s \in 1..n : f[s] \in 0..b
    PROVE  SumFunctionOnSet(f, 1..n) <= n * b
<1> DEFINE T == {m \in Nat : m <= n => SumFunctionOnSet(f, 1..m) <= m * b}
<1>1. 0 \in T
  <2>1. 1..0 = {} /\ 0 * b = 0 /\ 0 <= 0
    OBVIOUS
  <2>2. SumFunctionOnSet(f, 1..0) = 0
    BY <2>1, SumEmpty
  <2> QED
    BY <2>1, <2>2
<1>2. ASSUME NEW m \in Nat, m \in T PROVE m + 1 \in T
  <2>1. SUFFICES ASSUME m + 1 <= n PROVE SumFunctionOnSet(f, 1..(m + 1)) <= (m + 1) * b
    OBVIOUS
  <2>2. SumFunctionOnSet(f, 1..m) <= m * b
    BY <1>2, <2>1
  <2>3. IsFiniteSet(1..(m + 1)) /\ IsFiniteSet(1..m)
    BY FS_Interval
  <2>4. \A s \in 1..(m + 1) : s \in 1..n
    BY <2>1
  <2>5. /\ \A s \in 1..(m + 1) : f[s] \in Int /\ f[s] \in Nat /\ f[s] <= b
        /\ \A s \in 1..m : f[s] \in Nat
    BY <2>1, <2>4
  <2>6. (1..(m + 1)) \ {m + 1} = 1..m /\ m + 1 \in 1..(m + 1)
    OBVIOUS
  <2>7. SumFunctionOnSet(f, 1..(m + 1)) = f[m + 1] + SumFunctionOnSet(f, 1..m)
    BY <2>3, <2>5, <2>6, SumRemove
  <2>8. PICK v \in Nat, w \in Nat : v = f[m + 1] /\ w = SumFunctionOnSet(f, 1..m)
    BY <2>3, <2>5, <2>6, SumNat
  <2>9. v <= b /\ w <= m * b
    BY <2>2, <2>5, <2>6, <2>8
  <2>10. (m + 1) * b = m * b + b /\ m * b \in Nat
    OBVIOUS
  <2>11. v + w <= (m + 1) * b
    BY <2>9, <2>10
  <2> QED
    BY <2>7, <2>8, <2>11
<1> HIDE DEF T
<1>3. n \in T
  BY <1>1, <1>2, NumberInduction
<1>4. n <= n
  OBVIOUS
<1> QED
  BY <1>3, <1>4 DEF T

-----------------------------------------------------------------------------
\* The accounts among some, for any list: the recursion of Only and its solution.
Keeping(accs, some, kept) ==
    kept = [n \in 0..Len(accs) |->
               IF n = 0 THEN <<>>
               ELSE IF accs[n] \in some THEN Append(kept[n - 1], accs[n]) ELSE kept[n - 1]]
Kept(accs, some) == CHOOSE kept : Keeping(accs, some, kept)

LEMMA KeptExists ==
    ASSUME NEW A, NEW accs \in Seq(A), NEW some
    PROVE  Keeping(accs, some, Kept(accs, some))
<1> DEFINE Step(f, n) == IF n = 0 THEN <<>>
                          ELSE IF accs[n] \in some THEN Append(f[n - 1], accs[n]) ELSE f[n - 1]
           Upto(n, f) == f = [i \in 0..n |-> Step(f, i)]
           T == {n \in Nat : \E f : Upto(n, f)}
<1>1. 0 \in T
  <2> DEFINE f == [i \in 0..0 |-> <<>>]
  <2>1. Upto(0, f)
    OBVIOUS
  <2> QED
    <3> HIDE DEF Upto, f
    <3> QED
      BY <2>1
<1>2. ASSUME NEW n \in Nat, n \in T PROVE n + 1 \in T
  <2>1. PICK f : Upto(n, f)
    BY <1>2
  <2> DEFINE g == [i \in 0..(n + 1) |-> Step(f, i)]
  <2>2. \A i \in 0..n : f[i] = Step(f, i)
    BY <2>1
  <2>3. \A i \in 0..n : g[i] = f[i]
    BY <2>2
  <2>4. \A i \in 0..(n + 1) : i # 0 => i - 1 \in 0..n
    OBVIOUS
  <2>5. ASSUME NEW i \in 0..(n + 1) PROVE Step(g, i) = Step(f, i)
    <3>1. CASE i = 0
      BY <3>1
    <3>2. CASE i # 0
      <4>1. i - 1 \in 0..n
        BY <3>2
      <4>2. g[i - 1] = f[i - 1]
        BY <2>3, <4>1
      <4> HIDE DEF g
      <4> QED
        BY <3>2, <4>2
    <3> QED
      BY <3>1, <3>2
  <2>6. Upto(n + 1, g)
    BY <2>5
  <2> QED
    <3> HIDE DEF Upto, g
    <3> QED
      BY <2>6
<1> HIDE DEF T
<1>3. Len(accs) \in T
  BY <1>1, <1>2, NumberInduction
<1> QED
  BY <1>3, Zenon DEF T, Keeping, Kept

\* Only keeps exactly the accounts among some, each as often as the list has it.
LEMMA OnlyFacts ==
    ASSUME NEW A, NEW accs \in Seq(A), NEW some
    PROVE  /\ Only(accs, some) \in Seq(A)
           /\ ToSet(Only(accs, some)) = ToSet(accs) \cap some
           /\ Once(accs) => Once(Only(accs, some))
<1> DEFINE k == Kept(accs, some)
           Good(n) == /\ k[n] \in Seq(A)
                      /\ ToSet(k[n]) = {accs[i] : i \in 1..n} \cap some
                      /\ Once(accs) => Once(k[n])
           T == {n \in Nat : n <= Len(accs) => Good(n)}
<1>0. Len(accs) \in Nat /\ DOMAIN accs = 1..Len(accs)
  OBVIOUS
<1>1. Keeping(accs, some, k)
  BY KeptExists
<1> HIDE DEF k
<1>2. 0 \in T
  <2>1. k[0] = <<>>
    BY <1>0, <1>1 DEF Keeping
  <2>2. <<>> \in Seq(A) /\ 1..0 = {} /\ DOMAIN <<>> = {}
    OBVIOUS
  <2>3. Good(0)
    BY <2>1, <2>2 DEF ToSet, Once
  <2> QED
    BY <2>3
<1>3. ASSUME NEW n \in Nat, n \in T PROVE n + 1 \in T
  <2>1. SUFFICES ASSUME n + 1 <= Len(accs) PROVE Good(n + 1)
    OBVIOUS
  <2>2. Good(n) /\ n + 1 \in 1..Len(accs) /\ accs[n + 1] \in A
    BY <1>0, <1>3, <2>1
  <2>3. k[n + 1] = IF accs[n + 1] \in some THEN Append(k[n], accs[n + 1]) ELSE k[n]
    <3>1. n + 1 \in 0..Len(accs) /\ n + 1 # 0 /\ (n + 1) - 1 = n
      BY <1>0, <2>1
    <3> QED
      BY <1>1, <3>1 DEF Keeping
  <2>4. 1..(n + 1) = (1..n) \cup {n + 1} /\ 1..n \subseteq 1..Len(accs)
    BY <1>0, <2>1
  <2>5. CASE accs[n + 1] \in some
    <3>1. PICK s \in Seq(A) : s = k[n]
      BY <2>2
    <3>2. k[n + 1] = Append(s, accs[n + 1])
      BY <2>3, <2>5, <3>1
    <3>3. ToSet(k[n + 1]) = ToSet(s) \cup {accs[n + 1]}
      <4>1. DOMAIN k[n + 1] = DOMAIN s \cup {Len(s) + 1} /\ k[n + 1][Len(s) + 1] = accs[n + 1]
            /\ \A i \in DOMAIN s : k[n + 1][i] = s[i]
        BY <2>2, <3>2
      <4> QED
        BY <4>1 DEF ToSet
    <3>4. ASSUME Once(accs) PROVE Once(k[n + 1])
      <4>1. accs[n + 1] \notin ToSet(s)
        <5>1. \A i \in 1..n : i \in DOMAIN accs /\ n + 1 \in DOMAIN accs /\ i # n + 1
          BY <1>0, <2>2, <2>4
        <5>2. \A i \in 1..n : accs[i] # accs[n + 1]
          BY <3>4, <5>1 DEF Once
        <5> QED
          BY <2>2, <3>1, <5>2
      <4>2. Once(s)
        BY <2>2, <3>1, <3>4
      <4>3. \A i \in DOMAIN s : s[i] # accs[n + 1]
        BY <4>1 DEF ToSet
      <4>4. DOMAIN k[n + 1] = DOMAIN s \cup {Len(s) + 1} /\ k[n + 1][Len(s) + 1] = accs[n + 1]
            /\ \A i \in DOMAIN s : k[n + 1][i] = s[i]
        BY <2>2, <3>2
      <4> QED
        BY <4>2, <4>3, <4>4 DEF Once
    <3>5. k[n + 1] \in Seq(A)
      BY <2>2, <3>2
    <3>6. {accs[i] : i \in 1..(n + 1)} = {accs[i] : i \in 1..n} \cup {accs[n + 1]}
      BY <2>4
    <3> QED
      BY <2>2, <2>5, <3>1, <3>3, <3>4, <3>5, <3>6
  <2>6. CASE accs[n + 1] \notin some
    <3>1. {accs[i] : i \in 1..(n + 1)} = {accs[i] : i \in 1..n} \cup {accs[n + 1]}
      BY <2>4
    <3> QED
      BY <2>2, <2>3, <2>6, <3>1
  <2> QED
    BY <2>5, <2>6
<1>4. Good(Len(accs))
  <2> HIDE DEF Good
  <2>1. Nat \subseteq T
    BY <1>2, <1>3, NumberInduction
  <2> QED
    BY <1>0, <2>1
<1>5. Only(accs, some) = k[Len(accs)]
  BY Zenon DEF Only, k, Kept, Keeping
<1>6. ToSet(accs) = {accs[i] : i \in 1..Len(accs)}
  BY <1>0 DEF ToSet
<1> QED
  BY <1>4, <1>5, <1>6

\* What is kept depends on the elements the list has.
LEMMA OnlySame ==
    ASSUME NEW A, NEW accs \in Seq(A), NEW some, NEW others,
           \A a \in ToSet(accs) : a \in some <=> a \in others
    PROVE  Only(accs, some) = Only(accs, others)
<1>0. PICK l \in Nat : l = Len(accs)
  OBVIOUS
<1>1. ASSUME NEW n \in 0..l, n # 0 PROVE accs[n] \in some <=> accs[n] \in others
  <2>1. n \in DOMAIN accs
    BY <1>0, <1>1
  <2>2. accs[n] \in ToSet(accs)
    BY <2>1 DEF ToSet
  <2> QED
    BY <2>2
<1>2. ASSUME NEW f PROVE Keeping(accs, some, f) <=> Keeping(accs, others, f)
  <2> DEFINE Step(n, these) == IF n = 0 THEN <<>>
                               ELSE IF accs[n] \in these THEN Append(f[n - 1], accs[n]) ELSE f[n - 1]
  <2>1. \A n \in 0..l : Step(n, some) = Step(n, others)
    BY <1>1
  <2>2. [n \in 0..l |-> Step(n, some)] = [n \in 0..l |-> Step(n, others)]
    <3> HIDE DEF Step
    <3> QED
      BY <2>1
  <2> QED
    BY Zenon, <1>0, <2>2 DEF Keeping
<1>3. Kept(accs, some) = Kept(accs, others)
  BY Zenon, <1>2 DEF Kept
<1> QED
  BY Zenon, <1>3 DEF Only, Kept, Keeping

LEMMA OnlyIsKept == ASSUME NEW accs, NEW some PROVE Only(accs, some) = Kept(accs, some)[Len(accs)]
BY Zenon DEF Only, Kept, Keeping

LEMMA OnlyEmpty == ASSUME NEW some PROVE Only(<<>>, some) = <<>>
<1>1. <<>> \in Seq({}) /\ Len(<<>>) = 0
  OBVIOUS
<1>2. Keeping(<<>>, some, Kept(<<>>, some))
  BY <1>1, KeptExists
<1>3. Kept(<<>>, some)[0] = <<>>
  BY <1>1, <1>2 DEF Keeping
<1> QED
  BY Zenon, <1>1, <1>3, OnlyIsKept

LEMMA OnlyAppend ==
    ASSUME NEW A, NEW accs \in Seq(A), NEW a \in A, NEW some
    PROVE  Only(Append(accs, a), some)
               = IF a \in some THEN Append(Only(accs, some), a) ELSE Only(accs, some)
<1>12. PICK l \in Nat : l = Len(accs)
  OBVIOUS
<1>13. PICK t \in Seq(A) : t = Append(accs, a)
  <2>1. Append(accs, a) \in Seq(A)
    OBVIOUS
  <2> QED
    BY <2>1
<1>1. l = Len(accs) /\ t = Append(accs, a)
  BY <1>12, <1>13
<1>2. Len(t) = l + 1 /\ t[l + 1] = a /\ \A n \in 1..l : t[n] = accs[n]
  BY <1>1
<1>3. PICK f, g : f = Kept(accs, some) /\ g = Kept(t, some)
  OBVIOUS
<1>4. \A n \in 0..l : f[n] = IF n = 0 THEN <<>>
                             ELSE IF accs[n] \in some THEN Append(f[n - 1], accs[n]) ELSE f[n - 1]
  <2>1. Keeping(accs, some, f)
    BY <1>3, KeptExists
  <2> QED
    BY <1>1, <2>1 DEF Keeping
<1>5. \A n \in 0..(l + 1) : g[n] = IF n = 0 THEN <<>>
                             ELSE IF t[n] \in some THEN Append(g[n - 1], t[n]) ELSE g[n - 1]
  <2>1. Keeping(t, some, g)
    BY <1>3, KeptExists
  <2> QED
    BY <1>2, <2>1 DEF Keeping
<1> DEFINE T == {n \in Nat : n <= l => g[n] = f[n]}
<1>6. 0 \in T
  <2>1. 0 \in 0..l /\ 0 \in 0..(l + 1)
    OBVIOUS
  <2> QED
    BY <1>4, <1>5, <2>1
<1>7. ASSUME NEW n \in Nat, n \in T PROVE n + 1 \in T
  <2>1. SUFFICES ASSUME n + 1 <= l PROVE g[n + 1] = f[n + 1]
    OBVIOUS
  <2>2. /\ n + 1 \in 0..l /\ n + 1 \in 0..(l + 1) /\ n + 1 \in 1..l
        /\ n + 1 # 0 /\ (n + 1) - 1 = n /\ n <= l
    BY <2>1
  <2>3. g[n] = f[n] /\ t[n + 1] = accs[n + 1]
    BY <1>2, <1>7, <2>2
  <2>4. f[n + 1] = IF accs[n + 1] \in some THEN Append(f[n], accs[n + 1]) ELSE f[n]
    BY <1>4, <2>2
  <2>5. g[n + 1] = IF t[n + 1] \in some THEN Append(g[n], t[n + 1]) ELSE g[n]
    BY <1>5, <2>2
  <2>6. PICK x, z : x = accs[n + 1] /\ x = t[n + 1] /\ z = f[n] /\ z = g[n]
    BY <2>3
  <2>7. PICK y : y = IF x \in some THEN Append(z, x) ELSE z
    OBVIOUS
  <2>8. f[n + 1] = y
    BY Zenon, <2>4, <2>6, <2>7
  <2>9. g[n + 1] = y
    BY Zenon, <2>5, <2>6, <2>7
  <2> QED
    BY <2>8, <2>9
<1> HIDE DEF T
<1>8. g[l] = f[l]
  <2>1. l \in T
    BY <1>6, <1>7, NumberInduction
  <2> QED
    BY <2>1 DEF T
<1>9. g[l + 1] = IF a \in some THEN Append(f[l], a) ELSE f[l]
  <2>1. l + 1 \in 0..(l + 1) /\ l + 1 # 0 /\ (l + 1) - 1 = l
    OBVIOUS
  <2>2. g[l + 1] = IF t[l + 1] \in some THEN Append(g[l], t[l + 1]) ELSE g[l]
    BY <1>5, <2>1
  <2> QED
    BY Zenon, <1>2, <1>8, <2>2
<1>10. Only(accs, some) = f[l]
  BY Zenon, <1>1, <1>3 DEF Only, Kept, Keeping
<1>11. Only(t, some) = g[l + 1]
  BY Zenon, <1>2, <1>3 DEF Only, Kept, Keeping
<1> QED
  BY Zenon, <1>1, <1>9, <1>10, <1>11

\* Choosing twice.
LEMMA OnlyOnly ==
    ASSUME NEW A, NEW accs \in Seq(A), NEW some, NEW others
    PROVE  Only(Only(accs, some), others) = Only(accs, some \cap others)
<1> DEFINE T == {s \in Seq(A) : Only(Only(s, some), others) = Only(s, some \cap others)}
<1>1. <<>> \in T
  <2>1. <<>> \in Seq(A)
    OBVIOUS
  <2> QED
    BY <2>1, OnlyEmpty
<1>2. ASSUME NEW s \in Seq(A), NEW a \in A, s \in T PROVE Append(s, a) \in T
  <2>1. PICK k \in Seq(A) : k = Only(s, some)
    BY OnlyFacts
  <2>10. PICK both : both = some \cap others
    OBVIOUS
  <2>2. PICK b \in Seq(A) : b = Only(s, both)
    BY OnlyFacts
  <2>3. Only(k, others) = b
    BY <1>2, <2>1, <2>2, <2>10
  <2>4. Only(Append(s, a), some) = IF a \in some THEN Append(k, a) ELSE k
    BY <2>1, OnlyAppend
  <2>5. Only(Append(s, a), both) = IF a \in both THEN Append(b, a) ELSE b
    BY <2>2, OnlyAppend
  <2>6. Only(Append(k, a), others) = IF a \in others THEN Append(b, a) ELSE b
    BY <2>3, OnlyAppend
  <2>7. a \in both <=> a \in some /\ a \in others
    BY <2>10
  <2>8. Only(Only(Append(s, a), some), others) = Only(Append(s, a), both)
    BY Zenon, <2>3, <2>4, <2>5, <2>6, <2>7
  <2>9. Append(s, a) \in Seq(A)
    OBVIOUS
  <2> QED
    BY <2>8, <2>9, <2>10
<1> HIDE DEF T
<1>3. Seq(A) \subseteq T
  BY <1>1, <1>2, ListInduction
<1> QED
  BY <1>3 DEF T

\* Choosing all.
LEMMA OnlyAll ==
    ASSUME NEW A, NEW accs \in Seq(A)
    PROVE  Only(accs, ToSet(accs)) = accs
<1> DEFINE T == {s \in Seq(A) : Only(s, A) = s}
<1>1. <<>> \in T
  <2>1. <<>> \in Seq(A)
    OBVIOUS
  <2> QED
    BY <2>1, OnlyEmpty
<1>2. ASSUME NEW s \in Seq(A), NEW a \in A, s \in T PROVE Append(s, a) \in T
  <2>1. Only(Append(s, a), A) = Append(Only(s, A), a)
    BY OnlyAppend
  <2>2. Append(s, a) \in Seq(A)
    OBVIOUS
  <2> QED
    BY <1>2, <2>1, <2>2
<1> HIDE DEF T
<1>3. Seq(A) \subseteq T
  BY <1>1, <1>2, ListInduction
<1>4. Only(accs, A) = accs
  BY <1>3 DEF T
<1>5. \A a \in ToSet(accs) : a \in ToSet(accs) <=> a \in A
  BY DEF ToSet
<1>6. Only(accs, ToSet(accs)) = Only(accs, A)
  BY <1>5, OnlySame
<1> QED
  BY <1>4, <1>6

-----------------------------------------------------------------------------
MetaOf(K) == [key : K, signer : BOOLEAN, writable : BOOLEAN]

\* The accounts collected from the first n metas of a list: their keys, each once,
\* with the privileges that some meta asks for.
Distinct(accs) == \A i, j \in DOMAIN accs : accs[i].key = accs[j].key => i = j
Asks(list, n, key, privilege) ==
    \E j \in 1..n : list[j].key = key /\ list[j][privilege]
Gathered(K, accs, list, n) ==
    /\ accs \in Seq(MetaOf(K))
    /\ Distinct(accs)
    /\ \A i \in DOMAIN accs : \E j \in 1..n : list[j].key = accs[i].key
    /\ \A j \in 1..n : \E i \in DOMAIN accs : accs[i].key = list[j].key
    /\ \A i \in DOMAIN accs :
          /\ accs[i].signer <=> Asks(list, n, accs[i].key, "signer")
          /\ accs[i].writable <=> Asks(list, n, accs[i].key, "writable")

LEMMA UpsertedGathers ==
    ASSUME NEW K, NEW list \in Seq(MetaOf(K)), NEW n \in Nat, n + 1 <= Len(list),
           NEW accs, Gathered(K, accs, list, n)
    PROVE  Gathered(K, Upserted(accs, list[n + 1]), list, n + 1)
<1> DEFINE m == list[n + 1]
           new == Upserted(accs, m)
<1>1. m \in MetaOf(K) /\ m.key \in K /\ m.signer \in BOOLEAN /\ m.writable \in BOOLEAN
  <2>1. n + 1 \in 1..Len(list)
    OBVIOUS
  <2>2. m \in MetaOf(K)
    BY <2>1
  <2> QED
    BY <2>2 DEF MetaOf
<1>2. accs \in Seq(MetaOf(K)) /\ Distinct(accs) /\ DOMAIN accs = 1..Len(accs) /\ Len(accs) \in Nat
  BY DEF Gathered
<1>3. \A i \in DOMAIN accs : accs[i] \in MetaOf(K)
  BY <1>2
<1>4. 1..(n + 1) = (1..n) \cup {n + 1}
  OBVIOUS
<1>5. ASSUME NEW key, NEW privilege
      PROVE  Asks(list, n + 1, key, privilege)
                <=> Asks(list, n, key, privilege) \/ (m.key = key /\ m[privilege])
  BY <1>4 DEF Asks
<1>8. \A i \in DOMAIN accs : \E j \in 1..n : list[j].key = accs[i].key
  BY DEF Gathered
<1>9. \A j \in 1..n : \E i \in DOMAIN accs : accs[i].key = list[j].key
  BY DEF Gathered
<1>10. n + 1 \in 1..(n + 1) /\ list[n + 1].key = m.key
  OBVIOUS
<1> HIDE DEF m
<1>6. CASE \E k \in DOMAIN accs : accs[k].key = m.key
  <2> DEFINE Merged(i) ==
               IF accs[i].key = m.key
               THEN Meta(m.key, accs[i].signer \/ m.signer, accs[i].writable \/ m.writable)
               ELSE accs[i]
  <2>1. new = [i \in DOMAIN accs |-> Merged(i)]
    BY <1>6 DEF Upserted
  <2>2. \A i \in DOMAIN accs : Merged(i) \in MetaOf(K) /\ Merged(i).key = accs[i].key
    BY <1>1, <1>3 DEF MetaOf, Meta
  <2>3. new \in Seq(MetaOf(K)) /\ DOMAIN new = DOMAIN accs
        /\ \A i \in DOMAIN accs : new[i] = Merged(i)
    BY <1>2, <2>1, <2>2
  <2>4. Distinct(new)
    BY <1>2, <2>2, <2>3 DEF Distinct
  <2>5. \A i \in DOMAIN new : \E j \in 1..(n + 1) : list[j].key = new[i].key
    <3> HIDE DEF Merged, new
    <3> QED
      BY <1>4, <1>8, <2>2, <2>3
  <2>6. \A j \in 1..(n + 1) : \E i \in DOMAIN new : new[i].key = list[j].key
    <3> HIDE DEF Merged, new
    <3>1. ASSUME NEW j \in 1..n PROVE \E i \in DOMAIN new : new[i].key = list[j].key
      <4>1. PICK i \in DOMAIN accs : accs[i].key = list[j].key
        BY <1>9
      <4> QED
        BY <2>2, <2>3, <4>1
    <3>2. \E i \in DOMAIN new : new[i].key = list[n + 1].key
      BY <1>6, <1>10, <2>2, <2>3
    <3> QED
      BY <1>4, <3>1, <3>2
  <2>7. ASSUME NEW i \in DOMAIN new
        PROVE  /\ new[i].signer <=> Asks(list, n + 1, new[i].key, "signer")
               /\ new[i].writable <=> Asks(list, n + 1, new[i].key, "writable")
    <3>1. i \in DOMAIN accs /\ new[i] = Merged(i) /\ new[i].key = accs[i].key
      BY <2>2, <2>3
    <3>2. /\ accs[i].signer <=> Asks(list, n, accs[i].key, "signer")
          /\ accs[i].writable <=> Asks(list, n, accs[i].key, "writable")
      BY <3>1 DEF Gathered
    <3>3. /\ Merged(i).signer <=> accs[i].signer \/ (m.key = accs[i].key /\ m.signer)
          /\ Merged(i).writable <=> accs[i].writable \/ (m.key = accs[i].key /\ m.writable)
      BY DEF Meta
    <3> QED
      BY <1>5, <3>1, <3>2, <3>3, Zenon
  <2> QED
    BY <2>3, <2>4, <2>5, <2>6, <2>7 DEF Gathered, m
<1>7. CASE ~\E k \in DOMAIN accs : accs[k].key = m.key
  <2>1. new = Append(accs, m)
    BY <1>7 DEF Upserted
  <2>2. new \in Seq(MetaOf(K)) /\ DOMAIN new = DOMAIN accs \cup {Len(accs) + 1}
        /\ new[Len(accs) + 1] = m /\ \A i \in DOMAIN accs : new[i] = accs[i]
    BY <1>1, <1>2, <2>1
  <2>3. Distinct(new)
    BY <1>2, <1>7, <2>2 DEF Distinct
  <2>4. \A i \in DOMAIN new : \E j \in 1..(n + 1) : list[j].key = new[i].key
    <3> HIDE DEF new
    <3>1. ASSUME NEW i \in DOMAIN accs PROVE \E j \in 1..(n + 1) : list[j].key = new[i].key
      BY <1>4, <1>8, <2>2
    <3>2. list[n + 1].key = new[Len(accs) + 1].key
      BY <1>10, <2>2
    <3> QED
      BY <1>10, <2>2, <3>1, <3>2
  <2>5. \A j \in 1..(n + 1) : \E i \in DOMAIN new : new[i].key = list[j].key
    <3> HIDE DEF new
    <3>1. ASSUME NEW j \in 1..n PROVE \E i \in DOMAIN new : new[i].key = list[j].key
      <4>1. PICK i \in DOMAIN accs : accs[i].key = list[j].key
        BY <1>9
      <4> QED
        BY <2>2, <4>1
    <3>2. \E i \in DOMAIN new : new[i].key = list[n + 1].key
      BY <1>10, <2>2
    <3> QED
      BY <1>4, <3>1, <3>2
  <2>6. ASSUME NEW i \in DOMAIN new
        PROVE  /\ new[i].signer <=> Asks(list, n + 1, new[i].key, "signer")
               /\ new[i].writable <=> Asks(list, n + 1, new[i].key, "writable")
    <3>1. CASE i \in DOMAIN accs
      <4>1. new[i] = accs[i] /\ accs[i].key # m.key
        BY <1>7, <2>2, <3>1
      <4>2. /\ accs[i].signer <=> Asks(list, n, accs[i].key, "signer")
            /\ accs[i].writable <=> Asks(list, n, accs[i].key, "writable")
        BY <3>1 DEF Gathered
      <4> HIDE DEF new
      <4> QED
        BY <1>5, <4>1, <4>2
    <3>2. CASE i = Len(accs) + 1
      <4>1. new[i] = m
        BY <2>2, <3>2
      <4>2. \A j \in 1..n : list[j].key # m.key
        BY <1>7 DEF Gathered
      <4>3. ~Asks(list, n, m.key, "signer") /\ ~Asks(list, n, m.key, "writable")
        BY <4>2 DEF Asks
      <4>4. m["signer"] = m.signer /\ m["writable"] = m.writable
        OBVIOUS
      <4> HIDE DEF new
      <4> QED
        BY <1>5, <4>1, <4>3, <4>4
    <3> QED
      BY <2>2, <3>1, <3>2
  <2> QED
    BY <2>2, <2>3, <2>4, <2>5, <2>6 DEF Gathered, m
<1> QED
  BY <1>6, <1>7

-----------------------------------------------------------------------------
\* The sorted accounts: the same accounts, signers first, writable before readonly.
LEMMA HavingFacts ==
    ASSUME NEW K, NEW accs \in Seq(MetaOf(K)), Distinct(accs), NEW s \in BOOLEAN, NEW w \in BOOLEAN
    PROVE  /\ Having(accs, s, w) \in Seq(MetaOf(K))
           /\ ToSet(Having(accs, s, w)) = {a \in ToSet(accs) : a.signer = s /\ a.writable = w}
           /\ Once(Having(accs, s, w))
<1>1. Once(accs)
  BY DEF Once, Distinct
<1>2. PICK some : some = {a \in ToSet(accs) : a.signer = s /\ a.writable = w}
  OBVIOUS
<1>3. ToSet(Only(accs, some)) = ToSet(accs) \cap some /\ Only(accs, some) \in Seq(MetaOf(K))
      /\ Once(Only(accs, some))
  BY <1>1, OnlyFacts
<1>4. Having(accs, s, w) = Only(accs, some)
  BY <1>2 DEF Having
<1> QED
  BY <1>2, <1>3, <1>4

\* Different elements of an account list have different keys.
LEMMA DistinctElements ==
    ASSUME NEW K, NEW accs \in Seq(MetaOf(K)), Distinct(accs), NEW s \in Seq(MetaOf(K)),
           Once(s), ToSet(s) \subseteq ToSet(accs)
    PROVE  Distinct(s)
<1>1. SUFFICES ASSUME NEW i \in DOMAIN s, NEW j \in DOMAIN s, s[i].key = s[j].key PROVE i = j
  BY DEF Distinct
<1>2. s[i] \in ToSet(accs) /\ s[j] \in ToSet(accs)
  BY DEF ToSet
<1>3. s[i] = s[j]
  BY <1>1, <1>2 DEF Distinct, ToSet
<1> QED
  BY <1>3 DEF Once

LEMMA SortedFacts ==
    ASSUME NEW K, NEW accs \in Seq(MetaOf(K)), Distinct(accs)
    PROVE  /\ Sorted(accs) \in Seq(MetaOf(K))
           /\ ToSet(Sorted(accs)) = ToSet(accs)
           /\ Once(Sorted(accs)) /\ Distinct(Sorted(accs))
<1> DEFINE a == Having(accs, TRUE, TRUE)
           b == Having(accs, TRUE, FALSE)
           c == Having(accs, FALSE, TRUE)
           d == Having(accs, FALSE, FALSE)
           Those(s, w) == {x \in ToSet(accs) : x.signer = s /\ x.writable = w}
<1>1. /\ a \in Seq(MetaOf(K)) /\ ToSet(a) = Those(TRUE, TRUE) /\ Once(a)
      /\ b \in Seq(MetaOf(K)) /\ ToSet(b) = Those(TRUE, FALSE) /\ Once(b)
      /\ c \in Seq(MetaOf(K)) /\ ToSet(c) = Those(FALSE, TRUE) /\ Once(c)
      /\ d \in Seq(MetaOf(K)) /\ ToSet(d) = Those(FALSE, FALSE) /\ Once(d)
  BY HavingFacts
<1>2. ToSet(accs) \subseteq MetaOf(K)
  BY DEF ToSet
<1>3. Sorted(accs) = a \o b \o c \o d
  BY DEF Sorted
<1> HIDE DEF a, b, c, d
<1>4. a \o b \in Seq(MetaOf(K)) /\ ToSet(a \o b) = ToSet(a) \cup ToSet(b) /\ Once(a \o b)
  BY <1>1, ConcatElements, OnceConcat
<1>5. PICK e \in Seq(MetaOf(K)) : e = a \o b
  BY <1>4
<1>12. ToSet(a) \cap ToSet(b) = {} /\ (ToSet(a) \cup ToSet(b)) \cap ToSet(c) = {}
       /\ (ToSet(a) \cup ToSet(b) \cup ToSet(c)) \cap ToSet(d) = {}
  BY <1>1
<1> HIDE DEF Those
<1>6. e \o c \in Seq(MetaOf(K)) /\ ToSet(e \o c) = ToSet(e) \cup ToSet(c) /\ Once(e \o c)
  <2>1. Once(e) /\ ToSet(e) \cap ToSet(c) = {}
    BY <1>4, <1>5, <1>12
  <2>2. Once(c) /\ c \in Seq(MetaOf(K))
    BY <1>1
  <2> QED
    BY <2>1, <2>2, ConcatElements, OnceConcat
<1>7. PICK f \in Seq(MetaOf(K)) : f = e \o c
  BY <1>6
<1>8. f \o d \in Seq(MetaOf(K)) /\ ToSet(f \o d) = ToSet(f) \cup ToSet(d) /\ Once(f \o d)
  <2>1. Once(f) /\ ToSet(f) \cap ToSet(d) = {}
    BY <1>4, <1>5, <1>6, <1>7, <1>12
  <2>2. Once(d) /\ d \in Seq(MetaOf(K))
    BY <1>1
  <2> QED
    BY <2>1, <2>2, ConcatElements, OnceConcat
<1>9. Sorted(accs) = f \o d
  BY <1>3, <1>5, <1>7
<1>10. ToSet(accs) = Those(TRUE, TRUE) \cup Those(TRUE, FALSE)
                       \cup Those(FALSE, TRUE) \cup Those(FALSE, FALSE)
  BY <1>2 DEF MetaOf, Those
<1>11. ToSet(Sorted(accs)) = ToSet(accs)
  BY <1>1, <1>4, <1>5, <1>6, <1>7, <1>8, <1>9, <1>10
<1> QED
  BY <1>8, <1>9, <1>11, DistinctElements

\* When the payer is the only signer, and writable, it comes first, alone in front of
\* the accounts that are writable, and these before the others.
PayerSigns(payer, accs) ==
    /\ \A a \in ToSet(accs) : a.signer <=> a.key = payer
    /\ \E a \in ToSet(accs) : a.key = payer /\ a.writable

LEMMA SameLength ==
    ASSUME NEW A, NEW s \in Seq(A), NEW t \in Seq(A), Once(s), Once(t), ToSet(s) = ToSet(t)
    PROVE  Len(s) = Len(t)
BY OnceCount

\* The last two numbers of the header.
ReadonlySigners(accs) == Len(Having(accs, TRUE, FALSE))
Readonlys(accs) == Len(Having(accs, FALSE, FALSE))

LEMMA HeaderFacts ==
    ASSUME NEW K, NEW payer, NEW accs \in Seq(MetaOf(K)), Distinct(accs), PayerSigns(payer, accs),
           NEW s, s = Sorted(accs)
    PROVE  /\ Len(s) \in Nat \ {0} /\ s[1].key = payer /\ s[1].signer /\ s[1].writable
           /\ Len(Signers(s)) = 1 /\ ReadonlySigners(s) = 0
           /\ Readonlys(s) \in Nat
           /\ \A k \in 2..Len(s) :
                 /\ ~s[k].signer
                 /\ s[k].writable <=> k <= Len(s) - Readonlys(s)
<1> DEFINE a == Having(accs, TRUE, TRUE)
           b == Having(accs, TRUE, FALSE)
           c == Having(accs, FALSE, TRUE)
           d == Having(accs, FALSE, FALSE)
           Those(x, y) == {m \in ToSet(accs) : m.signer = x /\ m.writable = y}
<1>1. /\ a \in Seq(MetaOf(K)) /\ ToSet(a) = Those(TRUE, TRUE) /\ Once(a)
      /\ b \in Seq(MetaOf(K)) /\ ToSet(b) = Those(TRUE, FALSE) /\ Once(b)
      /\ c \in Seq(MetaOf(K)) /\ ToSet(c) = Those(FALSE, TRUE) /\ Once(c)
      /\ d \in Seq(MetaOf(K)) /\ ToSet(d) = Those(FALSE, FALSE) /\ Once(d)
  BY HavingFacts
<1>2. s \in Seq(MetaOf(K)) /\ ToSet(s) = ToSet(accs) /\ Once(s) /\ Distinct(s)
  BY SortedFacts
<1>3. ToSet(accs) \subseteq MetaOf(K)
  BY DEF ToSet
<1>4. PICK p \in ToSet(accs) : p.key = payer /\ p.writable
  BY DEF PayerSigns
<1>5. \A m \in ToSet(accs) : m.key = payer => m = p
  BY <1>4 DEF Distinct, ToSet
<1>6. p.signer = TRUE /\ p.writable = TRUE
  BY <1>3, <1>4 DEF PayerSigns, MetaOf
<1>7. \A m \in ToSet(accs) : m.signer => m = p
  BY <1>5 DEF PayerSigns
<1>8. Those(TRUE, TRUE) = {p} /\ Those(TRUE, FALSE) = {}
  BY <1>4, <1>6, <1>7
<1>9. a = <<p>>
  <2>1. Len(a) = 1
    BY <1>1, <1>8, OnceCount, FS_Singleton
  <2>2. a[1] \in ToSet(a)
    <3> HIDE DEF a
    <3>1. 1 \in DOMAIN a
      BY <1>1, <2>1
    <3> QED
      BY <3>1 DEF ToSet
  <2>3. a[1] = p
    BY <1>1, <1>8, <2>2
  <2> HIDE DEF a
  <2> QED
    BY <1>1, <2>1, <2>3
<1>10. b = <<>>
  <2>1. Len(b) = 0
    BY <1>1, <1>8, OnceCount, FS_EmptySet
  <2> HIDE DEF b
  <2> QED
    BY <1>1, <2>1
<1>11. s = <<p>> \o c \o d
  <2>1. s = a \o b \o c \o d
    BY DEF Sorted
  <2>2. <<p>> \o <<>> = <<p>>
    OBVIOUS
  <2> HIDE DEF a, b, c, d
  <2> QED
    BY <1>9, <1>10, <2>1, <2>2
<1> HIDE DEF a, b, c, d
<1>12. \A m \in ToSet(c) : m.signer = FALSE /\ m.writable = TRUE
  BY <1>1
<1>13. \A m \in ToSet(d) : m.signer = FALSE /\ m.writable = FALSE
  BY <1>1
<1>14. Readonlys(s) = Len(d)
  <2>1. /\ Having(s, FALSE, FALSE) \in Seq(MetaOf(K)) /\ Once(Having(s, FALSE, FALSE))
        /\ ToSet(Having(s, FALSE, FALSE)) = {m \in ToSet(s) : m.signer = FALSE /\ m.writable = FALSE}
    BY <1>2, HavingFacts
  <2>2. ToSet(Having(s, FALSE, FALSE)) = ToSet(d)
    BY <1>1, <1>2, <2>1
  <2> QED
    BY <1>1, <2>1, <2>2, SameLength DEF Readonlys
<1>15. ReadonlySigners(s) = 0
  <2>1. /\ Having(s, TRUE, FALSE) \in Seq(MetaOf(K)) /\ Once(Having(s, TRUE, FALSE))
        /\ ToSet(Having(s, TRUE, FALSE)) = {m \in ToSet(s) : m.signer = TRUE /\ m.writable = FALSE}
    BY <1>2, HavingFacts
  <2>2. ToSet(Having(s, TRUE, FALSE)) = ToSet(b)
    BY <1>1, <1>2, <2>1
  <2>3. Len(b) = 0
    BY <1>10
  <2> QED
    BY <1>1, <2>1, <2>2, <2>3, SameLength DEF ReadonlySigners
<1>16. Len(Signers(s)) = 1
  <2>1. PICK some : some = {m \in ToSet(s) : m.signer}
    OBVIOUS
  <2>2. Signers(s) = Only(s, some)
    BY <2>1 DEF Signers
  <2>3. Only(s, some) \in Seq(MetaOf(K)) /\ ToSet(Only(s, some)) = ToSet(s) \cap some
        /\ Once(Only(s, some))
    BY <1>2, OnlyFacts
  <2>4. ToSet(s) \cap some = {p}
    BY <1>2, <1>4, <1>6, <1>7, <2>1
  <2> QED
    BY <2>2, <2>3, <2>4, OnceCount, FS_Singleton
<1>17. p \in MetaOf(K) /\ Len(c) \in Nat /\ Len(d) \in Nat
  BY <1>1, <1>3, <1>4
<1>18. /\ Len(s) = 1 + Len(c) + Len(d)
       /\ s[1] = p
       /\ \A k \in 2..(1 + Len(c)) : s[k] = c[k - 1]
       /\ \A k \in (2 + Len(c))..Len(s) : s[k] = d[k - 1 - Len(c)]
  <2>1. <<p>> \in Seq(MetaOf(K)) /\ c \in Seq(MetaOf(K)) /\ d \in Seq(MetaOf(K))
    BY <1>1, <1>17
  <2>2. PICK e \in Seq(MetaOf(K)) : e = <<p>> \o c
    BY <2>1, ConcatProperties
  <2>3. Len(e) = 1 + Len(c) /\ e[1] = p /\ \A k \in 2..(1 + Len(c)) : e[k] = c[k - 1]
    BY <1>17, <2>1, <2>2
  <2>4. s = e \o d
    BY <1>11, <2>2
  <2>5. /\ Len(s) = Len(e) + Len(d)
        /\ \A k \in 1..Len(e) : s[k] = e[k]
        /\ \A k \in (Len(e) + 1)..(Len(e) + Len(d)) : s[k] = d[k - Len(e)]
    BY <2>1, <2>4
  <2>6. Len(e) + 1 = 2 + Len(c) /\ Len(e) + Len(d) = Len(s) /\ 1 \in 1..Len(e)
        /\ \A k \in 2..(1 + Len(c)) : k \in 1..Len(e)
    BY <1>17, <2>3, <2>5
  <2>7. \A k \in (2 + Len(c))..Len(s) : k - Len(e) = k - 1 - Len(c) /\ s[k] = d[k - Len(e)]
    BY <1>17, <2>3, <2>5, <2>6
  <2> QED
    BY <1>17, <2>3, <2>5, <2>6, <2>7
<1>22. Len(s) = 1 + Len(c) + Len(d)
  BY <1>18
<1>23. Len(c) \in Nat /\ Len(d) \in Nat
  BY <1>17
<1>19. ASSUME NEW k \in 2..Len(s)
       PROVE  /\ ~s[k].signer
              /\ s[k].writable <=> k <= Len(s) - Readonlys(s)
  <2>1. Len(s) - Readonlys(s) = 1 + Len(c)
    BY <1>14, <1>22, <1>23
  <2>2. CASE k <= 1 + Len(c)
    <3>1. k \in 2..(1 + Len(c)) /\ k - 1 \in 1..Len(c)
      BY <1>17, <2>2
    <3>2. s[k] \in ToSet(c)
      <4>1. s[k] = c[k - 1] /\ DOMAIN c = 1..Len(c)
        BY <1>1, <1>18, <3>1
      <4> QED
        BY <3>1, <4>1 DEF ToSet
    <3> QED
      BY <1>12, <2>1, <2>2, <3>2
  <2>3. CASE ~(k <= 1 + Len(c))
    <3>1. k \in (2 + Len(c))..Len(s) /\ k - 1 - Len(c) \in 1..Len(d)
      BY <1>17, <1>18, <2>3
    <3>2. s[k] \in ToSet(d)
      <4>1. s[k] = d[k - 1 - Len(c)] /\ DOMAIN d = 1..Len(d)
        BY <1>1, <1>18, <3>1
      <4> QED
        BY <3>1, <4>1 DEF ToSet
    <3> QED
      BY <1>13, <2>1, <2>3, <3>2
  <2> QED
    BY <2>2, <2>3
<1>20. Len(s) \in Nat \ {0} /\ Readonlys(s) \in Nat
  BY <1>14, <1>22, <1>23
<1>21. s[1].key = payer /\ s[1].signer /\ s[1].writable
  BY <1>4, <1>6, <1>18
<1> QED
  BY <1>15, <1>16, <1>19, <1>20, <1>21

\* Collecting the metas one by one gathers them all.
Collecting(list, accs) ==
    accs = [n \in 0..Len(list) |->
               IF n = 0 THEN <<>> ELSE Upserted(accs[n - 1], list[n])]
Collections(list) == CHOOSE accs : Collecting(list, accs)

LEMMA CollectingExists ==
    ASSUME NEW A, NEW list \in Seq(A)
    PROVE  Collecting(list, Collections(list))
<1> DEFINE Step(f, n) == IF n = 0 THEN <<>> ELSE Upserted(f[n - 1], list[n])
           Upto(n, f) == f = [i \in 0..n |-> Step(f, i)]
           T == {n \in Nat : \E f : Upto(n, f)}
<1>1. 0 \in T
  <2> DEFINE f == [i \in 0..0 |-> <<>>]
  <2>1. Upto(0, f)
    OBVIOUS
  <2> QED
    <3> HIDE DEF Upto, f
    <3> QED
      BY <2>1
<1>2. ASSUME NEW n \in Nat, n \in T PROVE n + 1 \in T
  <2>1. PICK f : Upto(n, f)
    BY <1>2
  <2> DEFINE g == [i \in 0..(n + 1) |-> Step(f, i)]
  <2>2. \A i \in 0..n : f[i] = Step(f, i)
    BY <2>1
  <2>3. \A i \in 0..n : g[i] = f[i]
    BY <2>2
  <2>5. ASSUME NEW i \in 0..(n + 1) PROVE Step(g, i) = Step(f, i)
    <3>1. CASE i = 0
      BY <3>1
    <3>2. CASE i # 0
      <4>1. i - 1 \in 0..n
        BY <3>2
      <4>2. g[i - 1] = f[i - 1]
        BY <2>3, <4>1
      <4> HIDE DEF g
      <4> QED
        BY <3>2, <4>2
    <3> QED
      BY <3>1, <3>2
  <2>6. Upto(n + 1, g)
    BY <2>5
  <2> QED
    <3> HIDE DEF Upto, g
    <3> QED
      BY <2>6
<1> HIDE DEF T
<1>3. Len(list) \in T
  BY <1>1, <1>2, NumberInduction
<1> QED
  BY <1>3, Zenon DEF T, Collecting, Collections

LEMMA CollectionGathers ==
    ASSUME NEW K, NEW list \in Seq(MetaOf(K))
    PROVE  Gathered(K, Collection(list), list, Len(list))
<1> DEFINE accs == Collections(list)
           T == {n \in Nat : n <= Len(list) => Gathered(K, accs[n], list, n)}
<1>1. Collecting(list, accs)
  BY CollectingExists
<1>2. PICK l \in Nat : l = Len(list)
  OBVIOUS
<1> HIDE DEF accs
<1>3. 0 \in T
  <2>1. accs[0] = <<>>
    BY <1>1, <1>2 DEF Collecting
  <2>2. <<>> \in Seq(MetaOf(K)) /\ DOMAIN <<>> = {} /\ 1..0 = {}
    OBVIOUS
  <2> QED
    BY <2>1, <2>2 DEF Gathered, Distinct
<1>4. ASSUME NEW n \in Nat, n \in T PROVE n + 1 \in T
  <2>1. SUFFICES ASSUME n + 1 <= Len(list) PROVE Gathered(K, accs[n + 1], list, n + 1)
    OBVIOUS
  <2>2. n + 1 \in 0..l /\ n + 1 # 0 /\ (n + 1) - 1 = n /\ n <= l
    BY <1>2, <2>1
  <2>3. accs[n + 1] = Upserted(accs[n], list[n + 1])
    BY <1>1, <1>2, <2>2 DEF Collecting
  <2>4. Gathered(K, accs[n], list, n)
    BY <1>2, <1>4, <2>2
  <2>5. Gathered(K, Upserted(accs[n], list[n + 1]), list, n + 1)
    BY <2>1, <2>4, UpsertedGathers
  <2> QED
    BY <2>3, <2>5
<1> HIDE DEF T
<1>5. Len(list) \in T
  BY <1>3, <1>4, NumberInduction
<1>6. Collection(list) = accs[Len(list)]
  BY Zenon DEF Collection, accs, Collections, Collecting
<1> QED
  BY <1>2, <1>5, <1>6 DEF T

\* Metas that only the payer signs, and what the header says of the accounts
\* collected from them.
Paid(K, payer, list) ==
    /\ list \in Seq(MetaOf(K))
    /\ \E m \in ToSet(list) : m.key = payer /\ m.signer /\ m.writable
    /\ \A m \in ToSet(list) : m.signer => m.key = payer
PaidFirst(K, payer, list, s) ==
    /\ s \in Seq(MetaOf(K)) /\ Distinct(s) /\ Len(s) \in Nat \ {0}
    /\ \A m \in ToSet(list) : \E k \in DOMAIN s : s[k].key = m.key
    /\ Len(Signers(s)) = 1 /\ ReadonlySigners(s) = 0 /\ Readonlys(s) \in Nat
    /\ s[1].key = payer
    /\ \A k \in 2..Len(s) :
          k <= Len(s) - Readonlys(s) <=> \E m \in ToSet(list) : m.key = s[k].key /\ m.writable

LEMMA CollectedPrivileges ==
    ASSUME NEW K, NEW payer, NEW list, Paid(K, payer, list),
           NEW s, s = Sorted(Collection(list))
    PROVE  PaidFirst(K, payer, list, s)
<1> USE DEF Paid
<1> DEFINE accs == Collection(list)
           n == Len(list)
<1>1. Gathered(K, accs, list, n)
  BY CollectionGathers
<1>2. DOMAIN list = 1..n /\ n \in Nat
  OBVIOUS
<1>3. ToSet(list) = {list[j] : j \in 1..n}
  BY <1>2 DEF ToSet
<1> HIDE DEF accs, n
<1>4. /\ accs \in Seq(MetaOf(K))
      /\ Distinct(accs)
      /\ \A j \in 1..n : \E i \in DOMAIN accs : accs[i].key = list[j].key
      /\ \A i \in DOMAIN accs :
            /\ accs[i].signer <=> \E j \in 1..n : list[j].key = accs[i].key /\ list[j].signer
            /\ accs[i].writable <=> \E j \in 1..n : list[j].key = accs[i].key /\ list[j].writable
  BY <1>1 DEF Gathered, Asks
<1>5. ASSUME NEW m \in ToSet(list)
      PROVE  \E a \in ToSet(accs) : /\ a.key = m.key
                                    /\ m.signer => a.signer
                                    /\ m.writable => a.writable
  <2>1. PICK j \in 1..n : m = list[j]
    BY <1>3
  <2>2. PICK i \in DOMAIN accs : accs[i].key = list[j].key
    BY <1>4
  <2>3. accs[i] \in ToSet(accs)
    BY DEF ToSet
  <2> QED
    BY <1>4, <2>1, <2>2, <2>3
<1>6. ASSUME NEW a \in ToSet(accs)
      PROVE  /\ a.signer => \E m \in ToSet(list) : m.key = a.key /\ m.signer
             /\ a.writable <=> \E m \in ToSet(list) : m.key = a.key /\ m.writable
  <2>1. PICK i \in DOMAIN accs : a = accs[i]
    BY DEF ToSet
  <2> QED
    BY <1>3, <1>4, <2>1
<1>7. PayerSigns(payer, accs)
  <2>1. PICK p \in ToSet(accs) : p.key = payer /\ p.signer /\ p.writable
    BY <1>5
  <2>2. ASSUME NEW a \in ToSet(accs), a.signer PROVE a.key = payer
    BY <1>6, <2>2
  <2>3. ASSUME NEW a \in ToSet(accs), a.key = payer PROVE a = p
    BY <1>4, <2>1, <2>3 DEF Distinct, ToSet
  <2> QED
    BY <2>1, <2>2, <2>3 DEF PayerSigns
<1>8. /\ s \in Seq(MetaOf(K)) /\ ToSet(s) = ToSet(accs) /\ Distinct(s)
  BY <1>4, SortedFacts DEF accs
<1>9. /\ Len(s) \in Nat \ {0} /\ s[1].key = payer
      /\ Len(Signers(s)) = 1 /\ ReadonlySigners(s) = 0 /\ Readonlys(s) \in Nat
      /\ \A k \in 2..Len(s) : s[k].writable <=> k <= Len(s) - Readonlys(s)
  BY <1>4, <1>7, HeaderFacts DEF accs
<1>10. ASSUME NEW m \in ToSet(list) PROVE \E k \in DOMAIN s : s[k].key = m.key
  <2>1. PICK a \in ToSet(s) : a.key = m.key
    BY <1>5, <1>8
  <2> QED
    BY <2>1 DEF ToSet
<1>11. ASSUME NEW k \in 2..Len(s)
       PROVE  k <= Len(s) - Readonlys(s)
                 <=> \E m \in ToSet(list) : m.key = s[k].key /\ m.writable
  <2>1. k \in DOMAIN s
    BY <1>8, <1>9
  <2>2. s[k] \in ToSet(accs)
    BY <1>8, <2>1 DEF ToSet
  <2>3. s[k].writable <=> k <= Len(s) - Readonlys(s)
    BY <1>9
  <2> QED
    BY <1>6, <2>2, <2>3
<1> QED
  BY <1>8, <1>9, <1>10, <1>11 DEF PaidFirst
=============================================================================
