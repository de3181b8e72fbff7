-------------------------- MODULE VerificationProofs --------------------------
(***************************************************************************)
(* Proofs about WinternitzSignature and the Merkle root it is checked with *)
(* (Merklize), for every number of scalars, every digest and every base:   *)
(* the pass over the scalars stays in its stack and computes the tree of   *)
(* the comment, and a signature verifies for no digest but its own.        *)
(***************************************************************************)
EXTENDS WinternitzSignature, FoldFacts

Odd(x) == x % 2 = 1

\* Halves(t)[l]: how many subtrees of 2^l leaves t leaves complete.
AreHalves(f, t) == f \in [Nat -> Nat] /\ f[0] = t /\ \A l \in Nat : f[l + 1] = f[l] \div 2
Halves(t) == CHOOSE f : AreHalves(f, t)

-----------------------------------------------------------------------------
\* Powers of two.
LEMMA PowerFacts ==
    /\ Power[0] = 1
    /\ \A n \in Nat : Power[n] \in Nat \ {0} /\ Power[n + 1] = 2 * Power[n]
<1> DEFINE step == [v \in Nat \ {0} |-> 2 * v]
           Powers(f) == f = [n \in Nat |-> IF n = 0 THEN 1 ELSE 2 * f[n - 1]]
           S == Nat \ {0}
<1>1. PICK f \in [Nat -> Nat \ {0}] : f[0] = 1 /\ \A n \in Nat : f[n + 1] = step[f[n]]
  <2>1. 1 \in S /\ step \in [S -> S]
    OBVIOUS
  <2> HIDE DEF step, S
  <2>2. PICK f : Iterates(f, S, 1, step)
    BY <2>1, IterationExists
  <2>3. f \in [Nat -> S] /\ f[0] = 1 /\ \A n \in Nat : f[n + 1] = step[f[n]]
    BY <2>2 DEF Iterates
  <2> QED
    BY <2>3 DEF S
<1>2. Powers(f)
  <2>1. ASSUME NEW n \in Nat PROVE f[n] = IF n = 0 THEN 1 ELSE 2 * f[n - 1]
    <3>1. CASE n = 0
      BY <1>1, <3>1
    <3>2. CASE n # 0
      <4>1. n - 1 \in Nat /\ (n - 1) + 1 = n
        BY <3>2
      <4>2. f[(n - 1) + 1] = step[f[n - 1]]
        BY <1>1, <4>1
      <4> QED
        BY <3>2, <4>1, <4>2
    <3> QED
      BY <3>1, <3>2
  <2>2. f = [n \in Nat |-> f[n]]
    OBVIOUS
  <2> QED
    BY <2>1, <2>2
<1>3. Power = CHOOSE g : Powers(g)
  BY DEF Power
<1>4. Powers(Power)
  BY <1>2, <1>3
<1>5. \A n \in Nat : Power[n] = IF n = 0 THEN 1 ELSE 2 * Power[n - 1]
  BY <1>4
<1> HIDE DEF Powers
<1>6. Power[0] = 1
  BY <1>5
<1>7. \A n \in Nat : Power[n + 1] = 2 * Power[n]
  BY <1>5
<1> DEFINE T == {n \in Nat : Power[n] \in Nat \ {0}}
<1>8. 0 \in T
  BY <1>6
<1>9. ASSUME NEW n \in Nat, n \in T PROVE n + 1 \in T
  BY <1>7, <1>9
<1> HIDE DEF T
<1>10. Nat \subseteq T
  BY <1>8, <1>9, NumberInduction
<1> QED
  BY <1>6, <1>7, <1>10 DEF T

LEMMA PowerGrows ==
    ASSUME NEW m \in Nat, NEW n \in Nat, m <= n
    PROVE  Power[m] <= Power[n]
<1> DEFINE T == {k \in Nat : m <= k => Power[m] <= Power[k]}
<1>1. 0 \in T
  <2>1. m <= 0 => m = 0
    OBVIOUS
  <2> QED
    BY <2>1, PowerFacts
<1>2. ASSUME NEW k \in Nat, k \in T PROVE k + 1 \in T
  <2>1. Power[k] \in Nat /\ Power[m] \in Nat /\ Power[k + 1] = 2 * Power[k]
    BY PowerFacts
  <2>2. CASE m <= k
    BY <1>2, <2>1, <2>2
  <2>3. CASE ~(m <= k)
    <3>1. m <= k + 1 => m = k + 1
      BY <2>3
    <3> QED
      BY <2>1, <3>1
  <2> QED
    BY <2>2, <2>3
<1> HIDE DEF T
<1>3. n \in T
  BY <1>1, <1>2, NumberInduction
<1> QED
  BY <1>3 DEF T

-----------------------------------------------------------------------------
LEMMA HalvesFacts ==
    ASSUME NEW t \in Nat
    PROVE  /\ Halves(t) \in [Nat -> Nat] /\ Halves(t)[0] = t
           /\ \A l \in Nat : Halves(t)[l] \in Nat /\ Halves(t)[l + 1] = Halves(t)[l] \div 2
<1> DEFINE step == [v \in Nat |-> v \div 2]
<1>1. step \in [Nat -> Nat]
  OBVIOUS
<1>2. PICK f \in [Nat -> Nat] : f[0] = t /\ \A l \in Nat : f[l + 1] = step[f[l]]
  <2> HIDE DEF step
  <2>1. PICK f : Iterates(f, Nat, t, step)
    BY <1>1, IterationExists
  <2> QED
    BY <2>1 DEF Iterates
<1>3. AreHalves(f, t)
  BY <1>2 DEF AreHalves
<1>4. AreHalves(Halves(t), t)
  BY <1>3 DEF Halves
<1> QED
  BY <1>4 DEF AreHalves

\* The half of a number, and its last bit.
LEMMA Half ==
    ASSUME NEW v \in Nat
    PROVE  /\ v \div 2 \in Nat
           /\ Odd(v) => v = 2 * (v \div 2) + 1
           /\ ~Odd(v) => v = 2 * (v \div 2)
BY DEF Odd

LEMMA HalvesMonotone ==
    ASSUME NEW m \in Nat, NEW n \in Nat, m <= n, NEW l \in Nat
    PROVE  Halves(m)[l] <= Halves(n)[l]
<1> DEFINE T == {k \in Nat : Halves(m)[k] <= Halves(n)[k]}
<1>1. 0 \in T
  BY HalvesFacts
<1>2. ASSUME NEW k \in Nat, k \in T PROVE k + 1 \in T
  <2>1. PICK v \in Nat, w \in Nat : v = Halves(m)[k] /\ w = Halves(n)[k] /\ v <= w
    BY <1>2, HalvesFacts
  <2>2. Halves(m)[k + 1] = v \div 2 /\ Halves(n)[k + 1] = w \div 2
    BY <2>1, HalvesFacts
  <2>3. v \div 2 <= w \div 2
    BY <2>1
  <2> QED
    BY <2>2, <2>3
<1> HIDE DEF T
<1>3. l \in T
  BY <1>1, <1>2, NumberInduction
<1> QED
  BY <1>3 DEF T

LEMMA HalvesBound ==
    ASSUME NEW t \in Nat, NEW l \in Nat, Halves(t)[l] >= 1
    PROVE  Halves(t)[l] + l <= t
<1> DEFINE T == {k \in Nat : Halves(t)[k] >= 1 => Halves(t)[k] + k <= t}
<1>1. 0 \in T
  <2>1. Halves(t)[0] = t
    BY HalvesFacts
  <2>2. t + 0 <= t
    OBVIOUS
  <2> QED
    BY <2>1, <2>2
<1>2. ASSUME NEW k \in Nat, k \in T PROVE k + 1 \in T
  <2>1. PICK v \in Nat : v = Halves(t)[k]
    BY HalvesFacts
  <2>2. Halves(t)[k + 1] = v \div 2
    BY <2>1, HalvesFacts
  <2>3. v \div 2 >= 1 => v >= 1 /\ (v \div 2) + 1 <= v
    OBVIOUS
  <2>4. v >= 1 => v + k <= t
    BY <1>2, <2>1
  <2>5. PICK w \in Nat : w = v \div 2
    OBVIOUS
  <2>6. w >= 1 => w + (k + 1) <= t
    BY <2>3, <2>4, <2>5
  <2> QED
    BY <2>2, <2>5, <2>6
<1> HIDE DEF T
<1>3. l \in T
  BY <1>1, <1>2, NumberInduction
<1> QED
  BY <1>3 DEF T

LEMMA HalvesDown ==
    ASSUME NEW t \in Nat, NEW i \in Nat, NEW j \in Nat, i <= j
    PROVE  Halves(t)[j] <= Halves(t)[i]
<1> DEFINE T == {k \in Nat : i <= k => Halves(t)[k] <= Halves(t)[i]}
<1>1. 0 \in T
  <2>1. Halves(t)[0] \in Nat
    BY HalvesFacts
  <2>2. i <= 0 => i = 0
    OBVIOUS
  <2>3. PICK v \in Nat : v = Halves(t)[0]
    BY <2>1
  <2> QED
    BY <2>2, <2>3
<1>2. ASSUME NEW k \in Nat, k \in T PROVE k + 1 \in T
  <2>1. PICK v \in Nat, w \in Nat : v = Halves(t)[k] /\ w = Halves(t)[i]
    BY HalvesFacts
  <2>2. Halves(t)[k + 1] = v \div 2 /\ v \div 2 <= v /\ v \div 2 \in Nat
    <3>1. Halves(t)[k + 1] = v \div 2
      BY <2>1, HalvesFacts
    <3>2. v \div 2 <= v /\ v \div 2 \in Nat
      OBVIOUS
    <3> QED
      BY <3>1, <3>2
  <2>3. CASE i <= k
    BY <1>2, <2>1, <2>2, <2>3
  <2>4. CASE ~(i <= k)
    <3>1. i <= k + 1 => i = k + 1
      BY <2>4
    <3> QED
      BY <2>1, <2>2, <3>1
  <2> QED
    BY <2>3, <2>4
<1> HIDE DEF T
<1>3. j \in T
  BY <1>1, <1>2, NumberInduction
<1> QED
  BY <1>3 DEF T

\* A number that is not zero has a highest bit.
LEMMA HalvesOdd ==
    ASSUME NEW t \in Nat, NEW l \in Nat, Halves(t)[l] >= 1
    PROVE  \E j \in Nat : j >= l /\ Odd(Halves(t)[j])
<1> DEFINE T == {v \in Nat : \E k \in Nat : k >= l /\ v = Halves(t)[k] /\ v >= 1}
<1>1. T # {} /\ T \in SUBSET Nat
  <2>1. PICK v \in Nat : v = Halves(t)[l] /\ v >= 1
    BY HalvesFacts
  <2>2. l >= l
    OBVIOUS
  <2>3. v \in T
    BY <2>1, <2>2
  <2> QED
    BY <2>3
<1>2. PICK v \in T : \A w \in T : v <= w
  <2> HIDE DEF T
  <2> QED
    BY <1>1, LeastNumber
<1>3. PICK k \in Nat : k >= l /\ v = Halves(t)[k] /\ v >= 1 /\ v \in Nat
  BY <1>2
<1>4. CASE Odd(v)
  BY <1>3, <1>4
<1>5. CASE ~Odd(v)
  <2>1. PICK w \in Nat : w = v \div 2 /\ v = 2 * w
    BY <1>3, <1>5, Half
  <2>2. w >= 1 /\ w < v
    BY <1>3, <2>1
  <2>3. Halves(t)[k + 1] = w /\ k + 1 \in Nat /\ k + 1 >= l
    <3>1. Halves(t)[k + 1] = w
      BY <1>3, <2>1, HalvesFacts
    <3>2. k + 1 \in Nat /\ k + 1 >= l
      BY <1>3
    <3> QED
      BY <3>1, <3>2
  <2>4. w \in T
    BY <2>2, <2>3
  <2> QED
    BY <1>2, <1>3, <2>2, <2>4
<1> QED
  BY <1>4, <1>5

\* Counting one more: where all lower bits are set, the carry arrives.
LEMMA HalvesIncrement ==
    ASSUME NEW t \in Nat, NEW l \in Nat, \A j \in Nat : j < l => Odd(Halves(t)[j])
    PROVE  Halves(t + 1)[l] = Halves(t)[l] + 1
<1> DEFINE T == {k \in Nat : k <= l => Halves(t + 1)[k] = Halves(t)[k] + 1}
<1>0. t + 1 \in Nat
  OBVIOUS
<1>1. 0 \in T
  BY <1>0, HalvesFacts
<1>2. ASSUME NEW k \in Nat, k \in T PROVE k + 1 \in T
  <2>1. SUFFICES ASSUME k + 1 <= l PROVE Halves(t + 1)[k + 1] = Halves(t)[k + 1] + 1
    OBVIOUS
  <2>2. k < l /\ k <= l
    BY <2>1
  <2>3. PICK v \in Nat : v = Halves(t)[k]
    BY HalvesFacts
  <2>4. Odd(v) /\ Halves(t + 1)[k] = v + 1
    BY <1>2, <2>2, <2>3
  <2>5. PICK q \in Nat : q = v \div 2 /\ v = 2 * q + 1
    BY <2>4, Half
  <2>6. (v + 1) \div 2 = q + 1
    BY <2>5
  <2>7. PICK u \in Nat : u = t + 1
    BY <1>0
  <2>8. Halves(u)[k] = v + 1
    BY <2>4, <2>7
  <2>9. Halves(u)[k + 1] = (v + 1) \div 2
    BY <2>8, HalvesFacts
  <2>10. Halves(t)[k + 1] = q
    BY <2>3, <2>5, HalvesFacts
  <2> QED
    BY <2>6, <2>7, <2>9, <2>10
<1> HIDE DEF T
<1>3. l \in T
  BY <1>1, <1>2, NumberInduction
<1>4. l <= l
  OBVIOUS
<1> QED
  BY <1>3, <1>4 DEF T

\* Below the carry the bits become zero, above it they stay.
LEMMA HalvesCarried ==
    ASSUME NEW t \in Nat, NEW l \in Nat, \A j \in Nat : j < l => Odd(Halves(t)[j]),
           ~Odd(Halves(t)[l])
    PROVE  /\ \A j \in Nat : j < l => ~Odd(Halves(t + 1)[j])
           /\ Odd(Halves(t + 1)[l])
           /\ \A j \in Nat : j > l => Halves(t + 1)[j] = Halves(t)[j]
<1>0. t + 1 \in Nat
  OBVIOUS
<1>1. ASSUME NEW j \in Nat, j < l PROVE ~Odd(Halves(t + 1)[j])
  <2>1. PICK v \in Nat : v = Halves(t)[j] /\ Odd(v)
    BY <1>1, HalvesFacts
  <2>2. \A i \in Nat : i < j => i < l
    BY <1>1
  <2>3. Halves(t + 1)[j] = v + 1
    BY <2>1, <2>2, HalvesIncrement
  <2>4. ~Odd(v + 1)
    BY <2>1 DEF Odd
  <2> QED
    BY <2>3, <2>4
<1>2. PICK w \in Nat : w = Halves(t)[l] /\ ~Odd(w)
  BY HalvesFacts
<1>3. Halves(t + 1)[l] = w + 1
  BY <1>2, HalvesIncrement
<1>4. Odd(w + 1)
  BY <1>2 DEF Odd
<1> DEFINE T == {k \in Nat : k > l => Halves(t + 1)[k] = Halves(t)[k]}
<1>5. 0 \in T
  OBVIOUS
<1>6. ASSUME NEW k \in Nat, k \in T PROVE k + 1 \in T
  <2>1. CASE k = l
    <3>1. (w + 1) \div 2 = w \div 2
      BY <1>2 DEF Odd
    <3> QED
      BY <1>0, <1>2, <1>3, <2>1, <3>1, HalvesFacts
  <2>2. CASE k > l
    <3>1. Halves(t + 1)[k] = Halves(t)[k]
      BY <1>6, <2>2
    <3> QED
      BY <1>0, <3>1, HalvesFacts
  <2>3. CASE k < l
    <3>1. ~(k + 1 > l)
      BY <2>3
    <3> QED
      BY <3>1
  <2> QED
    BY <2>1, <2>2, <2>3
<1> HIDE DEF T
<1>7. Nat \subseteq T
  BY <1>5, <1>6, NumberInduction
<1> QED
  BY <1>1, <1>3, <1>4, <1>7 DEF T

-----------------------------------------------------------------------------
\* The tree of the comment, level by level.
LeafLevel(s) == [k \in DOMAIN s |-> Leaf(s[k])]
AreLevels(f, s) ==
    f = [n \in 0..Len(s) |-> IF n = 0 THEN LeafLevel(s) ELSE NextLevel(f[n - 1])]
Levels(s) == CHOOSE f : AreLevels(f, s)

IsLevel(level) ==
    Len(level) \in Nat \ {0} /\ level = [k \in 1..Len(level) |-> level[k]]

LEMMA NextLevelFacts ==
    ASSUME NEW level, IsLevel(level)
    PROVE  /\ IsLevel(NextLevel(level))
           /\ Len(level) = 1 => NextLevel(level) = level
           /\ Len(level) # 1 =>
                 /\ Len(NextLevel(level)) = (Len(level) + 1) \div 2
                 /\ \A k \in 1..((Len(level) + 1) \div 2) :
                       NextLevel(level)[k]
                          = Node(level[2 * k - 1],
                                 IF 2 * k <= Len(level) THEN level[2 * k] ELSE level[2 * k - 1])
<1>1. Len(level) \in Nat \ {0}
  BY DEF IsLevel
<1>2. CASE Len(level) = 1
  BY <1>2 DEF NextLevel
<1>3. CASE Len(level) # 1
  <2>1. PICK m \in Nat : m = (Len(level) + 1) \div 2 /\ m # 0
    BY <1>1, <1>3
  <2>2. NextLevel(level) = [k \in 1..m |->
          Node(level[2 * k - 1], IF 2 * k <= Len(level) THEN level[2 * k] ELSE level[2 * k - 1])]
    BY <1>3, <2>1 DEF NextLevel, Parents
  <2>3. Len(NextLevel(level)) = m
    BY <2>2
  <2>4. NextLevel(level) = [k \in 1..m |-> NextLevel(level)[k]]
    BY <2>2
  <2> QED
    BY <1>3, <2>1, <2>2, <2>3, <2>4 DEF IsLevel
<1> QED
  BY <1>2, <1>3

LEMMA LevelsExist ==
    ASSUME NEW A, NEW s \in Seq(A)
    PROVE  AreLevels(Levels(s), s)
<1> DEFINE Upto(f, n) == f = [k \in 0..n |-> IF k = 0 THEN LeafLevel(s) ELSE NextLevel(f[k - 1])]
           T == {n \in Nat : \E f : Upto(f, n)}
<1>1. 0 \in T
  <2> DEFINE f == [k \in 0..0 |-> LeafLevel(s)]
  <2>1. Upto(f, 0)
    OBVIOUS
  <2> HIDE DEF f
  <2> QED
    BY <2>1
<1>2. ASSUME NEW n \in Nat, n \in T PROVE n + 1 \in T
  <2>1. PICK f : Upto(f, n)
    BY <1>2
  <2> DEFINE g == [k \in 0..(n + 1) |-> IF k = n + 1 THEN NextLevel(f[n]) ELSE f[k]]
  <2>2. /\ \A k \in 0..n : g[k] = f[k]
        /\ g[n + 1] = NextLevel(f[n]) /\ g[n] = f[n]
    OBVIOUS
  <2>3. \A k \in 0..n : f[k] = IF k = 0 THEN LeafLevel(s) ELSE NextLevel(f[k - 1])
    BY <2>1
  <2>4. ASSUME NEW k \in 0..(n + 1)
        PROVE  g[k] = IF k = 0 THEN LeafLevel(s) ELSE NextLevel(g[k - 1])
    <3> HIDE DEF g, Upto
    <3>1. CASE k = n + 1
      BY <2>2, <3>1
    <3>2. CASE k = 0
      BY <2>2, <2>3, <3>2
    <3>3. CASE k # n + 1 /\ k # 0
      <4>1. k \in 0..n /\ k - 1 \in 0..n
        BY <3>3
      <4> QED
        BY <2>2, <2>3, <3>3, <4>1
    <3> QED
      BY <3>1, <3>2, <3>3
  <2>5. g = [k \in 0..(n + 1) |-> g[k]]
    OBVIOUS
  <2> HIDE DEF g
  <2>6. Upto(g, n + 1)
    BY <2>4, <2>5
  <2> HIDE DEF Upto
  <2> QED
    BY <2>6
<1> HIDE DEF T
<1>3. Len(s) \in T
  <2>1. Len(s) \in Nat
    OBVIOUS
  <2> QED
    BY <1>1, <1>2, <2>1, NumberInduction
<1>4. \E f : AreLevels(f, s)
  BY <1>3 DEF T, AreLevels
<1> QED
  BY <1>4 DEF Levels

LEMMA LevelFacts ==
    ASSUME NEW A, NEW s \in Seq(A), s # <<>>
    PROVE  /\ Levels(s)[0] = LeafLevel(s)
           /\ \A n \in 0..Len(s) : IsLevel(Levels(s)[n])
           /\ \A n \in 0..(Len(s) - 1) : Levels(s)[n + 1] = NextLevel(Levels(s)[n])
<1>1. Len(s) \in Nat \ {0} /\ DOMAIN s = 1..Len(s)
  OBVIOUS
<1>2. \A n \in 0..Len(s) :
        Levels(s)[n] = IF n = 0 THEN LeafLevel(s) ELSE NextLevel(Levels(s)[n - 1])
  BY LevelsExist DEF AreLevels
<1>3. Levels(s)[0] = LeafLevel(s)
  BY <1>1, <1>2
<1>4. \A n \in 0..(Len(s) - 1) : Levels(s)[n + 1] = NextLevel(Levels(s)[n])
  <2>1. ASSUME NEW n \in 0..(Len(s) - 1) PROVE Levels(s)[n + 1] = NextLevel(Levels(s)[n])
    <3>1. n + 1 \in 0..Len(s) /\ n + 1 # 0 /\ (n + 1) - 1 = n
      BY <1>1
    <3> QED
      BY <1>2, <3>1
  <2> QED
    BY <2>1
<1> DEFINE T == {n \in Nat : n <= Len(s) => IsLevel(Levels(s)[n])}
<1>5. 0 \in T
  <2>1. Len(LeafLevel(s)) = Len(s) /\ LeafLevel(s) = [k \in 1..Len(s) |-> LeafLevel(s)[k]]
    BY <1>1 DEF LeafLevel
  <2> QED
    BY <1>1, <1>3, <2>1 DEF IsLevel
<1>6. ASSUME NEW n \in Nat, n \in T PROVE n + 1 \in T
  <2>1. n + 1 <= Len(s) => n \in 0..(Len(s) - 1) /\ n <= Len(s)
    BY <1>1
  <2> QED
    BY <1>4, <1>6, <2>1, NextLevelFacts
<1> HIDE DEF T
<1>7. Nat \subseteq T
  BY <1>5, <1>6, NumberInduction
<1>8. \A n \in 0..Len(s) : n \in Nat /\ n <= Len(s)
  BY <1>1
<1> QED
  BY <1>3, <1>4, <1>7, <1>8 DEF T

LEMMA LevelLengths ==
    ASSUME NEW A, NEW s \in Seq(A), s # <<>>, NEW l \in 0..Len(s)
    PROVE  /\ Len(s) - 1 \in Nat
           /\ Len(Levels(s)[l]) = Halves(Len(s) - 1)[l] + 1
<1>1. PICK m \in Nat : m = Len(s) - 1 /\ Len(s) = m + 1
  <2>1. Len(s) \in Nat /\ Len(s) # 0
    OBVIOUS
  <2> QED
    BY <2>1
<1> DEFINE T == {k \in Nat : k <= Len(s) => Len(Levels(s)[k]) = Halves(m)[k] + 1}
<1>2. 0 \in T
  <2>1. Len(LeafLevel(s)) = Len(s)
    <3>1. DOMAIN s = 1..Len(s) /\ Len(s) \in Nat
      OBVIOUS
    <3> QED
      BY <3>1 DEF LeafLevel
  <2> QED
    BY <1>1, <2>1, LevelFacts, HalvesFacts
<1>3. ASSUME NEW k \in Nat, k \in T PROVE k + 1 \in T
  <2>1. SUFFICES ASSUME k + 1 <= Len(s) PROVE Len(Levels(s)[k + 1]) = Halves(m)[k + 1] + 1
    OBVIOUS
  <2>2. k \in 0..(Len(s) - 1) /\ k \in 0..Len(s) /\ k <= Len(s)
    BY <1>1, <2>1
  <2>3. PICK v \in Nat : v = Halves(m)[k]
    BY HalvesFacts
  <2>4. Halves(m)[k + 1] = v \div 2
    BY <2>3, HalvesFacts
  <2>5. PICK level : level = Levels(s)[k]
    OBVIOUS
  <2>6. Len(level) = v + 1
    BY <1>3, <2>2, <2>3, <2>5
  <2>7. IsLevel(level) /\ Levels(s)[k + 1] = NextLevel(level)
    BY <2>2, <2>5, LevelFacts
  <2>8. CASE v = 0
    <3>1. Len(NextLevel(level)) = 1
      BY <2>6, <2>7, <2>8, NextLevelFacts
    <3>2. v \div 2 = 0
      BY <2>8
    <3> QED
      BY <2>4, <2>7, <3>1, <3>2
  <2>9. CASE v # 0
    <3>1. Len(NextLevel(level)) = (v + 2) \div 2
      <4>1. Len(level) # 1 /\ Len(level) + 1 = v + 2
        BY <2>6, <2>9
      <4> QED
        BY <2>7, <4>1, NextLevelFacts
    <3>2. (v + 2) \div 2 = (v \div 2) + 1
      OBVIOUS
    <3> QED
      BY <2>4, <2>7, <3>1, <3>2
  <2> QED
    BY <2>8, <2>9
<1> HIDE DEF T
<1>4. Nat \subseteq T
  BY <1>2, <1>3, NumberInduction
<1>5. l \in Nat /\ l <= Len(s)
  BY <1>1
<1>6. Len(Levels(s)[l]) = Halves(m)[l] + 1
  BY <1>4, <1>5 DEF T
<1> QED
  BY <1>1, <1>6

\* Two neighbours are paired; the last node of an odd level, with itself.
LEMMA Pairs ==
    ASSUME NEW A, NEW s \in Seq(A), s # <<>>, NEW l \in 0..(Len(s) - 1), NEW q \in Nat
    PROVE  /\ 2 * q + 2 <= Len(Levels(s)[l]) =>
                Levels(s)[l + 1][q + 1] = Node(Levels(s)[l][2 * q + 1], Levels(s)[l][2 * q + 2])
           /\ 2 * q + 1 = Len(Levels(s)[l]) /\ q # 0 =>
                Levels(s)[l + 1][q + 1] = Node(Levels(s)[l][2 * q + 1], Levels(s)[l][2 * q + 1])
<1>1. Len(s) \in Nat /\ l \in 0..Len(s)
  <2>1. Len(s) \in Nat
    OBVIOUS
  <2> QED
    BY <2>1
<1>2. PICK level, next : level = Levels(s)[l] /\ next = Levels(s)[l + 1]
  OBVIOUS
<1>3. IsLevel(level) /\ next = NextLevel(level)
  BY <1>1, <1>2, LevelFacts
<1>4. PICK n \in Nat : n = Len(level)
  BY <1>3 DEF IsLevel
<1>5. q + 1 \in Nat /\ 2 * (q + 1) - 1 = 2 * q + 1 /\ 2 * (q + 1) = 2 * q + 2
  OBVIOUS
<1>6. n # 1 /\ q + 1 \in 1..((n + 1) \div 2) =>
        next[q + 1] = Node(level[2 * q + 1],
                           IF 2 * q + 2 <= n THEN level[2 * q + 2] ELSE level[2 * q + 1])
  BY <1>3, <1>4, <1>5, NextLevelFacts
<1>7. CASE 2 * q + 2 <= n
  <2>1. n # 1 /\ q + 1 \in 1..((n + 1) \div 2)
    BY <1>7
  <2>2. ~(2 * q + 1 = n)
    BY <1>7
  <2> QED
    BY <1>2, <1>4, <1>6, <1>7, <2>1, <2>2
<1>8. CASE 2 * q + 1 = n /\ q # 0
  <2>1. n # 1 /\ q + 1 \in 1..((n + 1) \div 2)
    BY <1>8
  <2>2. ~(2 * q + 2 <= n)
    BY <1>8
  <2> QED
    BY <1>2, <1>4, <1>6, <1>8, <2>1, <2>2
<1> QED
  BY <1>2, <1>4, <1>7, <1>8

\* The first level of one node holds the root.
LEMMA RootReached ==
    ASSUME NEW A, NEW s \in Seq(A), s # <<>>, NEW l \in 0..Len(s), Len(Levels(s)[l]) = 1
    PROVE  RootOf(s) = Levels(s)[l][1]
<1>1. Len(s) \in Nat /\ l \in Nat /\ l <= Len(s)
  <2>1. Len(s) \in Nat
    OBVIOUS
  <2> QED
    BY <2>1
<1> DEFINE T == {k \in Nat : l <= k /\ k <= Len(s) => Levels(s)[k] = Levels(s)[l]}
<1>2. 0 \in T
  <2>1. l <= 0 => l = 0
    BY <1>1
  <2> QED
    BY <2>1
<1>3. ASSUME NEW k \in Nat, k \in T PROVE k + 1 \in T
  <2>1. CASE l = k + 1
    BY <2>1
  <2>2. CASE l # k + 1
    <3>1. SUFFICES ASSUME l <= k + 1, k + 1 <= Len(s) PROVE Levels(s)[k + 1] = Levels(s)[l]
      OBVIOUS
    <3>2. l <= k /\ k <= Len(s) /\ k \in 0..(Len(s) - 1) /\ k \in 0..Len(s)
      BY <1>1, <2>2, <3>1
    <3>3. Levels(s)[k] = Levels(s)[l]
      BY <1>3, <3>2
    <3>4. NextLevel(Levels(s)[l]) = Levels(s)[l]
      BY NextLevelFacts, LevelFacts
    <3> QED
      BY <3>2, <3>3, <3>4, LevelFacts
  <2> QED
    BY <2>1, <2>2
<1> HIDE DEF T
<1>4. Len(s) \in T
  BY <1>1, <1>2, <1>3, NumberInduction
<1>5. Levels(s)[Len(s)] = Levels(s)[l]
  BY <1>1, <1>4 DEF T
<1>6. RootOf(s) = Levels(s)[Len(s)][1]
  BY DEF RootOf, Levels, AreLevels, LeafLevel
<1> QED
  BY <1>5, <1>6

\* No two lists of scalars of one length have the same root.
LEMMA RootsDiffer ==
    ASSUME NEW A, NEW s \in Seq(A), NEW B, NEW r \in Seq(B), s # <<>>, Len(r) = Len(s),
           RootOf(r) = RootOf(s)
    PROVE  r = s
<1>1. r # <<>> /\ DOMAIN s = 1..Len(s) /\ DOMAIN r = 1..Len(r) /\ Len(s) \in Nat /\ Len(s) # 0
  OBVIOUS
<1>2. PICK n \in Nat : n = Len(s) /\ n # 0
  BY <1>1
<1>3. ASSUME NEW l \in 0..n
      PROVE  /\ Len(Levels(r)[l]) = Len(Levels(s)[l])
             /\ IsLevel(Levels(s)[l]) /\ IsLevel(Levels(r)[l])
  <2>1. l \in 0..Len(s) /\ l \in 0..Len(r)
    BY <1>2
  <2>2. Len(Levels(s)[l]) = Halves(Len(s) - 1)[l] + 1
    BY <2>1, LevelLengths
  <2>3. Len(Levels(r)[l]) = Halves(Len(r) - 1)[l] + 1
    BY <1>1, <2>1, LevelLengths
  <2> QED
    BY <1>1, <2>1, <2>2, <2>3, LevelFacts
<1> DEFINE T == {k \in Nat : k <= n => Levels(r)[n - k] = Levels(s)[n - k]}
<1>4. 0 \in T
  <2>1. n - 0 = n /\ n \in 0..n /\ n - 1 \in Nat
    BY <1>2
  <2>2. PICK h \in Nat : h = Halves(n - 1)[n]
    BY <2>1, HalvesFacts
  <2>3. h = 0
    <3>1. PICK t \in Nat : t = n - 1 /\ t < n
      BY <2>1
    <3>2. h >= 1 => h + n <= t
      BY <2>2, <3>1, HalvesBound
    <3> QED
      BY <3>1, <3>2
  <2>4. Len(Levels(s)[n]) = 1
    <3>1. Len(Levels(s)[n]) = Halves(Len(s) - 1)[n] + 1
      BY <1>2, <2>1, LevelLengths
    <3> QED
      BY <1>2, <2>2, <2>3, <3>1
  <2>5. Len(Levels(r)[n]) = 1
    BY <1>3, <2>1, <2>4
  <2>6. RootOf(s) = Levels(s)[n][1]
    BY <1>2, <2>1, <2>4, RootReached
  <2>7. RootOf(r) = Levels(r)[n][1]
    BY <1>1, <1>2, <2>1, <2>5, RootReached
  <2>8. Levels(s)[n][1] = Levels(r)[n][1]
    BY <2>6, <2>7
  <2>9. /\ Levels(s)[n] = [j \in 1..1 |-> Levels(s)[n][j]]
        /\ Levels(r)[n] = [j \in 1..1 |-> Levels(r)[n][j]]
    BY <1>3, <2>1, <2>4, <2>5 DEF IsLevel
  <2>10. \A j \in 1..1 : j = 1
    OBVIOUS
  <2> QED
    BY <2>1, <2>8, <2>9, <2>10
<1>5. ASSUME NEW k \in Nat, k \in T PROVE k + 1 \in T
  <2>1. SUFFICES ASSUME k + 1 <= n PROVE Levels(r)[n - (k + 1)] = Levels(s)[n - (k + 1)]
    OBVIOUS
  <2>2. PICK l \in Nat : l = n - (k + 1) /\ l + 1 = n - k /\ l \in 0..(n - 1) /\ l \in 0..n
                         /\ l + 1 \in 0..n
    BY <2>1
  <2>3. PICK next : next = Levels(s)[l + 1] /\ next = Levels(r)[l + 1]
    BY <1>5, <2>1, <2>2
  <2>4. PICK a, b : a = Levels(s)[l] /\ b = Levels(r)[l]
    OBVIOUS
  <2>5. PICK m \in Nat \ {0} : m = Len(a) /\ m = Len(b)
    BY <1>3, <2>2, <2>4 DEF IsLevel
  <2>6. IsLevel(a) /\ IsLevel(b) /\ a = [j \in 1..m |-> a[j]] /\ b = [j \in 1..m |-> b[j]]
    BY <1>3, <2>2, <2>4, <2>5 DEF IsLevel
  <2>7. ASSUME NEW q \in Nat
        PROVE  /\ 2 * q + 2 <= m => a[2 * q + 1] = b[2 * q + 1] /\ a[2 * q + 2] = b[2 * q + 2]
               /\ 2 * q + 1 = m /\ q # 0 => a[2 * q + 1] = b[2 * q + 1]
    <3>1. l \in 0..(Len(s) - 1) /\ l \in 0..(Len(r) - 1)
      BY <1>2, <2>2
    <3>2. /\ 2 * q + 2 <= m => next[q + 1] = Node(a[2 * q + 1], a[2 * q + 2])
          /\ 2 * q + 1 = m /\ q # 0 => next[q + 1] = Node(a[2 * q + 1], a[2 * q + 1])
      <4>1. /\ 2 * q + 2 <= Len(Levels(s)[l]) =>
                 Levels(s)[l + 1][q + 1]
                   = Node(Levels(s)[l][2 * q + 1], Levels(s)[l][2 * q + 2])
            /\ 2 * q + 1 = Len(Levels(s)[l]) /\ q # 0 =>
                 Levels(s)[l + 1][q + 1]
                   = Node(Levels(s)[l][2 * q + 1], Levels(s)[l][2 * q + 1])
        BY <3>1, Pairs
      <4> QED
        BY <2>3, <2>4, <2>5, <4>1
    <3>3. /\ 2 * q + 2 <= m => next[q + 1] = Node(b[2 * q + 1], b[2 * q + 2])
          /\ 2 * q + 1 = m /\ q # 0 => next[q + 1] = Node(b[2 * q + 1], b[2 * q + 1])
      <4>1. /\ 2 * q + 2 <= Len(Levels(r)[l]) =>
                 Levels(r)[l + 1][q + 1]
                   = Node(Levels(r)[l][2 * q + 1], Levels(r)[l][2 * q + 2])
            /\ 2 * q + 1 = Len(Levels(r)[l]) /\ q # 0 =>
                 Levels(r)[l + 1][q + 1]
                   = Node(Levels(r)[l][2 * q + 1], Levels(r)[l][2 * q + 1])
        BY <1>1, <3>1, Pairs
      <4> QED
        BY <2>3, <2>4, <2>5, <4>1
    <3> QED
      BY <3>2, <3>3 DEF Node
  <2>8. CASE m = 1
    <3>1. Levels(s)[l + 1] = NextLevel(a)
      BY <1>2, <2>2, <2>4, LevelFacts
    <3>2. Levels(r)[l + 1] = NextLevel(b)
      BY <1>1, <1>2, <2>2, <2>4, LevelFacts
    <3>3. NextLevel(a) = a /\ NextLevel(b) = b
      BY <2>5, <2>6, <2>8, NextLevelFacts
    <3> QED
      BY <2>2, <2>3, <2>4, <3>1, <3>2, <3>3
  <2>9. CASE m # 1
    <3>1. ASSUME NEW j \in 1..m PROVE a[j] = b[j]
      <4>1. PICK q \in Nat : j = 2 * q + 1 \/ j = 2 * q + 2
        <5>1. (j - 1) \div 2 \in Nat /\ (j = 2 * ((j - 1) \div 2) + 1 \/ j = 2 * ((j - 1) \div 2) + 2)
          OBVIOUS
        <5> QED
          BY <5>1
      <4>2. CASE j = 2 * q + 2
        <5>1. 2 * q + 2 <= m
          BY <4>2
        <5> QED
          BY <2>7, <4>2, <5>1
      <4>3. CASE j = 2 * q + 1 /\ j < m
        <5>1. 2 * q + 2 <= m
          BY <4>3
        <5> QED
          BY <2>7, <4>3, <5>1
      <4>4. CASE j = 2 * q + 1 /\ j = m
        <5>1. 2 * q + 1 = m /\ q # 0
          BY <2>9, <4>4
        <5> QED
          BY <2>7, <4>4, <5>1
      <4>5. j < m \/ j = m
        OBVIOUS
      <4> QED
        BY <4>1, <4>2, <4>3, <4>4, <4>5
    <3>2. [j \in 1..m |-> a[j]] = [j \in 1..m |-> b[j]]
      BY <3>1
    <3> QED
      BY <2>2, <2>4, <2>6, <3>2
  <2> QED
    BY <2>8, <2>9
<1> HIDE DEF T
<1>6. n \in T
  BY <1>4, <1>5, NumberInduction
<1>7. n - n = 0 /\ n <= n
  BY <1>2
<1>8. LeafLevel(r) = LeafLevel(s)
  <2>1. Levels(r)[0] = Levels(s)[0]
    BY <1>6, <1>7 DEF T
  <2>2. Levels(s)[0] = LeafLevel(s)
    BY LevelFacts
  <2>3. Levels(r)[0] = LeafLevel(r)
    BY <1>1, LevelFacts
  <2> QED
    BY <2>1, <2>2, <2>3
<1>9. ASSUME NEW k \in 1..n PROVE r[k] = s[k]
  <2>1. LeafLevel(s)[k] = Leaf(s[k]) /\ LeafLevel(r)[k] = Leaf(r[k])
    BY <1>1, <1>2 DEF LeafLevel
  <2>2. Leaf(s[k]) = Leaf(r[k])
    BY <1>8, <2>1
  <2> QED
    BY <2>2 DEF Leaf
<1>10. s = [k \in 1..n |-> s[k]] /\ r = [k \in 1..n |-> r[k]]
  <2>1. s = [k \in DOMAIN s |-> s[k]] /\ r = [k \in DOMAIN r |-> r[k]]
    OBVIOUS
  <2> QED
    BY <1>1, <1>2, <2>1
<1>11. [k \in 1..n |-> s[k]] = [k \in 1..n |-> r[k]]
  BY <1>9
<1> QED
  BY <1>10, <1>11

-----------------------------------------------------------------------------
\* The subtrees that wait after t scalars, from level `from' on: one for each bit of
\* t that is set, the last that was completed at its level.
Waiting(s, st, m, t, from) ==
    /\ \A i \in 1..m :
          /\ st[i].level \in Nat /\ st[i].level >= from
          /\ Odd(Halves(t)[st[i].level])
          /\ st[i].hash = Levels(s)[st[i].level][Halves(t)[st[i].level]]
    /\ \A i, j \in 1..m : i < j => st[i].level > st[j].level
    /\ \A l \in Nat : l >= from /\ Odd(Halves(t)[l]) => \E i \in 1..m : st[i].level = l

LEMMA WaitingSame ==
    ASSUME NEW s, NEW st, NEW new, NEW m \in Nat, NEW t, NEW from, Waiting(s, st, m, t, from),
           \A i \in 1..m : new[i] = st[i]
    PROVE  Waiting(s, new, m, t, from)
<1>1. /\ \A i \in 1..m :
            /\ new[i].level \in Nat /\ new[i].level >= from
            /\ Odd(Halves(t)[new[i].level])
            /\ new[i].hash = Levels(s)[new[i].level][Halves(t)[new[i].level]]
      /\ \A i, j \in 1..m : i < j => new[i].level > new[j].level
  BY DEF Waiting
<1>2. \A l \in Nat : l >= from /\ Odd(Halves(t)[l]) => \E i \in 1..m : new[i].level = l
  BY DEF Waiting
<1> QED
  BY <1>1, <1>2 DEF Waiting

\* The bit at the lowest level is set exactly when the last subtree has that level.
LEMMA WaitingLast ==
    ASSUME NEW s, NEW st, NEW m \in Nat, NEW t, NEW l \in Nat, Waiting(s, st, m, t, l)
    PROVE  Odd(Halves(t)[l]) <=> m >= 1 /\ st[m].level = l
<1>1. m >= 1 => m \in 1..m
  OBVIOUS
<1>2. m >= 1 /\ st[m].level = l => Odd(Halves(t)[l])
  BY <1>1 DEF Waiting
<1>3. ASSUME Odd(Halves(t)[l]) PROVE m >= 1 /\ st[m].level = l
  <2>1. l >= l
    OBVIOUS
  <2>2. PICK i \in 1..m : st[i].level = l
    BY <1>3, <2>1 DEF Waiting
  <2>3. m >= 1 /\ (i < m \/ i = m)
    BY <2>2
  <2>4. st[m].level \in Nat /\ st[m].level >= l /\ (i < m => st[i].level > st[m].level)
    BY <1>1, <2>3 DEF Waiting
  <2>5. ~(i < m)
    BY <2>2, <2>4
  <2> QED
    BY <2>2, <2>3, <2>5
<1> QED
  BY <1>2, <1>3

LEMMA WaitingAbove ==
    ASSUME NEW s, NEW st, NEW m \in Nat, NEW t, NEW l \in Nat, Waiting(s, st, m, t, l),
           ~Odd(Halves(t)[l])
    PROVE  Waiting(s, st, m, t, l + 1)
<1>1. ASSUME NEW i \in 1..m PROVE st[i].level >= l + 1
  <2>1. st[i].level \in Nat /\ st[i].level >= l /\ st[i].level # l
    BY DEF Waiting
  <2> QED
    BY <2>1
<1>2. \A k \in Nat : k >= l + 1 => k >= l
  OBVIOUS
<1> QED
  BY <1>1, <1>2 DEF Waiting

LEMMA WaitingBelow ==
    ASSUME NEW s, NEW st, NEW m \in Nat, NEW t, NEW l \in Nat, Waiting(s, st, m + 1, t, l),
           Odd(Halves(t)[l])
    PROVE  Waiting(s, st, m, t, l + 1)
<1>1. m + 1 \in Nat /\ m + 1 \in 1..(m + 1) /\ \A i \in 1..m : i \in 1..(m + 1) /\ i < m + 1
  OBVIOUS
<1>2. st[m + 1].level = l
  BY <1>1, WaitingLast
<1>3. ASSUME NEW i \in 1..m
      PROVE  /\ st[i].level \in Nat /\ st[i].level >= l + 1
             /\ Odd(Halves(t)[st[i].level])
             /\ st[i].hash = Levels(s)[st[i].level][Halves(t)[st[i].level]]
  <2>1. st[i].level > st[m + 1].level
    BY <1>1 DEF Waiting
  <2>2. st[i].level \in Nat
    BY <1>1 DEF Waiting
  <2>3. st[i].level >= l + 1
    BY <1>2, <2>1, <2>2
  <2> QED
    BY <1>1, <2>2, <2>3 DEF Waiting
<1>4. \A i, j \in 1..m : i < j => st[i].level > st[j].level
  BY <1>1 DEF Waiting
<1>5. ASSUME NEW k \in Nat, k >= l + 1, Odd(Halves(t)[k]) PROVE \E i \in 1..m : st[i].level = k
  <2>1. k >= l /\ k # l
    BY <1>5
  <2>2. PICK i \in 1..(m + 1) : st[i].level = k
    BY <1>5, <2>1 DEF Waiting
  <2>3. i # m + 1
    BY <1>2, <2>1, <2>2
  <2>4. i \in 1..m
    BY <2>3
  <2> QED
    BY <2>2, <2>4
<1> QED
  BY <1>3, <1>4, <1>5 DEF Waiting

\* A completed subtree joins those that wait: one more scalar is counted.
LEMMA WaitingPushed ==
    ASSUME NEW s, NEW st, NEW m \in Nat, NEW t \in Nat, NEW l \in Nat, Waiting(s, st, m, t, l),
           \A j \in Nat : j < l => Odd(Halves(t)[j]), ~Odd(Halves(t)[l]),
           NEW new, \A i \in 1..m : new[i] = st[i],
           new[m + 1].level = l, new[m + 1].hash = Levels(s)[l][Halves(t)[l] + 1]
    PROVE  Waiting(s, new, m + 1, t + 1, 0)
<1>1. /\ \A j \in Nat : j < l => ~Odd(Halves(t + 1)[j])
      /\ Odd(Halves(t + 1)[l])
      /\ \A j \in Nat : j > l => Halves(t + 1)[j] = Halves(t)[j]
  BY HalvesCarried
<1>2. Halves(t + 1)[l] = Halves(t)[l] + 1
  BY HalvesIncrement
<1>3. ASSUME NEW i \in 1..m
      PROVE  /\ new[i].level \in Nat /\ new[i].level > l
             /\ Odd(Halves(t + 1)[new[i].level])
             /\ new[i].hash = Levels(s)[new[i].level][Halves(t + 1)[new[i].level]]
  <2>1. PICK k : k = st[i].level /\ k = new[i].level
    OBVIOUS
  <2>2. /\ k \in Nat /\ k >= l /\ Odd(Halves(t)[k])
        /\ new[i].hash = Levels(s)[k][Halves(t)[k]]
    BY <2>1 DEF Waiting
  <2>3. k > l
    BY <2>2
  <2>4. Halves(t + 1)[k] = Halves(t)[k]
    BY <1>1, <2>2, <2>3
  <2> QED
    BY <2>1, <2>2, <2>3, <2>4
<1>4. ASSUME NEW i \in 1..(m + 1)
      PROVE  /\ new[i].level \in Nat /\ new[i].level >= 0
             /\ Odd(Halves(t + 1)[new[i].level])
             /\ new[i].hash = Levels(s)[new[i].level][Halves(t + 1)[new[i].level]]
  <2>1. CASE i = m + 1
    BY <1>1, <1>2, <2>1
  <2>2. CASE i # m + 1
    <3>1. i \in 1..m
      BY <2>2
    <3>2. \A k \in Nat : k >= 0
      OBVIOUS
    <3> QED
      BY <1>3, <3>1, <3>2
  <2> QED
    BY <2>1, <2>2
<1>5. ASSUME NEW i \in 1..(m + 1), NEW j \in 1..(m + 1), i < j
      PROVE  new[i].level > new[j].level
  <2>1. i \in 1..m
    BY <1>5
  <2>2. CASE j = m + 1
    BY <1>3, <2>1, <2>2
  <2>3. CASE j # m + 1
    <3>1. j \in 1..m
      BY <2>3
    <3> QED
      BY <1>5, <2>1, <3>1 DEF Waiting
  <2> QED
    BY <2>2, <2>3
<1>6. ASSUME NEW k \in Nat, Odd(Halves(t + 1)[k]) PROVE \E i \in 1..(m + 1) : new[i].level = k
  <2>1. k < l \/ k = l \/ k > l
    OBVIOUS
  <2>2. CASE k = l
    <3>1. m + 1 \in 1..(m + 1)
      OBVIOUS
    <3> QED
      BY <2>2, <3>1
  <2>3. CASE k > l
    <3>1. Odd(Halves(t)[k]) /\ k >= l
      BY <1>1, <1>6, <2>3
    <3>2. PICK i \in 1..m : st[i].level = k
      BY <3>1 DEF Waiting
    <3>3. i \in 1..(m + 1)
      OBVIOUS
    <3> QED
      BY <3>2, <3>3
  <2> QED
    BY <1>1, <1>6, <2>1, <2>2, <2>3
<1> QED
  BY <1>4, <1>5, <1>6 DEF Waiting

\* Each subtree that waits is at least twice as large as all after it: m of them
\* have 2^m - 1 leaves or more.
LEMMA WaitingFew ==
    ASSUME NEW s, NEW st, NEW m \in Nat, NEW t \in Nat, Waiting(s, st, m, t, 0)
    PROVE  Power[m] <= t + 1
<1> DEFINE T == {i \in Nat : i + 1 <= m => Power[i + 1] <= Halves(t)[st[i + 1].level] + 1}
<1>1. 0 \in T
  <2>1. SUFFICES ASSUME 0 + 1 <= m PROVE Power[0 + 1] <= Halves(t)[st[0 + 1].level] + 1
    OBVIOUS
  <2>2. 0 + 1 = 1 /\ 1 \in 1..m
    BY <2>1
  <2>3. PICK l \in Nat : l = st[1].level /\ Odd(Halves(t)[l])
    BY <2>2 DEF Waiting
  <2>4. PICK v \in Nat : v = Halves(t)[l] /\ Odd(v)
    BY <2>3, HalvesFacts
  <2>5. v >= 1
    BY <2>4 DEF Odd
  <2>6. Power[0 + 1] = 2
    BY PowerFacts
  <2>7. 2 <= v + 1
    BY <2>5
  <2> QED
    BY <2>2, <2>3, <2>4, <2>6, <2>7
<1>2. ASSUME NEW i \in Nat, i \in T PROVE i + 1 \in T
  <2>1. SUFFICES ASSUME (i + 1) + 1 <= m
                 PROVE  Power[(i + 1) + 1] <= Halves(t)[st[(i + 1) + 1].level] + 1
    OBVIOUS
  <2>2. PICK j \in Nat : j = i + 1 /\ j \in 1..m /\ j + 1 \in 1..m /\ j < j + 1
    BY <2>1
  <2>3. PICK a \in Nat, b \in Nat : a = st[j].level /\ b = st[j + 1].level /\ a > b
                                    /\ Odd(Halves(t)[b])
    BY <2>2 DEF Waiting
  <2>4. PICK x \in Nat, y \in Nat, z \in Nat :
          x = Halves(t)[a] /\ y = Halves(t)[b + 1] /\ z = Halves(t)[b]
    <3>1. b + 1 \in Nat
      OBVIOUS
    <3>2. Halves(t)[a] \in Nat /\ Halves(t)[b + 1] \in Nat /\ Halves(t)[b] \in Nat
      BY <3>1, HalvesFacts
    <3> QED
      BY <3>2
  <2>5. z = 2 * y + 1
    <3>1. y = z \div 2
      BY <2>4, HalvesFacts
    <3> QED
      BY <2>3, <2>4, <3>1, Half
  <2>6. x <= y
    <3>1. b + 1 \in Nat /\ b + 1 <= a
      BY <2>3
    <3> QED
      BY <2>4, <3>1, HalvesDown
  <2>7. PICK p \in Nat : p = Power[j]
    BY PowerFacts
  <2>8. p <= x + 1
    <3>1. i + 1 <= m
      BY <2>2
    <3> QED
      BY <1>2, <2>2, <2>3, <2>4, <2>7, <3>1
  <2>9. Power[j + 1] = 2 * p
    BY <2>7, PowerFacts
  <2>10. 2 * p <= z + 1
    BY <2>5, <2>6, <2>8
  <2> QED
    BY <2>2, <2>3, <2>4, <2>9, <2>10
<1> HIDE DEF T
<1>3. Nat \subseteq T
  BY <1>1, <1>2, NumberInduction
<1>4. CASE m = 0
  <2>1. Power[m] = 1
    BY <1>4, PowerFacts
  <2> QED
    BY <2>1
<1>5. CASE m # 0
  <2>1. PICK i \in Nat : i = m - 1 /\ i + 1 = m /\ m \in 1..m
    BY <1>5
  <2>2. Power[m] <= Halves(t)[st[m].level] + 1
    <3>1. i + 1 <= m
      BY <2>1
    <3>2. i \in T
      BY <1>3
    <3> QED
      BY <2>1, <3>1, <3>2 DEF T
  <2>3. PICK l \in Nat : l = st[m].level
    BY <2>1 DEF Waiting
  <2>4. Halves(t)[l] <= Halves(t)[0] /\ Halves(t)[0] = t /\ Halves(t)[l] \in Nat
    <3>1. 0 <= l
      OBVIOUS
    <3> QED
      BY <3>1, HalvesDown, HalvesFacts
  <2>5. PICK v \in Nat, p \in Nat : v = Halves(t)[l] /\ p = Power[m]
    BY <2>4, PowerFacts
  <2>6. v <= t /\ p <= v + 1
    BY <2>2, <2>3, <2>4, <2>5
  <2>7. p <= t + 1
    BY <2>6
  <2> QED
    BY <2>5, <2>7
<1> QED
  BY <1>4, <1>5

LEMMA WaitingNone == ASSUME NEW s, NEW st PROVE Waiting(s, st, 0, 0, 0)
<1>1. ASSUME NEW l \in Nat PROVE ~Odd(Halves(0)[l])
  <2>1. 0 <= l
    OBVIOUS
  <2>2. Halves(0)[l] <= Halves(0)[0] /\ Halves(0)[0] = 0 /\ Halves(0)[l] \in Nat
    BY <2>1, HalvesDown, HalvesFacts
  <2>3. Halves(0)[l] = 0
    BY <2>2
  <2>4. ~Odd(0)
    BY DEF Odd
  <2> QED
    BY <2>3, <2>4
<1>2. 1..0 = {}
  OBVIOUS
<1> QED
  BY <1>1, <1>2 DEF Waiting

\* Two neighbours of a level make the next node of the level above.
LEMMA Joined ==
    ASSUME NEW A, NEW s \in Seq(A), s # <<>>, NEW t \in Nat, t < Len(s),
           NEW l \in 0..Len(s), Odd(Halves(t)[l])
    PROVE  /\ l + 1 \in 0..Len(s)
           /\ Levels(s)[l + 1][Halves(t)[l + 1] + 1]
                = Node(Levels(s)[l][Halves(t)[l]], Levels(s)[l][Halves(t)[l] + 1])
<1>1. PICK n \in Nat : n = Len(s) /\ n - 1 \in Nat /\ t <= n - 1
  BY LevelLengths
<1>2. l \in Nat
  OBVIOUS
<1>3. PICK v \in Nat, q \in Nat : v = Halves(t)[l] /\ q = Halves(t)[l + 1] /\ v = 2 * q + 1
  <2>1. PICK v \in Nat : v = Halves(t)[l]
    BY <1>2, HalvesFacts
  <2>2. PICK q \in Nat : q = v \div 2 /\ v = 2 * q + 1
    BY <2>1, Half
  <2>3. Halves(t)[l + 1] = q
    BY <1>2, <2>1, <2>2, HalvesFacts
  <2> QED
    BY <2>1, <2>2, <2>3
<1>4. v + l <= t
  <2>1. v >= 1
    BY <1>3
  <2> QED
    BY <1>2, <1>3, <2>1, HalvesBound
<1>5. l \in 0..(n - 1) /\ l + 1 \in 0..n
  BY <1>1, <1>2, <1>3, <1>4
<1>6. 2 * q + 2 <= Len(Levels(s)[l])
  <2>1. PICK w \in Nat : w = Halves(n - 1)[l]
    BY <1>1, <1>2, HalvesFacts
  <2>2. Len(Levels(s)[l]) = w + 1
    BY <1>1, <2>1, LevelLengths
  <2>3. v <= w
    BY <1>1, <1>2, <1>3, <2>1, HalvesMonotone
  <2> QED
    BY <1>3, <2>2, <2>3
<1>7. Levels(s)[l + 1][q + 1] = Node(Levels(s)[l][2 * q + 1], Levels(s)[l][2 * q + 2])
  BY <1>1, <1>5, <1>6, Pairs
<1>8. v + 1 = 2 * q + 2
  BY <1>3
<1> QED
  BY <1>1, <1>3, <1>5, <1>7, <1>8

\* The last node of an odd level is paired with itself.
LEMMA Lifted ==
    ASSUME NEW A, NEW s \in Seq(A), s # <<>>, NEW l \in 0..Len(s), NEW t \in Nat, t = Len(s) - 1,
           ~Odd(Halves(t)[l]), NEW k \in Nat, k > l, Odd(Halves(t)[k])
    PROVE  /\ l + 1 \in 0..Len(s)
           /\ Levels(s)[l + 1][Halves(t)[l + 1] + 1]
                = Node(Levels(s)[l][Halves(t)[l] + 1], Levels(s)[l][Halves(t)[l] + 1])
<1>1. PICK n \in Nat : n = Len(s) /\ t = n - 1
  BY LevelLengths
<1>2. l \in Nat /\ l + 1 \in Nat /\ l + 1 <= k
  OBVIOUS
<1>3. PICK v \in Nat, q \in Nat : v = Halves(t)[l] /\ q = Halves(t)[l + 1] /\ v = 2 * q
  <2>1. PICK v \in Nat : v = Halves(t)[l]
    BY <1>2, HalvesFacts
  <2>2. PICK q \in Nat : q = v \div 2 /\ v = 2 * q
    BY <2>1, Half
  <2>3. Halves(t)[l + 1] = q
    BY <1>2, <2>1, <2>2, HalvesFacts
  <2> QED
    BY <2>1, <2>2, <2>3
<1>4. q >= 1
  <2>1. PICK w \in Nat : w = Halves(t)[k] /\ Odd(w)
    BY HalvesFacts
  <2>2. w >= 1
    BY <2>1 DEF Odd
  <2>3. w <= q
    BY <1>2, <1>3, <2>1, HalvesDown
  <2> QED
    BY <2>2, <2>3
<1>5. v + l <= t
  <2>1. v >= 1
    BY <1>3, <1>4
  <2> QED
    BY <1>2, <1>3, <2>1, HalvesBound
<1>6. l \in 0..(n - 1) /\ l + 1 \in 0..n
  BY <1>1, <1>2, <1>3, <1>5
<1>7. 2 * q + 1 = Len(Levels(s)[l]) /\ q # 0
  <2>1. Len(Levels(s)[l]) = v + 1
    BY <1>1, <1>3, LevelLengths
  <2> QED
    BY <1>3, <1>4, <2>1
<1>8. Levels(s)[l + 1][q + 1] = Node(Levels(s)[l][2 * q + 1], Levels(s)[l][2 * q + 1])
  BY <1>1, <1>6, <1>7, Pairs
<1>9. v + 1 = 2 * q + 1
  BY <1>3
<1> QED
  BY <1>1, <1>3, <1>6, <1>8, <1>9

\* Taking the last element off, and putting one on.
LEMMA PopFacts ==
    ASSUME NEW E, NEW st \in Seq(E), st # <<>>
    PROVE  /\ Len(st) - 1 \in Nat /\ st[Len(st)] \in E
           /\ Front(st) \in Seq(E) /\ Len(Front(st)) = Len(st) - 1
           /\ \A i \in 1..(Len(st) - 1) : Front(st)[i] = st[i]
<1>1. Len(st) \in Nat /\ Len(st) # 0
  OBVIOUS
<1>2. Len(st) \in 1..Len(st) /\ Len(st) - 1 \in Nat /\ Len(st) - 1 <= Len(st)
  <2>1. PICK n \in Nat : n = Len(st) /\ n # 0
    BY <1>1
  <2>2. n \in 1..n /\ n - 1 \in Nat /\ n - 1 <= n
    BY <2>1
  <2> QED
    BY <2>1, <2>2
<1>3. PICK m \in Nat : m = Len(st) - 1 /\ m <= Len(st)
  BY <1>2, Zenon
<1>4. Front(st) = SubSeq(st, 1, m)
  BY <1>3 DEF Front
<1>5. \A i \in 1..m : SubSeq(st, 1, m)[i] = st[i] /\ i \in 1..Len(st)
  BY <1>3
<1>6. SubSeq(st, 1, m) \in Seq(E)
  BY <1>3
<1>7. Len(SubSeq(st, 1, m)) = m
  BY <1>3
<1>8. st[Len(st)] \in E
  BY <1>2
<1> QED
  BY <1>2, <1>3, <1>4, <1>5, <1>6, <1>7, <1>8

LEMMA PushFacts ==
    ASSUME NEW E, NEW st \in Seq(E), NEW e \in E
    PROVE  /\ Len(st) \in Nat
           /\ st \o <<e>> \in Seq(E) /\ Len(st \o <<e>>) = Len(st) + 1
           /\ \A i \in 1..Len(st) : (st \o <<e>>)[i] = st[i]
           /\ (st \o <<e>>)[Len(st) + 1] = e
<1>1. <<e>> \in Seq(E) /\ Len(<<e>>) = 1 /\ <<e>>[1] = e
  OBVIOUS
<1>2. st \o <<e>> \in Seq(E) /\ Len(st \o <<e>>) = Len(st) + 1
  BY <1>1
<1> QED
  BY <1>1, <1>2

-----------------------------------------------------------------------------
\* The pass over the scalars.
Scalar == Nat \cup (Slot \X Int)
Entry(s) == [hash : {Levels(s)[l][k] : l \in Nat, k \in Nat}, level : Nat]

\* The subtree e ends with scalar t + 1.
Complete(s, e, t) ==
    e.level \in 0..Len(s) /\ e.hash = Levels(s)[e.level][Halves(t)[e.level] + 1]

PassTypeInv ==
    /\ leaves \in Seq(Scalar) /\ taken \in 0..Len(leaves)
    /\ stack \in Seq(Entry(leaves)) /\ Len(stack) <= MaxDepth
    /\ carry = <<>> \/ \E c \in Entry(leaves) : carry = <<c>>
IdleInv ==
    /\ leaves = <<>> => taken = 0 /\ carry = <<>> /\ stack = <<>> /\ root = <<>>
    /\ leaves # <<>> => Merklizable(Len(leaves))
CarryInv ==
    carry # <<>> =>
      /\ root = <<>> /\ taken # 0
      /\ Complete(leaves, carry[1], taken - 1)
      /\ Waiting(leaves, stack, Len(stack), taken - 1, carry[1].level)
      /\ \A j \in Nat : j < carry[1].level => Odd(Halves(taken - 1)[j])
BetweenInv ==
    carry = <<>> /\ taken < Len(leaves) =>
      root = <<>> /\ Waiting(leaves, stack, Len(stack), taken, 0)
DrainInv ==
    carry = <<>> /\ taken = Len(leaves) /\ leaves # <<>> =>
      /\ stack # <<>>
      /\ Complete(leaves, Top, taken - 1)
      /\ Waiting(leaves, stack, Len(stack) - 1, taken - 1, Top.level)
RootInv == root # <<>> => root = RootOf(leaves) /\ carry = <<>> /\ taken = Len(leaves)

MerkleInv == PassTypeInv /\ IdleInv /\ CarryInv /\ BetweenInv /\ DrainInv /\ RootInv

\* A node of the tree may go on the stack.
LEMMA CompleteIsEntry ==
    ASSUME NEW s, Len(s) \in Nat, NEW t \in Nat, NEW l \in 0..Len(s),
           NEW hash, hash = Levels(s)[l][Halves(t)[l] + 1]
    PROVE  /\ Subtree(hash, l) \in Entry(s) /\ Complete(s, Subtree(hash, l), t)
           /\ Subtree(hash, l).hash = hash /\ Subtree(hash, l).level = l
<1>1. l \in Nat
  OBVIOUS
<1>2. PICK v \in Nat : v = Halves(t)[l] + 1
  <2>1. Halves(t)[l] \in Nat
    BY <1>1, HalvesFacts
  <2> QED
    BY <2>1
<1>3. hash \in {Levels(s)[i][k] : i \in Nat, k \in Nat}
  BY <1>1, <1>2
<1> QED
  BY <1>1, <1>3 DEF Subtree, Entry, Complete

LEMMA TakeStep == MerkleInv /\ Take => MerkleInv'
<1> SUFFICES ASSUME MerkleInv, Take PROVE MerkleInv'
  OBVIOUS
<1> DEFINE t == taken
           e == Subtree(Leaf(leaves[taken + 1]), 0)
<1>1. /\ leaves \in Seq(Scalar) /\ leaves # <<>> /\ t \in Nat /\ t < Len(leaves)
      /\ stack \in Seq(Entry(leaves)) /\ Len(stack) <= MaxDepth /\ Len(leaves) \in Nat
      /\ Merklizable(Len(leaves)) /\ root = <<>>
      /\ Waiting(leaves, stack, Len(stack), t, 0)
  <2>1. leaves \in Seq(Scalar) /\ taken \in 0..Len(leaves) /\ taken < Len(leaves) /\ carry = <<>>
    BY DEF MerkleInv, PassTypeInv, Take
  <2>2. leaves # <<>> /\ taken \in Nat /\ Len(leaves) \in Nat
    BY <2>1
  <2> QED
    BY <2>1, <2>2 DEF MerkleInv, PassTypeInv, IdleInv, BetweenInv
<1>2. carry' = <<e>> /\ taken' = t + 1 /\ UNCHANGED <<leaves, stack, root>>
  BY DEF Take
<1>3. Levels(leaves)[0][Halves(t)[0] + 1] = Leaf(leaves[t + 1])
  <2>1. Halves(t)[0] = t /\ t + 1 \in DOMAIN leaves
    <3>1. Halves(t)[0] = t
      BY <1>1, HalvesFacts
    <3> QED
      BY <1>1, <3>1
  <2>2. Levels(leaves)[0] = LeafLevel(leaves)
    BY <1>1, LevelFacts
  <2> QED
    BY <2>1, <2>2 DEF LeafLevel
<1> HIDE DEF t
<1>4. e \in Entry(leaves) /\ Complete(leaves, e, t) /\ e.level = 0
  <2>1. 0 \in 0..Len(leaves)
    BY <1>1
  <2> QED
    BY <1>1, <1>3, <2>1, CompleteIsEntry DEF t
<1>5. (t + 1) - 1 = t /\ t + 1 # 0 /\ t + 1 \in 0..Len(leaves)
  BY <1>1
<1>6. carry'[1] = e /\ carry' # <<>>
  BY <1>2
<1> HIDE DEF e
<1>7. PassTypeInv'
  BY <1>1, <1>2, <1>4, <1>5 DEF PassTypeInv
<1>8. IdleInv'
  BY <1>1, <1>2 DEF IdleInv
<1>9. CarryInv'
  <2>1. \A j \in Nat : ~(j < 0)
    OBVIOUS
  <2> QED
    BY <1>1, <1>2, <1>4, <1>5, <1>6, <2>1 DEF CarryInv
<1>10. BetweenInv' /\ DrainInv' /\ RootInv'
  BY <1>1, <1>2, <1>6 DEF BetweenInv, DrainInv, RootInv
<1> QED
  BY <1>7, <1>8, <1>9, <1>10 DEF MerkleInv

\* What a subtree in hand says of the rest.
LEMMA InHand ==
    ASSUME MerkleInv, carry # <<>>
    PROVE  \E c \in Entry(leaves), t \in Nat, l \in 0..Len(leaves), n \in Nat :
              /\ carry = <<c>> /\ carry[1] = c /\ c.level = l /\ taken = t + 1 /\ taken - 1 = t
              /\ n = Len(stack) /\ t < Len(leaves) /\ l \in Nat
              /\ leaves \in Seq(Scalar) /\ leaves # <<>> /\ stack \in Seq(Entry(leaves))
              /\ Len(leaves) \in Nat
              /\ n <= MaxDepth /\ Merklizable(Len(leaves)) /\ root = <<>>
              /\ c.hash = Levels(leaves)[l][Halves(t)[l] + 1]
              /\ Waiting(leaves, stack, n, t, l)
              /\ \A j \in Nat : j < l => Odd(Halves(t)[j])
<1>1. PICK c \in Entry(leaves) : carry = <<c>> /\ carry[1] = c
  BY DEF MerkleInv, PassTypeInv
<1>2. leaves \in Seq(Scalar) /\ taken \in 0..Len(leaves) /\ stack \in Seq(Entry(leaves))
      /\ Len(stack) <= MaxDepth
  BY DEF MerkleInv, PassTypeInv
<1>3. /\ root = <<>> /\ taken # 0
      /\ Complete(leaves, c, taken - 1)
      /\ Waiting(leaves, stack, Len(stack), taken - 1, c.level)
      /\ \A j \in Nat : j < c.level => Odd(Halves(taken - 1)[j])
  BY <1>1 DEF MerkleInv, CarryInv
<1>4. PICK t \in Nat : t = taken - 1 /\ taken = t + 1 /\ t < Len(leaves)
  BY <1>2, <1>3
<1>5. leaves # <<>> /\ Len(leaves) \in Nat /\ Len(stack) \in Nat
  BY <1>2, <1>4
<1>6. Merklizable(Len(leaves))
  BY <1>5 DEF MerkleInv, IdleInv
<1>7. PICK l \in 0..Len(leaves) : c.level = l /\ l \in Nat
  BY <1>3 DEF Complete
<1> QED
  BY <1>1, <1>2, <1>3, <1>4, <1>5, <1>6, <1>7 DEF Complete

LEMMA CombineStep == MerkleInv /\ Combine => MerkleInv'
<1> SUFFICES ASSUME MerkleInv, Combine PROVE MerkleInv'
  OBVIOUS
<1>1. carry # <<>> /\ SameLevel
  BY DEF Combine
<1>2. PICK c \in Entry(leaves), t \in Nat, l \in 0..Len(leaves), n \in Nat :
              /\ carry = <<c>> /\ carry[1] = c /\ c.level = l /\ taken = t + 1 /\ taken - 1 = t
              /\ n = Len(stack) /\ t < Len(leaves) /\ l \in Nat
              /\ leaves \in Seq(Scalar) /\ leaves # <<>> /\ stack \in Seq(Entry(leaves))
              /\ Len(leaves) \in Nat
              /\ n <= MaxDepth /\ Merklizable(Len(leaves)) /\ root = <<>>
              /\ c.hash = Levels(leaves)[l][Halves(t)[l] + 1]
              /\ Waiting(leaves, stack, n, t, l)
              /\ \A j \in Nat : j < l => Odd(Halves(t)[j])
  BY <1>1, InHand
<1>3. n > 0 /\ stack[n].level = l
  BY <1>1, <1>2 DEF SameLevel, Top
<1>4. PICK m \in Nat : n = m + 1 /\ m = n - 1 /\ n \in 1..n
  BY <1>3
<1>5. Odd(Halves(t)[l])
  BY <1>2, <1>3, <1>4, WaitingLast
<1>6. Waiting(leaves, stack, m, t, l + 1)
  BY <1>2, <1>4, <1>5, WaitingBelow
<1>7. stack[n].hash = Levels(leaves)[l][Halves(t)[l]]
  BY <1>2, <1>3, <1>4 DEF Waiting
<1> DEFINE hash == Node(stack[n].hash, c.hash)
           e == Subtree(hash, l + 1)
<1>8. l + 1 \in 0..Len(leaves) /\ hash = Levels(leaves)[l + 1][Halves(t)[l + 1] + 1]
  BY <1>2, <1>5, <1>7, Joined
<1>9. e \in Entry(leaves) /\ Complete(leaves, e, t) /\ e.level = l + 1
  <2> HIDE DEF hash
  <2> QED
    BY <1>2, <1>8, CompleteIsEntry
<1>10. carry' = <<e>> /\ stack' = Front(stack) /\ UNCHANGED <<leaves, taken, root>>
  BY <1>2, <1>3 DEF Combine, Top
<1>11. /\ stack' \in Seq(Entry(leaves)) /\ Len(stack') = m
       /\ \A i \in 1..m : stack'[i] = stack[i]
  <2>1. stack # <<>>
    BY <1>2, <1>3
  <2>2. PICK E : E = Entry(leaves) /\ stack \in Seq(E)
    BY <1>2
  <2>3. /\ Front(stack) \in Seq(E) /\ Len(Front(stack)) = Len(stack) - 1
        /\ \A i \in 1..(Len(stack) - 1) : Front(stack)[i] = stack[i]
    BY <2>1, <2>2, PopFacts
  <2> QED
    BY <1>2, <1>4, <1>10, <2>2, <2>3
<1>12. carry'[1] = e /\ carry' # <<>>
  BY <1>10
<1> HIDE DEF e, hash
<1>13. PassTypeInv'
  <2>1. m <= MaxDepth
    BY <1>2, <1>4, MerklizeAssumption
  <2>2. taken \in 0..Len(leaves)
    BY DEF MerkleInv, PassTypeInv
  <2> QED
    BY <1>2, <1>9, <1>10, <1>11, <2>1, <2>2 DEF PassTypeInv
<1>14. IdleInv'
  BY <1>2, <1>10 DEF IdleInv
<1>15. Waiting(leaves, stack', m, t, l + 1)
  BY <1>6, <1>11, WaitingSame
<1>16. ASSUME NEW j \in Nat, j < l + 1 PROVE Odd(Halves(t)[j])
  <2>1. j < l \/ j = l
    BY <1>2, <1>16
  <2> QED
    BY <1>2, <1>5, <2>1
<1>17. CarryInv'
  <2>1. taken # 0
    BY <1>2
  <2> QED
    BY <1>2, <1>9, <1>10, <1>11, <1>12, <1>15, <1>16, <2>1 DEF CarryInv
<1>18. BetweenInv' /\ DrainInv' /\ RootInv'
  BY <1>2, <1>10, <1>12 DEF BetweenInv, DrainInv, RootInv
<1> QED
  BY <1>13, <1>14, <1>17, <1>18 DEF MerkleInv

LEMMA PushStep == MerkleInv /\ Push => MerkleInv'
<1> SUFFICES ASSUME MerkleInv, Push PROVE MerkleInv'
  OBVIOUS
<1>1. carry # <<>> /\ ~SameLevel
  BY DEF Push
<1>2. PICK c \in Entry(leaves), t \in Nat, l \in 0..Len(leaves), n \in Nat :
              /\ carry = <<c>> /\ carry[1] = c /\ c.level = l /\ taken = t + 1 /\ taken - 1 = t
              /\ n = Len(stack) /\ t < Len(leaves) /\ l \in Nat
              /\ leaves \in Seq(Scalar) /\ leaves # <<>> /\ stack \in Seq(Entry(leaves))
              /\ Len(leaves) \in Nat
              /\ n <= MaxDepth /\ Merklizable(Len(leaves)) /\ root = <<>>
              /\ c.hash = Levels(leaves)[l][Halves(t)[l] + 1]
              /\ Waiting(leaves, stack, n, t, l)
              /\ \A j \in Nat : j < l => Odd(Halves(t)[j])
  BY <1>1, InHand
<1>3. ~(n >= 1 /\ stack[n].level = l)
  <2>1. n >= 1 <=> n > 0
    OBVIOUS
  <2> QED
    BY <1>1, <1>2, <2>1 DEF SameLevel, Top
<1>4. ~Odd(Halves(t)[l])
  BY <1>2, <1>3, WaitingLast
<1>5. carry' = <<>> /\ stack' = stack \o <<c>> /\ UNCHANGED <<leaves, taken, root>>
  BY <1>2 DEF Push
<1>6. /\ stack' \in Seq(Entry(leaves)) /\ Len(stack') = n + 1
      /\ \A i \in 1..n : stack'[i] = stack[i]
      /\ stack'[n + 1] = c
  <2>1. PICK E : E = Entry(leaves) /\ stack \in Seq(E) /\ c \in E
    BY <1>2
  <2>2. /\ stack \o <<c>> \in Seq(E) /\ Len(stack \o <<c>>) = Len(stack) + 1
        /\ \A i \in 1..Len(stack) : (stack \o <<c>>)[i] = stack[i]
        /\ (stack \o <<c>>)[Len(stack) + 1] = c
    BY <2>1, PushFacts
  <2> QED
    BY <1>2, <1>5, <2>1, <2>2
<1>7. Waiting(leaves, stack', n + 1, t + 1, 0)
  <2>1. Waiting(leaves, stack, n, t, l) /\ \A j \in Nat : j < l => Odd(Halves(t)[j])
    BY <1>2
  <2>2. /\ \A i \in 1..n : stack'[i] = stack[i]
        /\ stack'[n + 1].level = l
        /\ stack'[n + 1].hash = Levels(leaves)[l][Halves(t)[l] + 1]
    BY <1>2, <1>6
  <2>3. l \in Nat
    BY <1>2
  <2> QED
    BY <1>4, <2>1, <2>2, <2>3, WaitingPushed
<1>8. n + 1 <= MaxDepth
  <2>1. n + 1 \in Nat /\ t + 1 \in Nat /\ MaxDepth + 1 \in Nat
    BY MerklizeAssumption
  <2>2. Power[n + 1] <= (t + 1) + 1
    BY <1>7, <2>1, WaitingFew
  <2>3. Len(leaves) + 1 < Power[MaxDepth + 1]
    BY <1>2 DEF Merklizable
  <2>4. MaxDepth + 1 <= n + 1 => Power[MaxDepth + 1] <= Power[n + 1]
    BY <2>1, PowerGrows
  <2>5. PICK p \in Nat, q \in Nat : p = Power[n + 1] /\ q = Power[MaxDepth + 1]
    BY <2>1, PowerFacts
  <2>6. p < q
    BY <1>2, <2>2, <2>3, <2>5
  <2>7. ~(MaxDepth + 1 <= n + 1)
    BY <2>4, <2>5, <2>6
  <2> QED
    BY <2>1, <2>7, MerklizeAssumption
<1>9. n + 1 \in Nat /\ n + 1 # 0 /\ (n + 1) - 1 = n
  OBVIOUS
<1>10. stack' # <<>> /\ Top' = c
  <2>1. stack' # <<>>
    BY <1>6, <1>9
  <2> QED
    BY <1>6, <2>1 DEF Top
<1>11. PassTypeInv'
  <2>1. taken \in 0..Len(leaves)
    BY DEF MerkleInv, PassTypeInv
  <2> QED
    BY <1>2, <1>5, <1>6, <1>8, <2>1 DEF PassTypeInv
<1>12. IdleInv'
  BY <1>2, <1>5 DEF IdleInv
<1>13. BetweenInv'
  BY <1>2, <1>5, <1>6, <1>7 DEF BetweenInv
<1>14. DrainInv'
  <2>1. Waiting(leaves, stack', n, t, l)
    BY <1>2, <1>6, WaitingSame
  <2>2. Complete(leaves, c, t)
    BY <1>2 DEF Complete
  <2>3. Complete(leaves, Top, taken - 1)'
    BY <1>2, <1>5, <1>10, <2>2
  <2>4. Waiting(leaves, stack, Len(stack) - 1, taken - 1, Top.level)'
    BY <1>2, <1>5, <1>6, <1>9, <1>10, <2>1
  <2> QED
    BY <1>10, <2>3, <2>4 DEF DrainInv
<1>15. CarryInv' /\ RootInv'
  BY <1>2, <1>5 DEF CarryInv, RootInv
<1> QED
  BY <1>11, <1>12, <1>13, <1>14, <1>15 DEF MerkleInv

\* What the top of the stack says of the rest, once all scalars are read.
LEMMA AtTheEnd ==
    ASSUME MerkleInv, carry = <<>>, taken = Len(leaves), leaves # <<>>
    PROVE  \E t \in Nat, l \in 0..Len(leaves), m \in Nat :
              /\ t = Len(leaves) - 1 /\ taken - 1 = t /\ t < Len(leaves) /\ l \in Nat
              /\ leaves \in Seq(Scalar) /\ stack \in Seq(Entry(leaves)) /\ stack # <<>>
              /\ Len(leaves) \in Nat
              /\ Len(stack) = m + 1 /\ m = Len(stack) - 1 /\ m + 1 <= MaxDepth
              /\ Merklizable(Len(leaves))
              /\ stack[m + 1].level = l
              /\ stack[m + 1].hash = Levels(leaves)[l][Halves(t)[l] + 1]
              /\ Waiting(leaves, stack, m, t, l)
<1>1. leaves \in Seq(Scalar) /\ stack \in Seq(Entry(leaves)) /\ Len(stack) <= MaxDepth
  BY DEF MerkleInv, PassTypeInv
<1>2. /\ stack # <<>>
      /\ Complete(leaves, stack[Len(stack)], taken - 1)
      /\ Waiting(leaves, stack, Len(stack) - 1, taken - 1, stack[Len(stack)].level)
  BY DEF MerkleInv, DrainInv, Top
<1>3. Merklizable(Len(leaves))
  BY DEF MerkleInv, IdleInv
<1>4. Len(leaves) \in Nat /\ Len(leaves) # 0
  BY <1>1
<1>5. PICK t \in Nat : t = Len(leaves) - 1 /\ taken - 1 = t /\ t < Len(leaves)
  <2>1. PICK n \in Nat : n = Len(leaves) /\ n = taken /\ n # 0
    BY <1>4
  <2>2. n - 1 \in Nat /\ n - 1 < n
    BY <2>1
  <2> QED
    BY <2>1, <2>2
<1>6. Len(stack) \in Nat /\ Len(stack) # 0
  BY <1>1, <1>2
<1>7. PICK m \in Nat : m = Len(stack) - 1 /\ Len(stack) = m + 1 /\ m + 1 <= MaxDepth
  BY <1>1, <1>6
<1>8. PICK l \in 0..Len(leaves) : stack[m + 1].level = l /\ l \in Nat
  BY <1>2, <1>7 DEF Complete
<1> QED
  BY <1>1, <1>2, <1>3, <1>4, <1>5, <1>7, <1>8 DEF Complete

\* The drain: the top is replaced by the node e above it, which leaves m subtrees.
LEMMA DrainStep ==
    ASSUME MerkleInv, NEW t \in Nat, NEW m \in Nat, NEW l \in 0..Len(leaves), NEW e,
           carry = <<>>, taken = Len(leaves), leaves # <<>>, taken - 1 = t,
           m + 1 <= MaxDepth, Merklizable(Len(leaves)), leaves \in Seq(Scalar),
           e \in Entry(leaves), Complete(leaves, e, t), e.level = l,
           Waiting(leaves, stack, m, t, l),
           NEW rest, rest \in Seq(Entry(leaves)), Len(rest) = m,
           \A i \in 1..m : rest[i] = stack[i],
           stack' = rest \o <<e>>, UNCHANGED <<leaves, taken, carry, root>>
    PROVE  MerkleInv'
<1>1. /\ stack' \in Seq(Entry(leaves)) /\ Len(stack') = m + 1
      /\ \A i \in 1..m : stack'[i] = rest[i]
      /\ stack'[m + 1] = e
  <2>1. PICK E : E = Entry(leaves) /\ rest \in Seq(E) /\ e \in E
    OBVIOUS
  <2>2. /\ rest \o <<e>> \in Seq(E) /\ Len(rest \o <<e>>) = Len(rest) + 1
        /\ \A i \in 1..Len(rest) : (rest \o <<e>>)[i] = rest[i]
        /\ (rest \o <<e>>)[Len(rest) + 1] = e
    BY <2>1, PushFacts
  <2> QED
    BY <2>1, <2>2
<1>2. \A i \in 1..m : stack'[i] = stack[i]
  BY <1>1
<1>3. m + 1 # 0 /\ (m + 1) - 1 = m /\ m + 1 \in Nat
  OBVIOUS
<1>4. stack' # <<>> /\ Top' = e
  <2>1. stack' # <<>>
    BY <1>1, <1>3
  <2> QED
    BY <1>1, <2>1 DEF Top
<1>5. Waiting(leaves, stack', m, t, l)
  BY <1>2, WaitingSame
<1>6. PassTypeInv'
  <2>1. taken \in 0..Len(leaves)
    BY DEF MerkleInv, PassTypeInv
  <2> QED
    BY <1>1, <2>1 DEF PassTypeInv
<1>7. DrainInv'
  <2>1. Complete(leaves, Top, taken - 1)'
    BY <1>4
  <2>2. Waiting(leaves, stack, Len(stack) - 1, taken - 1, Top.level)'
    BY <1>1, <1>3, <1>4, <1>5
  <2> QED
    BY <1>4, <2>1, <2>2 DEF DrainInv
<1>8. IdleInv' /\ CarryInv'
  BY DEF IdleInv, CarryInv
<1>9. BetweenInv'
  <2>1. Len(leaves) \in Nat
    OBVIOUS
  <2>2. ~(Len(leaves) < Len(leaves))
    BY <2>1
  <2> QED
    BY <2>2 DEF BetweenInv
<1>10. RootInv'
  BY DEF MerkleInv, RootInv
<1> QED
  BY <1>6, <1>7, <1>8, <1>9, <1>10 DEF MerkleInv

LEMMA DrainingNotIdle == ASSUME MerkleInv, Draining PROVE leaves # <<>>
<1>1. SUFFICES ASSUME leaves = <<>> PROVE FALSE
  OBVIOUS
<1>2. stack = <<>>
  BY <1>1 DEF MerkleInv, IdleInv
<1>3. Len(<<>>) = 0
  OBVIOUS
<1> QED
  BY <1>2, <1>3 DEF Draining

LEMMA LiftStep == MerkleInv /\ Lift => MerkleInv'
<1> SUFFICES ASSUME MerkleInv, Lift PROVE MerkleInv'
  OBVIOUS
<1>1. /\ carry = <<>> /\ taken = Len(leaves) /\ leaves # <<>> /\ Len(stack) > 1
      /\ ~(stack[Len(stack)].level >= stack[Len(stack) - 1].level)
      /\ UNCHANGED <<leaves, taken, carry, root>>
  BY DrainingNotIdle DEF Lift, Draining, Level, Top, Below
<1>2. PICK t \in Nat, l \in 0..Len(leaves), m \in Nat :
              /\ t = Len(leaves) - 1 /\ taken - 1 = t /\ t < Len(leaves) /\ l \in Nat
              /\ leaves \in Seq(Scalar) /\ stack \in Seq(Entry(leaves)) /\ stack # <<>>
              /\ Len(leaves) \in Nat
              /\ Len(stack) = m + 1 /\ m = Len(stack) - 1 /\ m + 1 <= MaxDepth
              /\ Merklizable(Len(leaves))
              /\ stack[m + 1].level = l
              /\ stack[m + 1].hash = Levels(leaves)[l][Halves(t)[l] + 1]
              /\ Waiting(leaves, stack, m, t, l)
  BY <1>1, AtTheEnd
<1>3. m \in 1..m /\ m >= 1
  BY <1>1, <1>2
<1>4. PICK k \in Nat : k = stack[m].level /\ Odd(Halves(t)[k]) /\ k > l
  <2>1. stack[m].level \in Nat /\ Odd(Halves(t)[stack[m].level])
    BY <1>2, <1>3 DEF Waiting
  <2>2. ~(l >= stack[m].level)
    BY <1>1, <1>2
  <2> QED
    BY <1>2, <2>1, <2>2
<1>5. ~Odd(Halves(t)[l])
  <2>1. stack[m].level # l
    BY <1>4
  <2> QED
    BY <1>2, <2>1, WaitingLast
<1>6. Waiting(leaves, stack, m, t, l + 1)
  BY <1>2, <1>5, WaitingAbove
<1> DEFINE hash == Node(stack[m + 1].hash, stack[m + 1].hash)
           e == Subtree(hash, l + 1)
<1>7. l + 1 \in 0..Len(leaves) /\ hash = Levels(leaves)[l + 1][Halves(t)[l + 1] + 1]
  BY <1>1, <1>2, <1>4, <1>5, Lifted
<1>8. e \in Entry(leaves) /\ Complete(leaves, e, t) /\ e.level = l + 1
  <2> HIDE DEF hash
  <2> QED
    BY <1>2, <1>7, CompleteIsEntry
<1>9. stack' = Front(stack) \o <<e>>
  BY <1>2 DEF Lift, Top
<1> HIDE DEF e, hash
<1>10. /\ Front(stack) \in Seq(Entry(leaves)) /\ Len(Front(stack)) = m
       /\ \A i \in 1..m : Front(stack)[i] = stack[i]
  <2>1. PICK E : E = Entry(leaves) /\ stack \in Seq(E)
    BY <1>2
  <2>2. /\ Front(stack) \in Seq(E) /\ Len(Front(stack)) = Len(stack) - 1
        /\ \A i \in 1..(Len(stack) - 1) : Front(stack)[i] = stack[i]
    BY <1>2, <2>1, PopFacts
  <2> QED
    BY <1>2, <2>1, <2>2
<1>11. m + 1 <= MaxDepth /\ Merklizable(Len(leaves)) /\ leaves \in Seq(Scalar) /\ taken - 1 = t
  BY <1>2
<1> QED
  BY <1>1, <1>6, <1>7, <1>8, <1>9, <1>10, <1>11, DrainStep

LEMMA JoinStep == MerkleInv /\ Join => MerkleInv'
<1> SUFFICES ASSUME MerkleInv, Join PROVE MerkleInv'
  OBVIOUS
<1>1. /\ carry = <<>> /\ taken = Len(leaves) /\ leaves # <<>> /\ Len(stack) > 1
      /\ stack[Len(stack)].level >= stack[Len(stack) - 1].level
      /\ UNCHANGED <<leaves, taken, carry, root>>
  BY DrainingNotIdle DEF Join, Draining, Level, Top, Below
<1>2. PICK t \in Nat, l \in 0..Len(leaves), n \in Nat :
              /\ t = Len(leaves) - 1 /\ taken - 1 = t /\ t < Len(leaves) /\ l \in Nat
              /\ leaves \in Seq(Scalar) /\ stack \in Seq(Entry(leaves)) /\ stack # <<>>
              /\ Len(leaves) \in Nat
              /\ Len(stack) = n + 1 /\ n = Len(stack) - 1 /\ n + 1 <= MaxDepth
              /\ Merklizable(Len(leaves))
              /\ stack[n + 1].level = l
              /\ stack[n + 1].hash = Levels(leaves)[l][Halves(t)[l] + 1]
              /\ Waiting(leaves, stack, n, t, l)
  BY <1>1, AtTheEnd
<1>3. PICK m \in Nat : n = m + 1 /\ m = n - 1 /\ n \in 1..n /\ n >= 1
  <2>1. n \in 1..n /\ n >= 1
    BY <1>1, <1>2
  <2>2. n - 1 \in Nat /\ n = (n - 1) + 1
    BY <2>1
  <2> QED
    BY <2>1, <2>2
<1>4. stack[n].level = l
  <2>1. stack[n].level \in Nat /\ stack[n].level >= l
    BY <1>2, <1>3 DEF Waiting
  <2>2. l >= stack[n].level
    BY <1>1, <1>2
  <2> QED
    BY <1>2, <2>1, <2>2
<1>5. Odd(Halves(t)[l])
  BY <1>2, <1>3, <1>4, WaitingLast
<1>6. stack[n].hash = Levels(leaves)[l][Halves(t)[l]]
  BY <1>2, <1>3, <1>4 DEF Waiting
<1>7. Waiting(leaves, stack, m, t, l + 1)
  BY <1>2, <1>3, <1>5, WaitingBelow
<1> DEFINE hash == Node(stack[n].hash, stack[n + 1].hash)
           e == Subtree(hash, l + 1)
<1>8. l + 1 \in 0..Len(leaves) /\ hash = Levels(leaves)[l + 1][Halves(t)[l + 1] + 1]
  BY <1>1, <1>2, <1>5, <1>6, Joined
<1>9. e \in Entry(leaves) /\ Complete(leaves, e, t) /\ e.level = l + 1
  <2> HIDE DEF hash
  <2> QED
    BY <1>2, <1>8, CompleteIsEntry
<1>10. stack' = Front(Front(stack)) \o <<e>>
  BY <1>2 DEF Join, Top, Below
<1> HIDE DEF e, hash
<1>11. /\ Front(Front(stack)) \in Seq(Entry(leaves)) /\ Len(Front(Front(stack))) = m
       /\ \A i \in 1..m : Front(Front(stack))[i] = stack[i]
  <2>1. PICK E : E = Entry(leaves) /\ stack \in Seq(E)
    BY <1>2
  <2>2. /\ Front(stack) \in Seq(E) /\ Len(Front(stack)) = n
        /\ \A i \in 1..n : Front(stack)[i] = stack[i]
    BY <1>2, <2>1, PopFacts
  <2>3. Front(stack) # <<>>
    BY <1>3, <2>2
  <2>4. /\ Front(Front(stack)) \in Seq(E) /\ Len(Front(Front(stack))) = Len(Front(stack)) - 1
        /\ \A i \in 1..(Len(Front(stack)) - 1) : Front(Front(stack))[i] = Front(stack)[i]
    BY <2>2, <2>3, PopFacts
  <2>5. \A i \in 1..m : i \in 1..n
    BY <1>3
  <2>6. Len(Front(Front(stack))) = m /\ \A i \in 1..m : Front(Front(stack))[i] = Front(stack)[i]
    BY <1>3, <2>2, <2>4
  <2>7. \A i \in 1..m : Front(Front(stack))[i] = stack[i]
    BY <2>2, <2>5, <2>6
  <2> QED
    BY <2>1, <2>4, <2>6, <2>7
<1>12. /\ m + 1 <= MaxDepth /\ Merklizable(Len(leaves)) /\ leaves \in Seq(Scalar)
       /\ taken - 1 = t
  BY <1>2, <1>3, MerklizeAssumption
<1> QED
  BY <1>1, <1>7, <1>8, <1>9, <1>10, <1>11, <1>12, DrainStep

LEMMA FinishStep == MerkleInv /\ Finish => MerkleInv'
<1> SUFFICES ASSUME MerkleInv, Finish PROVE MerkleInv'
  OBVIOUS
<1>1. /\ carry = <<>> /\ taken = Len(leaves) /\ Len(stack) = 1
      /\ root' = stack[1].hash /\ UNCHANGED <<leaves, taken, carry, stack>>
  BY DEF Finish
<1>2. leaves # <<>>
  <2>1. Len(<<>>) = 0
    OBVIOUS
  <2> QED
    BY <1>1, <2>1 DEF MerkleInv, IdleInv
<1>3. PICK t \in Nat, l \in 0..Len(leaves), m \in Nat :
              /\ t = Len(leaves) - 1 /\ taken - 1 = t /\ t < Len(leaves) /\ l \in Nat
              /\ leaves \in Seq(Scalar) /\ stack \in Seq(Entry(leaves)) /\ stack # <<>>
              /\ Len(leaves) \in Nat
              /\ Len(stack) = m + 1 /\ m = Len(stack) - 1 /\ m + 1 <= MaxDepth
              /\ Merklizable(Len(leaves))
              /\ stack[m + 1].level = l
              /\ stack[m + 1].hash = Levels(leaves)[l][Halves(t)[l] + 1]
              /\ Waiting(leaves, stack, m, t, l)
  BY <1>1, <1>2, AtTheEnd
<1>4. m = 0 /\ m + 1 = 1 /\ 1..m = {}
  BY <1>1, <1>3
<1>5. Halves(t)[l] = 0
  <2>1. \A k \in Nat : k >= l => ~Odd(Halves(t)[k])
    BY <1>3, <1>4 DEF Waiting
  <2>2. Halves(t)[l] \in Nat
    BY <1>3, HalvesFacts
  <2>3. ~(Halves(t)[l] >= 1)
    BY <1>3, <2>1, HalvesOdd
  <2> QED
    BY <2>2, <2>3
<1>6. Len(Levels(leaves)[l]) = 1
  <2>1. Len(Levels(leaves)[l]) = Halves(Len(leaves) - 1)[l] + 1
    BY <1>2, <1>3, LevelLengths
  <2> QED
    BY <1>3, <1>5, <2>1
<1>7. root' = RootOf(leaves)
  <2>1. RootOf(leaves) = Levels(leaves)[l][1]
    BY <1>2, <1>3, <1>6, RootReached
  <2>2. stack[1].hash = Levels(leaves)[l][0 + 1]
    BY <1>3, <1>4, <1>5
  <2> QED
    BY <1>1, <2>1, <2>2
<1>8. PassTypeInv' /\ IdleInv' /\ DrainInv'
  BY <1>1, <1>2 DEF MerkleInv, PassTypeInv, IdleInv, DrainInv, Top
<1>9. RootInv'
  BY <1>1, <1>7 DEF RootInv
<1>10. CarryInv' /\ BetweenInv'
  <2>1. ~(Len(leaves) < Len(leaves))
    BY <1>3
  <2> QED
    BY <1>1, <2>1 DEF CarryInv, BetweenInv
<1> QED
  BY <1>8, <1>9, <1>10 DEF MerkleInv

-----------------------------------------------------------------------------
\* The digits of a checksum tell it: neither the u16 nor its two bytes lose a bit.
Left(digest) == [i \in 1..N |-> End - digest[i]]
SumLeft(digest) == SumFunctionOnSet(Left(digest), 1..N)

LEMMA BaseFacts ==
    /\ N \in Nat \ {0} /\ Base \in Nat \ {0, 1} /\ Word \in Nat /\ End \in Nat
    /\ N * End < Word /\ N * End < Base * Base /\ IsFiniteSet(1..N)
    /\ NoDigest \notin Digest
<1>1. /\ N \in Nat \ {0} /\ Base \in Nat \ {0, 1} /\ Word \in Nat
      /\ N * End < Word /\ N * End < Base * Base
  BY WinternitzAssumption DEF End
<1>2. End \in Nat
  BY <1>1 DEF End
<1>3. IsFiniteSet(1..N)
  BY <1>1, FS_Interval
<1>4. NoDigest \notin Digest
  <2>1. SUFFICES ASSUME <<>> \in Digest PROVE FALSE
    BY DEF NoDigest
  <2>2. DOMAIN <<>> = 1..N
    BY <2>1 DEF Digest
  <2>3. 1 \in 1..N
    BY <1>1
  <2>4. Len(<<>>) = 0 /\ DOMAIN <<>> = 1..0 /\ 1 \notin 1..0
    OBVIOUS
  <2> QED
    BY <2>2, <2>3, <2>4
<1> QED
  BY <1>1, <1>2, <1>3, <1>4

LEMMA ChecksumFacts ==
    ASSUME NEW d \in Digest
    PROVE  /\ \A i \in 1..N : d[i] \in 0..End /\ Left(d)[i] = End - d[i] /\ Left(d)[i] \in 0..End
           /\ Checksum(d) = SumLeft(d)
           /\ Checksum(d) \in Nat /\ Checksum(d) < Base * Base
<1>1. \A i \in 1..N : d[i] \in 0..End /\ Left(d)[i] = End - d[i]
  BY DEF Left, Digest, Digit
<1>2. \A i \in 1..N : Left(d)[i] \in 0..End /\ Left(d)[i] \in Nat
  BY <1>1, BaseFacts
<1>3. SumLeft(d) \in Nat /\ SumLeft(d) <= N * End
  <2>1. SumLeft(d) <= N * End
    BY <1>2, BaseFacts, SumAtMost DEF SumLeft
  <2>2. SumLeft(d) \in Nat
    BY <1>2, BaseFacts, SumNat DEF SumLeft
  <2> QED
    BY <2>1, <2>2
<1>4. PICK c \in Nat, top \in Nat, square \in Nat :
        c = SumLeft(d) /\ top = N * End /\ square = Base * Base
  BY <1>3, BaseFacts
<1>5. c <= top /\ top < Word /\ top < square
  BY <1>3, <1>4, BaseFacts
<1>6. c % Word = c
  BY <1>5, BaseFacts
<1>7. Checksum(d) = c % Word
  <2>1. DOMAIN Left(d) = 1..N
    BY DEF Left
  <2> QED
    BY <1>4, <2>1 DEF Checksum, SumLeft, SumFunction, Left
<1> QED
  BY <1>1, <1>2, <1>4, <1>5, <1>6, <1>7

\* The two digits of a number.
LEMMA TwoDigits ==
    ASSUME NEW c \in Nat, c < Base * Base
    PROVE  /\ c \div Base \in 0..End /\ c % Base \in 0..End
           /\ (c \div Base) % Base = c \div Base
           /\ c = (c \div Base) * Base + (c % Base)
<1>1. Base \in Nat \ {0} /\ End = Base - 1
  BY BaseFacts DEF End
<1>2. c % Base \in 0..End
  BY <1>1
<1>3. PICK q \in Nat, r \in Nat : q = c \div Base /\ r = c % Base /\ c = Base * q + r
  BY <1>1
<1>4. q < Base
  <2>1. SUFFICES ASSUME q >= Base PROVE FALSE
    BY <1>1
  <2>2. PICK x \in Nat : q = Base + x
    <3>1. q - Base \in Nat /\ q = Base + (q - Base)
      BY <1>1, <2>1
    <3> QED
      BY <3>1
  <2>3. Base * q = Base * Base + Base * x /\ Base * x \in Nat
    BY <1>1, <2>2
  <2> QED
    BY <1>1, <1>3, <2>3
<1>5. q % Base = q /\ q \in 0..End
  BY <1>1, <1>4
<1>6. Base * q = q * Base
  BY <1>1
<1> QED
  BY <1>2, <1>3, <1>5, <1>6

LEMMA StepsFacts ==
    ASSUME NEW d \in Digest
    PROVE  /\ \A s \in Slot : Steps(d)[s] \in 0..End
           /\ \A i \in 1..N : i \in Slot /\ Steps(d)[i] = d[i]
           /\ N + 1 \in Slot /\ N + 2 \in Slot
           /\ Steps(d)[N + 1] \in Nat /\ Steps(d)[N + 2] \in Nat
           /\ Checksum(d) = Steps(d)[N + 1] * Base + Steps(d)[N + 2]
<1>1. N \in Nat
  BY BaseFacts
<1>2. PICK c \in Nat : c = Checksum(d) /\ c < Base * Base
  BY ChecksumFacts
<1>3. PICK hi, lo : hi = c \div Base /\ lo = c % Base
  OBVIOUS
<1>4. hi \in 0..End /\ lo \in 0..End /\ hi % Base = hi /\ c = hi * Base + lo
  BY <1>2, <1>3, TwoDigits
<1>5. Steps(d) = [s \in Slot |-> IF s <= N THEN d[s] ELSE IF s = N + 1 THEN hi ELSE lo]
  BY <1>2, <1>3, <1>4 DEF Steps
<1>6. N + 1 \in Slot /\ N + 2 \in Slot /\ \A i \in 1..N : i \in Slot /\ i <= N
  BY <1>1 DEF Slot
<1>7. ~(N + 1 <= N) /\ ~(N + 2 <= N) /\ N + 2 # N + 1
  BY <1>1
<1>8. Steps(d)[N + 1] = hi /\ Steps(d)[N + 2] = lo /\ \A i \in 1..N : Steps(d)[i] = d[i]
  BY <1>5, <1>6, <1>7
<1>9. ASSUME NEW s \in Slot PROVE Steps(d)[s] \in 0..End
  <2>1. CASE s <= N
    <3>1. s \in 1..N
      BY <1>1, <2>1 DEF Slot
    <3> QED
      BY <1>8, <3>1, ChecksumFacts
  <2>2. CASE ~(s <= N)
    BY <1>4, <1>5, <2>2
  <2> QED
    BY <2>1, <2>2
<1>10. hi \in Nat /\ lo \in Nat
  BY <1>4
<1> QED
  BY <1>2, <1>4, <1>6, <1>8, <1>9, <1>10

\* A signature cannot be hashed forward into one of another digest.
LEMMA NoOtherDigest ==
    ASSUME NEW d \in Digest, NEW e \in Digest, \A s \in Slot : Steps(d)[s] <= Steps(e)[s]
    PROVE  e = d
<1>1. \A i \in 1..N : d[i] \in 0..End /\ e[i] \in 0..End /\ d[i] <= e[i]
  BY StepsFacts, ChecksumFacts
<1>2. \A i \in 1..N : /\ Left(e)[i] \in Int /\ Left(d)[i] \in Int /\ Left(e)[i] <= Left(d)[i]
                      /\ Left(e)[i] = End - e[i] /\ Left(d)[i] = End - d[i]
  BY <1>1, BaseFacts, ChecksumFacts
<1>10. PICK f, g : f = Left(e) /\ g = Left(d)
  OBVIOUS
<1>11. \A i \in 1..N : f[i] \in Int /\ g[i] \in Int /\ f[i] <= g[i]
  BY <1>2, <1>10
<1>12. PICK S : S = 1..N /\ IsFiniteSet(S)
  BY BaseFacts, Zenon
<1>14. Bounded(f, g, S)
  BY <1>11, <1>12, Zenon DEF Bounded
<1>15. /\ SumFunctionOnSet(f, S) <= SumFunctionOnSet(g, S)
       /\ SumsEqual(f, g, S) => \A i \in S : f[i] = g[i]
  BY <1>14, SumBounded
<1>13. /\ SumFunctionOnSet(f, 1..N) <= SumFunctionOnSet(g, 1..N)
       /\ SumsEqual(f, g, 1..N) => \A i \in 1..N : f[i] = g[i]
  BY <1>12, <1>15, Zenon
<1>3. SumLeft(e) = SumLeft(d) => \A i \in 1..N : Left(e)[i] = Left(d)[i]
  BY <1>10, <1>13 DEF SumLeft, SumsEqual
<1>4. SumLeft(e) <= SumLeft(d)
  BY <1>10, <1>13 DEF SumLeft
<1>5. SumLeft(d) <= SumLeft(e)
  <2>1. PICK h \in Nat, l \in Nat : h = Steps(d)[N + 1] /\ l = Steps(d)[N + 2]
                                    /\ SumLeft(d) = h * Base + l
    BY StepsFacts, ChecksumFacts
  <2>2. PICK i \in Nat, k \in Nat : i = Steps(e)[N + 1] /\ k = Steps(e)[N + 2]
                                    /\ SumLeft(e) = i * Base + k
    BY StepsFacts, ChecksumFacts
  <2>3. h <= i /\ l <= k
    BY <2>1, <2>2, StepsFacts
  <2>4. PICK x \in Nat : i = h + x
    <3>1. i - h \in Nat /\ i = h + (i - h)
      BY <2>3
    <3> QED
      BY <3>1
  <2>5. i * Base = h * Base + x * Base /\ x * Base \in Nat /\ h * Base \in Nat
    BY <2>4, BaseFacts
  <2>6. h * Base + l <= i * Base + k
    BY <2>3, <2>5
  <2> QED
    BY <2>1, <2>2, <2>6
<1>6. SumLeft(e) = SumLeft(d)
  <2>1. SumLeft(d) \in Nat /\ SumLeft(e) \in Nat
    BY ChecksumFacts
  <2> QED
    BY <1>4, <1>5, <2>1
<1>7. \A i \in 1..N : e[i] = d[i]
  <2>1. \A i \in 1..N : End - e[i] = End - d[i]
    BY <1>2, <1>3, <1>6
  <2> QED
    BY <1>1, <2>1, BaseFacts
<1>8. e = [i \in 1..N |-> e[i]] /\ d = [i \in 1..N |-> d[i]]
  BY DEF Digest
<1>9. [i \in 1..N |-> e[i]] = [i \in 1..N |-> d[i]]
  BY <1>7
<1> QED
  BY <1>8, <1>9

\* The scalars of a key, as a list to merklize.
LEMMA ScalarsFacts ==
    ASSUME NEW h \in [Slot -> Int]
    PROVE  /\ Scalars(h) \in Seq(Scalar) /\ Len(Scalars(h)) = N + 2 /\ Scalars(h) # <<>>
           /\ \A s \in Slot : Scalars(h)[s] = <<s, h[s]>>
<1>1. N + 2 \in Nat /\ N + 2 # 0
  BY BaseFacts
<1>2. \A s \in Slot : Scalars(h)[s] = <<s, h[s]>> /\ <<s, h[s]>> \in Scalar
  BY DEF Scalars, Scalar
<1>3. Scalars(h) = [s \in 1..(N + 2) |-> Scalars(h)[s]]
  BY DEF Scalars, Slot
<1>4. Scalars(h) \in [1..(N + 2) -> Scalar]
  BY <1>2, <1>3 DEF Slot
<1>5. Scalars(h) \in Seq(Scalar) /\ Len(Scalars(h)) = N + 2
  BY <1>1, <1>4
<1>6. Len(<<>>) = 0
  OBVIOUS
<1> QED
  BY <1>1, <1>2, <1>5, <1>6

-----------------------------------------------------------------------------
\* Who signed what, and what came of it.
SignedInv ==
    /\ signed \in Digest \cup {NoDigest} /\ checked \in Digest \cup {NoDigest}
    /\ heights \in [Slot -> Int]
    /\ signed # NoDigest => \A s \in Slot : Steps(signed)[s] <= heights[s]
    /\ signed = NoDigest => checked = NoDigest /\ verdict = "none"
    /\ checked # NoDigest /\ leaves # <<>> => leaves = Scalars(Recovered(heights, checked))
    /\ OnlySignedDigest

FullInv == MerkleInv /\ SignedInv

\* The verdict is the right one.
LEMMA VerdictIsRight ==
    ASSUME NEW d \in Digest, NEW e \in Digest, NEW h \in [Slot -> Int],
           \A s \in Slot : Steps(d)[s] <= h[s]
    PROVE  /\ RootOf(Scalars(Recovered(h, e))) = PublicRoot => e = d
           /\ e = d /\ h = Steps(d) => RootOf(Scalars(Recovered(h, e))) = PublicRoot
<1> DEFINE full == [s \in Slot |-> End]
           out == Recovered(h, e)
<1>1. full \in [Slot -> Int] /\ \A s \in Slot : full[s] = End
  BY BaseFacts
<1>2. /\ out \in [Slot -> Int]
      /\ \A s \in Slot : out[s] = h[s] + (End - Steps(e)[s]) /\ h[s] \in Int
                         /\ Steps(e)[s] \in Int
  <2>1. \A s \in Slot : Steps(e)[s] \in Int /\ h[s] \in Int
    BY StepsFacts
  <2>2. \A s \in Slot : h[s] + (End - Steps(e)[s]) \in Int
    BY <2>1, BaseFacts
  <2> QED
    BY <2>1, <2>2 DEF Recovered
<1>3. PublicRoot = RootOf(Scalars(full))
  BY DEF PublicRoot
<1> HIDE DEF full, out
<1>4. ASSUME RootOf(Scalars(out)) = PublicRoot PROVE e = d
  <2>1. /\ Scalars(full) \in Seq(Scalar) /\ Len(Scalars(full)) = N + 2 /\ Scalars(full) # <<>>
        /\ Scalars(out) \in Seq(Scalar) /\ Len(Scalars(out)) = N + 2
    BY <1>1, <1>2, ScalarsFacts
  <2>2. PICK a \in Seq(Scalar), b \in Seq(Scalar) :
          a = Scalars(full) /\ b = Scalars(out) /\ a # <<>> /\ Len(b) = Len(a)
          /\ RootOf(b) = RootOf(a)
    BY <1>3, <1>4, <2>1
  <2>3. b = a
    BY <2>2, RootsDiffer
  <2>4. ASSUME NEW s \in Slot PROVE Steps(d)[s] <= Steps(e)[s]
    <3>1. Scalars(out)[s] = <<s, out[s]>> /\ Scalars(full)[s] = <<s, full[s]>>
      BY <1>1, <1>2, ScalarsFacts
    <3>2. out[s] = full[s]
      BY <2>2, <2>3, <3>1
    <3>3. h[s] = Steps(e)[s]
      BY <1>1, <1>2, <3>2, BaseFacts
    <3> QED
      BY <3>3
  <2> QED
    BY <2>4, NoOtherDigest
<1>5. ASSUME e = d, h = Steps(d) PROVE RootOf(Scalars(out)) = PublicRoot
  <2>1. \A s \in Slot : out[s] = full[s]
    BY <1>1, <1>2, <1>5, BaseFacts
  <2>2. out = [s \in Slot |-> out[s]] /\ full = [s \in Slot |-> full[s]]
    BY <1>1, <1>2
  <2>3. [s \in Slot |-> out[s]] = [s \in Slot |-> full[s]]
    BY <2>1
  <2>4. out = full
    BY <2>2, <2>3
  <2> QED
    BY <1>3, <2>4
<1> QED
  BY <1>4, <1>5 DEF out

LEMMA MerklizeKeeps ==
    ASSUME FullInv, Merklize, UNCHANGED <<signed, heights, checked, verdict>>
    PROVE  FullInv'
<1>1. MerkleInv'
  BY TakeStep, CombineStep, PushStep, LiftStep, JoinStep, FinishStep DEF FullInv, Merklize
<1>2. leaves' = leaves
  BY DEF Merklize, Take, Combine, Push, Lift, Join, Finish
<1>3. SignedInv'
  BY <1>2 DEF FullInv, SignedInv, OnlySignedDigest
<1> QED
  BY <1>1, <1>3 DEF FullInv

\* A key is about to be merklized, or none is.
NothingRead == taken = 0 /\ carry = <<>> /\ stack = <<>> /\ root = <<>>
Starting == leaves \in Seq(Scalar) /\ leaves # <<>> /\ Merklizable(Len(leaves)) /\ NothingRead
Resting == leaves = <<>> /\ NothingRead

LEMMA MerkleStarts == Starting => MerkleInv
<1> SUFFICES ASSUME Starting PROVE MerkleInv
  OBVIOUS
<1> USE DEF Starting, NothingRead
<1>1. Len(leaves) \in Nat /\ Len(leaves) # 0 /\ 0 \in 0..Len(leaves)
  OBVIOUS
<1>2. Len(<<>>) = 0 /\ 0 <= MaxDepth /\ <<>> \in Seq(Entry(leaves))
  BY MerklizeAssumption
<1>3. Waiting(leaves, <<>>, 0, 0, 0)
  BY WaitingNone
<1> QED
  BY <1>1, <1>2, <1>3
     DEF MerkleInv, PassTypeInv, IdleInv, CarryInv, BetweenInv, DrainInv, RootInv

LEMMA MerkleIdle == Resting => MerkleInv
<1> SUFFICES ASSUME Resting PROVE MerkleInv
  OBVIOUS
<1> USE DEF Resting, NothingRead
<1>1. <<>> \in Seq(Scalar) /\ Len(<<>>) = 0 /\ 0 \in 0..0 /\ 0 <= MaxDepth
      /\ <<>> \in Seq(Entry(leaves)) /\ ~(0 < 0)
  BY MerklizeAssumption
<1> QED
  BY <1>1 DEF MerkleInv, PassTypeInv, IdleInv, CarryInv, BetweenInv, DrainInv, RootInv

LEMMA NextStarts == Starting' => MerkleInv'
BY MerkleStarts, PTL

LEMMA NextIdle == Resting' => MerkleInv'
BY MerkleIdle, PTL

LEMMA MerkleUntouched == MerkleInv /\ UNCHANGED merkleVars => MerkleInv'
<1> SUFFICES ASSUME MerkleInv, UNCHANGED merkleVars PROVE MerkleInv'
  OBVIOUS
<1>1. UNCHANGED <<leaves, taken, carry, stack, root>>
  BY DEF merkleVars
<1>2. UNCHANGED Top
  BY <1>1 DEF Top
<1>3. PassTypeInv' /\ IdleInv'
  BY <1>1 DEF MerkleInv, PassTypeInv, IdleInv
<1>4. CarryInv' /\ BetweenInv' /\ RootInv'
  BY <1>1 DEF MerkleInv, CarryInv, BetweenInv, RootInv
<1>5. DrainInv'
  BY <1>1, <1>2 DEF MerkleInv, DrainInv
<1> QED
  BY <1>3, <1>4, <1>5 DEF MerkleInv

LEMMA InitFull == Init => FullInv
<1> SUFFICES ASSUME Init PROVE FullInv
  OBVIOUS
<1>1. SignedInv
  <2>1. [s \in Slot |-> 0] \in [Slot -> Int]
    OBVIOUS
  <2> QED
    BY <2>1 DEF Init, SignedInv, OnlySignedDigest
<1>2. CASE Idle
  BY <1>1, <1>2, MerkleIdle DEF Idle, Merklizing, FullInv, Resting, NothingRead
<1>3. ASSUME NEW n \in Keys, Merklizing([k \in 1..n |-> k]) PROVE FullInv
  <2>1. n \in Nat /\ n # 0 /\ Merklizable(n)
    BY WinternitzAssumption
  <2>2. PICK s : s = [k \in 1..n |-> k]
    OBVIOUS
  <2>3. s \in [1..n -> Scalar]
    BY <2>2 DEF Scalar
  <2>4. s \in Seq(Scalar) /\ Len(s) = n
    BY <2>1, <2>3
  <2>5. Len(<<>>) = 0
    OBVIOUS
  <2>6. leaves = s /\ taken = 0 /\ carry = <<>> /\ stack = <<>> /\ root = <<>>
    BY <1>3, <2>2 DEF Merklizing
  <2>7. MerkleInv
    BY <2>1, <2>4, <2>5, <2>6, MerkleStarts DEF Starting, NothingRead
  <2> QED
    BY <1>1, <2>7 DEF FullInv
<1> QED
  BY <1>2, <1>3 DEF Init

LEMMA SignKeeps == ASSUME FullInv, NEW digest \in Digest, Sign(digest) PROVE FullInv'
<1>1. MerkleInv'
  BY MerkleUntouched DEF FullInv, Sign
<1>2. /\ signed = NoDigest /\ signed' = digest /\ heights' = Steps(digest)
      /\ UNCHANGED <<checked, verdict, leaves>>
  BY DEF Sign, merkleVars
<1>3. checked = NoDigest /\ verdict = "none"
  BY <1>2 DEF FullInv, SignedInv
<1>4. \A s \in Slot : Steps(digest)[s] \in Int /\ Steps(digest)[s] <= Steps(digest)[s]
  BY StepsFacts
<1>5. Steps(digest) \in [Slot -> Int]
  BY <1>4 DEF Steps
<1>6. digest # NoDigest
  BY BaseFacts
<1>7. SignedInv'
  BY <1>2, <1>3, <1>4, <1>5, <1>6 DEF SignedInv, OnlySignedDigest
<1> QED
  BY <1>1, <1>7 DEF FullInv

LEMMA HashKeeps == ASSUME FullInv, NEW s \in Slot, Hash(s) PROVE FullInv'
<1>1. MerkleInv'
  BY MerkleUntouched DEF FullInv, Hash
<1>2. /\ signed # NoDigest /\ heights' = [heights EXCEPT ![s] = @ + 1]
      /\ checked' = NoDigest /\ verdict' = "none" /\ UNCHANGED <<signed, leaves>>
  BY DEF Hash, merkleVars
<1>3. /\ signed \in Digest /\ heights \in [Slot -> Int]
      /\ \A r \in Slot : Steps(signed)[r] <= heights[r]
  BY <1>2 DEF FullInv, SignedInv
<1>4. heights' \in [Slot -> Int]
  BY <1>2, <1>3
<1>5. ASSUME NEW r \in Slot PROVE Steps(signed)[r] <= heights'[r]
  <2>1. Steps(signed)[r] \in Int /\ heights[r] \in Int /\ Steps(signed)[r] <= heights[r]
    BY <1>3, StepsFacts
  <2>2. heights'[r] = heights[r] \/ heights'[r] = heights[r] + 1
    BY <1>2, <1>3
  <2> QED
    BY <2>1, <2>2
<1>6. SignedInv'
  BY <1>2, <1>3, <1>4, <1>5 DEF SignedInv, OnlySignedDigest
<1> QED
  BY <1>1, <1>6 DEF FullInv

LEMMA RecoverKeeps == ASSUME FullInv, NEW digest \in Digest, Recover(digest) PROVE FullInv'
<1>1. /\ signed # NoDigest /\ leaves = <<>>
      /\ leaves' = Scalars(Recovered(heights, digest))
      /\ checked' = digest /\ verdict' = "none"
      /\ UNCHANGED <<signed, heights, taken, carry, stack, root>>
  BY DEF Recover
<1>2. heights \in [Slot -> Int]
  BY DEF FullInv, SignedInv
<1>3. Recovered(heights, digest) \in [Slot -> Int]
  <2>1. \A s \in Slot : Steps(digest)[s] \in Int /\ heights[s] \in Int
    BY <1>2, StepsFacts
  <2>2. \A s \in Slot : heights[s] + (End - Steps(digest)[s]) \in Int
    BY <2>1, BaseFacts
  <2> QED
    BY <2>2 DEF Recovered
<1>4. leaves' \in Seq(Scalar) /\ Len(leaves') = N + 2 /\ leaves' # <<>>
  BY <1>1, <1>3, ScalarsFacts
<1>5. taken = 0 /\ carry = <<>> /\ stack = <<>> /\ root = <<>>
  BY <1>1 DEF FullInv, MerkleInv, IdleInv
<1>6. Merklizable(N + 2)
  BY WinternitzAssumption
<1>7. MerkleInv'
  BY <1>1, <1>4, <1>5, <1>6, NextStarts DEF Starting, NothingRead
<1>8. SignedInv'
  <2>1. /\ signed \in Digest \cup {NoDigest} /\ heights \in [Slot -> Int]
        /\ \A s \in Slot : Steps(signed)[s] <= heights[s]
    BY <1>1 DEF FullInv, SignedInv
  <2>2. digest # NoDigest
    BY BaseFacts
  <2> QED
    BY <1>1, <2>1, <2>2 DEF SignedInv, OnlySignedDigest
<1> QED
  BY <1>7, <1>8 DEF FullInv

LEMMA VerifyKeeps == ASSUME FullInv, Verify PROVE FullInv'
<1>1. /\ checked # NoDigest /\ root # <<>>
      /\ verdict' = IF root = PublicRoot THEN "accepted" ELSE "refused"
      /\ leaves' = <<>> /\ taken' = 0 /\ stack' = <<>> /\ root' = <<>>
      /\ UNCHANGED <<signed, heights, checked, carry>>
  BY DEF Verify
<1>2. root = RootOf(leaves) /\ carry = <<>> /\ leaves # <<>>
  BY <1>1 DEF FullInv, MerkleInv, RootInv, IdleInv
<1>3. /\ signed \in Digest /\ checked \in Digest /\ signed # NoDigest
      /\ heights \in [Slot -> Int] /\ \A s \in Slot : Steps(signed)[s] <= heights[s]
      /\ leaves = Scalars(Recovered(heights, checked))
  BY <1>1, <1>2 DEF FullInv, SignedInv
<1>4. /\ root = PublicRoot => checked = signed
      /\ checked = signed /\ heights = Steps(signed) => root = PublicRoot
  BY <1>2, <1>3, VerdictIsRight
<1>5. MerkleInv'
  BY <1>1, <1>2, NextIdle DEF Resting, NothingRead
<1>6. OnlySignedDigest'
  BY <1>1, <1>4 DEF OnlySignedDigest
<1>7. SignedInv'
  BY <1>1, <1>3, <1>6 DEF SignedInv
<1> QED
  BY <1>5, <1>7 DEF FullInv

LEMMA NextKeepsFull == FullInv /\ [Next]_vars => FullInv'
<1> SUFFICES ASSUME FullInv, [Next]_vars PROVE FullInv'
  OBVIOUS
<1>1. CASE UNCHANGED vars
  <2>1. MerkleInv'
    BY <1>1, MerkleUntouched DEF FullInv, vars
  <2>2. UNCHANGED <<signed, heights, checked, verdict, leaves>>
    BY <1>1 DEF vars, merkleVars
  <2>3. SignedInv'
    BY <2>2 DEF FullInv, SignedInv, OnlySignedDigest
  <2> QED
    BY <2>1, <2>3 DEF FullInv
<1>2. CASE Next
  BY <1>2, SignKeeps, RecoverKeeps, HashKeeps, MerklizeKeeps, VerifyKeeps DEF Next
<1> QED
  BY <1>1, <1>2

LEMMA AlwaysFull == Spec => []FullInv
<1>1. Init => FullInv
  BY InitFull
<1>2. FullInv /\ [Next]_vars => FullInv'
  BY NextKeepsFull
<1> QED
  BY <1>1, <1>2, PTL DEF Spec

\* merklize never writes past its stack of MAX_DEPTH subtrees, for any number of
\* scalars the code compiles for.
THEOREM NoStackOverflow == Spec => []StackFits
<1>1. FullInv => StackFits
  BY DEF FullInv, MerkleInv, PassTypeInv, StackFits
<1> QED
  BY <1>1, AlwaysFull, PTL

\* What merklize returns is the root of the tree of its comment, in which the last
\* node of an odd level is paired with itself.
THEOREM OnePassComputesTree == Spec => []RootAsDocumented
<1>1. FullInv => RootAsDocumented
  BY DEF FullInv, MerkleInv, RootInv, RootAsDocumented
<1> QED
  BY <1>1, AlwaysFull, PTL

\* verify accepts a signature for the digest that was signed and for no other,
\* however often any of its scalars was hashed on the way; untouched, it accepts it.
THEOREM NoDigestButTheSigned == Spec => []OnlySignedDigest
<1>1. FullInv => OnlySignedDigest
  BY DEF FullInv, SignedInv
<1> QED
  BY <1>1, AlwaysFull, PTL
=============================================================================
