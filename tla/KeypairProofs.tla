---------------------------- MODULE KeypairProofs ----------------------------
(***************************************************************************)
(* A position signs once, and so does a key whose indexes are below 2^31,  *)
(* for words of any width: that a key pair is always past the positions it *)
(* signed with is the inductive part.  And a mnemonic is valid exactly     *)
(* when its checksum is, for every length and every digest: a word and its *)
(* bits determine each other, and so do a number and its digits.           *)
(***************************************************************************)
EXTENDS Keypair, FoldFacts

\* Moving to the next child, or to the first one of the next parent, stays inside
\* the words and is a step forward in the order of positions.
LEMMA MovesForward ==
    ASSUME NEW p \in Position, p.wallet = Wallet, ~LastPosition(p)
    PROVE  /\ IncrementChild(p) \in Position
           /\ IncrementChild(p).wallet = Wallet
           /\ Before(p, IncrementChild(p))
BY PositionAssumption, SMT
   DEF LastPosition, IncrementChild, Overflows, At, Position, Index, Before

\* The order of positions is transitive.
LEMMA BeforeTransitive ==
    ASSUME NEW p \in Position, NEW q \in Position, NEW r \in Position,
           Before(p, q), Before(q, r)
    PROVE  Before(p, r)
BY PositionAssumption, SMT DEF Before, Position, Index

\* No position is before itself.
LEMMA BeforeIrreflexive == ASSUME NEW p \in Position PROVE ~Before(p, p)
BY PositionAssumption, SMT DEF Before, Position, Index

Inv == TypeOK /\ Passed /\ PositionOnce

LEMMA InitInv == Init => Inv
<1> SUFFICES ASSUME Init PROVE Inv
  OBVIOUS
<1>1. Wallet \in Index
  BY PositionAssumption DEF Index
<1>2. held \in Position /\ held.wallet = Wallet
  BY <1>1 DEF Init, At, Position
<1> QED
  BY <1>2 DEF Init, Inv, TypeOK, Passed, PositionOnce

LEMMA NextInv == Inv /\ [Next]_vars => Inv'
<1> SUFFICES ASSUME Inv, [Next]_vars PROVE Inv'
  OBVIOUS
<1>0. /\ held \in Position /\ held.wallet = Wallet
      /\ signatures \subseteq [pos : Position, msg : Message]
      /\ panicked \in BOOLEAN
  BY DEF Inv, TypeOK
<1>1. ASSUME NEW m \in Message, SignAndIncrement(m) PROVE Inv'
  <2> DEFINE s == [pos |-> held, msg |-> m]
  <2>1. /\ signatures' = signatures \cup {s}
        /\ held' = IncrementChild(held) /\ panicked' = panicked
        /\ ~LastPosition(held)
    BY <1>1 DEF SignAndIncrement
  <2>2. held' \in Position /\ held'.wallet = Wallet /\ Before(held, held')
    BY <1>0, <2>1, MovesForward
  <2>3. TypeOK'
    BY <1>0, <2>1, <2>2 DEF TypeOK
  <2>4. Passed'
    <3>1. SUFFICES ASSUME NEW t \in signatures' PROVE Before(t.pos, held')
      BY DEF Passed
    <3>2. CASE t = s
      BY <3>2, <2>2
    <3>3. CASE t \in signatures
      <4>1. t.pos \in Position /\ Before(t.pos, held)
        BY <3>3, <1>0 DEF Inv, Passed
      <4> QED
        BY <4>1, <1>0, <2>2, BeforeTransitive
    <3> QED
      BY <3>1, <3>2, <3>3, <2>1
  <2>5. \A t \in signatures : t.pos # held
    BY <1>0, BeforeIrreflexive DEF Inv, Passed
  <2>6. PositionOnce'
    BY <2>1, <2>5 DEF Inv, PositionOnce
  <2> QED
    BY <2>3, <2>4, <2>6 DEF Inv
<1>2. CASE IncrementParent
  <2>1. /\ signatures' = signatures /\ panicked' = panicked
        /\ held' = At(held.parent + 1, 0) /\ ~Overflows(held.parent)
    BY <1>2 DEF IncrementParent
  <2>2. held' \in Position /\ held'.wallet = Wallet /\ Before(held, held')
    BY <1>0, <2>1, PositionAssumption, SMT DEF Overflows, At, Position, Index, Before
  <2>3. Passed'
    <3>1. ASSUME NEW t \in signatures PROVE Before(t.pos, held')
      <4>1. t.pos \in Position /\ Before(t.pos, held)
        BY <1>0 DEF Inv, Passed
      <4> QED
        BY <4>1, <1>0, <2>2, BeforeTransitive
    <3> QED
      BY <3>1, <2>1 DEF Passed
  <2> QED
    BY <1>0, <2>1, <2>2, <2>3 DEF Inv, TypeOK, PositionOnce
<1>3. CASE Panic
  BY <1>3 DEF Panic, Inv, TypeOK, Passed, PositionOnce
<1>4. CASE UNCHANGED vars
  BY <1>4 DEF vars, Inv, TypeOK, Passed, PositionOnce
<1> QED
  BY <1>1, <1>2, <1>3, <1>4 DEF Next

\* The key pair stays on positions of its wallet whose indexes fit their words,
\* through every rollover and up to the overflow of parent.
THEOREM PositionType == Spec => []TypeOK
<1>1. Inv => TypeOK
  BY DEF Inv
<1> QED
  BY <1>1, InitInv, NextInv, PTL DEF Spec

\* A key pair never returns two signatures made at the same position.
THEOREM OnePerPosition == Spec => []PositionOnce
<1>1. Inv => PositionOnce
  BY DEF Inv
<1> QED
  BY <1>1, InitInv, NextInv, PTL DEF Spec

\* Below 2^31 hardening keeps indexes apart, so two positions of a wallet have
\* two keys.
LEMMA LowKeysDistinct ==
    ASSUME NEW p \in Position, NEW q \in Position, Low(p), Low(q), KeyAt(p) = KeyAt(q)
    PROVE  p = q
<1>1. /\ Hardened(p.wallet) = Hardened(q.wallet)
      /\ Hardened(p.parent) = Hardened(q.parent)
      /\ Hardened(p.child) = Hardened(q.child)
  BY DEF KeyAt
<1>2. p.wallet = q.wallet /\ p.parent = q.parent /\ p.child = q.child
  BY <1>1, PositionAssumption, SMT DEF Hardened, Low, Position, Index
<1> QED
  BY <1>2 DEF Position

\* As long as its indexes are below 2^31, no key signs twice.
THEOREM OnePerLowKey == Spec => []KeyOnceBelowHalf
<1>1. Inv => KeyOnceBelowHalf
  <2>1. SUFFICES ASSUME Inv, NEW s1 \in signatures, NEW s2 \in signatures,
                        Low(s1.pos), Low(s2.pos), KeyAt(s1.pos) = KeyAt(s2.pos)
                 PROVE  s1 = s2
    BY DEF KeyOnceBelowHalf
  <2>2. s1.pos \in Position /\ s2.pos \in Position
    BY <2>1 DEF Inv, TypeOK
  <2> QED
    BY <2>1, <2>2, LowKeysDistinct DEF Inv, PositionOnce
<1> QED
  BY <1>1, InitInv, NextInv, PTL DEF Spec

\* The client predicts every move of a key pair, and refuses where it would panic.
THEOREM NextPredicts == Spec => []NextAgrees
<1>1. TypeOK => NextAgrees
  BY PositionAssumption, SMT
     DEF TypeOK, NextAgrees, PositionOverflow, LastPosition, NextPosition, IncrementChild,
         Overflows, At, Position, Index
<1> QED
  BY <1>1, PositionType, PTL

-----------------------------------------------------------------------------
\* Quotient and remainder, from their properties.
LEMMA Quotient ==
    ASSUME NEW a \in Nat, NEW d \in Nat \ {0}, NEW q \in Nat, NEW r \in 0..(d - 1), a = d * q + r
    PROVE  a \div d = q /\ a % d = r
<1>1. PICK x \in Int, y \in 0..(d - 1) : x = a \div d /\ y = a % d /\ a = d * x + y
  <2>1. a % d \in 0..(d - 1) /\ a \div d \in Int
    OBVIOUS
  <2>2. a = d * (a \div d) + (a % d)
    BY Z3
  <2> QED
    BY <2>1, <2>2
<1>2. PICK u \in Int : u = x - q
  OBVIOUS
<1>3. d * u = r - y
  <2>1. d * x = d * q + d * u
    BY <1>2, Z3
  <2>2. PICK m \in Int, n \in Int, k \in Int : m = d * x /\ n = d * q /\ k = d * u
    BY <1>1, <1>2
  <2> QED
    BY <1>1, <2>1, <2>2
<1>4. u = 0
  <2>1. CASE u >= 1
    <3>1. d * u >= d
      BY <2>1, Z3
    <3> QED
      BY <1>3, <3>1
  <2>2. CASE u <= -1
    <3>1. d * u <= -d
      BY <2>2, Z3
    <3> QED
      BY <1>3, <3>1
  <2> QED
    BY <2>1, <2>2
<1>5. x = q
  BY <1>2, <1>4
<1>6. y = r
  BY <1>1, <1>5
<1> QED
  BY <1>1, <1>5, <1>6

LEMMA Division ==
    ASSUME NEW a \in Nat, NEW d \in Nat \ {0}
    PROVE  \E q \in Nat, r \in 0..(d - 1) : q = a \div d /\ r = a % d /\ a = d * q + r
<1>1. a % d \in 0..(d - 1) /\ a \div d \in Int
  OBVIOUS
<1>2. a = d * (a \div d) + (a % d)
  BY Z3
<1>3. a \div d \in Nat
  BY Z3
<1> QED
  BY <1>1, <1>2, <1>3

\* Halving and dividing is dividing by twice as much.
LEMMA DivideTwice ==
    ASSUME NEW a \in Nat, NEW d \in Nat \ {0}
    PROVE  (a \div 2) \div d = a \div (2 * d)
<1>1. PICK h \in Nat, b \in 0..1 : h = a \div 2 /\ a = 2 * h + b
  BY Division
<1>2. PICK q \in Nat, r \in 0..(d - 1) : q = h \div d /\ h = d * q + r
  BY Division
<1>3. PICK e \in Nat \ {0} : e = 2 * d
  OBVIOUS
<1>4. e * q = 2 * (d * q)
  BY <1>3, Z3
<1>5. PICK m \in Nat : m = d * q
  OBVIOUS
<1>6. a = e * q + (2 * r + b)
  BY <1>1, <1>2, <1>4, <1>5
<1>7. 2 * r + b \in 0..(e - 1)
  BY <1>1, <1>2, <1>3
<1>8. PICK s \in 0..(e - 1) : s = 2 * r + b
  BY <1>7
<1>9. a \div e = q
  BY <1>6, <1>8, Quotient
<1> QED
  BY <1>1, <1>2, <1>3, <1>9

-----------------------------------------------------------------------------
\* The recursion behind Values, and its solution.
LEMMA ValuesFacts ==
    /\ Values[0] = 1
    /\ \A n \in Nat : Values[n] \in Nat \ {0} /\ Values[n + 1] = 2 * Values[n]
<1> DEFINE Recursion(f) == f = [n \in Nat |-> IF n = 0 THEN 1 ELSE 2 * f[n - 1]]
           step == [m \in Nat |-> 2 * m]
<1>1. step \in [Nat -> Nat] /\ 1 \in Nat
  OBVIOUS
<1>2. PICK f : Iterates(f, Nat, 1, step)
  <2> HIDE DEF step
  <2> QED
    BY <1>1, IterationExists
<1>3. f \in [Nat -> Nat] /\ f[0] = 1 /\ \A n \in Nat : f[n + 1] = 2 * f[n]
  BY <1>2 DEF Iterates
<1>4. Recursion(f)
  <2>1. ASSUME NEW n \in Nat PROVE f[n] = IF n = 0 THEN 1 ELSE 2 * f[n - 1]
    <3>1. CASE n = 0
      BY <1>3, <3>1
    <3>2. CASE n # 0
      <4>1. n - 1 \in Nat /\ (n - 1) + 1 = n
        BY <3>2
      <4> QED
        BY <1>3, <3>2, <4>1
    <3> QED
      BY <3>1, <3>2
  <2> QED
    BY <1>3, <2>1
<1>5. Values = CHOOSE g : Recursion(g)
  BY DEF Values
<1>6. Recursion(Values)
  <2> HIDE DEF Recursion
  <2> QED
    BY <1>4, <1>5
<1>7. \A n \in Nat : Values[n] = IF n = 0 THEN 1 ELSE 2 * Values[n - 1]
  BY <1>6
<1>8. Values[0] = 1
  BY <1>7
<1>9. ASSUME NEW n \in Nat PROVE Values[n + 1] = 2 * Values[n]
  <2>1. n + 1 \in Nat /\ n + 1 # 0 /\ (n + 1) - 1 = n
    OBVIOUS
  <2> QED
    BY <1>7, <2>1
<1> HIDE DEF Recursion
<1> DEFINE T == {n \in Nat : Values[n] \in Nat \ {0}}
<1>10. 0 \in T
  BY <1>8
<1>11. ASSUME NEW n \in Nat, n \in T PROVE n + 1 \in T
  BY <1>9, <1>11
<1> HIDE DEF T
<1>12. Nat \subseteq T
  BY <1>10, <1>11, NumberInduction
<1> QED
  BY <1>8, <1>9, <1>12 DEF T

\* The recursion behind Number, and its solution.
Summing(digits, base, number) ==
    number = [k \in 0..Len(digits) |->
                 IF k = 0 THEN 0 ELSE base * number[k - 1] + digits[k]]
Sums(digits, base) == CHOOSE number : Summing(digits, base, number)

LEMMA SumsExist ==
    ASSUME NEW A, NEW digits \in Seq(A), NEW base
    PROVE  Summing(digits, base, Sums(digits, base))
<1> DEFINE Step(f, k) == IF k = 0 THEN 0 ELSE base * f[k - 1] + digits[k]
           Upto(n, f) == f = [k \in 0..n |-> Step(f, k)]
           T == {n \in Nat : \E f : Upto(n, f)}
<1>1. 0 \in T
  <2> DEFINE f == [k \in 0..0 |-> 0]
  <2>1. Upto(0, f)
    OBVIOUS
  <2> QED
    <3> HIDE DEF Upto, f
    <3> QED
      BY <2>1
<1>2. ASSUME NEW n \in Nat, n \in T PROVE n + 1 \in T
  <2>1. PICK f : Upto(n, f)
    BY <1>2
  <2> DEFINE g == [k \in 0..(n + 1) |-> Step(f, k)]
  <2>2. \A k \in 0..n : f[k] = Step(f, k)
    BY <2>1
  <2>3. \A k \in 0..n : g[k] = f[k]
    BY <2>2
  <2>4. ASSUME NEW k \in 0..(n + 1) PROVE Step(g, k) = Step(f, k)
    <3>1. CASE k = 0
      BY <3>1
    <3>2. CASE k # 0
      <4>1. k - 1 \in 0..n
        BY <3>2
      <4>2. g[k - 1] = f[k - 1]
        BY <2>3, <4>1
      <4> HIDE DEF g
      <4> QED
        BY <3>2, <4>2
    <3> QED
      BY <3>1, <3>2
  <2>5. Upto(n + 1, g)
    BY <2>4
  <2> QED
    <3> HIDE DEF Upto, g
    <3> QED
      BY <2>5
<1> HIDE DEF T
<1>3. Len(digits) \in T
  BY <1>1, <1>2, NumberInduction
<1> QED
  BY <1>3, Zenon DEF T, Summing, Sums

LEMMA NumberIsSum == ASSUME NEW digits, NEW base PROVE Number(digits, base) = Sums(digits, base)[Len(digits)]
BY Zenon DEF Number, Sums, Summing

\* The number of no digits is 0; another digit adds its value to the base times as much.
LEMMA NumberAppend ==
    ASSUME NEW base \in Nat
    PROVE  /\ Number(<<>>, base) = 0
           /\ \A s \in Seq(Nat) : Number(s, base) \in Nat
           /\ \A s \in Seq(Nat) : \A d \in Nat :
                 Number(Append(s, d), base) = base * Number(s, base) + d
<1>1. ASSUME NEW s \in Seq(Nat)
      PROVE  /\ Sums(s, base)[0] = 0
             /\ \A k \in 0..Len(s) : k # 0 =>
                   Sums(s, base)[k] = base * Sums(s, base)[k - 1] + s[k]
             /\ \A k \in 0..Len(s) : Sums(s, base)[k] \in Nat
  <2>1. PICK f : f = Sums(s, base) /\ Summing(s, base, f)
    BY SumsExist
  <2>2. Len(s) \in Nat /\ \A k \in 0..Len(s) : f[k] = IF k = 0 THEN 0 ELSE base * f[k - 1] + s[k]
    BY <2>1 DEF Summing
  <2>3. f[0] = 0 /\ \A k \in 0..Len(s) : k # 0 => f[k] = base * f[k - 1] + s[k]
    BY <2>2
  <2> DEFINE T == {k \in Nat : k <= Len(s) => f[k] \in Nat}
  <2>4. 0 \in T
    BY <2>3
  <2>5. ASSUME NEW k \in Nat, k \in T PROVE k + 1 \in T
    <3>1. SUFFICES ASSUME k + 1 <= Len(s) PROVE f[k + 1] \in Nat
      OBVIOUS
    <3>2. /\ k + 1 \in 0..Len(s) /\ k + 1 # 0 /\ (k + 1) - 1 = k /\ k <= Len(s)
          /\ s[k + 1] \in Nat
      BY <2>2, <3>1
    <3>3. PICK m \in Nat, d \in Nat : m = f[k] /\ d = s[k + 1]
      BY <2>5, <3>2
    <3>4. base * m + d \in Nat
      OBVIOUS
    <3> QED
      BY <2>3, <3>2, <3>3, <3>4
  <2> HIDE DEF T
  <2>6. Nat \subseteq T
    BY <2>4, <2>5, NumberInduction
  <2>7. \A k \in 0..Len(s) : f[k] \in Nat
    BY <2>2, <2>6 DEF T
  <2> QED
    BY <2>1, <2>3, <2>7
<1>2. ASSUME NEW s \in Seq(Nat) PROVE Number(s, base) \in Nat
  <2>1. Len(s) \in 0..Len(s)
    OBVIOUS
  <2> QED
    BY <1>1, <2>1, NumberIsSum
<1>3. Number(<<>>, base) = 0
  <2>1. <<>> \in Seq(Nat) /\ Len(<<>>) = 0
    OBVIOUS
  <2> QED
    BY <1>1, <2>1, NumberIsSum
<1>4. ASSUME NEW s \in Seq(Nat), NEW d \in Nat
      PROVE  Number(Append(s, d), base) = base * Number(s, base) + d
  <2>1. PICK n \in Nat : n = Len(s)
    OBVIOUS
  <2>2. PICK t \in Seq(Nat) : t = Append(s, d) /\ Len(t) = n + 1 /\ t[n + 1] = d
                              /\ \A k \in 1..n : t[k] = s[k]
    <3>1. Append(s, d) \in Seq(Nat) /\ Len(Append(s, d)) = n + 1
      BY <2>1
    <3>2. Append(s, d)[n + 1] = d /\ \A k \in 1..n : Append(s, d)[k] = s[k]
      BY <2>1
    <3> QED
      BY <3>1, <3>2
  <2>3. PICK f, g : f = Sums(s, base) /\ g = Sums(t, base)
    OBVIOUS
  <2>4. /\ f[0] = 0 /\ \A k \in 0..n : k # 0 => f[k] = base * f[k - 1] + s[k]
    BY <1>1, <2>1, <2>3
  <2>5. /\ g[0] = 0 /\ \A k \in 0..(n + 1) : k # 0 => g[k] = base * g[k - 1] + t[k]
    BY <1>1, <2>2, <2>3
  <2> DEFINE T == {k \in Nat : k <= n => g[k] = f[k]}
  <2>6. 0 \in T
    BY <2>4, <2>5
  <2>7. ASSUME NEW k \in Nat, k \in T PROVE k + 1 \in T
    <3>1. SUFFICES ASSUME k + 1 <= n PROVE g[k + 1] = f[k + 1]
      OBVIOUS
    <3>2. /\ k + 1 \in 0..n /\ k + 1 \in 0..(n + 1) /\ k + 1 \in 1..n
          /\ k + 1 # 0 /\ (k + 1) - 1 = k /\ k <= n
      BY <3>1
    <3>3. g[k] = f[k] /\ t[k + 1] = s[k + 1]
      BY <2>2, <2>7, <3>2
    <3> QED
      BY <2>4, <2>5, <3>2, <3>3
  <2> HIDE DEF T
  <2>8. n \in T
    BY <2>6, <2>7, NumberInduction
  <2>9. g[n] = f[n]
    BY <2>8 DEF T
  <2>10. g[n + 1] = base * g[n] + d
    <3>1. n + 1 \in 0..(n + 1) /\ n + 1 # 0 /\ (n + 1) - 1 = n
      OBVIOUS
    <3> QED
      BY <2>2, <2>5, <3>1
  <2>11. Number(s, base) = f[n] /\ Number(t, base) = g[n + 1]
    BY <2>1, <2>2, <2>3, NumberIsSum
  <2> QED
    BY <2>2, <2>9, <2>10, <2>11
<1> QED
  BY <1>2, <1>3, <1>4

-----------------------------------------------------------------------------
\* Bits are digits of the base two.
LEMMA BitLists ==
    /\ Bit \subseteq Nat /\ Seq(Bit) \subseteq Seq(Nat) /\ 2 \in Nat
BY SeqMonotonic DEF Bit

LEMMA NoBits == Number(<<>>, 2) = 0 /\ Values[0] = 1 /\ 0 \in 0..(Values[0] - 1)
<1>1. Number(<<>>, 2) = 0
  BY NumberAppend
<1>2. Values[0] = 1
  BY ValuesFacts
<1> QED
  BY <1>1, <1>2

LEMMA BitNumber == ASSUME NEW s \in Seq(Bit) PROVE Number(s, 2) \in Nat
<1>1. PICK t \in Seq(Nat) : t = s
  BY BitLists
<1>2. Number(t, 2) \in Nat
  BY NumberAppend
<1> QED
  BY <1>1, <1>2

LEMMA BitAppend ==
    ASSUME NEW s \in Seq(Bit), NEW b \in Bit
    PROVE  \E m \in Nat : m = Number(s, 2) /\ Number(Append(s, b), 2) = 2 * m + b
<1>1. PICK t \in Seq(Nat) : t = s
  BY BitLists
<1>2. PICK d \in Nat : d = b
  BY BitLists
<1>3. Number(t, 2) \in Nat
  BY NumberAppend
<1>4. PICK m \in Nat : m = Number(t, 2)
  BY <1>3
<1>5. Number(Append(t, d), 2) = 2 * Number(t, 2) + d
  BY NumberAppend
<1> QED
  BY Zenon, <1>1, <1>2, <1>4, <1>5

\* A list of bits is a number of as many bits.
LEMMA NumberBounded ==
    ASSUME NEW s \in Seq(Bit)
    PROVE  Number(s, 2) \in 0..(Values[Len(s)] - 1)
<1> DEFINE T == {t \in Seq(Bit) : Number(t, 2) \in 0..(Values[Len(t)] - 1)}
<1>1. <<>> \in T
  <2>1. <<>> \in Seq(Bit) /\ Len(<<>>) = 0
    OBVIOUS
  <2>2. Number(<<>>, 2) = 0
    BY NoBits
  <2> QED
    BY <2>1, <2>2, NoBits
<1>2. ASSUME NEW t \in Seq(Bit), NEW b \in Bit, t \in T PROVE Append(t, b) \in T
  <2>1. PICK n \in Nat : n = Len(t)
    OBVIOUS
  <2>2. Append(t, b) \in Seq(Bit) /\ Len(Append(t, b)) = n + 1
    BY <2>1
  <2>3. PICK m \in Nat : m = Number(t, 2) /\ Number(Append(t, b), 2) = 2 * m + b
    BY BitAppend
  <2>4. PICK v \in Nat \ {0} : v = Values[n] /\ Values[n + 1] = 2 * v
    BY ValuesFacts
  <2>5. m <= v - 1
    BY <1>2, <2>1, <2>3, <2>4
  <2>6. 2 * m + b \in 0..(2 * v - 1)
    BY <2>5 DEF Bit
  <2> QED
    BY <2>2, <2>3, <2>4, <2>6
<1> HIDE DEF T
<1>3. Seq(Bit) \subseteq T
  BY <1>1, <1>2, ListInduction
<1> QED
  BY <1>3 DEF T

\* The last bit of a number.
LEMMA LastBit ==
    ASSUME NEW m \in Nat, NEW n \in Nat, NEW b \in Bit, NEW c \in Bit, 2 * m + b = 2 * n + c
    PROVE  m = n /\ b = c
BY DEF Bit

\* Lists of as many bits that are the same number are the same.
LEMMA NumberInjective ==
    ASSUME NEW s \in Seq(Bit), NEW t \in Seq(Bit), Len(s) = Len(t), Number(s, 2) = Number(t, 2)
    PROVE  s = t
<1> DEFINE T == {u \in Seq(Bit) : \A v \in Seq(Bit) :
                    Len(u) = Len(v) /\ Number(u, 2) = Number(v, 2) => u = v}
<1>1. <<>> \in T
  <2>1. \A v \in Seq(Bit) : Len(v) = 0 => v = <<>>
    OBVIOUS
  <2>2. <<>> \in Seq(Bit) /\ Len(<<>>) = 0
    OBVIOUS
  <2> QED
    BY <2>1, <2>2
<1>2. ASSUME NEW u \in Seq(Bit), NEW b \in Bit, u \in T PROVE Append(u, b) \in T
  <2>0. Append(u, b) \in Seq(Bit) /\ Len(Append(u, b)) = Len(u) + 1
    OBVIOUS
  <2>1. SUFFICES ASSUME NEW v \in Seq(Bit), Len(v) = Len(u) + 1,
                        Number(Append(u, b), 2) = Number(v, 2)
                 PROVE  Append(u, b) = v
    BY <2>0
  <2>2. v # <<>> /\ Len(u) \in Nat
    BY <2>1
  <2>3. PICK w \in Seq(Bit), c \in Bit : v = Append(w, c) /\ Len(w) = Len(v) - 1
    BY <2>2, LastElement
  <2>4. /\ \E m \in Nat : m = Number(u, 2) /\ Number(Append(u, b), 2) = 2 * m + b
        /\ \E n \in Nat : n = Number(w, 2) /\ Number(Append(w, c), 2) = 2 * n + c
    BY BitAppend
  <2>9. PICK m \in Nat : m = Number(u, 2) /\ Number(Append(u, b), 2) = 2 * m + b
    BY <2>4
  <2>10. PICK n \in Nat : n = Number(w, 2) /\ Number(Append(w, c), 2) = 2 * n + c
    BY <2>4
  <2>5. 2 * m + b = 2 * n + c
    <3>1. Number(Append(u, b), 2) = Number(Append(w, c), 2)
      BY Zenon, <2>1, <2>3
    <3> QED
      BY Zenon, <2>9, <2>10, <3>1
  <2>6. m = n /\ b = c
    BY <2>5, LastBit
  <2>7. Len(u) = Len(w)
    BY <2>1, <2>2, <2>3
  <2>8. u = w
    BY <1>2, <2>6, <2>7, <2>9, <2>10
  <2> QED
    BY <2>3, <2>6, <2>8
<1> HIDE DEF T
<1>3. Seq(Bit) \subseteq T
  BY <1>1, <1>2, ListInduction
<1> QED
  BY <1>3 DEF T

\* The bits of a number are that number.
LEMMA BitsOfNumber ==
    ASSUME NEW n \in Nat, NEW v \in 0..(Values[n] - 1)
    PROVE  BitsOf(v, n) \in Seq(Bit) /\ Len(BitsOf(v, n)) = n /\ Number(BitsOf(v, n), 2) = v
<1> DEFINE Fine(k, x) == /\ BitsOf(x, k) \in Seq(Bit) /\ Len(BitsOf(x, k)) = k
                         /\ Number(BitsOf(x, k), 2) = x
           T == {k \in Nat : \A x \in 0..(Values[k] - 1) : Fine(k, x)}
<1>1. 0 \in T
  <2>1. \A x : BitsOf(x, 0) = <<>>
    BY DEF BitsOf
  <2>2. \A x \in 0..(Values[0] - 1) : x = 0
    BY NoBits
  <2>3. Number(<<>>, 2) = 0 /\ <<>> \in Seq(Bit) /\ Len(<<>>) = 0
    BY NoBits
  <2> QED
    BY <2>1, <2>2, <2>3
<1>2. ASSUME NEW k \in Nat, k \in T PROVE k + 1 \in T
  <2>1. SUFFICES ASSUME NEW x \in 0..(Values[k + 1] - 1) PROVE Fine(k + 1, x)
    OBVIOUS
  <2>2. PICK vs \in Nat \ {0} : vs = Values[k] /\ Values[k + 1] = 2 * vs
    BY ValuesFacts
  <2>3. PICK h \in Nat, b \in Bit : h = x \div 2 /\ b = x % 2 /\ x = 2 * h + b
    <3>1. x \in Nat
      BY <2>1, <2>2
    <3> QED
      BY <3>1, Division DEF Bit
  <2>4. h \in 0..(Values[k] - 1)
    BY <2>1, <2>2, <2>3 DEF Bit
  <2>5. Fine(k, h)
    BY <1>2, <2>4
  <2>6. BitsOf(x, k + 1) = Append(BitsOf(h, k), b)
    <3>1. ASSUME NEW i \in 1..k PROVE BitsOf(x, k + 1)[i] = BitsOf(h, k)[i]
      <4>1. PICK j \in Nat : j = k - i /\ (k + 1) - i = j + 1
        OBVIOUS
      <4>2. PICK d \in Nat \ {0} : d = Values[j] /\ Values[j + 1] = 2 * d
        BY ValuesFacts
      <4>3. (x \div 2) \div d = x \div (2 * d)
        <5>1. x \in Nat
          BY <2>1, <2>2
        <5> QED
          BY <5>1, DivideTwice
      <4>4. BitsOf(x, k + 1)[i] = (x \div Values[(k + 1) - i]) % 2
        BY DEF BitsOf
      <4>5. BitsOf(h, k)[i] = (h \div Values[k - i]) % 2
        BY DEF BitsOf
      <4> QED
        BY Zenon, <2>3, <4>1, <4>2, <4>3, <4>4, <4>5
    <3>2. BitsOf(x, k + 1)[k + 1] = b
      <4>1. BitsOf(x, k + 1)[k + 1] = (x \div Values[0]) % 2
        BY DEF BitsOf
      <4>2. x \div 1 = x
        <5>1. x \in Nat /\ 0 \in 0..(1 - 1) /\ 1 \in Nat \ {0} /\ x = 1 * x + 0
          BY <2>1, <2>2
        <5> QED
          BY <5>1, Quotient
      <4> QED
        BY Zenon, <2>3, <4>1, <4>2, ValuesFacts
    <3>3. PICK u \in Seq(Bit) : u = BitsOf(h, k) /\ Len(u) = k
      BY <2>5
    <3>4. BitsOf(x, k + 1) = [i \in 1..(k + 1) |-> BitsOf(x, k + 1)[i]]
      BY DEF BitsOf
    <3>5. Append(u, b) \in Seq(Bit) /\ Len(Append(u, b)) = k + 1
      BY <3>3
    <3>6. Append(u, b)[k + 1] = b /\ \A i \in 1..k : Append(u, b)[i] = u[i]
      BY <3>3
    <3>7. PICK t \in Seq(Bit) : t = Append(u, b)
      BY <3>5
    <3>8. t = [i \in 1..(k + 1) |-> t[i]]
      <4>1. PICK l \in Nat : l = k + 1 /\ l = Len(t)
        BY <3>5, <3>7
      <4>2. t = [i \in 1..l |-> t[i]]
        BY <4>1
      <4> QED
        BY <4>1, <4>2
    <3>9. \A i \in 1..(k + 1) : BitsOf(x, k + 1)[i] = t[i]
      <4>1. \A i \in 1..(k + 1) : i = k + 1 \/ i \in 1..k
        OBVIOUS
      <4> QED
        BY <3>1, <3>2, <3>3, <3>6, <3>7, <4>1
    <3> QED
      BY <3>3, <3>4, <3>7, <3>8, <3>9
  <2>7. PICK u \in Seq(Bit) : u = BitsOf(h, k) /\ Len(u) = k /\ Number(u, 2) = h
    BY <2>5
  <2>8. Append(u, b) \in Seq(Bit) /\ Len(Append(u, b)) = k + 1
    BY <2>7
  <2>9. Number(Append(u, b), 2) = 2 * Number(u, 2) + b
    BY BitAppend
  <2> QED
    BY <2>3, <2>6, <2>7, <2>8, <2>9
<1> HIDE DEF T
<1>3. n \in T
  BY <1>1, <1>2, NumberInduction
<1> QED
  BY <1>3 DEF T

\* And a list of bits is the bits of its number.
LEMMA BitsOfList ==
    ASSUME NEW s \in Seq(Bit)
    PROVE  BitsOf(Number(s, 2), Len(s)) = s
<1>1. PICK n \in Nat : n = Len(s)
  OBVIOUS
<1>2. Number(s, 2) \in 0..(Values[n] - 1)
  BY <1>1, NumberBounded
<1>3. PICK t \in Seq(Bit) : t = BitsOf(Number(s, 2), n) /\ Len(t) = n /\ Number(t, 2) = Number(s, 2)
  BY <1>2, BitsOfNumber
<1>4. t = s
  BY <1>1, <1>3, NumberInjective
<1> QED
  BY <1>1, <1>3, <1>4

\* The number of two lists in a row.
LEMMA NumberConcat ==
    ASSUME NEW s \in Seq(Bit), NEW t \in Seq(Bit)
    PROVE  Number(s \o t, 2) = Values[Len(t)] * Number(s, 2) + Number(t, 2)
<1> DEFINE T == {u \in Seq(Bit) :
                    Number(s \o u, 2) = Values[Len(u)] * Number(s, 2) + Number(u, 2)}
<1>1. PICK m \in Nat : m = Number(s, 2)
  BY BitNumber
<1>2. <<>> \in T
  <2>1. <<>> \in Seq(Bit) /\ Len(<<>>) = 0 /\ s \o <<>> = s
    OBVIOUS
  <2>2. Number(<<>>, 2) = 0 /\ Values[0] = 1
    BY NoBits
  <2>3. m = 1 * m + 0
    OBVIOUS
  <2> QED
    BY <1>1, <2>1, <2>2, <2>3
<1>3. ASSUME NEW u \in Seq(Bit), NEW b \in Bit, u \in T PROVE Append(u, b) \in T
  <2>1. PICK n \in Nat : n = Len(u)
    OBVIOUS
  <2>2. Append(u, b) \in Seq(Bit) /\ Len(Append(u, b)) = n + 1 /\ s \o u \in Seq(Bit)
    BY <2>1
  <2>3. s \o Append(u, b) = Append(s \o u, b)
    BY ConcatAppend
  <2>4. PICK v \in Nat : v = Values[n] /\ Values[n + 1] = 2 * v
    BY ValuesFacts
  <2>5. PICK x \in Nat : x = Number(u, 2) /\ Number(Append(u, b), 2) = 2 * x + b
    BY BitAppend
  <2>6. PICK y \in Nat : y = Number(s \o u, 2) /\ Number(Append(s \o u, b), 2) = 2 * y + b
    BY <2>2, BitAppend
  <2>7. y = v * m + x
    BY <1>1, <1>3, <2>1, <2>4, <2>5, <2>6
  <2>8. (2 * v) * m = 2 * (v * m)
    BY Z3
  <2>9. PICK p \in Nat : p = v * m
    OBVIOUS
  <2>10. 2 * y + b = (2 * v) * m + (2 * x + b)
    <3>1. 2 * y + b = 2 * p + (2 * x + b)
      BY <2>7, <2>9 DEF Bit
    <3> QED
      BY <2>8, <2>9, <3>1
  <2> QED
    BY <1>1, <2>2, <2>3, <2>4, <2>5, <2>6, <2>10
<1> HIDE DEF T
<1>4. Seq(Bit) \subseteq T
  BY <1>2, <1>3, ListInduction
<1> QED
  BY <1>4 DEF T

-----------------------------------------------------------------------------
\* The bits of a mnemonic are those of the entropy and of its checksum.
LEMMA BitCounts ==
    ASSUME NEW n \in Counts
    PROVE  /\ n \in Nat \ {0}
           /\ EntropyBits(n) \in Nat /\ ChecksumBits(n) \in Nat \ {0}
           /\ ChecksumBits(n) <= ByteBits
           /\ EntropyBits(n) + ChecksumBits(n) = n * WordBits
<1>1. n \in Nat \ {0} /\ WordBits \in Nat /\ Ratio \in Nat /\ ByteBits \in Nat
      /\ ChecksumBits(n) \in 1..ByteBits
  BY MnemonicAssumption
<1>2. PICK total \in Nat, a \in Nat, d \in Nat \ {0} :
         total = n * WordBits /\ a = n * WordBits * Ratio /\ d = Ratio + 1
  <2>1. n * WordBits \in Nat
    BY <1>1, Z3
  <2>2. PICK total \in Nat : total = n * WordBits
    BY <2>1
  <2>3. total * Ratio \in Nat
    BY <1>1, Z3
  <2> QED
    BY <1>1, <2>2, <2>3
<1>3. a \div d \in Nat
  <2>1. PICK q \in Nat, r \in 0..(d - 1) : q = a \div d /\ r = a % d /\ a = d * q + r
    BY Division
  <2> QED
    BY <2>1
<1>4. PICK e \in Nat : e = a \div d
  BY <1>3
<1>5. EntropyBits(n) = e
  BY Zenon, <1>2, <1>4 DEF EntropyBits
<1>6. ChecksumBits(n) = total - e
  BY Zenon, <1>2, <1>5 DEF ChecksumBits
<1>7. PICK c \in 1..ByteBits : c = ChecksumBits(n)
  BY <1>1
<1>8. e + c = total
  BY <1>6, <1>7
<1> QED
  BY <1>1, <1>2, <1>5, <1>7, <1>8

LEMMA WordFacts ==
    /\ WordBits \in Nat \ {0} /\ Values[WordBits] \in Nat \ {0}
    /\ \A w : InList(w) => /\ w \in Nat
                           /\ Unpacked(w) \in Seq(Bit) /\ Len(Unpacked(w)) = WordBits
                           /\ Number(Unpacked(w), 2) = w
<1>1. WordBits \in Nat \ {0} /\ Values[WordBits] \in Nat \ {0}
  BY MnemonicAssumption, ValuesFacts
<1>2. ASSUME NEW w, InList(w)
      PROVE  /\ w \in Nat /\ Unpacked(w) \in Seq(Bit) /\ Len(Unpacked(w)) = WordBits
             /\ Number(Unpacked(w), 2) = w
  <2>1. w \in 0..(Values[WordBits] - 1)
    BY <1>2 DEF InList
  <2>2. w \in Nat
    BY <1>1, <2>1
  <2> QED
    BY <1>1, <2>1, <2>2, BitsOfNumber DEF Unpacked
<1> QED
  BY <1>1, <1>2

\* The bits of word k.
Chunk(s, k) == SubSeq(s, (k - 1) * WordBits + 1, k * WordBits)

Spelled(s, m) == s \in Seq(Bit) /\ m \in Nat /\ Len(s) = m * WordBits
Chunked(s, k) ==
    /\ Chunk(s, k) \in Seq(Bit) /\ Len(Chunk(s, k)) = WordBits
    /\ (k - 1) * WordBits \in Nat /\ (k - 1) * WordBits + WordBits = k * WordBits
    /\ k * WordBits <= Len(s)
    /\ \A i \in 1..WordBits : Chunk(s, k)[i] = s[(k - 1) * WordBits + i]

LEMMA ChunkFacts ==
    ASSUME NEW s, NEW m, Spelled(s, m), NEW k \in 1..m
    PROVE  Chunked(s, k)
<1> USE DEF Spelled
<1>1. PICK w \in Nat \ {0} : w = WordBits
  BY MnemonicAssumption
<1>2. /\ (k - 1) * w \in Nat /\ (k - 1) * w + w = k * w /\ k * w <= m * w
  BY Z3
<1>3. PICK from \in Nat, to \in Nat : from = (k - 1) * w /\ to = k * w /\ from + w = to
                                      /\ to <= Len(s)
  BY <1>1, <1>2
<1>4. from + w <= Len(s)
  BY <1>3
<1>5. /\ SubSeq(s, from + 1, from + w) \in Seq(Bit) /\ Len(SubSeq(s, from + 1, from + w)) = w
      /\ \A i \in 1..w : SubSeq(s, from + 1, from + w)[i] = s[from + i]
  BY <1>4, PartFacts
<1>6. Chunk(s, k) = SubSeq(s, from + 1, from + w)
  BY Zenon, <1>1, <1>3 DEF Chunk
<1> QED
  BY Zenon, <1>1, <1>2, <1>3, <1>5, <1>6 DEF Chunked

\* A list is determined by the bits of its words.
LEMMA SameChunks ==
    ASSUME NEW m, NEW s, NEW t, Spelled(s, m), Spelled(t, m),
           \A k \in 1..m : Chunk(s, k) = Chunk(t, k)
    PROVE  s = t
<1>3. s \in Seq(Bit) /\ t \in Seq(Bit) /\ m \in Nat /\ Len(s) = Len(t)
  BY Zenon DEF Spelled
<1>1. PICK w \in Nat \ {0} : w = WordBits
  BY MnemonicAssumption
<1>2. ASSUME NEW i \in 1..Len(s) PROVE s[i] = t[i]
  <2>1. i - 1 \in Nat /\ i <= m * w
    BY <1>1 DEF Spelled
  <2>2. PICK q \in Nat, r \in 0..(w - 1) : i - 1 = w * q + r
    BY <2>1, Division
  <2>3. q < m
    <3>1. SUFFICES ASSUME q >= m PROVE FALSE
      BY <1>3
    <3>2. w * q >= m * w
      BY <1>3, <3>1, Z3
    <3>3. PICK x \in Int, y \in Int : x = w * q /\ y = m * w
      BY <1>3
    <3> QED
      BY <2>1, <2>2, <3>2, <3>3
  <2>4. PICK k \in 1..m : k = q + 1
    BY <1>3, <2>3
  <2>5. (k - 1) * WordBits = w * q
    BY <1>1, <2>4, Z3
  <2>6. PICK j \in 1..WordBits : j = r + 1
    BY <1>1
  <2>7. (k - 1) * WordBits + j = i
    <3>1. PICK x \in Nat : x = w * q
      OBVIOUS
    <3>2. i - 1 = x + r /\ (k - 1) * WordBits = x
      BY Zenon, <2>2, <2>5, <3>1
    <3>3. x + j = i
      BY <2>6, <3>2
    <3> QED
      BY Zenon, <3>2, <3>3
  <2>10. Chunked(s, k) /\ Chunked(t, k)
    BY ChunkFacts
  <2>8. Chunk(s, k)[j] = s[(k - 1) * WordBits + j]
    BY Zenon, <2>10 DEF Chunked
  <2>9. Chunk(t, k)[j] = t[(k - 1) * WordBits + j]
    BY Zenon, <2>10 DEF Chunked
  <2> QED
    BY Zenon, <2>7, <2>8, <2>9
<1> QED
  BY <1>2, <1>3, SeqEqual

\* What is generated from entropy: words of the list, whose bits are the entropy and
\* its digest.
Whole(e) == e \o Digest(e)
Entropy == [1..EntropyBits(Generates) -> Bit]

LEMMA GeneratedFacts ==
    ASSUME NEW e \in Entropy
    PROVE  /\ Generated(e) \in Seq(Nat) /\ Len(Generated(e)) = Generates
           /\ e \in Seq(Bit) /\ Len(e) = EntropyBits(Generates)
           /\ Digest(e) \in Seq(Bit) /\ Len(Digest(e)) = ByteBits
           /\ Spelled(Whole(e), Generates)
           /\ \A k \in 1..Generates : /\ Generated(e)[k] = Number(Chunk(Whole(e), k), 2)
                                      /\ InList(Generated(e)[k])
                                      /\ Unpacked(Generated(e)[k]) = Chunk(Whole(e), k)
<1>1. /\ Generates \in Counts /\ Generates \in Nat /\ EntropyBits(Generates) \in Nat
      /\ ChecksumBits(Generates) = ByteBits /\ ByteBits \in Nat
      /\ EntropyBits(Generates) + ByteBits = Generates * WordBits
  BY BitCounts, MnemonicAssumption
<1>2. e \in Seq(Bit) /\ Len(e) = EntropyBits(Generates)
  BY <1>1 DEF Entropy
<1>3. Digest(e) \in Seq(Bit) /\ Len(Digest(e)) = ByteBits
  <2>1. Digest(e) \in [1..ByteBits -> Bit]
    BY <1>1, DigestAssumption DEF Entropy
  <2> QED
    BY <1>1, <2>1
<1>4. Spelled(Whole(e), Generates)
  <2>1. PICK d \in Seq(Bit), f \in Seq(Bit) : d = Digest(e) /\ f = e
    BY <1>2, <1>3
  <2>2. f \o d \in Seq(Bit) /\ Len(f \o d) = Len(f) + Len(d)
    OBVIOUS
  <2> QED
    BY Zenon, <1>1, <1>2, <1>3, <2>1, <2>2 DEF Whole, Spelled
<1>5. ASSUME NEW k \in 1..Generates
      PROVE  /\ Generated(e)[k] = Number(Chunk(Whole(e), k), 2)
             /\ Generated(e)[k] \in Nat /\ InList(Generated(e)[k])
             /\ Unpacked(Generated(e)[k]) = Chunk(Whole(e), k)
  <2>1. Generated(e)[k] = Number(Chunk(Whole(e), k), 2)
    BY Zenon DEF Generated, Whole, Chunk, Word
  <2>2. PICK c \in Seq(Bit) : c = Chunk(Whole(e), k) /\ Len(c) = WordBits
    <3>1. Chunked(Whole(e), k)
      BY <1>4, ChunkFacts
    <3> QED
      BY <3>1 DEF Chunked
  <2>3. Number(c, 2) \in 0..(Values[WordBits] - 1) /\ BitsOf(Number(c, 2), WordBits) = c
    BY <2>2, NumberBounded, BitsOfList
  <2>4. InList(Number(c, 2)) /\ Unpacked(Number(c, 2)) = c
    BY <2>3 DEF InList, Unpacked
  <2> QED
    BY <2>1, <2>2, <2>4, WordFacts
<1>6. Generated(e) \in Seq(Nat) /\ Len(Generated(e)) = Generates
  <2>1. Generated(e) = [k \in 1..Generates |-> Generated(e)[k]]
    BY DEF Generated
  <2>2. PICK n \in Nat : n = Generates
    BY <1>1
  <2>3. Generated(e) \in [1..n -> Nat]
    BY <1>5, <2>1, <2>2
  <2>4. Generated(e) \in Seq(Nat)
    BY <2>3, SeqDef
  <2> QED
    BY <2>2, <2>3, <2>4
<1> QED
  BY <1>2, <1>3, <1>4, <1>5, <1>6

-----------------------------------------------------------------------------
\* The checksum that validate compares, as lists.
Checked(bs, n) ==
    SubSeq(bs, EntropyBits(n) + 1, EntropyBits(n) + ChecksumBits(n))
        = SubSeq(Digest(SubSeq(bs, 1, EntropyBits(n))), 1, ChecksumBits(n))

\* The parts of the bits of a mnemonic.
PartsOf(bs, n, p, q, d) ==
    /\ bs = p \o q /\ Len(p) = EntropyBits(n) /\ Len(q) = ChecksumBits(n)
    /\ p = SubSeq(bs, 1, EntropyBits(n))
    /\ d = Digest(p) /\ Len(d) = ByteBits
    /\ Checked(bs, n) <=> q = SubSeq(d, 1, ChecksumBits(n))
    /\ SubSeq(d, 1, ChecksumBits(n)) \in Seq(Bit)
    /\ Len(SubSeq(d, 1, ChecksumBits(n))) = ChecksumBits(n)
    /\ \A b \in 1..ChecksumBits(n) : SubSeq(d, 1, ChecksumBits(n))[b] = d[b]

LEMMA Parts ==
    ASSUME NEW n \in Counts, NEW bs, Spelled(bs, n)
    PROVE  \E p \in Seq(Bit), q \in Seq(Bit), d \in Seq(Bit) : PartsOf(bs, n, p, q, d)
<1>0. bs \in Seq(Bit) /\ Len(bs) = n * WordBits
  BY DEF Spelled
<1> DEFINE e == EntropyBits(n)
           c == ChecksumBits(n)
<1>1. e \in Nat /\ c \in Nat \ {0} /\ c <= ByteBits /\ e + c = Len(bs)
  BY <1>0, BitCounts
<1> HIDE DEF e, c
<1>2. e \in 0..Len(bs) /\ Len(bs) - e = c
  <2>1. PICK l \in Nat : l = Len(bs)
    BY <1>0
  <2>2. e \in Nat /\ c \in Nat /\ e + c = l
    BY <1>1, <2>1
  <2>3. e \in 0..l /\ l - e = c
    BY <2>2
  <2> QED
    BY <2>1, <2>3
<1>3. /\ SubSeq(bs, 1, e) \in Seq(Bit) /\ Len(SubSeq(bs, 1, e)) = e
      /\ SubSeq(bs, e + 1, Len(bs)) \in Seq(Bit) /\ Len(SubSeq(bs, e + 1, Len(bs))) = Len(bs) - e
      /\ bs = SubSeq(bs, 1, e) \o SubSeq(bs, e + 1, Len(bs))
  BY <1>0, <1>2, JoinFacts
<1>4. PICK p \in Seq(Bit) : p = SubSeq(bs, 1, e) /\ Len(p) = e
  BY <1>3
<1>5. PICK q \in Seq(Bit) : q = SubSeq(bs, e + 1, e + c) /\ Len(q) = c /\ bs = p \o q
  BY <1>1, <1>2, <1>3, <1>4
<1>6. Digest(p) \in [1..ByteBits -> Bit]
  <2>1. p \in [1..e -> Bit]
    <3>1. p \in [1..Len(p) -> Bit]
      BY LenProperties
    <3> QED
      BY Zenon, <1>4, <3>1
  <2> QED
    BY <2>1, DigestAssumption DEF e
<1>7. PICK d \in Seq(Bit) : d = Digest(p) /\ Len(d) = ByteBits
  <2>1. ByteBits \in Nat
    BY MnemonicAssumption
  <2>2. Digest(p) \in Seq(Bit) /\ Len(Digest(p)) = ByteBits
    BY <1>6, <2>1
  <2> QED
    BY <2>2
<1>8. /\ SubSeq(d, 0 + 1, 0 + c) \in Seq(Bit) /\ Len(SubSeq(d, 0 + 1, 0 + c)) = c
      /\ \A b \in 1..c : SubSeq(d, 0 + 1, 0 + c)[b] = d[0 + b]
  <2>1. 0 \in Nat /\ c \in Nat /\ 0 + c <= Len(d)
    BY <1>1, <1>7
  <2> QED
    BY <2>1, PartFacts
<1>9. 0 + 1 = 1 /\ 0 + c = c /\ \A b \in 1..c : 0 + b = b
  BY <1>1
<1>10. /\ SubSeq(d, 1, c) \in Seq(Bit) /\ Len(SubSeq(d, 1, c)) = c
       /\ \A b \in 1..c : SubSeq(d, 1, c)[b] = d[b]
  BY <1>8, <1>9
<1>11. Checked(bs, n) <=> q = SubSeq(d, 1, c)
  BY Zenon, <1>4, <1>5, <1>7 DEF Checked, e, c
<1> QED
  <2>1. PartsOf(bs, n, p, q, d)
    BY Zenon, <1>4, <1>5, <1>7, <1>10, <1>11 DEF PartsOf, e, c
  <2> QED
    BY <2>1

\* validate compares the checksum.
Agrees(bs, n) ==
    \A b \in 1..ChecksumBits(n) :
        (bs \o [i \in 1..ByteBits |-> 0])[EntropyBits(n) + b]
            = Digest(SubSeq(bs, 1, EntropyBits(n)))[b]

LEMMA ComparesChecksum ==
    ASSUME NEW n \in Counts, NEW bs, Spelled(bs, n)
    PROVE  Agrees(bs, n) <=> Checked(bs, n)
<1> DEFINE e == EntropyBits(n)
           c == ChecksumBits(n)
<1>0. e \in Nat /\ c \in Nat \ {0}
  BY BitCounts
<1> HIDE DEF e, c
<1>2. PICK p \in Seq(Bit), q \in Seq(Bit), d \in Seq(Bit) :
         /\ bs = p \o q /\ Len(p) = e /\ Len(q) = c
         /\ p = SubSeq(bs, 1, e) /\ d = Digest(p)
         /\ Checked(bs, n) <=> q = SubSeq(d, 1, c)
         /\ SubSeq(d, 1, c) \in Seq(Bit) /\ Len(SubSeq(d, 1, c)) = c
         /\ \A b \in 1..c : SubSeq(d, 1, c)[b] = d[b]
  <2>1. PICK p \in Seq(Bit), q \in Seq(Bit), d \in Seq(Bit) : PartsOf(bs, n, p, q, d)
    BY Parts
  <2> QED
    BY Zenon, <2>1 DEF PartsOf, e, c
<1>1. bs \in Seq(Bit) /\ Len(bs) = e + c
  <2>1. p \o q \in Seq(Bit) /\ Len(p \o q) = Len(p) + Len(q)
    BY SplitFacts
  <2> QED
    BY Zenon, <1>2, <2>1
<1>3. PICK z \in Seq(Bit) : z = [i \in 1..ByteBits |-> 0]
  <2>1. ByteBits \in Nat /\ 0 \in Bit
    BY MnemonicAssumption DEF Bit
  <2>2. [i \in 1..ByteBits |-> 0] \in Seq(Bit)
    BY <2>1
  <2> QED
    BY <2>2
<1>4. ASSUME NEW b \in 1..c PROVE (bs \o z)[e + b] = q[b]
  <2>1. /\ \A i \in 1..(Len(bs) + Len(z)) :
              (bs \o z)[i] = IF i <= Len(bs) THEN bs[i] ELSE z[i - Len(bs)]
        /\ \A i \in 1..(Len(p) + Len(q)) :
              (p \o q)[i] = IF i <= Len(p) THEN p[i] ELSE q[i - Len(p)]
    BY <1>1, ConcatProperties
  <2>2. PICK l \in Nat, x \in Nat : l = Len(z) /\ x = Len(bs) /\ x = e + c
    BY <1>0, <1>1
  <2>6. e + b \in 1..(x + l) /\ e + b <= x
    BY <1>0, <2>2
  <2>3. /\ e + b \in 1..(Len(bs) + Len(z)) /\ e + b <= Len(bs)
        /\ e + b \in 1..(e + c) /\ ~(e + b <= e) /\ (e + b) - e = b
    BY <1>0, <2>2, <2>6
  <2>4. (bs \o z)[e + b] = bs[e + b]
    BY <1>1, <2>1, <2>3
  <2>5. (p \o q)[e + b] = q[b]
    BY <1>2, <2>1, <2>2, <2>3
  <2> QED
    BY Zenon, <1>2, <2>4, <2>5
<1>5. (\A b \in 1..c : (bs \o z)[e + b] = d[b]) <=> \A b \in 1..c : q[b] = SubSeq(d, 1, c)[b]
  BY Zenon, <1>2, <1>4
<1>6. (\A b \in 1..c : q[b] = SubSeq(d, 1, c)[b]) <=> q = SubSeq(d, 1, c)
  <2>1. PICK u \in Seq(Bit) : u = SubSeq(d, 1, c) /\ Len(u) = c
    BY <1>2
  <2>2. (\A b \in 1..Len(q) : q[b] = u[b]) => q = u
    BY <1>2, <2>1, SeqEqual
  <2> QED
    BY Zenon, <1>2, <2>1, <2>2
<1>7. Agrees(bs, n) <=> \A b \in 1..c : (bs \o z)[e + b] = d[b]
  <2>1. Digest(SubSeq(bs, 1, e)) = d
    BY Zenon, <1>2
  <2> QED
    BY Zenon, <1>3, <2>1 DEF Agrees, e, c
<1> QED
  BY Zenon, <1>2, <1>5, <1>6, <1>7

\* The words read so far, their bits and their number.
WordsRead(ws, bs, m) ==
    /\ Spelled(bs, m)
    /\ \A k \in 1..m : InList(ws[k]) /\ Chunk(bs, k) = Unpacked(ws[k])
    /\ Number(bs, 2) = Number(SubSeq(ws, 1, m), Values[WordBits])

LEMMA ReadOneMore ==
    ASSUME NEW ws \in Seq(Nat), NEW bs, NEW m \in 0..Len(ws),
           WordsRead(ws, bs, m), m < Len(ws), NEW w, w = ws[m + 1], InList(w)
    PROVE  WordsRead(ws, bs \o Unpacked(w), m + 1)
<1>0. bs \in Seq(Bit) /\ Spelled(bs, m)
  BY DEF WordsRead, Spelled
<1>1. PICK u \in Seq(Bit) : u = Unpacked(w) /\ Len(u) = WordBits /\ Number(u, 2) = w
  <2>1. Unpacked(w) \in Seq(Bit) /\ Len(Unpacked(w)) = WordBits /\ Number(Unpacked(w), 2) = w
    BY WordFacts
  <2> QED
    BY <2>1
<1>2. PICK t \in Seq(Bit) : t = bs \o u /\ Len(t) = Len(bs) + Len(u)
  <2>1. bs \o u \in Seq(Bit) /\ Len(bs \o u) = Len(bs) + Len(u)
    BY <1>0, SplitFacts
  <2> QED
    BY <2>1
<1>3. PICK b \in Nat \ {0}, x \in Nat : b = WordBits /\ x = m * b
  <2>1. m \in Nat
    OBVIOUS
  <2>2. m * WordBits \in Nat
    BY <2>1, WordFacts
  <2> QED
    BY <2>2, WordFacts
<1>4. Len(bs) = x /\ Len(t) = x + b
  BY Zenon, <1>0, <1>1, <1>2, <1>3 DEF Spelled
<1>5. Spelled(t, m + 1) /\ (m + 1) * WordBits = x + b
  <2>1. (m + 1) * b = m * b + b /\ m + 1 \in Nat
    BY Z3
  <2> QED
    BY Zenon, <1>3, <1>4, <2>1 DEF Spelled
<1>6. ASSUME NEW k \in 1..m PROVE Chunk(t, k) = Chunk(bs, k)
  <2>1. k \in 1..(m + 1)
    OBVIOUS
  <2>2. Chunked(bs, k)
    BY <1>0, ChunkFacts
  <2>4. Chunked(t, k)
    BY <1>5, <2>1, ChunkFacts
  <2>5. ASSUME NEW i \in 1..WordBits
        PROVE  t[(k - 1) * WordBits + i] = bs[(k - 1) * WordBits + i]
    <3>0. PICK y \in Nat : y = (k - 1) * WordBits /\ y + b = k * WordBits /\ k * WordBits <= x
      BY Zenon, <1>3, <1>4, <2>2 DEF Chunked
    <3>1. y + b <= x
      BY Zenon, <3>0
    <3>2. y + i \in 1..x
      BY <1>3, <3>1
    <3>3. \A j \in 1..(Len(bs) + Len(u)) :
             (bs \o u)[j] = IF j <= Len(bs) THEN bs[j] ELSE u[j - Len(bs)]
      BY <1>0, ConcatProperties
    <3>4. y + i \in 1..(Len(bs) + Len(u)) /\ y + i <= Len(bs)
      BY <1>1, <1>3, <1>4, <3>2
    <3>5. (bs \o u)[y + i] = bs[y + i]
      BY <3>3, <3>4
    <3> QED
      BY Zenon, <1>2, <3>0, <3>5
  <2>6. \A i \in 1..WordBits : Chunk(t, k)[i] = Chunk(bs, k)[i]
    BY Zenon, <2>2, <2>4, <2>5 DEF Chunked
  <2>7. /\ Chunk(t, k) \in Seq(Bit) /\ Chunk(bs, k) \in Seq(Bit)
        /\ Len(Chunk(t, k)) = WordBits /\ Len(Chunk(bs, k)) = WordBits
    BY Zenon, <2>2, <2>4 DEF Chunked
  <2> QED
    BY <2>6, <2>7, SeqEqual
<1>7. Chunk(t, m + 1) = u
  <2>1. SubSeq(bs \o u, Len(bs) + 1, Len(bs) + Len(u)) = u
    BY <1>0, SplitFacts
  <2>2. ((m + 1) - 1) * WordBits = x /\ (m + 1) * WordBits = x + b
    <3>1. (m + 1) - 1 = m
      OBVIOUS
    <3> QED
      BY <1>3, <1>4, <1>5, <3>1
  <2> QED
    BY Zenon, <1>1, <1>2, <1>3, <1>4, <2>1, <2>2 DEF Chunk
<1>8. ASSUME NEW k \in 1..(m + 1) PROVE InList(ws[k]) /\ Chunk(t, k) = Unpacked(ws[k])
  <2>1. CASE k = m + 1
    BY Zenon, <1>1, <1>7, <2>1
  <2>2. CASE k # m + 1
    <3>1. k \in 1..m
      BY <2>2
    <3> QED
      BY <1>6, <3>1 DEF WordsRead
  <2> QED
    BY <2>1, <2>2
<1>9. Number(t, 2) = Number(SubSeq(ws, 1, m + 1), Values[WordBits])
  <2>1. SubSeq(ws, 1, m + 1) = Append(SubSeq(ws, 1, m), ws[m + 1])
    <3>1. 1 \in 1..Len(ws) /\ m + 1 \in 1..Len(ws) /\ (m + 1) - 1 = m
      OBVIOUS
    <3>2. SubSeq(ws, 1, m + 1) = SubSeq(ws, 1, m) \o <<ws[m + 1]>>
      BY <3>1, SubSeqRecursiveSecond
    <3>3. SubSeq(ws, 1, m) \in Seq(Nat) /\ ws[m + 1] \in Nat
      BY <3>1, JoinFacts
    <3> QED
      BY <3>2, <3>3, AppendIsConcat
  <2>2. SubSeq(ws, 1, m) \in Seq(Nat) /\ ws[m + 1] \in Nat
    <3>1. m + 1 \in 1..Len(ws)
      OBVIOUS
    <3> QED
      BY <3>1, JoinFacts
  <2>3. PICK base \in Nat : base = Values[WordBits] /\ base = Values[Len(u)]
    BY <1>1, WordFacts
  <2>4. PICK head \in Seq(Nat), y \in Nat : head = SubSeq(ws, 1, m) /\ y = Number(head, base)
    BY <2>2, NumberAppend
  <2>5. Number(Append(head, w), base) = base * Number(head, base) + w
    BY <2>2, NumberAppend
  <2>6. Number(bs \o u, 2) = Values[Len(u)] * Number(bs, 2) + Number(u, 2)
    BY <1>0, NumberConcat
  <2>7. Number(bs, 2) = Number(head, base)
    BY Zenon, <2>3, <2>4 DEF WordsRead
  <2> QED
    BY Zenon, <1>1, <1>2, <2>1, <2>3, <2>4, <2>5, <2>6, <2>7
<1> QED
  BY Zenon, <1>1, <1>2, <1>5, <1>8, <1>9 DEF WordsRead

\* Where validate stands, from the number of bits it has.
Stands(bs, m) ==
    /\ Len(bs) \div WordBits = m
    /\ \A n \in Nat : /\ Len(bs) < n * WordBits => m < n
                      /\ Len(bs) = n * WordBits => m = n

LEMMA ReadSoFar ==
    ASSUME NEW bs, NEW m, Spelled(bs, m)
    PROVE  Stands(bs, m)
<1>1. PICK w \in Nat \ {0} : w = WordBits
  BY WordFacts
<1>2. m \in Nat /\ Len(bs) = m * w
  BY Zenon, <1>1 DEF Spelled
<1>3. PICK x \in Nat : x = m * w /\ x = Len(bs)
  BY <1>2
<1>4. x \div w = m
  <2>1. x = w * m + 0 /\ 0 \in 0..(w - 1)
    BY <1>2, <1>3, Z3
  <2> QED
    BY <1>2, <2>1, Quotient
<1>5. ASSUME NEW n \in Nat PROVE (x < n * w => m < n) /\ (x = n * w => m = n)
  <2>0. PICK y \in Nat : y = n * w
    OBVIOUS
  <2>1. CASE n > m
    <3>1. n * w >= m * w + w
      BY <1>2, <2>1, Z3
    <3>2. y >= x + w
      BY <1>3, <2>0, <3>1
    <3> QED
      BY <1>2, <2>0, <2>1, <3>2
  <2>2. CASE m > n
    <3>1. m * w >= n * w + w
      BY <1>2, <2>2, Z3
    <3>2. x >= y + w
      BY <1>3, <2>0, <3>1
    <3> QED
      BY <1>2, <2>0, <2>2, <3>2
  <2>3. CASE m = n
    BY <1>3, <2>0, <2>3
  <2> QED
    BY <1>2, <2>1, <2>2, <2>3
<1> QED
  BY Zenon, <1>1, <1>3, <1>4, <1>5 DEF Stands

\* Nothing read yet.
LEMMA NothingRead ==
    ASSUME NEW ws \in Seq(Nat)
    PROVE  WordsRead(ws, <<>>, 0)
<1>1. <<>> \in Seq(Bit) /\ 0 \in Nat /\ Len(<<>>) = 0
  OBVIOUS
<1>2. 0 * WordBits = 0
  BY WordFacts
<1>3. Spelled(<<>>, 0)
  BY <1>1, <1>2 DEF Spelled
<1>4. SubSeq(ws, 1, 0) = <<>>
  <2>1. 0 \in 0..Len(ws)
    OBVIOUS
  <2>2. SubSeq(ws, 1, 0) \in Seq(Nat) /\ Len(SubSeq(ws, 1, 0)) = 0
    BY <2>1, JoinFacts
  <2> QED
    BY <2>2
<1>5. Number(<<>>, 2) = 0 /\ Number(<<>>, Values[WordBits]) = 0
  <2>1. PICK base \in Nat : base = Values[WordBits]
    BY WordFacts
  <2>2. Number(<<>>, 2) = 0
    BY NumberAppend
  <2>3. Number(<<>>, base) = 0
    BY NumberAppend
  <2> QED
    BY Zenon, <2>1, <2>2, <2>3
<1>6. \A k \in 1..0 : InList(ws[k]) /\ Chunk(<<>>, k) = Unpacked(ws[k])
  OBVIOUS
<1> QED
  BY Zenon, <1>3, <1>4, <1>5, <1>6 DEF WordsRead

-----------------------------------------------------------------------------
\* The checksum as a number, which is how BIP-39 has it.
ChecksumMatches(ws) ==
    LET number == Number(ws, Values[WordBits])
        n == Len(ws)
        digest == Digest(BitsOf(number \div Values[ChecksumBits(n)], EntropyBits(n)))
    IN  Word(SubSeq(digest, 1, ChecksumBits(n))) = number % Values[ChecksumBits(n)]

LEMMA ChecksumIsNumber ==
    ASSUME NEW ws \in Seq(Nat), NEW n \in Counts, n = Len(ws), NEW bs, WordsRead(ws, bs, n)
    PROVE  Checked(bs, n) <=> ChecksumMatches(ws)
<1>0. Spelled(bs, n)
  BY DEF WordsRead
<1> DEFINE e == EntropyBits(n)
           c == ChecksumBits(n)
<1>1. e \in Nat /\ c \in Nat
  BY BitCounts
<1> HIDE DEF e, c
<1>2. PICK p \in Seq(Bit), q \in Seq(Bit), d \in Seq(Bit) : PartsOf(bs, n, p, q, d)
  BY <1>0, Parts
<1>3. PICK r \in Seq(Bit) : r = SubSeq(d, 1, c) /\ Len(r) = c
  <2>1. SubSeq(d, 1, c) \in Seq(Bit) /\ Len(SubSeq(d, 1, c)) = c
    BY Zenon, <1>2 DEF PartsOf, c
  <2> QED
    BY <2>1
<1>4. /\ bs = p \o q /\ Len(p) = e /\ Len(q) = c /\ d = Digest(p)
      /\ Checked(bs, n) <=> q = r
  BY Zenon, <1>2, <1>3 DEF PartsOf, e, c
<1>5. PICK high \in Nat : high = Number(p, 2)
  BY BitNumber
<1>14. PICK v \in Nat \ {0} : v = Values[c]
  BY <1>1, ValuesFacts
<1>15. PICK low \in 0..(v - 1) : low = Number(q, 2)
  <2>1. Number(q, 2) \in 0..(Values[Len(q)] - 1)
    BY NumberBounded
  <2> QED
    BY Zenon, <1>4, <1>14, <2>1
<1>6. Number(bs, 2) = v * high + low
  <2>1. Number(p \o q, 2) = Values[Len(q)] * Number(p, 2) + Number(q, 2)
    BY NumberConcat
  <2> QED
    BY Zenon, <1>4, <1>5, <1>14, <1>15, <2>1
<1>7. Number(ws, Values[WordBits]) = Number(bs, 2)
  <2>1. SubSeq(ws, 1, Len(ws)) = ws
    BY SubSeqFull
  <2> QED
    BY Zenon, <2>1 DEF WordsRead
<1>8. PICK number \in Nat : number = Number(ws, Values[WordBits]) /\ number = v * high + low
  <2>1. v * high + low \in Nat
    <3>1. PICK x \in Nat : x = v * high
      OBVIOUS
    <3>2. x + low \in Nat
      BY <1>14, <1>15
    <3> QED
      BY Zenon, <3>1, <3>2
  <2> QED
    BY <1>6, <1>7, <2>1
<1>9. number \div v = high
  BY <1>8, Quotient
<1>10. number % v = low
  BY <1>8, Quotient
<1>11. BitsOf(high, e) = p
  BY Zenon, <1>4, <1>5, BitsOfList
<1>12. ChecksumMatches(ws) <=> Number(r, 2) = low
  BY Zenon, <1>3, <1>4, <1>14, <1>8, <1>9, <1>10, <1>11 DEF ChecksumMatches, Word, e, c
<1>13. Number(r, 2) = low <=> q = r
  BY Zenon, <1>3, <1>4, <1>15, NumberInjective
<1> QED
  BY Zenon, <1>4, <1>12, <1>13

\* Of the length that is generated, what is accepted is what is generated.
LEMMA AcceptedGenerated ==
    ASSUME NEW ws \in Seq(Nat), Len(ws) = Generates, NEW bs, WordsRead(ws, bs, Generates)
    PROVE  Checked(bs, Generates) <=> \E e \in Entropy : ws = Generated(e)
<1>0. /\ Spelled(bs, Generates) /\ Generates \in Counts
      /\ \A k \in 1..Generates : InList(ws[k]) /\ Chunk(bs, k) = Unpacked(ws[k])
  BY MnemonicAssumption DEF WordsRead
<1> DEFINE n == EntropyBits(Generates)
           c == ChecksumBits(Generates)
<1>1. n \in Nat /\ c \in Nat /\ c = ByteBits
  BY BitCounts, MnemonicAssumption
<1> HIDE DEF n, c
<1>2. ASSUME Checked(bs, Generates) PROVE \E e \in Entropy : ws = Generated(e)
  <2>1. PICK p \in Seq(Bit), q \in Seq(Bit), d \in Seq(Bit) : PartsOf(bs, Generates, p, q, d)
    BY <1>0, Parts
  <2>2. /\ bs = p \o q /\ Len(p) = n /\ d = Digest(p) /\ Len(d) = c /\ q = SubSeq(d, 1, c)
    BY Zenon, <1>1, <1>2, <2>1 DEF PartsOf, n, c
  <2>3. q = d
    <3>1. SubSeq(d, 1, Len(d)) = d
      BY SubSeqFull
    <3> QED
      BY Zenon, <2>2, <3>1
  <2>4. p \in Entropy
    <3>1. p \in [1..Len(p) -> Bit]
      BY LenProperties
    <3> QED
      BY Zenon, <2>2, <3>1 DEF Entropy, n
  <2>5. bs = Whole(p)
    BY Zenon, <2>2, <2>3 DEF Whole
  <2>6. PICK g \in Seq(Nat) : g = Generated(p) /\ Len(g) = Generates
    <3>1. Generated(p) \in Seq(Nat) /\ Len(Generated(p)) = Generates
      BY <2>4, GeneratedFacts
    <3> QED
      BY <3>1
  <2>7. ASSUME NEW k \in 1..Generates PROVE ws[k] = g[k]
    <3>1. Generated(p)[k] = Number(Chunk(Whole(p), k), 2)
      BY <2>4, GeneratedFacts
    <3>2. Number(Unpacked(ws[k]), 2) = ws[k]
      BY <1>0, WordFacts
    <3>3. Chunk(bs, k) = Unpacked(ws[k])
      BY <1>0
    <3> QED
      BY Zenon, <2>5, <2>6, <3>1, <3>2, <3>3
  <2>8. ws = g
    <3>1. Len(ws) = Len(g) /\ \A k \in 1..Len(ws) : ws[k] = g[k]
      BY Zenon, <2>6, <2>7
    <3> QED
      BY <3>1, SeqEqual
  <2> QED
    BY <2>4, <2>6, <2>8
<1>3. ASSUME NEW e \in Entropy, ws = Generated(e) PROVE Checked(bs, Generates)
  <2>1. Spelled(Whole(e), Generates)
    BY GeneratedFacts
  <2>2. ASSUME NEW k \in 1..Generates PROVE Chunk(bs, k) = Chunk(Whole(e), k)
    <3>1. Unpacked(Generated(e)[k]) = Chunk(Whole(e), k)
      BY GeneratedFacts
    <3>2. Chunk(bs, k) = Unpacked(ws[k])
      BY <1>0
    <3> QED
      BY Zenon, <1>3, <3>1, <3>2
  <2>3. bs = Whole(e)
    BY <1>0, <2>1, <2>2, SameChunks
  <2>4. PICK f \in Seq(Bit), d \in Seq(Bit) : /\ f = e /\ Len(f) = n
                                              /\ d = Digest(e) /\ Len(d) = c
    <3>1. e \in Seq(Bit) /\ Len(e) = EntropyBits(Generates)
      BY GeneratedFacts
    <3>2. Digest(e) \in Seq(Bit) /\ Len(Digest(e)) = ByteBits
      BY GeneratedFacts
    <3> QED
      BY <1>1, <3>1, <3>2 DEF n
  <2>5. SubSeq(f \o d, 1, Len(f)) = f
    BY SplitFacts
  <2>6. SubSeq(f \o d, Len(f) + 1, Len(f) + Len(d)) = d
    BY SplitFacts
  <2>7. SubSeq(d, 1, Len(d)) = d
    BY SubSeqFull
  <2> QED
    BY Zenon, <2>3, <2>4, <2>5, <2>6, <2>7 DEF Whole, Checked, n, c
<1> QED
  BY <1>2, <1>3

-----------------------------------------------------------------------------
\* What validate has read, and why it decided as it did.
Accepted(ws, bs) ==
    Len(ws) \in Counts /\ WordsRead(ws, bs, Len(ws)) /\ Checked(bs, Len(ws))
Rejected(ws, bs) ==
    \/ Len(ws) \notin Counts
    \/ \E k \in 1..Len(ws) : ~InList(ws[k])
    \/ WordsRead(ws, bs, Len(ws)) /\ ~Checked(bs, Len(ws))

ReadInv ==
    /\ words \in Seq(Nat)
    /\ validity \in {"unknown", "valid", "invalid", "consumed"}
    /\ validity = "unknown" => \E m \in 0..Len(words) : WordsRead(words, bits, m)
    /\ validity = "valid" => Accepted(words, bits)
    /\ validity = "invalid" => Rejected(words, bits)

LEMMA InitReads == KeypairInit => ReadInv
<1> SUFFICES ASSUME KeypairInit PROVE ReadInv
  OBVIOUS
<1>1. PICK list \in Entered \cup {Generated(e) : e \in Entropy} : Given(list)
  BY DEF KeypairInit, MnemonicInit, Entropy
<1>2. list \in Seq(Nat)
  <2>1. ASSUME NEW e \in Entropy PROVE Generated(e) \in Seq(Nat)
    BY GeneratedFacts
  <2> QED
    BY <2>1, EnteredAssumption
<1>3. words \in Seq(Nat) /\ bits = <<>> /\ validity = "unknown"
  BY <1>1, <1>2 DEF Given
<1>4. WordsRead(words, bits, 0)
  BY Zenon, <1>3, NothingRead
<1>5. 0 \in 0..Len(words)
  BY <1>3
<1> QED
  BY <1>3, <1>4, <1>5 DEF ReadInv

\* Each word that is read adds its bits, and the comparison is that of the checksum.
LEMMA NextReads == ReadInv /\ [KeypairNext]_<<vars, mnemonicVars>> => ReadInv'
<1> SUFFICES ASSUME ReadInv, [KeypairNext]_<<vars, mnemonicVars>> PROVE ReadInv'
  OBVIOUS
<1>0. words \in Seq(Nat) /\ validity \in {"unknown", "valid", "invalid", "consumed"}
  BY DEF ReadInv
<1>1. CASE ReadWord
  <2>0. /\ validity = "unknown" /\ Len(words) \in Counts
        /\ Len(bits) < Len(words) * WordBits
        /\ InList(words[Len(bits) \div WordBits + 1])
        /\ bits' = bits \o Unpacked(words[Len(bits) \div WordBits + 1])
        /\ words' = words /\ validity' = validity
    BY <1>1 DEF ReadWord, Reading
  <2>1. PICK m \in 0..Len(words) : WordsRead(words, bits, m)
    BY <2>0 DEF ReadInv
  <2>2. Stands(bits, m)
    BY <2>1, ReadSoFar DEF WordsRead
  <2>3. Len(bits) \div WordBits = m /\ m < Len(words)
    <3>1. Len(words) \in Nat
      BY <1>0
    <3> QED
      BY <2>0, <2>2, <3>1 DEF Stands
  <2>4. PICK w : w = words[m + 1]
    OBVIOUS
  <2>5. InList(w) /\ bits' = bits \o Unpacked(w)
    BY Zenon, <2>0, <2>3, <2>4
  <2>6. WordsRead(words, bits \o Unpacked(w), m + 1)
    BY <1>0, <2>1, <2>3, <2>4, <2>5, ReadOneMore
  <2>7. m + 1 \in 0..Len(words)
    BY <1>0, <2>3
  <2>8. WordsRead(words', bits', m + 1) /\ m + 1 \in 0..Len(words')
    BY Zenon, <2>0, <2>5, <2>6, <2>7
  <2> QED
    BY <1>0, <2>0, <2>8 DEF ReadInv
<1>2. CASE Compare
  <2>0. /\ validity = "unknown" /\ Len(words) \in Counts
        /\ Len(bits) = Len(words) * WordBits
        /\ words' = words /\ bits' = bits
        /\ validity' = IF Agrees(bits, Len(words)) THEN "valid" ELSE "invalid"
    BY Zenon, <1>2 DEF Compare, Reading, Decided, Masked, Agrees
  <2>1. PICK m \in 0..Len(words) : WordsRead(words, bits, m)
    BY <2>0 DEF ReadInv
  <2>2. Stands(bits, m)
    BY <2>1, ReadSoFar DEF WordsRead
  <2>3. m = Len(words)
    <3>1. Len(words) \in Nat
      BY <1>0
    <3> QED
      BY <2>0, <2>2, <3>1 DEF Stands
  <2>4. WordsRead(words, bits, Len(words))
    BY <2>1, <2>3
  <2>5. Agrees(bits, Len(words)) <=> Checked(bits, Len(words))
    BY <2>0, <2>4, ComparesChecksum DEF WordsRead
  <2>6. CASE Checked(bits, Len(words))
    <3>1. validity' = "valid" /\ Accepted(words, bits)
      BY <2>0, <2>4, <2>5, <2>6 DEF Accepted
    <3>2. Accepted(words', bits')
      BY Zenon, <2>0, <3>1
    <3> QED
      BY <1>0, <2>0, <3>1, <3>2 DEF ReadInv
  <2>7. CASE ~Checked(bits, Len(words))
    <3>1. validity' = "invalid" /\ Rejected(words, bits)
      BY <2>0, <2>4, <2>5, <2>7 DEF Rejected
    <3>2. Rejected(words', bits')
      BY Zenon, <2>0, <3>1
    <3> QED
      BY <1>0, <2>0, <3>1, <3>2 DEF ReadInv
  <2> QED
    BY <2>6, <2>7
<1>3. CASE InvalidMnemonic
  <2>0. /\ validity = "unknown" /\ validity' = "invalid" /\ words' = words /\ bits' = bits
    BY <1>3 DEF InvalidMnemonic, Decided
  <2>1. Rejected(words, bits)
    <3>1. CASE Len(words) \notin Counts
      BY <3>1 DEF Rejected
    <3>2. CASE /\ Len(bits) < Len(words) * WordBits
               /\ ~InList(words[Len(bits) \div WordBits + 1])
      <4>1. PICK m \in 0..Len(words) : WordsRead(words, bits, m)
        BY <2>0 DEF ReadInv
      <4>2. Stands(bits, m)
        BY <4>1, ReadSoFar DEF WordsRead
      <4>3. Len(bits) \div WordBits = m /\ m < Len(words)
        <5>1. Len(words) \in Nat
          BY <1>0
        <5> QED
          BY <3>2, <4>2, <5>1 DEF Stands
      <4>4. m + 1 \in 1..Len(words)
        BY <1>0, <4>3
      <4>5. ~InList(words[m + 1])
        BY Zenon, <3>2, <4>3
      <4> QED
        BY Zenon, <4>4, <4>5 DEF Rejected
    <3> QED
      BY <1>3, <3>1, <3>2 DEF InvalidMnemonic
  <2>2. Rejected(words', bits')
    BY Zenon, <2>0, <2>1
  <2> QED
    BY <1>0, <2>0, <2>2 DEF ReadInv
<1>4. CASE FromMnemonic
  <2>1. words' \in Seq(Nat) /\ validity' = "consumed"
    BY <1>4 DEF FromMnemonic
  <2> QED
    BY <2>1 DEF ReadInv
<1>5. CASE UNCHANGED mnemonicVars
  <2>1. words' = words /\ bits' = bits /\ validity' = validity
    BY <1>5 DEF mnemonicVars
  <2> QED
    BY Zenon, <2>1 DEF ReadInv
<1> QED
  BY <1>1, <1>2, <1>3, <1>4, <1>5 DEF KeypairNext, Validate

LEMMA ReadsAsDocumented == ReadInv => ValidAsDocumented
<1> SUFFICES ASSUME ReadInv, validity \in {"valid", "invalid"} PROVE ValidAsDocumented
  BY Zenon DEF ValidAsDocumented
<1>0. words \in Seq(Nat)
  BY DEF ReadInv
<1> DEFINE All == \A k \in 1..Len(words) : InList(words[k])
           Made == words \in {Generated(e) : e \in Entropy}
<1>1. ASSUME Len(words) \in Counts, WordsRead(words, bits, Len(words))
      PROVE  /\ Checked(bits, Len(words)) <=> ChecksumMatches(words)
             /\ Len(words) = Generates => (Checked(bits, Len(words)) <=> Made)
             /\ All
  <2>1. Checked(bits, Len(words)) <=> ChecksumMatches(words)
    BY <1>0, <1>1, ChecksumIsNumber
  <2>2. ASSUME Len(words) = Generates PROVE Checked(bits, Len(words)) <=> Made
    <3>1. WordsRead(words, bits, Generates)
      BY Zenon, <1>1, <2>2
    <3>2. Checked(bits, Generates) <=> \E e \in Entropy : words = Generated(e)
      BY <1>0, <2>2, <3>1, AcceptedGenerated
    <3> QED
      BY Zenon, <2>2, <3>2
  <2>3. All
    BY Zenon, <1>1 DEF WordsRead
  <2> QED
    BY <2>1, <2>2, <2>3
<1>2. ASSUME Made PROVE All
  <2>1. PICK e \in Entropy : words = Generated(e)
    BY Zenon, <1>2
  <2>2. Len(words) = Generates /\ \A k \in 1..Generates : InList(words[k])
    BY <2>1, GeneratedFacts
  <2> QED
    BY Zenon, <2>2
<1>3. validity = "valid" <=> Len(words) \in Counts /\ All /\ ChecksumMatches(words)
  <2>1. CASE validity = "valid"
    <3>1. Accepted(words, bits)
      BY <2>1 DEF ReadInv
    <3> QED
      BY Zenon, <1>1, <2>1, <3>1 DEF Accepted
  <2>2. CASE validity = "invalid"
    <3>1. Rejected(words, bits) /\ validity # "valid"
      BY <2>2 DEF ReadInv
    <3> QED
      BY Zenon, <1>1, <3>1 DEF Rejected
  <2> QED
    BY <2>1, <2>2
<1>4. Len(words) = Generates => (validity = "valid" <=> Made)
  <2>0. Generates \in Counts
    BY MnemonicAssumption
  <2>1. CASE validity = "valid"
    <3>1. Accepted(words, bits)
      BY <2>1 DEF ReadInv
    <3> QED
      BY Zenon, <1>1, <2>1, <3>1 DEF Accepted
  <2>2. CASE validity = "invalid"
    <3>1. Rejected(words, bits) /\ validity # "valid"
      BY <2>2 DEF ReadInv
    <3> QED
      BY Zenon, <1>1, <1>2, <2>0, <3>1 DEF Rejected
  <2> QED
    BY <2>1, <2>2
<1> HIDE DEF All, Made
<1> QED
  BY Zenon, <1>3, <1>4 DEF ValidAsDocumented, ChecksumMatches, All, Made, Entropy

\* validate accepts, for every number of words there is, exactly the mnemonics whose
\* last bits are as many of the digest of the ones before; and of the length that is
\* generated exactly those that generate_mnemonic makes.
THEOREM AcceptsDocumented == KeypairSpec => []ValidAsDocumented
BY InitReads, NextReads, ReadsAsDocumented, PTL DEF KeypairSpec

\* A key pair made from a mnemonic moves as the positions do, so that all they promise
\* holds of it: one signature for a position, and NextPosition is the next one.
THEOREM KeypairSigns == KeypairSpec => Spec
<1>1. KeypairInit => Init
  BY DEF KeypairInit
<1>2. [KeypairNext]_<<vars, mnemonicVars>> => [Next]_vars
  BY DEF KeypairNext, FromMnemonic
<1> QED
  BY <1>1, <1>2, PTL DEF KeypairSpec, Spec
=============================================================================
