------------------------- MODULE SendPipelineProofs -------------------------
(***************************************************************************)
(* Proofs about the legacy message and the pipeline that sends it: for     *)
(* every request, every limit and every answer of a node.                  *)
(***************************************************************************)
EXTENDS VersionedTransaction, FoldFacts

Instr == [program : Key, accounts : Seq(MetaOf(Key)), size : Nat, limit : Nat]

-----------------------------------------------------------------------------
\* Compact lengths: the bytes of encode_compact_u16 as the solution of a recursion,
\* and compact_u16_len as their number.
Byted(h, v) == IF v < Radix THEN <<v>> ELSE <<(v % Radix) + Radix>> \o h[v \div Radix]
Bytes(h) == h = [v \in Nat |-> Byted(h, v)]
BytesUpto(n, h) == h = [v \in 0..n |-> Byted(h, v)]
BytesTo(n) == CHOOSE h : BytesUpto(n, h)

LEMMA Smaller ==
    ASSUME NEW v \in Nat, v >= Radix
    PROVE  v \div Radix \in Nat /\ v \div Radix < v
<1>1. Radix \in Nat /\ Radix >= 2
  BY MessageAssumption
<1> QED
  BY <1>1, Z3

LEMMA Remainder ==
    ASSUME NEW v \in Nat
    PROVE  (v % Radix) + Radix \in Nat
<1>1. Radix \in Nat /\ Radix >= 2
  BY MessageAssumption
<1>2. v % Radix \in Nat
  BY <1>1
<1> QED
  BY <1>1, <1>2

LEMMA BytesToExists ==
    ASSUME NEW n \in Nat
    PROVE  BytesUpto(n, BytesTo(n))
<1> DEFINE T == {m \in Nat : \E h : BytesUpto(m, h)}
<1>0. Radix \in Nat /\ Radix >= 2
  BY MessageAssumption
<1>1. 0 \in T
  <2> DEFINE h == [v \in 0..0 |-> <<v>>]
  <2>1. BytesUpto(0, h)
    BY <1>0 DEF BytesUpto, Byted
  <2> HIDE DEF h
  <2> QED
    BY <2>1
<1>2. ASSUME NEW m \in Nat, m \in T PROVE m + 1 \in T
  <2>1. PICK h : BytesUpto(m, h)
    BY <1>2
  <2> DEFINE g == [v \in 0..(m + 1) |-> Byted(h, v)]
  <2>2. \A v \in 0..m : g[v] = h[v]
    BY <2>1 DEF BytesUpto
  <2>3. ASSUME NEW v \in 0..(m + 1) PROVE Byted(g, v) = Byted(h, v)
    <3>1. CASE v < Radix
      BY <3>1 DEF Byted
    <3>2. CASE ~(v < Radix)
      <4>1. v \div Radix \in 0..m
        <5>1. v \in Nat /\ v >= Radix
          BY <1>0, <3>2
        <5> QED
          BY <5>1, Smaller
      <4>2. g[v \div Radix] = h[v \div Radix]
        BY <2>2, <4>1
      <4> HIDE DEF g
      <4> QED
        BY <3>2, <4>2 DEF Byted
    <3> QED
      BY <3>1, <3>2
  <2>4. BytesUpto(m + 1, g)
    BY <2>3 DEF BytesUpto
  <2> HIDE DEF g
  <2> QED
    BY <2>4
<1> HIDE DEF T
<1>3. n \in T
  BY <1>1, <1>2, NumberInduction
<1> QED
  BY <1>3 DEF T, BytesTo

LEMMA BytesToAgree ==
    ASSUME NEW m \in Nat, NEW n \in Nat, NEW v \in Nat, v <= m, v <= n
    PROVE  BytesTo(m)[v] = BytesTo(n)[v]
<1> DEFINE T == {w \in Nat : w <= m /\ w <= n /\ BytesTo(m)[w] # BytesTo(n)[w]}
<1>1. SUFFICES ASSUME T # {} PROVE FALSE
  OBVIOUS
<1>2. PICK w \in T : \A u \in T : w <= u
  BY <1>1, LeastNumber
<1>3. w \in Nat /\ w <= m /\ w <= n /\ BytesTo(m)[w] # BytesTo(n)[w]
  BY <1>2
<1>4. BytesTo(m)[w] = Byted(BytesTo(m), w) /\ BytesTo(n)[w] = Byted(BytesTo(n), w)
  BY <1>3, BytesToExists DEF BytesUpto
<1>5. ~(w < Radix)
  BY <1>3, <1>4 DEF Byted
<1>6. w \div Radix \in Nat /\ w \div Radix < w
  BY <1>3, <1>5, Smaller, MessageAssumption
<1>7. w \div Radix \notin T
  BY <1>2, <1>3, <1>6
<1>8. BytesTo(m)[w \div Radix] = BytesTo(n)[w \div Radix]
  BY <1>3, <1>6, <1>7
<1> QED
  BY <1>3, <1>4, <1>5, <1>8 DEF Byted

LEMMA BytesExist == \E h : Bytes(h)
<1> DEFINE h == [v \in Nat |-> BytesTo(v)[v]]
<1>1. ASSUME NEW v \in Nat PROVE h[v] = Byted(h, v)
  <2>1. BytesTo(v)[v] = Byted(BytesTo(v), v)
    BY BytesToExists DEF BytesUpto
  <2>2. CASE v < Radix
    BY <2>1, <2>2 DEF Byted
  <2>3. CASE ~(v < Radix)
    <3> DEFINE w == v \div Radix
    <3>1. w \in Nat /\ w < v
      BY <2>3, Smaller, MessageAssumption
    <3> HIDE DEF w
    <3>2. BytesTo(v)[w] = BytesTo(w)[w]
      BY <3>1, BytesToAgree
    <3>3. h[w] = BytesTo(v)[w] /\ h[v] = BytesTo(v)[v]
      BY <3>1, <3>2
    <3> HIDE DEF h
    <3> QED
      BY <2>1, <2>3, <3>3 DEF Byted, w
  <2> QED
    BY <2>2, <2>3
<1>2. Bytes(h)
  <2>1. h = [v \in Nat |-> h[v]]
    OBVIOUS
  <2> QED
    BY <1>1, <2>1 DEF Bytes
<1> HIDE DEF h
<1> QED
  BY <1>2

EncodedBytes == CHOOSE h : Bytes(h)
Lengths(h) == h = [v \in Nat |-> IF v >= Radix THEN 1 + h[v \div Radix] ELSE 1]

\* Both recursions have a solution, and the second counts the bytes of the first.
LEMMA BytesType ==
    /\ Bytes(EncodedBytes)
    /\ \A v \in Nat : EncodedBytes[v] \in Seq(Nat) /\ Len(EncodedBytes[v]) \in Nat \ {0}
<1>0. Radix \in Nat /\ Radix >= 2
  BY MessageAssumption
<1>1. Bytes(EncodedBytes)
  BY BytesExist DEF EncodedBytes
<1> DEFINE T == {v \in Nat : ~(EncodedBytes[v] \in Seq(Nat) /\ Len(EncodedBytes[v]) \in Nat \ {0})}
<1>2. ASSUME T # {} PROVE FALSE
  <2>1. PICK w \in T : \A u \in T : w <= u
    BY <1>2, LeastNumber
  <2>5. w \in Nat
    OBVIOUS
  <2>6. ~(EncodedBytes[w] \in Seq(Nat) /\ Len(EncodedBytes[w]) \in Nat \ {0})
    BY <2>1
  <2>7. \A u \in Nat : u < w => u \notin T
    BY <2>1
  <2>2. EncodedBytes[w] = Byted(EncodedBytes, w)
    BY <1>1, <2>1 DEF Bytes
  <2>3. CASE w < Radix
    <3>1. EncodedBytes[w] = <<w>>
      BY <2>2, <2>3 DEF Byted
    <3>2. <<w>> \in Seq(Nat) /\ Len(<<w>>) = 1
      BY <2>5
    <3> QED
      BY <2>6, <3>1, <3>2
  <2>4. CASE ~(w < Radix)
    <3> DEFINE u == w \div Radix
    <3>1. u \in Nat /\ u < w
      <4>1. w >= Radix
        BY <1>0, <2>4, <2>5
      <4> QED
        BY <2>5, <4>1, Smaller
    <3>2. EncodedBytes[w] = <<(w % Radix) + Radix>> \o EncodedBytes[u]
      BY <2>2, <2>4 DEF Byted
    <3>4. EncodedBytes[u] \in Seq(Nat)
      <4>1. u \notin T
        BY <2>7, <3>1
      <4> QED
        BY <3>1, <4>1
    <3> HIDE DEF u
    <3>5. PICK s \in Seq(Nat) : s = EncodedBytes[u]
      BY <3>4
    <3>6. PICK d \in Nat : d = (w % Radix) + Radix
      BY <2>5, Remainder
    <3>7. <<d>> \o s \in Seq(Nat) /\ Len(<<d>> \o s) = 1 + Len(s) /\ Len(s) \in Nat
      OBVIOUS
    <3> QED
      BY <2>6, <3>2, <3>5, <3>6, <3>7
  <2> QED
    BY <2>3, <2>4
<1> QED
  BY <1>1, <1>2

LEMMA LengthsAgree ==
    ASSUME NEW g, NEW h, Lengths(g), Lengths(h)
    PROVE  \A v \in Nat : g[v] = h[v]
<1> DEFINE T == {v \in Nat : g[v] # h[v]}
<1>1. SUFFICES ASSUME T # {} PROVE FALSE
  OBVIOUS
<1>2. PICK w \in T : \A u \in T : w <= u
  BY <1>1, LeastNumber
<1>3. g[w] = (IF w >= Radix THEN 1 + g[w \div Radix] ELSE 1)
      /\ h[w] = (IF w >= Radix THEN 1 + h[w \div Radix] ELSE 1)
  BY <1>2 DEF Lengths
<1>4. w >= Radix
  BY <1>2, <1>3
<1>5. w \div Radix \in Nat /\ w \div Radix < w
  BY <1>2, <1>4, Smaller
<1>6. w \div Radix \notin T
  BY <1>2, <1>5
<1> QED
  BY <1>2, <1>3, <1>4, <1>5, <1>6

LEMMA CompactLenIsExact ==
    ASSUME NEW n \in Nat
    PROVE  /\ CompactLen(n) \in Nat \ {0}
           /\ n < Word => Len(EncodeCompact(n)) = CompactLen(n)
<1>0. Radix \in Nat /\ Radix >= 2 /\ Word \in Nat \ {0}
  BY MessageAssumption
<1> DEFINE h == [v \in Nat |-> Len(EncodedBytes[v])]
<1>1. ASSUME NEW v \in Nat
      PROVE  h[v] = IF v >= Radix THEN 1 + h[v \div Radix] ELSE 1
  <2>1. EncodedBytes[v] = Byted(EncodedBytes, v)
    BY BytesType DEF Bytes
  <2>2. CASE v >= Radix
    <3>1. v \div Radix \in Nat
      BY <2>2, Smaller
    <3>2. EncodedBytes[v] = <<(v % Radix) + Radix>> \o EncodedBytes[v \div Radix]
      BY <1>0, <2>1, <2>2 DEF Byted
    <3>3. PICK s \in Seq(Nat) : s = EncodedBytes[v \div Radix]
      BY <3>1, BytesType
    <3>4. PICK d \in Nat : d = (v % Radix) + Radix
      BY Remainder
    <3>5. Len(<<d>> \o s) = 1 + Len(s)
      OBVIOUS
    <3> QED
      BY <2>2, <3>1, <3>2, <3>3, <3>4, <3>5
  <2>3. CASE ~(v >= Radix)
    <3>1. EncodedBytes[v] = <<v>>
      BY <1>0, <2>1, <2>3 DEF Byted
    <3> QED
      BY <2>3, <3>1
  <2> QED
    BY <2>2, <2>3
<1>2. Lengths(h)
  <2>1. h = [v \in Nat |-> h[v]]
    OBVIOUS
  <2> HIDE DEF h
  <2> QED
    BY <1>1, <2>1 DEF Lengths
<1> DEFINE len == CHOOSE g : Lengths(g)
<1>3. Lengths(len)
  <2> HIDE DEF h
  <2> QED
    BY <1>2
<1>4. CompactLen(n) = len[n]
  BY Zenon DEF CompactLen, Lengths
<1>5. CompactLen(n) = Len(EncodedBytes[n])
  <2>1. len[n] = h[n]
    <3> HIDE DEF len, h
    <3> QED
      BY <1>2, <1>3, LengthsAgree
  <2> QED
    BY <1>4, <2>1
<1>6. n < Word => n % Word = n
  BY <1>0
<1>7. EncodeCompact(n) = EncodedBytes[n % Word]
  BY Zenon DEF EncodeCompact, EncodedBytes, Bytes, Byted
<1> QED
  BY <1>5, <1>6, <1>7, BytesType

-----------------------------------------------------------------------------
\* The metas of a list of instructions.
LEMMA MetasOfFacts ==
    ASSUME NEW ix \in Instr
    PROVE  /\ MetasOf(ix) \in Seq(MetaOf(Key))
           /\ ToSet(MetasOf(ix)) = {Meta(ix.program, FALSE, FALSE)} \cup ToSet(ix.accounts)
<1>1. Meta(ix.program, FALSE, FALSE) \in MetaOf(Key) /\ ix.accounts \in Seq(MetaOf(Key))
  BY DEF Meta, MetaOf, Instr
<1>2. PICK m \in MetaOf(Key) : m = Meta(ix.program, FALSE, FALSE)
  BY <1>1
<1>4. PICK accs \in Seq(MetaOf(Key)) : accs = ix.accounts
  BY <1>1
<1>5. MetasOf(ix) = <<m>> \o accs
  BY <1>2, <1>4 DEF MetasOf
<1>6. <<m>> \o accs \in Seq(MetaOf(Key)) /\ ToSet(<<m>> \o accs) = {m} \cup ToSet(accs)
  BY PrependElements
<1> QED
  BY <1>2, <1>4, <1>5, <1>6

PayerMeta == Meta(Payer, TRUE, TRUE)

LEMMA AllMetasFacts ==
    ASSUME NEW ixs \in Seq(Instr)
    PROVE  /\ AllMetas(ixs) \in Seq(MetaOf(Key))
           /\ ToSet(AllMetas(ixs))
                 = {PayerMeta} \cup UNION {ToSet(MetasOf(ixs[k])) : k \in DOMAIN ixs}
<1> DEFINE lists == [k \in DOMAIN ixs |-> MetasOf(ixs[k])]
<1>1. PayerMeta \in MetaOf(Key)
  BY RequestsAssumption DEF PayerMeta, Meta, MetaOf
<1>2. lists \in Seq(Seq(MetaOf(Key))) /\ DOMAIN lists = DOMAIN ixs
      /\ \A k \in DOMAIN ixs : lists[k] = MetasOf(ixs[k])
  <2>1. ASSUME NEW k \in 1..Len(ixs) PROVE MetasOf(ixs[k]) \in Seq(MetaOf(Key))
    <3>1. ixs[k] \in Instr
      OBVIOUS
    <3> QED
      BY <3>1, MetasOfFacts
  <2>2. DOMAIN ixs = 1..Len(ixs) /\ Len(ixs) \in Nat
    OBVIOUS
  <2> QED
    BY <2>1, <2>2
<1>3. PICK m \in MetaOf(Key) : m = PayerMeta
  BY <1>1
<1>4. AllMetas(ixs) = <<m>> \o FlattenSeq(lists)
  BY <1>3 DEF AllMetas, PayerMeta
<1> HIDE DEF lists
<1>5. FlattenSeq(lists) \in Seq(MetaOf(Key))
      /\ ToSet(FlattenSeq(lists)) = UNION {ToSet(lists[k]) : k \in DOMAIN lists}
  BY <1>2, FlattenType
<1>7. UNION {ToSet(lists[k]) : k \in DOMAIN lists}
        = UNION {ToSet(MetasOf(ixs[k])) : k \in DOMAIN ixs}
  BY <1>2
<1>8. PICK rest \in Seq(MetaOf(Key)) : rest = FlattenSeq(lists)
  BY <1>5
<1>9. <<m>> \o rest \in Seq(MetaOf(Key)) /\ ToSet(<<m>> \o rest) = {m} \cup ToSet(rest)
  BY PrependElements
<1>10. AllMetas(ixs) = <<m>> \o rest
  BY <1>4, <1>8
<1>11. ToSet(rest) = UNION {ToSet(MetasOf(ixs[k])) : k \in DOMAIN ixs}
  BY <1>5, <1>7, <1>8
<1> QED
  BY <1>3, <1>9, <1>10, <1>11

\* The limit in front is in no meta and counts for nothing in the size.
Alike(ixs, jxs) ==
    /\ Len(ixs) = Len(jxs)
    /\ \A k \in 1..Len(ixs) : /\ ixs[k].program = jxs[k].program
                              /\ ixs[k].accounts = jxs[k].accounts
                              /\ ixs[k].size = jxs[k].size

LEMMA AlikeFacts ==
    ASSUME NEW ixs \in Seq(Instr), NEW jxs \in Seq(Instr), Alike(ixs, jxs)
    PROVE  /\ AllMetas(ixs) = AllMetas(jxs)
           /\ \A accs : Estimate(accs, ixs) = Estimate(accs, jxs)
           /\ PayerOnlySigns(ixs) <=> PayerOnlySigns(jxs)
<1>1. DOMAIN ixs = 1..Len(ixs) /\ DOMAIN jxs = 1..Len(ixs) /\ Len(ixs) = Len(jxs)
  BY DEF Alike
<1>2. [k \in DOMAIN ixs |-> MetasOf(ixs[k])] = [k \in DOMAIN jxs |-> MetasOf(jxs[k])]
  BY <1>1 DEF Alike, MetasOf
<1>3. AllMetas(ixs) = AllMetas(jxs)
  BY <1>2 DEF AllMetas
<1>4. ASSUME NEW accs PROVE Estimate(accs, ixs) = Estimate(accs, jxs)
  <2> DEFINE Size(ix) == 1 + CompactLen(Len(ix.accounts)) + Len(ix.accounts)
                           + CompactLen(ix.size) + ix.size
  <2>1. \A k \in 1..Len(ixs) : Size(ixs[k]) = Size(jxs[k])
    BY DEF Alike
  <2>2. [k \in DOMAIN ixs |-> Size(ixs[k])] = [k \in DOMAIN jxs |-> Size(jxs[k])]
    <3> HIDE DEF Size
    <3> QED
      BY <1>1, <2>1
  <2> QED
    BY <1>1, <2>2, Zenon DEF Estimate
<1>5. PayerOnlySigns(ixs) <=> PayerOnlySigns(jxs)
  BY <1>1 DEF PayerOnlySigns, Alike
<1> QED
  BY <1>3, <1>4, <1>5

LEMMA WithFacts ==
    ASSUME NEW req \in Requests, NEW limit \in Nat, NEW with, with = WithComputeBudget(req, limit)
    PROVE  /\ with \in Seq(Instr)
           /\ req \in Seq(Instr)
           /\ Len(with) = 2 + Len(req)
           /\ with[1] = [program |-> BudgetProgram, accounts |-> <<>>, size |-> 5, limit |-> limit]
           /\ with[2] = [program |-> BudgetProgram, accounts |-> <<>>, size |-> 9, limit |-> 0]
           /\ \A k \in 3..(2 + Len(req)) : with[k] = req[k - 2]
<1> DEFINE Ix(size, l) == [program |-> BudgetProgram, accounts |-> <<>>, size |-> size, limit |-> l]
<1>1. req \in Seq(Instr)
  BY RequestsAssumption DEF Instr, MetaOf
<1>2. \A size, l \in Nat : Ix(size, l) \in Instr
  BY RequestsAssumption DEF Instr
<1>3. PICK i \in Instr : i = Ix(5, limit)
  BY <1>2
<1>4. PICK j \in Instr : j = Ix(9, 0)
  BY <1>2
<1>5. with = <<i, j>> \o req
  BY <1>3, <1>4 DEF WithComputeBudget
<1> HIDE DEF Ix
<1>6. /\ with \in Seq(Instr) /\ Len(with) = 2 + Len(req) /\ with[1] = i /\ with[2] = j
      /\ \A k \in 3..(2 + Len(req)) : with[k] = req[k - 2]
  BY <1>1, <1>5
<1> QED
  BY <1>1, <1>3, <1>4, <1>6 DEF Ix

LEMMA BudgetFacts ==
    ASSUME NEW req \in Requests, NEW limit \in Nat, NEW with, with = WithComputeBudget(req, limit)
    PROVE  /\ with \in Seq(Instr)
           /\ with[1].limit = limit
           /\ Len(with) \in Nat \ {0}
           /\ Alike(with, WithComputeBudget(req, 0))
           /\ PayerOnlySigns(with) => PayerOnlySigns(req)
<1>1. PICK zero : zero = WithComputeBudget(req, 0)
  OBVIOUS
<1>2. /\ with \in Seq(Instr) /\ req \in Seq(Instr) /\ Len(with) = 2 + Len(req)
      /\ with[1] = [program |-> BudgetProgram, accounts |-> <<>>, size |-> 5, limit |-> limit]
      /\ with[2] = [program |-> BudgetProgram, accounts |-> <<>>, size |-> 9, limit |-> 0]
      /\ \A k \in 3..(2 + Len(req)) : with[k] = req[k - 2]
  BY WithFacts
<1>3. /\ Len(zero) = 2 + Len(req)
      /\ zero[1] = [program |-> BudgetProgram, accounts |-> <<>>, size |-> 5, limit |-> 0]
      /\ zero[2] = [program |-> BudgetProgram, accounts |-> <<>>, size |-> 9, limit |-> 0]
      /\ \A k \in 3..(2 + Len(req)) : zero[k] = req[k - 2]
  BY <1>1, WithFacts
<1>4. with[1].limit = limit /\ Len(with) \in Nat \ {0}
  BY <1>2
<1>5. Alike(with, zero)
  <2>1. ASSUME NEW k \in 1..Len(with)
        PROVE  /\ with[k].program = zero[k].program
               /\ with[k].accounts = zero[k].accounts
               /\ with[k].size = zero[k].size
    <3>1. k = 1 \/ k = 2 \/ k \in 3..(2 + Len(req))
      BY <1>2
    <3> QED
      BY <1>2, <1>3, <3>1
  <2> QED
    BY <1>2, <1>3, <2>1 DEF Alike
<1>6. ASSUME PayerOnlySigns(with) PROVE PayerOnlySigns(req)
  <2>1. SUFFICES ASSUME NEW k \in DOMAIN req, NEW j \in DOMAIN req[k].accounts,
                        req[k].accounts[j].signer
                 PROVE  req[k].accounts[j].key = Payer
    BY DEF PayerOnlySigns
  <2>2. k + 2 \in 3..(2 + Len(req)) /\ (k + 2) - 2 = k
    BY <1>2
  <2>3. with[k + 2] = req[k] /\ k + 2 \in DOMAIN with
    BY <1>2, <2>2
  <2> QED
    BY <1>6, <2>1, <2>3 DEF PayerOnlySigns
<1> QED
  BY <1>1, <1>2, <1>4, <1>5, <1>6

-----------------------------------------------------------------------------
\* What a list of accounts is, collected from all metas of instructions that only the
\* payer signs.
All(accs, ixs) == Gathered(Key, accs, AllMetas(ixs), Len(AllMetas(ixs)))

LEMMA MetaOfInstruction ==
    ASSUME NEW ixs \in Seq(Instr), NEW m \in ToSet(AllMetas(ixs)), PayerOnlySigns(ixs), m.signer
    PROVE  m.key = Payer
<1>1. CASE m = PayerMeta
  BY <1>1 DEF PayerMeta, Meta
<1>2. CASE m # PayerMeta
  <2>1. PICK k \in DOMAIN ixs : m \in ToSet(MetasOf(ixs[k]))
    BY <1>2, AllMetasFacts
  <2>2. ixs[k] \in Instr
    OBVIOUS
  <2>3. m = Meta(ixs[k].program, FALSE, FALSE) \/ m \in ToSet(ixs[k].accounts)
    BY <2>1, <2>2, MetasOfFacts
  <2>4. m \in ToSet(ixs[k].accounts)
    BY <2>3 DEF Meta
  <2> QED
    BY <2>4 DEF ToSet, PayerOnlySigns
<1> QED
  BY <1>1, <1>2

LEMMA AllFacts ==
    ASSUME NEW ixs \in Seq(Instr), NEW accs, All(accs, ixs), PayerOnlySigns(ixs)
    PROVE  /\ accs \in Seq(MetaOf(Key)) /\ Distinct(accs) /\ PayerSigns(Payer, accs)
           /\ \A m \in ToSet(AllMetas(ixs)) :
                 \E a \in ToSet(accs) : /\ a.key = m.key
                                        /\ m.signer => a.signer
                                        /\ m.writable => a.writable
           /\ \A a \in ToSet(accs) :
                 /\ a.signer => \E m \in ToSet(AllMetas(ixs)) : m.key = a.key /\ m.signer
                 /\ a.writable => \E m \in ToSet(AllMetas(ixs)) : m.key = a.key /\ m.writable
<1> DEFINE list == AllMetas(ixs)
           n == Len(list)
<1>1. list \in Seq(MetaOf(Key)) /\ PayerMeta \in ToSet(list)
  BY AllMetasFacts
<1>2. DOMAIN list = 1..n /\ n \in Nat
  BY <1>1
<1>3. ToSet(list) = {list[j] : j \in 1..n}
  BY <1>2 DEF ToSet
<1> HIDE DEF list
<1>4. /\ accs \in Seq(MetaOf(Key))
      /\ Distinct(accs)
      /\ \A j \in 1..n : \E i \in DOMAIN accs : accs[i].key = list[j].key
      /\ \A i \in DOMAIN accs :
            /\ accs[i].signer <=> \E j \in 1..n : list[j].key = accs[i].key /\ list[j].signer
            /\ accs[i].writable <=> \E j \in 1..n : list[j].key = accs[i].key /\ list[j].writable
  BY DEF All, Gathered, Asks, list
<1>5. ASSUME NEW m \in ToSet(list)
      PROVE  \E a \in ToSet(accs) : /\ a.key = m.key
                                    /\ m.signer => a.signer
                                    /\ m.writable => a.writable
  <2>1. PICK j \in 1..n : m = list[j]
    BY <1>3
  <2>2. PICK i \in DOMAIN accs : accs[i].key = list[j].key
    BY <1>4
  <2>3. accs[i] \in ToSet(accs)
    BY DEF ToSet
  <2> QED
    BY <1>4, <2>1, <2>2, <2>3
<1>6. ASSUME NEW a \in ToSet(accs)
      PROVE  /\ a.signer => \E m \in ToSet(list) : m.key = a.key /\ m.signer
             /\ a.writable => \E m \in ToSet(list) : m.key = a.key /\ m.writable
  <2>1. PICK i \in DOMAIN accs : a = accs[i]
    BY DEF ToSet
  <2> QED
    BY <1>3, <1>4, <2>1
<1>7. PayerSigns(Payer, accs)
  <2>1. PICK p \in ToSet(accs) : p.key = Payer /\ p.signer /\ p.writable
    BY <1>1, <1>5 DEF PayerMeta, Meta
  <2>2. ASSUME NEW a \in ToSet(accs), a.signer PROVE a.key = Payer
    BY <1>6, <2>2, MetaOfInstruction DEF list
  <2>3. ASSUME NEW a \in ToSet(accs), a.key = Payer PROVE a = p
    BY <1>4, <2>1, <2>3 DEF Distinct, ToSet
  <2> QED
    BY <2>1, <2>2, <2>3 DEF PayerSigns
<1> QED
  BY <1>4, <1>5, <1>6, <1>7 DEF list

-----------------------------------------------------------------------------
\* The size of the message that is built is the size that was estimated.
SizeOf(ix) == 1 + CompactLen(Len(ix.accounts)) + Len(ix.accounts) + CompactLen(ix.size) + ix.size
WireOf(ix) == 1 + Len(EncodeCompact(Len(ix.accounts))) + Len(ix.accounts)
                + Len(EncodeCompact(ix.size)) + ix.size
SumOf(ixs) == Total([k \in DOMAIN ixs |-> SizeOf(ixs[k])])

LEMMA SumFacts ==
    ASSUME NEW ixs \in Seq(Instr)
    PROVE  /\ SumOf(ixs) \in Nat
           /\ Len(ixs) <= SumOf(ixs)
           /\ \A k \in 1..Len(ixs) : SizeOf(ixs[k]) \in Nat /\ SizeOf(ixs[k]) <= SumOf(ixs)
                                     /\ Len(ixs[k].accounts) \in Nat /\ ixs[k].size \in Nat
                                     /\ Len(ixs[k].accounts) <= SizeOf(ixs[k])
                                     /\ ixs[k].size <= SizeOf(ixs[k])
<1> DEFINE f == [k \in DOMAIN ixs |-> SizeOf(ixs[k])]
           n == Len(ixs)
<1>1. n \in Nat /\ DOMAIN ixs = 1..n
  OBVIOUS
<1>2. SumOf(ixs) = SumFunctionOnSet(f, 1..n)
  <2>1. Total(f) = SumFunctionOnSet(f, DOMAIN f)
    BY Zenon DEF Total, FoldSeq, FoldFunction, SumFunctionOnSet
  <2>2. DOMAIN f = 1..n
    BY <1>1
  <2> QED
    BY <2>1, <2>2 DEF SumOf
<1>3. ASSUME NEW k \in 1..n
      PROVE  /\ SizeOf(ixs[k]) \in Nat \ {0}
             /\ Len(ixs[k].accounts) \in Nat /\ ixs[k].size \in Nat
             /\ Len(ixs[k].accounts) <= SizeOf(ixs[k])
             /\ ixs[k].size <= SizeOf(ixs[k])
  <2>1. ixs[k] \in Instr
    OBVIOUS
  <2>2. Len(ixs[k].accounts) \in Nat /\ ixs[k].size \in Nat
    BY <2>1 DEF Instr
  <2>3. CompactLen(Len(ixs[k].accounts)) \in Nat /\ CompactLen(ixs[k].size) \in Nat
    BY <2>2, CompactLenIsExact
  <2>4. PICK a \in Nat, b \in Nat, c \in Nat, d \in Nat :
          /\ a = Len(ixs[k].accounts) /\ b = ixs[k].size
          /\ c = CompactLen(Len(ixs[k].accounts)) /\ d = CompactLen(ixs[k].size)
    BY <2>2, <2>3
  <2>5. SizeOf(ixs[k]) = 1 + c + a + d + b
    BY <2>4, Zenon DEF SizeOf
  <2>6. /\ 1 + c + a + d + b \in Nat \ {0}
        /\ a <= 1 + c + a + d + b /\ b <= 1 + c + a + d + b
    OBVIOUS
  <2> QED
    BY <2>2, <2>4, <2>5, <2>6, Zenon
<1>4. \A k \in 1..n : f[k] = SizeOf(ixs[k])
  BY <1>1
<1>5. \A k \in 1..n : f[k] \in Nat \ {0}
  BY <1>3, <1>4
<1>6. IsFiniteSet(1..n)
  BY <1>1, FS_Interval
<1> HIDE DEF f
<1>7. SumFunctionOnSet(f, 1..n) \in Nat /\ n <= SumFunctionOnSet(f, 1..n)
      /\ \A k \in 1..n : f[k] <= SumFunctionOnSet(f, 1..n)
  BY <1>1, <1>5, <1>6, SumNat, SumBounds, SumCounts
<1> QED
  BY <1>2, <1>3, <1>4, <1>7

LEMMA SizeIsEstimate ==
    ASSUME NEW ixs \in Seq(Instr), NEW s \in Seq(MetaOf(Key)), Len(Signers(s)) = 1, Sendable(s, ixs)
    PROVE  WireSize(Built(s, ixs)) = Estimate(s, ixs)
<1> DEFINE msg == Built(s, ixs)
           n == Len(ixs)
           total == SumOf(ixs)
<1>0. Word \in Nat /\ Byte < Word /\ SizeLimit < Word /\ SizeLimit \in Nat /\ Byte \in Nat
      /\ KeySize \in Nat /\ SignatureSize \in Nat /\ HashSize \in Nat
  BY MessageAssumption
<1>1. n \in Nat /\ Len(s) \in Nat /\ DOMAIN s = 1..Len(s) /\ DOMAIN ixs = 1..n
  OBVIOUS
<1>2. Estimate(s, ixs) = CompactLen(1) + 1 * SignatureSize
          + 3 + CompactLen(Len(s)) + Len(s) * KeySize + HashSize + CompactLen(n) + total
  BY Zenon DEF Estimate, SumOf, SizeOf
<1>3. PICK keys \in Nat : keys = Len(s) * KeySize
  BY <1>0, <1>1
<1>4. CompactLen(1) \in Nat \ {0} /\ CompactLen(Len(s)) \in Nat /\ CompactLen(n) \in Nat
  BY <1>1, CompactLenIsExact
<1>5. total \in Nat /\ n <= total
      /\ \A k \in 1..n : SizeOf(ixs[k]) <= total /\ SizeOf(ixs[k]) \in Nat
                         /\ Len(ixs[k].accounts) \in Nat /\ ixs[k].size \in Nat
                         /\ Len(ixs[k].accounts) <= SizeOf(ixs[k])
                         /\ ixs[k].size <= SizeOf(ixs[k])
  BY SumFacts
<1> HIDE DEF total
<1>6. total < Word /\ 1 < Word /\ Len(s) < Word
  <2>1. Estimate(s, ixs) <= SizeLimit /\ Len(s) <= Byte
    BY DEF Sendable, Indexable
  <2>2. PICK a \in Nat \ {0} : a = CompactLen(1)
    BY <1>4
  <2>3. PICK b \in Nat : b = CompactLen(Len(s))
    BY <1>4
  <2>4. PICK c \in Nat : c = CompactLen(n)
    BY <1>4
  <2>5. PICK d \in Nat : d = 1 * SignatureSize
    BY <1>0
  <2>6. a + d + 3 + b + keys + HashSize + c + total <= SizeLimit
    BY <1>2, <1>3, <2>1, <2>2, <2>3, <2>4, <2>5
  <2>7. total \in Nat
    BY <1>5
  <2> QED
    BY <1>0, <1>1, <2>1, <2>6, <2>7
<1>7. /\ Len(EncodeCompact(1)) = CompactLen(1)
      /\ Len(EncodeCompact(Len(s))) = CompactLen(Len(s))
      /\ Len(EncodeCompact(n)) = CompactLen(n)
  BY <1>0, <1>1, <1>5, <1>6, CompactLenIsExact
<1>8. ASSUME NEW k \in 1..n
      PROVE  WireOf(msg.body[k]) = SizeOf(ixs[k])
  <2> DEFINE ix == ixs[k]
             enc == msg.body[k]
  <2>1. enc = [program  |-> Index(s, ix.program),
               accounts |-> [j \in DOMAIN ix.accounts |-> Index(s, ix.accounts[j].key)],
               size     |-> ix.size,
               limit    |-> ix.limit]
    BY <1>1 DEF Built
  <2>2. ix.accounts \in Seq(MetaOf(Key))
    <3>1. ix \in Instr
      BY <1>1
    <3> QED
      BY <3>1 DEF Instr
  <2>3. Len(enc.accounts) = Len(ix.accounts) /\ enc.size = ix.size
    BY <2>1, <2>2
  <2>4. Len(ix.accounts) < Word /\ ix.size < Word /\ Len(ix.accounts) \in Nat /\ ix.size \in Nat
    BY <1>0, <1>5, <1>6
  <2>5. Len(EncodeCompact(Len(ix.accounts))) = CompactLen(Len(ix.accounts))
        /\ Len(EncodeCompact(ix.size)) = CompactLen(ix.size)
    BY <2>4, CompactLenIsExact
  <2> HIDE DEF enc, ix
  <2> QED
    BY <2>3, <2>5 DEF WireOf, SizeOf, enc, ix
<1>9. /\ DOMAIN msg.body = 1..n /\ Len(msg.body) = n /\ Len(msg.keys) = Len(s)
  BY <1>1 DEF Built
<1> HIDE DEF msg
<1>10. [k \in DOMAIN msg.body |-> WireOf(msg.body[k])] = [k \in DOMAIN ixs |-> SizeOf(ixs[k])]
  BY <1>1, <1>8, <1>9
<1>11. Total([k \in DOMAIN msg.body |-> WireOf(msg.body[k])]) = total
  BY <1>10 DEF SumOf, total
<1>12. WireSize(msg) = Len(EncodeCompact(1)) + SignatureSize
          + 3 + Len(EncodeCompact(Len(msg.keys))) + Len(msg.keys) * KeySize + HashSize
          + Len(EncodeCompact(Len(msg.body))) + Total([k \in DOMAIN msg.body |-> WireOf(msg.body[k])])
  BY Zenon DEF WireSize, WireOf
<1>13. WireSize(msg) = CompactLen(1) + SignatureSize
          + 3 + CompactLen(Len(s)) + Len(s) * KeySize + HashSize + CompactLen(n) + total
  BY <1>7, <1>9, <1>11, <1>12
<1>14. 1 * SignatureSize = SignatureSize
  BY <1>0
<1> QED
  BY <1>2, <1>13, <1>14 DEF msg

-----------------------------------------------------------------------------
\* What MessageMeansInstructions says of one message.
Means(msg, ixs) ==
    /\ msg.keys[1] = Payer
    /\ \A k \in DOMAIN ixs :
          LET ix == ixs[k]
              enc == msg.body[k]
          IN  /\ msg.keys[enc.program + 1] = ix.program
              /\ \A j \in DOMAIN ix.accounts :
                    LET at == enc.accounts[j] + 1
                        m == ix.accounts[j]
                    IN  /\ msg.keys[at] = m.key
                        /\ m.signer => SignerAt(msg, at)
                        /\ m.writable => WritableAt(msg, at)
    /\ \A k \in DOMAIN msg.keys :
          LET asks == {m \in ToSet(AllMetas(ixs)) : m.key = msg.keys[k]}
          IN  /\ SignerAt(msg, k) => \E m \in asks : m.signer
              /\ WritableAt(msg, k) => \E m \in asks : m.writable

\* An index that was encoded leads back to its key.
LEMMA IndexFacts ==
    ASSUME NEW s \in Seq(MetaOf(Key)), Distinct(s), Indexable(s),
           NEW i \in DOMAIN s, NEW key, s[i].key = key
    PROVE  Index(s, key) + 1 = i
<1> DEFINE c == CHOOSE k \in DOMAIN s : s[k].key = key
<1>1. c \in DOMAIN s /\ s[c].key = key
  OBVIOUS
<1>2. Index(s, key) = (c - 1) % Byte
  BY DEF Index
<1> HIDE DEF c
<1>3. c = i
  BY <1>1 DEF Distinct
<1>4. i \in 1..Len(s) /\ Len(s) <= Byte /\ Byte \in Nat \ {0} /\ Len(s) \in Nat
  BY MessageAssumption DEF Indexable
<1>5. (i - 1) % Byte = i - 1
  BY <1>4
<1> QED
  BY <1>2, <1>3, <1>4, <1>5

LEMMA BuiltMeans ==
    ASSUME NEW ixs \in Seq(Instr), PayerOnlySigns(ixs), NEW accs, All(accs, ixs),
           NEW s, s = Sorted(accs), Indexable(s), NEW msg, msg = Built(s, ixs)
    PROVE  Means(msg, ixs)
<1>1. /\ accs \in Seq(MetaOf(Key)) /\ Distinct(accs) /\ PayerSigns(Payer, accs)
      /\ \A m \in ToSet(AllMetas(ixs)) :
            \E a \in ToSet(accs) : /\ a.key = m.key
                                   /\ m.signer => a.signer
                                   /\ m.writable => a.writable
      /\ \A a \in ToSet(accs) :
            /\ a.signer => \E m \in ToSet(AllMetas(ixs)) : m.key = a.key /\ m.signer
            /\ a.writable => \E m \in ToSet(AllMetas(ixs)) : m.key = a.key /\ m.writable
  BY AllFacts
<1>2. s \in Seq(MetaOf(Key)) /\ ToSet(s) = ToSet(accs) /\ Distinct(s)
  BY <1>1, SortedFacts
<1>3. /\ Len(s) \in Nat \ {0} /\ s[1].key = Payer /\ s[1].signer /\ s[1].writable
      /\ Len(Signers(s)) = 1 /\ ReadonlySigners(s) = 0
      /\ Readonlys(s) \in Nat
      /\ \A k \in 2..Len(s) :
            /\ ~s[k].signer
            /\ s[k].writable <=> k <= Len(s) - Readonlys(s)
  BY <1>1, HeaderFacts
<1>4. DOMAIN s = 1..Len(s) /\ DOMAIN ixs = 1..Len(ixs)
  BY <1>2
<1>5. msg.header = <<1, 0, Readonlys(s)>>
  BY <1>3 DEF Built, ReadonlySigners, Readonlys
<1>6. DOMAIN msg.keys = 1..Len(s) /\ Len(msg.keys) = Len(s)
      /\ \A k \in 1..Len(s) : msg.keys[k] = s[k].key
  BY <1>3, <1>4 DEF Built
<1>7. \A k \in DOMAIN ixs :
         /\ msg.body[k].program = Index(s, ixs[k].program)
         /\ \A j \in DOMAIN ixs[k].accounts :
               msg.body[k].accounts[j] = Index(s, ixs[k].accounts[j].key)
  BY DEF Built
<1>8. ASSUME NEW k \in 1..Len(s)
      PROVE  /\ SignerAt(msg, k) <=> s[k].signer
             /\ WritableAt(msg, k) <=> s[k].writable
  <2>1. msg.header[1] = 1 /\ msg.header[2] = 0 /\ msg.header[3] = Readonlys(s)
    BY <1>5
  <2>2. CASE k = 1
    BY <1>3, <2>1, <2>2 DEF SignerAt, WritableAt
  <2>3. CASE k \in 2..Len(s)
    <3>1. ~SignerAt(msg, k) /\ ~s[k].signer
      BY <1>3, <2>1, <2>3 DEF SignerAt
    <3>2. WritableAt(msg, k) <=> k <= Len(s) - Readonlys(s)
      BY <1>6, <2>1, <3>1 DEF WritableAt
    <3> QED
      BY <1>3, <2>3, <3>1, <3>2
  <2> QED
    BY <1>3, <2>2, <2>3
\* A meta finds its key with its privileges.
<1>9. ASSUME NEW m \in ToSet(AllMetas(ixs))
      PROVE  \E at \in 1..Len(s) : /\ Index(s, m.key) + 1 = at
                                   /\ msg.keys[at] = m.key
                                   /\ m.signer => SignerAt(msg, at)
                                   /\ m.writable => WritableAt(msg, at)
  <2>1. PICK a \in ToSet(s) : a.key = m.key /\ (m.signer => a.signer) /\ (m.writable => a.writable)
    BY <1>1, <1>2
  <2>2. PICK i \in DOMAIN s : a = s[i]
    BY DEF ToSet
  <2>3. Index(s, m.key) + 1 = i
    BY <1>2, <2>1, <2>2, IndexFacts
  <2> QED
    BY <1>4, <1>6, <1>8, <2>1, <2>2, <2>3
<1>10. ASSUME NEW k \in DOMAIN ixs
       PROVE  /\ msg.keys[msg.body[k].program + 1] = ixs[k].program
              /\ \A j \in DOMAIN ixs[k].accounts :
                    /\ msg.keys[msg.body[k].accounts[j] + 1] = ixs[k].accounts[j].key
                    /\ ixs[k].accounts[j].signer => SignerAt(msg, msg.body[k].accounts[j] + 1)
                    /\ ixs[k].accounts[j].writable => WritableAt(msg, msg.body[k].accounts[j] + 1)
  <2>1. ixs[k] \in Instr
    BY <1>4
  <2>2. ToSet(MetasOf(ixs[k])) \subseteq ToSet(AllMetas(ixs))
    BY AllMetasFacts
  <2>3. ToSet(MetasOf(ixs[k])) = {Meta(ixs[k].program, FALSE, FALSE)} \cup ToSet(ixs[k].accounts)
    BY <2>1, MetasOfFacts
  <2>4. msg.keys[msg.body[k].program + 1] = ixs[k].program
    <3>1. PICK m \in ToSet(AllMetas(ixs)) : m = Meta(ixs[k].program, FALSE, FALSE)
      BY <2>2, <2>3
    <3>2. m.key = ixs[k].program
      BY <3>1 DEF Meta
    <3> QED
      BY <1>7, <1>9, <3>2
  <2>5. ASSUME NEW j \in DOMAIN ixs[k].accounts
        PROVE  /\ msg.keys[msg.body[k].accounts[j] + 1] = ixs[k].accounts[j].key
               /\ ixs[k].accounts[j].signer => SignerAt(msg, msg.body[k].accounts[j] + 1)
               /\ ixs[k].accounts[j].writable => WritableAt(msg, msg.body[k].accounts[j] + 1)
    <3>1. PICK m \in ToSet(AllMetas(ixs)) : m = ixs[k].accounts[j]
      BY <2>2, <2>3 DEF ToSet
    <3>2. msg.body[k].accounts[j] = Index(s, m.key)
      BY <1>7, <3>1
    <3>3. PICK at \in 1..Len(s) : /\ Index(s, m.key) + 1 = at
                                  /\ msg.keys[at] = m.key
                                  /\ m.signer => SignerAt(msg, at)
                                  /\ m.writable => WritableAt(msg, at)
      BY <1>9
    <3> QED
      BY <3>1, <3>2, <3>3
  <2> QED
    BY <2>4, <2>5
<1>11. ASSUME NEW k \in DOMAIN msg.keys
       PROVE  /\ SignerAt(msg, k) =>
                    \E m \in ToSet(AllMetas(ixs)) : m.key = msg.keys[k] /\ m.signer
              /\ WritableAt(msg, k) =>
                    \E m \in ToSet(AllMetas(ixs)) : m.key = msg.keys[k] /\ m.writable
  <2>1. s[k] \in ToSet(accs) /\ msg.keys[k] = s[k].key
    BY <1>2, <1>4, <1>6 DEF ToSet
  <2> QED
    BY <1>1, <1>6, <1>8, <2>1
<1>12. msg.keys[1] = Payer
  BY <1>3, <1>6
<1> QED
  BY <1>10, <1>11, <1>12 DEF Means

-----------------------------------------------------------------------------
\* The accounts after the first n metas of a list: collecting them again gives the
\* same.
Collects(list, n, accs) ==
    \E f \in [0..n -> Seq(MetaOf(Key))] :
        /\ f[0] = <<>> /\ f[n] = accs
        /\ \A i \in 1..n : f[i] = Upserted(f[i - 1], list[i])

LEMMA CollectsNothing ==
    ASSUME NEW list
    PROVE  Collects(list, 0, <<>>) /\ Gathered(Key, <<>>, list, 0)
<1>1. Collects(list, 0, <<>>)
  <2> DEFINE f == [i \in 0..0 |-> <<>>]
  <2>1. f \in [0..0 -> Seq(MetaOf(Key))] /\ f[0] = <<>> /\ 1..0 = {}
    OBVIOUS
  <2> HIDE DEF f
  <2> QED
    BY <2>1 DEF Collects
<1>2. <<>> \in Seq(MetaOf(Key)) /\ DOMAIN <<>> = {} /\ 1..0 = {}
  OBVIOUS
<1> QED
  BY <1>1, <1>2 DEF Gathered, Distinct

LEMMA CollectsOneMore ==
    ASSUME NEW list, NEW n \in Nat, NEW accs, Collects(list, n, accs),
           NEW more \in Seq(MetaOf(Key)), more = Upserted(accs, list[n + 1])
    PROVE  Collects(list, n + 1, more)
<1>1. PICK f \in [0..n -> Seq(MetaOf(Key))] :
            /\ f[0] = <<>> /\ f[n] = accs
            /\ \A i \in 1..n : f[i] = Upserted(f[i - 1], list[i])
  BY DEF Collects
<1> DEFINE g == [i \in 0..(n + 1) |-> IF i = n + 1 THEN more ELSE f[i]]
<1>2. g \in [0..(n + 1) -> Seq(MetaOf(Key))]
  OBVIOUS
<1>3. g[0] = <<>> /\ g[n + 1] = more /\ \A i \in 0..n : g[i] = f[i]
  BY <1>1
<1> HIDE DEF g
<1>4. ASSUME NEW i \in 1..(n + 1) PROVE g[i] = Upserted(g[i - 1], list[i])
  <2>1. CASE i = n + 1
    BY <1>1, <1>3, <2>1
  <2>2. CASE i # n + 1
    <3>1. i \in 1..n /\ i \in 0..n /\ i - 1 \in 0..n
      BY <2>2
    <3> QED
      BY <1>1, <1>3, <3>1
  <2> QED
    BY <2>1, <2>2
<1> QED
  BY <1>2, <1>3, <1>4 DEF Collects

LEMMA CollectsTheSame ==
    ASSUME NEW list, NEW n \in Nat, NEW a, NEW b, Collects(list, n, a), Collects(list, n, b)
    PROVE  a = b
<1>1. PICK f \in [0..n -> Seq(MetaOf(Key))] :
            /\ f[0] = <<>> /\ f[n] = a
            /\ \A i \in 1..n : f[i] = Upserted(f[i - 1], list[i])
  BY DEF Collects
<1>2. PICK g \in [0..n -> Seq(MetaOf(Key))] :
            /\ g[0] = <<>> /\ g[n] = b
            /\ \A i \in 1..n : g[i] = Upserted(g[i - 1], list[i])
  BY DEF Collects
<1> DEFINE T == {i \in Nat : i <= n => f[i] = g[i]}
<1>3. 0 \in T
  BY <1>1, <1>2
<1>4. ASSUME NEW i \in Nat, i \in T PROVE i + 1 \in T
  <2>1. SUFFICES ASSUME i + 1 <= n PROVE f[i + 1] = g[i + 1]
    OBVIOUS
  <2>2. f[i] = g[i] /\ i + 1 \in 1..n /\ (i + 1) - 1 = i
    BY <1>4, <2>1
  <2> QED
    BY <1>1, <1>2, <2>2
<1> HIDE DEF T
<1>5. n \in T
  BY <1>3, <1>4, NumberInduction
<1> QED
  BY <1>1, <1>2, <1>5 DEF T

-----------------------------------------------------------------------------
\* The limit the simulation suggests is enough.
LEMMA PaddedFacts ==
    ASSUME NEW u \in 0..MaxU64
    PROVE  /\ Padded(u) \in Nat
           /\ \A cost \in Nat : cost <= Ceiling /\ cost * 10 <= u * 11 =>
                 cost <= AtMost(Padded(u), Ceiling)
<1>1. /\ MinLimit \in Nat /\ Ceiling \in Nat /\ MaxU32 \in Nat /\ MaxU64 \in Nat
      /\ Ceiling <= MaxU32 /\ 10 * Ceiling <= MaxU64 /\ u \in Nat
  BY PipelineAssumption
<1> DEFINE sum == AtMost(AtMost(u * 11, MaxU64) + 9, MaxU64)
           padded == sum \div 10
<1>2. sum \in Nat /\ (sum = u * 11 + 9 \/ sum = MaxU64)
  BY <1>1 DEF AtMost
<1> HIDE DEF sum
<1>3. padded \in Nat /\ 10 * padded <= sum /\ sum < 10 * padded + 10
  BY <1>2
<1>4. Padded(u) = AtMost(IF padded >= MinLimit THEN padded ELSE MinLimit, MaxU32)
  BY DEF Padded, sum
<1> HIDE DEF padded
<1>5. Padded(u) \in Nat
  BY <1>1, <1>3, <1>4 DEF AtMost
<1>6. ASSUME NEW cost \in Nat, cost <= Ceiling, cost * 10 <= u * 11
      PROVE  cost <= AtMost(Padded(u), Ceiling)
  <2>1. cost <= padded
    BY <1>1, <1>2, <1>3, <1>6
  <2>2. cost <= Padded(u)
    BY <1>1, <1>3, <1>4, <1>6, <2>1 DEF AtMost
  <2> QED
    BY <1>1, <1>5, <1>6, <2>2 DEF AtMost
<1> QED
  BY <1>5, <1>6

-----------------------------------------------------------------------------
\* The inductive invariant: what is collected are the first metas of the request, under
\* whatever limit; a message is built from all of them; and what was approved in the
\* preview was computed from the same accounts.
Zero == WithComputeBudget(request, 0)
Metas == AllMetas(Zero)

TypeInv ==
    /\ request \in Requests
    /\ units \in 0..MaxU64
    /\ stage \in {"preview", "refused", "simulate", "simulating", "unsimulated", "send",
                  "sent", "failed", "timeout", "confirmed"}
LimitInv ==
    \E limit \in Nat : /\ instructions = WithComputeBudget(request, limit)
                       /\ stage = "send" \/ Submitted => limit = Padded(units)
ProgressInv ==
    \E n \in 0..Len(Metas) :
        /\ todo = SubSeq(Metas, n + 1, Len(Metas))
        /\ Collects(Metas, n, accounts)
        /\ Gathered(Key, accounts, Metas, n)
BuiltInv ==
    stage = "simulating" \/ Submitted =>
        todo = <<>> /\ message = Built(Sorted(accounts), instructions)
ApprovedInv ==
    stage \notin {"preview", "refused"} =>
        /\ PayerOnlySigns(Zero)
        /\ \E accs : /\ Collects(Metas, Len(Metas), accs)
                     /\ Sendable(Sorted(accs), Zero)
                     /\ estimated = Estimate(Sorted(accs), Zero)

PipeInv == TypeInv /\ LimitInv /\ ProgressInv /\ BuiltInv /\ ApprovedInv

LEMMA MetasType ==
    ASSUME request \in Requests
    PROVE  /\ Zero \in Seq(Instr) /\ Metas \in Seq(MetaOf(Key))
           /\ Len(Metas) \in Nat
           /\ PayerOnlySigns(Zero) => PayerOnlySigns(request)
<1>1. 0 \in Nat
  OBVIOUS
<1>2. Zero \in Seq(Instr) /\ (PayerOnlySigns(Zero) => PayerOnlySigns(request))
  BY <1>1, BudgetFacts DEF Zero
<1>3. Metas \in Seq(MetaOf(Key))
  BY <1>2, AllMetasFacts DEF Metas
<1> QED
  BY <1>2, <1>3

\* The instructions of any stage stand for those without a limit.
LEMMA InstructionsFacts ==
    ASSUME request \in Requests, NEW limit \in Nat,
           NEW ixs, ixs = WithComputeBudget(request, limit)
    PROVE  /\ ixs \in Seq(Instr)
           /\ AllMetas(ixs) = Metas
           /\ \A accs : Estimate(accs, ixs) = Estimate(accs, Zero)
           /\ \A accs : Sendable(accs, ixs) <=> Sendable(accs, Zero)
           /\ PayerOnlySigns(ixs) <=> PayerOnlySigns(Zero)
<1>1. ixs \in Seq(Instr) /\ Alike(ixs, Zero)
  BY BudgetFacts DEF Zero
<1>2. Zero \in Seq(Instr)
  BY MetasType
<1>3. /\ AllMetas(ixs) = Metas
      /\ \A accs : Estimate(accs, ixs) = Estimate(accs, Zero)
      /\ PayerOnlySigns(ixs) <=> PayerOnlySigns(Zero)
  BY <1>1, <1>2, AlikeFacts DEF Metas
<1> QED
  BY <1>1, <1>3 DEF Sendable

\* Once nothing is left to collect, all metas are collected.
LEMMA AllCollected ==
    ASSUME TypeInv, ProgressInv, todo = <<>>
    PROVE  Collects(Metas, Len(Metas), accounts) /\ Gathered(Key, accounts, Metas, Len(Metas))
<1>1. Metas \in Seq(MetaOf(Key)) /\ Len(Metas) \in Nat
  BY MetasType DEF TypeInv
<1>2. PICK n \in 0..Len(Metas) :
        /\ todo = SubSeq(Metas, n + 1, Len(Metas))
        /\ Collects(Metas, n, accounts)
        /\ Gathered(Key, accounts, Metas, n)
  BY DEF ProgressInv
<1>3. n = Len(Metas)
  <2>1. SUFFICES ASSUME n # Len(Metas) PROVE FALSE
    OBVIOUS
  <2>2. n + 1 \in 1..Len(Metas) /\ n \in Nat
    BY <1>1, <2>1
  <2>3. Len(SubSeq(Metas, n + 1, Len(Metas))) = Len(Metas) - n
    BY <1>1, <2>2
  <2>4. SubSeq(Metas, n + 1, Len(Metas)) = <<>> /\ Len(<<>>) = 0
    BY <1>2, todo = <<>>
  <2>5. Len(Metas) - n = 0
    BY <2>3, <2>4
  <2> QED
    BY <1>1, <2>1, <2>2, <2>5
<1> QED
  BY <1>2, <1>3

LEMMA PipeInit == Init => PipeInv
<1> SUFFICES ASSUME Init PROVE PipeInv
  OBVIOUS
<1>1. TypeInv
  BY PipelineAssumption DEF Init, TypeInv
<1>2. DefaultLimit \in Nat /\ instructions = WithComputeBudget(request, DefaultLimit)
  BY PipelineAssumption DEF Init
<1>3. Metas \in Seq(MetaOf(Key)) /\ Len(Metas) \in Nat /\ AllMetas(instructions) = Metas
  BY <1>1, <1>2, MetasType, InstructionsFacts DEF TypeInv
<1>4. ProgressInv
  <2>1. todo = Metas /\ accounts = <<>>
    BY <1>3 DEF Init
  <2>2. SubSeq(Metas, 0 + 1, Len(Metas)) = Metas
    BY <1>3, SubSeqFull
  <2>3. 0 \in 0..Len(Metas)
    BY <1>3
  <2> QED
    BY <2>1, <2>2, <2>3, CollectsNothing DEF ProgressInv
<1> QED
  BY <1>1, <1>2, <1>4 DEF Init, PipeInv, LimitInv, BuiltInv, ApprovedInv, Submitted

\* A stage begins to collect anew.
LEMMA BeginAnew ==
    ASSUME TypeInv, request' = request, NEW limit \in Nat,
           Begin(WithComputeBudget(request, limit))
    PROVE  ProgressInv' /\ instructions' = WithComputeBudget(request', limit)
<1>1. request \in Requests
  BY DEF TypeInv
<1>2. Metas \in Seq(MetaOf(Key)) /\ Len(Metas) \in Nat /\ Metas' = Metas
  BY <1>1, MetasType DEF Metas, Zero
<1>3. instructions' = WithComputeBudget(request, limit) /\ accounts' = <<>>
      /\ todo' = AllMetas(WithComputeBudget(request, limit))
  BY DEF Begin
<1>4. todo' = Metas
  BY <1>1, <1>3, InstructionsFacts
<1>5. SubSeq(Metas, 0 + 1, Len(Metas)) = Metas /\ 0 \in 0..Len(Metas)
  BY <1>2, SubSeqFull
<1> QED
  BY <1>2, <1>3, <1>4, <1>5, CollectsNothing DEF ProgressInv

LEMMA CollectKeeps ==
    ASSUME PipeInv, Collect
    PROVE  PipeInv'
<1>1. TypeInv' /\ Metas' = Metas /\ Zero' = Zero
  BY DEF PipeInv, TypeInv, Collect, Metas, Zero
<1>2. Metas \in Seq(MetaOf(Key)) /\ Len(Metas) \in Nat
  BY MetasType DEF PipeInv, TypeInv
<1>3. PICK n \in 0..Len(Metas) :
        /\ todo = SubSeq(Metas, n + 1, Len(Metas))
        /\ Collects(Metas, n, accounts)
        /\ Gathered(Key, accounts, Metas, n)
  BY DEF PipeInv, ProgressInv
<1>4. todo # <<>> /\ accounts' = Upserted(accounts, Head(todo)) /\ todo' = Tail(todo)
  BY DEF Collect
<1>5. n + 1 \in 1..Len(Metas) /\ n \in Nat
  <2>1. n < Len(Metas)
    <3>1. SUFFICES ASSUME n = Len(Metas) PROVE FALSE
      BY <1>2
    <3>2. SubSeq(Metas, n + 1, Len(Metas)) = <<>>
      BY <1>2, <3>1, SubSeqEmpty
    <3> QED
      BY <1>3, <1>4, <3>2
  <2> QED
    BY <1>2, <2>1
<1>6. Head(todo) = Metas[n + 1] /\ Tail(todo) = SubSeq(Metas, (n + 1) + 1, Len(Metas))
  <2>1. Len(Metas) \in (n + 1)..Len(Metas)
    BY <1>2, <1>5
  <2> QED
    BY <1>2, <1>3, <1>5, <2>1, HeadTailOfSubSeq
<1>7. Gathered(Key, accounts', Metas, n + 1)
  <2>1. n + 1 <= Len(Metas)
    BY <1>2, <1>5
  <2> QED
    BY <1>2, <1>3, <1>4, <1>5, <1>6, <2>1, UpsertedGathers
<1>8. Collects(Metas, n + 1, accounts')
  <2>1. accounts' \in Seq(MetaOf(Key))
    BY <1>7 DEF Gathered
  <2> QED
    BY <1>3, <1>4, <1>5, <1>6, <2>1, CollectsOneMore
<1>9. ProgressInv'
  <2>1. n + 1 \in 0..Len(Metas)
    BY <1>5
  <2> QED
    BY <1>1, <1>4, <1>6, <1>7, <1>8, <2>1 DEF ProgressInv
<1>10. LimitInv'
  BY DEF PipeInv, LimitInv, Collect, Submitted
<1>11. BuiltInv'
  BY DEF Collect, BuiltInv, Submitted
<1>12. ApprovedInv'
  BY <1>1 DEF PipeInv, ApprovedInv, Collect
<1> QED
  BY <1>1, <1>9, <1>10, <1>11, <1>12 DEF PipeInv

-----------------------------------------------------------------------------
\* A step that leaves what is collected as it is.
LEMMA SameCollected ==
    ASSUME PipeInv, UNCHANGED <<request, instructions, todo, accounts>>
    PROVE  ProgressInv' /\ Metas' = Metas /\ Zero' = Zero
<1>1. Metas' = Metas /\ Zero' = Zero
  BY DEF Metas, Zero
<1> QED
  BY <1>1 DEF PipeInv, ProgressInv

LEMMA PreviewKeeps ==
    ASSUME PipeInv, Preview
    PROVE  PipeInv'
<1>1. /\ stage = "preview" /\ todo = <<>> /\ Valid
      /\ stage' = "simulate" /\ request' = request /\ units' = units
      /\ message' = message
      /\ estimated' = Estimate(Sorted(accounts), instructions)
  BY DEF Preview, Collected, Previewed
<1>2. TypeInv'
  BY <1>1 DEF PipeInv, TypeInv
<1>3. Ceiling \in Nat
  BY PipelineAssumption
<1>4. ProgressInv' /\ instructions' = WithComputeBudget(request', Ceiling)
  BY <1>1, <1>3, BeginAnew DEF PipeInv, Preview
<1>5. LimitInv'
  BY <1>1, <1>3, <1>4 DEF LimitInv, Submitted
<1>6. BuiltInv'
  BY <1>1 DEF BuiltInv, Submitted
<1>7. Metas' = Metas /\ Zero' = Zero
  BY <1>1 DEF Metas, Zero
<1>8. PICK limit \in Nat : instructions = WithComputeBudget(request, limit)
  BY DEF PipeInv, LimitInv
<1>9. /\ PayerOnlySigns(instructions) <=> PayerOnlySigns(Zero)
      /\ Sendable(Sorted(accounts), instructions) <=> Sendable(Sorted(accounts), Zero)
      /\ Estimate(Sorted(accounts), instructions) = Estimate(Sorted(accounts), Zero)
  BY <1>8, InstructionsFacts DEF PipeInv, TypeInv
<1>10. Collects(Metas, Len(Metas), accounts)
  BY <1>1, AllCollected DEF PipeInv
<1>11. ApprovedInv'
  BY <1>1, <1>7, <1>9, <1>10 DEF ApprovedInv, Valid, Previewed
<1> QED
  BY <1>2, <1>4, <1>5, <1>6, <1>11 DEF PipeInv

LEMMA RefuseKeeps ==
    ASSUME PipeInv, Refuse
    PROVE  PipeInv'
<1>1. /\ stage' = "refused"
      /\ UNCHANGED <<request, instructions, todo, accounts, estimated, message, units>>
  BY DEF Refuse, Stop
<1>2. ProgressInv' /\ Metas' = Metas /\ Zero' = Zero
  BY <1>1, SameCollected
<1>3. TypeInv' /\ LimitInv' /\ BuiltInv' /\ ApprovedInv'
  BY <1>1 DEF PipeInv, TypeInv, LimitInv, BuiltInv, ApprovedInv, Submitted
<1> QED
  BY <1>2, <1>3 DEF PipeInv

\* No check after the preview refuses: what was approved was the same.
LEMMA StillSendable ==
    ASSUME PipeInv, stage \notin {"preview", "refused"}
    PROVE  /\ PayerOnlySigns(request)
           /\ PayerOnlySigns(instructions)
           /\ todo = <<>> => /\ Sendable(Sorted(accounts), instructions)
                             /\ estimated = Estimate(Sorted(accounts), instructions)
                             /\ All(accounts, instructions)
<1>1. PICK limit \in Nat : instructions = WithComputeBudget(request, limit)
  BY DEF PipeInv, LimitInv
<1>2. PayerOnlySigns(Zero)
  BY DEF PipeInv, ApprovedInv
<1>3. PayerOnlySigns(request) /\ Len(Metas) \in Nat
  BY <1>2, MetasType DEF PipeInv, TypeInv
<1>4. /\ AllMetas(instructions) = Metas
      /\ \A accs : Estimate(accs, instructions) = Estimate(accs, Zero)
      /\ \A accs : Sendable(accs, instructions) <=> Sendable(accs, Zero)
      /\ PayerOnlySigns(instructions) <=> PayerOnlySigns(Zero)
  BY <1>1, InstructionsFacts DEF PipeInv, TypeInv
<1>5. ASSUME todo = <<>>
      PROVE  /\ Sendable(Sorted(accounts), instructions)
             /\ estimated = Estimate(Sorted(accounts), instructions)
             /\ All(accounts, instructions)
  <2>1. Collects(Metas, Len(Metas), accounts) /\ Gathered(Key, accounts, Metas, Len(Metas))
    BY <1>5, AllCollected DEF PipeInv
  <2>2. PICK accs : /\ Collects(Metas, Len(Metas), accs)
                    /\ Sendable(Sorted(accs), Zero)
                    /\ estimated = Estimate(Sorted(accs), Zero)
    BY DEF PipeInv, ApprovedInv
  <2>3. accs = accounts
    BY <1>3, <2>1, <2>2, CollectsTheSame
  <2> QED
    BY <1>4, <2>1, <2>2, <2>3 DEF All
<1> QED
  BY <1>2, <1>3, <1>4, <1>5

LEMMA SimulateKeeps ==
    ASSUME PipeInv, Simulate
    PROVE  PipeInv'
<1>1. /\ stage = "simulate" /\ todo = <<>>
      /\ UNCHANGED <<request, instructions, todo, accounts, estimated, units>>
  BY DEF Simulate, Collected, Build
<1>2. PayerOnlySigns(request)
  BY <1>1, StillSendable
<1>3. stage' = "simulating" /\ message' = Built(Sorted(accounts), instructions)
  BY <1>2 DEF Simulate, Build
<1>4. ProgressInv' /\ Metas' = Metas /\ Zero' = Zero
  BY <1>1, SameCollected
<1>5. TypeInv' /\ LimitInv' /\ BuiltInv'
  BY <1>1, <1>3 DEF PipeInv, TypeInv, LimitInv, BuiltInv, Submitted
<1>6. ApprovedInv'
  BY <1>1, <1>4 DEF PipeInv, ApprovedInv
<1> QED
  BY <1>4, <1>5, <1>6 DEF PipeInv

LEMMA SimulatedKeeps ==
    ASSUME PipeInv, NEW u \in Units, Simulated(u)
    PROVE  PipeInv'
<1>1. /\ stage = "simulating" /\ stage' = "send" /\ units' = u
      /\ UNCHANGED <<request, estimated, message>>
  BY DEF Simulated
<1>2. u \in 0..MaxU64
  BY PipelineAssumption
<1>3. Padded(u) \in Nat
  BY <1>2, PaddedFacts
<1>4. TypeInv'
  BY <1>1, <1>2 DEF PipeInv, TypeInv
<1>5. ProgressInv' /\ instructions' = WithComputeBudget(request', Padded(u))
  BY <1>1, <1>3, BeginAnew DEF PipeInv, Simulated
<1>6. Padded(units') = Padded(u)
  BY <1>1
<1>7. LimitInv'
  BY <1>1, <1>3, <1>5 DEF LimitInv, Submitted
<1>8. BuiltInv'
  BY <1>1 DEF BuiltInv, Submitted
<1>9. Metas' = Metas /\ Zero' = Zero
  BY <1>1 DEF Metas, Zero
<1>10. ApprovedInv'
  BY <1>1, <1>9 DEF PipeInv, ApprovedInv
<1> QED
  BY <1>4, <1>5, <1>7, <1>8, <1>10 DEF PipeInv

LEMMA SendKeeps ==
    ASSUME PipeInv, Send
    PROVE  PipeInv'
<1>1. /\ stage = "send" /\ todo = <<>>
      /\ UNCHANGED <<request, instructions, todo, accounts, estimated, units>>
  BY DEF Send, Collected, Build
<1>2. Sendable(Sorted(accounts), instructions)
  BY <1>1, StillSendable
<1>3. stage' = "sent" /\ message' = Built(Sorted(accounts), instructions)
  BY <1>2 DEF Send, Build
<1>4. ProgressInv' /\ Metas' = Metas /\ Zero' = Zero
  BY <1>1, SameCollected
<1>5. TypeInv' /\ LimitInv' /\ BuiltInv'
  BY <1>1, <1>3 DEF PipeInv, TypeInv, LimitInv, BuiltInv, Submitted
<1>6. ApprovedInv'
  BY <1>1, <1>4 DEF PipeInv, ApprovedInv
<1> QED
  BY <1>4, <1>5, <1>6 DEF PipeInv

\* The steps that only change how far the transaction came.
LEMMA StageKeeps ==
    ASSUME PipeInv, Fail \/ Poll \/ TimeOut
    PROVE  PipeInv'
<1>1. /\ \/ stage = "simulating" /\ stage' = "unsimulated"
         \/ stage = "sent" /\ stage' \in {"sent", "failed", "confirmed", "timeout"}
      /\ UNCHANGED <<request, instructions, todo, accounts, estimated, message, units>>
  BY DEF Fail, Poll, TimeOut, Stop
<1>2. ProgressInv' /\ Metas' = Metas /\ Zero' = Zero
  BY <1>1, SameCollected
<1>3. TypeInv' /\ LimitInv' /\ BuiltInv'
  BY <1>1 DEF PipeInv, TypeInv, LimitInv, BuiltInv, Submitted
<1>4. ApprovedInv'
  BY <1>1, <1>2 DEF PipeInv, ApprovedInv
<1> QED
  BY <1>2, <1>3, <1>4 DEF PipeInv

LEMMA OffKeeps ==
    ASSUME PipeInv, UNCHANGED off
    PROVE  PipeInv'
<1>1. UNCHANGED <<request, stage, instructions, todo, accounts, estimated, message, units>>
  BY DEF off
<1>2. ProgressInv' /\ Metas' = Metas /\ Zero' = Zero
  BY <1>1, SameCollected
<1>3. TypeInv' /\ LimitInv' /\ BuiltInv' /\ ApprovedInv'
  BY <1>1, <1>2 DEF PipeInv, TypeInv, LimitInv, BuiltInv, ApprovedInv, Submitted
<1> QED
  BY <1>2, <1>3 DEF PipeInv

LEMMA PipeStep == PipeInv /\ [Next]_vars => PipeInv'
<1> SUFFICES ASSUME PipeInv, [Next]_vars PROVE PipeInv'
  OBVIOUS
<1>1. CASE Collect
  BY <1>1, CollectKeeps
<1>2. CASE Preview
  BY <1>2, PreviewKeeps
<1>3. CASE Refuse
  BY <1>3, RefuseKeeps
<1>4. CASE Simulate
  BY <1>4, SimulateKeeps
<1>5. CASE \E u \in Units : Simulated(u)
  BY <1>5, SimulatedKeeps
<1>6. CASE Send
  BY <1>6, SendKeeps
<1>7. CASE Fail \/ Poll \/ TimeOut
  BY <1>7, StageKeeps
<1>8. CASE \E cost \in Costs : LikeSimulated(cost) /\ Execute(cost)
  BY <1>8, OffKeeps DEF Execute
<1>9. CASE Confirm \/ Fork
  BY <1>9, OffKeeps DEF Confirm, Fork
<1>10. CASE UNCHANGED vars
  BY <1>10, OffKeeps DEF vars
<1> QED
  BY <1>1, <1>2, <1>3, <1>4, <1>5, <1>6, <1>7, <1>8, <1>9, <1>10 DEF Next

LEMMA PipeAlways == Spec => []PipeInv
  BY PipeInit, PipeStep, PTL DEF Spec

-----------------------------------------------------------------------------
\* A position is not burned for a transaction that can not be sent: once the preview
\* was valid, the checks before the simulation and before the transaction is sent do
\* not refuse.
THEOREM PreviewIsDecisive == Spec => []PreviewDecides
<1>1. PipeInv => PreviewDecides
  BY DEF PipeInv, TypeInv, PreviewDecides
<1> QED
  BY <1>1, PipeAlways, PTL

\* The size estimated for the preview is, byte for byte, the size of the transaction
\* that is sent, and within the limit.
THEOREM SentSizeWasEstimated == Spec => []EstimateIsExact
<1>1. ASSUME PipeInv PROVE EstimateIsExact
  <2>1. SUFFICES ASSUME stage = "sent"
                 PROVE  estimated = WireSize(message) /\ WireSize(message) <= SizeLimit
    BY DEF EstimateIsExact
  <2>2. todo = <<>> /\ message = Built(Sorted(accounts), instructions)
    BY <1>1, <2>1 DEF PipeInv, BuiltInv, Submitted
  <2>3. /\ Sendable(Sorted(accounts), instructions)
        /\ estimated = Estimate(Sorted(accounts), instructions)
        /\ All(accounts, instructions) /\ PayerOnlySigns(instructions)
    BY <1>1, <2>1, <2>2, StillSendable
  <2>4. PICK limit \in Nat : instructions = WithComputeBudget(request, limit)
    BY <1>1 DEF PipeInv, LimitInv
  <2>5. instructions \in Seq(Instr)
    BY <1>1, <2>4, InstructionsFacts DEF PipeInv, TypeInv
  <2>6. accounts \in Seq(MetaOf(Key)) /\ Distinct(accounts) /\ PayerSigns(Payer, accounts)
    BY <2>3, <2>5, AllFacts
  <2>7. Len(Signers(Sorted(accounts))) = 1 /\ Sorted(accounts) \in Seq(MetaOf(Key))
    BY <2>6, HeaderFacts, SortedFacts
  <2>8. WireSize(message) = Estimate(Sorted(accounts), instructions)
    BY <2>2, <2>3, <2>5, <2>7, SizeIsEstimate
  <2> QED
    BY <2>3, <2>8 DEF Sendable
<1> QED
  BY <1>1, PipeAlways, PTL

\* In the transactions that are simulated and sent every instruction finds its program
\* and accounts, with the privileges it asked for and no account with others.
THEOREM MessageMeansWhatWasAsked == Spec => []MessageMeansInstructions
<1>1. ASSUME PipeInv PROVE MessageMeansInstructions
  <2>1. ASSUME stage \in {"simulating", "sent"} PROVE Means(message, instructions)
    <3>1. todo = <<>> /\ message = Built(Sorted(accounts), instructions)
      BY <1>1, <2>1 DEF PipeInv, BuiltInv, Submitted
    <3>2. /\ Indexable(Sorted(accounts))
          /\ All(accounts, instructions) /\ PayerOnlySigns(instructions)
      BY <1>1, <2>1, <3>1, StillSendable DEF Sendable
    <3>3. PICK limit \in Nat : instructions = WithComputeBudget(request, limit)
      BY <1>1 DEF PipeInv, LimitInv
    <3>4. instructions \in Seq(Instr)
      BY <1>1, <3>3, InstructionsFacts DEF PipeInv, TypeInv
    <3> QED
      BY <3>1, <3>2, <3>4, BuiltMeans
  <2> QED
    BY Zenon, <2>1 DEF MessageMeansInstructions, Means
<1> QED
  BY <1>1, PipeAlways, PTL

-----------------------------------------------------------------------------
\* What was executed had enough, and what was reported was confirmed.
LedgerInv ==
    /\ ledger \in {Pending, [level |-> "processed", result |-> "ok"],
                   [level |-> "confirmed", result |-> "ok"]}
    /\ stage = "confirmed" => ledger.level = "confirmed"

\* The message that was sent carries the limit the simulation suggested.
LEMMA LimitOfMessage ==
    ASSUME PipeInv, Submitted
    PROVE  message.body[1].limit = Padded(units)
<1>1. /\ message = Built(Sorted(accounts), instructions)
      /\ request \in Requests /\ units \in 0..MaxU64
  BY DEF PipeInv, BuiltInv, TypeInv
<1>2. instructions = WithComputeBudget(request, Padded(units)) /\ Padded(units) \in Nat
  BY <1>1, PaddedFacts DEF PipeInv, LimitInv
<1>3. 1 \in DOMAIN instructions /\ instructions[1].limit = Padded(units)
  BY <1>1, <1>2, BudgetFacts
<1> QED
  BY <1>1, <1>3 DEF Built

LEMMA LedgerStep == LedgerInv /\ PipeInv /\ [Next]_vars => LedgerInv'
<1> SUFFICES ASSUME LedgerInv, PipeInv, [Next]_vars PROVE LedgerInv'
  OBVIOUS
<1>1. CASE \E cost \in Costs : LikeSimulated(cost) /\ Execute(cost)
  <2>1. PICK cost \in Costs : LikeSimulated(cost) /\ Execute(cost)
    BY <1>1
  <2>2. /\ Submitted /\ ledger.level = "none" /\ stage' = stage
        /\ ledger' = [level  |-> "processed",
                      result |-> IF cost > AtMost(message.body[1].limit, Ceiling)
                                 THEN "starved" ELSE "ok"]
    BY <2>1 DEF Execute, off
  <2>3. cost \in Nat /\ Ceiling \in Nat /\ units \in 0..MaxU64
    BY PipelineAssumption DEF PipeInv, TypeInv
  <2>4. cost <= AtMost(Padded(units), Ceiling)
    BY <2>1, <2>3, PaddedFacts DEF LikeSimulated
  <2>5. AtMost(Padded(units), Ceiling) \in Nat
    BY <2>3, PaddedFacts DEF AtMost
  <2>6. ~(cost > AtMost(message.body[1].limit, Ceiling))
    BY <2>2, <2>3, <2>4, <2>5, LimitOfMessage
  <2>7. ledger' = [level |-> "processed", result |-> "ok"]
    BY <2>2, <2>6
  <2>8. stage # "confirmed"
    BY <2>2 DEF LedgerInv
  <2> QED
    BY <2>2, <2>7, <2>8 DEF LedgerInv
<1>2. CASE Confirm
  BY <1>2 DEF LedgerInv, Confirm, off, Pending
<1>3. CASE Fork
  BY <1>3 DEF LedgerInv, Fork, off, Pending
<1>4. CASE Poll
  BY <1>4 DEF LedgerInv, Poll, Enough
<1>5. CASE /\ ledger' = ledger
           /\ stage' = "confirmed" => stage = "confirmed"
  BY <1>5 DEF LedgerInv
<1>6. ASSUME Collect \/ Preview \/ Refuse \/ Simulate \/ (\E u \in Units : Simulated(u))
               \/ Send \/ Fail \/ TimeOut \/ UNCHANGED vars
      PROVE  /\ ledger' = ledger
             /\ stage' = "confirmed" => stage = "confirmed"
  BY <1>6 DEF Collect, Preview, Refuse, Simulate, Simulated, Send, Fail, TimeOut, Build,
              Stop, vars, off
<1> QED
  BY <1>1, <1>2, <1>3, <1>4, <1>5, <1>6 DEF Next

LEMMA LedgerAlways == Spec => []LedgerInv
<1>1. Init => LedgerInv
  BY DEF Init, LedgerInv
<1> QED
  BY <1>1, LedgerStep, PipeAlways, PTL DEF Spec

\* For every answer of a node, the limit the transaction is sent with is enough for all
\* it may need: up to a tenth more than it needed in the simulation.
THEOREM NeverRunsOut == Spec => []NeverStarved
<1>1. LedgerInv => NeverStarved
  BY DEF LedgerInv, NeverStarved, Pending
<1> QED
  BY <1>1, LedgerAlways, PTL

\* What the command line reports as successful can not be undone by a fork.
THEOREM ReportedIsExecuted == Spec => []ConfirmedIsExecuted
<1>1. LedgerInv => ConfirmedIsExecuted
  BY DEF LedgerInv, ConfirmedIsExecuted, Pending
<1> QED
  BY <1>1, LedgerAlways, PTL

-----------------------------------------------------------------------------
\* Where the tables have a key first.
Nowhere(tables, key) == Place(tables, key) = <<>>
Table(tables, key) == Place(tables, key)[1]
Entry(tables, key) == Place(tables, key)[2]
Earliest(p, places) == p \in places /\ \A q \in places : p[1] <= q[1]

LEMMA FirstPlace ==
    ASSUME NEW P \in SUBSET (Nat \X Nat), P # {}
    PROVE  Earliest(CHOOSE p \in P : \A q \in P : p[1] < q[1] \/ (p[1] = q[1] /\ p[2] <= q[2]), P)
<1> DEFINE Least(p) == \A q \in P : p[1] < q[1] \/ (p[1] = q[1] /\ p[2] <= q[2])
<1>1. PICK t \in {p[1] : p \in P} : \A u \in {p[1] : p \in P} : t <= u
  <2>1. {p[1] : p \in P} \in SUBSET Nat /\ {p[1] : p \in P} # {}
    OBVIOUS
  <2> QED
    BY <2>1, LeastNumber
<1>2. PICK e \in {p[2] : p \in {r \in P : r[1] = t}} :
         \A u \in {p[2] : p \in {r \in P : r[1] = t}} : e <= u
  <2>1. {p[2] : p \in {r \in P : r[1] = t}} \in SUBSET Nat
        /\ {p[2] : p \in {r \in P : r[1] = t}} # {}
    OBVIOUS
  <2> QED
    BY <2>1, LeastNumber
<1>3. PICK p \in P : p[1] = t /\ p[2] = e
  OBVIOUS
<1>4. Least(p)
  <2>1. SUFFICES ASSUME NEW q \in P PROVE p[1] < q[1] \/ (p[1] = q[1] /\ p[2] <= q[2])
    OBVIOUS
  <2>2. p[1] <= q[1] /\ p[1] \in Nat /\ q[1] \in Nat /\ p[2] \in Nat /\ q[2] \in Nat
    BY <1>1, <1>3
  <2>3. q[1] = t => p[2] <= q[2]
    BY <1>2, <1>3
  <2> QED
    BY <1>3, <2>2, <2>3
<1>5. PICK r : r = CHOOSE x \in P : Least(x)
  OBVIOUS
<1>6. r \in P /\ Least(r)
  <2> HIDE DEF Least
  <2> QED
    BY <1>4, <1>5
<1>7. \A q \in P : r[1] <= q[1]
  <2>1. \A q \in P : r[1] \in Nat /\ q[1] \in Nat
    BY <1>6
  <2> QED
    BY <1>6, <2>1
<1> QED
  BY Zenon, <1>5, <1>6, <1>7 DEF Earliest

\* A key that is somewhere is there, and no table before has it.
Located(tables, key) ==
    /\ Table(tables, key) \in 1..Len(tables)
    /\ Entry(tables, key) \in DOMAIN tables[Table(tables, key)]
    /\ tables[Table(tables, key)][Entry(tables, key)] = key
FirstHas(tables, key, t) == ~Nowhere(tables, key) /\ Table(tables, key) <= t

LEMMA PlaceFacts ==
    ASSUME NEW tables \in Tables, NEW key
    PROVE  /\ ~Nowhere(tables, key) => Located(tables, key)
           /\ \A t \in DOMAIN tables : key \in ToSet(tables[t]) => FirstHas(tables, key, t)
<1>1. /\ tables \in Seq(Seq(Key)) /\ DOMAIN tables = 1..Len(tables) /\ Len(tables) \in Nat
      /\ \A t \in DOMAIN tables : /\ tables[t] \in Seq(Key) /\ Len(tables[t]) <= 256
                                  /\ DOMAIN tables[t] = 1..Len(tables[t]) /\ Len(tables[t]) \in Nat
  <2>1. tables \in Seq(Seq(Key)) /\ \A t \in DOMAIN tables : Len(tables[t]) <= 256
    BY TablesAssumption
  <2>2. \A t \in DOMAIN tables : tables[t] \in Seq(Key)
    BY <2>1
  <2> QED
    BY <2>1, <2>2
<1>5. ASSUME NEW t \in DOMAIN tables, NEW e \in DOMAIN tables[t] PROVE e \in 1..256
  <2>1. PICK l \in Nat : l = Len(tables[t])
    BY <1>1
  <2>2. l <= 256 /\ e \in 1..l
    BY <1>1, <2>1
  <2> QED
    BY <2>2
<1>2. PICK P \in SUBSET (Nat \X Nat) : P = Places(tables, key)
  <2>1. Places(tables, key) \subseteq Nat \X Nat
    BY <1>1 DEF Places
  <2> QED
    BY <2>1
<1>3. CASE P = {}
  <2>1. Nowhere(tables, key)
    BY <1>2, <1>3 DEF Nowhere, Place
  <2>2. ASSUME NEW t \in DOMAIN tables, key \in ToSet(tables[t]) PROVE FALSE
    <3>1. PICK e \in DOMAIN tables[t] : tables[t][e] = key
      BY <2>2 DEF ToSet
    <3>2. e \in 1..256
      BY <1>5
    <3>3. <<t, e>> \in Places(tables, key)
      BY <3>1, <3>2 DEF Places
    <3> QED
      BY <1>2, <1>3, <3>3
  <2> QED
    BY <2>1, <2>2
<1>4. CASE P # {}
  <2>1. Earliest(Place(tables, key), P)
    <3>1. Place(tables, key)
            = CHOOSE p \in P : \A q \in P : p[1] < q[1] \/ (p[1] = q[1] /\ p[2] <= q[2])
      BY Zenon, <1>2, <1>4 DEF Place
    <3> QED
      BY Zenon, <1>4, <3>1, FirstPlace
  <2>2. PICK p \in P : p = Place(tables, key) /\ \A q \in P : p[1] <= q[1]
    BY <2>1 DEF Earliest
  <2>3. p[1] \in DOMAIN tables /\ p[2] \in DOMAIN tables[p[1]] /\ tables[p[1]][p[2]] = key
    BY <1>2, <2>2 DEF Places
  <2>4. p # <<>>
    <3>1. p \in Nat \X Nat
      BY <1>2, <2>2
    <3> QED
      BY <3>1
  <2>5. Located(tables, key) /\ ~Nowhere(tables, key)
    BY <1>1, <2>2, <2>3, <2>4 DEF Located, Nowhere, Table, Entry
  <2>6. ASSUME NEW t \in DOMAIN tables, key \in ToSet(tables[t]) PROVE FirstHas(tables, key, t)
    <3>1. PICK e \in DOMAIN tables[t] : tables[t][e] = key
      BY <2>6 DEF ToSet
    <3>2. e \in 1..256
      BY <1>5
    <3>3. <<t, e>> \in P
      BY <1>2, <3>1, <3>2 DEF Places
    <3>4. p[1] <= t
      BY <2>2, <3>3
    <3> QED
      BY <2>2, <2>5, <3>4 DEF FirstHas, Table
  <2> QED
    BY <2>5, <2>6
<1> QED
  BY <1>3, <1>4

-----------------------------------------------------------------------------
\* Accounts, instructions and tables, and the accounts that are not static behind a
\* table.
Dividing(s, tables) == s \in Seq(MetaOf(Key)) /\ Distinct(s) /\ tables \in Tables
Behind(a, ixs, tables, t, w) ==
    ~Static(a, ixs, tables) /\ a.writable = w /\ Table(tables, a.key) = t

LEMMA FoundFacts ==
    ASSUME NEW s, NEW ixs, NEW tables, NEW t, NEW w, Dividing(s, tables)
    PROVE  /\ Found(s, ixs, tables, t, w) \in Seq(MetaOf(Key))
           /\ Once(Found(s, ixs, tables, t, w))
           /\ \A a : a \in ToSet(Found(s, ixs, tables, t, w))
                        <=> a \in ToSet(s) /\ Behind(a, ixs, tables, t, w)
           /\ Found(s, ixs, tables, t, w)
                 = Only(s, {a \in ToSet(s) : Behind(a, ixs, tables, t, w)})
<1>1. Once(s) /\ s \in Seq(MetaOf(Key))
  BY DEF Once, Distinct, Dividing
<1>2. PICK some : some = {a \in ToSet(s) : Behind(a, ixs, tables, t, w)}
  OBVIOUS
<1>3. Found(s, ixs, tables, t, w) = Only(s, some)
  BY Zenon, <1>2 DEF Found, Behind, Table
<1>4. /\ Only(s, some) \in Seq(MetaOf(Key)) /\ Once(Only(s, some))
      /\ ToSet(Only(s, some)) = ToSet(s) \cap some
  BY <1>1, OnlyFacts
<1>5. \A a : a \in ToSet(s) \cap some <=> a \in ToSet(s) /\ Behind(a, ixs, tables, t, w)
  BY Zenon, <1>2
<1> QED
  BY Zenon, <1>2, <1>3, <1>4, <1>5

\* What web3.js has after n tables: static is what no table so far has, and each table
\* has what is behind it.
Remains(a, ixs, tables, n) == Static(a, ixs, tables) \/ Table(tables, a.key) > n
Has(s, ixs, tables, t) ==
    Found(s, ixs, tables, t, TRUE) # <<>> \/ Found(s, ixs, tables, t, FALSE) # <<>>
Both(s, ixs, tables, t) ==
    [writable |-> Found(s, ixs, tables, t, TRUE), readonly |-> Found(s, ixs, tables, t, FALSE)]
DrainedUpto(c, s, ixs, tables, n) ==
    /\ c.static = Only(s, {a \in ToSet(s) : Remains(a, ixs, tables, n)})
    /\ c.lookups = [t \in {u \in 1..n : Has(s, ixs, tables, u)} |-> Both(s, ixs, tables, t)]

\* Draining the next table finds what is behind it.
LEMMA DrainFinds ==
    ASSUME NEW s, NEW ixs, NEW tables, Dividing(s, tables), NEW n \in Nat, n + 1 <= Len(tables),
           NEW w \in BOOLEAN, NEW rest, rest = Only(s, {a \in ToSet(s) : Remains(a, ixs, tables, n)})
    PROVE  Drained(rest, ixs, tables[n + 1], w) = Found(s, ixs, tables, n + 1, w)
<1>0. s \in Seq(MetaOf(Key)) /\ tables \in Tables
  BY DEF Dividing
<1>9. n + 1 \in DOMAIN tables
  BY <1>0, TablesAssumption
<1>1. PICK R : R = {a \in ToSet(s) : Remains(a, ixs, tables, n)}
  OBVIOUS
<1>2. ToSet(rest) = ToSet(s) \cap R
  BY <1>0, <1>1, OnlyFacts
<1>3. PICK D : D = {a \in ToSet(rest) : /\ ~a.signer /\ a.key \notin Invoked(ixs)
                                       /\ a.writable = w /\ a.key \in ToSet(tables[n + 1])}
  OBVIOUS
<1>4. PICK F : F = {a \in ToSet(s) : Behind(a, ixs, tables, n + 1, w)}
  OBVIOUS
<1>5. Drained(rest, ixs, tables[n + 1], w) = Only(s, R \cap D)
  <2>1. Drained(rest, ixs, tables[n + 1], w) = Only(rest, D)
    BY Zenon, <1>3 DEF Drained
  <2>2. Only(Only(s, R), D) = Only(s, R \cap D)
    BY <1>0, OnlyOnly
  <2> QED
    BY Zenon, <1>1, <2>1, <2>2
<1>6. ASSUME NEW a \in ToSet(s) PROVE a \in R \cap D <=> a \in F
  <2>1. a \in R <=> Static(a, ixs, tables) \/ Table(tables, a.key) > n
    BY <1>1 DEF Remains
  <2>2. a \in R \cap D <=> /\ a \in R /\ ~a.signer /\ a.key \notin Invoked(ixs)
                          /\ a.writable = w /\ a.key \in ToSet(tables[n + 1])
    BY <1>2, <1>3
  <2>3. a \in F <=> ~Static(a, ixs, tables) /\ a.writable = w /\ Table(tables, a.key) = n + 1
    BY <1>4 DEF Behind
  <2>4. ~Static(a, ixs, tables)
            <=> ~a.signer /\ a.key \notin Invoked(ixs) /\ ~Nowhere(tables, a.key)
    BY Zenon DEF Static, Nowhere
  <2>5. ~Nowhere(tables, a.key) => Located(tables, a.key)
    BY <1>0, PlaceFacts
  <2>6. a.key \in ToSet(tables[n + 1]) => FirstHas(tables, a.key, n + 1)
    BY <1>0, <1>9, PlaceFacts
  <2>7. ASSUME Located(tables, a.key), Table(tables, a.key) = n + 1
        PROVE  a.key \in ToSet(tables[n + 1])
    BY <2>7 DEF Located, ToSet
  <2>8. ASSUME Located(tables, a.key)
        PROVE  Table(tables, a.key) = n + 1 <=>
                  Table(tables, a.key) > n /\ Table(tables, a.key) <= n + 1
    BY <2>8, TablesAssumption DEF Located
  <2>9. FirstHas(tables, a.key, n + 1) <=>
            ~Nowhere(tables, a.key) /\ Table(tables, a.key) <= n + 1
    BY DEF FirstHas
  <2> QED
    BY Zenon, <2>1, <2>2, <2>3, <2>4, <2>5, <2>6, <2>7, <2>8, <2>9
<1>7. Only(s, R \cap D) = Only(s, F)
  BY <1>0, <1>6, OnlySame
<1>8. Found(s, ixs, tables, n + 1, w) = Only(s, F)
  BY Zenon, <1>4, FoundFacts
<1> QED
  BY Zenon, <1>5, <1>7, <1>8

LEMMA DrainKeeps ==
    ASSUME NEW s, NEW ixs, NEW tables, Dividing(s, tables), NEW n \in Nat, n + 1 <= Len(tables),
           NEW c, DrainedUpto(c, s, ixs, tables, n)
    PROVE  DrainedUpto(Drain(c, ixs, tables, n + 1), s, ixs, tables, n + 1)
<1>0. s \in Seq(MetaOf(Key)) /\ ToSet(s) \subseteq MetaOf(Key)
  <2>1. s \in Seq(MetaOf(Key))
    BY DEF Dividing
  <2> QED
    BY <2>1 DEF ToSet
<1>1. PICK R : R = {a \in ToSet(s) : Remains(a, ixs, tables, n)}
  OBVIOUS
<1>2. PICK rest : rest = c.static
  OBVIOUS
<1>3. rest = Only(s, R)
  BY <1>1, <1>2 DEF DrainedUpto
<1>4. PICK w : w = Found(s, ixs, tables, n + 1, TRUE)
  OBVIOUS
<1>5. PICK r : r = Found(s, ixs, tables, n + 1, FALSE)
  OBVIOUS
<1>6. /\ Drained(rest, ixs, tables[n + 1], TRUE) = w
      /\ Drained(rest, ixs, tables[n + 1], FALSE) = r
  <2>1. TRUE \in BOOLEAN /\ FALSE \in BOOLEAN
    OBVIOUS
  <2>2. Drained(rest, ixs, tables[n + 1], TRUE) = Found(s, ixs, tables, n + 1, TRUE)
    BY <1>1, <1>3, <2>1, DrainFinds
  <2>3. Drained(rest, ixs, tables[n + 1], FALSE) = Found(s, ixs, tables, n + 1, FALSE)
    BY <1>1, <1>3, <2>1, DrainFinds
  <2> QED
    BY Zenon, <1>4, <1>5, <2>2, <2>3
<1>7. PICK d : d = Drain(c, ixs, tables, n + 1)
  OBVIOUS
<1>8. d.static = Only(rest, ToSet(rest) \ (ToSet(w) \cup ToSet(r)))
  BY <1>2, <1>6, <1>7 DEF Drain
<1>9. d.lookups = IF w = <<>> /\ r = <<>> THEN c.lookups
                  ELSE [u \in DOMAIN c.lookups \cup {n + 1} |->
                           IF u = n + 1 THEN [writable |-> w, readonly |-> r] ELSE c.lookups[u]]
  BY <1>2, <1>6, <1>7 DEF Drain
<1>10. d.static = Only(s, {a \in ToSet(s) : Remains(a, ixs, tables, n + 1)})
  <2>1. PICK D : D = ToSet(rest) \ (ToSet(w) \cup ToSet(r))
    OBVIOUS
  <2>2. PICK Q : Q = {a \in ToSet(s) : Remains(a, ixs, tables, n + 1)}
    OBVIOUS
  <2>3. Only(Only(s, R), D) = Only(s, R \cap D)
    BY <1>0, OnlyOnly
  <2>4. ToSet(rest) = ToSet(s) \cap R
    BY <1>0, <1>3, OnlyFacts
  <2>5. ASSUME NEW a \in ToSet(s) PROVE a \in R \cap D <=> a \in Q
    <3>1. a \in R <=> Static(a, ixs, tables) \/ Table(tables, a.key) > n
      BY <1>1 DEF Remains
    <3>2. a \in Q <=> Static(a, ixs, tables) \/ Table(tables, a.key) > n + 1
      BY <2>2 DEF Remains
    <3>3. a \in ToSet(w) <=> Behind(a, ixs, tables, n + 1, TRUE)
      BY Zenon, <1>4, FoundFacts
    <3>4. a \in ToSet(r) <=> Behind(a, ixs, tables, n + 1, FALSE)
      BY Zenon, <1>5, FoundFacts
    <3>5. a.writable = TRUE \/ a.writable = FALSE
      BY <1>0 DEF MetaOf
    <3>6. a \in ToSet(w) \/ a \in ToSet(r)
             <=> ~Static(a, ixs, tables) /\ Table(tables, a.key) = n + 1
      BY Zenon, <3>3, <3>4, <3>5 DEF Behind
    <3>7. a \in R \cap D <=> a \in R /\ ~(a \in ToSet(w) \/ a \in ToSet(r))
      BY <2>1, <2>4
    <3>8. ASSUME ~Static(a, ixs, tables)
          PROVE  Table(tables, a.key) > n + 1 <=>
                    Table(tables, a.key) > n /\ Table(tables, a.key) # n + 1
      <4>1. ~Nowhere(tables, a.key)
        BY Zenon, <3>8 DEF Static, Nowhere
      <4>2. Located(tables, a.key)
        BY <4>1, PlaceFacts DEF Dividing
      <4>3. Table(tables, a.key) \in Int
        BY <4>2 DEF Located
      <4> QED
        BY <4>3
    <3> QED
      BY Zenon, <3>1, <3>2, <3>6, <3>7, <3>8
  <2>6. Only(s, R \cap D) = Only(s, Q)
    BY <1>0, <2>5, OnlySame
  <2> QED
    BY Zenon, <1>3, <1>8, <2>1, <2>2, <2>3, <2>6
<1>11. d.lookups = [t \in {u \in 1..(n + 1) : Has(s, ixs, tables, u)} |-> Both(s, ixs, tables, t)]
  <2>1. PICK T : T = {u \in 1..n : Has(s, ixs, tables, u)}
    OBVIOUS
  <2>2. PICK U : U = {u \in 1..(n + 1) : Has(s, ixs, tables, u)}
    OBVIOUS
  <2>3. c.lookups = [t \in T |-> Both(s, ixs, tables, t)]
    BY Zenon, <2>1 DEF DrainedUpto
  <2>4. Has(s, ixs, tables, n + 1) <=> ~(w = <<>> /\ r = <<>>)
    BY Zenon, <1>4, <1>5 DEF Has
  <2>5. n + 1 \notin T /\ 1..(n + 1) = 1..n \cup {n + 1}
    BY <2>1
  <2>6. CASE w = <<>> /\ r = <<>>
    <3>1. U = T
      BY <2>1, <2>2, <2>4, <2>5, <2>6
    <3>2. d.lookups = c.lookups
      BY Zenon, <1>9, <2>6
    <3> QED
      BY Zenon, <2>2, <2>3, <3>1, <3>2
  <2>7. CASE ~(w = <<>> /\ r = <<>>)
    <3>1. U = T \cup {n + 1}
      BY <2>1, <2>2, <2>4, <2>5, <2>7
    <3>2. [writable |-> w, readonly |-> r] = Both(s, ixs, tables, n + 1)
      BY Zenon, <1>4, <1>5 DEF Both
    <3>3. DOMAIN c.lookups = T /\ \A t \in T : c.lookups[t] = Both(s, ixs, tables, t)
      BY <2>3
    <3>4. d.lookups = [u \in U |-> IF u = n + 1 THEN [writable |-> w, readonly |-> r]
                                   ELSE c.lookups[u]]
      BY Zenon, <1>9, <2>7, <3>1, <3>3
    <3>5. PICK last : last = [writable |-> w, readonly |-> r]
      OBVIOUS
    <3>6. \A u \in U : (IF u = n + 1 THEN last ELSE c.lookups[u]) = Both(s, ixs, tables, u)
      BY Zenon, <3>1, <3>2, <3>3, <3>5
    <3> QED
      BY Zenon, <2>2, <3>4, <3>5, <3>6
  <2> QED
    BY <2>6, <2>7
<1> QED
  BY Zenon, <1>7, <1>10, <1>11 DEF DrainedUpto

\* The recursion of Compiled and its solution.
Compiling(s, ixs, tables, f) ==
    f = [t \in 0..Len(tables) |->
            IF t = 0 THEN [static |-> s, lookups |-> <<>>]
            ELSE Drain(f[t - 1], ixs, tables, t)]
CompiledUpto(s, ixs, tables) == CHOOSE f : Compiling(s, ixs, tables, f)

LEMMA CompilingExists ==
    ASSUME NEW s, NEW ixs, NEW tables, Len(tables) \in Nat
    PROVE  Compiling(s, ixs, tables, CompiledUpto(s, ixs, tables))
<1> DEFINE None == [static |-> s, lookups |-> <<>>]
           Step(f, t) == IF t = 0 THEN None ELSE Drain(f[t - 1], ixs, tables, t)
           Upto(n, f) == f = [i \in 0..n |-> Step(f, i)]
           T == {n \in Nat : \E f : Upto(n, f)}
<1> HIDE DEF None
<1>1. 0 \in T
  <2> DEFINE f == [i \in 0..0 |-> None]
  <2>1. Upto(0, f)
    OBVIOUS
  <2> QED
    <3> HIDE DEF Upto, f
    <3> QED
      BY <2>1
<1>2. ASSUME NEW n \in Nat, n \in T PROVE n + 1 \in T
  <2>1. PICK f : Upto(n, f)
    BY <1>2
  <2> DEFINE g == [i \in 0..(n + 1) |-> Step(f, i)]
  <2>2. \A i \in 0..n : f[i] = Step(f, i)
    BY <2>1
  <2>3. \A i \in 0..n : g[i] = f[i]
    BY <2>2
  <2>5. ASSUME NEW i \in 0..(n + 1) PROVE Step(g, i) = Step(f, i)
    <3>1. CASE i = 0
      BY <3>1
    <3>2. CASE i # 0
      <4>1. i - 1 \in 0..n
        BY <3>2
      <4>2. g[i - 1] = f[i - 1]
        BY <2>3, <4>1
      <4> HIDE DEF g
      <4> QED
        BY <3>2, <4>2
    <3> QED
      BY <3>1, <3>2
  <2>6. Upto(n + 1, g)
    BY <2>5
  <2> QED
    <3> HIDE DEF Upto, g
    <3> QED
      BY <2>6
<1> HIDE DEF T
<1>3. Len(tables) \in T
  BY <1>1, <1>2, NumberInduction
<1> QED
  BY <1>3, Zenon DEF T, Compiling, CompiledUpto, None

LEMMA CompiledFacts ==
    ASSUME NEW s, NEW ixs, NEW tables, Dividing(s, tables)
    PROVE  DrainedUpto(Compiled(s, ixs, tables), s, ixs, tables, Len(tables))
<1>0. PICK l \in Nat : l = Len(tables)
  <2>1. tables \in Seq(Seq(Key))
    BY TablesAssumption DEF Dividing
  <2> QED
    BY <2>1
<1>1. PICK f : f = CompiledUpto(s, ixs, tables)
  OBVIOUS
<1>2. Compiling(s, ixs, tables, f)
  BY <1>0, <1>1, CompilingExists
<1>3. Compiled(s, ixs, tables) = f[l]
  BY Zenon, <1>0, <1>1 DEF Compiled, CompiledUpto, Compiling
<1> DEFINE T == {n \in Nat : n <= l => DrainedUpto(f[n], s, ixs, tables, n)}
<1>4. 0 \in T
  <2>1. f[0] = [static |-> s, lookups |-> <<>>]
    BY <1>0, <1>2 DEF Compiling
  <2>2. f[0].static = s /\ f[0].lookups = <<>>
    BY <2>1
  <2>3. s = Only(s, {a \in ToSet(s) : Remains(a, ixs, tables, 0)})
    <3>1. PICK Q : Q = {a \in ToSet(s) : Remains(a, ixs, tables, 0)}
      OBVIOUS
    <3>2. \A a \in ToSet(s) : a \in ToSet(s) <=> a \in Q
      <4>1. ASSUME NEW a \in ToSet(s), ~Static(a, ixs, tables) PROVE Table(tables, a.key) > 0
        <5>1. ~Nowhere(tables, a.key)
          BY Zenon, <4>1 DEF Static, Nowhere
        <5>2. Located(tables, a.key)
          BY <5>1, PlaceFacts DEF Dividing
        <5> QED
          BY <1>0, <5>2 DEF Located
      <4> QED
        BY <3>1, <4>1 DEF Remains
    <3>3. Only(s, ToSet(s)) = Only(s, Q)
      BY <3>2, OnlySame DEF Dividing
    <3>4. Only(s, ToSet(s)) = s
      BY OnlyAll DEF Dividing
    <3> QED
      BY Zenon, <3>1, <3>3, <3>4
  <2>4. <<>> = [t \in {u \in 1..0 : Has(s, ixs, tables, u)} |-> Both(s, ixs, tables, t)]
    <3>1. {u \in 1..0 : Has(s, ixs, tables, u)} = {}
      OBVIOUS
    <3>2. <<>> = [t \in {} |-> Both(s, ixs, tables, t)]
      OBVIOUS
    <3> QED
      BY Zenon, <3>1, <3>2
  <2>5. DrainedUpto(f[0], s, ixs, tables, 0)
    BY Zenon, <2>2, <2>3, <2>4 DEF DrainedUpto
  <2> QED
    BY <2>5
<1>5. ASSUME NEW n \in Nat, n \in T PROVE n + 1 \in T
  <2>1. SUFFICES ASSUME n + 1 <= l PROVE DrainedUpto(f[n + 1], s, ixs, tables, n + 1)
    OBVIOUS
  <2>2. n + 1 \in 0..l /\ n + 1 # 0 /\ (n + 1) - 1 = n /\ n <= l
    BY <2>1
  <2>3. f[n + 1] = Drain(f[n], ixs, tables, n + 1)
    BY <1>0, <1>2, <2>2 DEF Compiling
  <2>4. DrainedUpto(f[n], s, ixs, tables, n)
    BY <1>5, <2>2
  <2>5. DrainedUpto(Drain(f[n], ixs, tables, n + 1), s, ixs, tables, n + 1)
    BY <1>0, <2>1, <2>4, DrainKeeps
  <2> QED
    BY <2>3, <2>5
<1> HIDE DEF T
<1>6. l \in T
  BY <1>4, <1>5, NumberInduction
<1>7. DrainedUpto(f[l], s, ixs, tables, l)
  BY <1>6 DEF T
<1> QED
  BY Zenon, <1>0, <1>3, <1>7

-----------------------------------------------------------------------------
\* The lists of the SDK are as long as what is behind the table.
LEMMA IndexesFacts ==
    ASSUME NEW s, NEW ixs, NEW tables, NEW t, NEW w, Dividing(s, tables)
    PROVE  /\ DOMAIN Indexes(s, ixs, tables, t, w) = DOMAIN Found(s, ixs, tables, t, w)
           /\ \A k \in DOMAIN Found(s, ixs, tables, t, w) :
                 Indexes(s, ixs, tables, t, w)[k]
                    = Entry(tables, Found(s, ixs, tables, t, w)[k].key)
           /\ Len(Indexes(s, ixs, tables, t, w)) = Len(Found(s, ixs, tables, t, w))
           /\ Indexes(s, ixs, tables, t, w) = <<>> <=> Found(s, ixs, tables, t, w) = <<>>
<1>1. PICK found \in Seq(MetaOf(Key)) : found = Found(s, ixs, tables, t, w)
  BY FoundFacts
<1>2. Indexes(s, ixs, tables, t, w) = [k \in DOMAIN found |-> Entry(tables, found[k].key)]
  BY Zenon, <1>1 DEF Indexes, Entry
<1>3. PICK l \in Nat : l = Len(found) /\ DOMAIN found = 1..l
  OBVIOUS
<1>4. PICK i : i = [k \in 1..l |-> Entry(tables, found[k].key)]
  OBVIOUS
<1>5. DOMAIN i = 1..l /\ \A k \in 1..l : i[k] = Entry(tables, found[k].key)
  BY <1>4
<1>6. Len(i) = l /\ (i = <<>> <=> l = 0)
  BY <1>4
<1>7. l = 0 <=> found = <<>>
  BY <1>3
<1>8. Indexes(s, ixs, tables, t, w) = i
  BY Zenon, <1>2, <1>3, <1>4
<1> QED
  BY Zenon, <1>1, <1>3, <1>5, <1>6, <1>7, <1>8

LEMMA LookupsFacts ==
    ASSUME NEW s, NEW ixs, NEW tables, Dividing(s, tables), NEW found, found = Lookups(s, ixs, tables)
    PROVE  /\ DOMAIN found = {u \in 1..Len(tables) : Has(s, ixs, tables, u)}
           /\ \A t \in DOMAIN found :
                 /\ found[t].writable = Indexes(s, ixs, tables, t, TRUE)
                 /\ found[t].readonly = Indexes(s, ixs, tables, t, FALSE)
<1>1. DOMAIN tables = 1..Len(tables)
  BY TablesAssumption DEF Dividing
<1>2. \A u : (\/ Indexes(s, ixs, tables, u, TRUE) # <<>>
              \/ Indexes(s, ixs, tables, u, FALSE) # <<>>) <=> Has(s, ixs, tables, u)
  BY Zenon, IndexesFacts DEF Has
<1>3. PICK D : D = {u \in 1..Len(tables) : Has(s, ixs, tables, u)}
  OBVIOUS
<1>4. D = {u \in DOMAIN tables : \/ Indexes(s, ixs, tables, u, TRUE) # <<>>
                                 \/ Indexes(s, ixs, tables, u, FALSE) # <<>>}
  BY <1>1, <1>2, <1>3
<1>5. found = [t \in D |-> [writable |-> Indexes(s, ixs, tables, t, TRUE),
                            readonly |-> Indexes(s, ixs, tables, t, FALSE)]]
  BY Zenon, <1>4 DEF Lookups
<1>6. DOMAIN found = D
  BY <1>5
<1>7. ASSUME NEW t \in D
      PROVE  /\ found[t].writable = Indexes(s, ixs, tables, t, TRUE)
             /\ found[t].readonly = Indexes(s, ixs, tables, t, FALSE)
  <2>1. found[t] = [writable |-> Indexes(s, ixs, tables, t, TRUE),
                    readonly |-> Indexes(s, ixs, tables, t, FALSE)]
    BY Zenon, <1>5
  <2> QED
    BY <2>1
<1> QED
  BY <1>3, <1>6, <1>7

\* No table has what is static at last.
LEMMA SameStatic ==
    ASSUME NEW s, NEW ixs, NEW tables, Dividing(s, tables)
    PROVE  Compiled(s, ixs, tables).static = StaticKeys(s, ixs, tables)
<1>0. s \in Seq(MetaOf(Key)) /\ tables \in Tables
  BY DEF Dividing
<1>1. PICK R : R = {a \in ToSet(s) : Remains(a, ixs, tables, Len(tables))}
  OBVIOUS
<1>2. PICK S : S = {a \in ToSet(s) : Static(a, ixs, tables)}
  OBVIOUS
<1>3. \A a \in ToSet(s) : a \in R <=> a \in S
  <2>1. SUFFICES ASSUME NEW a \in ToSet(s), ~Static(a, ixs, tables)
                 PROVE  ~(Table(tables, a.key) > Len(tables))
    BY <1>1, <1>2 DEF Remains
  <2>2. ~Nowhere(tables, a.key)
    BY Zenon, <2>1 DEF Static, Nowhere
  <2>3. Located(tables, a.key)
    BY <1>0, <2>2, PlaceFacts
  <2>4. Len(tables) \in Nat
    BY <1>0, TablesAssumption
  <2> QED
    BY <2>3, <2>4 DEF Located
<1>4. Only(s, R) = Only(s, S)
  BY <1>0, <1>3, OnlySame
<1>5. Compiled(s, ixs, tables).static = Only(s, R)
  <2>1. DrainedUpto(Compiled(s, ixs, tables), s, ixs, tables, Len(tables))
    BY CompiledFacts
  <2> QED
    BY Zenon, <1>1, <2>1 DEF DrainedUpto
<1>6. StaticKeys(s, ixs, tables) = Only(s, S)
  BY Zenon, <1>2 DEF StaticKeys
<1> QED
  BY Zenon, <1>4, <1>5, <1>6

\* The size depends on the lengths of the lists only.
Listed(l) == KeySize + CompactLen(Len(l.writable)) + Len(l.writable)
               + CompactLen(Len(l.readonly)) + Len(l.readonly)

LEMMA SameSize ==
    ASSUME NEW static, NEW ixs, NEW some, NEW others, DOMAIN some = DOMAIN others,
           \A t \in DOMAIN some : /\ Len(some[t].writable) = Len(others[t].writable)
                                  /\ Len(some[t].readonly) = Len(others[t].readonly)
    PROVE  SizeV0(static, ixs, some) = SizeV0(static, ixs, others)
<1>1. \A t \in DOMAIN some : Listed(some[t]) = Listed(others[t])
  BY Zenon DEF Listed
<1>2. [t \in DOMAIN some |-> Listed(some[t])] = [t \in DOMAIN others |-> Listed(others[t])]
  BY Zenon, <1>1
<1> QED
  BY Zenon, <1>2 DEF SizeV0, Listed

LEMMA EstimateIsCompiled ==
    ASSUME NEW s, NEW ixs, NEW tables, Dividing(s, tables)
    PROVE  EstimateV0(s, ixs, tables)
              = SizeV0(Compiled(s, ixs, tables).static, ixs, Compiled(s, ixs, tables).lookups)
<1>1. PICK ours : ours = Lookups(s, ixs, tables)
  OBVIOUS
<1>2. PICK theirs : theirs = Compiled(s, ixs, tables).lookups
  OBVIOUS
<1>3. theirs = [t \in {u \in 1..Len(tables) : Has(s, ixs, tables, u)} |-> Both(s, ixs, tables, t)]
  <2>1. DrainedUpto(Compiled(s, ixs, tables), s, ixs, tables, Len(tables))
    BY CompiledFacts
  <2> QED
    BY Zenon, <1>2, <2>1 DEF DrainedUpto
<1>4. DOMAIN ours = {u \in 1..Len(tables) : Has(s, ixs, tables, u)}
  BY <1>1, LookupsFacts
<1>5. DOMAIN theirs = DOMAIN ours
  BY <1>3, <1>4
<1>6. ASSUME NEW t \in DOMAIN ours
      PROVE  /\ Len(ours[t].writable) = Len(theirs[t].writable)
             /\ Len(ours[t].readonly) = Len(theirs[t].readonly)
  <2>1. theirs[t] = Both(s, ixs, tables, t)
    BY <1>3, <1>4
  <2>2. /\ theirs[t].writable = Found(s, ixs, tables, t, TRUE)
        /\ theirs[t].readonly = Found(s, ixs, tables, t, FALSE)
    BY <2>1 DEF Both
  <2>3. /\ ours[t].writable = Indexes(s, ixs, tables, t, TRUE)
        /\ ours[t].readonly = Indexes(s, ixs, tables, t, FALSE)
    BY <1>1, LookupsFacts
  <2>4. /\ Len(Indexes(s, ixs, tables, t, TRUE)) = Len(Found(s, ixs, tables, t, TRUE))
        /\ Len(Indexes(s, ixs, tables, t, FALSE)) = Len(Found(s, ixs, tables, t, FALSE))
    BY IndexesFacts
  <2> QED
    BY Zenon, <2>2, <2>3, <2>4
<1>7. SizeV0(StaticKeys(s, ixs, tables), ixs, ours) = SizeV0(StaticKeys(s, ixs, tables), ixs, theirs)
  BY <1>5, <1>6, SameSize
<1> QED
  BY Zenon, <1>1, <1>2, <1>7, SameStatic DEF EstimateV0

-----------------------------------------------------------------------------
\* The runtime finds an account where it is behind a table, and nowhere else.
LEMMA EntriesFind ==
    ASSUME NEW s, NEW ixs, NEW tables, Dividing(s, tables), NEW a \in ToSet(s), NEW w \in BOOLEAN,
           NEW p
    PROVE  p \in Entries(Lookups(s, ixs, tables), tables, a, w)
              <=> \E t \in 1..Len(tables) : \E k \in DOMAIN Found(s, ixs, tables, t, w) :
                     p = <<t, k>> /\ Found(s, ixs, tables, t, w)[k] = a
<1> DEFINE found(t) == Found(s, ixs, tables, t, w)
           List(t) == IF w THEN Lookups(s, ixs, tables)[t].writable
                      ELSE Lookups(s, ixs, tables)[t].readonly
<1>1. DOMAIN Lookups(s, ixs, tables) = {u \in 1..Len(tables) : Has(s, ixs, tables, u)}
  BY LookupsFacts
<1>2. ASSUME NEW t \in DOMAIN Lookups(s, ixs, tables) PROVE List(t) = Indexes(s, ixs, tables, t, w)
  <2>1. /\ Lookups(s, ixs, tables)[t].writable = Indexes(s, ixs, tables, t, TRUE)
        /\ Lookups(s, ixs, tables)[t].readonly = Indexes(s, ixs, tables, t, FALSE)
    BY LookupsFacts
  <2>2. CASE w = TRUE
    BY Zenon, <2>1, <2>2
  <2>3. CASE w = FALSE
    BY Zenon, <2>1, <2>3
  <2> QED
    BY <2>2, <2>3
<1>3. ASSUME NEW t, NEW k \in DOMAIN found(t)
      PROVE  /\ Has(s, ixs, tables, t)
             /\ tables[t][Indexes(s, ixs, tables, t, w)[k]] = a.key <=> found(t)[k] = a
  <2>1. found(t)[k] \in ToSet(found(t)) /\ found(t) # <<>>
    BY <1>3 DEF ToSet
  <2>2. found(t)[k] \in ToSet(s) /\ Behind(found(t)[k], ixs, tables, t, w)
    BY <2>1, FoundFacts
  <2>3. PICK b \in ToSet(s) : b = found(t)[k] /\ Behind(b, ixs, tables, t, w)
    BY Zenon, <2>2
  <2>4. Table(tables, b.key) = t /\ ~Nowhere(tables, b.key)
    BY Zenon, <2>3 DEF Behind, Static, Nowhere
  <2>5. tables[t][Entry(tables, b.key)] = b.key
    <3>1. Located(tables, b.key)
      BY <2>4, PlaceFacts DEF Dividing
    <3> QED
      BY Zenon, <2>4, <3>1 DEF Located
  <2>6. Indexes(s, ixs, tables, t, w)[k] = Entry(tables, b.key)
    <3>1. \A j \in DOMAIN Found(s, ixs, tables, t, w) :
             Indexes(s, ixs, tables, t, w)[j] = Entry(tables, Found(s, ixs, tables, t, w)[j].key)
      BY IndexesFacts
    <3> QED
      BY Zenon, <1>3, <2>3, <3>1
  <2>7. b.key = a.key <=> b = a
    BY DEF Dividing, Distinct, ToSet
  <2>8. Has(s, ixs, tables, t)
    <3>1. w = TRUE \/ w = FALSE
      OBVIOUS
    <3> QED
      BY Zenon, <2>1, <3>1 DEF Has
  <2> QED
    BY Zenon, <2>3, <2>5, <2>6, <2>7, <2>8
<1>4. \A t : DOMAIN Indexes(s, ixs, tables, t, w) = DOMAIN found(t)
  BY IndexesFacts
<1>5. p \in Entries(Lookups(s, ixs, tables), tables, a, w)
         <=> \E t \in DOMAIN Lookups(s, ixs, tables) : \E k \in DOMAIN List(t) :
                p = <<t, k>> /\ tables[t][List(t)[k]] = a.key
  <2> HIDE DEF List, found
  <2>1. \A t : p \in {t} \X {k \in DOMAIN List(t) : tables[t][List(t)[k]] = a.key}
                <=> \E k \in DOMAIN List(t) : p = <<t, k>> /\ tables[t][List(t)[k]] = a.key
    BY SMT
  <2>2. p \in UNION { {t} \X {k \in DOMAIN List(t) : tables[t][List(t)[k]] = a.key} :
                         t \in DOMAIN Lookups(s, ixs, tables) }
           <=> \E t \in DOMAIN Lookups(s, ixs, tables) :
                  p \in {t} \X {k \in DOMAIN List(t) : tables[t][List(t)[k]] = a.key}
    BY Zenon
  <2> QED
    BY Zenon, <2>1, <2>2 DEF Entries, List
<1>6. \A t \in 1..Len(tables) : \A k \in DOMAIN found(t) : t \in DOMAIN Lookups(s, ixs, tables)
  BY <1>1, <1>3
<1>7. \A t \in DOMAIN Lookups(s, ixs, tables) : t \in 1..Len(tables)
  BY <1>1
<1> DEFINE At(t, k) == p = <<t, k>> /\ found(t)[k] = a
<1>8. ASSUME NEW t \in DOMAIN Lookups(s, ixs, tables)
      PROVE  /\ DOMAIN List(t) = DOMAIN found(t)
             /\ \A k \in DOMAIN found(t) :
                   p = <<t, k>> /\ tables[t][List(t)[k]] = a.key <=> At(t, k)
  <2>1. DOMAIN List(t) = DOMAIN found(t)
    <3> HIDE DEF List, found
    <3> QED
      BY Zenon, <1>2, <1>4
  <2>2. ASSUME NEW k \in DOMAIN found(t)
        PROVE  p = <<t, k>> /\ tables[t][List(t)[k]] = a.key <=> At(t, k)
    <3>1. tables[t][Indexes(s, ixs, tables, t, w)[k]] = a.key <=> found(t)[k] = a
      BY <1>3
    <3> HIDE DEF List, found
    <3>2. tables[t][List(t)[k]] = tables[t][Indexes(s, ixs, tables, t, w)[k]]
      BY Zenon, <1>2
    <3> QED
      BY Zenon, <3>1, <3>2
  <2> QED
    BY <2>1, <2>2
<1>9. p \in Entries(Lookups(s, ixs, tables), tables, a, w)
         <=> \E t \in 1..Len(tables) : \E k \in DOMAIN found(t) : At(t, k)
  <2> HIDE DEF List, found, At
  <2> QED
    BY Zenon, <1>5, <1>6, <1>7, <1>8
<1> QED
  BY <1>9

LEMMA EntriesCount ==
    ASSUME NEW s, NEW ixs, NEW tables, Dividing(s, tables), NEW a \in ToSet(s)
    PROVE  /\ Cardinality(Entries(Lookups(s, ixs, tables), tables, a, a.writable))
                = IF Static(a, ixs, tables) THEN 0 ELSE 1
           /\ Entries(Lookups(s, ixs, tables), tables, a, ~a.writable) = {}
<1>0. a.writable \in BOOLEAN /\ (~a.writable) \in BOOLEAN
  <2>1. s \in Seq(MetaOf(Key))
    BY DEF Dividing
  <2>2. a \in MetaOf(Key)
    BY <2>1 DEF ToSet
  <2>3. a.writable \in BOOLEAN
    BY <2>2 DEF MetaOf
  <2> QED
    BY Zenon, <2>3
<1>1. ASSUME NEW w \in BOOLEAN, NEW p \in Entries(Lookups(s, ixs, tables), tables, a, w)
      PROVE  \E k : /\ k \in DOMAIN Found(s, ixs, tables, Table(tables, a.key), w)
                    /\ Found(s, ixs, tables, Table(tables, a.key), w)[k] = a
                    /\ p = <<Table(tables, a.key), k>>
                    /\ ~Static(a, ixs, tables) /\ a.writable = w
  <2>1. PICK t \in 1..Len(tables) : \E k \in DOMAIN Found(s, ixs, tables, t, w) :
                     p = <<t, k>> /\ Found(s, ixs, tables, t, w)[k] = a
    BY EntriesFind
  <2>2. PICK k \in DOMAIN Found(s, ixs, tables, t, w) :
           p = <<t, k>> /\ Found(s, ixs, tables, t, w)[k] = a
    BY <2>1
  <2>3. a \in ToSet(Found(s, ixs, tables, t, w))
    BY <2>2 DEF ToSet
  <2>4. Behind(a, ixs, tables, t, w)
    BY Zenon, <2>3, FoundFacts
  <2> QED
    BY Zenon, <2>2, <2>4 DEF Behind
<1>2. Entries(Lookups(s, ixs, tables), tables, a, ~a.writable) = {}
  <2>1. (~a.writable) # a.writable
    BY <1>0
  <2> QED
    BY <1>0, <1>1, <2>1
<1>3. CASE Static(a, ixs, tables)
  <2>1. Entries(Lookups(s, ixs, tables), tables, a, a.writable) = {}
    BY <1>0, <1>1, <1>3
  <2> QED
    BY <1>2, <1>3, <2>1, FS_EmptySet
<1>4. CASE ~Static(a, ixs, tables)
  <2>1. PICK t, w : t = Table(tables, a.key) /\ w = a.writable /\ w \in BOOLEAN
    BY <1>0
  <2>2. PICK found \in Seq(MetaOf(Key)) : found = Found(s, ixs, tables, t, w) /\ Once(found)
    BY FoundFacts
  <2>3. t \in 1..Len(tables)
    <3>1. ~Nowhere(tables, a.key)
      BY Zenon, <1>4 DEF Static, Nowhere
    <3>2. Located(tables, a.key)
      BY <3>1, PlaceFacts DEF Dividing
    <3> QED
      BY <2>1, <3>2 DEF Located
  <2>4. a \in ToSet(found)
    <3>1. Behind(a, ixs, tables, t, w)
      BY Zenon, <1>4, <2>1 DEF Behind
    <3> QED
      BY Zenon, <2>2, <3>1, FoundFacts
  <2>5. PICK k \in DOMAIN found : found[k] = a
    BY <2>4 DEF ToSet
  <2>6. <<t, k>> \in Entries(Lookups(s, ixs, tables), tables, a, w)
    BY <2>1, <2>2, <2>3, <2>5, EntriesFind
  <2>7. ASSUME NEW p \in Entries(Lookups(s, ixs, tables), tables, a, w) PROVE p = <<t, k>>
    <3>1. PICK j : j \in DOMAIN found /\ found[j] = a /\ p = <<t, j>>
      BY Zenon, <1>1, <2>1, <2>2, <2>7
    <3>2. j = k
      BY <2>2, <2>5, <3>1 DEF Once
    <3> QED
      BY <3>1, <3>2
  <2>8. PICK x : x = <<t, k>>
    OBVIOUS
  <2>9. Entries(Lookups(s, ixs, tables), tables, a, w) = {x}
    BY <2>6, <2>7, <2>8
  <2>10. Cardinality({x}) = 1
    BY FS_Singleton
  <2> QED
    BY Zenon, <1>2, <1>4, <2>1, <2>9, <2>10
<1> QED
  BY <1>3, <1>4

LEMMA DividedAccounts ==
    ASSUME PipeInv, Divided, NEW tables \in Tables
    PROVE  Dividing(Sorted(accounts), tables)
<1>1. accounts \in Seq(MetaOf(Key)) /\ Distinct(accounts)
  BY AllCollected DEF PipeInv, Divided, Collected, Gathered
<1>2. Sorted(accounts) \in Seq(MetaOf(Key)) /\ Distinct(Sorted(accounts))
  BY <1>1, SortedFacts
<1> QED
  BY <1>2 DEF Dividing

\* For any lists of lookup tables: the SDK divides the accounts without loss, and its
\* estimate is the size of what web3.js compiles.
THEOREM DivisionIsExact == Spec => []V0IsExact
<1>1. ASSUME PipeInv PROVE V0IsExact
  <2>1. ASSUME Divided, NEW tables \in Tables, NEW s, s = Sorted(accounts), NEW a \in ToSet(s)
        PROVE  /\ Cardinality(Entries(Lookups(s, instructions, tables), tables, a, a.writable))
                    = IF a \in ToSet(StaticKeys(s, instructions, tables)) THEN 0 ELSE 1
               /\ Entries(Lookups(s, instructions, tables), tables, a, ~a.writable) = {}
               /\ a.signer \/ a.key \in Invoked(instructions)
                    => a \in ToSet(StaticKeys(s, instructions, tables))
    <3>1. Dividing(s, tables)
      BY <1>1, <2>1, DividedAccounts
    <3>2. a \in ToSet(StaticKeys(s, instructions, tables)) <=> Static(a, instructions, tables)
      <4>1. PICK S : S = {b \in ToSet(s) : Static(b, instructions, tables)}
        OBVIOUS
      <4>2. StaticKeys(s, instructions, tables) = Only(s, S)
        BY Zenon, <4>1 DEF StaticKeys
      <4>3. ToSet(Only(s, S)) = ToSet(s) \cap S
        BY <3>1, OnlyFacts DEF Dividing
      <4> QED
        BY <2>1, <4>1, <4>2, <4>3
    <3>3. /\ Cardinality(Entries(Lookups(s, instructions, tables), tables, a, a.writable))
                = IF Static(a, instructions, tables) THEN 0 ELSE 1
          /\ Entries(Lookups(s, instructions, tables), tables, a, ~a.writable) = {}
      BY <2>1, <3>1, EntriesCount
    <3>4. a.signer \/ a.key \in Invoked(instructions) => Static(a, instructions, tables)
      BY Zenon DEF Static
    <3> QED
      BY Zenon, <3>2, <3>3, <3>4
  <2>2. ASSUME Divided, NEW tables \in Tables
        PROVE  EstimateV0(Sorted(accounts), instructions, tables)
                  = SizeV0(Compiled(Sorted(accounts), instructions, tables).static, instructions,
                           Compiled(Sorted(accounts), instructions, tables).lookups)
    <3>1. Dividing(Sorted(accounts), tables)
      BY <1>1, <2>2, DividedAccounts
    <3> QED
      BY <3>1, EstimateIsCompiled
  <2> QED
    BY Zenon, <2>1, <2>2 DEF V0IsExact
<1> QED
  BY <1>1, PipeAlways, PTL
=============================================================================
