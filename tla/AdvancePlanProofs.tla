-------------------------- MODULE AdvancePlanProofs --------------------------
(***************************************************************************)
(* Proofs about AdvancePlan, for every list of inner instructions: the     *)
(* decoder of the program takes apart what the encoder of the client put   *)
(* together, and nothing else.                                             *)
(***************************************************************************)
EXTENDS AdvancePlan, FoldFacts

\* Inner instructions without the privileges of their accounts, and what the encoder
\* makes of them behind their number.
Inners == [program : Address, accounts : Seq(Address), data : Seq(Byte)]
Calls == {ix \in Inners : ix.program \in Executable}
DataOfEach == [ix \in Inners |-> DataOf(ix)]
AccountsOfEach == [ix \in Inners |-> AccountsOf(ix)]
Data(ixs) == FlatMapped(ixs, DataOfEach)
Accounts(ixs) == FlatMapped(ixs, AccountsOfEach)

-----------------------------------------------------------------------------
\* Two digits of a length.
LEMMA Digits ==
    ASSUME NEW n \in Nat
    PROVE  /\ n % Base \in Byte /\ n \div Base \in Nat
           /\ (n % Base) + (n \div Base) * Base = n
           /\ n <= Base * Base - 1 => n \div Base \in Byte
<1>1. Base \in Nat /\ Base >= 2
  BY PayloadAssumption
<1>2. n % Base \in 0..(Base - 1) /\ n \div Base \in Int
  BY <1>1
<1>3. n = Base * (n \div Base) + (n % Base)
  BY <1>1, Z3
<1>4. n \div Base \in Nat
  BY <1>1, Z3
<1>5. (n \div Base) * Base = Base * (n \div Base)
  BY <1>1, <1>4
<1>6. ASSUME n <= Base * Base - 1 PROVE n \div Base \in Byte
  <2>1. PICK q \in Nat, r \in 0..(Base - 1) : q = n \div Base /\ r = n % Base /\ n = Base * q + r
    BY <1>2, <1>3, <1>4
  <2>2. q < Base
    <3>1. SUFFICES ASSUME q >= Base PROVE FALSE
      BY <1>1
    <3>2. Base * q >= Base * Base
      BY <1>1, <3>1, Z3
    <3> QED
      BY <1>1, <1>6, <2>1, <3>2
  <2> QED
    BY <1>1, <2>1, <2>2 DEF Byte
<1> QED
  BY <1>1, <1>2, <1>3, <1>4, <1>5, <1>6 DEF Byte

LEMMA OfDigits ==
    ASSUME NEW low \in Byte, NEW high \in Nat
    PROVE  /\ low + high * Base \in Nat
           /\ (low + high * Base) % Base = low
           /\ (low + high * Base) \div Base = high
<1>1. Base \in Nat /\ Base >= 2 /\ low \in Nat /\ low < Base
  BY PayloadAssumption DEF Byte
<1>2. high * Base \in Nat
  BY <1>1
<1> QED
  BY <1>1, <1>2, Z3

LEMMA InnerFacts ==
    ASSUME NEW ix \in Inners
    PROVE  /\ AccountsOf(ix) \in Seq(Address)
           /\ Len(AccountsOf(ix)) = 1 + Len(ix.accounts)
           /\ DataOf(ix) \in Seq(Nat)
           /\ ix.accounts \in Seq(Address) /\ ix.data \in Seq(Byte) /\ ix.data \in Seq(Nat)
           /\ ix.program \in Address
           /\ Len(ix.accounts) \in Nat /\ Len(ix.data) \in Nat
<1>1. /\ ix.accounts \in Seq(Address) /\ ix.data \in Seq(Byte)
      /\ ix.program \in Address
  BY DEF Inners
<1>2. ix.program \in Address /\ Byte \subseteq Nat
  BY <1>1, PayloadAssumption DEF Byte
<1>3. ix.data \in Seq(Nat) /\ Len(ix.accounts) \in Nat /\ Len(ix.data) \in Nat
  <2>1. ix.data \in Seq(Nat)
    BY <1>1, <1>2, SeqMonotonic
  <2> QED
    BY <1>1, <2>1
<1>4. <<ix.program>> \in Seq(Address) /\ Len(<<ix.program>>) = 1
  BY <1>2
<1>5. AccountsOf(ix) \in Seq(Address) /\ Len(AccountsOf(ix)) = 1 + Len(ix.accounts)
  <2>1. PICK h \in Seq(Address) : h = <<ix.program>> /\ Len(h) = 1
    BY <1>4
  <2>2. h \o ix.accounts \in Seq(Address) /\ Len(h \o ix.accounts) = 1 + Len(ix.accounts)
    BY <1>1, <2>1
  <2> QED
    BY <2>1, <2>2 DEF AccountsOf
<1>6. DataOf(ix) \in Seq(Nat)
  <2>1. Len(ix.data) % Base \in Nat /\ Len(ix.data) \div Base \in Nat
    BY <1>2, <1>3, Digits
  <2>2. <<Len(ix.accounts), Len(ix.data) % Base, Len(ix.data) \div Base>> \in Seq(Nat)
    BY <1>3, <2>1
  <2>3. PICK h \in Seq(Nat) : h = <<Len(ix.accounts), Len(ix.data) % Base, Len(ix.data) \div Base>>
    BY <2>2
  <2>4. h \o ix.data \in Seq(Nat)
    BY <1>3
  <2> QED
    BY <2>3, <2>4 DEF DataOf
<1> QED
  BY <1>1, <1>2, <1>3, <1>5, <1>6

LEMMA EachType == DataOfEach \in [Inners -> Seq(Nat)] /\ AccountsOfEach \in [Inners -> Seq(Address)]
BY InnerFacts DEF DataOfEach, AccountsOfEach

LEMMA EncodedFacts ==
    ASSUME NEW ixs \in Seq(Inners)
    PROVE  /\ EncodedData(ixs) = <<Len(ixs)>> \o Data(ixs)
           /\ EncodedAccounts(ixs) = Accounts(ixs)
           /\ Data(ixs) \in Seq(Nat) /\ Accounts(ixs) \in Seq(Address)
<1>1. Data(ixs) \in Seq(Nat) /\ Accounts(ixs) \in Seq(Address)
  BY EachType, FlatMappedType DEF Data, Accounts
<1>2. \A k \in DOMAIN ixs : ixs[k] \in Inners
  OBVIOUS
<1>3. [k \in DOMAIN ixs |-> DataOf(ixs[k])] = Mapped(ixs, DataOfEach)
  BY <1>2 DEF Mapped, DataOfEach
<1>4. [k \in DOMAIN ixs |-> AccountsOf(ixs[k])] = Mapped(ixs, AccountsOfEach)
  BY <1>2 DEF Mapped, AccountsOfEach
<1> QED
  BY <1>1, <1>3, <1>4 DEF EncodedData, EncodedAccounts, Data, Accounts, FlatMapped

\* What is encoded first and what is encoded last.
LEMMA EncodedParts ==
    ASSUME NEW ixs \in Seq(Inners), NEW ix \in Inners
    PROVE  /\ Data(<<>>) = <<>> /\ Accounts(<<>>) = <<>>
           /\ Data(Append(ixs, ix)) = Data(ixs) \o DataOf(ix)
           /\ Accounts(Append(ixs, ix)) = Accounts(ixs) \o AccountsOf(ix)
           /\ Data(<<ix>> \o ixs) = DataOf(ix) \o Data(ixs)
           /\ Accounts(<<ix>> \o ixs) = AccountsOf(ix) \o Accounts(ixs)
<1>1. DataOfEach[ix] = DataOf(ix) /\ AccountsOfEach[ix] = AccountsOf(ix)
  BY DEF DataOfEach, AccountsOfEach
<1>2. /\ Data(Append(ixs, ix)) = Data(ixs) \o DataOfEach[ix]
      /\ Data(<<ix>> \o ixs) = DataOfEach[ix] \o Data(ixs)
  <2>1. FlatMappable(Inners, Nat, DataOfEach, ixs, ix)
    BY EachType, Zenon DEF FlatMappable
  <2>2. PICK h, longer : h = <<ix>> /\ longer = Append(ixs, ix)
    OBVIOUS
  <2>3. FlatMapped(longer, DataOfEach) = FlatMapped(ixs, DataOfEach) \o DataOfEach[ix]
    BY <2>1, <2>2, FlatMappableAppend
  <2>4. FlatMapped(h \o ixs, DataOfEach) = DataOfEach[ix] \o FlatMapped(ixs, DataOfEach)
    BY <2>1, <2>2, FlatMappablePrepend
  <2> QED
    BY <2>2, <2>3, <2>4, Zenon DEF Data
<1>3. /\ Accounts(Append(ixs, ix)) = Accounts(ixs) \o AccountsOfEach[ix]
      /\ Accounts(<<ix>> \o ixs) = AccountsOfEach[ix] \o Accounts(ixs)
  <2>1. FlatMappable(Inners, Address, AccountsOfEach, ixs, ix)
    BY EachType, Zenon DEF FlatMappable
  <2>2. PICK h, longer : h = <<ix>> /\ longer = Append(ixs, ix)
    OBVIOUS
  <2>3. FlatMapped(longer, AccountsOfEach) = FlatMapped(ixs, AccountsOfEach) \o AccountsOfEach[ix]
    BY <2>1, <2>2, FlatMappableAppend
  <2>4. FlatMapped(h \o ixs, AccountsOfEach) = AccountsOfEach[ix] \o FlatMapped(ixs, AccountsOfEach)
    BY <2>1, <2>2, FlatMappablePrepend
  <2> QED
    BY <2>2, <2>3, <2>4, Zenon DEF Accounts
<1>4. Data(<<>>) = <<>> /\ Accounts(<<>>) = <<>>
  BY FlatMappedEmpty DEF Data, Accounts
<1> QED
  BY <1>1, <1>2, <1>3, <1>4

\* Within the limits the encoder makes bytes of them.
LEMMA EncodedType ==
    ASSUME NEW ixs \in Seq(Inners), Fits(ixs)
    PROVE  /\ EncodedData(ixs) \in Seq(Byte) /\ EncodedAccounts(ixs) \in Seq(Address)
           /\ EncodedData(ixs) # <<>>
           /\ Head(EncodedData(ixs)) = Len(ixs) /\ Tail(EncodedData(ixs)) = Data(ixs)
           /\ Len(ixs) \in Byte /\ Data(ixs) \in Seq(Byte)
<1>0. Base \in Nat /\ Base >= 2 /\ MaxCpi \in Byte /\ Byte \subseteq Nat
  BY PayloadAssumption DEF Byte
<1>1. Len(ixs) \in Byte
  BY <1>0 DEF Fits, Byte
<1>2. ASSUME NEW k \in DOMAIN ixs
      PROVE  ToSet(DataOf(ixs[k])) \subseteq Byte
  <2>1. PICK ix \in Inners : ix = ixs[k]
    OBVIOUS
  <2>2. Len(ix.accounts) <= MaxCpi /\ Len(ix.data) <= Base * Base - 1
    BY <2>1 DEF Fits
  <2>3. /\ Len(ix.accounts) \in Nat /\ Len(ix.data) \in Nat /\ ix.data \in Seq(Byte)
    BY InnerFacts
  <2>4. Len(ix.accounts) \in Byte
    BY <1>0, <2>2, <2>3 DEF Byte
  <2>5. Len(ix.data) % Base \in Byte /\ Len(ix.data) \div Base \in Byte
    BY <2>2, <2>3, Digits
  <2>6. <<Len(ix.accounts), Len(ix.data) % Base, Len(ix.data) \div Base>> \in Seq(Byte)
    BY <2>4, <2>5
  <2>7. PICK h \in Seq(Byte) :
          h = <<Len(ix.accounts), Len(ix.data) % Base, Len(ix.data) \div Base>>
    BY <2>6
  <2>8. h \o ix.data \in Seq(Byte)
    BY <2>3
  <2> QED
    BY <2>1, <2>7, <2>8 DEF DataOf, ToSet
<1>3. Data(ixs) \in Seq(Byte)
  <2>1. Mapped(ixs, DataOfEach) \in Seq(Seq(Nat))
    BY EachType, ListsMappedType
  <2>2. PICK lists \in Seq(Seq(Nat)) : lists = Mapped(ixs, DataOfEach)
    BY <2>1
  <2>3. DOMAIN lists = DOMAIN ixs /\ \A k \in DOMAIN ixs : lists[k] = DataOf(ixs[k])
    BY <2>2 DEF Mapped, DataOfEach
  <2>4. /\ FlattenSeq(lists) \in Seq(Nat)
        /\ ToSet(FlattenSeq(lists)) = UNION {ToSet(lists[k]) : k \in DOMAIN lists}
    BY FlattenType
  <2>5. ToSet(FlattenSeq(lists)) \subseteq Byte
    BY <1>2, <2>3, <2>4
  <2>6. PICK d \in Seq(Nat) : d = FlattenSeq(lists)
    BY <2>4
  <2>7. \A i \in 1..Len(d) : d[i] \in Byte
    <3>1. DOMAIN d = 1..Len(d)
      OBVIOUS
    <3> QED
      BY <2>5, <2>6, <3>1, Zenon DEF ToSet
  <2>8. d \in Seq(Byte)
    BY <2>7, ListOf
  <2> QED
    BY <2>2, <2>6, <2>8 DEF Data, FlatMapped
<1>4. <<Len(ixs)>> \o Data(ixs) \in Seq(Byte)
  BY <1>1, <1>3, PrependElements
<1>5. /\ <<Len(ixs)>> \o Data(ixs) # <<>>
      /\ Head(<<Len(ixs)>> \o Data(ixs)) = Len(ixs)
      /\ Tail(<<Len(ixs)>> \o Data(ixs)) = Data(ixs)
  BY <1>1, <1>3, PrependFacts
<1> QED
  BY <1>1, <1>3, <1>4, <1>5, EncodedFacts

\* The head of an encoded instruction leads the decoder to its data and to what
\* follows.
LEMMA DecodesEncoded ==
    ASSUME NEW ix \in Inners, NEW rest \in Seq(Nat), NEW p, p = DataOf(ix) \o rest
    PROVE  /\ p \in Seq(Nat) /\ Len(p) >= 3
           /\ p[1] = Len(ix.accounts)
           /\ p[2] + p[3] * Base = Len(ix.data)
           /\ SubSeq(p, 4, Len(p)) = ix.data \o rest
<1>1. /\ ix.data \in Seq(Nat) /\ Len(ix.data) \in Nat /\ Len(ix.accounts) \in Nat
  BY InnerFacts
<1>0. Len(ix.data) % Base \in Nat /\ Len(ix.data) \div Base \in Nat
  <2>1. Byte \subseteq Nat
    BY PayloadAssumption DEF Byte
  <2> QED
    BY <1>1, <2>1, Digits
<1>2. PICK l \in Nat, h \in Nat : l = Len(ix.data) % Base /\ h = Len(ix.data) \div Base
  BY <1>0
<1>3. l + h * Base = Len(ix.data)
  BY <1>1, <1>2, Digits
<1>14. PICK data \in Seq(Nat) : data = ix.data
  BY <1>1
<1>4. PICK head \in Seq(Nat) : head = <<Len(ix.accounts), l, h>>
  <2>1. <<Len(ix.accounts), l, h>> \in Seq(Nat)
    BY <1>1
  <2> QED
    BY <2>1
<1>5. Len(head) = 3 /\ head[1] = Len(ix.accounts) /\ head[2] = l /\ head[3] = h
  BY <1>4
<1>6. data \o rest \in Seq(Nat)
  OBVIOUS
<1>15. PICK tail \in Seq(Nat) : tail = data \o rest
  BY <1>6
<1>7. p = head \o tail
  <2>1. DataOf(ix) = head \o data
    BY <1>2, <1>4, <1>14 DEF DataOf
  <2>2. (head \o data) \o rest = head \o (data \o rest)
    <3>1. Associative(head, data, rest)
      BY Associates
    <3> QED
      BY <3>1, Zenon DEF Associative
  <2> QED
    BY <1>15, <2>1, <2>2
<1>8. /\ head \o tail \in Seq(Nat) /\ Len(head \o tail) = Len(head) + Len(tail)
      /\ SubSeq(head \o tail, Len(head) + 1, Len(head) + Len(tail)) = tail
  BY SplitFacts
<1>9. \A i \in 1..(Len(head) + Len(tail)) :
         (head \o tail)[i] = IF i <= Len(head) THEN head[i] ELSE tail[i - Len(head)]
  BY ConcatProperties
<1>10. PICK m \in Nat : m = Len(tail)
  OBVIOUS
<1>11. /\ p \in Seq(Nat) /\ Len(p) = 3 + m /\ SubSeq(p, 4, 3 + m) = tail
       /\ \A i \in 1..(3 + m) : p[i] = IF i <= 3 THEN head[i] ELSE tail[i - 3]
  <2>1. 3 + 1 = 4
    OBVIOUS
  <2> QED
    BY <1>5, <1>7, <1>8, <1>9, <1>10, <2>1, Zenon
<1>12. p[1] = head[1] /\ p[2] = head[2] /\ p[3] = head[3]
  <2>1. \A i \in {1, 2, 3} : i \in 1..(3 + m) /\ i <= 3
    OBVIOUS
  <2>2. \A i \in {1, 2, 3} : p[i] = head[i]
    BY <1>11, <2>1
  <2> QED
    BY <2>2
<1>13. SubSeq(p, 4, Len(p)) = ix.data \o rest /\ Len(p) >= 3
  <2>1. Len(p) = 3 + m /\ SubSeq(p, 4, 3 + m) = tail
    BY <1>11
  <2>2. 3 + m >= 3
    OBVIOUS
  <2>3. SubSeq(p, 4, Len(p)) = tail
    BY <2>1, Zenon
  <2>4. Len(p) >= 3
    BY <2>1, <2>2, Zenon
  <2> QED
    BY <2>3, <2>4, <1>14, <1>15
<1> QED
  BY <1>3, <1>5, <1>2, <1>11, <1>12, <1>13

LEMMA BytesAssociate ==
    ASSUME NEW s \in Seq(Byte), NEW t \in Seq(Byte), NEW u \in Seq(Byte)
    PROVE  (s \o t) \o u = s \o (t \o u)
<1>1. Associative(s, t, u)
  BY Associates
<1> QED
  BY <1>1, Zenon DEF Associative

LEMMA NumbersAssociate ==
    ASSUME NEW s \in Seq(Nat), NEW t \in Seq(Nat), NEW u \in Seq(Nat)
    PROVE  s \o t \in Seq(Nat) /\ (s \o t) \o u = s \o (t \o u)
<1>1. s \o t \in Seq(Nat)
  OBVIOUS
<1>2. Associative(s, t, u)
  BY Associates
<1> QED
  BY <1>1, <1>2, Zenon DEF Associative

\* What the decoder takes from the payload is the encoding of what it invokes.
TakenFrom(p, body, n, ix) ==
    /\ Len(p) >= 3 /\ body = SubSeq(p, 4, Len(p))
    /\ n = p[2] + p[3] * Base /\ n <= Len(body)
    /\ ix.data = SubSeq(body, 1, n) /\ Len(ix.accounts) = p[1]

LEMMA EncodesDecoded ==
    ASSUME NEW p \in Seq(Byte), NEW body, NEW n, NEW ix, TakenFrom(p, body, n, ix)
    PROVE  /\ n \in 0..Len(body) /\ body \in Seq(Byte)
           /\ ix.data \in Seq(Byte)
           /\ SubSeq(body, n + 1, Len(body)) \in Seq(Byte)
           /\ p = DataOf(ix) \o SubSeq(body, n + 1, Len(body))
<1>0. /\ Len(p) >= 3 /\ body = SubSeq(p, 4, Len(p))
      /\ n = p[2] + p[3] * Base /\ n <= Len(body)
      /\ ix.data = SubSeq(body, 1, n) /\ Len(ix.accounts) = p[1]
  BY DEF TakenFrom
<1>1. /\ p[1] \in Byte /\ p[2] \in Byte /\ p[3] \in Byte /\ Byte \subseteq Nat
      /\ Base \in Nat /\ 3 \in 0..Len(p) /\ Len(p) \in Nat
  <2>1. Len(p) \in Nat /\ 3 \in 0..Len(p) /\ \A i \in 1..Len(p) : p[i] \in Byte
    BY <1>0
  <2>2. Base \in Nat /\ Byte \subseteq Nat
    BY PayloadAssumption DEF Byte
  <2> QED
    BY <2>1, <2>2
<1>2. /\ n \in Nat /\ n % Base = p[2] /\ n \div Base = p[3]
  BY <1>0, <1>1, OfDigits
<1>3. PICK head \in Seq(Byte) : head = SubSeq(p, 1, 3)
  BY <1>1, JoinFacts
<1>4. /\ SubSeq(p, 3 + 1, Len(p)) \in Seq(Byte)
      /\ Len(head) = 3
      /\ p = head \o SubSeq(p, 3 + 1, Len(p))
  BY <1>1, <1>3, JoinFacts
<1>5. body \in Seq(Byte) /\ p = head \o body
  <2>1. 3 + 1 = 4
    OBVIOUS
  <2> QED
    BY <1>0, <1>4, <2>1
<1>6. n \in 0..Len(body)
  <2>1. n <= Len(body) /\ n \in Nat /\ Len(body) \in Nat
    <3>1. Len(body) \in Nat
      BY <1>5
    <3> QED
      BY <1>0, <1>2, <3>1, Zenon
  <2> QED
    BY <2>1
<1>7. /\ SubSeq(body, 1, n) \in Seq(Byte) /\ Len(SubSeq(body, 1, n)) = n
      /\ SubSeq(body, n + 1, Len(body)) \in Seq(Byte)
      /\ body = SubSeq(body, 1, n) \o SubSeq(body, n + 1, Len(body))
  <2>1. PICK b, k : b \in Seq(Byte) /\ b = body /\ k = n /\ k \in 0..Len(b)
    BY <1>5, <1>6, Zenon
  <2>2. /\ SubSeq(b, 1, k) \in Seq(Byte) /\ Len(SubSeq(b, 1, k)) = k
        /\ SubSeq(b, k + 1, Len(b)) \in Seq(Byte)
        /\ b = SubSeq(b, 1, k) \o SubSeq(b, k + 1, Len(b))
    BY <2>1, JoinFacts
  <2> QED
    BY <2>1, <2>2, Zenon
<1>8. head = <<p[1], p[2], p[3]>>
  <2>1. <<p[1], p[2], p[3]>> \in Seq(Byte)
    BY <1>1
  <2>2. PICK t \in Seq(Byte) : t = <<p[1], p[2], p[3]>>
    BY <2>1
  <2>3. Len(t) = 3 /\ t[1] = p[1] /\ t[2] = p[2] /\ t[3] = p[3]
    BY <2>2
  <2>4. head[1] = p[1] /\ head[2] = p[2] /\ head[3] = p[3]
    BY <1>1, <1>3
  <2>5. \A i \in 1..3 : head[i] = t[i]
    BY <2>3, <2>4
  <2> QED
    BY <1>4, <2>2, <2>3, <2>5, SeqEqual
<1>9. DataOf(ix) = head \o SubSeq(body, 1, n)
  BY <1>0, <1>2, <1>7, <1>8 DEF DataOf
<1>10. (head \o SubSeq(body, 1, n)) \o SubSeq(body, n + 1, Len(body))
         = head \o (SubSeq(body, 1, n) \o SubSeq(body, n + 1, Len(body)))
  <2>1. PICK s \in Seq(Byte), t \in Seq(Byte) :
          s = SubSeq(body, 1, n) /\ t = SubSeq(body, n + 1, Len(body))
    BY <1>7
  <2>2. (head \o s) \o t = head \o (s \o t)
    BY BytesAssociate
  <2> QED
    BY <2>1, <2>2
<1> QED
  BY <1>0, <1>5, <1>6, <1>7, <1>9, <1>10

-----------------------------------------------------------------------------
\* The client: plain instructions, their accounts as keys, and the accounts the
\* outer instruction carries, none of them a signer.
Unsigned == [key : Address, signer : {FALSE}, writable : BOOLEAN]
PlainOf(ix) == [ix EXCEPT !.accounts = Keys(@)]
PlainOfEach == [ix \in InnerInstruction |-> PlainOf(ix)]
KeyOfEach == [m \in AccountMeta |-> m.key]
MetasOfEach == [ix \in InnerInstruction |-> MetasOf(ix)]

LEMMA KeysFacts ==
    ASSUME NEW metas \in Seq(AccountMeta)
    PROVE  Keys(metas) \in Seq(Address) /\ Len(Keys(metas)) = Len(metas)
           /\ Keys(metas) = Mapped(metas, KeyOfEach)
<1>1. \A k \in DOMAIN metas : metas[k] \in AccountMeta
  OBVIOUS
<1>2. KeyOfEach \in [AccountMeta -> Address]
  BY DEF KeyOfEach, AccountMeta
<1>3. Keys(metas) = Mapped(metas, KeyOfEach)
  BY <1>1 DEF Keys, Mapped, KeyOfEach
<1>4. Mapped(metas, KeyOfEach) \in Seq(Address) /\ Len(Mapped(metas, KeyOfEach)) = Len(metas)
  BY <1>2, MappedType, MappedLength
<1> QED
  BY <1>3, <1>4

LEMMA KeysConcat ==
    ASSUME NEW s \in Seq(AccountMeta), NEW t \in Seq(AccountMeta)
    PROVE  Keys(s \o t) = Keys(s) \o Keys(t)
<1>1. KeyOfEach \in [AccountMeta -> Address]
  BY DEF KeyOfEach, AccountMeta
<1>2. Mapped(s \o t, KeyOfEach) = Mapped(s, KeyOfEach) \o Mapped(t, KeyOfEach)
  BY <1>1, MappedConcat
<1>3. s \o t \in Seq(AccountMeta)
  OBVIOUS
<1> QED
  BY <1>2, <1>3, KeysFacts

LEMMA PlainFacts ==
    ASSUME NEW ix \in InnerInstruction
    PROVE  /\ PlainOf(ix) \in Inners
           /\ MetasOf(ix) \in Seq(Unsigned) /\ MetasOf(ix) \in Seq(AccountMeta)
           /\ Keys(MetasOf(ix)) = AccountsOf(PlainOf(ix))
<1>1. /\ ix.program \in Address
      /\ ix.accounts \in Seq(AccountMeta) /\ ix.data \in Seq(Byte)
  BY DEF InnerInstruction
<1>2. Keys(ix.accounts) \in Seq(Address)
  BY <1>1, KeysFacts
<1>3. /\ PlainOf(ix) = [program |-> ix.program, accounts |-> Keys(ix.accounts), data |-> ix.data]
      /\ PlainOf(ix) \in Inners
  BY <1>1, <1>2 DEF PlainOf, InnerInstruction, Inners
<1>4. PICK metas \in Seq(AccountMeta) : metas = ix.accounts
  BY <1>1
<1> DEFINE scrubbed == [k \in DOMAIN metas |-> Scrubbed(metas[k])]
           first == Readonly(ix.program)
<1>5. ASSUME NEW k \in DOMAIN metas
      PROVE  Scrubbed(metas[k]) \in Unsigned /\ Scrubbed(metas[k]).key = metas[k].key
  <2>1. PICK m \in AccountMeta : m = metas[k]
    OBVIOUS
  <2>2. Scrubbed(m) \in Unsigned /\ Scrubbed(m).key = m.key
    BY DEF Scrubbed, AccountMeta, Unsigned
  <2> QED
    BY <2>1, <2>2
<1>6. DOMAIN metas = 1..Len(metas) /\ Len(metas) \in Nat
  OBVIOUS
<1>7. scrubbed \in Seq(Unsigned) /\ Len(scrubbed) = Len(metas)
  BY <1>5, <1>6
<1>8. first \in Unsigned /\ first.key = ix.program
  BY <1>1 DEF Readonly, Meta, Unsigned
<1>9. Unsigned \subseteq AccountMeta
  BY DEF Unsigned, AccountMeta
<1>10. scrubbed \in Seq(AccountMeta)
  BY <1>7, <1>9, SeqMonotonic
<1>11. Keys(scrubbed) = Keys(metas)
  BY <1>5, <1>6 DEF Keys
<1> HIDE DEF scrubbed, first
<1>12. <<first>> \o scrubbed \in Seq(Unsigned) /\ <<first>> \o scrubbed \in Seq(AccountMeta)
  <2>1. first \in AccountMeta
    BY <1>8, <1>9
  <2> QED
    BY <1>7, <1>8, <1>10, <2>1, PrependElements
<1>13. MetasOf(ix) = <<first>> \o scrubbed
  BY <1>4 DEF MetasOf, first, scrubbed
<1>14. Keys(<<first>> \o scrubbed) = <<ix.program>> \o Keys(metas)
  <2>1. <<first>> \in Seq(AccountMeta)
    BY <1>8, <1>9
  <2>2. PICK h \in Seq(AccountMeta) : h = <<first>>
    BY <2>1
  <2>3. Keys(h \o scrubbed) = Keys(h) \o Keys(scrubbed)
    BY <1>10, KeysConcat
  <2>4. Keys(h) = <<ix.program>>
    <3>1. DOMAIN h = 1..1 /\ h[1] = first
      BY <2>2
    <3> QED
      BY <1>8, <3>1 DEF Keys
  <2> QED
    BY <1>11, <2>2, <2>3, <2>4
<1>15. AccountsOf(PlainOf(ix)) = <<ix.program>> \o Keys(metas)
  BY <1>3, <1>4 DEF AccountsOf
<1> QED
  BY <1>3, <1>12, <1>13, <1>14, <1>15

LEMMA EachPlainType ==
    /\ PlainOfEach \in [InnerInstruction -> Inners]
    /\ MetasOfEach \in [InnerInstruction -> Seq(Unsigned)]
    /\ MetasOfEach \in [InnerInstruction -> Seq(AccountMeta)]
BY PlainFacts DEF PlainOfEach, MetasOfEach

\* The payload and the accounts of the outer instruction are the encoding of the plan.
LEMMA EncodedIsPlain ==
    ASSUME NEW ixs \in Seq(InnerInstruction)
    PROVE  /\ Plain(ixs) \in Seq(Inners) /\ Len(Plain(ixs)) = Len(ixs)
           /\ Encoded(ixs).payload = EncodedData(Plain(ixs))
           /\ Encoded(ixs).accounts \in Seq(Unsigned)
           /\ Encoded(ixs).accounts \in Seq(AccountMeta)
           /\ Keys(Encoded(ixs).accounts) = EncodedAccounts(Plain(ixs))
           /\ Encoded(ixs) = [payload |-> Encoded(ixs).payload, accounts |-> Encoded(ixs).accounts]
<1>1. \A jxs \in Seq(InnerInstruction) : Plain(jxs) = Mapped(jxs, PlainOfEach)
  <2>1. ASSUME NEW jxs \in Seq(InnerInstruction) PROVE Plain(jxs) = Mapped(jxs, PlainOfEach)
    <3>1. \A k \in DOMAIN jxs : jxs[k] \in InnerInstruction
      OBVIOUS
    <3> QED
      BY <3>1 DEF Plain, Mapped, PlainOfEach, PlainOf
  <2> QED
    BY <2>1
<1>2. ASSUME NEW jxs \in Seq(InnerInstruction)
      PROVE  Plain(jxs) \in Seq(Inners) /\ Len(Plain(jxs)) = Len(jxs)
  <2>1. Mapped(jxs, PlainOfEach) \in Seq(Inners)
    BY EachPlainType, MappedType
  <2>2. Len(Mapped(jxs, PlainOfEach)) = Len(jxs)
    BY MappedLength
  <2> QED
    BY <1>1, <2>1, <2>2
<1> DEFINE T == {jxs \in Seq(InnerInstruction) :
                    Keys(FlatMapped(jxs, MetasOfEach)) = Accounts(Plain(jxs))}
<1>3. <<>> \in T
  <2>1. <<>> \in Seq(InnerInstruction) /\ DOMAIN <<>> = {}
    OBVIOUS
  <2>2. Plain(<<>>) = <<>>
    BY DEF Plain
  <2>3. Keys(<<>>) = <<>>
    BY DEF Keys
  <2>4. FlatMapped(<<>>, MetasOfEach) = <<>> /\ FlatMapped(<<>>, AccountsOfEach) = <<>>
    BY FlatMappedEmpty
  <2> QED
    BY <2>1, <2>2, <2>3, <2>4 DEF Accounts
<1>4. ASSUME NEW jxs \in Seq(InnerInstruction), NEW ix \in InnerInstruction, jxs \in T
      PROVE  Append(jxs, ix) \in T
  <2>1. Append(jxs, ix) \in Seq(InnerInstruction)
    OBVIOUS
  <2>2. Plain(Append(jxs, ix)) = Append(Plain(jxs), PlainOf(ix))
    <3>1. Mapped(Append(jxs, ix), PlainOfEach) = Append(Mapped(jxs, PlainOfEach), PlainOfEach[ix])
      <4>1. PICK f \in [InnerInstruction -> Inners] : f = PlainOfEach
        BY EachPlainType
      <4>2. Mapped(Append(jxs, ix), f) = Append(Mapped(jxs, f), f[ix])
        BY MappedAppend
      <4> QED
        BY <4>1, <4>2
    <3> QED
      BY <1>1, <2>1, <3>1 DEF PlainOfEach
  <2>3. Accounts(Append(Plain(jxs), PlainOf(ix))) = Accounts(Plain(jxs)) \o AccountsOf(PlainOf(ix))
    BY <1>2, PlainFacts, EncodedParts
  <2>4. FlatMapped(Append(jxs, ix), MetasOfEach) = FlatMapped(jxs, MetasOfEach) \o MetasOf(ix)
    <3>1. FlatMapped(Append(jxs, ix), MetasOfEach) = FlatMapped(jxs, MetasOfEach) \o MetasOfEach[ix]
      BY EachPlainType, FlatMappedAppend
    <3> QED
      BY <3>1 DEF MetasOfEach
  <2>5. FlatMapped(jxs, MetasOfEach) \in Seq(AccountMeta)
    BY EachPlainType, FlatMappedType
  <2>6. Keys(FlatMapped(jxs, MetasOfEach) \o MetasOf(ix))
          = Keys(FlatMapped(jxs, MetasOfEach)) \o Keys(MetasOf(ix))
    BY <2>5, PlainFacts, KeysConcat
  <2> QED
    BY <1>4, <2>1, <2>2, <2>3, <2>4, <2>6, PlainFacts
<1> HIDE DEF T
<1>5. Seq(InnerInstruction) \subseteq T
  BY <1>3, <1>4, ListInduction
<1>6. Keys(FlatMapped(ixs, MetasOfEach)) = Accounts(Plain(ixs))
  BY <1>5 DEF T
<1>7. Encoded(ixs) = [payload |-> EncodedData(Plain(ixs)), accounts |-> FlatMapped(ixs, MetasOfEach)]
  <2>1. \A k \in DOMAIN ixs : ixs[k] \in InnerInstruction
    OBVIOUS
  <2>2. [k \in DOMAIN ixs |-> MetasOf(ixs[k])] = Mapped(ixs, MetasOfEach)
    BY <2>1 DEF Mapped, MetasOfEach
  <2> QED
    BY <2>2 DEF Encoded, FlatMapped
<1>8. FlatMapped(ixs, MetasOfEach) \in Seq(Unsigned)
  BY EachPlainType, FlatMappedType
<1>9. FlatMapped(ixs, MetasOfEach) \in Seq(AccountMeta)
  BY EachPlainType, FlatMappedType
<1>10. Accounts(Plain(ixs)) = EncodedAccounts(Plain(ixs))
  BY <1>2, EncodedFacts
<1> QED
  BY <1>2, <1>6, <1>7, <1>8, <1>9, <1>10

-----------------------------------------------------------------------------
\* The accounts the decoder takes are those the encoding has at its cursor.
LEMMA TakesAccounts ==
    ASSUME NEW accs \in Seq(Address), NEW c \in Nat, NEW n \in Nat, c + 1 + n <= Len(accs),
           NEW ix, ix.program = accs[c + 1], ix.accounts = SubSeq(accs, c + 2, c + 1 + n)
    PROVE  /\ accs[c + 1] \in Address
           /\ ix.accounts \in Seq(Address) /\ Len(ix.accounts) = n
           /\ SubSeq(accs, 1, c + 1 + n) = SubSeq(accs, 1, c) \o AccountsOf(ix)
<1>1. PICK l \in Nat : l = Len(accs) /\ c + 1 + n <= l
  OBVIOUS
<1>2. PICK k \in Nat, e \in Nat : k = c + 1 /\ e = c + 1 + n
  OBVIOUS
<1>3. k + n <= Len(accs) /\ k + 1 = c + 2 /\ k + n = e
  BY <1>1, <1>2
<1>4. SubSeq(accs, k + 1, k + n) \in Seq(Address) /\ Len(SubSeq(accs, k + 1, k + n)) = n
  BY <1>3, PartFacts
<1>5. k \in 1..Len(accs) /\ e \in k..Len(accs) /\ c \in 0..Len(accs)
  BY <1>1, <1>2
<1>6. SubSeq(accs, k, e) = <<accs[k]>> \o SubSeq(accs, k + 1, e)
  BY <1>5, SubSeqRecursiveFirst
<1>7. SubSeq(accs, 1, c) \o SubSeq(accs, c + 1, e) = SubSeq(accs, 1, e)
  <2>1. 1 \in 1..(Len(accs) + 1) /\ c \in (1 - 1)..Len(accs) /\ e \in c..Len(accs)
    BY <1>1, <1>2
  <2> QED
    BY <2>1, ConcatAdjacentSubSeq
<1>8. AccountsOf(ix) = <<accs[k]>> \o SubSeq(accs, k + 1, e)
  BY <1>2, <1>3 DEF AccountsOf
<1>9. accs[k] \in Address
  BY <1>5
<1> QED
  BY <1>2, <1>3, <1>4, <1>6, <1>7, <1>8, <1>9

\* Accounts that hold an instruction's own between others.
Follows(before, ix, after, accs) ==
    /\ before \in Seq(Address) /\ ix \in Inners /\ after \in Seq(Address)
    /\ accs = before \o (AccountsOf(ix) \o after)

\* They are at the cursor.
Found(before, ix, after, accs) ==
    /\ Len(before) + 1 + Len(ix.accounts) <= Len(accs)
    /\ accs[Len(before) + 1] = ix.program
    /\ SubSeq(accs, Len(before) + 2, Len(before) + 1 + Len(ix.accounts)) = ix.accounts
    /\ accs = (before \o AccountsOf(ix)) \o after

\* The accounts of the next instruction are at the cursor.
LEMMA FindsThere ==
    ASSUME NEW before, NEW ix, NEW after, NEW accs, Follows(before, ix, after, accs)
    PROVE  Found(before, ix, after, accs)
<1>0. /\ before \in Seq(Address) /\ ix \in Inners /\ after \in Seq(Address)
      /\ accs = before \o (AccountsOf(ix) \o after)
  BY DEF Follows
<1>1. <<ix.program>> \in Seq(Address) /\ ix.accounts \in Seq(Address)
  <2>1. ix.program \in Address
    BY <1>0, InnerFacts
  <2> QED
    BY <1>0, <2>1, InnerFacts
<1>2. PICK h \in Seq(Address) : h = <<ix.program>> /\ Len(h) = 1 /\ h[1] = ix.program
  BY <1>1
<1>3. PICK b \in Seq(Address) : b = ix.accounts
  BY <1>1
<1>4. /\ before \o ((h \o b) \o after) = (before \o h) \o (b \o after)
      /\ before \o ((h \o b) \o after) = (before \o (h \o b)) \o after
  <2>1. PICK v \in Seq(Address), q \in Seq(Address) : v = h \o b /\ q = b \o after
    BY <1>0, ConcatProperties
  <2>2. v \o after = h \o q
    <3>1. Associative(h, b, after)
      BY <1>0, Associates
    <3> QED
      BY <2>1, <3>1, Zenon DEF Associative
  <2>3. (before \o h) \o q = before \o (h \o q)
    <3>1. Associative(before, h, q)
      BY <1>0, Associates
    <3> QED
      BY <3>1, Zenon DEF Associative
  <2>4. (before \o v) \o after = before \o (v \o after)
    <3>1. Associative(before, v, after)
      BY <1>0, Associates
    <3> QED
      BY <3>1, Zenon DEF Associative
  <2>5. before \o (v \o after) = (before \o h) \o q
    BY <2>2, <2>3
  <2> QED
    BY <2>1, <2>4, <2>5
<1>5. AccountsOf(ix) = h \o b
  BY <1>2, <1>3 DEF AccountsOf
<1>6. PICK u : u = (before \o h) \o (b \o after)
  OBVIOUS
<1>7. /\ Len(before) + 1 + Len(b) <= Len(u)
      /\ u[Len(before) + 1] = h[1]
      /\ SubSeq(u, Len(before) + 2, Len(before) + 1 + Len(b)) = b
  BY <1>0, <1>2, <1>6, MiddleFacts
<1>8. accs = u /\ accs = (before \o AccountsOf(ix)) \o after
  BY <1>0, <1>2, <1>3, <1>4, <1>5, <1>6
<1> QED
  BY <1>2, <1>3, <1>7, <1>8 DEF Found

-----------------------------------------------------------------------------
\* What the program has read is the encoding of what it invoked.
TypeInv ==
    /\ input \in [payload : Seq(Byte), accounts : Seq(Address)]
    /\ payload \in Seq(Byte) /\ left \in Byte
    /\ cursor \in 0..Len(input.accounts)
    /\ invoked \in Seq(Inners) /\ \A k \in DOMAIN invoked : invoked[k] \in Calls
    /\ status \in {"composing", "received", "running", "accepted", "rejected", "failed"}
ReadInv ==
    /\ status \in {"composing", "received"} => cursor = 0 /\ left = 0 /\ invoked = <<>>
    /\ status = "received" => payload = input.payload
    /\ status \in {"running", "accepted"} =>
          input.payload = <<Len(invoked) + left>> \o (Data(invoked) \o payload)
    /\ cursor = Len(Accounts(invoked))
    /\ SubSeq(input.accounts, 1, cursor) = Accounts(invoked)
    /\ status = "accepted" => left = 0 /\ payload = <<>> /\ cursor = Len(input.accounts)

DecodeInv == TypeInv /\ ReadInv

\* What the client keeps is the encoding of what it was asked for.
ComposedInv ==
    /\ sdk \in Sdk \cup {"none"}
    /\ asked \in Seq(InnerInstruction) /\ objects \in Seq(InnerInstruction)
    /\ sdk = "none" => /\ plan = Handmade /\ status # "composing"
                       /\ owned = Nothing /\ created = Nothing
    /\ sdk # "none" =>
          /\ plan = Plain(asked)
          /\ owned # Nothing => owned = Encoded(asked) /\ Fits(plan)
          /\ signed # Nothing => owned # Nothing /\ signed = Parts(owned)
    /\ created # Nothing =>
          /\ signed # Nothing
          /\ \E ixs \in Seq(InnerInstruction) : Fits(Plain(ixs)) /\ created = Encoded(ixs)
    /\ sdk # "none" /\ status # "composing" =>
          /\ created # Nothing
          /\ input = Parts(created)

\* Where callers leave the instructions they passed alone, or the library copies them,
\* the program follows the plan.
Careful == "typescript" \notin Careless
OwnedInv ==
    /\ sdk = "typescript" => objects = asked
    /\ created # Nothing => created = owned
FollowsInv ==
    sdk # "none" /\ status # "composing" =>
        /\ \E rest \in Seq(Inners) :
              /\ plan = invoked \o rest
              /\ input.accounts = Accounts(invoked) \o Accounts(rest)
              /\ status = "running" => left = Len(rest) /\ payload = Data(rest)
              /\ status = "accepted" => rest = <<>>
              /\ status = "rejected" => rest # <<>> /\ rest[1].program \notin Executable

-----------------------------------------------------------------------------
LEMMA DecodeInit == PlanInit => DecodeInv
<1> SUFFICES ASSUME PlanInit PROVE DecodeInv
  OBVIOUS
<1>1. /\ cursor = 0 /\ left = 0 /\ invoked = <<>> /\ payload = input.payload
      /\ status \in {"composing", "received"}
      /\ input \in [payload : Seq(Byte), accounts : Seq(Address)]
  <2>1. CASE ComposeInit
    BY <2>1 DEF ComposeInit, Arrived, Nothing
  <2>2. CASE Init
    <3>1. PICK in \in [payload : Payloads, accounts : AccountLists] : Arrived(in)
      BY <2>2 DEF Init
    <3> QED
      BY <2>2, <3>1, PayloadAssumption DEF Init, Arrived
  <2> QED
    BY <2>1, <2>2 DEF PlanInit
<1>2. TypeInv
  <2>1. <<>> \in Seq(Inners) /\ DOMAIN <<>> = {}
    OBVIOUS
  <2>2. PICK in \in [payload : Seq(Byte), accounts : Seq(Address)] : in = input
    BY <1>1
  <2>3. 0 \in Byte /\ 0 \in 0..Len(in.accounts)
    BY PayloadAssumption DEF Byte
  <2> QED
    BY <1>1, <2>1, <2>2, <2>3 DEF TypeInv
<1>3. Accounts(<<>>) = <<>> /\ Len(<<>>) = 0
  BY FlatMappedEmpty DEF Accounts
<1>4. SubSeq(input.accounts, 1, 0) = <<>>
  BY SubSeqEmpty
<1> QED
  BY <1>1, <1>2, <1>3, <1>4 DEF DecodeInv, ReadInv

\* An instruction more is read and invoked.
LEMMA DecodeInvoke == DecodeInv /\ InvokeNext => DecodeInv'
<1> SUFFICES ASSUME DecodeInv, InvokeNext PROVE DecodeInv'
  OBVIOUS
<1>1. PICK ix : ix = [program |-> input.accounts[cursor + 1],
           accounts |-> SubSeq(input.accounts, cursor + 2, cursor + 1 + NumAccounts),
           data |-> SubSeq(Body, 1, DataLen)]
  OBVIOUS
<1>2. /\ input \in [payload : Seq(Byte), accounts : Seq(Address)]
      /\ payload \in Seq(Byte) /\ left \in Byte
      /\ cursor \in 0..Len(input.accounts)
      /\ invoked \in Seq(Inners)
  BY DEF DecodeInv, TypeInv
<1>3. /\ status = "running" /\ left > 0 /\ status' = status /\ input' = input
      /\ Len(payload) >= 3 /\ DataLen <= Len(Body)
      /\ cursor + 1 + NumAccounts <= Len(input.accounts)
      /\ input.accounts[cursor + 1] \in Executable
      /\ payload' = SubSeq(Body, DataLen + 1, Len(Body))
      /\ cursor' = cursor + 1 + NumAccounts
      /\ invoked' = Append(invoked, ix)
      /\ left' = left - 1
  BY <1>1 DEF InvokeNext, Invocable, EndInRange
<1>4. NumAccounts \in Nat /\ Byte \subseteq Nat /\ cursor \in Nat /\ left \in Nat
  <2>1. Byte \subseteq Nat
    BY PayloadAssumption DEF Byte
  <2>2. payload[1] \in Byte
    BY <1>2, <1>3
  <2>3. cursor \in Nat
    BY <1>2
  <2> QED
    BY <1>2, <2>1, <2>2, <2>3 DEF NumAccounts
<1>5. PICK accs \in Seq(Address) : accs = input.accounts
  BY <1>2
<1>6. PICK n \in Nat : n = NumAccounts
  BY <1>4
<1>7. /\ accs[cursor + 1] \in Address
      /\ ix.accounts \in Seq(Address) /\ Len(ix.accounts) = n
      /\ SubSeq(accs, 1, cursor + 1 + n) = SubSeq(accs, 1, cursor) \o AccountsOf(ix)
  <2>1. cursor + 1 + n <= Len(accs)
    BY <1>3, <1>5, <1>6
  <2>2. ix.program = accs[cursor + 1] /\ ix.accounts = SubSeq(accs, cursor + 2, cursor + 1 + n)
    BY <1>1, <1>5, <1>6
  <2> QED
    BY <1>4, <2>1, <2>2, TakesAccounts
<1>8. /\ ix.data \in Seq(Byte) /\ payload' \in Seq(Byte)
      /\ payload = DataOf(ix) \o payload'
  <2>1. PICK body : body = Body
    OBVIOUS
  <2>2. PICK len : len = DataLen
    OBVIOUS
  <2>3. body = SubSeq(payload, 4, Len(payload)) /\ len = payload[2] + payload[3] * Base
    BY <2>1, <2>2 DEF Body, DataLen
  <2>4. ix.data = SubSeq(body, 1, len) /\ Len(ix.accounts) = payload[1] /\ len <= Len(body)
    BY <1>1, <1>3, <1>6, <1>7, <2>1, <2>2 DEF NumAccounts
  <2>5. PICK p \in Seq(Byte) : p = payload
    BY <1>2
  <2>6. TakenFrom(p, body, len, ix)
    BY <1>3, <2>3, <2>4, <2>5 DEF TakenFrom
  <2>7. /\ ix.data \in Seq(Byte)
        /\ SubSeq(body, len + 1, Len(body)) \in Seq(Byte)
        /\ p = DataOf(ix) \o SubSeq(body, len + 1, Len(body))
    BY <2>6, EncodesDecoded
  <2> QED
    BY <1>3, <2>1, <2>2, <2>5, <2>7
<1>9. ix \in Inners /\ ix \in Calls
  <2>1. ix.program = input.accounts[cursor + 1]
    BY <1>1
  <2>2. ix \in Inners
    BY <1>1, <1>5, <1>7, <1>8 DEF Inners
  <2> QED
    BY <1>3, <2>1, <2>2 DEF Calls
<1>10. invoked' \in Seq(Inners) /\ Len(invoked') = Len(invoked) + 1 /\ Len(invoked) \in Nat
  BY <1>2, <1>3, <1>9
<1>16. \A k \in DOMAIN invoked' : invoked'[k] \in Calls
  <2>1. \A k \in DOMAIN invoked : invoked[k] \in Calls
    BY DEF DecodeInv, TypeInv
  <2>2. PICK done \in Seq(Inners) : done = invoked
    BY <1>2
  <2>3. ASSUME NEW k \in DOMAIN Append(done, ix) PROVE Append(done, ix)[k] \in Calls
    <3>1. k \in DOMAIN done \/ k = Len(done) + 1
      OBVIOUS
    <3>2. CASE k \in DOMAIN done
      <4>1. Append(done, ix)[k] = done[k]
        BY <3>2
      <4> QED
        BY <2>1, <2>2, <3>2, <4>1
    <3>3. CASE k = Len(done) + 1
      <4>1. Append(done, ix)[k] = ix
        BY <3>3
      <4> QED
        BY <1>9, <4>1
    <3> QED
      BY <3>1, <3>2, <3>3
  <2> QED
    BY <1>3, <2>2, <2>3
<1>11. TypeInv'
  <2>1. left' \in Byte
    BY <1>2, <1>3, PayloadAssumption DEF Byte
  <2>2. cursor' \in 0..Len(input.accounts)
    BY <1>3, <1>4, <1>2
  <2> QED
    BY <1>2, <1>3, <1>8, <1>10, <1>16, <2>1, <2>2 DEF DecodeInv, TypeInv
<1>12. /\ Data(invoked') = Data(invoked) \o DataOf(ix)
       /\ Accounts(invoked') = Accounts(invoked) \o AccountsOf(ix)
       /\ Data(invoked) \in Seq(Nat) /\ DataOf(ix) \in Seq(Nat) /\ payload' \in Seq(Nat)
       /\ Accounts(invoked) \in Seq(Address) /\ AccountsOf(ix) \in Seq(Address)
       /\ Len(AccountsOf(ix)) = 1 + n
  <2>1. payload' \in Seq(Nat)
    BY <1>4, <1>8, SeqMonotonic
  <2>2. Data(invoked) \in Seq(Nat) /\ Accounts(invoked) \in Seq(Address)
    BY <1>2, EncodedFacts
  <2>3. /\ DataOf(ix) \in Seq(Nat) /\ AccountsOf(ix) \in Seq(Address)
        /\ Len(AccountsOf(ix)) = 1 + n
    BY <1>7, <1>9, InnerFacts
  <2>4. /\ Data(Append(invoked, ix)) = Data(invoked) \o DataOf(ix)
        /\ Accounts(Append(invoked, ix)) = Accounts(invoked) \o AccountsOf(ix)
    BY <1>2, <1>9, EncodedParts
  <2> QED
    BY <1>3, <2>1, <2>2, <2>3, <2>4
<1>13. (input.payload = <<Len(invoked) + left>> \o (Data(invoked) \o payload))'
  <2>1. input.payload = <<Len(invoked) + left>> \o (Data(invoked) \o payload)
    BY <1>3 DEF DecodeInv, ReadInv
  <2>2. Len(invoked') + left' = Len(invoked) + left
    BY <1>3, <1>4, <1>10
  <2>3. (Data(invoked) \o DataOf(ix)) \o payload' = Data(invoked) \o (DataOf(ix) \o payload')
    BY <1>12, NumbersAssociate
  <2> QED
    BY <1>3, <1>8, <1>12, <2>1, <2>2, <2>3
<1>14. cursor' = Len(Accounts(invoked'))
  <2>1. cursor = Len(Accounts(invoked))
    BY DEF DecodeInv, ReadInv
  <2>2. Len(Accounts(invoked) \o AccountsOf(ix)) = Len(Accounts(invoked)) + Len(AccountsOf(ix))
    BY <1>12, SplitFacts
  <2> QED
    BY <1>3, <1>4, <1>6, <1>12, <2>1, <2>2
<1>15. SubSeq(input'.accounts, 1, cursor') = Accounts(invoked')
  <2>1. SubSeq(input.accounts, 1, cursor) = Accounts(invoked)
    BY DEF DecodeInv, ReadInv
  <2> QED
    BY <1>3, <1>5, <1>6, <1>7, <1>12, <2>1
<1> QED
  BY <1>3, <1>11, <1>13, <1>14, <1>15 DEF DecodeInv, ReadInv

LEMMA DecodeSame ==
    ASSUME DecodeInv, UNCHANGED <<input, payload, cursor, left, invoked, status>>
    PROVE  DecodeInv'
BY DEF DecodeInv, TypeInv, ReadInv

\* The number of instructions is read.
LEMMA DecodeStart == DecodeInv /\ Start => DecodeInv'
<1> SUFFICES ASSUME DecodeInv, Start PROVE DecodeInv'
  OBVIOUS
<1>1. /\ status = "received" /\ payload # <<>> /\ left' = Head(payload)
      /\ payload' = Tail(payload) /\ status' = "running"
      /\ input' = input /\ cursor' = cursor /\ invoked' = invoked
  BY DEF Start
<1>2. /\ payload \in Seq(Byte) /\ invoked = <<>> /\ payload = input.payload
      /\ cursor = Len(Accounts(invoked))
      /\ SubSeq(input.accounts, 1, cursor) = Accounts(invoked)
  BY <1>1 DEF DecodeInv, TypeInv, ReadInv
<1>3. /\ left' \in Byte /\ payload' \in Seq(Byte)
      /\ payload = <<left'>> \o payload'
  BY <1>1, <1>2, HeadFirst
<1>4. TypeInv'
  BY <1>1, <1>3 DEF DecodeInv, TypeInv
<1>5. (input.payload = <<Len(invoked) + left>> \o (Data(invoked) \o payload))'
  <2>1. Data(<<>>) = <<>>
    BY FlatMappedEmpty DEF Data
  <2>2. <<>> \o payload' = payload'
    BY <1>3, ConcatEmptySeq
  <2>3. Len(<<>>) + left' = left'
    <3>1. left' \in Nat
      BY <1>3, PayloadAssumption DEF Byte
    <3>2. PICK l \in Nat : l = left'
      BY <3>1
    <3>3. 0 + l = l
      OBVIOUS
    <3>4. Len(<<>>) = 0
      OBVIOUS
    <3> QED
      BY <3>2, <3>3, <3>4, Zenon
  <2> QED
    BY <1>1, <1>2, <1>3, <2>1, <2>2, <2>3
<1> QED
  BY <1>1, <1>2, <1>4, <1>5 DEF DecodeInv, ReadInv

LEMMA DecodeEnds ==
    ASSUME DecodeInv,
           \/ StartRejects \/ MissingSignature \/ InvokeRejects \/ Finish \/ FinishRejects
           \/ InnerFails
    PROVE  DecodeInv'
<1>1. CASE Finish
  <2>1. /\ status = "running" /\ left = 0 /\ payload = <<>> /\ cursor = Len(input.accounts)
        /\ status' = "accepted" /\ UNCHANGED <<input, payload, cursor, left, invoked>>
    BY <1>1 DEF Finish, AllConsumed
  <2> QED
    BY <2>1 DEF DecodeInv, TypeInv, ReadInv
<1>2. CASE StartRejects \/ MissingSignature \/ InvokeRejects \/ FinishRejects \/ InnerFails
  <2>1. /\ status' \in {"rejected", "failed"} /\ UNCHANGED <<input, payload, cursor, left, invoked>>
    BY <1>2 DEF StartRejects, MissingSignature, InvokeRejects, FinishRejects, InnerFails, Reject
  <2> QED
    BY <2>1 DEF DecodeInv, TypeInv, ReadInv
<1> QED
  BY <1>1, <1>2

\* What is delivered is an encoding.
LEMMA DecodeDeliver == DecodeInv /\ ComposedInv /\ Deliver => DecodeInv'
<1> SUFFICES ASSUME DecodeInv, ComposedInv, Deliver PROVE DecodeInv'
  OBVIOUS
<1>1. /\ status = "composing" /\ created # Nothing
      /\ input' = [payload |-> created.payload, accounts |-> Keys(created.accounts)]
      /\ payload' = created.payload
      /\ status' = "received"
      /\ cursor' = cursor /\ left' = left /\ invoked' = invoked
  BY DEF Deliver, Parts
<1>2. PICK ixs \in Seq(InnerInstruction) : Fits(Plain(ixs)) /\ created = Encoded(ixs)
  BY <1>1 DEF ComposedInv
<1>3. /\ created.payload = EncodedData(Plain(ixs)) /\ Plain(ixs) \in Seq(Inners)
      /\ Keys(created.accounts) = EncodedAccounts(Plain(ixs))
  BY <1>2, EncodedIsPlain
<1>4. created.payload \in Seq(Byte) /\ Keys(created.accounts) \in Seq(Address)
  BY <1>2, <1>3, EncodedType
<1>5. cursor = 0 /\ left = 0 /\ invoked = <<>>
  BY <1>1 DEF DecodeInv, ReadInv
<1>6. SubSeq(Keys(created.accounts), 1, 0) = <<>>
  BY SubSeqEmpty
<1>7. Accounts(<<>>) = <<>> /\ Len(<<>>) = 0
  BY FlatMappedEmpty DEF Accounts
<1>8. 0 \in 0..Len(Keys(created.accounts)) /\ 0 \in Byte
  BY <1>4, PayloadAssumption DEF Byte
<1>9. TypeInv'
  BY <1>1, <1>4, <1>5, <1>8 DEF DecodeInv, TypeInv
<1> QED
  BY <1>1, <1>5, <1>6, <1>7, <1>9 DEF DecodeInv, ReadInv

LEMMA DecodeStep == DecodeInv /\ ComposedInv /\ [PlanNext]_allVars => DecodeInv'
<1> SUFFICES ASSUME DecodeInv, ComposedInv, [PlanNext]_allVars PROVE DecodeInv'
  OBVIOUS
<1>1. ASSUME NEW ixs, NewPlan(ixs) PROVE DecodeInv'
  BY <1>1, DecodeSame DEF NewPlan
<1>2. ASSUME NEW k, NEW ix, Change(k, ix) PROVE DecodeInv'
  BY <1>2, DecodeSame DEF Change, vars
<1>3. CASE Sign \/ Create
  BY <1>3, DecodeSame DEF Sign, Create, vars
<1>4. CASE Deliver
  BY <1>4, DecodeDeliver
<1>5. CASE Decode
  BY <1>5, DecodeStart, DecodeInvoke, DecodeEnds DEF Decode
<1>6. CASE UNCHANGED allVars
  BY <1>6, DecodeSame DEF allVars, vars
<1> QED
  BY <1>1, <1>2, <1>3, <1>4, <1>5, <1>6 DEF PlanNext

-----------------------------------------------------------------------------
\* What callers and commands ask for are inner instructions.
LEMMA RequestsType == Requests \cup Commands \subseteq Seq(InnerInstruction)
<1>1. ASSUME NEW a \in Address
      PROVE  Writable(a) \in AccountMeta /\ Readonly(a) \in AccountMeta
  BY DEF Writable, Readonly, Meta, AccountMeta
<1>2. ASSUME NEW p \in Address, NEW accs \in Seq(AccountMeta), NEW d \in Seq(Byte)
      PROVE  <<Inner(p, accs, d)>> \in Seq(InnerInstruction)
  <2>1. Inner(p, accs, d) \in InnerInstruction
    BY DEF Inner, InnerInstruction
  <2> QED
    BY <2>1
<1>3. /\ Wallet \in Address /\ Receivers \subseteq Address
      /\ WinterWallet \in Address /\ TokenPrograms \subseteq Address
      /\ \A a \in Receivers \cup {Wallet}, t \in TokenPrograms : Ata[t][a] \in Address
      /\ Amounts \subseteq Seq(Byte)
  BY PlanAssumption, PayloadAssumption
<1>4. 2 \in Byte /\ 3 \in Byte
  BY PlanAssumption, PayloadAssumption DEF Byte
<1>5. ASSUME NEW x \in Byte, NEW n \in Seq(Byte) PROVE <<x>> \o n \in Seq(Byte)
  BY PrependElements
<1>6. ASSUME NEW to \in Receivers, NEW n \in Amounts PROVE <<Withdraw(to, n)>> \in Seq(InnerInstruction)
  <2>1. <<Writable(Wallet), Writable(to)>> \in Seq(AccountMeta)
    BY <1>1, <1>3
  <2>2. <<2>> \o n \in Seq(Byte)
    BY <1>3, <1>4, <1>5
  <2> QED
    BY <1>2, <1>3, <2>1, <2>2 DEF Withdraw
<1>7. ASSUME NEW to \in Receivers PROVE <<Close(to)>> \in Seq(InnerInstruction)
  <2>1. <<Writable(Wallet), Writable(to)>> \in Seq(AccountMeta)
    BY <1>1, <1>3
  <2>2. <<3>> \in Seq(Byte)
    BY <1>4
  <2> QED
    BY <1>2, <1>3, <2>1, <2>2 DEF Close
<1>8. ASSUME NEW t \in TokenPrograms, NEW to \in Receivers, NEW n \in Amounts
      PROVE  <<TokenTransfer(Ata[t][Wallet], Ata[t][to], t, n)>> \in Seq(InnerInstruction)
  <2>1. <<Writable(Ata[t][Wallet]), Writable(Ata[t][to]), Readonly(Wallet)>> \in Seq(AccountMeta)
    <3>1. Ata[t][Wallet] \in Address /\ Ata[t][to] \in Address
      BY <1>3
    <3> QED
      BY <1>1, <1>3, <3>1
  <2>2. <<3>> \o n \in Seq(Byte)
    BY <1>3, <1>4, <1>5
  <2> QED
    BY <1>2, <1>3, <2>1, <2>2 DEF TokenTransfer
<1>9. Commands \subseteq Seq(InnerInstruction)
  <2>1. WithdrawCommand \subseteq Seq(InnerInstruction)
    <3>1. ASSUME NEW c \in WithdrawCommand PROVE c \in Seq(InnerInstruction)
      <4>1. PICK to \in Receivers, n \in Amounts : c = <<Withdraw(to, n)>>
        BY DEF WithdrawCommand
      <4> QED
        BY <1>6, <4>1
    <3> QED
      BY <3>1
  <2>2. CloseCommand \subseteq Seq(InnerInstruction)
    BY <1>7, Zenon DEF CloseCommand
  <2>3. TransferCommand \subseteq Seq(InnerInstruction)
    <3>1. ASSUME NEW c \in TransferCommand PROVE c \in Seq(InnerInstruction)
      <4>1. PICK t \in TokenPrograms, to \in Receivers, n \in Amounts :
              c = <<TokenTransfer(Ata[t][Wallet], Ata[t][to], t, n)>>
        BY DEF TransferCommand
      <4> QED
        BY <1>8, <4>1
    <3> QED
      BY <3>1
  <2> QED
    BY <2>1, <2>2, <2>3 DEF Commands
<1> QED
  BY <1>9, PlanAssumption

LEMMA ComposedInit == PlanInit => ComposedInv
<1> SUFFICES ASSUME PlanInit PROVE ComposedInv
  OBVIOUS
<1>1. asked = <<>> /\ objects = <<>> /\ owned = Nothing /\ created = Nothing
  BY DEF PlanInit
<1>2. <<>> \in Seq(InnerInstruction)
  OBVIOUS
<1>3. CASE ComposeInit /\ sdk \in Sdk /\ signed = Nothing
  <2>1. Plain(<<>>) = <<>>
    BY DEF Plain
  <2>2. sdk # "none" /\ plan = <<>> /\ status = "composing"
    BY <1>3, PlanAssumption DEF ComposeInit
  <2> QED
    BY <1>1, <1>2, <1>3, <2>1, <2>2 DEF ComposedInv
<1>4. CASE Init /\ sdk = "none"
  BY <1>1, <1>2, <1>4 DEF ComposedInv, Init
<1> QED
  BY <1>3, <1>4 DEF PlanInit

LEMMA ComposedNewPlan ==
    ASSUME ComposedInv, NEW ixs \in Seq(InnerInstruction), NewPlan(ixs)
    PROVE  ComposedInv'
<1>1. /\ status = "composing" /\ owned = Nothing /\ Fits(Plain(ixs))
      /\ plan' = Plain(ixs) /\ asked' = ixs /\ objects' = ixs /\ owned' = Encoded(ixs)
      /\ status' = status /\ sdk' = sdk /\ signed' = signed /\ created' = created
  BY DEF NewPlan
<1>2. sdk # "none" /\ signed = Nothing /\ created = Nothing /\ sdk \in Sdk \cup {"none"}
  BY <1>1 DEF ComposedInv
<1> QED
  BY <1>1, <1>2 DEF ComposedInv

LEMMA ComposedChange ==
    ASSUME ComposedInv, NEW k, NEW ix \in Changes, Change(k, ix)
    PROVE  ComposedInv'
<1>1. /\ k \in DOMAIN objects /\ objects' = [objects EXCEPT ![k] = ix]
      /\ UNCHANGED <<vars, sdk, asked, owned, signed, created, message>>
  BY DEF Change
<1>2. objects \in Seq(InnerInstruction) /\ ix \in InnerInstruction
  BY PlanAssumption DEF ComposedInv
<1>3. objects' \in Seq(InnerInstruction)
  BY <1>1, <1>2, ExceptSeq
<1> QED
  BY <1>1, <1>3 DEF ComposedInv, vars

LEMMA ComposedSign == ComposedInv /\ Sign => ComposedInv'
<1> SUFFICES ASSUME ComposedInv, Sign PROVE ComposedInv'
  OBVIOUS
<1>1. /\ status = "composing" /\ owned # Nothing /\ signed = Nothing
      /\ signed' = Parts(owned)
      /\ UNCHANGED <<vars, sdk, asked, objects, owned, created, message>>
  BY DEF Sign
<1>2. created = Nothing
  BY <1>1 DEF ComposedInv
<1> QED
  BY <1>1, <1>2 DEF ComposedInv, vars

LEMMA ComposedCreate == ComposedInv /\ Create => ComposedInv'
<1> SUFFICES ASSUME ComposedInv, Create PROVE ComposedInv'
  OBVIOUS
<1>1. /\ status = "composing" /\ signed # Nothing
      /\ sdk = "typescript" => Fits(Plain(objects))
      /\ created' = IF sdk = "rust" THEN owned ELSE Encoded(objects)
      /\ UNCHANGED <<vars, sdk, asked, objects, owned, signed, message>>
  BY DEF Create, Instruction, Reencoded
<1>2. sdk # "none" /\ sdk \in {"rust", "typescript"}
  BY <1>1, PlanAssumption DEF ComposedInv
<1>3. \E ixs \in Seq(InnerInstruction) : Fits(Plain(ixs)) /\ created' = Encoded(ixs)
  <2>1. CASE sdk = "rust"
    <3>1. owned = Encoded(asked) /\ Fits(Plain(asked)) /\ asked \in Seq(InnerInstruction)
      BY <1>1, <1>2 DEF ComposedInv
    <3> QED
      BY <1>1, <2>1, <3>1
  <2>2. CASE sdk = "typescript"
    <3>1. objects \in Seq(InnerInstruction)
      BY DEF ComposedInv
    <3> QED
      BY <1>1, <2>2, <3>1
  <2> QED
    BY <1>2, <2>1, <2>2
<1> QED
  BY <1>1, <1>2, <1>3 DEF ComposedInv, vars

LEMMA ComposedDeliver == ComposedInv /\ Deliver => ComposedInv'
<1> SUFFICES ASSUME ComposedInv, Deliver PROVE ComposedInv'
  OBVIOUS
<1>1. /\ status = "composing" /\ created # Nothing
      /\ input' = Parts(created)
      /\ status' = "received"
      /\ UNCHANGED <<plan, sdk, asked, objects, owned, signed, created>>
  BY DEF Deliver
<1> QED
  BY <1>1 DEF ComposedInv

LEMMA ComposedDecode == ComposedInv /\ Decode => ComposedInv'
<1> SUFFICES ASSUME ComposedInv, Decode PROVE ComposedInv'
  OBVIOUS
<1>1. /\ status # "composing" /\ status' # "composing" /\ plan' = plan /\ input' = input
      /\ UNCHANGED planVars
  BY DEF Decode, MissingSignature, Start, StartRejects, InvokeNext, InvokeRejects, Finish,
         FinishRejects, InnerFails, Reject
<1> QED
  BY <1>1 DEF ComposedInv, planVars

LEMMA ComposedStep == ComposedInv /\ [PlanNext]_allVars => ComposedInv'
<1> SUFFICES ASSUME ComposedInv, [PlanNext]_allVars PROVE ComposedInv'
  OBVIOUS
<1>1. ASSUME NEW ixs \in Requests \cup Commands, NewPlan(ixs) PROVE ComposedInv'
  BY <1>1, RequestsType, ComposedNewPlan
<1>2. ASSUME NEW k \in 1..2, NEW ix \in Changes, Change(k, ix) PROVE ComposedInv'
  BY <1>2, ComposedChange
<1>3. CASE UNCHANGED allVars
  BY <1>3 DEF ComposedInv, allVars, vars, planVars
<1> QED
  BY <1>1, <1>2, <1>3, ComposedSign, ComposedCreate, ComposedDeliver, ComposedDecode DEF PlanNext

\* The decoder's cursors and the encoder's outputs stay what they are in every
\* behaviour.
LEMMA PlanInvariant == PlanSpec => [](DecodeInv /\ ComposedInv)
<1>1. PlanInit => DecodeInv /\ ComposedInv
  BY DecodeInit, ComposedInit
<1>2. DecodeInv /\ ComposedInv /\ [PlanNext]_allVars => (DecodeInv /\ ComposedInv)'
  BY DecodeStep, ComposedStep
<1> QED
  BY <1>1, <1>2, PTL DEF PlanSpec

\* The cursors of execute and invoke_next stay inside the payload and the account
\* list, whatever bytes and accounts arrive, and only programs are invoked.
THEOREM CursorsStayInside == PlanSpec => []TypeOK
<1>1. DecodeInv => TypeOK
  <2> SUFFICES ASSUME DecodeInv PROVE TypeOK
    OBVIOUS
  <2> DEFINE Programs == [program : Executable, accounts : Seq(Address), data : Seq(Byte)]
  <2>1. invoked \in Seq(Inners) /\ \A k \in DOMAIN invoked : invoked[k] \in Calls
    BY DEF DecodeInv, TypeInv
  <2>2. \A ix \in Calls : ix \in Programs
    BY DEF Calls, Inners
  <2>3. \A k \in 1..Len(invoked) : invoked[k] \in Programs
    BY <2>1, <2>2
  <2> HIDE DEF Programs
  <2>4. invoked \in Seq(Programs)
    BY <2>1, <2>3, ListOf
  <2> QED
    BY <2>4 DEF DecodeInv, TypeInv, TypeOK, Programs
<1> QED
  BY <1>1, PlanInvariant, PTL

\* What was accepted is the encoding of what was invoked.
LEMMA AcceptedEncodes == DecodeInv => AcceptedIsEncoding
<1> SUFFICES ASSUME DecodeInv, status = "accepted"
             PROVE  /\ input.payload = EncodedData(invoked)
                    /\ input.accounts = EncodedAccounts(invoked)
  BY DEF AcceptedIsEncoding
<1>1. /\ input \in [payload : Seq(Byte), accounts : Seq(Address)] /\ invoked \in Seq(Inners)
      /\ left = 0 /\ payload = <<>> /\ cursor = Len(input.accounts)
      /\ input.payload = <<Len(invoked) + left>> \o (Data(invoked) \o payload)
      /\ SubSeq(input.accounts, 1, cursor) = Accounts(invoked)
  BY DEF DecodeInv, TypeInv, ReadInv
<1>2. /\ EncodedData(invoked) = <<Len(invoked)>> \o Data(invoked)
      /\ EncodedAccounts(invoked) = Accounts(invoked)
      /\ Data(invoked) \in Seq(Nat)
  BY <1>1, EncodedFacts
<1>3. Data(invoked) \o <<>> = Data(invoked)
  BY <1>2, ConcatEmptySeq
<1>4. Len(invoked) + left = Len(invoked)
  BY <1>1
<1>5. SubSeq(input.accounts, 1, Len(input.accounts)) = input.accounts
  <2>1. PICK accs \in Seq(Address) : accs = input.accounts
    BY <1>1
  <2>2. SubSeq(accs, 1, Len(accs)) = accs
    BY SubSeqFull
  <2> QED
    BY <2>1, <2>2
<1> QED
  BY <1>1, <1>2, <1>3, <1>4, <1>5

-----------------------------------------------------------------------------
\* Lists of as many addresses have preimages of their own, whatever payloads follow:
\* with the number of accounts the boundary between the two is known.
SpellingOf(a) == FlatMapped(a, Spelled)

LEMMA SpellingFacts ==
    ASSUME NEW a \in Seq(Address), NEW x \in Address
    PROVE  /\ Spelling(a) = SpellingOf(a) /\ Spelling(a) \in Seq(Byte)
           /\ SpellingOf(Append(a, x)) = SpellingOf(a) \o Spelled[x]
<1>1. Spelling(a) = SpellingOf(a)
  BY DEF Spelling, SpellingOf, FlatMapped, Mapped
<1>2. Spelled \in [Address -> Seq(Byte)]
  BY SpellingAssumption
<1>3. SpellingOf(a) \in Seq(Byte)
  BY <1>2, FlatMappedType DEF SpellingOf
<1>4. SpellingOf(Append(a, x)) = SpellingOf(a) \o Spelled[x]
  BY <1>2, FlatMappedAppend DEF SpellingOf
<1> QED
  BY <1>1, <1>3, <1>4

LEMMA SpellingAppended ==
    ASSUME NEW a \in Seq(Address), NEW x \in Address, NEW s \in Seq(Byte)
    PROVE  /\ Spelled[x] \o s \in Seq(Byte)
           /\ SpellingOf(Append(a, x)) \o s = SpellingOf(a) \o (Spelled[x] \o s)
<1>1. PICK m \in Seq(Byte), n \in Seq(Byte) : m = SpellingOf(a) /\ n = Spelled[x]
  BY SpellingFacts, SpellingAssumption
<1>2. n \o s \in Seq(Byte)
  BY SplitFacts
<1>3. (m \o n) \o s = m \o (n \o s)
  BY BytesAssociate
<1>4. SpellingOf(Append(a, x)) = m \o n
  BY <1>1, SpellingFacts
<1> QED
  BY <1>1, <1>2, <1>3, <1>4

Split(w, s, t) ==
    /\ Len(w) = Len(s) + Len(t)
    /\ SubSeq(w, 1, Len(s)) = s /\ SubSeq(w, Len(s) + 1, Len(s) + Len(t)) = t

LEMMA Splits ==
    ASSUME NEW s \in Seq(Byte), NEW t \in Seq(Byte)
    PROVE  Split(s \o t, s, t)
BY SplitFacts DEF Split

LEMMA SameParts ==
    ASSUME NEW w, NEW s, NEW t, NEW u, NEW v, Split(w, s, t), Split(w, u, v), Len(s) = Len(u)
    PROVE  s = u /\ t = v
<1>1. Len(s) + Len(t) = Len(u) + Len(v)
  BY DEF Split
<1> QED
  BY <1>1, Zenon DEF Split

Alike(a, p, b, q) ==
    /\ a \in Seq(Address) /\ b \in Seq(Address) /\ Len(a) = Len(b)
    /\ p \in Seq(Byte) /\ q \in Seq(Byte)
    /\ Spelling(a) \o p = Spelling(b) \o q

LEMMA SameSpelling ==
    ASSUME NEW a, NEW p, NEW b, NEW q, Alike(a, p, b, q)
    PROVE  a = b /\ p = q
<1> DEFINE Told(c) == \A d \in Seq(Address) : \A s, t \in Seq(Byte) :
                         Len(c) = Len(d) /\ SpellingOf(c) \o s = SpellingOf(d) \o t
                            => c = d /\ s = t
           T == {c \in Seq(Address) : Told(c)}
<1>1. <<>> \in T
  <2>1. <<>> \in Seq(Address) /\ Len(<<>>) = 0
    OBVIOUS
  <2>2. ASSUME NEW d \in Seq(Address), NEW s \in Seq(Byte), NEW t \in Seq(Byte), Len(d) = 0,
               SpellingOf(<<>>) \o s = SpellingOf(d) \o t
        PROVE  d = <<>> /\ s = t
    <3>1. d = <<>>
      BY <2>2
    <3>2. SpellingOf(<<>>) = <<>>
      BY FlatMappedEmpty DEF SpellingOf
    <3>3. <<>> \o s = s /\ <<>> \o t = t
      BY ConcatEmptySeq
    <3> QED
      BY <2>2, <3>1, <3>2, <3>3
  <2> QED
    BY <2>1, <2>2
<1>2. ASSUME NEW c \in Seq(Address), NEW x \in Address, c \in T
      PROVE  Append(c, x) \in T
  <2>1. Append(c, x) \in Seq(Address) /\ Len(Append(c, x)) = Len(c) + 1 /\ Len(c) \in Nat
    OBVIOUS
  <2>2. ASSUME NEW d \in Seq(Address), NEW s \in Seq(Byte), NEW t \in Seq(Byte),
               Len(Append(c, x)) = Len(d),
               SpellingOf(Append(c, x)) \o s = SpellingOf(d) \o t
        PROVE  Append(c, x) = d /\ s = t
    <3>1. PICK e \in Seq(Address), y \in Address : d = Append(e, y) /\ Len(e) = Len(c)
      <4>1. d # <<>>
        BY <2>1, <2>2
      <4>2. /\ Front(d) \in Seq(Address) /\ Len(Front(d)) = Len(d) - 1
            /\ d = Append(Front(d), d[Len(d)]) /\ d[Len(d)] \in Address
        BY <4>1, LastElement
      <4>3. Len(Front(d)) = Len(c)
        BY <2>1, <2>2, <4>2
      <4> QED
        BY <4>2, <4>3
    <3>2. /\ SpellingOf(c) \in Seq(Byte) /\ SpellingOf(e) \in Seq(Byte)
          /\ Spelled[x] \in Seq(Byte) /\ Spelled[y] \in Seq(Byte)
          /\ Len(Spelled[x]) = Len(Spelled[y])
      BY SpellingFacts, SpellingAssumption
    <3>5. Spelled[x] \o s \in Seq(Byte) /\ Spelled[y] \o t \in Seq(Byte)
      BY SpellingAppended
    <3>6. SpellingOf(c) \o (Spelled[x] \o s) = SpellingOf(e) \o (Spelled[y] \o t)
      <4>1. SpellingOf(Append(c, x)) \o s = SpellingOf(c) \o (Spelled[x] \o s)
        BY SpellingAppended
      <4>2. SpellingOf(Append(e, y)) \o t = SpellingOf(e) \o (Spelled[y] \o t)
        BY SpellingAppended
      <4> QED
        BY <2>2, <3>1, <4>1, <4>2
    <3>7. Told(c)
      BY <1>2
    <3> HIDE DEF T
    <3>8. c = e /\ Spelled[x] \o s = Spelled[y] \o t
      <4>1. PICK m \in Seq(Byte), n \in Seq(Byte) : m = Spelled[x] \o s /\ n = Spelled[y] \o t
        BY <3>5
      <4>2. SpellingOf(c) \o m = SpellingOf(e) \o n
        BY <3>6, <4>1
      <4>3. c = e /\ m = n
        BY <3>1, <3>7, <4>2
      <4> QED
        BY <4>1, <4>3
    <3>9. Spelled[x] = Spelled[y] /\ s = t
      <4>1. Split(Spelled[x] \o s, Spelled[x], s) /\ Split(Spelled[y] \o t, Spelled[y], t)
        BY <3>2, Splits
      <4> QED
        BY <3>2, <3>8, <4>1, SameParts
    <3>10. x = y
      BY <3>9, SpellingAssumption
    <3> QED
      BY <3>1, <3>8, <3>9, <3>10
  <2>3. Told(Append(c, x))
    BY <2>2
  <2> QED
    BY <2>1, <2>3
<1>3. /\ a \in Seq(Address) /\ b \in Seq(Address) /\ Len(a) = Len(b)
      /\ p \in Seq(Byte) /\ q \in Seq(Byte)
      /\ SpellingOf(a) \o p = SpellingOf(b) \o q
  BY DEF Alike, Spelling, SpellingOf, FlatMapped, Mapped
<1>4. a \in T
  <2> HIDE DEF T
  <2> QED
    BY <1>1, <1>2, <1>3, ListInduction
<1> QED
  BY <1>3, <1>4

\* What was signed has its type, and what runs has its preimage.
SignedInv ==
    /\ signed \in [payload : Seq(Byte), accounts : Seq(Address)]
    /\ status \in {"running", "accepted"} => Verified

LEMMA SignedForType ==
    ASSUME NEW in \in [payload : Seq(Byte), accounts : Seq(Address)], NEW s \in SignedFor(in)
    PROVE  s \in [payload : Seq(Byte), accounts : Seq(Address)]
<1>1. PICK p \in Seq(Byte), accs \in Seq(Address) : p = in.payload /\ accs = in.accounts
  OBVIOUS
<1>2. <<>> \in Seq(Byte) /\ <<>> \in Seq(Address)
  OBVIOUS
<1>3. CASE s = Nothing
  BY <1>2, <1>3 DEF Nothing
<1>4. CASE s = [in EXCEPT !.payload = <<>>]
  BY <1>1, <1>2, <1>4
<1>5. ASSUME NEW n \in 0..Len(in.accounts), s = Divided(in, n)
      PROVE  s \in [payload : Seq(Byte), accounts : Seq(Address)]
  <2>1. SubSeq(accs, 1, n) \in Seq(Address) /\ SubSeq(accs, n + 1, Len(accs)) \in Seq(Address)
    BY <1>1, <1>5, JoinFacts
  <2>2. PICK moved \in Seq(Byte) : moved = Spelling(SubSeq(accs, n + 1, Len(accs)))
    <3>1. Wallet \in Address
      BY PlanAssumption
    <3> QED
      BY <2>1, <3>1, SpellingFacts
  <2>3. moved \o p \in Seq(Byte)
    BY SplitFacts
  <2> QED
    BY <1>1, <1>5, <2>1, <2>2, <2>3 DEF Divided
<1>6. ASSUME NEW a \in Address, IsPrefix(Spelled[a], in.payload), s = Joined(in, a)
      PROVE  s \in [payload : Seq(Byte), accounts : Seq(Address)]
  <2>1. AddressLen \in 0..Len(p)
    <3>1. Len(Spelled[a]) <= Len(p)
      BY <1>1, <1>6 DEF IsPrefix
    <3> QED
      BY <3>1, SpellingAssumption
  <2>2. SubSeq(p, AddressLen + 1, Len(p)) \in Seq(Byte)
    BY <2>1, JoinFacts
  <2>3. Append(accs, a) \in Seq(Address)
    OBVIOUS
  <2> QED
    BY <1>1, <1>6, <2>2, <2>3 DEF Joined
<1> QED
  BY <1>3, <1>4, <1>5, <1>6 DEF SignedFor

LEMMA SignedInit == PlanInit => SignedInv
<1> SUFFICES ASSUME PlanInit PROVE SignedInv
  OBVIOUS
<1>1. status \notin {"running", "accepted"}
  BY DEF PlanInit, ComposeInit, Init
<1>2. signed \in [payload : Seq(Byte), accounts : Seq(Address)]
  <2>1. CASE signed = Nothing
    <3>1. <<>> \in Seq(Byte) /\ <<>> \in Seq(Address)
      OBVIOUS
    <3> QED
      BY <2>1, <3>1 DEF Nothing
  <2>2. CASE signed \in SignedFor(input)
    <3>1. input \in [payload : Seq(Byte), accounts : Seq(Address)]
      BY DecodeInit DEF DecodeInv, TypeInv
    <3> QED
      BY <2>2, <3>1, SignedForType
  <2> QED
    BY <2>1, <2>2 DEF PlanInit
<1> QED
  BY <1>1, <1>2 DEF SignedInv

LEMMA SignedStep == DecodeInv /\ ComposedInv /\ SignedInv /\ [PlanNext]_allVars => SignedInv'
<1> SUFFICES ASSUME DecodeInv, ComposedInv, SignedInv, [PlanNext]_allVars PROVE SignedInv'
  OBVIOUS
<1>1. CASE Sign
  <2>1. status = "composing" /\ status' = status /\ owned # Nothing /\ signed' = Parts(owned)
    BY <1>1 DEF Sign, vars
  <2>2. asked \in Seq(InnerInstruction) /\ owned = Encoded(asked) /\ Fits(Plain(asked))
    BY <2>1 DEF ComposedInv
  <2>3. /\ owned.payload = EncodedData(Plain(asked)) /\ Plain(asked) \in Seq(Inners)
        /\ Keys(owned.accounts) = EncodedAccounts(Plain(asked))
    BY <2>2, EncodedIsPlain
  <2>4. owned.payload \in Seq(Byte) /\ Keys(owned.accounts) \in Seq(Address)
    BY <2>2, <2>3, EncodedType
  <2> QED
    BY <2>1, <2>4 DEF SignedInv, Parts
<1>2. CASE Decode
  <2>1. signed' = signed
    BY <1>2 DEF Decode, planVars
  <2>2. input' = input
    BY <1>2 DEF Decode, MissingSignature, Start, StartRejects, InvokeNext, InvokeRejects, Finish,
                FinishRejects, InnerFails, Reject
  <2>3. ASSUME status' \in {"running", "accepted"} PROVE Verified
    BY <1>2, <2>3 DEF SignedInv, Decode, MissingSignature, StartRejects, InvokeNext,
                      InvokeRejects, Finish, FinishRejects, InnerFails, Reject
  <2> QED
    BY <2>1, <2>2, <2>3 DEF SignedInv, Verified
<1>3. CASE Deliver
  BY <1>3 DEF Deliver, SignedInv
<1>4. CASE Create \/ (\E ixs : NewPlan(ixs)) \/ (\E k, ix : Change(k, ix)) \/ UNCHANGED allVars
  <2>1. UNCHANGED <<signed, status, input>>
    BY <1>4 DEF Create, NewPlan, Change, allVars, vars, planVars
  <2> QED
    BY <2>1 DEF SignedInv, Verified
<1> QED
  BY <1>1, <1>2, <1>3, <1>4 DEF PlanNext

\* verify_signature and the end of execute: wherever payload, accounts and signature
\* come from, an Advance is accepted only with the preimage that was signed and as the
\* encoding of all it invoked; with as many accounts as were signed it is the very
\* payload and the very accounts that were signed.
THEOREM AcceptsWhatWasSigned == PlanSpec => []AcceptedIsSigned
<1>1. DecodeInv /\ SignedInv => AcceptedIsSigned
  <2> SUFFICES ASSUME DecodeInv, SignedInv, status = "accepted"
               PROVE  /\ AcceptedIsEncoding /\ Preimage(input) = Preimage(signed)
                      /\ Len(input.accounts) = Len(signed.accounts) => input = signed
    BY DEF AcceptedIsSigned
  <2>1. AcceptedIsEncoding /\ Preimage(input) = Preimage(signed)
    BY AcceptedEncodes DEF SignedInv, Verified
  <2>2. /\ input \in [payload : Seq(Byte), accounts : Seq(Address)]
        /\ signed \in [payload : Seq(Byte), accounts : Seq(Address)]
    BY DEF DecodeInv, TypeInv, SignedInv
  <2>3. ASSUME Len(input.accounts) = Len(signed.accounts) PROVE input = signed
    <3>1. PICK a \in Seq(Address), p \in Seq(Byte) : a = input.accounts /\ p = input.payload
      BY <2>2
    <3>2. PICK b \in Seq(Address), q \in Seq(Byte) : b = signed.accounts /\ q = signed.payload
      BY <2>2
    <3>3. Alike(a, p, b, q)
      BY <2>1, <2>3, <3>1, <3>2 DEF Preimage, Alike
    <3>4. a = b /\ p = q
      BY <3>3, SameSpelling, Zenon
    <3>5. /\ input = [payload |-> p, accounts |-> a]
          /\ signed = [payload |-> q, accounts |-> b]
      BY <2>2, <3>1, <3>2
    <3> QED
      BY <3>4, <3>5
  <2> QED
    BY <2>1, <2>3
<1>2. DecodeInv /\ ComposedInv /\ SignedInv /\ [PlanNext]_allVars
        => (DecodeInv /\ ComposedInv /\ SignedInv)'
  BY DecodeStep, ComposedStep, SignedStep
<1>3. PlanInit => DecodeInv /\ ComposedInv /\ SignedInv
  BY DecodeInit, ComposedInit, SignedInit
<1> QED
  BY <1>1, <1>2, <1>3, PTL DEF PlanSpec

\* encode_advance takes the signer's flag from every account: whoever signs an inner
\* instruction, an Advance needs the payer's signature and no other.
THEOREM NoOtherSigner == PlanSpec => []OnlyPayerSigns
<1>1. ComposedInv => OnlyPayerSigns
  <2> SUFFICES ASSUME ComposedInv, created # Nothing PROVE M!PayerOnlySigns(Submitted)
    BY DEF OnlyPayerSigns
  <2>1. PICK ixs \in Seq(InnerInstruction) : created = Encoded(ixs)
    BY DEF ComposedInv
  <2>2. created.accounts \in Seq(Unsigned)
    BY <2>1, EncodedIsPlain
  <2>3. Writable(Wallet) \in Unsigned
    BY PlanAssumption DEF Writable, Meta, Unsigned
  <2>4. PICK accs \in Seq(Unsigned) : accs = <<Writable(Wallet)>> \o created.accounts
    BY <2>2, <2>3, PrependElements
  <2>5. PICK some : some = [program |-> WinterWallet, accounts |-> accs,
                            size |-> Len(created.payload), limit |-> 0]
    OBVIOUS
  <2>6. PICK one, two : /\ one = [program |-> Budget, accounts |-> <<>>, size |-> 5, limit |-> 0]
                        /\ two = [program |-> Budget, accounts |-> <<>>, size |-> 9, limit |-> 0]
    OBVIOUS
  <2>7. Submitted = <<one, two>> \o <<some>>
    BY <2>4, <2>5, <2>6 DEF Submitted, M!WithComputeBudget, Advance, Inner
  <2> DEFINE S == {one, two, some}
  <2>8. Submitted \in Seq(S)
    <3>1. <<one, two>> \in Seq(S) /\ <<some>> \in Seq(S)
      OBVIOUS
    <3> HIDE DEF S
    <3>2. PICK s \in Seq(S), t \in Seq(S) : s = <<one, two>> /\ t = <<some>>
      BY <3>1
    <3>3. s \o t \in Seq(S)
      OBVIOUS
    <3> QED
      BY <2>7, <3>2, <3>3
  <2>9. ASSUME NEW k \in DOMAIN Submitted PROVE Submitted[k].accounts \in Seq(Unsigned)
    <3>1. Submitted[k] \in {one, two, some}
      <4> HIDE DEF S
      <4>1. Submitted[k] \in S
        BY <2>8
      <4> QED
        BY <4>1 DEF S
    <3>2. one.accounts \in Seq(Unsigned) /\ two.accounts \in Seq(Unsigned)
      BY <2>6
    <3>3. some.accounts \in Seq(Unsigned)
      BY <2>5
    <3> QED
      BY <3>1, <3>2, <3>3
  <2>10. ASSUME NEW k \in DOMAIN Submitted, NEW j \in DOMAIN Submitted[k].accounts
         PROVE  ~Submitted[k].accounts[j].signer
    <3>1. PICK metas \in Seq(Unsigned) : metas = Submitted[k].accounts
      BY <2>9
    <3>2. metas[j] \in Unsigned
      BY <3>1
    <3> QED
      BY <3>1, <3>2 DEF Unsigned
  <2> QED
    BY <2>10, Zenon DEF M!PayerOnlySigns
<1> QED
  BY <1>1, PlanInvariant, PTL

-----------------------------------------------------------------------------
\* The instruction objects stay what they were, or the library no longer reads them.
LEMMA OwnedStep ==
    ASSUME Careful, ComposedInv, OwnedInv, [PlanNext]_allVars
    PROVE  OwnedInv'
<1>1. ASSUME NEW ixs, NewPlan(ixs) PROVE OwnedInv'
  <2>1. created = Nothing /\ created' = created /\ asked' = ixs /\ objects' = ixs
    BY <1>1 DEF NewPlan, ComposedInv
  <2> QED
    BY <2>1 DEF OwnedInv
<1>2. ASSUME NEW k, NEW ix, Change(k, ix) PROVE OwnedInv'
  <2>1. sdk # "typescript" /\ sdk' = sdk /\ created' = created /\ owned' = owned
    BY <1>2 DEF Change, Careful
  <2> QED
    BY <2>1 DEF OwnedInv
<1>3. CASE Sign
  BY <1>3 DEF Sign, OwnedInv
<1>4. CASE Create
  <2>1. /\ status = "composing" /\ signed # Nothing
        /\ created' = IF sdk = "rust" THEN owned ELSE Encoded(objects)
        /\ UNCHANGED <<sdk, asked, objects, owned>>
    BY <1>4 DEF Create, Instruction, Reencoded
  <2>2. sdk # "none" /\ sdk \in {"rust", "typescript"} /\ owned = Encoded(asked)
    BY <2>1, PlanAssumption DEF ComposedInv
  <2> QED
    BY <2>1, <2>2 DEF OwnedInv
<1>5. CASE Deliver \/ Decode \/ UNCHANGED allVars
  <2>1. UNCHANGED <<sdk, asked, objects, owned, created>>
    BY <1>5 DEF Deliver, Decode, planVars, allVars
  <2> QED
    BY <2>1 DEF OwnedInv
<1> QED
  BY <1>1, <1>2, <1>3, <1>4, <1>5 DEF PlanNext

\* What arrives is the encoding of the plan, within the limits, and is what was signed.
LEMMA Delivered ==
    ASSUME ComposedInv, OwnedInv, sdk # "none", created # Nothing
    PROVE  /\ plan \in Seq(Inners) /\ Fits(plan)
           /\ created.payload = EncodedData(plan)
           /\ Keys(created.accounts) = Accounts(plan)
           /\ signed # Nothing /\ signed = Parts(created)
<1>1. /\ signed # Nothing /\ owned # Nothing /\ created = Encoded(asked)
      /\ plan = Plain(asked) /\ Fits(plan) /\ asked \in Seq(InnerInstruction)
      /\ signed = Parts(created)
  BY DEF ComposedInv, OwnedInv
<1>2. /\ plan \in Seq(Inners) /\ created.payload = EncodedData(plan)
      /\ Keys(created.accounts) = EncodedAccounts(plan)
  BY <1>1, EncodedIsPlain
<1>3. EncodedAccounts(plan) = Accounts(plan)
  BY <1>2, EncodedFacts
<1> QED
  BY <1>1, <1>2, <1>3

\* The next instruction of the plan is the one the decoder invokes.
LEMMA NextInPlan ==
    ASSUME DecodeInv, status = "running", left > 0, plan \in Seq(Inners), Fits(plan),
           NEW rest \in Seq(Inners), plan = invoked \o rest,
           input.accounts = Accounts(invoked) \o Accounts(rest),
           left = Len(rest), payload = Data(rest)
    PROVE  \E ix \in Inners : \E more \in Seq(Inners) :
              /\ rest = <<ix>> \o more /\ ix = rest[1] /\ Len(more) = left - 1
              /\ plan = Append(invoked, ix) \o more
              /\ input.accounts = Accounts(Append(invoked, ix)) \o Accounts(more)
              /\ Invocable <=> ix.program \in Executable
              /\ SubSeq(Body, DataLen + 1, Len(Body)) = Data(more)
              /\ ix = [program |-> input.accounts[cursor + 1],
                       accounts |-> SubSeq(input.accounts, cursor + 2, cursor + 1 + NumAccounts),
                       data |-> SubSeq(Body, 1, DataLen)]
<1>1. PICK ix \in Inners, more \in Seq(Inners) :
        rest = <<ix>> \o more /\ ix = rest[1] /\ Len(more) = left - 1
  <2>1. rest # <<>>
    OBVIOUS
  <2> QED
    BY <2>1, HeadFirst
<1>2. invoked \in Seq(Inners) /\ cursor = Len(Accounts(invoked))
  BY DEF DecodeInv, TypeInv, ReadInv
<1>3. /\ Accounts(invoked) \in Seq(Address) /\ Accounts(more) \in Seq(Address)
      /\ Data(more) \in Seq(Nat)
  <2>1. PICK done \in Seq(Inners) : done = invoked
    BY <1>2
  <2>2. Accounts(done) \in Seq(Address)
    BY EncodedFacts
  <2>3. Accounts(more) \in Seq(Address) /\ Data(more) \in Seq(Nat)
    BY EncodedFacts
  <2> QED
    BY <2>1, <2>2, <2>3
<1>4. /\ Accounts(rest) = AccountsOf(ix) \o Accounts(more)
      /\ Data(rest) = DataOf(ix) \o Data(more)
      /\ Accounts(Append(invoked, ix)) = Accounts(invoked) \o AccountsOf(ix)
  BY <1>1, <1>2, EncodedParts
<1>5. plan = Append(invoked, ix) \o more
  <2>1. Prependable(Inners, invoked, ix, more)
    BY <1>2, Zenon DEF Prependable
  <2>2. Append(invoked, ix) \o more = invoked \o (<<ix>> \o more)
    BY <2>1, PrependableAppend
  <2> QED
    BY <1>1, <2>2, Zenon
<1>6. Len(ix.accounts) <= MaxCpi
  <2>1. ToSet(plan) = ToSet(invoked) \cup ToSet(rest)
    BY <1>2, ConcatElements
  <2>2. ix \in ToSet(rest)
    <3>1. 1 \in DOMAIN rest
      OBVIOUS
    <3> QED
      BY <1>1, <3>1 DEF ToSet
  <2>3. PICK k \in DOMAIN plan : plan[k] = ix
    BY <2>1, <2>2 DEF ToSet
  <2> QED
    BY <2>3 DEF Fits
<1>7. /\ Len(payload) >= 3
      /\ NumAccounts = Len(ix.accounts)
      /\ DataLen = Len(ix.data)
      /\ Body = ix.data \o Data(more)
  BY <1>3, <1>4, DecodesEncoded DEF NumAccounts, DataLen, Body
<1>8. /\ Len(Body) = Len(ix.data) + Len(Data(more)) /\ Len(ix.data) \in Nat
      /\ Len(Data(more)) \in Nat
      /\ SubSeq(Body, 1, DataLen) = ix.data
      /\ SubSeq(Body, DataLen + 1, Len(Body)) = Data(more)
  <2>1. PICK d \in Seq(Nat), m \in Seq(Nat) : d = ix.data /\ m = Data(more)
    BY <1>3, InnerFacts
  <2>2. /\ Len(d \o m) = Len(d) + Len(m)
        /\ SubSeq(d \o m, 1, Len(d)) = d
        /\ SubSeq(d \o m, Len(d) + 1, Len(d) + Len(m)) = m
    BY SplitFacts
  <2>3. Len(d) \in Nat /\ Len(m) \in Nat
    OBVIOUS
  <2> QED
    BY <1>7, <2>1, <2>2, <2>3
<1>9. /\ cursor + 1 + Len(ix.accounts) <= Len(input.accounts)
      /\ input.accounts[cursor + 1] = ix.program
      /\ SubSeq(input.accounts, cursor + 2, cursor + 1 + Len(ix.accounts)) = ix.accounts
      /\ input.accounts = (Accounts(invoked) \o AccountsOf(ix)) \o Accounts(more)
  <2>1. input.accounts = Accounts(invoked) \o (AccountsOf(ix) \o Accounts(more))
    BY <1>4
  <2>2. PICK before \in Seq(Address), after \in Seq(Address) :
          before = Accounts(invoked) /\ after = Accounts(more)
    BY <1>3
  <2>3. PICK accs : accs = input.accounts /\ accs = before \o (AccountsOf(ix) \o after)
    BY <2>1, <2>2
  <2>5. Follows(before, ix, after, accs)
    BY <2>3 DEF Follows
  <2>4. Found(before, ix, after, accs)
    BY <2>5, FindsThere, Zenon
  <2> QED
    BY <1>2, <2>2, <2>3, <2>4 DEF Found
<1>10. DataLen <= Len(Body)
  BY <1>7, <1>8
<1>12. Invocable <=> ix.program \in Executable
  BY <1>6, <1>7, <1>9, <1>10 DEF Invocable, EndInRange
<1>13. ix = [program |-> input.accounts[cursor + 1],
             accounts |-> SubSeq(input.accounts, cursor + 2, cursor + 1 + NumAccounts),
             data |-> SubSeq(Body, 1, DataLen)]
  BY <1>7, <1>8, <1>9 DEF Inners
<1> QED
  BY <1>1, <1>4, <1>5, <1>8, <1>9, <1>12, <1>13

FullInv == DecodeInv /\ ComposedInv /\ OwnedInv /\ FollowsInv

\* The signature covers what is delivered, so the decoder starts.
LEMMA FollowsStart ==
    ASSUME Careful, FullInv, Decode, status = "received", sdk # "none"
    PROVE  FollowsInv'
<1>1. /\ created # Nothing /\ input = Parts(created)
      /\ input = [payload |-> created.payload, accounts |-> Keys(created.accounts)]
      /\ payload = input.payload /\ invoked = <<>>
  BY DEF FullInv, ComposedInv, DecodeInv, ReadInv, Parts
<1>2. /\ plan \in Seq(Inners) /\ Fits(plan)
      /\ payload = EncodedData(plan) /\ input.accounts = Accounts(plan)
      /\ Verified
  BY <1>1, Delivered DEF FullInv, Verified
<1>3. payload # <<>> /\ Head(payload) = Len(plan) /\ Tail(payload) = Data(plan)
  BY <1>2, EncodedType
<1>4. Len(input.accounts) <= MaxPassthrough
  BY <1>2, EncodedFacts DEF Fits
<1>5. Len(input.accounts) \in Nat /\ MaxPassthrough \in Nat
  <2>1. Accounts(plan) \in Seq(Address)
    BY <1>2, EncodedFacts
  <2> QED
    BY <1>2, <2>1, PayloadAssumption
<1>6. ~StartRejects /\ ~MissingSignature
  BY <1>2, <1>3, <1>4, <1>5 DEF StartRejects, MissingSignature
<1>7. Start /\ UNCHANGED planVars
  BY <1>6 DEF Decode, InvokeNext, InvokeRejects, Finish, FinishRejects, InnerFails
<1>8. /\ left' = Len(plan) /\ payload' = Data(plan) /\ status' = "running"
      /\ plan' = plan /\ input' = input /\ invoked' = <<>>
  BY <1>1, <1>3, <1>7 DEF Start
<1>9. plan = <<>> \o plan /\ Accounts(plan) = Accounts(<<>>) \o Accounts(plan)
  <2>1. Accounts(<<>>) = <<>>
    BY FlatMappedEmpty DEF Accounts
  <2>2. Accounts(plan) \in Seq(Address)
    BY <1>2, EncodedFacts
  <2>3. <<>> \o plan = plan /\ <<>> \o Accounts(plan) = Accounts(plan)
    BY <1>2, <2>2, ConcatEmptySeq
  <2> QED
    BY <2>1, <2>3
<1> QED
  BY <1>2, <1>8, <1>9 DEF FollowsInv

LEMMA FollowsRunning ==
    ASSUME Careful, FullInv, Decode, status = "running", sdk # "none"
    PROVE  FollowsInv'
<1>1. PICK rest \in Seq(Inners) :
        /\ plan = invoked \o rest
        /\ input.accounts = Accounts(invoked) \o Accounts(rest)
        /\ left = Len(rest) /\ payload = Data(rest)
  BY DEF FullInv, FollowsInv
<1>2. plan \in Seq(Inners) /\ Fits(plan)
  <2>1. created # Nothing
    BY DEF FullInv, ComposedInv
  <2> QED
    BY <2>1, Delivered DEF FullInv
<1>3. left \in Nat /\ DecodeInv
  BY <1>1 DEF FullInv
<1>4. CASE left > 0
  <2>1. PICK ix \in Inners, more \in Seq(Inners) :
              /\ ix = rest[1] /\ Len(more) = left - 1
              /\ plan = Append(invoked, ix) \o more
              /\ input.accounts = Accounts(Append(invoked, ix)) \o Accounts(more)
              /\ Invocable <=> ix.program \in Executable
              /\ SubSeq(Body, DataLen + 1, Len(Body)) = Data(more)
              /\ ix = [program |-> input.accounts[cursor + 1],
                       accounts |-> SubSeq(input.accounts, cursor + 2, cursor + 1 + NumAccounts),
                       data |-> SubSeq(Body, 1, DataLen)]
    BY <1>1, <1>2, <1>3, <1>4, NextInPlan
  <2>2. InvokeNext \/ InvokeRejects \/ InnerFails
    BY <1>4 DEF Decode, Start, StartRejects, MissingSignature, Finish, FinishRejects
  <2>3. plan' = plan /\ input' = input
    BY <2>2 DEF InvokeNext, InvokeRejects, InnerFails, Reject
  <2>4. CASE InvokeNext
    <3>1. /\ invoked' = Append(invoked, ix) /\ left' = left - 1
          /\ payload' = Data(more) /\ status' = "running"
      BY <2>1, <2>4 DEF InvokeNext
    <3> QED
      BY <2>1, <2>3, <3>1 DEF FollowsInv
  <2>5. CASE InnerFails
    <3>1. invoked' = invoked /\ status' = "failed"
      BY <2>5 DEF InnerFails
    <3> QED
      BY <1>1, <2>3, <3>1 DEF FollowsInv
  <2>6. CASE InvokeRejects
    <3>1. invoked' = invoked /\ status' = "rejected" /\ ~Invocable
      BY <2>6 DEF InvokeRejects, Reject
    <3>2. rest # <<>> /\ rest[1].program \notin Executable
      <4>1. rest # <<>>
        BY <1>1, <1>4
      <4> QED
        BY <2>1, <3>1, <4>1
    <3> QED
      BY <1>1, <2>3, <3>1, <3>2 DEF FollowsInv
  <2> QED
    BY <2>2, <2>4, <2>5, <2>6
<1>5. CASE left = 0
  <2>1. rest = <<>>
    <3>1. Len(rest) = 0
      BY <1>1, <1>5, Zenon
    <3> QED
      BY <3>1
  <2>2. Data(<<>>) = <<>> /\ Accounts(<<>>) = <<>>
    BY FlatMappedEmpty DEF Data, Accounts
  <2>3. cursor = Len(Accounts(invoked)) /\ Accounts(invoked) \in Seq(Address)
    BY EncodedFacts DEF FullInv, DecodeInv, TypeInv, ReadInv
  <2>4. Accounts(invoked) \o <<>> = Accounts(invoked)
    BY <2>3, ConcatEmptySeq
  <2>5. AllConsumed
    BY <1>1, <2>1, <2>2, <2>3, <2>4 DEF AllConsumed
  <2>6. Finish \/ InnerFails
    BY <1>5, <2>5 DEF Decode, Start, StartRejects, MissingSignature, InvokeNext, InvokeRejects, FinishRejects
  <2>7. plan' = plan /\ input' = input /\ invoked' = invoked /\ status' \in {"accepted", "failed"}
    BY <2>6 DEF Finish, InnerFails
  <2> QED
    BY <1>1, <2>1, <2>7 DEF FollowsInv
<1> QED
  BY <1>3, <1>4, <1>5

LEMMA FollowsStep == Careful /\ FullInv /\ [PlanNext]_allVars => FollowsInv'
<1> SUFFICES ASSUME Careful, FullInv, [PlanNext]_allVars, sdk' # "none", status' # "composing"
             PROVE  FollowsInv'
  BY DEF FollowsInv
<1>1. sdk' = sdk
  BY DEF PlanNext, NewPlan, Change, Sign, Create, Deliver, Decode, planVars, allVars
<1>2. CASE UNCHANGED allVars
  BY <1>1, <1>2 DEF FullInv, FollowsInv, allVars, vars
<1>3. CASE Deliver
  <2>1. /\ status = "composing" /\ created # Nothing /\ status' = "received"
        /\ input' = [payload |-> created.payload, accounts |-> Keys(created.accounts)]
        /\ plan' = plan /\ invoked' = invoked /\ invoked = <<>>
    BY <1>3 DEF Deliver, FullInv, DecodeInv, ReadInv, Parts
  <2>2. plan \in Seq(Inners) /\ Keys(created.accounts) = Accounts(plan)
    BY <1>1, <2>1, Delivered DEF FullInv
  <2>3. plan = <<>> \o plan /\ Accounts(plan) = Accounts(<<>>) \o Accounts(plan)
    <3>1. Accounts(<<>>) = <<>>
      BY FlatMappedEmpty DEF Accounts
    <3>2. Accounts(plan) \in Seq(Address)
      BY <2>2, EncodedFacts
    <3>3. <<>> \o plan = plan /\ <<>> \o Accounts(plan) = Accounts(plan)
      BY <2>2, <3>2, ConcatEmptySeq
    <3> QED
      BY <3>1, <3>3
  <2> QED
    BY <2>1, <2>2, <2>3 DEF FollowsInv
<1>4. CASE Decode
  <2>1. status \in {"received", "running"}
    BY <1>4 DEF Decode, Start, StartRejects, MissingSignature, InvokeNext, InvokeRejects, Finish,
                FinishRejects, InnerFails
  <2> QED
    BY <1>1, <1>4, <2>1, FollowsStart, FollowsRunning
<1>5. CASE Sign \/ Create \/ (\E ixs : NewPlan(ixs)) \/ (\E k, ix : Change(k, ix))
  BY <1>5 DEF Sign, Create, NewPlan, Change, vars
<1> QED
  BY <1>2, <1>3, <1>4, <1>5 DEF PlanNext

\* Where callers leave the instructions they passed alone, or the library copies them.
LEMMA FullInvariant ==
    ASSUME Careful
    PROVE  PlanSpec => []FullInv
<1>1. PlanInit => FullInv
  <2> SUFFICES ASSUME PlanInit PROVE FullInv
    OBVIOUS
  <2>1. OwnedInv
    BY DEF PlanInit, OwnedInv
  <2>2. FollowsInv
    BY DEF PlanInit, ComposeInit, FollowsInv
  <2> QED
    BY <2>1, <2>2, DecodeInit, ComposedInit DEF FullInv
<1>2. FullInv /\ [PlanNext]_allVars => FullInv'
  BY DecodeStep, ComposedStep, OwnedStep, FollowsStep DEF FullInv
<1> QED
  BY <1>1, <1>2, PTL DEF PlanSpec

\* The instruction created from a plan is the one that was signed, as long as callers
\* of the TypeScript library leave the instruction objects they passed to a plan alone;
\* what callers of the Rust library do with theirs does not matter.
THEOREM SubmitsWhatWasSigned ==
    ASSUME Careful
    PROVE  PlanSpec => []SubmittedIsSigned
<1>1. FullInv => SubmittedIsSigned
  <2> SUFFICES ASSUME FullInv, created # Nothing
               PROVE  Parts(created) = signed
    BY DEF SubmittedIsSigned
  <2>1. sdk # "none"
    BY DEF FullInv, ComposedInv
  <2> QED
    BY <2>1, Delivered DEF FullInv
<1> QED
  BY <1>1, FullInvariant, PTL

\* The program invokes the instructions of the plan, in their order, each with its own
\* accounts and data, and all of them when it accepts.  Of what encode_advance let
\* through it turns down one thing, the next instruction being of what is no program:
\* in everything else encoder and decoder have the same limits.
THEOREM PlansAreInvoked ==
    ASSUME Careful
    PROVE  PlanSpec => []EncodedIsInvoked
<1>1. FullInv => EncodedIsInvoked
  <2> SUFFICES ASSUME FullInv, plan # Handmade
               PROVE  /\ IsPrefix(invoked, plan)
                      /\ status = "accepted" => invoked = plan
                      /\ status = "rejected" =>
                            /\ Len(invoked) < Len(plan)
                            /\ plan[Len(invoked) + 1].program \notin Executable
    BY DEF EncodedIsInvoked
  <2>1. sdk # "none" /\ invoked \in Seq(Inners)
    BY DEF FullInv, ComposedInv, DecodeInv, TypeInv
  <2>2. CASE status = "composing"
    <3>1. invoked = <<>>
      BY <2>2 DEF FullInv, DecodeInv, ReadInv
    <3>2. plan \in Seq(Inners)
      BY <2>1, EncodedIsPlain DEF FullInv, ComposedInv
    <3>3. plan = <<>> \o plan /\ <<>> \in Seq(Inners)
      BY <3>2, ConcatEmptySeq
    <3> QED
      BY <2>2, <3>1, <3>2, <3>3, BeginsWith
  <2>3. CASE status # "composing"
    <3>1. PICK rest \in Seq(Inners) : /\ plan = invoked \o rest
                                      /\ status = "accepted" => rest = <<>>
                                      /\ status = "rejected" =>
                                            /\ rest # <<>>
                                            /\ rest[1].program \notin Executable
      BY <2>1, <2>3 DEF FullInv, FollowsInv
    <3>2. IsPrefix(invoked, invoked \o rest)
      BY <2>1, BeginsWith
    <3>3. invoked \o <<>> = invoked
      BY <2>1, ConcatEmptySeq
    <3>4. ASSUME rest # <<>>
          PROVE  Len(invoked) < Len(plan) /\ plan[Len(invoked) + 1] = rest[1]
      <4>1. PICK done \in Seq(Inners) : done = invoked
        BY <2>1
      <4>2. Len(rest) > 0 /\ Len(done) \in Nat
        BY <3>4
      <4>3. Len(done) < Len(done \o rest) /\ (done \o rest)[Len(done) + 1] = rest[1]
        BY <4>2
      <4> QED
        BY <3>1, <4>1, <4>3
    <3> QED
      BY <3>1, <3>2, <3>3, <3>4
  <2> QED
    BY <2>2, <2>3
<1> QED
  BY <1>1, FullInvariant, PTL

-----------------------------------------------------------------------------
\* The message that carries the instruction created from a plan.
Carried(c) == M!WithComputeBudget(<< [program |-> WinterWallet,
                                      accounts |-> Advance(c).accounts,
                                      size |-> Len(c.payload), limit |-> 0] >>, 0)
Carrying(c) == M!Built(Sorted(Collection(M!AllMetas(Carried(c)))), Carried(c))

MessageInv == status # "composing" /\ sdk # "none" => message = Carrying(created)

LEMMA MessageStep == MessageInv /\ [PlanNext]_allVars => MessageInv'
<1> SUFFICES ASSUME MessageInv, [PlanNext]_allVars, status' # "composing", sdk' # "none"
             PROVE  message' = Carrying(created')
  BY DEF MessageInv
<1>1. CASE Deliver
  <2>1. message' = Carrying(created) /\ created' = created
    BY <1>1 DEF Deliver, Submitted, Carrying, Carried
  <2> QED
    BY <2>1
<1>2. CASE Decode \/ UNCHANGED allVars
  <2>1. UNCHANGED <<sdk, created, message>> /\ status # "composing"
    BY <1>2 DEF Decode, planVars, allVars, vars, Start, StartRejects, MissingSignature,
                InvokeNext, InvokeRejects, Finish, FinishRejects, InnerFails
  <2> QED
    BY <2>1 DEF MessageInv
<1>3. CASE Sign \/ Create \/ (\E ixs : NewPlan(ixs)) \/ (\E k, ix : Change(k, ix))
  BY <1>3 DEF Sign, Create, NewPlan, Change, vars
<1> QED
  BY <1>1, <1>2, <1>3 DEF PlanNext

\* The operators the message is built with are those of AccountMetas.
LEMMA SameFlattening ==
    ASSUME NEW lists
    PROVE  M!FlattenSeq(lists) = FlattenSeq(lists)
BY Zenon DEF M!FlattenSeq, FlattenSeq

\* The metas the message is collected from: the payer's, the programs', the wallet's
\* and those of the instruction.
PayerMeta == Meta(Payer, TRUE, TRUE)
BudgetMeta == Meta(Budget, FALSE, FALSE)

LEMMA CarriedMetas ==
    ASSUME NEW c, c.accounts \in Seq(Unsigned)
    PROVE  /\ M!AllMetas(Carried(c)) \in Seq(MetaOf(Address \cup {Budget}))
           /\ ToSet(M!AllMetas(Carried(c)))
                = {PayerMeta, BudgetMeta, Readonly(WinterWallet), Writable(Wallet)}
                     \cup ToSet(c.accounts)
<1> DEFINE K == Address \cup {Budget}
<1>1. PICK A : A = MetaOf(K)
  OBVIOUS
<1>2. /\ PayerMeta \in A /\ BudgetMeta \in A /\ Readonly(WinterWallet) \in A
      /\ Writable(Wallet) \in A
  BY <1>1, PlanAssumption, PayloadAssumption
     DEF PayerMeta, BudgetMeta, Readonly, Writable, Meta, MetaOf
<1>3. PICK p \in A, b \in A, w \in A, v \in A :
         /\ p = PayerMeta /\ b = BudgetMeta /\ w = Readonly(WinterWallet) /\ v = Writable(Wallet)
  BY <1>2
<1>4. c.accounts \in Seq(A)
  <2>1. Unsigned \subseteq A
    BY <1>1 DEF Unsigned, MetaOf
  <2> QED
    BY <2>1, SeqMonotonic
<1>5. PICK metas \in Seq(A) : metas = c.accounts
  BY <1>4
<1> DEFINE one == [program |-> Budget, accounts |-> <<>>, size |-> 5, limit |-> 0]
           two == [program |-> Budget, accounts |-> <<>>, size |-> 9, limit |-> 0]
           outer == [program |-> WinterWallet, accounts |-> <<v>> \o metas,
                     size |-> Len(c.payload), limit |-> 0]
<1>6. Carried(c) = <<one, two>> \o <<outer>>
  BY <1>3, <1>5 DEF Carried, M!WithComputeBudget, Advance, Inner
<1>7. <<v>> \o metas \in Seq(A) /\ ToSet(<<v>> \o metas) = {v} \cup ToSet(metas)
  BY PrependElements
<1>8. PICK t \in Seq(A) : t = <<v>> \o metas
  BY <1>7
<1>9. <<w>> \o t \in Seq(A) /\ ToSet(<<w>> \o t) = {w} \cup ToSet(t)
  BY PrependElements
<1>10. /\ M!MetasOf(one) = <<b>> /\ M!MetasOf(two) = <<b>>
       /\ M!MetasOf(outer) = <<w>> \o t
  <2>1. <<b>> \o <<>> = <<b>>
    OBVIOUS
  <2>2. /\ M!Meta(Budget, FALSE, FALSE) = b /\ M!Meta(WinterWallet, FALSE, FALSE) = w
    BY <1>3 DEF M!Meta, BudgetMeta, Readonly, Meta
  <2>3. /\ one.program = Budget /\ one.accounts = <<>> /\ two.program = Budget
        /\ two.accounts = <<>> /\ outer.program = WinterWallet /\ outer.accounts = t
    BY <1>8
  <2> HIDE DEF one, two, outer
  <2> QED
    BY <2>1, <2>2, <2>3 DEF M!MetasOf
<1>11. PICK r \in Seq(A) : r = <<w>> \o t
  BY <1>9
<1> HIDE DEF one, two, outer
<1>12. PICK lists : lists = [k \in DOMAIN Carried(c) |-> M!MetasOf(Carried(c)[k])]
  OBVIOUS
<1>13. DOMAIN lists = 1..3 /\ lists[1] = <<b>> /\ lists[2] = <<b>> /\ lists[3] = r
  <2>1. /\ DOMAIN Carried(c) = 1..3 /\ Carried(c)[1] = one /\ Carried(c)[2] = two
        /\ Carried(c)[3] = outer
    BY <1>6
  <2>2. DOMAIN lists = 1..3
    BY <1>12, <2>1
  <2>3. \A k \in 1..3 : lists[k] = M!MetasOf(Carried(c)[k])
    BY <1>12, <2>1
  <2>4. /\ lists[1] = M!MetasOf(Carried(c)[1]) /\ lists[2] = M!MetasOf(Carried(c)[2])
        /\ lists[3] = M!MetasOf(Carried(c)[3])
    BY <2>3
  <2>5. /\ lists[1] = M!MetasOf(one) /\ lists[2] = M!MetasOf(two) /\ lists[3] = M!MetasOf(outer)
    BY Zenon, <2>1, <2>4
  <2> QED
    BY Zenon, <1>10, <1>11, <2>2, <2>5
<1>14. lists \in Seq(Seq(A))
  <2>1. <<b>> \in Seq(A)
    OBVIOUS
  <2>2. lists[1] \in Seq(A) /\ lists[2] \in Seq(A) /\ lists[3] \in Seq(A)
    BY <1>13, <2>1
  <2>3. \A k \in 1..3 : k = 1 \/ k = 2 \/ k = 3
    OBVIOUS
  <2>4. \A k \in 1..3 : lists[k] \in Seq(A)
    BY Zenon, <2>2, <2>3
  <2> QED
    BY <1>12, <1>13, <2>4, SeqDef
<1>15. /\ FlattenSeq(lists) \in Seq(A)
       /\ ToSet(FlattenSeq(lists)) = UNION {ToSet(lists[k]) : k \in DOMAIN lists}
  BY <1>14, FlattenType
<1>16. UNION {ToSet(lists[k]) : k \in DOMAIN lists} = {b} \cup ToSet(r)
  <2>1. PICK h : h = <<b>>
    OBVIOUS
  <2>2. DOMAIN h = 1..1 /\ h[1] = b
    BY <2>1
  <2>3. ToSet(h) = {b}
    BY <2>2 DEF ToSet
  <2>4. DOMAIN lists = {1, 2, 3} /\ lists[1] = h /\ lists[2] = h /\ lists[3] = r
    BY <1>13, <2>1
  <2> QED
    BY Zenon, <2>3, <2>4
<1>17. PICK rest \in Seq(A) : rest = FlattenSeq(lists)
  BY <1>15
<1>18. <<p>> \o rest \in Seq(A) /\ ToSet(<<p>> \o rest) = {p} \cup ToSet(rest)
  BY PrependElements
<1>19. M!AllMetas(Carried(c)) = <<p>> \o rest
  <2>1. M!FlattenSeq(lists) = rest
    BY <1>17, SameFlattening
  <2>2. M!Meta(Payer, TRUE, TRUE) = p
    BY <1>3 DEF M!Meta, PayerMeta, Meta
  <2> QED
    BY Zenon, <1>12, <2>1, <2>2 DEF M!AllMetas
<1>20. ToSet(rest) = {b} \cup ({w} \cup ({v} \cup ToSet(metas)))
  BY <1>7, <1>8, <1>9, <1>11, <1>15, <1>16, <1>17
<1> QED
  BY <1>1, <1>3, <1>5, <1>18, <1>19, <1>20

LEMMA SameOperators ==
    ASSUME NEW accs
    PROVE  /\ M!Signers(accs) = Signers(accs)
           /\ Len(M!Having(accs, TRUE, FALSE)) = ReadonlySigners(accs)
           /\ Len(M!Having(accs, FALSE, FALSE)) = Readonlys(accs)
<1>1. \A some : M!Only(accs, some) = Only(accs, some)
  BY Zenon DEF M!Only, Only
<1>2. M!ToSet(accs) = ToSet(accs)
  BY Zenon DEF M!ToSet, ToSet
<1>3. M!Signers(accs) = Signers(accs)
  BY Zenon, <1>1, <1>2 DEF M!Signers, Signers
<1>4. \A signer, writable : M!Having(accs, signer, writable) = Having(accs, signer, writable)
  BY Zenon, <1>1, <1>2 DEF M!Having, Having
<1> QED
  BY Zenon, <1>3, <1>4 DEF ReadonlySigners, Readonlys

\* The privileges the message gives an account of the instruction it carries.
LEMMA MessagePrivileges ==
    ASSUME NEW c, c.accounts \in Seq(Unsigned), NEW msg, msg = Carrying(c),
           NEW m \in ToSet(c.accounts),
           NEW at, at = CHOOSE k \in DOMAIN msg.keys : msg.keys[k] = m.key
    PROVE  /\ M!SignerAt(msg, at) <=> m.key = Payer
           /\ M!WritableAt(msg, at)
                <=> \/ m.key \in {Wallet, Payer}
                    \/ \E o \in ToSet(c.accounts) : o.key = m.key /\ o.writable
<1> DEFINE K == Address \cup {Budget}
<1>1. PICK list : list = M!AllMetas(Carried(c))
  OBVIOUS
<1>2. /\ list \in Seq(MetaOf(K))
      /\ ToSet(list) = {PayerMeta, BudgetMeta, Readonly(WinterWallet), Writable(Wallet)}
                          \cup ToSet(c.accounts)
  BY <1>1, CarriedMetas
<1>3. PICK s : s = Sorted(Collection(list))
  OBVIOUS
<1>4. \A o \in ToSet(c.accounts) : o.signer = FALSE
  <2>1. PICK metas \in Seq(Unsigned) : metas = c.accounts
    OBVIOUS
  <2>2. SUFFICES ASSUME NEW o \in ToSet(metas) PROVE o.signer = FALSE
    BY <2>1
  <2>3. PICK k \in DOMAIN metas : o = metas[k]
    BY DEF ToSet
  <2>4. metas[k] \in Unsigned
    OBVIOUS
  <2> QED
    BY <2>3, <2>4 DEF Unsigned
<1>5. /\ PayerMeta.key = Payer /\ PayerMeta.signer /\ PayerMeta.writable
      /\ ~BudgetMeta.signer /\ ~BudgetMeta.writable
      /\ ~Readonly(WinterWallet).signer /\ ~Readonly(WinterWallet).writable
      /\ ~Writable(Wallet).signer /\ Writable(Wallet).key = Wallet /\ Writable(Wallet).writable
  BY DEF PayerMeta, BudgetMeta, Readonly, Writable, Meta
<1>6. /\ \E o \in ToSet(list) : o.key = Payer /\ o.signer /\ o.writable
      /\ \A o \in ToSet(list) : o.signer => o.key = Payer
  BY <1>2, <1>4, <1>5
<1>7. \A key : (\E o \in ToSet(list) : o.key = key /\ o.writable)
                  <=> \/ key \in {Wallet, Payer}
                      \/ \E o \in ToSet(c.accounts) : o.key = key /\ o.writable
  BY <1>2, <1>5
<1> HIDE DEF K
<1>8. /\ s \in Seq(MetaOf(K)) /\ Distinct(s) /\ Len(s) \in Nat \ {0}
      /\ \A o \in ToSet(list) : \E k \in DOMAIN s : s[k].key = o.key
      /\ Len(Signers(s)) = 1 /\ ReadonlySigners(s) = 0 /\ Readonlys(s) \in Nat
      /\ s[1].key = Payer
      /\ \A k \in 2..Len(s) :
            k <= Len(s) - Readonlys(s) <=> \E o \in ToSet(list) : o.key = s[k].key /\ o.writable
  <2>1. Paid(K, Payer, list)
    BY <1>2, <1>6 DEF Paid
  <2>2. PaidFirst(K, Payer, list, s)
    BY <1>3, <2>1, CollectedPrivileges
  <2> QED
    BY <2>2 DEF PaidFirst
<1>9. msg.header = <<1, 0, Readonlys(s)>> /\ msg.keys = [k \in DOMAIN s |-> s[k].key]
  <2>1. PICK body : /\ msg = [header |-> << Len(M!Signers(s)), Len(M!Having(s, TRUE, FALSE)),
                                            Len(M!Having(s, FALSE, FALSE)) >>,
                              keys   |-> [k \in DOMAIN s |-> s[k].key],
                              body   |-> body]
    BY Zenon, <1>1, <1>3 DEF Carrying, M!Built
  <2>2. PICK header : header = << Len(M!Signers(s)), Len(M!Having(s, TRUE, FALSE)),
                                  Len(M!Having(s, FALSE, FALSE)) >>
    OBVIOUS
  <2>3. PICK keys : keys = [k \in DOMAIN s |-> s[k].key]
    OBVIOUS
  <2>4. msg = [header |-> header, keys |-> keys, body |-> body]
    BY Zenon, <2>1, <2>2, <2>3
  <2>5. msg.header = header /\ msg.keys = keys
    BY <2>4
  <2>6. Len(M!Signers(s)) = 1 /\ Len(M!Having(s, TRUE, FALSE)) = 0
        /\ Len(M!Having(s, FALSE, FALSE)) = Readonlys(s)
    BY Zenon, <1>8, SameOperators
  <2>7. header = <<1, 0, Readonlys(s)>>
    BY Zenon, <2>2, <2>6
  <2> QED
    BY Zenon, <2>3, <2>5, <2>7
<1>10. DOMAIN s = 1..Len(s) /\ Len(msg.keys) = Len(s)
  BY <1>8, <1>9
<1>11. at \in DOMAIN s /\ s[at].key = m.key
  <2>1. PICK k \in DOMAIN s : s[k].key = m.key
    BY <1>2, <1>8
  <2>2. k \in DOMAIN msg.keys /\ msg.keys[k] = m.key
    BY <1>9, <2>1
  <2>3. at \in DOMAIN msg.keys /\ msg.keys[at] = m.key
    BY <2>2
  <2> QED
    BY <1>9, <2>3
<1>12. PICK t \in 1..Len(s) : t = at
  BY <1>10, <1>11
<1>13. t \in DOMAIN s /\ s[t].key = m.key
  BY Zenon, <1>11, <1>12
<1>14. msg.header[1] = 1 /\ msg.header[2] = 0 /\ msg.header[3] = Readonlys(s)
  BY <1>9
<1>15. M!SignerAt(msg, t) <=> t <= 1
  BY <1>14 DEF M!SignerAt
<1>16. CASE t = 1
  <2>1. m.key = Payer
    BY <1>8, <1>13, <1>16
  <2>2. M!SignerAt(msg, t) /\ M!WritableAt(msg, t)
    <3>1. M!SignerAt(msg, t)
      BY <1>15, <1>16
    <3>2. t <= 1 - 0
      BY <1>16
    <3>3. t <= msg.header[1] - msg.header[2]
      BY Zenon, <1>14, <3>2
    <3> QED
      BY Zenon, <3>1, <3>3 DEF M!WritableAt
  <2> QED
    BY Zenon, <1>12, <2>1, <2>2
<1>17. CASE t # 1
  <2>1. t \in 2..Len(s) /\ 1 \in DOMAIN s
    BY <1>8, <1>10, <1>13, <1>17
  <2>2. m.key # Payer
    BY <1>8, <1>13, <1>17, <2>1 DEF Distinct
  <2>3. ~M!SignerAt(msg, t)
    BY <1>15, <2>1
  <2>4. M!WritableAt(msg, t) <=> t <= Len(s) - Readonlys(s)
    BY <1>10, <1>14, <2>3 DEF M!WritableAt
  <2>5. M!WritableAt(msg, t) <=> \E o \in ToSet(list) : o.key = m.key /\ o.writable
    BY <1>8, <1>13, <2>1, <2>4
  <2>6. M!WritableAt(msg, t) <=> \/ m.key \in {Wallet, Payer}
                                 \/ \E o \in ToSet(c.accounts) : o.key = m.key /\ o.writable
    BY <1>7, <2>5
  <2> QED
    BY Zenon, <1>12, <2>2, <2>3, <2>6
<1> QED
  BY <1>16, <1>17

\* The metas of an encoded plan: the programs', readonly, and those asked for, none of
\* them a signer.
LEMMA EncodedMetas ==
    ASSUME NEW ixs \in Seq(InnerInstruction)
    PROVE  /\ \A i \in DOMAIN ixs : \A m \in ToSet(ixs[i].accounts) :
                 Scrubbed(m) \in ToSet(Encoded(ixs).accounts)
           /\ \A o \in ToSet(Encoded(ixs).accounts) :
                 o.writable => \E i \in DOMAIN ixs : \E m \in ToSet(ixs[i].accounts) :
                                  o = Scrubbed(m)
<1>1. DOMAIN ixs = 1..Len(ixs) /\ Len(ixs) \in Nat /\ \A i \in DOMAIN ixs : ixs[i] \in InnerInstruction
  OBVIOUS
<1>2. PICK lists : lists = [k \in DOMAIN ixs |-> MetasOf(ixs[k])]
  OBVIOUS
<1>3. lists \in Seq(Seq(AccountMeta))
  <2>1. \A k \in DOMAIN ixs : MetasOf(ixs[k]) \in Seq(AccountMeta)
    BY <1>1, PlainFacts
  <2> QED
    BY <1>1, <1>2, <2>1
<1>4. /\ ToSet(FlattenSeq(lists)) = UNION {ToSet(lists[k]) : k \in DOMAIN lists}
  BY <1>3, FlattenType
<1>5. Encoded(ixs).accounts = FlattenSeq(lists)
  BY <1>2 DEF Encoded
<1>6. ASSUME NEW i \in DOMAIN ixs
      PROVE  ToSet(MetasOf(ixs[i])) = {Readonly(ixs[i].program)}
                                         \cup {Scrubbed(m) : m \in ToSet(ixs[i].accounts)}
  <2>1. PICK metas \in Seq(AccountMeta) : metas = ixs[i].accounts
    BY <1>1 DEF InnerInstruction
  <2>2. PICK scrubbed : scrubbed = [k \in DOMAIN metas |-> Scrubbed(metas[k])]
    OBVIOUS
  <2>3. MetasOf(ixs[i]) = <<Readonly(ixs[i].program)>> \o scrubbed
    BY <2>1, <2>2 DEF MetasOf
  <2>4. PICK A : A = {Readonly(ixs[i].program)} \cup {Scrubbed(metas[k]) : k \in DOMAIN metas}
    OBVIOUS
  <2>5. Readonly(ixs[i].program) \in A /\ scrubbed \in Seq(A)
    <3>1. \A k \in 1..Len(metas) : Scrubbed(metas[k]) \in A
      BY <2>4
    <3>2. DOMAIN metas = 1..Len(metas) /\ Len(metas) \in Nat
      OBVIOUS
    <3> QED
      BY <2>2, <2>4, <3>1, <3>2
  <2>6. PICK r \in A : r = Readonly(ixs[i].program)
    BY <2>5
  <2>7. ToSet(<<r>> \o scrubbed) = {r} \cup ToSet(scrubbed)
    BY <2>5, PrependElements
  <2>8. ToSet(scrubbed) = {Scrubbed(m) : m \in ToSet(metas)}
    BY <2>2 DEF ToSet
  <2> QED
    BY <2>1, <2>3, <2>6, <2>7, <2>8
<1>7. ToSet(Encoded(ixs).accounts) = UNION {ToSet(MetasOf(ixs[k])) : k \in DOMAIN ixs}
  BY <1>2, <1>4, <1>5
<1>8. \A i \in DOMAIN ixs : ~Readonly(ixs[i].program).writable
  BY DEF Readonly, Meta
<1>9. ASSUME NEW i \in DOMAIN ixs, NEW m \in ToSet(ixs[i].accounts)
      PROVE  Scrubbed(m) \in ToSet(Encoded(ixs).accounts)
  BY <1>6, <1>7
<1>10. ASSUME NEW o \in ToSet(Encoded(ixs).accounts), o.writable
       PROVE  \E i \in DOMAIN ixs : \E m \in ToSet(ixs[i].accounts) : o = Scrubbed(m)
  <2>1. PICK i \in DOMAIN ixs : o \in ToSet(MetasOf(ixs[i]))
    BY <1>7
  <2> QED
    BY <1>6, <1>8, <1>10, <2>1
<1> QED
  BY <1>9, <1>10

\* Nothing has been sent before a plan is made.
LEMMA MessageInit == PlanInit => MessageInv
BY DEF PlanInit, ComposeInit, MessageInv

\* An inner instruction gets the privileges it was planned with and its accounts no
\* other, as long as callers of the TypeScript library leave the instruction objects
\* they passed to a plan alone.
THEOREM PlannedPrivileges ==
    ASSUME Careful
    PROVE  PlanSpec => []InnerPrivileges
<1>1. ASSUME FullInv, MessageInv, plan # Handmade,
             NEW k \in DOMAIN invoked, NEW j \in DOMAIN asked[k].accounts,
             NEW m, m = asked[k].accounts[j]
      PROVE  /\ invoked[k].accounts[j] = m.key
             /\ SignsInner(m.key) <=> m.key \in {Wallet, Payer}
             /\ WritesInner(m.key) <=>
                   \/ m.key \in {Wallet, Payer}
                   \/ \E o \in UNION {ToSet(asked[i].accounts) : i \in DOMAIN asked} :
                         o.key = m.key /\ o.writable
  <2>1. sdk # "none" /\ invoked \in Seq(Inners) /\ asked \in Seq(InnerInstruction)
    BY <1>1 DEF FullInv, ComposedInv, DecodeInv, TypeInv
  <2>2. status # "composing"
    <3>1. SUFFICES ASSUME status = "composing" PROVE FALSE
      OBVIOUS
    <3>2. invoked = <<>>
      BY <1>1, <3>1 DEF FullInv, DecodeInv, ReadInv
    <3> QED
      BY <1>1, <3>2
  <2>3. /\ plan = Plain(asked) /\ created = owned /\ created = Encoded(asked)
        /\ message = Carrying(created)
    BY <1>1, <2>1, <2>2 DEF FullInv, ComposedInv, OwnedInv, MessageInv
  <2>4. PICK rest \in Seq(Inners) : plan = invoked \o rest
    BY <1>1, <2>1, <2>2 DEF FullInv, FollowsInv
  <2>5. k \in DOMAIN asked /\ invoked[k] = plan[k]
    <3>1. DOMAIN plan = DOMAIN asked
      BY <2>3 DEF Plain
    <3>2. k \in DOMAIN (invoked \o rest) /\ (invoked \o rest)[k] = invoked[k]
      BY <1>1, <2>1
    <3> QED
      BY <2>4, <3>1, <3>2
  <2>6. asked[k] \in InnerInstruction
    BY <2>1, <2>5
  <2>7. invoked[k].accounts[j] = m.key
    <3>1. plan[k] = PlainOf(asked[k])
      BY <2>3, <2>5 DEF Plain, PlainOf
    <3>2. plan[k].accounts = Keys(asked[k].accounts)
      BY <2>6, <3>1 DEF PlainOf, InnerInstruction
    <3>3. Keys(asked[k].accounts)[j] = m.key
      BY <1>1 DEF Keys
    <3> QED
      BY <2>5, <3>2, <3>3
  <2>8. m \in ToSet(asked[k].accounts)
    BY <1>1 DEF ToSet
  <2>9. created.accounts \in Seq(Unsigned)
    BY <2>1, <2>3, EncodedIsPlain
  <2>10. \A i \in DOMAIN asked : \A o \in ToSet(asked[i].accounts) :
            /\ Scrubbed(o) \in ToSet(created.accounts)
            /\ Scrubbed(o).key = o.key /\ Scrubbed(o).writable = o.writable
    <3>1. \A i \in DOMAIN asked : \A o \in ToSet(asked[i].accounts) :
             Scrubbed(o) \in ToSet(created.accounts)
      BY <2>1, <2>3, EncodedMetas
    <3>2. ASSUME NEW i \in DOMAIN asked, NEW o \in ToSet(asked[i].accounts)
          PROVE  Scrubbed(o).key = o.key /\ Scrubbed(o).writable = o.writable
      <4>1. PICK metas \in Seq(AccountMeta) : metas = asked[i].accounts
        <5>1. PICK ix \in InnerInstruction : ix = asked[i]
          BY <2>1
        <5> QED
          BY <5>1 DEF InnerInstruction
      <4>2. PICK n \in DOMAIN metas : o = metas[n]
        BY <4>1 DEF ToSet
      <4>3. o \in AccountMeta
        BY <4>2
      <4> QED
        BY <4>3 DEF Scrubbed, AccountMeta
    <3> QED
      BY <3>1, <3>2
  <2>11. \A o \in ToSet(created.accounts) :
            o.writable => \E i \in DOMAIN asked : \E a \in ToSet(asked[i].accounts) :
                             o = Scrubbed(a)
    BY <2>1, <2>3, EncodedMetas
  <2>12. PICK sent \in ToSet(created.accounts) : sent.key = m.key
    BY <2>5, <2>8, <2>10
  <2>13. /\ M!SignerAt(message, At(m.key)) <=> m.key = Payer
         /\ M!WritableAt(message, At(m.key))
               <=> \/ m.key \in {Wallet, Payer}
                   \/ \E o \in ToSet(created.accounts) : o.key = m.key /\ o.writable
    <3>1. PICK at : at = CHOOSE n \in DOMAIN message.keys : message.keys[n] = sent.key
      OBVIOUS
    <3>2. /\ M!SignerAt(message, at) <=> sent.key = Payer
          /\ M!WritableAt(message, at)
                <=> \/ sent.key \in {Wallet, Payer}
                    \/ \E o \in ToSet(created.accounts) : o.key = sent.key /\ o.writable
      BY <2>3, <2>9, <3>1, MessagePrivileges
    <3>3. at = At(m.key)
      BY <2>12, <3>1 DEF At
    <3> QED
      BY <2>12, <3>2, <3>3
  <2>14. (\E o \in ToSet(created.accounts) : o.key = m.key /\ o.writable)
            <=> \E o \in UNION {ToSet(asked[i].accounts) : i \in DOMAIN asked} :
                   o.key = m.key /\ o.writable
    <3>1. ASSUME NEW o \in ToSet(created.accounts), o.key = m.key, o.writable
          PROVE  \E a \in UNION {ToSet(asked[i].accounts) : i \in DOMAIN asked} :
                    a.key = m.key /\ a.writable
      <4>1. PICK i \in DOMAIN asked : \E a \in ToSet(asked[i].accounts) : o = Scrubbed(a)
        BY <2>11, <3>1
      <4>2. PICK a \in ToSet(asked[i].accounts) : o = Scrubbed(a)
        BY <4>1
      <4>3. a.key = m.key /\ a.writable
        BY <2>10, <3>1, <4>2
      <4> QED
        BY <4>3
    <3>2. ASSUME NEW o \in UNION {ToSet(asked[i].accounts) : i \in DOMAIN asked},
                 o.key = m.key, o.writable
          PROVE  \E a \in ToSet(created.accounts) : a.key = m.key /\ a.writable
      <4>1. PICK i \in DOMAIN asked : o \in ToSet(asked[i].accounts)
        OBVIOUS
      <4> QED
        BY <2>10, <3>2, <4>1
    <3> QED
      BY <3>1, <3>2
  <2> QED
    BY <2>7, <2>13, <2>14 DEF SignsInner, WritesInner
<1>2. FullInv /\ MessageInv => InnerPrivileges
  BY <1>1 DEF InnerPrivileges
<1>3. PlanSpec => []MessageInv
  BY MessageInit, MessageStep, PTL DEF PlanSpec
<1> QED
  BY <1>2, <1>3, FullInvariant, PTL
=============================================================================
