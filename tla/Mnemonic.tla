------------------------------ MODULE Mnemonic ------------------------------
(***************************************************************************)
(* Mnemonics (core/src/keypair.rs): generate_mnemonic cuts entropy and its *)
(* checksum into words, validate puts the bits of the words together again *)
(* and compares the checksum; one knows a single length, the other five.   *)
(* A word is its index in the word list, a byte ByteBits bits.             *)
(***************************************************************************)
EXTENDS Integers, Sequences

CONSTANTS
    WordBits,   \* 11
    ByteBits,   \* 8
    Ratio,      \* 32: bits of entropy for one bit of checksum
    Counts,     \* 12, 15, 18, 21, 24: the numbers of words of a mnemonic
    Generates,  \* 24: the number of words generated
    Digest(_),  \* the first byte of the hash of entropy, as bits
    Entered     \* lists of words a user may enter

Bit == 0..1
EntropyBits(n) == (n * WordBits * Ratio) \div (Ratio + 1)
ChecksumBits(n) == n * WordBits - EntropyBits(n)

ASSUME MnemonicAssumption ==
    /\ {WordBits, ByteBits, Ratio} \subseteq Nat \ {0}
    /\ Counts \subseteq Nat \ {0} /\ Generates \in Counts
    /\ \A n \in Counts : /\ EntropyBits(n) % ByteBits = 0
                         /\ ChecksumBits(n) \in 1..ByteBits
    /\ ChecksumBits(Generates) = ByteBits

ASSUME DigestAssumption ==
    \A n \in Counts : \A entropy \in [1..EntropyBits(n) -> Bit] :
        Digest(entropy) \in [1..ByteBits -> Bit]

ASSUME EnteredAssumption == Entered \subseteq Seq(Nat)

VARIABLES
    words,      \* the words validated
    bits,       \* the bits of the words read
    validity    \* "unknown", then "valid" or "invalid"

mnemonicVars == <<words, bits, validity>>

-----------------------------------------------------------------------------
\* How many values so many bits have.
Values[n \in Nat] == IF n = 0 THEN 1 ELSE 2 * Values[n - 1]

\* A number and its digits, the highest first.
Number(digits, base) ==
    LET number[k \in 0..Len(digits)] ==
            IF k = 0 THEN 0 ELSE base * number[k - 1] + digits[k]
    IN  number[Len(digits)]
BitsOf(number, width) == [b \in 1..width |-> (number \div Values[width - b]) % 2]

Word(some) == Number(some, 2)
InList(word) == word \in 0..(Values[WordBits] - 1)
Unpacked(word) == BitsOf(word, WordBits)

\* generate_mnemonic
Generated(entropy) ==
    LET all == entropy \o Digest(entropy)
    IN  [k \in 1..Generates |-> Word(SubSeq(all, (k - 1) * WordBits + 1, k * WordBits))]

Given(list) == words = list /\ bits = <<>> /\ validity = "unknown"
MnemonicInit ==
    \E list \in Entered \cup {Generated(e) : e \in [1..EntropyBits(Generates) -> Bit]} :
        Given(list)

\* validate
Decided(verdict) == validity' = verdict /\ UNCHANGED <<words, bits>>
Reading == validity = "unknown" /\ Len(words) \in Counts
ReadWord ==
    /\ Reading /\ Len(bits) < Len(words) * WordBits
    /\ LET word == words[Len(bits) \div WordBits + 1]
       IN  /\ InList(word)
           /\ bits' = bits \o Unpacked(word)
    /\ UNCHANGED <<words, validity>>

\* mask: the leading bits of the byte behind the entropy.
WholeByte(n) == ByteBits                \* mutant: nothing is masked off
Masked(n) == ChecksumBits(n)
Compare ==
    /\ Reading /\ Len(bits) = Len(words) * WordBits
    /\ LET n == Len(words)
           entropy == SubSeq(bits, 1, EntropyBits(n))
           padded == bits \o [b \in 1..ByteBits |-> 0]
           agrees == \A b \in 1..Masked(n) : padded[EntropyBits(n) + b] = Digest(entropy)[b]
       IN  Decided(IF agrees THEN "valid" ELSE "invalid")

\* A wrong number of words, or a word that is not in the list.
InvalidMnemonic ==
    /\ validity = "unknown"
    /\ \/ Len(words) \notin Counts
       \/ /\ Len(bits) < Len(words) * WordBits
          /\ ~InList(words[Len(bits) \div WordBits + 1])
    /\ Decided("invalid")

Validate == ReadWord \/ Compare \/ InvalidMnemonic

-----------------------------------------------------------------------------
\* BIP-39, for every length: what is accepted is entropy followed by as many bits of
\* its digest as fill the last word.  And what one function generates the other
\* accepts, and nothing else of that length.
ValidAsDocumented ==
    LET number == Number(words, Values[WordBits])
        n == Len(words)
        entropy == number \div Values[ChecksumBits(n)]
        digest == Digest(BitsOf(entropy, EntropyBits(n)))
    IN  validity \in {"valid", "invalid"} =>
            /\ validity = "valid" <=>
                  /\ n \in Counts /\ \A k \in 1..n : InList(words[k])
                  /\ Word(SubSeq(digest, 1, ChecksumBits(n))) = number % Values[ChecksumBits(n)]
            /\ n = Generates =>
                  (validity = "valid" <=>
                      words \in {Generated(e) : e \in [1..EntropyBits(Generates) -> Bit]})
=============================================================================
