------------------------ MODULE WinternitzSignature ------------------------
(***************************************************************************)
(* Signing, recovering and verifying (core/src/privkey.rs, signature.rs).  *)
(* A scalar is known by how often its secret was hashed; hashing goes      *)
(* forward only.  A digest has N digits, and two more count what the       *)
(* digits leave out, so that no hashing forward turns a signature into one *)
(* of another digest.  A signature is on its way to a verifier through     *)
(* hands that may hash any of its scalars; the verifier completes each     *)
(* chain, merklizes what comes out and compares the roots.                 *)
(***************************************************************************)
EXTENDS Merklize

CONSTANTS
    N,      \* message scalars
    Base,   \* 256: values of a byte
    Word,   \* 65536: the checksum is a u16
    Keys    \* numbers of scalars of other public keys to merklize

ASSUME WinternitzAssumption ==
    /\ N \in Nat \ {0} /\ Base \in Nat \ {0, 1} /\ Word \in Nat
    /\ N * (Base - 1) < Word /\ N * (Base - 1) < Base * Base
    /\ Keys \subseteq Nat \ {0} /\ \A n \in Keys \cup {N + 2} : Merklizable(n)

End == Base - 1
Digit == 0..End
Digest == [1..N -> Digit]
Slot == 1..(N + 2)      \* scalars: the message's, then the checksum's

VARIABLES
    signed,     \* the digest signed, or NoDigest
    heights,    \* heights[s]: how often scalar s of the signature was hashed
    checked,    \* the digest a verifier recovers the key for, or NoDigest
    verdict     \* its answer, "none" before

vars == <<signed, heights, checked, verdict, merkleVars>>

NoDigest == <<>>

-----------------------------------------------------------------------------
\* checksum_sum
Checksum(digest) == SumFunction([i \in 1..N |-> End - digest[i]]) % Word

\* The number of hashes sign_prehashed applies to each secret.
NoCarry(digest) ==                      \* mutant: only the low byte of the checksum
    [s \in Slot |-> IF s <= N THEN digest[s]
                    ELSE IF s = N + 1 THEN 0 ELSE Checksum(digest) % Base]
Steps(digest) ==
    [s \in Slot |-> IF s <= N THEN digest[s]
                    ELSE IF s = N + 1 THEN (Checksum(digest) \div Base) % Base
                    ELSE Checksum(digest) % Base]

\* recover_pubkey_prehashed completes each chain for the digest it is given.
Recovered(h, digest) == [s \in Slot |-> h[s] + (End - Steps(digest)[s])]

\* to_pubkey: every chain at its end; and the root that was stored for it.
Scalars(h) == [s \in Slot |-> <<s, h[s]>>]
PublicRoot == RootOf(Scalars([s \in Slot |-> End]))

Init ==
    /\ signed = NoDigest /\ heights = [s \in Slot |-> 0]
    /\ checked = NoDigest /\ verdict = "none"
    /\ Idle \/ \E n \in Keys : Merklizing([k \in 1..n |-> k])

Sign(digest) ==
    /\ signed = NoDigest /\ leaves = <<>>
    /\ signed' = digest
    /\ heights' = Steps(digest)
    /\ UNCHANGED <<checked, verdict, merkleVars>>

\* chain, applied once by anyone; a verifier works on its own copy.
Hash(s) ==
    /\ signed # NoDigest /\ leaves = <<>>
    /\ heights[s] < End
    /\ heights' = [heights EXCEPT ![s] = @ + 1]
    /\ checked' = NoDigest /\ verdict' = "none"
    /\ UNCHANGED <<signed, merkleVars>>

\* recover_pubkey
Recover(digest) ==
    /\ signed # NoDigest /\ leaves = <<>>
    /\ leaves' = Scalars(Recovered(heights, digest))
    /\ checked' = digest /\ verdict' = "none"
    /\ UNCHANGED <<signed, heights, taken, carry, stack, root>>

\* verify: the roots are compared.
Verify ==
    /\ checked # NoDigest /\ root # <<>>
    /\ verdict' = IF root = PublicRoot THEN "accepted" ELSE "refused"
    /\ leaves' = <<>> /\ taken' = 0 /\ stack' = <<>> /\ root' = <<>>
    /\ UNCHANGED <<signed, heights, checked, carry>>

Next ==
    \/ \E digest \in Digest : Sign(digest) \/ Recover(digest)
    \/ \E s \in Slot : Hash(s)
    \/ Merklize /\ UNCHANGED <<signed, heights, checked, verdict>>
    \/ Verify

Spec == Init /\ [][Next]_vars

-----------------------------------------------------------------------------
\* A signature verifies for the digest that was signed and for no other, whatever
\* was hashed in between; untouched, it does verify for it.
OnlySignedDigest ==
    /\ verdict = "accepted" => checked = signed
    /\ verdict = "refused" /\ heights = Steps(signed) => checked # signed
=============================================================================
