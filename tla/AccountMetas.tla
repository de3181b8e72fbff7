---------------------------- MODULE AccountMetas ----------------------------
(***************************************************************************)
(* The accounts of a message, as both builders of the client and the       *)
(* command line collect and order them (client/src/transaction.rs,         *)
(* cli/src/helpers.rs): each key once, with every privilege some           *)
(* instruction asks for, signers first and writable before readonly.       *)
(***************************************************************************)
EXTENDS Integers, Sequences, SequencesExt

Meta(key, signer, writable) == [key |-> key, signer |-> signer, writable |-> writable]

\* upsert: the first mention of a key adds it, later ones add privileges.
AddedOnce(accs, m) ==                   \* mutant: later mentions add nothing
    IF \E k \in DOMAIN accs : accs[k].key = m.key THEN accs ELSE Append(accs, m)
Upserted(accs, m) ==
    IF \E k \in DOMAIN accs : accs[k].key = m.key
    THEN [k \in DOMAIN accs |->
             IF accs[k].key = m.key
             THEN Meta(m.key, accs[k].signer \/ m.signer, accs[k].writable \/ m.writable)
             ELSE accs[k]]
    ELSE Append(accs, m)

\* collect_accounts: the metas in their order.
Collection(metas) ==
    LET accs[n \in 0..Len(metas)] ==
            IF n = 0 THEN <<>> ELSE Upserted(accs[n - 1], metas[n])
    IN  accs[Len(metas)]

\* The accounts among some, in their order.
Only(accs, some) ==
    LET kept[n \in 0..Len(accs)] ==
            IF n = 0 THEN <<>>
            ELSE IF accs[n] \in some THEN Append(kept[n - 1], accs[n]) ELSE kept[n - 1]
    IN  kept[Len(accs)]

\* The stable sort by privileges.
Having(accs, signer, writable) ==
    Only(accs, {a \in ToSet(accs) : a.signer = signer /\ a.writable = writable})
Sorted(accs) ==
    Having(accs, TRUE, TRUE) \o Having(accs, TRUE, FALSE)
        \o Having(accs, FALSE, TRUE) \o Having(accs, FALSE, FALSE)

Signers(accs) == Only(accs, {a \in ToSet(accs) : a.signer})
=============================================================================
