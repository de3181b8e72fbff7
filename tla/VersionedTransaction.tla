------------------------ MODULE VersionedTransaction ------------------------
(***************************************************************************)
(* The size of a version 0 transaction (sdk/ts/src/transaction.ts).  The   *)
(* SDK divides the collected accounts into those that stay in the message  *)
(* and those found in address lookup tables; the message itself is         *)
(* compiled by web3.js, which divides them by itself, table after table.   *)
(***************************************************************************)
EXTENDS SendPipeline

CONSTANT Tables     \* lists of lookup tables, each the list of its addresses

ASSUME TablesAssumption ==
    /\ Tables \subseteq Seq(Seq(Key))
    /\ \A tables \in Tables : \A t \in DOMAIN tables : Len(tables[t]) <= 256

-----------------------------------------------------------------------------
Invoked(ixs) == {ixs[k].program : k \in DOMAIN ixs}

\* altMap: where the tables have a key first, << >> for nowhere.
Places(tables, key) ==
    {p \in (DOMAIN tables) \X (1..256) :
        p[2] \in DOMAIN tables[p[1]] /\ tables[p[1]][p[2]] = key}
Place(tables, key) ==
    IF Places(tables, key) = {} THEN <<>>
    ELSE CHOOSE p \in Places(tables, key) : \A q \in Places(tables, key) :
            p[1] < q[1] \/ (p[1] = q[1] /\ p[2] <= q[2])

\* partitionV0Accounts.
ProgramsToo(a, ixs, tables) ==          \* mutant: programs are looked up as well
    a.signer \/ Place(tables, a.key) = <<>>
Static(a, ixs, tables) ==
    a.signer \/ a.key \in Invoked(ixs) \/ Place(tables, a.key) = <<>>
StaticKeys(accs, ixs, tables) == Only(accs, {a \in ToSet(accs) : Static(a, ixs, tables)})

\* The accounts behind table t, and their entries, writable or readonly.
Found(accs, ixs, tables, t, writable) ==
    Only(accs, {a \in ToSet(accs) : /\ ~Static(a, ixs, tables) /\ a.writable = writable
                                    /\ Place(tables, a.key)[1] = t})
Indexes(accs, ixs, tables, t, writable) ==
    LET found == Found(accs, ixs, tables, t, writable)
    IN  [k \in DOMAIN found |-> Place(tables, found[k].key)[2]]

\* lookups: only for tables that resolve an account.
Lookups(accs, ixs, tables) ==
    LET w(t) == Indexes(accs, ixs, tables, t, TRUE)
        r(t) == Indexes(accs, ixs, tables, t, FALSE)
    IN  [t \in {u \in DOMAIN tables : w(u) # <<>> \/ r(u) # <<>>} |->
            [writable |-> w(t), readonly |-> r(t)]]

SizeV0(static, ixs, lookups) ==
    LET signatures == Len(Signers(static))
        Size(ix) == 1 + CompactLen(Len(ix.accounts)) + Len(ix.accounts)
                      + CompactLen(ix.size) + ix.size
        Listed(l) == KeySize + CompactLen(Len(l.writable)) + Len(l.writable)
                       + CompactLen(Len(l.readonly)) + Len(l.readonly)
    IN  CompactLen(signatures) + signatures * SignatureSize
        + 1 + 3 + CompactLen(Len(static)) + Len(static) * KeySize + HashSize
        + CompactLen(Len(ixs)) + Total([k \in DOMAIN ixs |-> Size(ixs[k])])
        + CompactLen(Cardinality(DOMAIN lookups))
        + SumFunction([t \in DOMAIN lookups |-> Listed(lookups[t])])

\* estimateV0TransactionSize
EstimateV0(accs, ixs, tables) ==
    SizeV0(StaticKeys(accs, ixs, tables), ixs, Lookups(accs, ixs, tables))

-----------------------------------------------------------------------------
\* web3.js: MessageV0.compile drains the keys found in one table after another, the
\* writable ones first; what remains is static.
Drained(rest, ixs, table, writable) ==
    Only(rest, {a \in ToSet(rest) : /\ ~a.signer /\ a.key \notin Invoked(ixs)
                                    /\ a.writable = writable /\ a.key \in ToSet(table)})
Drain(c, ixs, tables, t) ==
    LET w == Drained(c.static, ixs, tables[t], TRUE)
        r == Drained(c.static, ixs, tables[t], FALSE)
    IN  [static  |-> Only(c.static, ToSet(c.static) \ (ToSet(w) \cup ToSet(r))),
         lookups |-> IF w = <<>> /\ r = <<>> THEN c.lookups
                     ELSE [u \in DOMAIN c.lookups \cup {t} |->
                              IF u = t THEN [writable |-> w, readonly |-> r]
                              ELSE c.lookups[u]]]
Compiled(accs, ixs, tables) ==
    LET compiled[t \in 0..Len(tables)] ==
            IF t = 0 THEN [static |-> accs, lookups |-> <<>>]
            ELSE Drain(compiled[t - 1], ixs, tables, t)
    IN  compiled[Len(tables)]

-----------------------------------------------------------------------------
Divided == Collected("preview")

\* The entries of the lists of that privilege in which the runtime finds an account.
Entries(lookups, tables, a, writable) ==
    LET list(t) == IF writable THEN lookups[t].writable ELSE lookups[t].readonly
    IN  UNION { {t} \X {k \in DOMAIN list(t) : tables[t][list(t)[k]] = a.key} :
                   t \in DOMAIN lookups }

\* The division loses nothing: every account is in the message or behind exactly one
\* index, in the list of its privilege, where the runtime finds that very account;
\* signers and programs are in the message.  And the estimate is the size of what
\* web3.js compiles, which the SDK never sees.
V0IsExact ==
    Divided => \A tables \in Tables :
        LET accs == Sorted(accounts)
            lookups == Lookups(accs, instructions, tables)
            static == ToSet(StaticKeys(accs, instructions, tables))
            c == Compiled(accs, instructions, tables)
        IN  /\ \A a \in ToSet(accs) :
                  /\ Cardinality(Entries(lookups, tables, a, a.writable))
                        = (IF a \in static THEN 0 ELSE 1)
                  /\ Entries(lookups, tables, a, ~a.writable) = {}
                  /\ a.signer \/ a.key \in Invoked(instructions) => a \in static
            /\ EstimateV0(accs, instructions, tables)
                  = SizeV0(c.static, instructions, c.lookups)
=============================================================================
