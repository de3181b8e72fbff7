---------------------------- MODULE SendPipeline ----------------------------
(***************************************************************************)
(* From a request to a confirmed transaction (cli/src/helpers.rs): the     *)
(* preview is validated before anything is signed; then the transaction is *)
(* simulated under a generous compute limit, built again with the limit    *)
(* the simulation suggests, sent, and asked for until a node confirms it.  *)
(* Each time the account keys are collected anew.                          *)
(***************************************************************************)
EXTENDS TransactionMessage

CONSTANTS
    Key,            \* public keys
    Requests,       \* lists of instructions
    DefaultLimit,   \* DEFAULT_ADVANCE_COMPUTE_UNIT_LIMIT
    Ceiling,        \* SIMULATION_CU_CEILING, and the most the runtime grants
    MinLimit,       \* 10,000
    MaxU32, MaxU64,
    Units,          \* unitsConsumed as a node may answer it
    Costs,          \* compute units a transaction may need when it is executed
    MaxPolls        \* polls of confirm_transaction: 60

ASSUME PipelineAssumption ==
    /\ {DefaultLimit, Ceiling, MinLimit, MaxU32, MaxU64, MaxPolls} \subseteq Nat
    /\ MinLimit <= Ceiling /\ Ceiling <= MaxU32 /\ MaxU32 <= MaxU64
    /\ 10 * Ceiling <= MaxU64
    /\ Units \subseteq 0..MaxU64 /\ Costs \subseteq Nat

ASSUME RequestsAssumption ==
    /\ {Payer, BudgetProgram} \subseteq Key
    /\ Requests \subseteq Seq([program  : Key,
                               accounts : Seq([key : Key, signer : BOOLEAN, writable : BOOLEAN]),
                               size     : Nat,
                               limit    : Nat])

VARIABLES
    request,        \* the instructions without a compute budget
    stage,          \* how far the pipeline has come
    instructions,   \* the instructions with the compute budget in front
    todo,           \* account metas not collected yet
    accounts,       \* the keys collected, with their privileges
    estimated,      \* the size the preview estimated
    message,        \* the message built last, or Unbuilt
    units,          \* what the simulation consumed
    ledger,         \* how far the transaction came on the ledger, and its result
    polls

\* What the ledger has no part in.
off == <<request, stage, instructions, todo, accounts, estimated, message, units, polls>>
vars == <<off, ledger>>

Pending == [level |-> "none", result |-> "none"]

-----------------------------------------------------------------------------
Begin(ixs) ==
    /\ instructions' = ixs
    /\ todo' = AllMetas(ixs)
    /\ accounts' = <<>>

Init ==
    /\ request \in Requests
    /\ stage = "preview"
    /\ instructions = WithComputeBudget(request, DefaultLimit)
    /\ todo = AllMetas(instructions)
    /\ accounts = <<>>
    /\ estimated = 0
    /\ message = Unbuilt
    /\ units = 0
    /\ ledger = Pending
    /\ polls = 0

\* collect_accounts, build_message: one meta at a time.
Collect ==
    /\ stage \in {"preview", "simulate", "send"} /\ todo # <<>>
    /\ accounts' = Upserted(accounts, Head(todo))
    /\ todo' = Tail(todo)
    /\ UNCHANGED <<request, stage, instructions, estimated, message, units, ledger, polls>>

Collected(s) == stage = s /\ todo = <<>>

Stop(s) ==
    /\ stage' = s
    /\ UNCHANGED <<request, instructions, todo, accounts, estimated, message, units,
                   ledger, polls>>

\* transaction_preview, with a signature of zeros in the place of the real one; then
\* the command signs and saves (WinterWalletCli).
Bare == request                         \* mutant: previewed without the budget
Previewed == instructions
Valid ==
    /\ PayerOnlySigns(Previewed)
    /\ Sendable(Sorted(accounts), Previewed)
Preview ==
    /\ Collected("preview")
    /\ Valid
    /\ estimated' = Estimate(Sorted(accounts), Previewed)
    /\ stage' = "simulate"
    /\ Begin(WithComputeBudget(request, Ceiling))
    /\ UNCHANGED <<request, message, units, ledger, polls>>
Refuse == Collected("preview") /\ ~Valid /\ Stop("refused")

\* The next transaction is built, unless a check that comes first refuses it.
Build(check, next) ==
    /\ message' = IF check THEN Built(Sorted(accounts), instructions) ELSE message
    /\ stage' = IF check THEN next ELSE "invalid"
    /\ UNCHANGED <<request, instructions, todo, accounts, estimated, units, ledger, polls>>

\* simulate_sign_send: the transaction of the simulation.
Simulate == Collected("simulate") /\ Build(PayerOnlySigns(request), "simulating")

\* padded_compute_unit_limit
AtMost(n, max) == IF n <= max THEN n ELSE max
DividedFirst(u) ==                      \* mutant: u / 10 * 11
    AtMost(IF (u \div 10) * 11 >= MinLimit THEN (u \div 10) * 11 ELSE MinLimit, MaxU32)
Padded(u) ==
    LET padded == AtMost(AtMost(u * 11, MaxU64) + 9, MaxU64) \div 10
    IN  AtMost(IF padded >= MinLimit THEN padded ELSE MinLimit, MaxU32)

\* simulate_transaction returns.
Simulated(u) ==
    /\ stage = "simulating"
    /\ units' = u
    /\ stage' = "send"
    /\ Begin(WithComputeBudget(request, Padded(u)))
    /\ UNCHANGED <<request, estimated, message, ledger, polls>>

\* The last transaction is validated, built, signed by the payer and sent.
Send == Collected("send") /\ Build(Sendable(Sorted(accounts), instructions), "sent")

\* The simulation or a call to the node fails.
Fail ==
    \/ stage = "simulating" /\ Stop("unsimulated")
    \/ stage = "sent" /\ Stop("failed")

\* confirm_transaction: what is asked for may not be known to the node.  The level
\* "finalized" is taken like "confirmed".
AnyLevel == ledger.level # "none"       \* mutant: "processed" is good enough
Enough == ledger.level = "confirmed"
Poll ==
    /\ stage = "sent" /\ polls < MaxPolls
    /\ polls' = polls + 1
    /\ \/ UNCHANGED stage
       \/ ledger.level # "none" /\ ledger.result # "ok" /\ stage' = "failed"
       \/ Enough /\ ledger.result = "ok" /\ stage' = "confirmed"
    /\ UNCHANGED <<request, instructions, todo, accounts, estimated, message, units, ledger>>
TimeOut == stage = "sent" /\ polls = MaxPolls /\ Stop("timeout")

-----------------------------------------------------------------------------
\* The ledger, as far as the pipeline sees it: a transaction that needs more than
\* its limit fails; what was only processed may be undone by a fork.
Submitted == stage \in {"sent", "confirmed", "failed", "timeout"}
Execute(cost) ==
    /\ Submitted /\ ledger.level = "none"
    /\ ledger' = [level  |-> "processed",
                  result |-> IF cost > AtMost(message.body[1].limit, Ceiling)
                             THEN "starved" ELSE "ok"]
    /\ UNCHANGED off
Confirm ==
    /\ ledger.level = "processed"
    /\ ledger' = [ledger EXCEPT !.level = "confirmed"]
    /\ UNCHANGED off
Fork ==
    /\ ledger.level = "processed"
    /\ ledger' = Pending
    /\ UNCHANGED off

\* It needs up to a tenth more than it needed when it was simulated.
LikeSimulated(cost) == cost <= Ceiling /\ cost * 10 <= units * 11

Next ==
    \/ Collect \/ Preview \/ Refuse \/ Simulate
    \/ \E u \in Units : Simulated(u)
    \/ Send \/ Fail \/ Poll \/ TimeOut
    \/ \E cost \in Costs : LikeSimulated(cost) /\ Execute(cost)
    \/ Confirm \/ Fork

Spec == Init /\ [][Next]_vars

-----------------------------------------------------------------------------
\* The estimate, made before signing, is the size of what is sent; so a signed
\* transaction is never too large.
EstimateIsExact ==
    stage = "sent" => estimated = WireSize(message) /\ WireSize(message) <= SizeLimit

\* Once the preview was valid, no check of the pipeline refuses the transaction: a
\* position is not burned for a transaction that can not be sent.
PreviewDecides == stage # "invalid"

\* Every instruction finds its program and its accounts behind their indexes, with
\* at least the privileges it asked for; no key has a privilege that no instruction
\* asked for; and the payer pays.
MessageMeansInstructions ==
    stage \in {"simulating", "sent"} =>
        /\ message.keys[1] = Payer
        /\ \A k \in DOMAIN instructions :
              LET ix == instructions[k]
                  enc == message.body[k]
              IN  /\ message.keys[enc.program + 1] = ix.program
                  /\ \A j \in DOMAIN ix.accounts :
                        LET at == enc.accounts[j] + 1
                            m == ix.accounts[j]
                        IN  /\ message.keys[at] = m.key
                            /\ m.signer => SignerAt(message, at)
                            /\ m.writable => WritableAt(message, at)
        /\ \A k \in DOMAIN message.keys :
              LET asks == {m \in ToSet(AllMetas(instructions)) : m.key = message.keys[k]}
              IN  /\ SignerAt(message, k) => \E m \in asks : m.signer
                  /\ WritableAt(message, k) => \E m \in asks : m.writable

\* The limit the simulation suggests is enough for a transaction that needs up to a
\* tenth more, for every answer of a node, huge ones included.
NeverStarved == ledger.result # "starved"

\* What the command line reports as successful is executed for good.
ConfirmedIsExecuted ==
    stage = "confirmed" => ledger = [level |-> "confirmed", result |-> "ok"]
=============================================================================
