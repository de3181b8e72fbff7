# Winterwallet: specifications, model checking and proofs

Winterwallet keeps SOL and tokens in an account that only a Winternitz one-time
signature can move. This directory holds TLA+ models of the on-chain program,
of the command line that signs for it and of the pieces both are built from,
TLC configurations that check them on small instances, and TLAPS proofs of what
holds for every instance. All paths are relative to the repository root.

## The system

| part | code | state it keeps | operations |
|---|---|---|---|
| on-chain program | `program/src` | one account per wallet: id, root, bump, lamports | Initialize, Advance (with inner calls), Withdraw, Close |
| mnemonics | `core/src/keypair.rs` | none | generate, validate, derive |
| signing keys | `core/src/keypair.rs` | position `(wallet, parent, child)` | derive, sign_and_increment, increment |
| signatures | `core/src/privkey.rs`, `signature.rs`, `pubkey.rs` | none | sign, recover, merklize |
| signing session | `client/src/wallet.rs` | an advance: unsigned, signed, persisted | plan, sign, persist, send |
| encodings | `client/src/instruction.rs`, `plan.rs`, `preimage.rs`, `transaction.rs` | none | payload, preimage, message size |
| state store | `cli/src/state.rs` | state file and lock file per wallet | load, save, acquire_lock |
| commands | `cli/src/commands` | one process per command | init, withdraw, transfer, close, recover |
| RPC pipeline | `cli/src/helpers.rs` | accounts collected, simulated units, polls | preview, simulate, pad, build, send, confirm |
| TypeScript SDK | `sdk/ts/src` | mutable plan | the client once more, and version 0 transactions |

A command takes the lock of the wallet, loads the position, reads the account
from an RPC node, checks that the root of the key at that position is the root
of the account, signs, saves the next position, and only then shows the
signature: first in a simulation, then in a transaction. The program replaces
the stored root, recovers the root from the signature and compares, then runs
the signed inner instructions with the wallet as a signer.

What is hard: a key may sign one message only, while processes run side by
side, crash between any two steps, read stale accounts, give up while their
transaction is still valid, and the user may lose a state directory or run
recover; and an Advance may call the program again from inside.

### What makes each part correct

- **On-chain program.** It calls into itself: the inner instructions of an
  Advance run with the wallet as a signer and may be Advances, Withdraws and
  Closes of this or another wallet. A root must be accepted once, also when it is
  replaced in a nested call; lamports must be neither made nor lost when source
  and destination are the same account; a wallet must keep its rent, a closed one
  must stay closed; and only what a key holder signed may run or move funds.
- **Signing keys.** `sign_and_increment` moves the position on its own, the
  client predicts the move (`SigningPosition::next`) and stores the prediction:
  the two must agree at both carries and at the end, and no position may come
  twice.
- **Commands.** The position is read from a file, the root from an RPC node that
  may lag, and the file is replaced before the signature is shown. A position
  must show one message, the file must be past every shown position, and the
  lock must not outlive a command, which ends unless it waits for an RPC node.
- **State store.** The file is replaced through a temporary file named after the
  process id. It must never be torn, and a position that `save` acknowledged must
  survive a power loss.
- **Encodings.** The client writes payload and account list side by side, the
  program reads them with two cursors. They must describe the same calls, with
  nothing left over; what the encoder accepts the decoder should not refuse once the
  position is burned. The signature covers both as one string of bytes, and what is
  accepted must be what was signed. The size of a transaction is estimated before it is signed and
  must be the size that is sent; no account may get a privilege nobody asked for.
  A plan outlives the instructions it was made from, which their owner may change:
  what is submitted must be what was signed.
- **RPC pipeline.** The transaction is built three times, with different compute
  limits. What the preview accepted must not be refused once the position is burned;
  the limit taken from the simulation must be enough; and `confirmed` must mean that
  the ledger executed it.
- **Mnemonics.** Generation knows one length and validation five. A mnemonic that is
  accepted must be what generation makes of its entropy.
- **Signatures.** A signature must verify for its digest and, however its scalars
  are hashed further, for no other; the one-pass Merkle root must be the tree the
  comment describes and stay within its stack.

The hazards that go with these, each at its line and with the properties that
cover it, are in `PROJECT.json`.

## The modules

| module | models | state and actions |
|---|---|---|
| `WinterWalletProgram` | `program/src/instructions/*.rs` | ledger, call stack of the running transaction, histories; one action per instruction, the end of an Advance, commit and abort |
| `WinterWalletCli` | `cli/src/commands`, `cli/src/helpers.rs`, `client/src/wallet.rs` | state file, what a power loss may leave of it, and lock per host; program counter and locals per process, signatures shown, transactions in flight, the ledger as RPC nodes show it; one action per step of a command between which it can crash |
| `OneTimeSigner` | what the command line promises | a counter that only grows and, behind it, at most one message per position |
| `StateStore` | `cli/src/state.rs` | file, temporary files, what a power loss may leave, lock; one action per system call |
| `DurablePosition` | what the state store promises | a position replaced at once, and what a power loss may bring back |
| `AdvancePayload` | `client/src/instruction.rs`, `program/src/instructions/advance.rs` | encoder as operators, decoder as a machine over both cursors |
| `AdvancePlan` | `client/src/plan.rs`, `client/src/preimage.rs`, `sdk/ts/src/plan.ts`, `cli/src/commands` | the plan, the caller's instructions beside it, the preimage signed, the instruction and the message; one action per step from plan to inner calls, and callers that change what they passed |
| `AccountMetas` | `client/src/transaction.rs`, `cli/src/helpers.rs` | operators only: account metas with their privileges, how they are collected without doubles, ordered and chosen from |
| `TransactionMessage` | `client/src/transaction.rs`, `cli/src/helpers.rs` | operators only: accounts collected, estimate, message, what the message means to the runtime |
| `SendPipeline` | `cli/src/helpers.rs` | request, compute limit, collected accounts, units, polls, ledger; one action per step from preview to confirmation |
| `VersionedTransaction` | `sdk/ts/src/transaction.ts` | operators over the pipeline's accounts: the division over lookup tables and its size |
| `Mnemonic` | `core/src/keypair.rs` | words and bits read, one action per word of `validate` |
| `SigningPosition` | `core/src/keypair.rs`, `client/src/wallet.rs` | the position held, the signatures returned, the panic at the end |
| `Keypair` | `core/src/keypair.rs` | the two above in sequence: no key pair without a valid mnemonic |
| `Merklize` | `core/src/pubkey.rs` | subtree in hand and stack |
| `WinternitzSignature` | `core/src/privkey.rs`, `core/src/signature.rs` | the height of every scalar on its chain, then the merklizing of the recovered key |

How they compose:

- `WinterWalletCli` is the composition of processes, hosts, RPC nodes and ledger, and
  implements `OneTimeSigner` (checked). The file of each of its hosts is a
  `DurablePosition` register (theorem `UsesRegister`), and `StateStore`, the system
  calls of `save` and `load`, implements that register (checked, and theorem
  `StoreImplementsRegister`). A save is two steps in it: the file is replaced, then
  synced, and a power loss between them may bring the old position back. It takes the
  program as `Accepts` and `NextRoot`, whose details are in `WinterWalletProgram`, and
  a position as a number, whose carries are in `SigningPosition`.
- `TransactionMessage` and `AdvancePlan` extend `AccountMetas`, so that the keys of a
  message mean the same in both.
- `AdvancePlan` extends `AdvancePayload` and instantiates `TransactionMessage`, so
  that one behaviour runs from the instructions a command asks for over encoder,
  preimage and message to the decoder and the inner calls of the program.
- `SendPipeline` extends `TransactionMessage`, `VersionedTransaction` extends
  `SendPipeline`; `WinternitzSignature` extends `Merklize`; `Keypair` extends
  `Mnemonic` and `SigningPosition`.

The `MC...` modules give the small instances of the runs. The `...Proofs` modules
hold the theorems, `FoldFacts` the lemmas on sums and lists they share. A definition
with the comment `mutant:` is a plausible mistake in the definition below it; no
specification uses it. Putting it in the place of the correct definition makes TLC
report the property listed with it in `PROJECT.json`, so each property is known to
depend on the code it is about.

## The runs

| run | question | instance |
|---|---|---|
| `program` | Over nested, altered, repeated and aborted transactions: are lamports conserved, roots accepted once, closed wallets gone, and only what was signed run? | 2 wallets, a payer and a receiver, rent 2, three wallet keys, call stack of 4; the transactions listed in `MCWinterWalletProgram`, Advances with other bytes, roots, wallets and numbers of accounts than were signed among them |
| `cli_one_time` | Does a host with concurrent, crashing commands show one message per position, over power losses, and does every command give its lock back unless its RPC node stays silent? | 1 host, 2 processes, init, two payments and a close, positions 0..4, RPC answers that are stale or never come |
| `cli_many_hosts` | When two hosts share the mnemonic, recover is run and state directories are lost, does the ledger still execute one message per root? | 2 hosts with a process each, 2 payments (symmetric), positions 0..3; 1.9 million states |
| `cli_progress` | Does a persistent operator with recover get a live wallet moved past a burned position? | 1 process, 1 payment, positions 0..2, stale answers, power losses |
| `cli_recover_reuse` | Does the rule of one message per position survive recover? It does not, see below. | 1 host, 2 payments, positions 0..3 |
| `cli_refused_init` | Is a wallet that init reports as initialized initialized? It is not always, see below. | 1 host, 1 payment |
| `positions` | Is exactly a BIP-39 mnemonic accepted; do key pair and client agree on every move, does a position come once, and is a key of low indexes used once? | words of 5 bits, bytes of 2, one bit of checksum for 4 of entropy, mnemonics of 1 and 2 words; indexes of two bits, a key pair resumed at any of the 16 positions, 2 messages (symmetric) |
| `store` | Does the file stay whole, and what was saved stay saved, over failing calls, kills and power losses? | 2 processes, 3 positions |
| `payload` | From plan to inner calls: is what is submitted what was signed, invoked what was planned, with the privileges planned; and does the program accept only what is an encoding and was signed? | bytes of 4 values, addresses of 2 bytes; plans of up to 4 instructions, those of withdraw, close and transfer among them, with a token program that is one and one that is not; arbitrary payloads of up to 5 bytes with up to 3 accounts, and signatures of the same bytes divided elsewhere |
| `message` | Is the size estimated before signing the size sent, does a preview decide, is the limit enough, does confirmed mean executed; and is the version 0 estimate exact? | 4 keys and the budget program, 4 values of a byte, compact digits of base 4, 300 bytes, a compute ceiling of 40, 2 polls, up to 2 lookup tables |
| `verification` | Does a signature verify for its digest only, however it is hashed further, and does one pass compute the documented tree within its stack? | 3 digits of base 3, a checksum of two digits; and the even N from 16 to 32 |
| `sdk_plan` | Does a plan of the TypeScript SDK submit what it signed? It does not always, see below. | as `payload`, TypeScript callers change their instructions too |

The bounds are chosen so that each limit in the code is met and passed in both
directions. Four positions (five with a close) are the shortest line on which a wallet
is initialized, paid from, has a position burned, and is paid from or closed again;
three are enough to burn one and move past it. A third process would only wait for the
lock that two already contend for. The largest run, `cli_many_hosts`, asks about the
ledger alone and is without power losses, so that `disk` and `exposed` decide nothing;
its VIEW leaves the two out. Theorem `OncePerRoot` covers the losses of power as well.
A call stack of 4 admits an Advance within an Advance within a transaction, with an
instruction of its own. Two-bit indexes roll child into parent, parent into the panic,
and both over the bit hardening sets; since a key pair may be resumed anywhere, each of
those is met from every start. Entered in `positions` are all mnemonics of one word, those
of two with eight first words, and some of unknown words or of another length; the code
never looks into a message, so the two messages are symmetric. A base of 3 or 4 makes every length need a
second digit. With words of 5 bits and bytes of 2, the longer mnemonic has a checksum
of a whole byte and the shorter one of half a byte, as 24 and 12 words have. The units
a simulation answers are nothing, little, the ceiling and close to the end of a u64. N
from 16 to 32 is not a sample but what the code accepts.

Addresses of two bytes in `payload` are short enough for a payload to begin with the
bytes of one, so that all divisions of the same signed bytes into accounts and payload
occur. In `program` an encoding stands for itself: `Decoded` gives the instructions it is
read as for a number of accounts, and one encoding has a second reading. `MaxPassthrough`
is 9 there, so that lists of up to three instructions fit and one number of accounts does
not.

`CHECK_DEADLOCK FALSE` stands where the system may stop: a command line out of
positions with nothing in flight, a key pair that panicked or a mnemonic refused, a
payload decoded or refused, a transaction confirmed, failed or given up, a signature
hashed to its end and merklized. The other two models, `program` and `store`, never
stop and are checked for deadlock.

The bound that belongs to the models and not to the code is `MaxPosition`, beside the
instances' sets. `MaxPassthrough` and `MaxCpi` are limits of the code made small.
`MaxPolls` is the 60 of `confirm_transaction`. `MaxDepth` is `--max-depth` in
`WinterWalletCli` and the height of the runtime's call stack in `WinterWalletProgram`,
and the merklizer's stack in `Merklize`.

### Fairness

`FairSpec` (for `LockReleased`): a running command takes its next step or ends, unless it
waits for an answer of an RPC node (`Waits`). The kernel schedules the process, so this
much comes for free; but `rpc_post` (`cli/src/helpers.rs:76`) sets no time limit and the
HTTP client has none of its own, so nothing is assumed of a command that is in it.
`LockReleased` says accordingly that the lock of a host comes free again and again unless
a command waits for one answer for ever (`SilentNode`): failing, being refused, crashing,
never seeing its transaction confirmed and losing power do not keep it. A command
whose node stays silent keeps the lock until the operator ends it.

`PersistentOperator` (for `KeepsMoving`): the operator starts recover and the advance
commands again and again, and no step of them, of the RPC nodes or of the ledger
fails every time it is tried. This is strong fairness, because each step is disabled
again whenever a command ends early. It includes that the operator interrupts a command
whose RPC node does not answer. It is what an operator can reasonably do;
nothing in the code does it for them. Without recover the property fails: one burned
position puts the file ahead of the ledger for good.

### Disagreements found

- `cli_recover_reuse`: `core/src/keypair.rs:15` says each position must sign at most
  one message. `recover` saves the position of the root on the ledger, whatever
  signatures of that position were already shown. A withdraw that was simulated and
  did not land, then recover, then a withdraw to somebody else: two messages under
  one key. This is also the procedure `cli/src/commands/withdraw.rs:156` suggests.
- `cli_refused_init`: `init` decides from the state file alone, which it saves before
  it sends. After a simulation that failed, no account exists, and every later init
  reports the wallet as already initialized.
- `sdk_plan`: `sdk/ts/README.md:45` says that an `AdvancePlan` owns payload and accounts,
  so that one cannot sign one ordering and submit another. Its `createInstruction`
  (`sdk/ts/src/plan.ts:63`) encodes the inner instructions again instead, whose objects
  the caller still holds: a caller that changes one after `digest()` submits what it
  did not sign, and the position is burned. The Rust plan keeps the same promise, which
  run `payload` shows with callers that change what they passed.

Observed without a run of its own: `index | 0x8000_0000` maps the indexes from 2^31
on to the keys of the lower ones (`core/src/keypair.rs:199`), so
`KeyOnceBelowHalf` carries its condition; and the entry of the state directory in its
parent is not synced when it is first made (`cli/src/state.rs:48`), so
`SavedIsDurable` and `DurablePosition` exempt the loss of that whole directory; the
words of a mnemonic are validated apart from their separators, but the seed is derived
from the text as entered, so two spaces are another wallet (`core/src/keypair.rs:164`);
and `sdk/ts/README.md` documents a `createAdvancePlan` that the SDK does not have.
`transfer` takes any address as its token program (`cli/src/commands/transfer.rs:80`), and
the encoder does not ask whether an instruction's program is one; the program does
(`program/src/instructions/advance.rs:171`), when the position is burned. So
`EncodedIsInvoked` names that as the one refusal of a plan the encoder accepted. The
preimage is a concatenation without the number of addresses in it
(`program/src/instructions/advance.rs:122`), so it is the number of accounts that arrive
which says where the payload begins; `AcceptedIsSigned` and `OnlySignedRuns` therefore
say that what is read is what was signed under the condition that this number is the
signed one.

## What is idealised

- Hashes are injective: PBKDF2 and HMAC-SHA512 in `SigningPosition` (a key is its path
  of hardened indexes), SHA-256 in `Merklize` (a hash is the tree under it), in
  `WinternitzSignature` (a chain value is the number of hashes) and in `AdvancePlan` (a
  digest is its preimage). What is hashed are the concatenated bytes of the preimage's
  parts, in the program's model and in `AdvancePlan`. Only the parts before the addresses,
  which are of fixed width, are kept apart. `Mnemonic` has a digest of its own, of a few bits.
- A signature in `WinterWalletProgram` is its preimage and verifies when the program
  rebuilds the same bytes, whatever accounts and payload it rebuilds them from. Beside the
  bytes it remembers how many accounts its holder meant, which only the properties read.
  What a number of accounts and bytes are decoded to is an operator there (`Decoded`);
  the decoder is in `AdvancePayload`. A root is the position of its key. What a Winternitz
  signature adds to that is `OnlySignedDigest`.
- A signed preimage moves its wallet to a later key, as the clients build it; the
  program itself does not know the order of keys.
- The payer of an Initialize is an account of a user. For an address that pays for
  itself the runtime would refuse the missing rent.
- The Solana runtime (rollback, dropping of empty accounts, signers of a call, the
  system program), the RPC nodes and the file system are external and modelled as
  far as the code relies on them. A renamed file is old or new after a power loss;
  data behind a name is whole only if it was synced.
- In `WinterWalletCli` a save replaces the file in one step and syncs it in another;
  the system calls are in `StateStore`, and `DurablePosition` is between the two.
- `TransactionMessage` keeps sizes, indexes and privileges and leaves the bytes out. How
  the runtime reads privileges off a header, and grants them to a call, is external, as
  is the compiler of web3.js that `VersionedTransaction` compares the SDK's estimate with.
- In `SendPipeline` the transaction needs at most a tenth more than its simulation did,
  the reserve the code allows for; `NeverStarved` is about the arithmetic of the limit.

## What is proved

All theorems are for every value of the constants that satisfies the modules'
assumptions. `PROJECT.json` lists them with the property each states. Every invariant
and action property that a passing run checks is stated by a theorem, and so are the
refinements of `OneTimeSigner` and of `DurablePosition`. Each leaf of the proofs goes
through in a quarter of the time the prover allows it by default
(`tlapm --stretch 0.25`).

### On-chain program: `WinterWalletProgramProofs`

`ProgramType`, `WalletsKeepRent`, `RecordsAtHome`, `ClosedGone`, `RootsOnce`. The
properties alone are not inductive, because an abort restores a ledger the running
transaction no longer shows; so `LedgerInv` says of both the running and the saved
ledger that records lie at their addresses with their rent, that accepted roots are
behind stored ones, and that closed wallets hold nothing. One lemma per instruction
shows it kept. `RootsOnce` follows from it: a frame is pushed by an Advance only, whose
root is the stored one.

- `SignedListsOnly` looks at the whole call stack: what each frame has left is an end of
  a list its holder's signature stands for (`EndsOfSigned`). That is the list that was signed if the
  number of accounts is the signed one, and otherwise a reading of the signed bytes with
  another number; no list comes from bytes that were not signed. A nested Advance takes the head of one
  list and pushes a frame with another, and the ends below it stay ends.
- `NothingWithoutAdvance`: a frame acts for key pairs and for wallets whose signature was
  accepted in this transaction (`SignersKnown`), and only a signer pays, withdraws or
  closes; so any other wallet has its record and at least what it had before.
- `NoLamportsMadeOrLost`: `TotalInv` says of the running and of the saved ledger that
  they sum up to the initial funds. Each instruction changes the sum of two accounts by
  nothing; when both are the same account it is a step of its own in the proof.

### Commands: `WinterWalletCliProofs`

`TypeCorrect` for any number of hosts and processes; `OneTime`, `Burned` and `NotAhead`
under `SingleSigner`: one host, no recover, no lost state directory, which are the
conditions `cli_recover_reuse` shows to be needed. Power may fail. The invariant
`OneTimeInv` follows a position from the lock over the file to the ledger: a running
command holds the lock alone (`CommandUnderLock`), so what it loaded is still in the
file (`LoadedStillCurrent`), what it saved is behind the file and not shown
(`SavedBehindFile`), what is in flight was saved (`InflightBehindFile`). What a power
loss may leave includes the file (`FileOnDisk`) and, once the save is synced, only
positions past the one signed with.

- `CliImplementsSigner`: under `SingleSigner`, with a host at all, every step of the
  commands is a step of `OneTimeSigner` or leaves it alone. The abstract counter is the
  lowest position a power loss can leave behind, so a position counts as reserved when
  the save is synced and not when the file is replaced; `SignerInv` adds to `OneTimeInv`
  what that needs: until the sync the position in use may still come back
  (`StillOnDisk`).
- `OncePerRoot` needs none of that: while no wallet is closed, the ledger executes one
  message under one root for any number of hosts with one mnemonic, with recover, lost
  state directories and power losses, because the root only moves forward (`LedgerInv`).
  (A closed wallet may be initialized anew at its first root.)
- `UsesRegister`: without a lost directory the file of every host is a `DurablePosition`
  register.

### Positions, mnemonics and store: `KeypairProofs`, `StateStoreProofs`

`PositionType`, `OnePerPosition`, `OnePerLowKey`, `NextPredicts`, for indexes of any
width and a key pair resumed anywhere: the key pair has passed every position it signed with (`Passed`), in the
lexicographic order of parent and child.

- `AcceptsDocumented`, for words and bytes of any width, any lengths and any digest.
  The invariant (`ReadInv`) says that the bits read so far are those of the words read
  so far, and their number is what those words are as digits (`WordsRead`); so what is
  compared at the end are the entropy and the checksum of the number the property
  speaks of. It rests on two facts about numbers: one is determined by its digits, and
  the bits cut off its end are its remainder. What is generated is accepted because
  cutting bits into words and unpacking the words gives the bits again; that nothing
  else of that length is accepted needs the other direction.
- `KeypairSigns`: a key pair made from a mnemonic implements the signing positions,
  so what is proved of positions holds behind validation.

`StoreType`, `Untorn`, `Durable`, and `StoreImplementsRegister`, by which each step of
the store is a step of `DurablePosition` or leaves it alone. The invariant adds that one
process saves at a time (`HolderSaves`), how far its temporary file has come
(`SaveInProgress`), and that nothing but the acknowledged position can be on the disk
(`AckedKept`).

### Message and RPC pipeline: `SendPipelineProofs`

`PreviewIsDecisive`, `SentSizeWasEstimated`, `MessageMeansWhatWasAsked`, `NeverRunsOut`,
`ReportedIsExecuted`. The first half of the module is about the message as a function of
the instructions: `Only` keeps the accounts of one privilege class in their order, so
the four classes `Sorted` puts one behind another are the collected accounts again, each
once; `upsert` keeps keys unique and adds privileges (`Collects`, `Gathered`); the index
of a key fits a byte when `Indexable` says so; and the size of the built message is the
sum the estimate forms. None of this depends on the compute limit but through
an instruction of constant size, which is why the estimate for the preview, made with
limit 0, is the size that is sent. `PipeInv` says that at each stage the accounts
collected so far are those of the part of the metas already read (`ProgressInv`), that the
message is built from them (`BuiltInv`) and that the preview has passed
(`ApprovedInv`). `LedgerInv` adds what the polls have seen: `confirmed` is only
reported when the ledger executed the transaction.

`DivisionIsExact` is about version 0 transactions, for any lookup tables. The SDK looks
every account up once, in a map from key to first table and index; web3.js goes through
the tables and drains from what is left whatever the table at hand has. After `n`
tables it has drained exactly the accounts whose first table is among them
(`DrainedUpto`), in the order the SDK lists them, because `Place` is the first of a
key's places and the keys of collected accounts are distinct. So both make lookups for
the same tables with lists of the same length, and the size is the same sum.

### Payload and plan: `AdvancePlanProofs`

The module proves about plans of any length, over bytes of any number of values.

- `CursorsStayInside`, `AcceptsWhatWasSigned`, also for payloads nobody encoded: what the
  decoder has consumed is the encoding of what it invoked, in the payload and in the
  account list at once (`ReadInv`). It is accepted only when both are used up. The bytes
  were signed because verification compares them (`SignedInv`); and two lists of equally
  many addresses with the same spelling are the same (`SameSpelling`), because addresses
  have one width, so the payloads behind them are the same too.
- `NoOtherSigner`: what is created comes out of the encoder, which drops the signer
  flag of every account (`ComposedInv`), so the payer of the transaction alone signs.
- `SubmitsWhatWasSigned`, `PlansAreInvoked`, `PlannedPrivileges` are stated under
  `Careful`: callers of the TypeScript library leave the instructions they passed alone.
  Run `sdk_plan` shows that they need it; callers of the Rust library may do what they
  like. The instruction created is then the one kept at signing (`OwnedInv`), and at
  each point of the decoder the plan is what was invoked followed by a rest whose
  encoding is what is still to be read (`FollowsInv`), so no limit of the decoder is
  met that the encoder let pass. What remains is the check the encoder lacks, that the
  next program is one.
- `PlannedPrivileges` follows an account further, through the message: the privileges
  the runtime reads off its position in the header are those collected for its key
  (`CollectedPrivileges` in `FoldFacts`), which are the payer's, the wallet's and what
  the plan asks for it anywhere.

### Signatures: `VerificationProofs`

- `OnePassComputesTree`, `NoStackOverflow`, for any number of scalars that compiles. The
  invariant reads the stack off the binary representation of the number of scalars
  taken: one subtree waits for each bit that is set (`Waiting`), and the subtree in
  hand is complete at its level (`CarryInv`), which the carry of a binary increment
  preserves. Drained at the end, a subtree without a neighbour is paired with itself,
  as the last node of an odd level is in the tree of the comment.
- `NoDigestButTheSigned`: a scalar that is hashed further only gets higher, so a
  signature verifies for another digest only if no digit of that one calls for fewer
  steps. With a checksum over all digits that is impossible: a message digit that
  grows makes the checksum shrink (`SignedInv`, and the facts on sums in `FoldFacts`).

### What is only model-checked

- `LockReleased` and `KeepsMoving` are liveness under fairness. Their proofs would go
  through `ENABLED`, which the prover does not handle, so runs `cli_one_time` and
  `cli_progress` are what there is for them.
- `cli_recover_reuse`, `cli_refused_init` and `sdk_plan` are counterexamples.
- The instances of the runs themselves: that `Compiled`, `Merklizable` and the other
  recursive functions have the values they have there is computed by TLC; the proofs
  only use what follows from their definitions.

### What is left

The decoding of accounts as a machine over bytes, with the versions and lengths it
accepts, beside what the program writes. So far a record is taken as a whole.
