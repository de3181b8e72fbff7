-------------------------- MODULE WinterWalletCli --------------------------
(***************************************************************************)
(* The command line (cli/src) around one wallet: processes on one or more  *)
(* hosts run init, withdraw, transfer, close and recover.  A command takes *)
(* the host's lock on the wallet, reads the state file, asks an RPC node   *)
(* for the wallet's root, signs, saves the next position, and only then    *)
(* simulates, sends and waits.  Any command may end early: an error, a     *)
(* timeout or a crash; a host may lose power, and with it what its store   *)
(* replaced and did not sync.  The ledger takes transactions late or never.*)
(*                                                                         *)
(* The state file of a host is a register of module DurablePosition, which *)
(* module StateStore implements.                                           *)
(*                                                                         *)
(* A position stands for its key pair and for the root of that key pair    *)
(* (module SigningPosition keeps the widths).  Position 0 signs the        *)
(* constant tag of Initialize; the wallet starts at root 1.                *)
(***************************************************************************)
EXTENDS Integers, FiniteSets, FiniteSetsExt

CONSTANTS
    Host,       \* machines with a state directory of their own
    Process,    \* command-line processes
    HostOf,     \* HostOf[p]: the machine process p runs on
    Message,    \* what an Advance is asked to do: withdraw, transfer, close
    Closing,    \* the messages that close the wallet
    InitTag,    \* the constant preimage of Initialize
    Command,    \* which of "init", "advance", "recover" are run
    MaxPosition,\* the last position, a bound of the model
    MaxDepth,   \* --max-depth of recover
    Lagging,    \* TRUE when an RPC node may answer from an older state
    StateLoss,  \* TRUE when a state directory may be lost
    PowerFails  \* TRUE when a host may lose power

Absent == -1    \* no state file, no wallet account
Position == 0..MaxPosition

ASSUME CliAssumption ==
    /\ HostOf \in [Process -> Host]
    /\ Closing \subseteq Message
    /\ InitTag \notin Message
    /\ Command \subseteq {"init", "advance", "recover"}
    /\ MaxPosition \in Nat \ {0}
    /\ MaxDepth \in Nat
    /\ Lagging \in BOOLEAN /\ StateLoss \in BOOLEAN /\ PowerFails \in BOOLEAN

VARIABLES
    file,       \* file[h]: the position in the state file of h, or Absent
    disk,       \* disk[h]: what the state file may be after a power loss
    lock,       \* lock[h]: the processes of h that hold the wallet's lock
    pc,         \* pc[p]: how far the command of p has come
    cmd,        \* cmd[p]: the command p runs
    msg,        \* msg[p]: the message it signs
    loaded,     \* loaded[p]: the position it signs with
    seen,       \* seen[p]: the root the RPC node answered
    exposed,    \* exposed[q]: messages whose signature under q left a host
    inflight,   \* transactions the ledger may still take
    chain,      \* the wallet's root on the ledger, or Absent
    views,      \* the roots an RPC node may answer with
    executed    \* history: executed[q], messages the ledger took under root q

procVars == <<pc, cmd, msg, loaded, seen>>
chainVars == <<inflight, chain, views, executed>>
storeVars == <<file, disk>>
vars == <<storeVars, lock, procVars, exposed, chainVars>>

-----------------------------------------------------------------------------
Labels == {"idle", "locked", "loaded", "fetched", "signed", "replaced",
           "persisted", "simulated", "sent"}

Init ==
    /\ file = [h \in Host |-> Absent]
    /\ disk = [h \in Host |-> {Absent}]
    /\ lock = [h \in Host |-> {}]
    /\ pc = [p \in Process |-> "idle"]
    /\ cmd = [p \in Process |-> "init"]
    /\ msg = [p \in Process |-> InitTag]
    /\ loaded = [p \in Process |-> 0]
    /\ seen = [p \in Process |-> Absent]
    /\ exposed = [q \in Position |-> {}]
    /\ inflight = {}
    /\ chain = Absent
    /\ views = {Absent}
    /\ executed = [q \in Position |-> {}]

\* try_lock_exclusive fails at once when another process holds the lock.
LockIgnored(h) == TRUE                  \* mutant: the result of the lock is dropped
LockFree(h) == lock[h] = {}

Goto(p, l) == pc' = [pc EXCEPT ![p] = l]

\* WalletLock is an flock: the kernel drops it with the process.
Keeps(h, p) == lock[h]                  \* mutant: a lock file a crash leaves behind
Releases(h, p) == lock[h] \ {p}

\* The process ends: main returns, the lock is dropped, what it knew is gone.
End(p) ==
    /\ pc' = [pc EXCEPT ![p] = "idle"]
    /\ cmd' = [cmd EXCEPT ![p] = "init"]
    /\ msg' = [msg EXCEPT ![p] = InitTag]
    /\ loaded' = [loaded EXCEPT ![p] = 0]
    /\ seen' = [seen EXCEPT ![p] = Absent]
    /\ lock' = [lock EXCEPT ![HostOf[p]] = Releases(HostOf[p], p)]

\* acquire_lock.
Start(p, c, m) ==
    /\ pc[p] = "idle"
    /\ c \in Command
    /\ m \in (IF c = "advance" THEN Message ELSE {InitTag})
    /\ LockFree(HostOf[p])
    /\ lock' = [lock EXCEPT ![HostOf[p]] = @ \cup {p}]
    /\ cmd' = [cmd EXCEPT ![p] = c]
    /\ msg' = [msg EXCEPT ![p] = m]
    /\ Goto(p, "locked")
    /\ UNCHANGED <<storeVars, loaded, seen, exposed, chainVars>>

\* init: no state file yet; position 0 signs the tag, no account is read.
InitCheck(p) ==
    /\ pc[p] = "locked" /\ cmd[p] = "init"
    /\ file[HostOf[p]] = Absent
    /\ loaded' = [loaded EXCEPT ![p] = 0]
    /\ Goto(p, "signed")
    /\ UNCHANGED <<storeVars, lock, cmd, msg, seen, exposed, chainVars>>

\* init with a state file: "wallet ... already initialized", whatever the ledger
\* says.
InitRefuse(p) ==
    /\ pc[p] = "locked" /\ cmd[p] = "init"
    /\ file[HostOf[p]] # Absent
    /\ End(p)
    /\ UNCHANGED <<storeVars, exposed, chainVars>>

\* SigningPosition::next and ensure_can_advance.
AnyPosition(q) == TRUE                  \* mutant: the overflow is not checked
HasSuccessor(q) == q + 1 \in Position

\* withdraw, transfer, close: the position is read under the lock; it must
\* have a successor.
Load(p) ==
    /\ pc[p] = "locked" /\ cmd[p] = "advance"
    /\ file[HostOf[p]] # Absent
    /\ HasSuccessor(file[HostOf[p]])
    /\ loaded' = [loaded EXCEPT ![p] = file[HostOf[p]]]
    /\ Goto(p, "loaded")
    /\ UNCHANGED <<storeVars, lock, cmd, msg, seen, exposed, chainVars>>

\* get_account: an error when the node knows no account; the plan is built.
Fetch(p, r) ==
    /\ \/ pc[p] = "loaded"
       \/ pc[p] = "locked" /\ cmd[p] = "recover"
    /\ r \in views \ {Absent}
    /\ seen' = [seen EXCEPT ![p] = r]
    /\ Goto(p, "fetched")
    /\ UNCHANGED <<storeVars, lock, cmd, msg, loaded, exposed, chainVars>>

\* The root of the key about to sign is the root the account was read with.
RootMatches(p) == seen[p] = loaded[p]

\* UnsignedAdvance::sign; the signature is still in memory only.
Sign(p) ==
    /\ pc[p] = "fetched" /\ cmd[p] = "advance"
    /\ RootMatches(p)
    /\ Goto(p, "signed")
    /\ UNCHANGED <<storeVars, lock, cmd, msg, loaded, seen, exposed, chainVars>>

\* The position written after a signature under q.
SamePosition(q) == q                    \* mutant: the position just used is saved
Successor(q) == q + 1

\* The new file is renamed over the old one; until the directory is synced a
\* power loss may bring back the old one.
Replace(p, q) ==
    /\ file' = [file EXCEPT ![HostOf[p]] = q]
    /\ disk' = [disk EXCEPT ![HostOf[p]] = @ \cup {q}]
    /\ Goto(p, "replaced")
    /\ UNCHANGED <<lock, cmd, msg, loaded, seen, exposed, chainVars>>

\* SignedAdvance::persist, init's save.
Persist(p) == pc[p] = "signed" /\ Replace(p, Successor(loaded[p]))

\* The directory is synced, save returns Ok: recover is done, the others go on.
\* When the sync fails save returns an error and the command ends (Exit), with
\* the file replaced and nothing sent.
Synced(p) ==
    /\ pc[p] = "replaced"
    /\ disk' = [disk EXCEPT ![HostOf[p]] = {file[HostOf[p]]}]
    /\ IF cmd[p] = "recover" THEN End(p)
       ELSE Goto(p, "persisted") /\ UNCHANGED <<lock, cmd, msg, loaded, seen>>
    /\ UNCHANGED <<file, exposed, chainVars>>

\* simulate_sign_send shows the signature to the RPC node before the answer,
\* success or failure, is known.
ShowUnsynced(p) == pc[p] \in {"replaced", "persisted"} \* mutant: before it is durable
MayShow(p) == pc[p] = "persisted"
Simulate(p) ==
    /\ MayShow(p)
    /\ exposed' = [exposed EXCEPT ![loaded[p]] = @ \cup {msg[p]}]
    /\ Goto(p, "simulated")
    /\ UNCHANGED <<storeVars, lock, cmd, msg, loaded, seen, chainVars>>

\* sendTransaction, with a fresh blockhash.
Send(p) ==
    /\ pc[p] = "simulated"
    /\ inflight' = inflight \cup {[pos |-> loaded[p], msg |-> msg[p]]}
    /\ Goto(p, "sent")
    /\ UNCHANGED <<storeVars, lock, cmd, msg, loaded, seen, exposed, chain, views, executed>>

PastFound(q) == q + 1                   \* mutant: the position after the match
Found(q) == q

\* recover: the child whose root is on the ledger is found within max-depth
\* and saved.
Recover(p) ==
    /\ pc[p] = "fetched" /\ cmd[p] = "recover"
    /\ seen[p] \in 1..MaxDepth
    /\ Replace(p, Found(seen[p]))

\* The command returns: confirmed, timed out after 30 s while the transaction
\* is still in flight, refused by a check above, an RPC error, or a crash.
Exit(p) ==
    /\ pc[p] # "idle"
    /\ End(p)
    /\ UNCHANGED <<storeVars, exposed, chainVars>>

-----------------------------------------------------------------------------
\* Program and ledger, as far as the command line sees them.
Root == Position \cup {Absent}
Tx == [pos : Position, msg : Message \cup {InitTag}]

NextRoot(tx) ==
    IF tx.msg = InitTag THEN 1
    ELSE IF tx.msg \in Closing THEN Absent
    ELSE tx.pos + 1

AnyTx(tx) == TRUE                       \* mutant: the stored root is not compared
Accepts(tx) == chain = (IF tx.msg = InitTag THEN Absent ELSE tx.pos)

\* A transaction is executed, possibly long after its sender gave up.
Land(tx) ==
    /\ tx \in inflight
    /\ Accepts(tx)
    /\ chain' = NextRoot(tx)
    /\ views' = (IF Lagging THEN views \cup {chain'} ELSE {chain'})
    /\ executed' = [executed EXCEPT ![tx.pos] = @ \cup {tx.msg}]
    /\ inflight' = inflight \ {tx}
    /\ UNCHANGED <<storeVars, lock, procVars, exposed>>

\* Its blockhash expires, or it is executed and fails: no effect on the wallet.
Drop(tx) ==
    /\ tx \in inflight
    /\ inflight' = inflight \ {tx}
    /\ UNCHANGED <<storeVars, lock, procVars, exposed, chain, views, executed>>

\* RPC nodes catch up.
CatchUp ==
    /\ views' = {chain}
    /\ UNCHANGED <<storeVars, lock, procVars, exposed, inflight, chain, executed>>

\* A state directory is lost: a new machine, a deleted home.
LoseState(h) ==
    /\ StateLoss
    /\ \A p \in Process : HostOf[p] = h => pc[p] = "idle"
    /\ file' = [file EXCEPT ![h] = Absent]
    /\ disk' = [disk EXCEPT ![h] = {Absent}]
    /\ UNCHANGED <<lock, procVars, exposed, chainVars>>

\* A host loses power: its processes are gone, and the state file is one of those
\* that were not yet replaced for good.
PowerLoss(h) ==
    LET Reset(f, v) == [p \in Process |-> IF HostOf[p] = h THEN v ELSE f[p]]
    IN  /\ PowerFails
        /\ \E q \in disk[h] :
              /\ file' = [file EXCEPT ![h] = q]
              /\ disk' = [disk EXCEPT ![h] = {q}]
        /\ lock' = [lock EXCEPT ![h] = {}]
        /\ pc' = Reset(pc, "idle") /\ cmd' = Reset(cmd, "init")
        /\ msg' = Reset(msg, InitTag) /\ loaded' = Reset(loaded, 0)
        /\ seen' = Reset(seen, Absent)
        /\ UNCHANGED <<exposed, chainVars>>

Proceed(p) ==
    \/ InitCheck(p) \/ InitRefuse(p) \/ Load(p)
    \/ \E r \in views : Fetch(p, r)
    \/ Sign(p) \/ Persist(p) \/ Synced(p) \/ Simulate(p) \/ Send(p) \/ Recover(p)

Next ==
    \/ \E p \in Process :
          \/ \E c \in Command, m \in Message \cup {InitTag} : Start(p, c, m)
          \/ Proceed(p) \/ Exit(p)
    \/ \E tx \in inflight : Land(tx) \/ Drop(tx)
    \/ CatchUp
    \/ \E h \in Host : LoseState(h) \/ PowerLoss(h)

Spec == Init /\ [][Next]_vars

\* The process is in rpc_post, which sets no timeout: for the account, for the
\* simulation and its blockhash, for the transaction and its, for a status.
Waits(p) ==
    \/ pc[p] \in {"loaded", "persisted", "simulated", "sent"}
    \/ pc[p] = "locked" /\ cmd[p] = "recover"

\* A running process is scheduled, so a command takes its next step or ends unless it
\* waits for an answer.  Nobody promises the answer.
FairSpec == Spec /\ \A p \in Process : WF_vars(~Waits(p) /\ (Proceed(p) \/ Exit(p)))

\* An operator who keeps running recover and the advance commands and interrupts one
\* that hangs, on a network that may fail any number of times but not always.
PersistentOperator ==
    /\ Spec
    /\ \A p \in Process :
          /\ SF_vars(Start(p, "recover", InitTag))
          /\ SF_vars(\E m \in Message : Start(p, "advance", m))
          /\ SF_vars(Load(p))
          /\ \A c \in {"advance", "recover"} :
                SF_vars(cmd[p] = c /\ \E r \in views : Fetch(p, r))
          /\ SF_vars(Sign(p)) /\ SF_vars(Persist(p)) /\ SF_vars(Recover(p))
          /\ \A c \in {"advance", "recover"} : SF_vars(cmd[p] = c /\ Synced(p))
          /\ SF_vars(Simulate(p)) /\ SF_vars(Send(p)) /\ WF_vars(Exit(p))
    /\ SF_vars(\E tx \in inflight : Land(tx)) /\ WF_vars(CatchUp)

-----------------------------------------------------------------------------
\* The state directories, the processes and the ledger are of their types.
TypeOK ==
    /\ file \in [Host -> Root] /\ disk \in [Host -> SUBSET Root]
    /\ lock \in [Host -> SUBSET Process]
    /\ pc \in [Process -> Labels]
    /\ cmd \in [Process -> {"init", "advance", "recover"}]
    /\ msg \in [Process -> Message \cup {InitTag}]
    /\ loaded \in [Process -> Position]
    /\ seen \in [Process -> Root]
    /\ exposed \in [Position -> SUBSET (Message \cup {InitTag})]
    /\ inflight \subseteq Tx
    /\ chain \in Root
    /\ views \subseteq Root
    /\ executed \in [Position -> SUBSET (Message \cup {InitTag})]

\* keypair.rs: each position must sign at most one message.  Signatures that
\* never left the process do not count.
OneTimeSignature ==
    \A q \in Position : \A m1, m2 \in exposed[q] : m1 = m2

\* A signature leaves the host only when the state file has moved past its
\* position for good: no failure after that, and no power loss, takes it back.
BurnedBeforeExposed ==
    \A q \in Position :
        exposed[q] # {} => \A h \in Host : \A d \in disk[h] \cup {file[h]} : d > q

\* The position a command read is still the one in the state file when it is
\* about to replace it: no other command of the host moved it in between.
LoadedStillCurrent ==
    \A p \in Process :
        /\ pc[p] \in {"loaded", "fetched", "signed"} /\ cmd[p] = "advance"
              => file[HostOf[p]] = loaded[p]
        /\ pc[p] = "signed" /\ cmd[p] = "init" => file[HostOf[p]] = Absent

\* What makes LoadedStillCurrent hold: a command runs under the lock of its host,
\* one command at a time, and a signature in hand is for a position not shown.
CommandUnderLock ==
    /\ \A p \in Process : pc[p] # "idle" <=> p \in lock[HostOf[p]]
    /\ \A h \in Host : \A p, r \in lock[h] : p = r /\ HostOf[p] = h

\* The ledger never gets ahead of the state file, however late a transaction lands
\* and whenever the host loses power: the wallet can be used from this host again
\* without recover once the last command's transaction landed.
LedgerNotAhead == \A h \in Host : \A d \in disk[h] \cup {file[h]} : chain <= d

\* Whatever the state directories say, and however many hosts hold the
\* mnemonic, the ledger takes at most one message under one root.
ExecutedOnce ==
    \A q \in Position : \A m1, m2 \in executed[q] : m1 = m2

\* init.rs: a wallet that init reports as already initialized was initialized.
RefusedInitIsInitialized ==
    \A p \in Process :
        pc[p] = "locked" /\ cmd[p] = "init" /\ file[HostOf[p]] # Absent
            => executed[0] # {}

\* A command keeps the lock of the wallet for ever in one case only, when an RPC node
\* it is asking never answers.  It does not when it fails, is refused or crashes, when
\* its transaction is never confirmed, or when power fails under it.
SilentNode(h) == \E p \in Process : HostOf[p] = h /\ <>[](p \in lock[h] /\ Waits(p))
LockReleased == \A h \in Host : []<>(lock[h] = {}) \/ SilentNode(h)

\* A live wallet is not bricked by burned positions: as long as it has a next
\* position, a persistent operator gets another message executed.
KeepsMoving ==
    \A q \in Position :
        (chain = q /\ q + 1 \in Position) ~> (chain > q)

-----------------------------------------------------------------------------
\* The one-time signer that a single host implements: the least position its state
\* file may name after a power loss is the counter, a saved and not yet shown
\* signature a reservation.
TheHost == CHOOSE h \in Host : TRUE
Floor == Min({IF q = Absent THEN 0 ELSE q : q \in disk[TheHost]})
Reservations ==
    [q \in Position |->
        {msg[p] : p \in {r \in Process : pc[r] = "persisted" /\ loaded[r] = q}}]

Signer == INSTANCE OneTimeSigner WITH
    Message <- Message \cup {InitTag}, Position <- Position,
    next <- Floor, reserved <- Reservations, exposed <- exposed

\* Sign, save, show implements the reservation discipline of OneTimeSigner.
ImplementsSigner == Signer!Spec
=============================================================================
