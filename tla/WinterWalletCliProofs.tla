----------------------- MODULE WinterWalletCliProofs -----------------------
(***************************************************************************)
(* Theorems about the command line, for any number of hosts, processes,    *)
(* messages and positions.                                                 *)
(***************************************************************************)
EXTENDS WinterWalletCli, FoldFacts

Signing(p) ==
    \/ pc[p] \in {"loaded", "signed", "persisted", "simulated"}
    \/ pc[p] \in {"fetched", "replaced"} /\ cmd[p] # "recover"

\* A command that has a position to sign with, or signed with one, has room for
\* the next; so has every transaction.
RoomForNext ==
    /\ \A p \in Process : Signing(p) => loaded[p] + 1 \in Position
    /\ \A tx \in inflight : tx.pos + 1 \in Position
    /\ \A p \in Process : pc[p] = "loaded" => cmd[p] = "advance"

TypeInv == TypeOK /\ RoomForNext

\* Ending a command keeps the processes and locks of their types.
LEMMA EndType ==
    ASSUME TypeInv, NEW p \in Process, End(p)
    PROVE  /\ lock' \in [Host -> SUBSET Process]
           /\ pc' \in [Process -> Labels]
           /\ cmd' \in [Process -> {"init", "advance", "recover"}]
           /\ msg' \in [Process -> Message \cup {InitTag}]
           /\ loaded' \in [Process -> Position]
           /\ seen' \in [Process -> Root]
           /\ \A q \in Process : Signing(q)' => q # p
           /\ \A q \in Process : q # p =>
                 pc'[q] = pc[q] /\ loaded'[q] = loaded[q] /\ cmd'[q] = cmd[q]
           /\ pc'[p] = "idle"
<1>1. lock' \in [Host -> SUBSET Process]
  BY CliAssumption DEF TypeInv, TypeOK, End, Releases
<1>2. /\ pc' \in [Process -> Labels]
      /\ cmd' \in [Process -> {"init", "advance", "recover"}]
      /\ msg' \in [Process -> Message \cup {InitTag}]
      /\ loaded' \in [Process -> Position]
      /\ seen' \in [Process -> Root]
  BY CliAssumption DEF TypeInv, TypeOK, End, Labels, Position, Root
<1>3. \A q \in Process : q # p =>
         pc'[q] = pc[q] /\ loaded'[q] = loaded[q] /\ cmd'[q] = cmd[q]
  BY DEF TypeInv, TypeOK, End
<1>4. pc'[p] = "idle"
  BY DEF TypeInv, TypeOK, End
<1>5. \A q \in Process : Signing(q)' => q # p
  BY <1>4 DEF Signing
<1>. QED
  BY <1>1, <1>2, <1>3, <1>4, <1>5

LEMMA InitTypeInv == Init => TypeInv
<1>. SUFFICES ASSUME Init PROVE TypeInv
  OBVIOUS
<1>1. 0 \in Position /\ Absent \in Root
  BY CliAssumption DEF Position, Root
<1>2. TypeOK
  BY <1>1, CliAssumption DEF Init, TypeOK, Labels, Tx
<1>3. RoomForNext
  BY DEF Init, RoomForNext, Signing
<1>. QED
  BY <1>2, <1>3 DEF TypeInv

LEMMA NextTypeInv == TypeInv /\ [Next]_vars => TypeInv'
<1>. SUFFICES ASSUME TypeInv, [Next]_vars PROVE TypeInv'
  OBVIOUS
<1>. USE CliAssumption
<1>1. ASSUME NEW p \in Process, NEW c \in Command, NEW m \in Message \cup {InitTag},
             Start(p, c, m)
      PROVE  TypeInv'
  <2>1. TypeOK'
    BY <1>1 DEF Start, Goto, TypeInv, TypeOK, Labels, storeVars, chainVars
  <2>2. RoomForNext'
    BY <1>1 DEF Start, Goto, TypeInv, TypeOK, RoomForNext, Signing, storeVars, chainVars
  <2>. QED
    BY <2>1, <2>2 DEF TypeInv
<1>2. ASSUME NEW p \in Process, InitCheck(p) PROVE TypeInv'
  <2>1. TypeOK'
    BY <1>2 DEF InitCheck, Goto, TypeInv, TypeOK, Labels, Position, storeVars, chainVars
  <2>2. RoomForNext'
    BY <1>2 DEF InitCheck, Goto, TypeInv, TypeOK, RoomForNext, Signing, Position, storeVars, chainVars
  <2>. QED
    BY <2>1, <2>2 DEF TypeInv
<1>3. ASSUME NEW p \in Process, Load(p) PROVE TypeInv'
  <2>1. file[HostOf[p]] \in Position
    BY <1>3 DEF Load, HasSuccessor, TypeInv, TypeOK, Root
  <2>2. TypeOK'
    BY <1>3, <2>1 DEF Load, HasSuccessor, Goto, TypeInv, TypeOK, Labels, storeVars, chainVars
  <2>3. RoomForNext'
    BY <1>3 DEF Load, HasSuccessor, Goto, TypeInv, TypeOK, RoomForNext, Signing, storeVars, chainVars
  <2>. QED
    BY <2>2, <2>3 DEF TypeInv
<1>4. ASSUME NEW p \in Process, NEW r \in views, Fetch(p, r) PROVE TypeInv'
  <2>1. TypeOK'
    BY <1>4 DEF Fetch, Goto, TypeInv, TypeOK, Labels, storeVars, chainVars
  <2>2. RoomForNext'
    BY <1>4 DEF Fetch, Goto, TypeInv, TypeOK, RoomForNext, Signing, storeVars, chainVars
  <2>. QED
    BY <2>1, <2>2 DEF TypeInv
<1>5. ASSUME NEW p \in Process, Sign(p) PROVE TypeInv'
  <2>1. TypeOK'
    BY <1>5 DEF Sign, Goto, TypeInv, TypeOK, Labels, storeVars, chainVars
  <2>2. RoomForNext'
    BY <1>5 DEF Sign, Goto, TypeInv, TypeOK, RoomForNext, Signing, storeVars, chainVars
  <2>. QED
    BY <2>1, <2>2 DEF TypeInv
<1>18. ASSUME NEW p \in Process, NEW q \in Root, Replace(p, q),
              cmd[p] # "recover" => Signing(p)
       PROVE  TypeInv'
  <2>1. TypeOK'
    BY <1>18 DEF Replace, Goto, TypeInv, TypeOK, Labels, storeVars, chainVars
  <2>2. RoomForNext'
    BY <1>18 DEF Replace, Goto, TypeInv, TypeOK, RoomForNext, Signing, storeVars, chainVars
  <2>. QED
    BY <2>1, <2>2 DEF TypeInv
<1>6. ASSUME NEW p \in Process, Persist(p) PROVE TypeInv'
  <2>1. Successor(loaded[p]) \in Root /\ Signing(p)
    BY <1>6 DEF Persist, Successor, TypeInv, RoomForNext, Signing, Root
  <2>. QED
    BY <1>6, <1>18, <2>1 DEF Persist
<1>7. ASSUME NEW p \in Process, Simulate(p) PROVE TypeInv'
  <2>1. TypeOK'
    BY <1>7 DEF Simulate, Goto, TypeInv, TypeOK, Labels, storeVars, chainVars
  <2>2. RoomForNext'
    BY <1>7 DEF Simulate, MayShow, Goto, TypeInv, TypeOK, RoomForNext, Signing, storeVars, chainVars
  <2>. QED
    BY <2>1, <2>2 DEF TypeInv
<1>8. ASSUME NEW p \in Process, Send(p) PROVE TypeInv'
  <2>1. loaded[p] + 1 \in Position
    BY <1>8 DEF Send, TypeInv, RoomForNext, Signing
  <2>2. TypeOK'
    BY <1>8 DEF Send, Goto, TypeInv, TypeOK, Labels, Tx, storeVars
  <2>3. RoomForNext'
    BY <1>8, <2>1 DEF Send, Goto, TypeInv, TypeOK, RoomForNext, Signing
  <2>. QED
    BY <2>2, <2>3 DEF TypeInv
<1>9. ASSUME NEW p \in Process, End(p), UNCHANGED <<exposed, chainVars>>,
             UNCHANGED file, disk' \in [Host -> SUBSET Root]
      PROVE  TypeInv'
  <2>1. TypeOK'
    BY <1>9, EndType DEF TypeInv, TypeOK, storeVars, chainVars
  <2>2. RoomForNext'
    <3>1. ASSUME NEW q \in Process PROVE Signing(q)' => loaded'[q] + 1 \in Position
      BY <1>9, EndType DEF TypeInv, RoomForNext, Signing
    <3>2. ASSUME NEW q \in Process PROVE pc'[q] = "loaded" => cmd'[q] = "advance"
      BY <1>9, EndType DEF TypeInv, RoomForNext
    <3>. QED
      BY <1>9, <3>1, <3>2 DEF TypeInv, RoomForNext, storeVars, chainVars
  <2>. QED
    BY <2>1, <2>2 DEF TypeInv
<1>10. ASSUME NEW p \in Process, InitRefuse(p) \/ Exit(p) PROVE TypeInv'
  BY <1>9, <1>10 DEF InitRefuse, Exit, storeVars, TypeInv, TypeOK
<1>11. ASSUME NEW p \in Process, Synced(p) PROVE TypeInv'
  <2>1. disk' \in [Host -> SUBSET Root]
    BY <1>11 DEF Synced, TypeInv, TypeOK
  <2>2. CASE cmd[p] = "recover"
    <3>1. End(p) /\ UNCHANGED file /\ UNCHANGED <<exposed, chainVars>>
      BY <1>11, <2>2 DEF Synced
    <3>. QED
      BY <1>9, <2>1, <3>1
  <2>3. CASE cmd[p] # "recover"
    <3>1. TypeOK'
      BY <1>11, <2>1, <2>3 DEF Synced, Goto, TypeInv, TypeOK, Labels, storeVars, chainVars
    <3>2. RoomForNext'
      BY <1>11, <2>3 DEF Synced, Goto, TypeInv, TypeOK, RoomForNext, Signing, storeVars, chainVars
    <3>. QED
      BY <3>1, <3>2 DEF TypeInv
  <2>. QED
    BY <2>2, <2>3
<1>12. ASSUME NEW p \in Process, Recover(p) PROVE TypeInv'
  <2>1. Found(seen[p]) \in Root
    BY <1>12 DEF Recover, Found, TypeInv, TypeOK
  <2>. QED
    BY <1>12, <1>18, <2>1 DEF Recover
<1>13. ASSUME NEW tx \in inflight, Land(tx) PROVE TypeInv'
  <2>1. NextRoot(tx) \in Root
    BY <1>13 DEF NextRoot, TypeInv, RoomForNext, Root, Position
  <2>2. TypeOK'
    BY <1>13, <2>1 DEF Land, TypeInv, TypeOK, Tx, procVars, storeVars
  <2>3. RoomForNext'
    BY <1>13 DEF Land, TypeInv, TypeOK, RoomForNext, Signing, procVars
  <2>. QED
    BY <2>2, <2>3 DEF TypeInv
<1>14. ASSUME NEW tx \in inflight, Drop(tx) PROVE TypeInv'
  BY <1>14 DEF Drop, storeVars, TypeInv, TypeOK, RoomForNext, Signing, procVars
<1>15. ASSUME CatchUp PROVE TypeInv'
  BY <1>15 DEF CatchUp, storeVars, TypeInv, TypeOK, RoomForNext, Signing, procVars
<1>16. ASSUME NEW h \in Host, LoseState(h) PROVE TypeInv'
  BY <1>16 DEF LoseState, TypeInv, TypeOK, RoomForNext, Signing, procVars, storeVars, chainVars, Root
<1>19. ASSUME NEW h \in Host, PowerLoss(h) PROVE TypeInv'
  <2>1. TypeOK'
    BY <1>19 DEF PowerLoss, TypeInv, TypeOK, storeVars, chainVars, Root, Position, Labels
  <2>2. RoomForNext'
    BY <1>19 DEF PowerLoss, TypeInv, TypeOK, RoomForNext, Signing, storeVars, chainVars
  <2>. QED
    BY <2>1, <2>2 DEF TypeInv
<1>17. ASSUME UNCHANGED vars PROVE TypeInv'
  BY <1>17 DEF vars, TypeInv, TypeOK, RoomForNext, Signing, procVars, storeVars, chainVars
<1>. QED
  BY <1>1, <1>2, <1>3, <1>4, <1>5, <1>6, <1>7, <1>8, <1>10, <1>11, <1>12, <1>13,
     <1>14, <1>15, <1>16, <1>17, <1>19 DEF Next, Proceed

\* Files, locks, processes and the ledger stay of their types (TypeOK) in every
\* behaviour of the command line, whatever commands run and whatever fails.
THEOREM TypeCorrect == Spec => []TypeOK
<1>1. TypeInv => TypeOK
  BY DEF TypeInv
<1>. QED
  BY <1>1, InitTypeInv, NextTypeInv, PTL DEF Spec

-----------------------------------------------------------------------------
\* One machine holds the mnemonic, its state directory survives, and recover is
\* not run: the conditions under which the command line alone keeps positions
\* from being used twice.
SingleSigner ==
    /\ \A g, h \in Host : g = h
    /\ "recover" \notin Command
    /\ ~StateLoss

\* What the state file is may stay on the disk.
FileOnDisk == \A h \in Host : file[h] \in disk[h]

\* A command that saved its position is behind the state file for good; nothing
\* was shown for the position of a signature that is not shown yet.
SavedBehindFile ==
    \A p \in Process :
        /\ pc[p] = "replaced" => file[HostOf[p]] = loaded[p] + 1
        /\ pc[p] \in {"persisted", "simulated"} =>
              \A d \in disk[HostOf[p]] : d > loaded[p]
        /\ pc[p] \in {"replaced", "persisted"} => exposed[loaded[p]] = {}
        /\ pc[p] = "fetched" => cmd[p] = "advance"
        /\ cmd[p] # "recover"

\* Whatever is in flight was saved for good before it was sent.
InflightBehindFile ==
    \A tx \in inflight : \A h \in Host : \A d \in disk[h] : d > tx.pos

OneTimeInv ==
    /\ TypeInv
    /\ FileOnDisk
    /\ CommandUnderLock
    /\ LoadedStillCurrent
    /\ SavedBehindFile
    /\ BurnedBeforeExposed
    /\ OneTimeSignature
    /\ InflightBehindFile
    /\ LedgerNotAhead

LEMMA InitOneTimeInv == ASSUME SingleSigner PROVE Init => OneTimeInv
<1>. SUFFICES ASSUME Init PROVE OneTimeInv
  OBVIOUS
<1>1. TypeInv
  BY InitTypeInv
<1>2. CommandUnderLock /\ LoadedStillCurrent /\ SavedBehindFile
  BY CliAssumption DEF Init, CommandUnderLock, LoadedStillCurrent, SavedBehindFile
<1>3. /\ FileOnDisk /\ BurnedBeforeExposed /\ OneTimeSignature
      /\ InflightBehindFile /\ LedgerNotAhead
  BY DEF Init, FileOnDisk, BurnedBeforeExposed, OneTimeSignature, InflightBehindFile, LedgerNotAhead, Absent
<1>. QED
  BY <1>1, <1>2, <1>3 DEF OneTimeInv

\* At most one command runs.
LEMMA OneCommand ==
    ASSUME SingleSigner, OneTimeInv,
           NEW p \in Process, NEW q \in Process, pc[p] # "idle", pc[q] # "idle"
    PROVE  p = q
BY CliAssumption DEF SingleSigner, OneTimeInv, CommandUnderLock, TypeInv, TypeOK

\* What a step keeps when it changes neither the state file nor what was shown,
\* sent or executed.
LEMMA LocalStep ==
    ASSUME OneTimeInv, UNCHANGED <<storeVars, exposed, inflight, chain>>
    PROVE  /\ FileOnDisk' /\ BurnedBeforeExposed' /\ OneTimeSignature'
           /\ InflightBehindFile' /\ LedgerNotAhead'
BY DEF OneTimeInv, FileOnDisk, BurnedBeforeExposed, OneTimeSignature, InflightBehindFile,
       LedgerNotAhead, storeVars

\* A step after which no command runs.
LEMMA IdleStep ==
    ASSUME \A p \in Process : pc'[p] = "idle" /\ cmd'[p] # "recover",
           \A h \in Host : lock'[h] = {}
    PROVE  CommandUnderLock' /\ LoadedStillCurrent' /\ SavedBehindFile'
BY CliAssumption DEF CommandUnderLock, LoadedStillCurrent, SavedBehindFile

\* The end of a command leaves no command that runs.
LEMMA EndStep ==
    ASSUME SingleSigner, OneTimeInv, NEW p \in Process, pc[p] # "idle", End(p)
    PROVE  CommandUnderLock' /\ LoadedStillCurrent' /\ SavedBehindFile'
<1>1. \A q \in Process : q # p => pc[q] = "idle"
  BY OneCommand
<1>2. \A q \in Process : pc'[q] = "idle"
  BY <1>1, EndType DEF OneTimeInv
<1>3. \A h \in Host : lock'[h] = {}
  <2>1. HostOf[p] \in Host /\ \A h \in Host : h = HostOf[p]
    BY CliAssumption DEF SingleSigner
  <2>2. \A q \in lock[HostOf[p]] : q = p
    BY <2>1 DEF OneTimeInv, CommandUnderLock
  <2>3. lock'[HostOf[p]] = lock[HostOf[p]] \ {p}
    BY <2>1 DEF OneTimeInv, TypeInv, TypeOK, End, Releases
  <2>. QED
    BY <2>1, <2>2, <2>3
<1>4. \A q \in Process : cmd'[q] # "recover"
  BY DEF OneTimeInv, SavedBehindFile, TypeInv, TypeOK, End
<1>. QED
  BY <1>2, <1>3, <1>4, IdleStep

\* A power loss settles on one of the files that were possible before.
LEMMA PowerStep ==
    ASSUME SingleSigner, OneTimeInv, TypeInv', NEW h \in Host, PowerLoss(h)
    PROVE  OneTimeInv'
<1>. USE CliAssumption
<1>1. \A g \in Host : g = h
  BY DEF SingleSigner
<1>2. CommandUnderLock' /\ LoadedStillCurrent' /\ SavedBehindFile'
  <2>1. \A p \in Process : pc'[p] = "idle" /\ cmd'[p] # "recover"
    BY <1>1 DEF PowerLoss, OneTimeInv, TypeInv, TypeOK
  <2>2. \A g \in Host : lock'[g] = {}
    BY <1>1 DEF PowerLoss, OneTimeInv, TypeInv, TypeOK
  <2>. QED
    BY <2>1, <2>2, IdleStep
<1>3. PICK q \in disk[h] : file'[h] = q /\ disk'[h] = {q}
  BY DEF PowerLoss, OneTimeInv, TypeInv, TypeOK
<1>4. UNCHANGED <<exposed, inflight, chain>>
  BY DEF PowerLoss, chainVars
<1>5. FileOnDisk'
  BY <1>1, <1>3 DEF FileOnDisk
<1>6. BurnedBeforeExposed' /\ OneTimeSignature' /\ InflightBehindFile' /\ LedgerNotAhead'
  BY <1>1, <1>3, <1>4 DEF OneTimeInv, BurnedBeforeExposed, OneTimeSignature,
     InflightBehindFile, LedgerNotAhead
<1>. QED
  BY <1>2, <1>5, <1>6 DEF OneTimeInv

\* A step of p that moves pc[p] on and leaves the lock alone.
LEMMA LockStep ==
    ASSUME OneTimeInv, NEW p \in Process, pc[p] # "idle", UNCHANGED lock,
           NEW l \in Labels \ {"idle"}, Goto(p, l)
    PROVE  CommandUnderLock'
BY DEF OneTimeInv, CommandUnderLock, Goto, TypeInv, TypeOK

LEMMA NextOneTimeInv ==
    ASSUME SingleSigner PROVE OneTimeInv /\ [Next]_vars => OneTimeInv'
<1>. SUFFICES ASSUME OneTimeInv, [Next]_vars PROVE OneTimeInv'
  OBVIOUS
<1>. USE CliAssumption
<1>0. TypeInv'
  BY NextTypeInv DEF OneTimeInv
<1>1. ASSUME NEW p \in Process, NEW c \in Command, NEW m \in Message \cup {InitTag},
             Start(p, c, m)
      PROVE  OneTimeInv'
  <2>1. \A q \in Process : pc[q] = "idle"
    BY <1>1 DEF Start, LockFree, SingleSigner, OneTimeInv, CommandUnderLock
  <2>2. CommandUnderLock'
    BY <1>1, <2>1 DEF Start, LockFree, Goto, SingleSigner, OneTimeInv, CommandUnderLock,
                      TypeInv, TypeOK
  <2>3. \A q \in Process : pc'[q] \in {"idle", "locked"} /\ cmd'[q] # "recover"
    BY <1>1, <2>1 DEF Start, Goto, SingleSigner, OneTimeInv, SavedBehindFile, TypeInv, TypeOK
  <2>4. LoadedStillCurrent' /\ SavedBehindFile'
    BY <2>3 DEF LoadedStillCurrent, SavedBehindFile
  <2>. QED
    BY <1>0, <1>1, <2>2, <2>4, LocalStep DEF OneTimeInv, Start, chainVars
<1>2. ASSUME NEW p \in Process, NEW l \in {"loaded", "fetched", "signed"},
             pc[p] # "idle", Goto(p, l), UNCHANGED <<storeVars, lock, cmd, exposed, chainVars>>,
             loaded' \in [Process -> Position],
             l \in {"loaded", "fetched"} => cmd[p] = "advance",
             cmd[p] = "advance" => file[HostOf[p]] = loaded'[p],
             cmd[p] = "init" => file[HostOf[p]] = Absent
      PROVE  OneTimeInv'
  <2>1. \A q \in Process : q # p => pc[q] = "idle" /\ pc'[q] = "idle"
    BY <1>2, OneCommand DEF Goto, OneTimeInv, TypeInv, TypeOK
  <2>2. pc'[p] = l
    BY <1>2 DEF Goto, OneTimeInv, TypeInv, TypeOK
  <2>3. LoadedStillCurrent'
    BY <1>2, <2>1, <2>2 DEF LoadedStillCurrent, storeVars
  <2>4. SavedBehindFile'
    <3>1. \A q \in Process : cmd[q] # "recover" /\ cmd[q] \in {"init", "advance", "recover"}
      BY DEF OneTimeInv, SavedBehindFile, TypeInv, TypeOK
    <3>. QED
      BY <1>2, <2>1, <2>2, <3>1 DEF SavedBehindFile
  <2>5. CommandUnderLock'
    BY <1>2, LockStep DEF Labels
  <2>. QED
    BY <1>0, <1>2, <2>3, <2>4, <2>5, LocalStep DEF OneTimeInv, chainVars
<1>3. ASSUME NEW p \in Process, InitCheck(p) PROVE OneTimeInv'
  <2>1. loaded' \in [Process -> Position]
    BY <1>0 DEF TypeInv, TypeOK
  <2>. QED
    BY <1>2, <1>3, <2>1 DEF InitCheck
<1>4. ASSUME NEW p \in Process, Load(p) PROVE OneTimeInv'
  <2>1. loaded' \in [Process -> Position]
    BY <1>0 DEF TypeInv, TypeOK
  <2>2. file[HostOf[p]] = loaded'[p]
    BY <1>4 DEF Load, HasSuccessor, OneTimeInv, TypeInv, TypeOK
  <2>. QED
    BY <1>2, <1>4, <2>1, <2>2 DEF Load, HasSuccessor
<1>5. ASSUME NEW p \in Process, NEW r \in views, Fetch(p, r) PROVE OneTimeInv'
  <2>1. loaded' \in [Process -> Position]
    BY <1>0 DEF TypeInv, TypeOK
  <2>2. pc[p] = "loaded" /\ cmd[p] = "advance"
    BY <1>5 DEF Fetch, OneTimeInv, SavedBehindFile, TypeInv, RoomForNext
  <2>3. file[HostOf[p]] = loaded'[p]
    BY <1>5, <2>2 DEF Fetch, OneTimeInv, LoadedStillCurrent
  <2>. QED
    BY <1>2, <1>5, <2>1, <2>2, <2>3 DEF Fetch
<1>6. ASSUME NEW p \in Process, Sign(p) PROVE OneTimeInv'
  <2>1. loaded' \in [Process -> Position]
    BY <1>0 DEF TypeInv, TypeOK
  <2>2. file[HostOf[p]] = loaded'[p]
    BY <1>6 DEF Sign, OneTimeInv, LoadedStillCurrent
  <2>. QED
    BY <1>2, <1>6, <2>1, <2>2 DEF Sign
<1>8. ASSUME NEW p \in Process, Persist(p) PROVE OneTimeInv'
  <2>. USE <1>8 DEF Persist, Replace, Successor
  <2>1. \A h \in Host : h = HostOf[p]
    BY DEF SingleSigner
  <2>2. file[HostOf[p]] = loaded[p] \/ file[HostOf[p]] = Absent
    BY DEF OneTimeInv, LoadedStillCurrent, SavedBehindFile, TypeInv, TypeOK
  <2>3. loaded[p] \in Nat
    BY DEF OneTimeInv, TypeInv, TypeOK, Position
  <2>4. /\ file'[HostOf[p]] = loaded[p] + 1
        /\ disk'[HostOf[p]] = disk[HostOf[p]] \cup {loaded[p] + 1}
    BY DEF OneTimeInv, TypeInv, TypeOK
  <2>5. loaded[p] + 1 > file[HostOf[p]]
    BY <2>2, <2>3 DEF Absent
  <2>6. exposed[loaded[p]] = {}
    <3>1. ~(file[HostOf[p]] > loaded[p])
      BY <2>2, <2>3 DEF Absent
    <3>. QED
      BY <3>1 DEF OneTimeInv, BurnedBeforeExposed, TypeInv, TypeOK
  <2>7. file[HostOf[p]] \in Int /\ loaded[p] + 1 \in Int /\ chain \in Int
    BY <2>2, <2>3 DEF Absent, OneTimeInv, TypeInv, TypeOK, Root, Position
  <2>8. FileOnDisk' /\ OneTimeSignature'
    BY <2>1, <2>4 DEF FileOnDisk, OneTimeInv, OneTimeSignature
  <2>9. BurnedBeforeExposed'
    <3>1. ASSUME NEW q \in Position, exposed[q] # {}
          PROVE  loaded[p] + 1 > q
      <4>1. file[HostOf[p]] > q
        BY <2>1, <3>1 DEF OneTimeInv, BurnedBeforeExposed
      <4>2. q \in Int
        BY DEF Position
      <4>. QED
        BY <2>5, <2>7, <4>1, <4>2
    <3>. QED
      BY <2>1, <2>4, <3>1 DEF OneTimeInv, BurnedBeforeExposed
  <2>10. InflightBehindFile'
    <3>1. ASSUME NEW tx \in inflight PROVE loaded[p] + 1 > tx.pos
      <4>1. tx.pos \in Int
        BY DEF OneTimeInv, TypeInv, TypeOK, Tx, Position
      <4>. QED
        BY <2>1, <2>5, <2>7, <4>1 DEF OneTimeInv, InflightBehindFile, FileOnDisk
    <3>. QED
      BY <2>1, <2>4, <3>1 DEF OneTimeInv, InflightBehindFile, chainVars
  <2>11. LedgerNotAhead'
    <3>1. chain <= loaded[p] + 1
      BY <2>1, <2>5, <2>7 DEF OneTimeInv, LedgerNotAhead
    <3>. QED
      BY <2>1, <2>4, <3>1 DEF OneTimeInv, LedgerNotAhead, chainVars
  <2>12. /\ \A q \in Process : q # p => pc'[q] = "idle"
         /\ pc'[p] = "replaced"
    BY OneCommand DEF Goto, OneTimeInv, TypeInv, TypeOK
  <2>13. LoadedStillCurrent'
    BY <2>12 DEF LoadedStillCurrent
  <2>14. SavedBehindFile'
    BY <2>4, <2>6, <2>12 DEF SavedBehindFile, OneTimeInv
  <2>15. CommandUnderLock'
    BY LockStep DEF Labels
  <2>. QED
    BY <1>0, <2>8, <2>9, <2>10, <2>11, <2>13, <2>14, <2>15 DEF OneTimeInv
<1>9. ASSUME NEW p \in Process, Synced(p) PROVE OneTimeInv'
  <2>. USE <1>9 DEF Synced
  <2>1. \A h \in Host : h = HostOf[p]
    BY DEF SingleSigner
  <2>2. cmd[p] # "recover" /\ file[HostOf[p]] = loaded[p] + 1 /\ loaded[p] \in Nat
    BY DEF OneTimeInv, SavedBehindFile, TypeInv, TypeOK, Position
  <2>3. disk'[HostOf[p]] = {file[HostOf[p]]} /\ UNCHANGED <<file, exposed, inflight, chain>>
    BY DEF OneTimeInv, TypeInv, TypeOK, chainVars
  <2>4. FileOnDisk' /\ OneTimeSignature'
    BY <2>1, <2>3 DEF FileOnDisk, OneTimeInv, OneTimeSignature
  <2>5. BurnedBeforeExposed' /\ InflightBehindFile' /\ LedgerNotAhead'
    BY <2>1, <2>3 DEF OneTimeInv, FileOnDisk, BurnedBeforeExposed, InflightBehindFile,
       LedgerNotAhead
  <2>6. /\ \A q \in Process : q # p => pc'[q] = "idle"
        /\ pc'[p] = "persisted"
    BY <2>2, OneCommand DEF Goto, OneTimeInv, TypeInv, TypeOK
  <2>7. LoadedStillCurrent'
    BY <2>6 DEF LoadedStillCurrent
  <2>8. SavedBehindFile'
    <3>1. \A d \in disk'[HostOf[p]] : d > loaded[p]
      BY <2>2, <2>3
    <3>. QED
      BY <2>2, <2>6, <3>1 DEF SavedBehindFile, OneTimeInv
  <2>9. CommandUnderLock'
    BY <2>2, LockStep DEF Labels
  <2>. QED
    BY <1>0, <2>4, <2>5, <2>7, <2>8, <2>9 DEF OneTimeInv
<1>10. ASSUME NEW p \in Process, Simulate(p) PROVE OneTimeInv'
  <2>1. \A q \in Process : q # p => pc'[q] = "idle"
    BY <1>10, OneCommand DEF Simulate, MayShow, Goto, OneTimeInv, TypeInv, TypeOK
  <2>2. pc'[p] = "simulated" /\ pc[p] = "persisted"
    BY <1>10 DEF Simulate, MayShow, Goto, OneTimeInv, TypeInv, TypeOK
  <2>3. exposed'[loaded[p]] = {msg[p]} /\ \A d \in disk[HostOf[p]] : d > loaded[p]
    BY <1>10, <2>2 DEF Simulate, OneTimeInv, SavedBehindFile, TypeInv, TypeOK
  <2>4. \A x \in Position : x # loaded[p] => exposed'[x] = exposed[x]
    BY <1>10 DEF Simulate, OneTimeInv, TypeInv, TypeOK
  <2>5. BurnedBeforeExposed' /\ OneTimeSignature'
    BY <1>10, <2>3, <2>4 DEF Simulate, SingleSigner, OneTimeInv, BurnedBeforeExposed,
                            OneTimeSignature, FileOnDisk, storeVars
  <2>6. LoadedStillCurrent'
    BY <2>1, <2>2 DEF LoadedStillCurrent
  <2>7. SavedBehindFile'
    BY <1>10, <2>1, <2>2, <2>3 DEF Simulate, SavedBehindFile, OneTimeInv, storeVars
  <2>8. CommandUnderLock'
    BY <1>10, <2>2, LockStep DEF Simulate, Labels
  <2>9. FileOnDisk' /\ InflightBehindFile' /\ LedgerNotAhead'
    BY <1>10 DEF Simulate, OneTimeInv, FileOnDisk, InflightBehindFile, LedgerNotAhead,
       storeVars, chainVars
  <2>. QED
    BY <1>0, <2>5, <2>6, <2>7, <2>8, <2>9 DEF OneTimeInv
<1>11. ASSUME NEW p \in Process, Send(p) PROVE OneTimeInv'
  <2>1. \A q \in Process : q # p => pc'[q] = "idle"
    BY <1>11, OneCommand DEF Send, Goto, OneTimeInv, TypeInv, TypeOK
  <2>2. pc'[p] = "sent" /\ pc[p] = "simulated"
    BY <1>11 DEF Send, Goto, OneTimeInv, TypeInv, TypeOK
  <2>3. InflightBehindFile'
    BY <1>11, <2>2 DEF Send, SingleSigner, OneTimeInv, SavedBehindFile, InflightBehindFile,
       storeVars
  <2>4. LoadedStillCurrent' /\ SavedBehindFile'
    BY <1>11, <2>1, <2>2 DEF Send, LoadedStillCurrent, SavedBehindFile, OneTimeInv,
       storeVars
  <2>5. CommandUnderLock'
    BY <1>11, <2>2, LockStep DEF Send, Labels
  <2>6. FileOnDisk' /\ BurnedBeforeExposed' /\ OneTimeSignature' /\ LedgerNotAhead'
    BY <1>11 DEF Send, storeVars, OneTimeInv, FileOnDisk, BurnedBeforeExposed, OneTimeSignature, LedgerNotAhead
  <2>. QED
    BY <1>0, <2>3, <2>4, <2>5, <2>6 DEF OneTimeInv
<1>12. ASSUME NEW p \in Process, InitRefuse(p) \/ Exit(p) PROVE OneTimeInv'
  BY <1>0, <1>12, EndStep, LocalStep DEF OneTimeInv, InitRefuse, Exit, storeVars, chainVars
<1>13. ASSUME NEW p \in Process, Recover(p) PROVE OneTimeInv'
  BY <1>13 DEF Recover, OneTimeInv, SavedBehindFile
<1>14. ASSUME NEW tx \in inflight, Land(tx) PROVE OneTimeInv'
  <2>1. \A h \in Host : \A d \in disk[h] : NextRoot(tx) <= d
    <3>1. \A h \in Host : \A d \in disk[h] : d > tx.pos /\ tx.pos \in Nat /\ d \in Int
      BY DEF OneTimeInv, InflightBehindFile, TypeInv, TypeOK, Tx, Position, Root, Absent
    <3>. QED
      BY <3>1 DEF NextRoot, Absent
  <2>2. LedgerNotAhead'
    BY <1>14, <2>1 DEF Land, LedgerNotAhead, storeVars, OneTimeInv, FileOnDisk
  <2>3. InflightBehindFile' /\ FileOnDisk'
    BY <1>14 DEF Land, OneTimeInv, InflightBehindFile, FileOnDisk, storeVars
  <2>4. CommandUnderLock' /\ LoadedStillCurrent' /\ SavedBehindFile'
    BY <1>14 DEF Land, OneTimeInv, CommandUnderLock, LoadedStillCurrent, SavedBehindFile,
                 procVars, storeVars
  <2>5. BurnedBeforeExposed' /\ OneTimeSignature'
    BY <1>14 DEF Land, OneTimeInv, BurnedBeforeExposed, OneTimeSignature, storeVars
  <2>. QED
    BY <1>0, <2>2, <2>3, <2>4, <2>5 DEF OneTimeInv
<1>15. ASSUME NEW tx \in inflight, Drop(tx) PROVE OneTimeInv'
  BY <1>0, <1>15 DEF Drop, OneTimeInv, FileOnDisk, storeVars, CommandUnderLock, LoadedStillCurrent, SavedBehindFile,
     BurnedBeforeExposed, OneTimeSignature, InflightBehindFile, LedgerNotAhead, procVars
<1>16. ASSUME CatchUp \/ UNCHANGED vars PROVE OneTimeInv'
  BY <1>0, <1>16 DEF CatchUp, vars, storeVars, OneTimeInv, FileOnDisk, CommandUnderLock, LoadedStillCurrent,
     SavedBehindFile, BurnedBeforeExposed, OneTimeSignature, InflightBehindFile,
     LedgerNotAhead, procVars, chainVars
<1>17. ASSUME NEW h \in Host, LoseState(h) \/ PowerLoss(h) PROVE OneTimeInv'
  BY <1>0, <1>17, PowerStep DEF LoseState, SingleSigner
<1>. QED
  BY <1>1, <1>3, <1>4, <1>5, <1>6, <1>8, <1>9, <1>10, <1>11, <1>12, <1>13, <1>14,
     <1>15, <1>16, <1>17 DEF Next, Proceed

\* On one host that keeps its state directory and does not run recover, every
\* position shows the signature of at most one message (OneTimeSignature):
\* through every crash, timeout, stale answer and concurrent command.
THEOREM OneTime == ASSUME SingleSigner PROVE Spec => []OneTimeSignature
<1>1. OneTimeInv => OneTimeSignature
  BY DEF OneTimeInv
<1>. QED
  BY <1>1, InitOneTimeInv, NextOneTimeInv, PTL DEF Spec

\* Under the same conditions a signature is shown only after the state file has
\* moved past its position (BurnedBeforeExposed).
THEOREM Burned == ASSUME SingleSigner PROVE Spec => []BurnedBeforeExposed
<1>1. OneTimeInv => BurnedBeforeExposed
  BY DEF OneTimeInv
<1>. QED
  BY <1>1, InitOneTimeInv, NextOneTimeInv, PTL DEF Spec

\* Under the same conditions the ledger's root is never ahead of the state file
\* (LedgerNotAhead).
THEOREM NotAhead == ASSUME SingleSigner PROVE Spec => []LedgerNotAhead
<1>1. OneTimeInv => LedgerNotAhead
  BY DEF OneTimeInv
<1>. QED
  BY <1>1, InitOneTimeInv, NextOneTimeInv, PTL DEF Spec

-----------------------------------------------------------------------------
Names(q) == IF q = Absent THEN 0 ELSE q

\* Between the replacement of the state file and its sync, a power loss may still
\* bring back the position being used, or the absence of any.
StillOnDisk ==
    \A p \in Process : pc[p] = "replaced" =>
        \E d \in disk[HostOf[p]] : Names(d) <= loaded[p]

SignerInv == OneTimeInv /\ StillOnDisk

LEMMA InitStillOnDisk == Init => StillOnDisk
BY DEF Init, StillOnDisk

LEMMA NextStillOnDisk ==
    ASSUME SingleSigner, SignerInv, [Next]_vars PROVE StillOnDisk'
<1> USE CliAssumption
<1>1. TypeOK /\ TypeOK'
  BY NextTypeInv DEF SignerInv, OneTimeInv, TypeInv
<1>2. ASSUME NEW p \in Process, NEW l \in Labels \ {"replaced"}, Goto(p, l),
             UNCHANGED <<disk, loaded>>
      PROVE  StillOnDisk'
  BY <1>1, <1>2 DEF Goto, SignerInv, StillOnDisk, TypeOK
<1>3. ASSUME \A p \in Process : pc'[p] # "replaced" PROVE StillOnDisk'
  BY <1>3 DEF StillOnDisk
<1>4. ASSUME NEW p \in Process, pc[p] # "idle", \A q \in Process : q # p => pc'[q] = pc[q],
             pc'[p] # "replaced"
      PROVE  StillOnDisk'
  BY <1>3, <1>4, OneCommand DEF SignerInv
<1>5. ASSUME NEW p \in Process, NEW c \in Command, NEW m \in Message \cup {InitTag},
             Start(p, c, m)
      PROVE  StillOnDisk'
  BY <1>2, <1>5 DEF Start, Labels, storeVars
<1>6. ASSUME NEW p \in Process, Persist(p) PROVE StillOnDisk'
  <2>1. pc[p] = "signed" /\ pc' = [pc EXCEPT ![p] = "replaced"] /\ UNCHANGED loaded
        /\ disk' = [disk EXCEPT ![HostOf[p]] = disk[HostOf[p]] \cup {loaded[p] + 1}]
    BY <1>6 DEF Persist, Replace, Goto, Successor
  <2>2. file[HostOf[p]] \in {loaded[p], Absent} /\ loaded[p] \in Nat
    BY <1>1, <2>1 DEF SignerInv, OneTimeInv, LoadedStillCurrent, SavedBehindFile, TypeOK,
                      Position
  <2>3. Names(file[HostOf[p]]) <= loaded[p] /\ file[HostOf[p]] \in disk'[HostOf[p]]
    BY <1>1, <2>1, <2>2 DEF SignerInv, OneTimeInv, FileOnDisk, TypeOK, Names
  <2>4. \A q \in Process : q # p => pc'[q] = "idle"
    BY <1>1, <2>1, OneCommand DEF SignerInv, TypeOK
  <2> QED
    BY <2>1, <2>3, <2>4 DEF StillOnDisk
<1>7. ASSUME NEW p \in Process, End(p), pc[p] # "idle" PROVE StillOnDisk'
  BY <1>4, <1>7, EndType DEF SignerInv, OneTimeInv
<1>8. ASSUME NEW p \in Process, Synced(p) PROVE StillOnDisk'
  BY <1>1, <1>4, <1>7, <1>8 DEF Synced, Goto, TypeOK
<1>9. ASSUME NEW p \in Process, Simulate(p) \/ Send(p) \/ Sign(p) \/ InitCheck(p) \/ Load(p)
                                  \/ \E r \in views : Fetch(p, r)
      PROVE  StillOnDisk'
  BY <1>1, <1>4, <1>9 DEF Simulate, MayShow, Send, Sign, InitCheck, Load, Fetch, Goto, TypeOK
<1>10. ASSUME NEW p \in Process, InitRefuse(p) \/ Exit(p) PROVE StillOnDisk'
  BY <1>7, <1>10 DEF InitRefuse, Exit
<1>11. ASSUME NEW p \in Process, Recover(p) PROVE StillOnDisk'
  BY <1>11 DEF Recover, SignerInv, OneTimeInv, SavedBehindFile
<1>12. ASSUME UNCHANGED <<disk, pc, loaded>> PROVE StillOnDisk'
  BY <1>12 DEF SignerInv, StillOnDisk
<1>13. ASSUME NEW h \in Host, LoseState(h) \/ PowerLoss(h) PROVE StillOnDisk'
  <2>1. \A p \in Process : pc'[p] = "idle"
    BY <1>1, <1>13 DEF LoseState, PowerLoss, SingleSigner, TypeOK
  <2> QED
    BY <1>3, <2>1
<1>14. ASSUME \/ \E tx \in inflight : Land(tx) \/ Drop(tx)
              \/ CatchUp \/ UNCHANGED vars
       PROVE  StillOnDisk'
  BY <1>12, <1>14 DEF Land, Drop, CatchUp, vars, storeVars, procVars
<1> QED
  BY <1>5, <1>6, <1>8, <1>9, <1>10, <1>11, <1>13, <1>14 DEF Next, Proceed

\* The least of some positions.
LEMMA MinIsLeast ==
    ASSUME NEW S \in SUBSET Nat, S # {}
    PROVE  Min(S) \in S /\ \A n \in S : Min(S) <= n
BY LeastNumber DEF Min

\* What Floor is on the one host there is.
LEMMA FloorIs ==
    ASSUME SingleSigner, NEW h \in Host,
           NEW d \in SUBSET Root, d # {}
    PROVE  LET low == Min({IF q = Absent THEN 0 ELSE q : q \in d})
           IN  /\ \E q \in d : low = Names(q)
               /\ \A q \in d : low <= Names(q)
               /\ low \in Nat
<1> DEFINE S == {IF q = Absent THEN 0 ELSE q : q \in d}
<1>1. S \in SUBSET Nat /\ S # {}
  <2>1. \A q \in d : q # Absent => q \in Nat
    BY DEF Root, Position
  <2> QED
    BY <2>1
<1> HIDE DEF S
<1>2. Min(S) \in S /\ \A n \in S : Min(S) <= n
  BY <1>1, MinIsLeast
<1> QED
  BY <1>1, <1>2 DEF S, Names

LEMMA FloorFacts ==
    ASSUME SingleSigner, OneTimeInv, NEW h \in Host
    PROVE  /\ \E q \in disk[h] : Floor = Names(q)
           /\ \A q \in disk[h] : Floor <= Names(q)
           /\ Floor \in Nat
           /\ h = TheHost
<1>1. h = TheHost
  BY DEF SingleSigner, TheHost
<1>2. disk[h] \in SUBSET Root /\ disk[h] # {}
  BY DEF OneTimeInv, FileOnDisk, TypeInv, TypeOK
<1> QED
  BY <1>1, <1>2, FloorIs DEF Floor

\* The floor after a step.
LEMMA FloorFactsNext ==
    ASSUME SingleSigner, OneTimeInv', NEW h \in Host
    PROVE  /\ \E q \in disk'[h] : Floor' = Names(q)
           /\ \A q \in disk'[h] : Floor' <= Names(q)
           /\ Floor' \in Nat
<1>1. h = TheHost
  BY DEF SingleSigner, TheHost
<1>2. disk'[h] \in SUBSET Root /\ disk'[h] # {}
  BY DEF OneTimeInv, FileOnDisk, TypeInv, TypeOK
<1>3. Floor' = Min({IF q = Absent THEN 0 ELSE q : q \in disk'[h]})
  BY <1>1 DEF Floor
<1> QED
  BY <1>2, <1>3, FloorIs

\* A step that shows nothing, makes no reservation and forgets no position saved for
\* good is a step of the one-time signer.
LEMMA BurnStep ==
    ASSUME UNCHANGED exposed, Floor' >= Floor,
           \A p \in Process : pc'[p] = "persisted" =>
              pc[p] = "persisted" /\ msg'[p] = msg[p] /\ loaded'[p] = loaded[p]
    PROVE  Signer!Next
<1>1. \A q \in Position : Reservations'[q] \subseteq Reservations[q]
  BY DEF Reservations
<1> QED
  BY <1>1 DEF Signer!Next, Signer!Burn

LEMMA SignerStep ==
    ASSUME SingleSigner, Host # {}, SignerInv, OneTimeInv', [Next]_vars
    PROVE  [Signer!Next]_(Signer!vars)
<1> USE CliAssumption
<1> PICK h \in Host : TRUE
  OBVIOUS
<1>1. TypeOK /\ TypeOK' /\ OneTimeInv
  BY DEF SignerInv, OneTimeInv, TypeInv
<1>2. \A p \in Process : HostOf[p] = h
  BY DEF SingleSigner
<1>3. /\ \E q \in disk[h] : Floor = Names(q)
      /\ \A q \in disk[h] : Floor <= Names(q)
      /\ Floor \in Nat /\ h = TheHost
  BY <1>1, FloorFacts
<1>4. /\ \E q \in disk'[h] : Floor' = Names(q)
      /\ \A q \in disk'[h] : Floor' <= Names(q)
      /\ Floor' \in Nat
  BY <1>1, FloorFactsNext
<1>5. disk' = disk => Floor' = Floor
  BY DEF Floor
<1>6. Floor >= Floor
  BY <1>3
<1>7. ASSUME NEW p \in Process, NEW c \in Command, NEW m \in Message \cup {InitTag},
             Start(p, c, m)
      PROVE  Signer!Next
  BY <1>1, <1>5, <1>6, <1>7, BurnStep DEF Start, Goto, TypeOK, storeVars
<1>8. ASSUME NEW p \in Process, NEW l \in Labels \ {"persisted"}, Goto(p, l),
             UNCHANGED <<msg, exposed>>, Floor' >= Floor,
             \A q \in Process \ {p} : loaded'[q] = loaded[q]
      PROVE  Signer!Next
  BY <1>1, <1>8, BurnStep DEF Goto, TypeOK
<1>9. ASSUME NEW p \in Process, InitCheck(p) \/ Load(p) \/ Sign(p) \/ Send(p)
                                  \/ \E r \in views : Fetch(p, r)
      PROVE  Signer!Next
  <2>1. /\ disk' = disk /\ UNCHANGED <<msg, exposed>>
        /\ \E l \in Labels \ {"persisted"} : Goto(p, l)
        /\ \A q \in Process \ {p} : loaded'[q] = loaded[q]
    BY <1>1, <1>9 DEF InitCheck, Load, Sign, Send, Fetch, Labels, storeVars, TypeOK
  <2> QED
    BY <1>5, <1>6, <1>8, <2>1
<1>10. ASSUME NEW p \in Process, Persist(p) PROVE Signer!Next
  <2>1. /\ pc[p] = "signed" /\ Goto(p, "replaced") /\ UNCHANGED <<msg, loaded, exposed>>
        /\ disk'[h] = disk[h] \cup {loaded[p] + 1} /\ loaded[p] \in Nat
    BY <1>1, <1>2, <1>10 DEF Persist, Replace, Successor, TypeOK, Position
  <2>2. file[h] \in {loaded[p], Absent} /\ file[h] \in disk[h]
    BY <1>1, <1>2, <2>1 DEF SignerInv, OneTimeInv, LoadedStillCurrent, SavedBehindFile,
                            TypeOK, FileOnDisk
  <2>3. Floor <= loaded[p]
    <3>1. Floor <= Names(file[h])
      BY <1>3, <2>2
    <3>2. Names(file[h]) \in Int /\ Names(file[h]) <= loaded[p]
      BY <2>1, <2>2 DEF Names, Absent
    <3> QED
      BY <1>3, <2>1, <3>1, <3>2
  <2>4. \A q \in disk'[h] : Floor <= Names(q)
    <3>1. Names(loaded[p] + 1) = loaded[p] + 1
      BY <2>1 DEF Names, Absent
    <3>2. Floor <= loaded[p] + 1
      BY <1>3, <2>1, <2>3
    <3> QED
      BY <1>3, <2>1, <3>1, <3>2
  <2>5. Floor' >= Floor
    BY <1>3, <1>4, <2>4
  <2> QED
    BY <1>8, <2>1, <2>5 DEF Labels
<1>11. ASSUME NEW p \in Process, Synced(p) PROVE Signer!Next
  <2>1. /\ pc[p] = "replaced" /\ disk'[h] = {file[h]} /\ UNCHANGED <<msg, loaded, exposed>>
        /\ pc' = [pc EXCEPT ![p] = "persisted"]
    BY <1>1, <1>2, <1>11 DEF Synced, Goto, SignerInv, OneTimeInv, SavedBehindFile, TypeOK
  <2>2. file[h] = loaded[p] + 1 /\ loaded[p] \in Position /\ loaded[p] \in Nat
    BY <1>1, <1>2, <2>1 DEF SignerInv, OneTimeInv, SavedBehindFile, TypeOK, Position
  <2>3. loaded[p] >= Floor
    <3>1. PICK d \in disk[h] : Names(d) <= loaded[p]
      BY <1>2, <2>1 DEF SignerInv, StillOnDisk
    <3>2. Floor <= Names(d) /\ Names(d) \in Int
      BY <1>1, <1>3, <3>1 DEF TypeOK, Root, Position, Names
    <3> QED
      BY <1>3, <2>2, <3>1, <3>2
  <2>4. Floor' = loaded[p] + 1
    BY <1>4, <2>1, <2>2 DEF Names, Absent
  <2>5. \A q \in Process : q # p => pc[q] = "idle" /\ pc'[q] = "idle"
    BY <1>1, <2>1, OneCommand DEF TypeOK
  <2>6. Reservations' = [Reservations EXCEPT ![loaded[p]] = {msg[p]}]
    <3>1. pc'[p] = "persisted"
      BY <1>1, <2>1 DEF TypeOK
    <3>2. Reservations = [q \in Position |-> {}]
      BY <2>1, <2>5 DEF Reservations
    <3>3. Reservations' = [q \in Position |-> IF q = loaded[p] THEN {msg[p]} ELSE {}]
      BY <2>1, <2>5, <3>1 DEF Reservations
    <3> HIDE DEF Reservations
    <3> QED
      BY <2>2, <3>2, <3>3
  <2>7. msg[p] \in Message \cup {InitTag}
    BY <1>1 DEF TypeOK
  <2>8. Signer!Reserve(loaded[p], msg[p])
    BY <2>1, <2>3, <2>4, <2>6 DEF Signer!Reserve
  <2> QED
    BY <2>2, <2>7, <2>8 DEF Signer!Next
<1>12. ASSUME NEW p \in Process, Simulate(p) PROVE Signer!Next
  <2>1. /\ pc[p] = "persisted" /\ UNCHANGED <<disk, msg, loaded>>
        /\ pc' = [pc EXCEPT ![p] = "simulated"]
        /\ exposed' = [exposed EXCEPT ![loaded[p]] = @ \cup {msg[p]}]
    BY <1>12 DEF Simulate, MayShow, Goto, storeVars
  <2>2. loaded[p] \in Position /\ msg[p] \in Message \cup {InitTag}
    BY <1>1 DEF TypeOK
  <2>3. \A q \in Process : q # p => pc[q] = "idle" /\ pc'[q] = "idle"
    BY <1>1, <2>1, OneCommand DEF TypeOK
  <2>4. msg[p] \in Reservations[loaded[p]]
    BY <2>1, <2>2 DEF Reservations
  <2>5. Reservations' = [Reservations EXCEPT ![loaded[p]] = {}]
    <3>1. pc'[p] = "simulated"
      BY <1>1, <2>1 DEF TypeOK
    <3>2. \A q \in Position : q # loaded[p] => Reservations[q] = {}
      BY <2>1, <2>3 DEF Reservations
    <3>3. \A q \in Position : Reservations'[q] = {}
      BY <2>3, <3>1 DEF Reservations
    <3>4. /\ Reservations' = [q \in Position |-> Reservations'[q]]
          /\ Reservations = [q \in Position |-> Reservations[q]]
      BY DEF Reservations
    <3> HIDE DEF Reservations
    <3> QED
      BY <2>2, <3>2, <3>3, <3>4
  <2>6. Signer!Expose(loaded[p], msg[p])
    BY <1>5, <2>1, <2>4, <2>5 DEF Signer!Expose
  <2> QED
    BY <2>2, <2>6 DEF Signer!Next
<1>13. ASSUME NEW p \in Process, InitRefuse(p) \/ Exit(p) PROVE Signer!Next
  <2>1. End(p) /\ disk' = disk /\ UNCHANGED exposed
    BY <1>13 DEF InitRefuse, Exit, storeVars
  <2>2. \A q \in Process : pc'[q] = "persisted" =>
           pc[q] = "persisted" /\ msg'[q] = msg[q] /\ loaded'[q] = loaded[q]
    BY <1>1, <2>1 DEF End, TypeOK
  <2> QED
    BY <1>5, <1>6, <2>1, <2>2, BurnStep
<1>14. ASSUME NEW p \in Process, Recover(p) PROVE FALSE
  BY <1>14 DEF Recover, SignerInv, OneTimeInv, SavedBehindFile
<1>15. ASSUME NEW g \in Host, LoseState(g) PROVE FALSE
  BY <1>15 DEF LoseState, SingleSigner
<1>16. ASSUME NEW g \in Host, PowerLoss(g) PROVE Signer!Next
  <2>1. g = h
    BY DEF SingleSigner
  <2>2. UNCHANGED exposed /\ \A p \in Process : pc'[p] = "idle"
    BY <1>2, <1>16, <2>1 DEF PowerLoss
  <2>3. PICK q \in disk[h] : disk'[h] = {q}
    BY <1>1, <1>16, <2>1 DEF PowerLoss, TypeOK
  <2>4. Floor' >= Floor
    BY <1>3, <1>4, <2>3
  <2> QED
    BY <2>2, <2>4, BurnStep
<1>17. ASSUME \/ \E tx \in inflight : Land(tx) \/ Drop(tx)
              \/ CatchUp
       PROVE  Signer!Next
  <2>1. disk' = disk /\ UNCHANGED <<pc, msg, loaded, exposed>>
    BY <1>17 DEF Land, Drop, CatchUp, storeVars, procVars
  <2> QED
    BY <1>5, <1>6, <2>1, BurnStep
<1>18. ASSUME UNCHANGED vars PROVE UNCHANGED Signer!vars
  <2>1. disk' = disk /\ UNCHANGED <<pc, msg, loaded, exposed>>
    BY <1>18 DEF vars, storeVars, procVars
  <2>2. Reservations' = Reservations
    BY <2>1 DEF Reservations
  <2> QED
    BY <1>5, <2>1, <2>2 DEF Signer!vars
<1> QED
  BY <1>7, <1>9, <1>10, <1>11, <1>12, <1>13, <1>14, <1>15, <1>16, <1>17, <1>18
     DEF Next, Proceed

\* Under the same conditions every step of the command line is one of the one-time
\* signer: the sync of the state file reserves a position that was not given out
\* before, the simulation shows the reserved message and no other, and every error,
\* crash and power loss at most burns positions (ImplementsSigner).
THEOREM CliImplementsSigner ==
    ASSUME SingleSigner, Host # {} PROVE Spec => ImplementsSigner
<1>1. Init => Signer!Init
  <2> SUFFICES ASSUME Init PROVE Signer!Init
    OBVIOUS
  <2>1. TheHost \in Host
    BY DEF TheHost
  <2>2. Floor = 0
    <3>1. {IF q = Absent THEN 0 ELSE q : q \in disk[TheHost]} = {0}
      BY <2>1 DEF Init
    <3> QED
      BY <3>1, MinIsLeast DEF Floor
  <2>3. Reservations = [q \in Position |-> {}]
    BY DEF Init, Reservations
  <2> QED
    BY <2>2, <2>3 DEF Init, Signer!Init
<1>2. Init => SignerInv
  BY InitOneTimeInv, InitStillOnDisk DEF SignerInv
<1>3. SignerInv /\ [Next]_vars => SignerInv'
  BY NextOneTimeInv, NextStillOnDisk DEF SignerInv
<1>4. SignerInv /\ SignerInv' /\ [Next]_vars => [Signer!Next]_(Signer!vars)
  BY SignerStep DEF SignerInv
<1> QED
  BY <1>1, <1>2, <1>3, <1>4, PTL DEF Spec, ImplementsSigner, Signer!Spec

-----------------------------------------------------------------------------
\* The ledger without closing: an executed message is behind the root.  What may
\* still be executed under root 0 is the tag of Initialize.
LedgerInv ==
    /\ TypeInv
    /\ \A p \in Process :
          /\ pc[p] = "idle" => cmd[p] # "advance"
          /\ cmd[p] = "advance" => msg[p] # InitTag
          /\ cmd[p] # "advance" => loaded[p] = 0
    /\ \A tx \in inflight : tx.msg = InitTag => tx.pos = 0
    /\ \A q \in Position : executed[q] # {} => chain > q
    /\ ExecutedOnce

LEMMA InitLedgerInv == Init => LedgerInv
BY InitTypeInv DEF Init, LedgerInv, ExecutedOnce

LEMMA NextLedgerInv == ASSUME Closing = {} PROVE LedgerInv /\ [Next]_vars => LedgerInv'
<1>. SUFFICES ASSUME LedgerInv, [Next]_vars PROVE LedgerInv'
  OBVIOUS
<1>. USE CliAssumption
<1>0. TypeInv' /\ TypeOK
  BY NextTypeInv DEF LedgerInv, TypeInv
<1>1. ASSUME NEW p \in Process, NEW c \in Command, NEW m \in Message \cup {InitTag},
             Start(p, c, m)
      PROVE  LedgerInv'
  BY <1>0, <1>1 DEF Start, Goto, LedgerInv, ExecutedOnce, TypeOK, chainVars
<1>2. ASSUME NEW p \in Process, End(p), UNCHANGED <<inflight, chain, executed>>
      PROVE  LedgerInv'
  BY <1>0, <1>2 DEF End, LedgerInv, ExecutedOnce, TypeOK
<1>3. ASSUME NEW p \in Process, NEW l \in Labels \ {"idle"}, Goto(p, l),
             UNCHANGED <<cmd, msg, inflight, chain, executed>>,
             \/ UNCHANGED loaded
             \/ cmd[p] = "advance" /\ \E q \in Position : loaded' = [loaded EXCEPT ![p] = q]
             \/ loaded' = [loaded EXCEPT ![p] = 0]
      PROVE  LedgerInv'
  BY <1>0, <1>3 DEF Goto, LedgerInv, ExecutedOnce, TypeOK
<1>4. ASSUME NEW p \in Process, Proceed(p) PROVE LedgerInv'
  <2>1. CASE InitCheck(p)
    BY <1>3, <2>1 DEF InitCheck, chainVars, Labels
  <2>2. CASE InitRefuse(p)
    BY <1>2, <2>2 DEF InitRefuse, chainVars
  <2>3. CASE Load(p)
    <3>1. file[HostOf[p]] \in Position
      BY <1>0, <2>3 DEF Load, TypeOK, Root
    <3>. QED
      BY <1>3, <2>3, <3>1 DEF Load, chainVars, Labels
  <2>4. CASE \E r \in views : Fetch(p, r)
    BY <1>3, <2>4 DEF Fetch, chainVars, Labels
  <2>5. CASE Sign(p)
    BY <1>3, <2>5 DEF Sign, chainVars, Labels
  <2>6. CASE Persist(p) \/ Recover(p)
    BY <1>3, <2>6 DEF Persist, Recover, Replace, chainVars, Labels
  <2>7. CASE Synced(p)
    BY <1>2, <1>3, <2>7 DEF Synced, chainVars, Labels
  <2>8. CASE Simulate(p)
    BY <1>3, <2>8 DEF Simulate, chainVars, Labels
  <2>9. CASE Send(p)
    BY <1>0, <2>9 DEF Send, Goto, LedgerInv, ExecutedOnce, TypeOK
  <2>. QED
    BY <1>4, <2>1, <2>2, <2>3, <2>4, <2>5, <2>6, <2>7, <2>8, <2>9 DEF Proceed
<1>5. ASSUME NEW p \in Process, Exit(p) PROVE LedgerInv'
  BY <1>2, <1>5 DEF Exit, chainVars
<1>6. ASSUME NEW tx \in inflight, Land(tx) PROVE LedgerInv'
  <2>1. tx.pos \in Position /\ tx.msg \in Message \cup {InitTag} /\ tx.pos \in Nat
    BY <1>0 DEF TypeOK, Tx, Position
  <2>2. chain' > tx.pos
    BY <1>6, <2>1 DEF Land, NextRoot, LedgerInv
  <2>3. chain' >= chain
    <3>1. CASE tx.msg = InitTag
      BY <1>6, <3>1 DEF Land, Accepts, NextRoot, Absent
    <3>2. CASE tx.msg # InitTag
      BY <1>6, <2>1, <3>2 DEF Land, Accepts, NextRoot
    <3>. QED
      BY <3>1, <3>2
  <2>4. executed[tx.pos] = {}
    <3>1. ~(chain > tx.pos)
      BY <1>6, <2>1 DEF Land, Accepts, Absent
    <3>. QED
      BY <2>1, <3>1 DEF LedgerInv
  <2>5. executed' = [executed EXCEPT ![tx.pos] = {tx.msg}]
    BY <1>0, <1>6, <2>1, <2>4 DEF Land, TypeOK
  <2>6. \A q \in Position : executed'[q] # {} => chain' > q
    <3>1. chain \in Int /\ chain' \in Int /\ \A q \in Position : q \in Int
      BY <1>0 DEF TypeInv, TypeOK, Root, Position, Absent
    <3>. QED
      BY <1>0, <2>2, <2>3, <2>5, <3>1 DEF LedgerInv, TypeOK
  <2>7. ExecutedOnce'
    BY <1>0, <2>5 DEF LedgerInv, ExecutedOnce, TypeOK
  <2>. QED
    BY <1>0, <1>6, <2>6, <2>7 DEF Land, LedgerInv, procVars
<1>7. ASSUME NEW tx \in inflight, Drop(tx) PROVE LedgerInv'
  BY <1>0, <1>7 DEF Drop, LedgerInv, ExecutedOnce, procVars
<1>8. ASSUME CatchUp \/ UNCHANGED vars \/ \E h \in Host : LoseState(h) PROVE LedgerInv'
  BY <1>0, <1>8 DEF CatchUp, LoseState, vars, procVars, chainVars, LedgerInv, ExecutedOnce
<1>9. ASSUME NEW h \in Host, PowerLoss(h) PROVE LedgerInv'
  BY <1>0, <1>9 DEF PowerLoss, chainVars, LedgerInv, ExecutedOnce
<1>. QED
  BY <1>1, <1>4, <1>5, <1>6, <1>7, <1>8, <1>9 DEF Next

\* As long as no wallet is closed, the ledger executes at most one message under
\* one root (ExecutedOnce): for any number of hosts with one mnemonic, with recover,
\* with lost state directories and power losses.
THEOREM OncePerRoot == ASSUME Closing = {} PROVE Spec => []ExecutedOnce
<1>1. LedgerInv => ExecutedOnce
  BY DEF LedgerInv
<1>. QED
  BY <1>1, InitLedgerInv, NextLedgerInv, PTL DEF Spec

-----------------------------------------------------------------------------
\* The state file of host h as the register that module StateStore implements.
Register(h) == INSTANCE DurablePosition WITH
    Position <- Position, Absent <- Absent,
    value <- file[h], survivors <- disk[h], settled <- TRUE

\* Every command uses the state file of its host as DurablePosition allows
\* (Register): replaced, confirmed, or brought back by a power loss.
THEOREM UsesRegister ==
    ASSUME ~StateLoss, NEW h \in Host PROVE Spec => Register(h)!Spec
<1>. USE CliAssumption
<1>1. Init => Register(h)!Init
  BY DEF Init, Register!Init
<1>2. TypeInv /\ [Next]_vars => [Register(h)!Next]_(Register(h)!vars)
  <2>. SUFFICES ASSUME TypeInv, [Next]_vars,
                       ~ UNCHANGED <<file[h], disk[h]>>
                PROVE  Register(h)!Next
    BY DEF Register!vars
  <2>1. ASSUME NEW p \in Process, NEW q \in Position, Replace(p, q) PROVE Register(h)!Next
    BY <2>1 DEF Replace, Register!Next, Register!Replace, TypeInv, TypeOK
  <2>2. ASSUME NEW p \in Process, Synced(p) PROVE Register(h)!Next
    BY <2>2 DEF Synced, Register!Next, Register!Confirm, TypeInv, TypeOK
  <2>3. ASSUME NEW g \in Host, PowerLoss(g) PROVE Register(h)!Next
    BY <2>3 DEF PowerLoss, Register!Next, Register!Lose, TypeInv, TypeOK
  <2>4. ASSUME NEW p \in Process, Persist(p) PROVE Register(h)!Next
    <3>1. Successor(loaded[p]) \in Position
      BY <2>4 DEF Persist, Successor, TypeInv, RoomForNext, Signing
    <3>. QED
      BY <2>1, <2>4, <3>1 DEF Persist
  <2>5. ASSUME NEW p \in Process, Recover(p) PROVE Register(h)!Next
    <3>1. Found(seen[p]) \in Position
      BY <2>5 DEF Recover, Found, TypeInv, TypeOK, Root, Absent
    <3>. QED
      BY <2>1, <2>5, <3>1 DEF Recover
  <2>6. ASSUME NEW p \in Process, NEW c \in Command, NEW m \in Message \cup {InitTag},
               Start(p, c, m)
        PROVE  FALSE
    BY <2>6 DEF Start, storeVars
  <2>7. ASSUME NEW p \in Process,
               \/ InitCheck(p) \/ InitRefuse(p) \/ Load(p) \/ Sign(p) \/ Simulate(p)
               \/ Send(p) \/ Exit(p) \/ \E r \in views : Fetch(p, r)
        PROVE  FALSE
    BY <2>7 DEF InitCheck, InitRefuse, Load, Sign, Simulate, Send, Exit, Fetch, storeVars
  <2>8. ASSUME NEW tx \in inflight, Land(tx) \/ Drop(tx) PROVE FALSE
    BY <2>8 DEF Land, Drop, storeVars
  <2>9. ASSUME CatchUp \/ UNCHANGED vars PROVE FALSE
    BY <2>9 DEF CatchUp, vars, storeVars
  <2>10. ~ \E g \in Host : LoseState(g)
    BY DEF LoseState
  <2>. QED
    BY <2>2, <2>3, <2>4, <2>5, <2>6, <2>7, <2>8, <2>9, <2>10 DEF Next, Proceed
<1>. QED
  BY <1>1, <1>2, InitTypeInv, NextTypeInv, PTL DEF Spec, Register!Spec
=============================================================================
