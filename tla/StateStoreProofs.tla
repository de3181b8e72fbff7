-------------------------- MODULE StateStoreProofs --------------------------
(***************************************************************************)
(* A state file is never torn, and a position that save acknowledged is    *)
(* durable, for any processes and positions.                               *)
(***************************************************************************)
EXTENDS StateStore, TLAPS

USE StoreAssumption

Inv ==
    /\ TypeOK
    /\ NeverTorn
    /\ HolderSaves
    /\ SaveInProgress
    /\ AckedKept

LEMMA InitInv == Init => Inv
BY DEF Init, Inv, TypeOK, NeverTorn, HolderSaves, SaveInProgress, AckedKept,
       Content, Absent, Torn, Empty, Nobody

\* The end of a process disturbs nothing but its own place in save.
LEMMA EndKeeps ==
    ASSUME Inv, NEW p \in Process, pc[p] # "idle", End(p),
           tmp' \in {tmp, [tmp EXCEPT ![p] = Absent]},
           UNCHANGED <<dir, file, disk, acked>>
    PROVE  Inv'
<1>1. /\ pc' = [pc EXCEPT ![p] = "idle"] /\ value' = [value EXCEPT ![p] = Absent]
      /\ holder' = Nobody
  BY DEF End, Goto
<1>2. TypeOK'
  BY <1>1 DEF Inv, TypeOK
<1>3. \A r \in Process : pc'[r] = "idle"
  <2>1. \A r \in Process : r # p => pc[r] = "idle"
    BY DEF Inv, HolderSaves
  <2> QED
    BY <1>1, <2>1 DEF Inv, TypeOK
<1>4. HolderSaves' /\ SaveInProgress'
  BY <1>3 DEF HolderSaves, SaveInProgress
<1> QED
  BY <1>2, <1>4 DEF Inv, NeverTorn, AckedKept

\* A step of the process in save: the others are idle, so what is left to show
\* is what the step does to its own progress and to the files.
LEMMA OthersIdle ==
    ASSUME Inv, NEW p \in Process, pc[p] # "idle"
    PROVE  holder = p /\ \A r \in Process \ {p} : pc[r] = "idle"
BY DEF Inv, HolderSaves

LEMMA NextInv == Inv /\ [Next]_vars => Inv'
<1> SUFFICES ASSUME Inv, [Next]_vars PROVE Inv'
  OBVIOUS
<1> USE DEF Inv, Goto
<1>1. ASSUME NEW p \in Process, AcquireLock(p) PROVE Inv'
  <2>1. \A r \in Process : pc[r] = "idle"
    BY <1>1 DEF AcquireLock, HolderSaves
  <2>2. TypeOK'
    BY <1>1 DEF AcquireLock, TypeOK
  <2>3. HolderSaves' /\ SaveInProgress'
    BY <1>1, <2>1 DEF AcquireLock, HolderSaves, SaveInProgress, TypeOK
  <2> QED
    BY <1>1, <2>2, <2>3 DEF AcquireLock, NeverTorn, AckedKept
<1>2. ASSUME NEW p \in Process, NEW q \in Position, Open(p, q) PROVE Inv'
  <2>1. holder = p /\ \A r \in Process \ {p} : pc[r] = "idle"
    BY <1>2, OthersIdle DEF Open
  <2>2. TypeOK'
    BY <1>2 DEF Open, Opened, TypeOK
  <2>3. HolderSaves' /\ SaveInProgress'
    BY <1>2, <2>1 DEF Open, Opened, HolderSaves, SaveInProgress, TypeOK
  <2> QED
    BY <1>2, <2>2, <2>3 DEF Open, NeverTorn, AckedKept
<1>3. ASSUME NEW p \in Process, Write(p) PROVE Inv'
  <2>1. holder = p /\ \A r \in Process \ {p} : pc[r] = "idle"
    BY <1>3, OthersIdle DEF Write
  <2>2. tmp' = [tmp EXCEPT ![p] = value[p]] /\ value[p] \in Position
    BY <1>3 DEF Write, SaveInProgress, TypeOK
  <2>3. TypeOK'
    BY <1>3, <2>2 DEF Write, TypeOK, Content
  <2>4. HolderSaves' /\ SaveInProgress'
    BY <1>3, <2>1, <2>2 DEF Write, HolderSaves, SaveInProgress, TypeOK
  <2> QED
    BY <1>3, <2>3, <2>4 DEF Write, NeverTorn, AckedKept
<1>4. ASSUME NEW p \in Process, WriteFails(p) PROVE Inv'
  <2>1. holder = p /\ \A r \in Process \ {p} : pc[r] = "idle"
    BY <1>4, OthersIdle DEF WriteFails
  <2>2. TypeOK'
    BY <1>4 DEF WriteFails, TypeOK, Content
  <2>3. HolderSaves' /\ SaveInProgress'
    BY <1>4, <2>1 DEF WriteFails, HolderSaves, SaveInProgress, TypeOK
  <2> QED
    BY <1>4, <2>2, <2>3 DEF WriteFails, NeverTorn, AckedKept
<1>5. ASSUME NEW p \in Process, SyncFile(p) PROVE Inv'
  <2>1. TypeOK'
    BY <1>5 DEF SyncFile, TypeOK
  <2>2. HolderSaves' /\ SaveInProgress'
    BY <1>5 DEF SyncFile, HolderSaves, SaveInProgress, TypeOK
  <2> QED
    BY <1>5, <2>1, <2>2 DEF SyncFile, NeverTorn, AckedKept
<1>6. ASSUME NEW p \in Process, Rename(p) PROVE Inv'
  <2>1. holder = p /\ \A r \in Process \ {p} : pc[r] = "idle"
    BY <1>6, OthersIdle DEF Rename, MayRename
  <2>2. tmp[p] = value[p] /\ value[p] \in Position
    BY <1>6 DEF Rename, MayRename, SaveInProgress
  <2>3. /\ file' = value[p] /\ disk' = disk \cup {value[p]}
        /\ pc' = [pc EXCEPT ![p] = "renamed"] /\ acked' = Absent
        /\ tmp' = [tmp EXCEPT ![p] = Absent] /\ UNCHANGED <<dir, holder, value>>
    BY <1>6, <2>2 DEF Rename, MayRename, OnDisk
  <2>4. TypeOK'
    BY <2>2, <2>3 DEF TypeOK, Content
  <2>5. NeverTorn'
    BY <2>2, <2>3 DEF NeverTorn
  <2>6. HolderSaves' /\ SaveInProgress'
    BY <2>1, <2>2, <2>3 DEF HolderSaves, SaveInProgress, TypeOK
  <2> QED
    BY <2>3, <2>4, <2>5, <2>6 DEF AckedKept
<1>7. ASSUME NEW p \in Process, SyncDir(p) PROVE Inv'
  <2>1. holder = p /\ \A r \in Process \ {p} : pc[r] = "idle"
    BY <1>7, OthersIdle DEF SyncDir
  <2>2. file = value[p] /\ value[p] \in Position
    BY <1>7 DEF SyncDir, SaveInProgress
  <2>3. TypeOK' /\ NeverTorn' /\ AckedKept'
    BY <1>7, <2>2 DEF SyncDir, SyncedEntry, TypeOK, Content, NeverTorn, AckedKept
  <2>4. HolderSaves' /\ SaveInProgress'
    BY <1>7, <2>1 DEF SyncDir, HolderSaves, SaveInProgress, TypeOK
  <2> QED
    BY <1>7, <2>3, <2>4 DEF SyncDir
<1>8. ASSUME NEW p \in Process, Fail(p) PROVE Inv'
  BY <1>8, EndKeeps DEF Fail
<1>9. ASSUME NEW p \in Process, Exit(p) PROVE Inv'
  BY <1>9, EndKeeps DEF Exit
<1>10. ASSUME Stop PROVE HolderSaves' /\ SaveInProgress'
  BY <1>10 DEF Stop, HolderSaves, SaveInProgress
<1>11. CASE PowerLoss
  <2>1. TypeOK'
    BY <1>11 DEF PowerLoss, Stop, TypeOK, Content
  <2>2. NeverTorn' /\ AckedKept'
    BY <1>11 DEF PowerLoss, Stop, NeverTorn, AckedKept
  <2> QED
    BY <1>10, <1>11, <2>1, <2>2 DEF PowerLoss
<1>12. CASE LoseDirectory
  <2>1. TypeOK'
    BY <1>12 DEF LoseDirectory, Stop, TypeOK
  <2>2. NeverTorn' /\ AckedKept'
    BY <1>12 DEF LoseDirectory, Stop, NeverTorn, AckedKept,
                 Absent, Torn
  <2> QED
    BY <1>10, <1>12, <2>1, <2>2 DEF LoseDirectory
<1>13. CASE UNCHANGED vars
  BY <1>13 DEF vars, TypeOK, NeverTorn, HolderSaves, SaveInProgress, AckedKept
<1> QED
  BY <1>1, <1>2, <1>3, <1>4, <1>5, <1>6, <1>7, <1>8, <1>9, <1>11, <1>12, <1>13 DEF Next

\* The store's files, processes and lock are of their types.
THEOREM StoreType == Spec => []TypeOK
<1>1. Inv => TypeOK
  BY DEF Inv
<1> QED
  BY <1>1, InitInv, NextInv, PTL DEF Spec

\* No failure, kill or power loss leaves a state file that does not parse.
THEOREM Untorn == Spec => []NeverTorn
<1>1. Inv => NeverTorn
  BY DEF Inv
<1> QED
  BY <1>1, InitInv, NextInv, PTL DEF Spec

\* A position that save acknowledged is what loads return until it is replaced,
\* also after failed saves, kills and power losses.
THEOREM Durable == Spec => []SavedIsDurable
<1>1. Inv => SavedIsDurable
  BY DEF Inv, AckedKept, SavedIsDurable
<1> QED
  BY <1>1, InitInv, NextInv, PTL DEF Spec

LEMMA RegisterStep == Inv /\ [Next]_vars => [Register!Next]_(Register!vars)
<1> SUFFICES ASSUME Inv, [Next]_vars PROVE [Register!Next]_(Register!vars)
  OBVIOUS
<1> DEFINE Same == UNCHANGED <<dir, file, disk>>
<1> USE DEF Register!Next, Register!vars
<1>1. Same => UNCHANGED Register!vars
  OBVIOUS
<1>2. ASSUME NEW p \in Process, AcquireLock(p) PROVE UNCHANGED Register!vars
  BY <1>2 DEF AcquireLock
<1>3. ASSUME NEW p \in Process, NEW q \in Position, Open(p, q) PROVE Same
  BY <1>3 DEF Open
<1>4. ASSUME NEW p \in Process, Rename(p) PROVE Register!Next
  <2>1. tmp[p] = value[p] /\ value[p] \in Position
    BY <1>4 DEF Rename, MayRename, Inv, SaveInProgress
  <2>2. Register!Replace(value[p])
    BY <1>4, <2>1 DEF Rename, MayRename, OnDisk, Register!Replace
  <2> QED
    BY <2>1, <2>2
<1>5. ASSUME NEW p \in Process, SyncDir(p) PROVE Register!Confirm
  BY <1>5 DEF SyncDir, SyncedEntry, Register!Confirm
<1>6. ASSUME PowerLoss PROVE Register!Lose
  BY <1>6 DEF PowerLoss, Register!Lose
<1>7. ASSUME LoseDirectory PROVE Register!Vanish
  BY <1>7 DEF LoseDirectory, Register!Vanish
<1>8. ASSUME UNCHANGED vars PROVE Same
  BY <1>8 DEF vars
<1>9. ASSUME NEW p \in Process, Write(p) \/ WriteFails(p) \/ SyncFile(p) \/ Fail(p) \/ Exit(p)
      PROVE  Same
  BY <1>9 DEF Write, WriteFails, SyncFile, Fail, Exit
<1> QED
  BY <1>1, <1>2, <1>3, <1>4, <1>5, <1>6, <1>7, <1>8, <1>9 DEF Next

\* The store implements a position that is replaced at once: every rename is a
\* replacement, the sync of the directory its confirmation, and the other calls,
\* failures and kills change nothing a load can see.
THEOREM StoreImplementsRegister == Spec => ImplementsRegister
<1>1. Init => Register!Init
  BY DEF Init, Register!Init
<1> QED
  BY <1>1, InitInv, NextInv, RegisterStep, PTL
     DEF Spec, ImplementsRegister, Register!Spec
=============================================================================
