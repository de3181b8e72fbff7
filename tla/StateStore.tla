----------------------------- MODULE StateStore -----------------------------
(***************************************************************************)
(* The state file of one wallet (cli/src/state.rs): processes of one host  *)
(* take the lock, write a temporary file named after their pid, sync it,   *)
(* rename it over the state file and sync the directory.  Any call may     *)
(* fail, any process may be killed, and the machine may lose power: then   *)
(* what was not synced may or may not be on the disk.                      *)
(***************************************************************************)
EXTENDS Integers

CONSTANTS
    Process,    \* processes by pid; a pid is used again after its process ended
    Position    \* contents of a complete state file

Absent == "absent"      \* no such file
Torn == "torn"          \* a file that does not parse
Empty == "empty"        \* a file just created or truncated
Nobody == "nobody"
Content == Position \cup {Torn}

ASSUME StoreAssumption ==
    /\ {Absent, Torn, Empty} \cap Position = {}
    /\ Nobody \notin Process

VARIABLES
    dir,        \* the directory: "absent", "unsynced" (in $HOME), "synced"
    holder,     \* the process that holds the lock
    pc,         \* pc[p]: how far save has come
    value,      \* value[p]: the position p saves
    tmp,        \* tmp[p]: the temporary file of pid p
    file,       \* the state file, as the kernel shows it
    disk,       \* what the state file may be after a power loss
    acked       \* history: the position save returned Ok for, until the next rename
                \* or the loss of the whole directory

vars == <<dir, holder, pc, value, tmp, file, disk, acked>>

-----------------------------------------------------------------------------
Init ==
    /\ dir \in {"absent", "synced"}
    /\ holder = Nobody
    /\ pc = [p \in Process |-> "idle"]
    /\ value = [p \in Process |-> Absent]
    /\ tmp = [p \in Process |-> Absent]
    /\ file = Absent
    /\ disk = {Absent}
    /\ acked = Absent

Goto(p, l) == pc' = [pc EXCEPT ![p] = l]

\* The process is gone; its lock with it.
End(p) ==
    /\ Goto(p, "idle")
    /\ value' = [value EXCEPT ![p] = Absent]
    /\ holder' = Nobody

\* acquire_lock; ensure_state_dir makes the directory.
AcquireLock(p) ==
    /\ pc[p] = "idle" /\ holder = Nobody
    /\ holder' = p
    /\ dir' = (IF dir = "absent" THEN "unsynced" ELSE dir)
    /\ Goto(p, "locked")
    /\ UNCHANGED <<value, tmp, file, disk, acked>>

\* save: the temporary file is created or truncated.
OpenedUntruncated(p) ==                 \* mutant: truncate(true) is missing
    IF tmp[p] = Absent THEN Empty ELSE tmp[p]
Opened(p) == Empty
Open(p, q) ==
    /\ pc[p] = "locked"
    /\ value' = [value EXCEPT ![p] = q]
    /\ tmp' = [tmp EXCEPT ![p] = Opened(p)]
    /\ Goto(p, "opened")
    /\ UNCHANGED <<dir, holder, file, disk, acked>>

\* write_all: over what is left of an older file, the contents do not parse.
Write(p) ==
    /\ pc[p] = "opened"
    /\ tmp' = [tmp EXCEPT ![p] = IF @ = Empty THEN value[p] ELSE Torn]
    /\ Goto(p, "written")
    /\ UNCHANGED <<dir, holder, value, file, disk, acked>>

\* write_all or a call after it fails, or the process is killed while it writes.
WriteFails(p) ==
    /\ pc[p] = "opened"
    /\ tmp' = [tmp EXCEPT ![p] = Torn]
    /\ Goto(p, "failed")
    /\ UNCHANGED <<dir, holder, value, file, disk, acked>>

\* sync_all of the temporary file.
SyncFile(p) ==
    /\ pc[p] = "written"
    /\ Goto(p, "synced")
    /\ UNCHANGED <<dir, holder, value, tmp, file, disk, acked>>

\* rename: the state file is the old one or the new one; data that was not
\* synced may be missing behind the new name.
RenamesUnsynced(p) == pc[p] \in {"written", "synced"}   \* mutant: no sync_all
RenamesUnwritten(p) == pc[p] \in {"opened", "synced"}   \* mutant: write_all ignored
MayRename(p) == pc[p] = "synced"
OnDisk(p) == IF pc[p] = "synced" THEN {tmp[p]} ELSE {tmp[p], Torn}
Rename(p) ==
    /\ MayRename(p)
    /\ file' = tmp[p]
    /\ disk' = disk \cup OnDisk(p)
    /\ tmp' = [tmp EXCEPT ![p] = Absent]
    /\ acked' = Absent
    /\ Goto(p, "renamed")
    /\ UNCHANGED <<dir, holder, value>>

\* sync_all of the directory: save returns Ok.
SyncNothing == disk                     \* mutant: the directory is not synced
SyncedEntry == {file}
SyncDir(p) ==
    /\ pc[p] = "renamed"
    /\ disk' = SyncedEntry
    /\ acked' = value[p]
    /\ Goto(p, "saved")
    /\ UNCHANGED <<dir, holder, value, tmp, file>>

\* Any of the calls returns an error: the temporary file is removed if that
\* works, and save returns the error.
Fail(p) ==
    /\ pc[p] \in {"opened", "written", "synced", "renamed", "failed"}
    /\ tmp' \in {tmp, [tmp EXCEPT ![p] = Absent]}
    /\ End(p)
    /\ UNCHANGED <<dir, file, disk, acked>>

\* The command returns, or is killed with its temporary file left behind.
Exit(p) ==
    /\ pc[p] # "idle"
    /\ End(p)
    /\ UNCHANGED <<dir, tmp, file, disk, acked>>

\* The machine stops.  A directory whose entry in $HOME was never synced may be
\* gone with everything in it.
Stop ==
    /\ holder' = Nobody
    /\ pc' = [p \in Process |-> "idle"]
    /\ value' = [p \in Process |-> Absent]

PowerLoss ==
    /\ dir # "absent"
    /\ dir' = "synced"
    /\ file' \in disk
    /\ disk' = {file'}
    /\ tmp' = [p \in Process |-> IF tmp[p] = Absent THEN Absent ELSE Torn]
    /\ Stop
    /\ UNCHANGED acked

LoseDirectory ==
    /\ dir = "unsynced"
    /\ dir' = "absent"
    /\ file' = Absent
    /\ disk' = {Absent}
    /\ tmp' = [p \in Process |-> Absent]
    /\ acked' = Absent
    /\ Stop

Next ==
    \/ \E p \in Process :
          \/ AcquireLock(p)
          \/ \E q \in Position : Open(p, q)
          \/ Write(p) \/ WriteFails(p) \/ SyncFile(p) \/ Rename(p) \/ SyncDir(p)
          \/ Fail(p) \/ Exit(p)
    \/ PowerLoss
    \/ LoseDirectory

Spec == Init /\ [][Next]_vars

-----------------------------------------------------------------------------
\* Files, processes and the lock are of their types; only its holder is busy.
TypeOK ==
    /\ dir \in {"absent", "unsynced", "synced"}
    /\ holder \in Process \cup {Nobody}
    /\ pc \in [Process -> {"idle", "locked", "opened", "written", "synced",
                           "renamed", "saved", "failed"}]
    /\ value \in [Process -> Position \cup {Absent}]
    /\ tmp \in [Process -> Content \cup {Absent, Empty}]
    /\ file \in Content \cup {Absent}
    /\ disk \subseteq Content \cup {Absent}
    /\ acked \in Position \cup {Absent}

\* state.rs: an interrupted process, or machine, does not corrupt the position
\* file; not over a temporary file that an earlier process of the same pid left.
NeverTorn == file # Torn /\ Torn \notin disk

\* wallet.rs: a position that was persisted is durable.  From the moment save
\* returned Ok until the file is replaced again, loads return that position; the
\* one exception is a directory that never was synced and goes as a whole.
SavedIsDurable == acked # Absent => file = acked

\* The durable position this store keeps.
Register == INSTANCE DurablePosition WITH
    value <- file,
    survivors <- disk,
    settled <- (dir = "synced")

\* Temporary file, sync, rename and directory sync implement a position that is
\* replaced at once, also over failed saves, killed processes and power losses.
ImplementsRegister == Register!Spec

\* Behind these: one save at a time, what it has done so far, and what the disk may
\* hold while an acknowledged position stands.
HolderSaves == \A p \in Process : pc[p] # "idle" => holder = p
SaveInProgress ==
    \A p \in Process :
        /\ pc[p] \in {"opened", "written", "synced", "renamed"} => value[p] \in Position
        /\ pc[p] = "opened" => tmp[p] = Empty
        /\ pc[p] \in {"written", "synced"} => tmp[p] = value[p]
        /\ pc[p] = "renamed" => file = value[p]
AckedKept == acked # Absent => disk = {acked} /\ file = acked
=============================================================================
