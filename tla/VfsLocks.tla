------------------------------ MODULE VfsLocks ------------------------------
(***************************************************************************)
(* The lock manager of the sqlite VFS (sqlite/vfs.go).  A file is one open *)
(* aferoFile or memoryFile; files of the same name share a lockState.  A   *)
(* lock that is refused (SQLITE_BUSY) changes nothing.  SQLite asks for    *)
(* levels in its own order: shared first, reserved from shared, exclusive  *)
(* from any of them, and it gives back down to shared or to nothing.       *)
(***************************************************************************)
EXTENDS Integers

CONSTANTS Files, Names, nameOf, NoFile

ASSUME FilesAssumption == nameOf \in [Files -> Names] /\ NoFile \notin Files

VARIABLES
    opened,      \* the files that are open
    lock,        \* the lock field of a file
    shared, reserved, pending, exclusive   \* the lockState of a name

lockVars == <<opened, lock, shared, reserved, pending, exclusive>>

NONE == 0
SHARED == 1
RESERVED == 2
PENDING == 3
EXCLUSIVE == 4

\* A name without a lockState has an empty one.
LocksInit ==
    /\ opened = {}
    /\ lock = [f \in Files |-> NONE]
    /\ shared = [n \in Names |-> {}]
    /\ reserved = [n \in Names |-> NoFile]
    /\ pending = [n \in Names |-> NoFile]
    /\ exclusive = [n \in Names |-> NoFile]

mine(holder, f) == holder[nameOf[f]] \in {NoFile, f}

vfsOpen(f) ==
    /\ f \notin opened
    /\ opened' = opened \cup {f}
    /\ UNCHANGED <<lock, shared, reserved, pending, exclusive>>

lockShared(f) ==
    /\ f \in opened /\ lock[f] = NONE
    /\ mine(exclusive, f) /\ mine(pending, f)
    /\ shared' = [shared EXCEPT ![nameOf[f]] = @ \cup {f}]
    /\ lock' = [lock EXCEPT ![f] = SHARED]
    /\ UNCHANGED <<opened, reserved, pending, exclusive>>

lockReserved(f) ==
    /\ f \in opened /\ lock[f] = SHARED
    /\ mine(exclusive, f) /\ mine(reserved, f)
    /\ shared' = [shared EXCEPT ![nameOf[f]] = @ \cup {f}]
    /\ reserved' = [reserved EXCEPT ![nameOf[f]] = f]
    /\ lock' = [lock EXCEPT ![f] = RESERVED]
    /\ UNCHANGED <<opened, pending, exclusive>>

lockPending(f) ==
    /\ f \in opened /\ lock[f] = RESERVED
    /\ mine(exclusive, f) /\ mine(pending, f)
    /\ shared' = [shared EXCEPT ![nameOf[f]] = @ \cup {f}]
    /\ pending' = [pending EXCEPT ![nameOf[f]] = f]
    /\ lock' = [lock EXCEPT ![f] = PENDING]
    /\ UNCHANGED <<opened, reserved, exclusive>>

\* Faulty variant: the other readers are not looked at.
ExclusiveOverReaders(f) ==
    /\ f \in opened /\ lock[f] \in SHARED..PENDING
    /\ mine(exclusive, f) /\ mine(reserved, f) /\ mine(pending, f)
    /\ exclusive' = [exclusive EXCEPT ![nameOf[f]] = f]
    /\ shared' = [shared EXCEPT ![nameOf[f]] = @ \ {f}]
    /\ lock' = [lock EXCEPT ![f] = EXCLUSIVE]
    /\ UNCHANGED <<opened, reserved, pending>>

\* The holder leaves the readers: nobody else is among them.
lockExclusive(f) ==
    /\ f \in opened /\ lock[f] \in SHARED..PENDING
    /\ mine(exclusive, f) /\ mine(reserved, f) /\ mine(pending, f)
    /\ shared[nameOf[f]] \subseteq {f}
    /\ exclusive' = [exclusive EXCEPT ![nameOf[f]] = f]
    /\ shared' = [shared EXCEPT ![nameOf[f]] = @ \ {f}]
    /\ lock' = [lock EXCEPT ![f] = EXCLUSIVE]
    /\ UNCHANGED <<opened, reserved, pending>>

Without(holder, f) ==
    [holder EXCEPT ![nameOf[f]] = IF @ = f THEN NoFile ELSE @]

\* To shared or to nothing; the exclusive holder is a reader again.
unlock(f, level) ==
    /\ level < lock[f]
    /\ exclusive' = Without(exclusive, f)
    /\ pending' = Without(pending, f)
    /\ reserved' = Without(reserved, f)
    /\ shared' = [shared EXCEPT ![nameOf[f]] = IF level = NONE THEN @ \ {f} ELSE @ \cup {f}]
    /\ lock' = [lock EXCEPT ![f] = level]

vfsUnlock(f, level) == f \in opened /\ unlock(f, level) /\ UNCHANGED opened

\* Close gives back whatever is held.
vfsClose(f) ==
    /\ f \in opened
    /\ opened' = opened \ {f}
    /\ unlock(f, NONE) \/ (lock[f] = NONE /\ UNCHANGED <<lock, shared, reserved, pending, exclusive>>)

LocksNext ==
    \E f \in Files :
        \/ vfsOpen(f) \/ vfsClose(f)
        \/ lockShared(f) \/ lockReserved(f) \/ lockPending(f) \/ lockExclusive(f)
        \/ \E level \in {NONE, SHARED} : vfsUnlock(f, level)

LocksSpec == LocksInit /\ [][LocksNext]_lockVars

CheckReservedLock(f) == reserved[nameOf[f]] # NoFile

-----------------------------------------------------------------------------
\* What SQLite relies on, for the files of one database: the holder of an
\* exclusive lock is alone, there is one writer to be, and a reader that asks
\* (CheckReservedLock) is told of it, also after exclusive locks that were
\* taken from shared and after files that were closed with a lock held.
LocksExclude ==
    /\ \A f, g \in Files :
          nameOf[f] = nameOf[g] /\ f # g =>
              /\ lock[f] = EXCLUSIVE => lock[g] = NONE
              /\ lock[f] >= RESERVED => lock[g] < RESERVED
    /\ \A f \in Files :
          lock[f] = SHARED =>
              (CheckReservedLock(f) <=> \E g \in Files : nameOf[g] = nameOf[f] /\ lock[g] >= RESERVED)
=============================================================================
