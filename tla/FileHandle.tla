----------------------------- MODULE FileHandle -----------------------------
(***************************************************************************)
(* fs/core.go, FileHandle: one open file shared by the JavaScript thread   *)
(* (the *Sync methods, close) and any number of goroutines (promise calls, *)
(* stream reads and writes, closeAndWait).  Operations are serialized by   *)
(* opMu; Close never waits for one: if an operation is active the physical *)
(* close is left to its finishOperation.                                   *)
(*                                                                         *)
(* A section under stateMu is one step.  Read, Write, WriteAll, Seek,      *)
(* Truncate, Stat, Sync, Chtimes and Readdir differ in what they do to the *)
(* file only; each is withOpen around it, here Call/Begin/Finish/Unlock.   *)
(***************************************************************************)
EXTENDS Naturals, FiniteSets

CONSTANTS Callers,    \* the goroutines that use the handle
          NoCaller    \* opMu is free

ASSUME CallerAssumption == NoCaller \notin Callers

VARIABLES
  pc,              \* where each caller is
  opMu,            \* the caller that holds opMu
  active,          \* f.active
  closeRequested,  \* f.closeRequested
  closeStarted,    \* f.closeStarted
  closeErr,        \* f.closeErr: "nil" or "err"
  closeDone,       \* f.closeDone is closed
  file,            \* the physical file: "open" or "closed"
  closes,          \* how often file.Close was called
  fileErr,         \* what file.Close returned, until completeClose stores it
  waits            \* callers in closeAndWait, as opposed to Close

vars == <<pc, opMu, active, closeRequested, closeStarted, closeErr, closeDone, file, closes,
          fileErr, waits>>
flags == <<active, closeRequested, closeStarted>>

Init ==
  /\ pc = [c \in Callers |-> "idle"] /\ opMu = NoCaller
  /\ active = FALSE /\ closeRequested = FALSE /\ closeStarted = FALSE
  /\ closeErr = "nil" /\ closeDone = FALSE
  /\ file = "open" /\ closes = 0 /\ fileErr = "nil" /\ waits = {}

Goto(c, where) == pc' = [pc EXCEPT ![c] = where]

-----------------------------------------------------------------------------
(* withOpen.                                                               *)

Call(c) ==
  /\ pc[c] = "idle"
  /\ Goto(c, "lock")
  /\ UNCHANGED <<opMu, flags, closeErr, closeDone, file, closes, fileErr, waits>>

\* beginOperation: f.opMu.Lock() ...
LockOp(c) ==
  /\ pc[c] = "lock"
  /\ opMu = NoCaller
  /\ opMu' = c
  /\ Goto(c, "begin")
  /\ UNCHANGED <<flags, closeErr, closeDone, file, closes, fileErr, waits>>

\* ... then refuse with ErrClosedHandle or become active.
Begin(c) ==
  /\ pc[c] = "begin"
  /\ Goto(c, IF closeRequested THEN "unlock" ELSE "busy")
  /\ active' = (active \/ ~closeRequested)
  /\ UNCHANGED <<opMu, closeRequested, closeStarted, closeErr, closeDone, file, closes, fileErr, waits>>

\* Faulty variant: the deferred close is forgotten.
FinishNeverCloses(c) ==
  /\ pc[c] = "busy"
  /\ active' = FALSE
  /\ Goto(c, "unlock")
  /\ UNCHANGED <<opMu, closeRequested, closeStarted, closeErr, closeDone, file, closes, fileErr, waits>>

\* The operation returns; finishOperation takes over a close requested meanwhile.
Finish(c) ==
  /\ pc[c] = "busy"
  /\ active' = FALSE
  /\ closeStarted' = (closeStarted \/ closeRequested)
  /\ Goto(c, IF closeRequested /\ ~closeStarted THEN "close" ELSE "unlock")
  /\ UNCHANGED <<opMu, closeRequested, closeErr, closeDone, file, closes, fileErr, waits>>

Unlock(c) ==
  /\ pc[c] = "unlock"
  /\ opMu' = NoCaller
  /\ Goto(c, "idle")
  /\ UNCHANGED <<flags, closeErr, closeDone, file, closes, fileErr, waits>>

-----------------------------------------------------------------------------
(* Close and closeAndWait.                                                 *)

\* Faulty variant: active is not looked at, the file is closed under the operation.
CloseIgnoresActive(c, wait) ==
  /\ pc[c] = "idle"
  /\ waits' = IF wait THEN waits \cup {c} ELSE waits
  /\ closeRequested' = TRUE
  /\ closeStarted' = TRUE
  /\ Goto(c, IF closeRequested THEN IF wait THEN "wait" ELSE "idle" ELSE "close")
  /\ UNCHANGED <<opMu, active, closeErr, closeDone, file, closes, fileErr>>

\* Faulty variant: a close requested before is not noticed.
CloseTwice(c, wait) ==
  /\ pc[c] = "idle"
  /\ closeRequested' = TRUE
  /\ closeStarted' = (closeStarted \/ ~active)
  /\ waits' = IF wait THEN waits \cup {c} ELSE waits
  /\ Goto(c, IF ~active THEN "close" ELSE IF wait THEN "wait" ELSE "idle")
  /\ UNCHANGED <<opMu, active, closeErr, closeDone, file, closes, fileErr>>

\* Close (wait = FALSE) or closeAndWait: the first request either closes the file
\* itself or leaves that to the active operation; Close then returns nil at once,
\* closeAndWait waits for closeDone unless Close returned an error.
Close(c, wait) ==
  /\ pc[c] = "idle"
  /\ closeRequested' = TRUE
  /\ \/ /\ closeRequested
        /\ IF wait /\ closeErr = "nil"
             THEN waits' = waits \cup {c} /\ Goto(c, "wait")
             ELSE UNCHANGED <<waits, pc>>
        /\ UNCHANGED closeStarted
     \/ /\ ~closeRequested
        /\ active
        /\ IF wait
             THEN waits' = waits \cup {c} /\ Goto(c, "wait")
             ELSE UNCHANGED <<waits, pc>>
        /\ UNCHANGED closeStarted
     \/ /\ ~closeRequested
        /\ ~active
        /\ waits' = IF wait THEN waits \cup {c} ELSE waits
        /\ closeStarted' = TRUE
        /\ Goto(c, "close")
  /\ UNCHANGED <<opMu, active, closeErr, closeDone, file, closes, fileErr>>

\* f.file.Close(), which may fail.
CloseFile(c) ==
  /\ pc[c] = "close"
  /\ file' = "closed"
  /\ closes' = closes + 1
  /\ fileErr' \in {"nil", "err"}
  /\ Goto(c, "complete")
  /\ UNCHANGED <<opMu, flags, closeErr, closeDone, waits>>

\* completeClose, then back to finishOperation, to Close or to closeAndWait.
Complete(c) ==
  /\ pc[c] = "complete"
  /\ closeErr' = fileErr
  /\ closeDone' = TRUE
  /\ IF opMu = c
       THEN Goto(c, "unlock") /\ UNCHANGED waits
       ELSE IF c \in waits /\ fileErr = "nil"
              THEN Goto(c, "wait") /\ UNCHANGED waits
              ELSE Goto(c, "idle") /\ waits' = waits \ {c}
  /\ UNCHANGED <<opMu, flags, file, closes, fileErr>>

\* <-f.closeDone.
WaitReturns(c) ==
  /\ pc[c] = "wait"
  /\ closeDone
  /\ Goto(c, "idle")
  /\ waits' = waits \ {c}
  /\ UNCHANGED <<opMu, flags, closeErr, closeDone, file, closes, fileErr>>

-----------------------------------------------------------------------------
\* What a caller that has made a call does next.
Step(c) ==
  \/ LockOp(c) \/ Begin(c) \/ Finish(c) \/ Unlock(c)
  \/ CloseFile(c) \/ Complete(c) \/ WaitReturns(c)

Next == \E c \in Callers : Step(c) \/ Call(c) \/ Close(c, TRUE) \/ Close(c, FALSE)

Spec == Init /\ [][Next]_vars

-----------------------------------------------------------------------------
\* The types of all variables; only who is in closeAndWait waits.
TypeOK ==
  /\ pc \in [Callers -> {"idle", "lock", "begin", "busy", "unlock", "close", "complete", "wait"}]
  /\ opMu \in Callers \cup {NoCaller}
  /\ active \in BOOLEAN /\ closeRequested \in BOOLEAN /\ closeStarted \in BOOLEAN
  /\ closeErr \in {"nil", "err"} /\ fileErr \in {"nil", "err"} /\ closeDone \in BOOLEAN
  /\ file \in {"open", "closed"} /\ closes \in Nat
  /\ waits \subseteq {c \in Callers : pc[c] \in {"close", "complete", "wait"}}

\* No operation touches the file once its close has begun, and no two operations
\* overlap, though Close does not take opMu.
NoUseAfterClose ==
  \A c \in Callers : pc[c] = "busy" =>
    /\ file = "open"
    /\ \A d \in Callers \ {c} : pc[d] \notin {"busy", "close", "complete"}

\* The file is closed once, by the caller of Close or by the last operation, never
\* by both; a second close would also close closeDone twice, which panics.
ClosedAtMostOnce ==
  /\ closes <= 1
  /\ \A c, d \in Callers : pc[c] \in {"close", "complete"} /\ pc[d] \in {"close", "complete"} => c = d

\* Who waits for closeDone finds the file closed and its error recorded.
DoneMeansClosed == closeDone => file = "closed" /\ closeErr = fileErr

\* A requested close happens, and every caller of closeAndWait returns.
CloseHappens ==
  /\ closeRequested ~> (file = "closed" /\ closeDone)
  /\ \A c \in Callers : (pc[c] # "idle") ~> (pc[c] = "idle")
=============================================================================
