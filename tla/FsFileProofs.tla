---------------------------- MODULE FsFileProofs ----------------------------
(***************************************************************************)
(* The safety of fs.FileHandle for any set of goroutines.  The goroutines  *)
(* of FsFile.tla use the handle as FileHandle.tla says its callers do, so  *)
(* that what is proved of the handle holds of them; and a streamed         *)
(* writeFile that is fulfilled has written everything, which follows from  *)
(* what is said below of the sink, of its queue and of the close it waits  *)
(* for.                                                                    *)
(***************************************************************************)
EXTENDS FsFile, TLAPS

(* Part 1, FileHandle: the two flags closeRequested and closeStarted are   *)
(* one-way, and exactly one caller turns closeStarted: the closer.         *)
(* Everything follows from what the flags say about who can be where.      *)

Closing(c) == pc[c] \in {"close", "complete"}

\* opMu is held by who is inside withOpen, and active says whether the holder is
\* inside the operation itself.
MutexInv ==
  /\ \A c \in Callers : opMu = c =>
       c \notin waits /\ pc[c] \in {"begin", "busy", "unlock", "close", "complete"}
  /\ \A c \in Callers : pc[c] \in {"begin", "busy", "unlock"} => opMu = c
  /\ \A c \in Callers : pc[c] = "busy" => active
  /\ active => \E c \in Callers : pc[c] = "busy"

\* A close starts when it was requested and no operation is active; none becomes
\* active afterwards because beginOperation sees closeRequested.
StartInv ==
  /\ closeStarted => closeRequested /\ ~active
  /\ closeDone => closeStarted
  /\ \A c \in Callers : Closing(c) => closeStarted

\* The one closer, and how far it is.
CloserInv ==
  /\ \A c, d \in Callers : Closing(c) /\ Closing(d) => c = d
  /\ \A c \in Callers : Closing(c) => ~closeDone
  /\ \A c \in Callers : pc[c] = "close" => closes = 0
  /\ \A c \in Callers : pc[c] = "complete" => closes = 1
  /\ ~closeStarted => closes = 0
  /\ closeDone => closes = 1 /\ closeErr = fileErr
  /\ closes \in {0, 1}
  /\ file = (IF closes = 0 THEN "open" ELSE "closed")

IInv == TypeOK /\ MutexInv /\ StartInv /\ CloserInv

USE CallerAssumption DEF Goto, flags

\* Every step of every caller preserves the inductive invariant.
LEMMA StepIInv == IInv /\ [Next]_vars => IInv'
<1> SUFFICES ASSUME IInv, [Next]_vars PROVE IInv'
  OBVIOUS
<1> USE DEF IInv, TypeOK, MutexInv, StartInv, CloserInv, Closing
<1>1. ASSUME NEW c \in Callers, Call(c) PROVE IInv'
  BY <1>1 DEF Call
<1>2. ASSUME NEW c \in Callers, LockOp(c) PROVE IInv'
  BY <1>2 DEF LockOp
<1>3. ASSUME NEW c \in Callers, Begin(c) PROVE IInv'
  <2>1. TypeOK'
    BY <1>3 DEF Begin
  <2>2. MutexInv'
    BY <1>3 DEF Begin
  <2>3. StartInv' /\ CloserInv'
    BY <1>3 DEF Begin
  <2> QED BY <2>1, <2>2, <2>3
<1>4. ASSUME NEW c \in Callers, Finish(c) PROVE IInv'
  <2>1. TypeOK'
    BY <1>4 DEF Finish
  <2>2. MutexInv'
    BY <1>4 DEF Finish
  <2>3. StartInv' /\ CloserInv'
    BY <1>4 DEF Finish
  <2> QED BY <2>1, <2>2, <2>3
<1>5. ASSUME NEW c \in Callers, Unlock(c) PROVE IInv'
  BY <1>5 DEF Unlock
<1>6. ASSUME NEW c \in Callers, NEW w \in BOOLEAN, Close(c, w) PROVE IInv'
  <2>1. /\ pc[c] = "idle" /\ closeRequested'
        /\ UNCHANGED <<opMu, active, closeErr, closeDone, file, closes, fileErr>>
    BY <1>6 DEF Close
  <2>2. waits' \subseteq waits \cup {c} /\ pc' \in [Callers -> {"idle", "lock", "begin", "busy",
                                           "unlock", "close", "complete", "wait"}]
    BY <1>6 DEF Close
  <2>3. /\ \A d \in Callers \ {c} : pc'[d] = pc[d]
        /\ c \in waits' => pc'[c] \in {"close", "wait"}
    BY <1>6 DEF Close
  <2>4. CASE pc'[c] \in {"idle", "wait"} /\ UNCHANGED closeStarted
    BY <2>1, <2>2, <2>3, <2>4
  <2>5. CASE pc'[c] = "close" /\ ~closeRequested /\ ~active /\ closeStarted'
    BY <2>1, <2>2, <2>3, <2>5
  <2> QED BY <1>6, <2>4, <2>5 DEF Close
<1>7. ASSUME NEW c \in Callers, CloseFile(c) PROVE IInv'
  BY <1>7 DEF CloseFile
<1>8. ASSUME NEW c \in Callers, Complete(c) PROVE IInv'
  <2>1. TypeOK'
    BY <1>8 DEF Complete
  <2>2. MutexInv' /\ StartInv' /\ CloserInv'
    BY <1>8 DEF Complete
  <2> QED BY <2>1, <2>2
<1>9. ASSUME NEW c \in Callers, WaitReturns(c) PROVE IInv'
  BY <1>9 DEF WaitReturns
<1>10. CASE UNCHANGED vars
  BY <1>10 DEF vars
<1> QED BY <1>1, <1>2, <1>3, <1>4, <1>5, <1>6, <1>7, <1>8, <1>9, <1>10 DEF Next, Step

\* A handle that openFileHandle returns satisfies it.
LEMMA InitIInv == Init => IInv
<1> SUFFICES ASSUME Init PROVE IInv
  OBVIOUS
<1>1. TypeOK
  BY DEF Init, TypeOK
<1>2. MutexInv /\ StartInv
  BY DEF Init, MutexInv, StartInv, Closing
<1>3. CloserInv
  BY DEF Init, CloserInv, Closing
<1> QED BY <1>1, <1>2, <1>3 DEF IInv

\* The inductive invariant holds in every reachable state.
THEOREM Invariance == Spec => []IInv
BY InitIInv, StepIInv, PTL DEF Spec

\* Every variable of a FileHandle keeps its type, for any number of goroutines.
THEOREM TypeCorrect == Spec => []TypeOK
<1>1. IInv => TypeOK
  BY DEF IInv
<1> QED BY <1>1, Invariance, PTL

\* Whatever goroutines call Read, Write, Close, ... on one handle, no operation runs
\* on the file once finishOperation or Close has begun to close it, and withOpen
\* never runs two operations at once.
THEOREM NeverUsedAfterClose == Spec => []NoUseAfterClose
<1>1. IInv => NoUseAfterClose
  BY DEF IInv, MutexInv, StartInv, CloserInv, Closing, NoUseAfterClose, TypeOK
<1> QED BY <1>1, Invariance, PTL

\* However Close and finishOperation interleave, f.file.Close and close(f.closeDone)
\* are executed at most once, by one of them.
THEOREM NeverClosedTwice == Spec => []ClosedAtMostOnce
<1>1. IInv => ClosedAtMostOnce
  BY DEF IInv, CloserInv, Closing, ClosedAtMostOnce
<1> QED BY <1>1, Invariance, PTL

\* A receive from closeDone in closeAndWait implies that the file is closed and that
\* closeErr is what its Close returned.
THEOREM DonePublishesTheClose == Spec => []DoneMeansClosed
<1>1. IInv => DoneMeansClosed
  BY DEF IInv, CloserInv, DoneMeansClosed
<1> QED BY <1>1, Invariance, PTL

-----------------------------------------------------------------------------
(* Part 2, FsFile: the sink of a streamed writeFile, and the use that the  *)
(* promises and the streams make of a handle.                              *)

\* A sink call has at most one closure in the queue, and waits for it.
QueueInv ==
  /\ pending \in Seq(submitted)
  /\ \A i \in DOMAIN pending : pending[i].who = "sink" => at["sink"] = "posted"
  /\ \A i, j \in DOMAIN pending : pending[i].who = "sink" /\ pending[j].who = "sink" => i = j

\* The file was closed without an error; this does not change any more.
ClosedWell == closeDone /\ closeErr = "nil" /\ file = "closed" /\ fileErr = "nil"

\* The result of the sink's closeAndWait is that of the close.
SinkWaits ==
  at["sink"] = "closing" =>
    /\ pc["sink"] # "idle" => "sink" \in waits
    /\ pc["sink"] = "idle" /\ err["sink"] = "nil" => ClosedWell

\* What the sink has done by where its goroutine is: a close call is made when every
\* chunk is written, and succeeds only if the file is closed well.
SinkInv ==
  /\ at["sink"] = "none" => written = produced
  /\ at["sink"] \in {"write", "writing"} => written + 1 = produced
  /\ at["sink"] \in {"write", "writing", "failed", "failing"} => sinkOp = "write"
  /\ at["sink"] \in {"close", "closing"} => sinkOp # "write"
  /\ at["sink"] \in {"close", "closing"} /\ sinkOp = "close" => written = produced
  /\ at["sink"] \in {"post", "posted"} /\ sinkErr = "nil" =>
       /\ sinkOp # "abort" => written = produced
       /\ sinkOp = "close" => ClosedWell
  /\ promise = "resolved" => at["sink"] = "done" /\ written = produced /\ ClosedWell

FsTypeOK ==
  /\ DOMAIN at = Callers /\ DOMAIN err = Callers
  /\ produced \in Nat /\ written \in Nat /\ sinkOp \in {"write", "close", "abort"}

FsInv == IInv /\ FsTypeOK /\ QueueInv /\ SinkWaits /\ SinkInv

\* A step of promises, streams or the loop is a step of one caller of the handle, or
\* does not concern it.
LEMMA StepMaps ==
  ASSUME [FsNext]_fsvars
  PROVE  [Next]_vars
<1>0. {"loop", "open", "late", "sink", "call"} \subseteq Callers
  BY GoroutineAssumption DEF GoroutineAssumption, Goroutines
<1>1. ASSUME NEW c \in Callers, HandleStep(c) PROVE Next
  BY <1>1 DEF HandleStep, Next
<1>2. ASSUME NEW c \in Callers, NEW w \in BOOLEAN, StartOperation(c) \/ StartClose(c, w) PROVE Next
  BY <1>2 DEF StartOperation, StartClose, Next
<1>3. ASSUME NEW c \in Callers, CloseUnwanted(c) PROVE Next
  BY <1>3, <1>2 DEF CloseUnwanted
<1>4. LoopCall \/ LoopClose \/ SinkStart => Next
  BY <1>0, <1>2 DEF LoopCall, LoopClose, SinkStart
<1>5. PromiseCall => Next \/ UNCHANGED vars
  BY <1>0, <1>2 DEF PromiseCall, handleVars
<1>6. ASSUME NEW c \in Callers, Post(c) PROVE UNCHANGED vars
  BY <1>6 DEF Post, handleVars
<1>7. OpenReturns \/ CallReturns \/ SinkReturns => UNCHANGED vars
  BY DEF OpenReturns, CallReturns, SinkReturns, handleVars
<1>8. RunTask \/ SchedulerChanges \/ WriteReadableStream \/ Abort \/ PipeChunk => UNCHANGED vars
  BY DEF RunTask, SchedulerChanges, WriteReadableStream, Abort, PipeChunk, handleVars
<1>9. PipeEnds("close") \/ PipeEnds("abort") => UNCHANGED vars
  BY DEF PipeEnds, handleVars
<1>10. UNCHANGED fsvars => UNCHANGED vars
  BY DEF fsvars, handleVars
<1> QED BY <1>1, <1>3, <1>4, <1>5, <1>6, <1>7, <1>8, <1>9, <1>10 DEF FsNext, Proceeds

\* promiseCall, the sinks, writeReadableStream and the FsFile methods implement the
\* callers of FileHandle, however they overlap and whatever the loop refuses.
THEOREM ImplementsFileHandle == FsSpec => Spec
<1>1. FsInit => Init
  BY DEF FsInit
<1>2. [FsNext]_fsvars => [Next]_vars
  BY StepMaps
<1> QED BY <1>1, <1>2, PTL DEF FsSpec, Spec

\* No file operation of a promise, a stream or the loop overlaps a close.
THEOREM FsNeverUsedAfterClose == FsSpec => []NoUseAfterClose
BY ImplementsFileHandle, NeverUsedAfterClose, PTL

\* A writer that is closed by a failing write, by the abort that follows and by the
\* loop is closed once.
THEOREM FsNeverClosedTwice == FsSpec => []ClosedAtMostOnce
BY ImplementsFileHandle, NeverClosedTwice, PTL

-----------------------------------------------------------------------------
\* Once closed well, for ever closed well: there is no second close.
LEMMA ClosedWellStable ==
  ASSUME IInv, [Next]_vars, ClosedWell
  PROVE  ClosedWell'
<1> USE DEF IInv, CloserInv, Closing, ClosedWell, Goto
<1>1. ASSUME NEW c \in Callers, CloseFile(c) \/ Complete(c) PROVE FALSE
  BY <1>1 DEF CloseFile, Complete
<1>2. CASE UNCHANGED vars
  BY <1>2 DEF vars
<1>3. ASSUME NEW c \in Callers,
             LockOp(c) \/ Begin(c) \/ Finish(c) \/ Unlock(c) \/ WaitReturns(c) \/ Call(c)
      PROVE  ClosedWell'
  BY <1>3 DEF LockOp, Begin, Finish, Unlock, WaitReturns, Call
<1>4. ASSUME NEW c \in Callers, NEW w \in BOOLEAN, Close(c, w) PROVE ClosedWell'
  BY <1>4 DEF Close
<1> QED BY <1>1, <1>2, <1>3, <1>4 DEF Next, Step

\* A call of another goroutine does not move the sink.
LEMMA OtherCaller ==
  ASSUME TypeOK, NEW c \in Callers, "sink" \in Callers, c # "sink", NEW w \in BOOLEAN,
         Step(c) \/ Call(c) \/ Close(c, w)
  PROVE  pc'["sink"] = pc["sink"] /\ ("sink" \in waits' <=> "sink" \in waits)
<1> USE DEF TypeOK, Goto
<1>1. CASE Close(c, w)
  BY <1>1 DEF Close
<1>2. CASE Call(c) \/ LockOp(c) \/ Begin(c) \/ Finish(c) \/ Unlock(c) \/ CloseFile(c)
  BY <1>2 DEF Call, LockOp, Begin, Finish, Unlock, CloseFile
<1>3. CASE Complete(c) \/ WaitReturns(c)
  BY <1>3 DEF Complete, WaitReturns
<1> QED BY <1>1, <1>2, <1>3 DEF Step

\* The queue, while the sink does not wait for its closure or stays where it is.
LEMMA QueueKept ==
  ASSUME QueueInv, UNCHANGED <<pending, submitted>>,
         at'["sink"] = at["sink"] \/ at["sink"] # "posted"
  PROVE  QueueInv'
BY DEF QueueInv

\* RunOnLoop.
LEMMA QueuePost ==
  ASSUME FsTypeOK, QueueInv, "sink" \in Callers, NEW c \in Callers, Post(c)
  PROVE  QueueInv'
<1> DEFINE t == Task(c)
<1>0. t.who = c
  BY DEF Task
<1>a. c = "sink" => \A i \in DOMAIN pending : pending[i].who # "sink"
  BY DEF QueueInv, Post
<1> HIDE DEF t
<1>1. CASE Sched!Accept(t) /\ Move(c, "posted")
  <2>1. pending' = Append(pending, t) /\ submitted' = submitted \cup {t}
    BY <1>1 DEF Sched!Accept
  <2>2. pending \in Seq(submitted')
    BY <2>1 DEF QueueInv
  <2>3. pending' \in Seq(submitted')
    BY <2>1, <2>2
  <2>4. Len(pending) \in Nat /\ DOMAIN pending = 1..Len(pending)
    BY <2>2
  <2>5. /\ DOMAIN pending' = 1..(Len(pending) + 1)
        /\ pending'[Len(pending) + 1] = t
        /\ \A i \in DOMAIN pending : pending'[i] = pending[i]
    BY <2>1, <2>2, <2>4
  <2>6. at' = [at EXCEPT ![c] = "posted"]
    BY <1>1 DEF Move
  <2>7. at'["sink"] = IF c = "sink" THEN "posted" ELSE at["sink"]
    BY <2>6 DEF FsTypeOK
  <2>8. \A i \in DOMAIN pending' : pending'[i].who = "sink" => at'["sink"] = "posted"
    BY <2>4, <2>5, <2>7, <1>0 DEF QueueInv
  <2>9. \A i, j \in DOMAIN pending' :
          pending'[i].who = "sink" /\ pending'[j].who = "sink" => i = j
    BY <2>4, <2>5, <1>0, <1>a DEF QueueInv
  <2> QED BY <2>3, <2>8, <2>9 DEF QueueInv
<1>2. CASE Sched!Refuse(t)
  <2>1. pending' = pending /\ submitted' = submitted \cup {t}
    BY <1>2 DEF Sched!Refuse
  <2>2. at'["sink"] = at["sink"] \/ at["sink"] # "posted"
    <3>1. PICK w : at' = [at EXCEPT ![c] = w]
      BY DEF Post, Move
    <3>2. at[c] = "post"
      BY DEF Post
    <3> QED BY <3>1, <3>2 DEF FsTypeOK
  <2>3. pending' \in Seq(submitted')
    BY <2>1 DEF QueueInv
  <2> QED BY <2>1, <2>2, <2>3 DEF QueueInv
<1> QED BY <1>1, <1>2 DEF Post, t

\* The closure that runs is the only one of the sink, if it is one of the sink.
LEMMA QueueRun ==
  ASSUME QueueInv, Sched!RunNext
  PROVE  /\ Head(pending).who = "sink" => at["sink"] = "posted"
         /\ Head(pending).who = "sink" \/ at'["sink"] = at["sink"] => QueueInv'
<1>1. pending \in Seq(submitted) /\ pending # <<>> /\ pending' = Tail(pending) /\ submitted' = submitted
  BY DEF QueueInv, Sched!RunNext
<1>2. /\ pending' \in Seq(submitted)
      /\ Len(pending) \in Nat \ {0} /\ DOMAIN pending = 1..Len(pending)
      /\ DOMAIN pending' = 1..(Len(pending) - 1) /\ Head(pending) = pending[1]
      /\ \A i \in DOMAIN pending' : pending'[i] = pending[i + 1]
  BY <1>1
<1>3. \A i, j \in DOMAIN pending' :
        pending'[i].who = "sink" /\ pending'[j].who = "sink" => i = j
  BY <1>2 DEF QueueInv
<1>4. Head(pending).who = "sink" => \A i \in DOMAIN pending' : pending'[i].who # "sink"
  BY <1>2 DEF QueueInv
<1>5. \A i \in DOMAIN pending' : pending'[i].who = "sink" => at["sink"] = "posted"
  BY <1>2 DEF QueueInv
<1> QED BY <1>1, <1>2, <1>3, <1>4, <1>5 DEF QueueInv

-----------------------------------------------------------------------------
\* A step that is not the sink's leaves what is said of it.
LEMMA SinkKept ==
  ASSUME FsInv, [Next]_vars,
         at'["sink"] = at["sink"], err'["sink"] = err["sink"], pc'["sink"] = pc["sink"],
         "sink" \in waits' <=> "sink" \in waits,
         UNCHANGED <<sinkOp, sinkErr, produced, written>>,
         promise' = "resolved" => promise = "resolved"
  PROVE  SinkWaits' /\ SinkInv'
<1>1. ClosedWell => ClosedWell'
  BY ClosedWellStable DEF FsInv
<1>2. SinkWaits'
  BY <1>1 DEF FsInv, SinkWaits
<1>3. SinkInv'
  BY <1>1 DEF FsInv, SinkInv
<1> QED BY <1>2, <1>3

\* A step of the sink's call of the handle.
LEMMA SinkHandleStep ==
  ASSUME FsInv, [Next]_vars, "sink" \in Callers, HandleStep("sink")
  PROVE  SinkWaits' /\ SinkInv'
<1>0. ClosedWell => ClosedWell'
  BY ClosedWellStable DEF FsInv
<1>1. SinkInv'
  BY <1>0 DEF FsInv, SinkInv, HandleStep, promiseVars, pipeVars
<1>2. SinkWaits'
  <2> SUFFICES ASSUME at["sink"] = "closing" PROVE SinkWaits'
    BY DEF HandleStep, SinkWaits
  <2>0. at' = at
    BY DEF HandleStep
  <2>1. PICK r \in Results("sink") : err' = [err EXCEPT !["sink"] = r]
    BY DEF HandleStep
  <2>2. err'["sink"] = r
    BY <2>1 DEF FsInv, FsTypeOK
  <2>3. pc["sink"] # "idle"
    BY DEF HandleStep, Step, LockOp, Begin, Finish, Unlock, CloseFile, Complete, WaitReturns
  <2>4. "sink" \in waits
    BY <2>3 DEF FsInv, SinkWaits
  <2>5. opMu # "sink" /\ pc["sink"] \in {"close", "complete", "wait"} /\ DOMAIN pc = Callers
    BY <2>4 DEF FsInv, IInv, MutexInv, TypeOK
  <2>6. CASE pc["sink"] = "close"
    <3>1. CloseFile("sink")
      BY <2>6 DEF HandleStep, Step, LockOp, Begin, Finish, Unlock, Complete, WaitReturns
    <3>2. pc'["sink"] = "complete" /\ "sink" \in waits'
      BY <3>1, <2>4, <2>5 DEF CloseFile, Goto
    <3> QED BY <3>2, <2>0 DEF SinkWaits
  <2>7. CASE pc["sink"] = "complete"
    <3>1. Complete("sink")
      BY <2>7 DEF HandleStep, Step, LockOp, Begin, Finish, Unlock, CloseFile, WaitReturns
    <3>2. r = fileErr
      BY <2>7, <2>5 DEF Results
    <3>3. CASE fileErr = "nil"
      BY <3>1, <3>3, <2>0, <2>4, <2>5 DEF Complete, Goto, SinkWaits
    <3>4. CASE fileErr # "nil"
      BY <3>1, <3>2, <3>4, <2>0, <2>2, <2>4, <2>5 DEF Complete, Goto, SinkWaits
    <3> QED BY <3>3, <3>4
  <2>8. CASE pc["sink"] = "wait"
    <3>1. WaitReturns("sink")
      BY <2>8 DEF HandleStep, Step, LockOp, Begin, Finish, Unlock, CloseFile, Complete
    <3>2. r = closeErr
      BY <2>8 DEF Results
    <3>3. closeErr = "nil" => ClosedWell
      BY <3>1 DEF WaitReturns, ClosedWell, FsInv, IInv, CloserInv
    <3>4. pc'["sink"] = "idle"
      BY <3>1, <2>5 DEF WaitReturns, Goto
    <3> QED BY <1>0, <3>2, <3>3, <3>4, <2>0, <2>2 DEF SinkWaits
  <2> QED BY <2>5, <2>6, <2>7, <2>8
<1> QED BY <1>1, <1>2

\* The sink begins a call of the handle.
LEMMA SinkStarts ==
  ASSUME FsInv, [Next]_vars, "sink" \in Callers, SinkStart
  PROVE  SinkWaits' /\ SinkInv' /\ at["sink"] # "posted"
<1>0. ClosedWell => ClosedWell'
  BY ClosedWellStable DEF FsInv
<1>a. DOMAIN at = Callers /\ DOMAIN err = Callers /\ DOMAIN pc = Callers
  BY DEF FsInv, FsTypeOK, IInv, TypeOK
<1>b. UNCHANGED <<promise, sinkOp, sinkErr, produced, written>>
  BY DEF SinkStart, promiseVars, pipeVars
<1>1. CASE at["sink"] = "write" /\ Move("sink", "writing")
  <2>1. at'["sink"] = "writing"
    BY <1>1, <1>a DEF Move
  <2> QED BY <1>0, <1>1, <1>b, <2>1 DEF FsInv, SinkInv, SinkWaits
<1>2. CASE at["sink"] = "failed" /\ Move("sink", "failing")
  <2>1. at'["sink"] = "failing"
    BY <1>2, <1>a DEF Move
  <2> QED BY <1>0, <1>2, <1>b, <2>1 DEF FsInv, SinkInv, SinkWaits
<1>3. CASE at["sink"] = "close" /\ StartClose("sink", TRUE) /\ Move("sink", "closing")
  <2>1. at'["sink"] = "closing"
    BY <1>3, <1>a DEF Move
  <2>2. SinkInv'
    BY <1>0, <1>3, <1>b, <2>1 DEF FsInv, SinkInv
  <2>3. Close("sink", TRUE) /\ err'["sink"] = IF closeRequested THEN closeErr ELSE "nil"
    BY <1>3, <1>a DEF StartClose
  <2>4. \/ closeRequested /\ closeErr # "nil" /\ pc'["sink"] = "idle"
        \/ pc'["sink"] # "idle" /\ "sink" \in waits'
    BY <2>3, <1>a DEF Close, Goto
  <2> QED BY <1>3, <2>1, <2>2, <2>3, <2>4 DEF SinkWaits
<1> QED BY <1>1, <1>2, <1>3 DEF SinkStart

\* The sink's call of the handle has returned.
LEMMA SinkReturned ==
  ASSUME FsInv, "sink" \in Callers, SinkReturns
  PROVE  SinkWaits' /\ SinkInv' /\ at["sink"] # "posted" /\ produced' \in Nat /\ written' \in Nat
<1>a. /\ DOMAIN at = Callers /\ produced \in Nat /\ written \in Nat
      /\ sinkOp \in {"write", "close", "abort"}
  BY DEF FsInv, FsTypeOK
<1>b. UNCHANGED <<handleVars, err, promise, sinkOp, produced>>
  BY DEF SinkReturns, promiseVars
<1>c. ClosedWell' = ClosedWell
  BY <1>b DEF ClosedWell, handleVars, vars
<1>1. CASE at["sink"] = "writing" /\ Move("sink", "post") /\ sinkErr' = "nil" /\ written' = written + 1
  <2>1. at'["sink"] = "post"
    BY <1>1, <1>a DEF Move
  <2> QED BY <1>1, <1>a, <1>b, <1>c, <2>1 DEF FsInv, SinkInv, SinkWaits
<1>2. CASE at["sink"] = "writing" /\ Move("sink", "failed") /\ UNCHANGED <<sinkErr, written>>
  <2>1. at'["sink"] = "failed"
    BY <1>2, <1>a DEF Move
  <2> QED BY <1>2, <1>a, <1>b, <1>c, <2>1 DEF FsInv, SinkInv, SinkWaits
<1>3. CASE at["sink"] = "failing" /\ Move("sink", "post") /\ sinkErr' = "err" /\ UNCHANGED written
  <2>1. at'["sink"] = "post"
    BY <1>3, <1>a DEF Move
  <2> QED BY <1>3, <1>a, <1>b, <1>c, <2>1 DEF FsInv, SinkInv, SinkWaits
<1>4. CASE at["sink"] = "closing" /\ pc["sink"] = "idle" /\ Move("sink", "post")
           /\ sinkErr' = err["sink"] /\ UNCHANGED written
  <2>1. at'["sink"] = "post"
    BY <1>4, <1>a DEF Move
  <2> QED BY <1>4, <1>a, <1>b, <1>c, <2>1 DEF FsInv, SinkInv, SinkWaits
<1> QED BY <1>1, <1>2, <1>3, <1>4 DEF SinkReturns

\* The pipe makes a call of the sink.
LEMMA SinkCalled ==
  ASSUME FsInv, "sink" \in Callers,
         PipeChunk \/ PipeEnds("close") \/ PipeEnds("abort")
  PROVE  SinkWaits' /\ SinkInv' /\ at["sink"] # "posted" /\ produced' \in Nat /\ written' \in Nat
<1>a. DOMAIN at = Callers /\ produced \in Nat /\ written \in Nat
  BY DEF FsInv, FsTypeOK
<1>b. UNCHANGED <<handleVars, err, promise>> /\ at["sink"] = "none"
  BY DEF PipeChunk, PipeEnds, promiseVars, SinkFree
<1>c. ClosedWell' = ClosedWell
  BY <1>b DEF ClosedWell, handleVars, vars
<1>1. CASE PipeChunk
  <2>1. /\ produced' = produced + 1 /\ sinkOp' = "write"
        /\ \/ at'["sink"] \in {"write", "failed"} /\ written' = written
           \/ at'["sink"] = "post" /\ written' = written + 1
    BY <1>1, <1>a DEF PipeChunk, Move
  <2> QED BY <1>a, <1>b, <1>c, <2>1 DEF FsInv, SinkInv, SinkWaits
<1>2. ASSUME NEW op \in {"close", "abort"}, PipeEnds(op)
      PROVE  SinkWaits' /\ SinkInv' /\ produced' \in Nat /\ written' \in Nat
  <2>1. at'["sink"] = "close" /\ sinkOp' = op /\ UNCHANGED <<produced, written>>
    BY <1>2, <1>a DEF PipeEnds, Move
  <2> QED BY <1>2, <1>a, <1>b, <1>c, <2>1 DEF FsInv, SinkInv, SinkWaits
<1> QED BY <1>1, <1>2, <1>b

\* The result of the sink call arrives.
LEMMA SinkSettled ==
  ASSUME FsInv, "sink" \in Callers, SettleSink, at["sink"] = "posted", UNCHANGED <<handleVars, err>>
  PROVE  SinkWaits' /\ SinkInv'
<1>a. DOMAIN at = Callers /\ UNCHANGED <<sinkErr, produced, written>>
  BY DEF FsInv, FsTypeOK, SettleSink
<1>c. ClosedWell' = ClosedWell
  BY DEF ClosedWell, handleVars, vars
<1>1. CASE Move("sink", "close") /\ sinkOp' = "abort" /\ UNCHANGED promise
  <2>1. at'["sink"] = "close"
    BY <1>1, <1>a DEF Move
  <2> QED BY <1>1, <1>a, <1>c, <2>1 DEF FsInv, SinkInv, SinkWaits
<1>2. CASE sinkOp = "write" /\ sinkErr = "nil" /\ Move("sink", "none") /\ UNCHANGED promise
  <2>1. at'["sink"] = "none"
    BY <1>2, <1>a DEF Move
  <2> QED BY <1>2, <1>a, <1>c, <2>1 DEF FsInv, SinkInv, SinkWaits
<1>3. CASE /\ Settle(IF sinkOp = "close" /\ sinkErr = "nil" THEN "resolved" ELSE "rejected")
           /\ Move("sink", "done")
  <2>1. at'["sink"] = "done"
    BY <1>3, <1>a DEF Move
  <2>2. promise' = "resolved" => promise = "resolved" \/ (sinkOp = "close" /\ sinkErr = "nil")
    BY <1>3 DEF Settle
  <2> QED BY <1>3, <1>a, <1>c, <2>1, <2>2 DEF FsInv, SinkInv, SinkWaits
<1> QED BY <1>1, <1>2, <1>3 DEF SettleSink

\* Every step preserves what is said of the sink and of the queue.
LEMMA StepFsInv ==
  ASSUME FsInv, [FsNext]_fsvars
  PROVE  FsInv'
<1> DEFINE SinkStays ==
             /\ at'["sink"] = at["sink"] /\ err'["sink"] = err["sink"] /\ pc'["sink"] = pc["sink"]
             /\ "sink" \in waits' <=> "sink" \in waits
             /\ UNCHANGED <<sinkOp, sinkErr, produced, written>>
             /\ promise' = "resolved" => promise = "resolved"
<1>0. {"loop", "open", "late", "sink", "call"} \subseteq Callers
  BY GoroutineAssumption DEF GoroutineAssumption, Goroutines
<1>1. [Next]_vars
  BY StepMaps
<1>2. IInv'
  BY <1>1, StepIInv DEF FsInv
<1>a. TypeOK /\ DOMAIN at = Callers /\ DOMAIN err = Callers
  BY DEF FsInv, FsTypeOK, IInv
<1>3. SinkStays => SinkWaits' /\ SinkInv'
  BY <1>1, SinkKept
<1>4. SinkStays /\ UNCHANGED <<pending, submitted>> => QueueInv'
  BY QueueKept DEF FsInv
<1>5. SinkStays /\ UNCHANGED <<DOMAIN at, DOMAIN err>> => FsTypeOK'
  BY DEF FsInv, FsTypeOK
<1> DEFINE Kept == SinkStays /\ UNCHANGED <<pending, submitted, DOMAIN at, DOMAIN err>>
<1>6. Kept => FsInv'
  BY <1>2, <1>3, <1>4, <1>5 DEF FsInv
<1>7. ASSUME NEW c \in Callers, HandleStep(c) PROVE FsInv'
  <2>1. CASE c # "sink"
    <3>1. pc'["sink"] = pc["sink"] /\ ("sink" \in waits' <=> "sink" \in waits)
      BY <1>0, <1>7, <1>a, <2>1, OtherCaller DEF HandleStep
    <3>2. Kept
      BY <1>7, <1>a, <2>1, <3>1 DEF HandleStep, promiseVars, pipeVars, schedVars
    <3> QED BY <1>6, <3>2
  <2>2. CASE c = "sink"
    <3>1. SinkWaits' /\ SinkInv'
      BY <1>0, <1>1, <1>7, <2>2, SinkHandleStep
    <3>2. QueueInv' /\ FsTypeOK'
      BY <1>7, <1>a, QueueKept DEF HandleStep, FsInv, FsTypeOK, pipeVars, schedVars
    <3> QED BY <1>2, <3>1, <3>2 DEF FsInv
  <2> QED BY <2>1, <2>2
<1>8. ASSUME NEW c \in Callers, c # "sink", NEW w \in BOOLEAN, Call(c) \/ Close(c, w),
             NEW e, err' = [err EXCEPT ![c] = e],
             at' = at \/ \E p : at' = [at EXCEPT ![c] = p],
             UNCHANGED <<promise, pipeVars, schedVars>>
      PROVE  FsInv'
  <2>1. pc'["sink"] = pc["sink"] /\ ("sink" \in waits' <=> "sink" \in waits)
    BY <1>0, <1>8, <1>a, OtherCaller
  <2>2. at'["sink"] = at["sink"] /\ DOMAIN at' = DOMAIN at
    BY <1>0, <1>8, <1>a
  <2>3. err'["sink"] = err["sink"] /\ DOMAIN err' = DOMAIN err
    BY <1>0, <1>8, <1>a
  <2>4. Kept
    BY <1>8, <2>1, <2>2, <2>3 DEF pipeVars, schedVars
  <2> QED BY <1>6, <2>4
<1>9. ASSUME NEW c \in Callers, CloseUnwanted(c) PROVE FsInv'
  BY <1>8, <1>9 DEF CloseUnwanted, StartClose, Move, promiseVars
<1>10. CASE LoopCall \/ LoopClose
  BY <1>0, <1>8, <1>10 DEF LoopCall, LoopClose, StartClose, StartOperation, Move, promiseVars
<1>11. ASSUME UNCHANGED <<handleVars, err, sinkOp, sinkErr, produced, written, pending, submitted>>,
              at'["sink"] = at["sink"], DOMAIN at' = DOMAIN at,
              promise' = "resolved" => promise = "resolved"
       PROVE  FsInv'
  <2>1. Kept
    BY <1>11 DEF handleVars, vars
  <2> QED BY <1>6, <2>1
<1>12. CASE PromiseCall
  <2>1. CASE UNCHANGED <<handleVars, err>> /\ (at' = at \/ Move("call", "op"))
    BY <1>0, <1>11, <1>12, <1>a, <2>1 DEF PromiseCall, Move, pipeVars, schedVars
  <2>2. CASE StartOperation("call") /\ Move("call", "op")
    BY <1>0, <1>8, <1>12, <2>2 DEF PromiseCall, StartOperation, Move
  <2> QED BY <1>12, <2>1, <2>2 DEF PromiseCall
<1>13. CASE CallReturns
  <2>1. Kept
    BY <1>0, <1>13, <1>a DEF CallReturns, Move, handleVars, vars, promiseVars, pipeVars, schedVars
  <2> QED BY <1>6, <2>1
<1>14. CASE OpenReturns \/ WriteReadableStream
  BY <1>0, <1>11, <1>14, <1>a DEF OpenReturns, WriteReadableStream, Move, promiseVars, pipeVars, schedVars
<1>15. CASE SchedulerChanges
  BY <1>11, <1>15 DEF SchedulerChanges, Sched!Close, Sched!Reopen, promiseVars, pipeVars
<1>16. CASE UNCHANGED fsvars
  BY <1>11, <1>16 DEF fsvars, promiseVars, pipeVars, schedVars
<1>17. CASE SinkStart \/ SinkReturns \/ PipeChunk \/ PipeEnds("close") \/ PipeEnds("abort")
  <2>1. SinkWaits' /\ SinkInv' /\ at["sink"] # "posted"
    BY <1>0, <1>1, <1>17, SinkStarts, SinkReturned, SinkCalled
  <2>2. QueueInv'
    BY <1>17, <2>1, QueueKept DEF FsInv, SinkStart, SinkReturns, PipeChunk, PipeEnds, schedVars
  <2>3. DOMAIN at' = DOMAIN at /\ DOMAIN err' = DOMAIN err
    BY <1>17 DEF SinkStart, SinkReturns, PipeChunk, PipeEnds, Move, StartOperation, StartClose
  <2>4. produced' \in Nat /\ written' \in Nat
    BY <1>0, <1>17, SinkReturned, SinkCalled DEF SinkStart, pipeVars, FsInv, FsTypeOK
  <2>5. sinkOp' \in {"write", "close", "abort"}
    BY <1>17 DEF SinkStart, SinkReturns, PipeChunk, PipeEnds, pipeVars, FsInv, FsTypeOK
  <2> QED BY <1>2, <1>a, <2>1, <2>2, <2>3, <2>4, <2>5 DEF FsInv, FsTypeOK
<1>18. ASSUME NEW c \in Callers, Post(c) PROVE FsInv'
  <2>1. QueueInv'
    BY <1>0, <1>18, QueuePost DEF FsInv
  <2>2. UNCHANGED <<handleVars, err, promise, pipeVars>> /\ DOMAIN at' = DOMAIN at
    BY <1>18 DEF Post, Move, promiseVars
  <2>3. FsTypeOK'
    BY <2>2 DEF FsInv, FsTypeOK, pipeVars
  <2>4. CASE c # "sink"
    <3>1. at'["sink"] = at["sink"]
      BY <1>0, <1>18, <1>a, <2>4 DEF Post, Move
    <3>2. SinkStays
      BY <2>2, <3>1 DEF handleVars, vars, pipeVars
    <3> QED BY <1>2, <1>3, <2>1, <2>3, <3>2 DEF FsInv
  <2>5. CASE c = "sink"
    <3>1. at["sink"] = "post" /\ at'["sink"] \in {"posted", "lost"}
      BY <1>0, <1>18, <1>a, <2>5 DEF Post, Move
    <3>2. ClosedWell' = ClosedWell
      BY <2>2 DEF ClosedWell, handleVars, vars
    <3>3. SinkWaits' /\ SinkInv'
      BY <2>2, <3>1, <3>2 DEF FsInv, SinkWaits, SinkInv, pipeVars
    <3> QED BY <1>2, <2>1, <2>3, <3>3 DEF FsInv
  <2> QED BY <2>4, <2>5
<1>19. CASE Abort
  <2>1. /\ UNCHANGED <<handleVars, err, sinkErr, produced, written, pending, submitted>>
        /\ promise' = "resolved" => promise = "resolved"
    BY <1>19 DEF Abort, Settle, schedVars
  <2>2. CASE UNCHANGED <<at, sinkOp>>
    BY <1>11, <2>1, <2>2
  <2>3. CASE at["sink"] = "none" /\ Move("sink", "close") /\ sinkOp' = "abort"
    <3>1. at'["sink"] = "close" /\ DOMAIN at' = Callers
      BY <1>0, <1>a, <2>3 DEF Move
    <3>2. QueueInv'
      BY <2>1, <2>3, QueueKept DEF FsInv
    <3>3. ClosedWell' = ClosedWell
      BY <2>1 DEF ClosedWell, handleVars, vars
    <3>4. SinkWaits' /\ SinkInv'
      BY <2>1, <2>3, <3>1, <3>3 DEF FsInv, SinkWaits, SinkInv
    <3> QED BY <1>2, <1>a, <2>1, <2>3, <3>1, <3>2, <3>4 DEF FsInv, FsTypeOK
  <2> QED BY <1>19, <2>2, <2>3 DEF Abort, SinkFree
<1>20. CASE RunTask
  <2>0. UNCHANGED <<handleVars, err>> /\ Sched!RunNext
    BY <1>20 DEF RunTask
  <2>1. CASE Head(pending).who = "sink" /\ SettleSink
    <3>1. at["sink"] = "posted" /\ QueueInv'
      BY <2>0, <2>1, QueueRun DEF FsInv
    <3>2. SinkWaits' /\ SinkInv'
      BY <1>0, <2>0, <2>1, <3>1, SinkSettled
    <3>3. DOMAIN at' = DOMAIN at /\ sinkOp' \in {sinkOp, "abort"} /\ UNCHANGED <<produced, written>>
      BY <2>1 DEF SettleSink, Move
    <3> QED BY <1>2, <2>0, <3>1, <3>2, <3>3 DEF FsInv, FsTypeOK
  <2>2. CASE SettleOpen \/ SettleCall
    <3>1. /\ at'["sink"] = at["sink"] /\ DOMAIN at' = DOMAIN at
          /\ UNCHANGED <<sinkOp, sinkErr, produced, written>>
          /\ promise' = "resolved" => promise = "resolved"
      BY <1>0, <1>a, <2>2 DEF SettleOpen, SettleCall, Settle, Move, pipeVars
    <3>2. SinkStays
      BY <2>0, <3>1 DEF handleVars, vars
    <3>3. QueueInv'
      BY <2>0, <3>1, QueueRun DEF FsInv
    <3> QED BY <1>2, <1>3, <1>5, <2>0, <3>1, <3>2, <3>3 DEF FsInv
  <2> QED BY <1>20, <2>1, <2>2 DEF RunTask
<1> QED BY <1>7, <1>9, <1>10, <1>12, <1>13, <1>14, <1>15, <1>16, <1>17, <1>18, <1>19, <1>20 DEF FsNext, Proceeds

\* The inductive invariant holds in every reachable state.
THEOREM FsInvariance == FsSpec => []FsInv
<1>1. FsInit => FsInv
  <2> SUFFICES ASSUME FsInit PROVE FsInv
    OBVIOUS
  <2>1. IInv
    BY InitIInv DEF FsInit
  <2>2. pending = <<>> /\ submitted = {}
    BY DEF FsInit, Sched!Init
  <2>3. QueueInv
    BY <2>2 DEF QueueInv
  <2>4. "sink" \in Callers
    BY GoroutineAssumption DEF GoroutineAssumption, Goroutines
  <2>5. at["sink"] = "none" /\ DOMAIN at = Callers /\ DOMAIN err = Callers
    BY <2>4 DEF FsInit
  <2>6. FsTypeOK /\ SinkWaits /\ SinkInv
    BY <2>5 DEF FsInit, FsTypeOK, SinkWaits, SinkInv
  <2> QED BY <2>1, <2>3, <2>6 DEF FsInv
<1>2. FsInv /\ [FsNext]_fsvars => FsInv'
  BY StepFsInv
<1> QED BY <1>1, <1>2, PTL DEF FsSpec

\* writeFile of a ReadableStream resolves only after every chunk was written and the
\* file was closed without an error, however long the stream is and whatever the
\* signal, a refusing loop and other calls do meanwhile.
THEOREM ResolvedOnlyWhenWritten == FsSpec => []ResolvedMeansWritten
<1>1. FsInv => ResolvedMeansWritten
  BY DEF FsInv, SinkInv, ClosedWell, ResolvedMeansWritten
<1> QED BY <1>1, FsInvariance, PTL
=============================================================================
