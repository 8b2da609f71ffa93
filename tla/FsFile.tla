------------------------------- MODULE FsFile -------------------------------
(***************************************************************************)
(* The asynchronous side of fs around one FileHandle: promiseCall and      *)
(* promiseCallWithSignal (fs/api.go, fs/signal.go), the methods of FsFile  *)
(* (fs/handles.go), writeFile of a ReadableStream (fs/streams.go) and the  *)
(* sink of a WritableStream to a Go writer (streams/writer.go).            *)
(*                                                                         *)
(* Two situations.  shared: JavaScript has the FsFile, pipes something     *)
(* into its writable and calls its methods meanwhile.  Otherwise the       *)
(* handle is the one writeReadableStream opens for itself, and a readFile  *)
(* with the same signal runs beside it.                                    *)
(*                                                                         *)
(* The goroutines are the Callers of the handle: the loop, the opener of   *)
(* writeReadableStream, the one that closes a handle nobody wants any more *)
(* (late), the one that runs a sink call, and that of a promise call.      *)
(* pipeTo is the streams polyfill's and external: it makes one sink call   *)
(* at a time, and aborts the sink once the one in flight has ended.        *)
(***************************************************************************)
EXTENDS FileHandle, Sequences

CONSTANT MaxChunks    \* bound on the chunks of the stream

Goroutines == {"loop", "open", "late", "sink", "call"}

ASSUME GoroutineAssumption == Callers = Goroutines /\ MaxChunks \in Nat

VARIABLES
  shared,
  at,         \* where each goroutine is, around its calls of the handle
  err,        \* what its last call of the handle, or its op, returned
  opened,     \* there is a handle
  promise,    \* of writeReadableStream: "none", "pending", "resolved", "rejected"
  callPromise,\* of the promise call
  aborted,    \* the signal
  dest,       \* the destination stream: "none", "ready", "ended"
  wantAbort,  \* the pipe waits for the sink call in flight to abort the sink
  sinkOp,     \* the last sink call: "write", "close", "abort"
  sinkErr,    \* the error the sink call settles with
  produced,   \* chunks given to the sink
  written,    \* chunks in the file
  pending, submitted, open    \* the scheduler

handleVars == vars
schedVars == <<pending, submitted, open>>
pipeVars == <<dest, wantAbort, sinkOp, sinkErr, produced, written>>
promiseVars == <<promise, callPromise, aborted>>
fsvars == <<handleVars, shared, at, err, opened, promiseVars, pipeVars, schedVars>>

\* The closures given to RunOnLoop. A sink call is named by its number.
Tasks == {[who |-> c, n |-> k] : c \in Goroutines, k \in 0..MaxChunks + 2}
Sched == INSTANCE Scheduler
Task(c) == [who |-> c, n |-> IF c = "sink" THEN Cardinality({t \in submitted : t.who = c}) ELSE 0]

FsInit ==
  /\ Init
  /\ shared \in BOOLEAN /\ opened = shared
  /\ at = [c \in Callers |-> "none"] /\ err = [c \in Callers |-> "nil"]
  /\ promise = "none" /\ callPromise = "none" /\ aborted = FALSE
  /\ dest = (IF shared THEN "ready" ELSE "none") /\ wantAbort = FALSE
  /\ sinkOp = "write" /\ sinkErr = "nil" /\ produced = 0 /\ written = 0
  /\ Sched!Init

\* JavaScript can run: the loop is not inside a call of the handle.
LoopIdle == pc["loop"] = "idle" /\ at["loop"] = "none"

Move(c, where) == at' = [at EXCEPT ![c] = where]
SinkFree == at["sink"] = "none"

-----------------------------------------------------------------------------
(* Calls of the handle.                                                    *)

\* What the call c is in may return, if it returns with this step: withOpen gives
\* ErrClosedHandle if it was closed before or during the operation.
Results(c) ==
  CASE pc[c] = "begin" /\ closeRequested -> {"err"}
    [] pc[c] = "busy" -> IF closeRequested THEN {"err"} ELSE {"nil", "err"}
    [] pc[c] = "complete" /\ opMu # c -> {fileErr}
    [] pc[c] = "wait" -> {closeErr}
    [] OTHER -> {err[c]}

HandleStep(c) ==
  /\ Step(c)
  /\ \E r \in Results(c) : err' = [err EXCEPT ![c] = r]
  /\ UNCHANGED <<shared, at, opened, promiseVars, pipeVars, schedVars>>

StartOperation(c) == Call(c) /\ err' = [err EXCEPT ![c] = "nil"]

StartClose(c, wait) ==
  /\ Close(c, wait)
  /\ err' = [err EXCEPT ![c] = IF closeRequested THEN closeErr ELSE "nil"]

\* FsFile.close and the *Sync methods, on the loop.
LoopCall ==
  /\ shared /\ open /\ LoopIdle
  /\ StartClose("loop", FALSE) \/ StartOperation("loop")
  /\ UNCHANGED <<shared, at, opened, promiseVars, pipeVars, schedVars>>

-----------------------------------------------------------------------------
(* promiseCall: a method of FsFile; promiseCallWithSignal: readFile.       *)

\* With a signal that is aborted already, or is not an AbortSignal, the promise is
\* rejected at once.
PromiseCall ==
  /\ open /\ LoopIdle /\ callPromise = "none"
  /\ \/ /\ ~shared
        /\ callPromise' = "rejected"
        /\ UNCHANGED <<handleVars, err, at>>
     \/ /\ shared \/ ~aborted
        /\ callPromise' = "pending"
        /\ Move("call", "op")
        /\ IF shared THEN StartOperation("call") ELSE UNCHANGED <<handleVars, err>>
  /\ UNCHANGED <<shared, opened, promise, aborted, pipeVars, schedVars>>

\* op returns.
CallReturns ==
  /\ at["call"] = "op" /\ pc["call"] = "idle"
  /\ IF shared THEN UNCHANGED err ELSE \E r \in {"nil", "err"} : err' = [err EXCEPT !["call"] = r]
  /\ Move("call", "post")
  /\ UNCHANGED <<handleVars, shared, opened, promiseVars, pipeVars, schedVars>>

-----------------------------------------------------------------------------
(* writeReadableStream.                                                    *)

\* Up to the start of the opener; the signal is looked at first here, too.
WriteReadableStream ==
  /\ ~shared /\ open /\ LoopIdle /\ promise = "none"
  /\ \/ promise' = "rejected" /\ UNCHANGED at
     \/ ~aborted /\ promise' = "pending" /\ Move("open", "opening")
  /\ UNCHANGED <<handleVars, shared, err, opened, callPromise, aborted, pipeVars, schedVars>>

\* openWriteHandle returns.
OpenReturns ==
  /\ at["open"] = "opening"
  /\ opened' \in BOOLEAN
  /\ Move("open", "post")
  /\ UNCHANGED <<handleVars, shared, err, promiseVars, pipeVars, schedVars>>

\* The end of a goroutine's call: RunOnLoop with its closure, whose refusal only the
\* opener notices.
Post(c) ==
  /\ at[c] = "post"
  /\ \/ Sched!Accept(Task(c)) /\ Move(c, "posted")
     \/ Sched!Refuse(Task(c)) /\ Move(c, IF c = "open" /\ opened THEN "close" ELSE "lost")
  /\ UNCHANGED <<handleVars, shared, err, opened, promiseVars, pipeVars>>

\* closeAndWait by the opener (the loop refused its handle) or by the goroutine that
\* settleOpen starts for a handle that comes too late.
CloseUnwanted(c) ==
  /\ c \in {"open", "late"} /\ at[c] = "close"
  /\ StartClose(c, TRUE)
  /\ Move(c, "done")
  /\ UNCHANGED <<shared, opened, promiseVars, pipeVars, schedVars>>

\* The first settlement counts (settled).
Settle(how) == promise' = IF promise = "pending" THEN how ELSE promise

\* Faulty variant: a handle that comes after the abort is dropped.
SettleOpenDrops ==
  /\ \/ promise # "pending" /\ UNCHANGED <<at, promise, dest>>
     \/ promise = "pending" /\ ~opened /\ Settle("rejected") /\ UNCHANGED <<at, dest>>
     \/ promise = "pending" /\ opened /\ Settle("rejected")
          /\ Move("loop", "close") /\ UNCHANGED dest
     \/ promise = "pending" /\ opened /\ dest' = "ready" /\ UNCHANGED <<at, promise>>
  /\ UNCHANGED <<wantAbort, sinkOp, sinkErr, produced, written, callPromise>>

\* settleOpen: the open failed; the handle is not wanted any more; the encoder or
\* pipeTo throws, and the loop closes the handle; or the pipe starts.
SettleOpen ==
  /\ \/ ~opened /\ Settle("rejected") /\ UNCHANGED <<at, dest>>
     \/ opened /\ promise # "pending" /\ Move("late", "close") /\ UNCHANGED <<promise, dest>>
     \/ opened /\ promise = "pending" /\ Settle("rejected")
          /\ Move("loop", "close") /\ UNCHANGED dest
     \/ opened /\ promise = "pending" /\ dest' = "ready" /\ UNCHANGED <<at, promise>>
  /\ UNCHANGED <<wantAbort, sinkOp, sinkErr, produced, written, callPromise>>

\* handle.Close() inside settleOpen.
LoopClose ==
  /\ at["loop"] = "close"
  /\ StartClose("loop", FALSE)
  /\ Move("loop", "none")
  /\ UNCHANGED <<shared, opened, promiseVars, pipeVars, schedVars>>

\* The signal: both promises are rejected, and a pipe that runs aborts its
\* destination as soon as no sink call is in flight.
Abort ==
  /\ ~shared /\ open /\ LoopIdle /\ ~aborted
  /\ aborted' = TRUE
  /\ Settle("rejected")
  /\ callPromise' = IF callPromise = "pending" THEN "rejected" ELSE callPromise
  /\ \/ /\ dest = "ready" /\ SinkFree
        /\ Move("sink", "close") /\ sinkOp' = "abort"
        /\ UNCHANGED wantAbort
     \/ /\ dest = "ready" /\ ~SinkFree
        /\ wantAbort' = TRUE
        /\ UNCHANGED <<at, sinkOp>>
     \/ /\ dest # "ready"
        /\ UNCHANGED <<at, sinkOp, wantAbort>>
  /\ UNCHANGED <<handleVars, shared, err, opened, dest, sinkErr, produced, written, schedVars>>

-----------------------------------------------------------------------------
(* The pipe and the sink.                                                  *)

\* The source has a chunk: the sink writes it, closes the writer if the chunk cannot
\* be decoded, and has nothing to do if it is empty.
PipeChunk ==
  /\ open /\ LoopIdle /\ dest = "ready" /\ SinkFree
  /\ produced < MaxChunks
  /\ produced' = produced + 1
  /\ sinkOp' = "write"
  /\ \/ Move("sink", "write") /\ UNCHANGED <<sinkErr, written>>
     \/ Move("sink", "failed") /\ UNCHANGED <<sinkErr, written>>
     \/ Move("sink", "post") /\ sinkErr' = "nil" /\ written' = written + 1
  /\ UNCHANGED <<handleVars, shared, err, opened, promiseVars, dest, wantAbort, schedVars>>

\* The source is closed, or fails: the sink is closed, or aborted.
PipeEnds(op) ==
  /\ open /\ LoopIdle /\ dest = "ready" /\ SinkFree
  /\ sinkOp' = op
  /\ Move("sink", "close")
  /\ UNCHANGED <<handleVars, shared, err, opened, promiseVars, dest, wantAbort, sinkErr, produced,
                 written, schedVars>>

SinkStart ==
  /\ \/ at["sink"] = "write" /\ StartOperation("sink") /\ Move("sink", "writing")
     \/ at["sink"] = "failed" /\ StartClose("sink", TRUE) /\ Move("sink", "failing")
     \/ at["sink"] = "close" /\ StartClose("sink", TRUE) /\ Move("sink", "closing")
  /\ UNCHANGED <<shared, opened, promiseVars, pipeVars, schedVars>>

\* Faulty variant: a write that failed closes the writer but is reported as done.
SinkReturnsIgnoresError ==
  /\ pc["sink"] = "idle"
  /\ \/ /\ at["sink"] = "writing"
        /\ Move("sink", IF err["sink"] = "nil" THEN "post" ELSE "failed")
        /\ sinkErr' = "nil" /\ written' = IF err["sink"] = "nil" THEN written + 1 ELSE written
     \/ /\ at["sink"] \in {"failing", "closing"}
        /\ Move("sink", "post")
        /\ sinkErr' = err["sink"] /\ UNCHANGED written
  /\ UNCHANGED <<handleVars, shared, err, opened, promiseVars, dest, wantAbort, sinkOp, produced,
                 schedVars>>

\* The call of the handle returns; a write that failed closes the writer.
SinkReturns ==
  /\ pc["sink"] = "idle"
  /\ \/ /\ at["sink"] = "writing" /\ err["sink"] = "nil"
        /\ Move("sink", "post")
        /\ sinkErr' = "nil" /\ written' = written + 1
     \/ /\ at["sink"] = "writing" /\ err["sink"] = "err"
        /\ Move("sink", "failed")
        /\ UNCHANGED <<sinkErr, written>>
     \/ /\ at["sink"] = "failing"
        /\ Move("sink", "post")
        /\ sinkErr' = "err" /\ UNCHANGED written
     \/ /\ at["sink"] = "closing"
        /\ Move("sink", "post")
        /\ sinkErr' = err["sink"] /\ UNCHANGED written
  /\ UNCHANGED <<handleVars, shared, err, opened, promiseVars, dest, wantAbort, sinkOp, produced,
                 schedVars>>

\* settle of a sink call, and what the stream and the pipe do next: go on, abort the
\* sink, or end, which settles the promise.
SettleSink ==
  /\ \/ /\ sinkOp = "write" /\ wantAbort
        /\ Move("sink", "close") /\ sinkOp' = "abort" /\ wantAbort' = FALSE
        /\ UNCHANGED <<dest, promise>>
     \/ /\ sinkOp = "write" /\ ~wantAbort /\ sinkErr = "nil"
        /\ Move("sink", "none")
        /\ UNCHANGED <<dest, promise, sinkOp, wantAbort>>
     \/ /\ sinkOp # "write" \/ (~wantAbort /\ sinkErr = "err")
        /\ dest' = "ended"
        /\ Settle(IF sinkOp = "close" /\ sinkErr = "nil" THEN "resolved" ELSE "rejected")
        /\ Move("sink", "done")
        /\ UNCHANGED <<sinkOp, wantAbort>>
  /\ UNCHANGED <<sinkErr, produced, written, callPromise>>

\* settle of a promise call: ignored if the signal was faster.
SettleCall ==
  /\ callPromise' = IF callPromise # "pending" THEN callPromise
                    ELSE IF err["call"] = "nil" THEN "resolved" ELSE "rejected"
  /\ UNCHANGED <<at, promise, pipeVars>>

\* The loop runs the oldest closure.
RunTask ==
  /\ LoopIdle
  /\ Sched!RunNext
  /\ \/ Head(pending).who = "open" /\ SettleOpen
     \/ Head(pending).who = "sink" /\ SettleSink
     \/ Head(pending).who = "call" /\ SettleCall
  /\ UNCHANGED <<handleVars, shared, err, opened, aborted>>

\* The host terminates the loop and starts it again.
SchedulerChanges ==
  /\ Sched!Close \/ Sched!Reopen
  /\ UNCHANGED <<handleVars, shared, at, err, opened, promiseVars, pipeVars>>

-----------------------------------------------------------------------------
\* What a goroutine can do next.
Proceeds(c) ==
  \/ HandleStep(c) \/ Post(c) \/ CloseUnwanted(c)
  \/ c = "open" /\ OpenReturns
  \/ c = "call" /\ CallReturns
  \/ c = "sink" /\ (SinkStart \/ SinkReturns)
  \/ c = "loop" /\ LoopClose

FsNext ==
  \/ \E c \in Callers : Proceeds(c)
  \/ RunTask \/ SchedulerChanges
  \/ LoopCall \/ PromiseCall \/ WriteReadableStream \/ Abort
  \/ PipeChunk \/ PipeEnds("close") \/ PipeEnds("abort")

\* Goroutines run, file operations and opens return, a mutex is handed on, and the
\* loop gets to what it has accepted, since the code it runs in between returns. The
\* source of the pipe and JavaScript owe nothing.
FsFairness ==
  /\ \A c \in Callers : WF_fsvars(Proceeds(c))
  /\ \A c \in {"loop", "sink", "call"} : SF_fsvars(HandleStep(c) /\ pc[c] = "lock")
  /\ SF_fsvars(RunTask)

FsSpec == FsInit /\ [][FsNext]_fsvars
FsFairSpec == FsSpec /\ FsFairness

-----------------------------------------------------------------------------
\* writeFile of a stream is fulfilled only when every chunk is in the file and the
\* file was closed without an error.
ResolvedMeansWritten ==
  promise = "resolved" => written = produced /\ file = "closed" /\ fileErr = "nil"

\* What was started comes to an end. A promise call settles, unless the loop refused
\* its result. The handle that writeReadableStream opens is closed once its promise is
\* settled, whatever settled it and whenever the handle came, and also if the loop
\* refuses the handle; only a sink call whose result the loop refused stops the pipe
\* for good.
CallsEndAndRelease ==
  /\ (callPromise = "pending") ~> (callPromise # "pending" \/ at["call"] = "lost")
  /\ (opened /\ (promise \in {"resolved", "rejected"} \/ at["open"] = "close")) ~>
       (file = "closed" \/ at["sink"] = "lost")
=============================================================================
