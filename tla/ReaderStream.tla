---------------------------- MODULE ReaderStream ----------------------------
(***************************************************************************)
(* streams/reader.go: a ReadableStream fed from an io.ReadCloser.  Every   *)
(* pull starts a goroutine that reads once (inline without a scheduler)    *)
(* and hands the result to the loop with RunOnLoop.  The consumer may      *)
(* cancel, the owner may call Error, and the scheduler may stop accepting  *)
(* work, each at any moment.                                               *)
(*                                                                         *)
(* A section under s.mu is one step; what the loop does after it is the    *)
(* next step of the loop, so goroutines run in between.  The scheduler is  *)
(* the abstract one.  The ReadableStream itself (state, queue, pending     *)
(* read, when to pull) is the embedded polyfill: it is external and only   *)
(* what ReaderStream relies on is kept.  The bytes of the k-th successful  *)
(* read are the number k.                                                  *)
(***************************************************************************)
EXTENDS Naturals, Sequences

CONSTANTS Content,       \* number of chunks in the reader
          MaxEmpty,      \* bound on reads that return 0, nil
          HighWaterMark

ASSUME ReaderAssumption ==
  /\ Content \in Nat /\ MaxEmpty \in Nat /\ HighWaterMark \in Nat \ {0}

VARIABLES
  config,      \* sched: s.sched # nil; onCancel: WithOnCancel's hook closes the reader
  reads,       \* the readOnce goroutines, in the order they were started
  pos,         \* chunks taken from the reader
  settled,     \* s.settled
  settle,      \* s.settle # nil
  closeOnce,   \* s.closeOnce has run: the bridge has closed the reader
  hook,        \* the onCancel hook: "unused", "called", "closed"
  onSettled,   \* calls of onSettled
  offSettled,  \* calls of onSettledOff
  loop,        \* what the loop goroutine is in the middle of
  panicked,    \* callStreamController panicked
  \* the scheduler
  tasks, posted, open,
  \* the polyfill's stream
  stream,      \* "none" before construction, then "readable", "closing", "closed", "errored"
  queue,       \* enqueued chunks
  want,        \* the consumer has a read() pending
  pulling,     \* the promise of the last pull is pending
  got,         \* the chunks the consumer has received
  cancelled    \* the consumer cancelled

bridge == <<config, settled, settle, closeOnce, hook, onSettled, offSettled>>
sched == <<tasks, posted, open>>
js == <<stream, queue, want, pulling, got, cancelled>>
vars == <<reads, pos, bridge, loop, panicked, sched, js>>

MaxReads == Content + MaxEmpty + 1
ReadIds == 1..MaxReads

Sched == INSTANCE Scheduler
           WITH Tasks <- ReadIds, pending <- tasks, submitted <- posted, open <- open

Idle == [job |-> "idle", read |-> 0, settle |-> FALSE]
Job(job, i) == [job |-> job, read |-> i, settle |-> settle]

Init ==
  /\ config \in [sched : BOOLEAN, onCancel : BOOLEAN]
  /\ reads = <<>> /\ pos = 0
  /\ settled = FALSE /\ settle = FALSE /\ closeOnce = FALSE /\ hook = "unused"
  /\ onSettled = 0 /\ offSettled = 0
  /\ loop = Idle /\ panicked = FALSE
  /\ Sched!Init
  /\ stream = "none" /\ queue = <<>> /\ want = FALSE /\ pulling = FALSE
  /\ got = <<>> /\ cancelled = FALSE

\* The loop goroutine can start something: it is between jobs, and not inside an
\* inline readOnce.
LoopFree ==
  /\ loop = Idle
  /\ config.sched \/ \A i \in 1..Len(reads) : reads[i].at = "done"

At(i, where) == reads' = [reads EXCEPT ![i].at = where]

-----------------------------------------------------------------------------
(* NewReadableStreamFromReader.                                            *)

Construct ==
  /\ LoopFree /\ stream = "none" /\ ~closeOnce
  /\ stream' = "readable"
  /\ UNCHANGED <<reads, pos, bridge, loop, panicked, sched, queue, want, pulling, got, cancelled>>

\* The ReadableStream constructor throws.
ConstructFails ==
  /\ LoopFree /\ stream = "none" /\ ~closeOnce
  /\ closeOnce' = TRUE
  /\ onSettled' = onSettled + 1
  /\ UNCHANGED <<config, reads, pos, settled, settle, hook, offSettled, loop, panicked, sched, js>>

-----------------------------------------------------------------------------
(* pull and readOnce.                                                      *)

\* The polyfill pulls when nothing is being pulled and a chunk is wanted.
ShouldPull ==
  /\ stream = "readable" /\ ~pulling
  /\ want \/ Len(queue) < HighWaterMark

\* pull: promise, then one readOnce unless the stream has settled meanwhile.
Pull ==
  /\ LoopFree /\ ShouldPull
  /\ \/ /\ settled
        /\ UNCHANGED <<reads, settle, pulling>>
     \/ /\ ~settled
        /\ settle' = TRUE
        /\ pulling' = TRUE
        /\ reads' = Append(reads, [at |-> "read", chunk |-> 0, err |-> "nil"])
  /\ UNCHANGED <<config, pos, settled, closeOnce, hook, onSettled, offSettled, loop, panicked, sched,
                 stream, queue, want, got, cancelled>>

\* The reads that brought nothing, and still go on.
Empty == Len(reads) - pos - 1

\* s.reader.Read: a chunk or none, and nil, EOF (at the end) or another error. A
\* read may still bring data while the reader is being closed.
Read(i) ==
  /\ reads[i].at = "read"
  /\ \E bytes \in BOOLEAN, err \in {"nil", "EOF", "err"} :
       /\ bytes => pos < Content
       /\ err = "EOF" => pos + (IF bytes THEN 1 ELSE 0) = Content
       /\ ~bytes /\ err = "nil" => Empty < MaxEmpty
       /\ pos' = IF bytes THEN pos + 1 ELSE pos
       /\ reads' = [reads EXCEPT ![i] =
            [at |-> IF err = "nil" THEN "post" ELSE "close",
             chunk |-> IF bytes THEN pos + 1 ELSE 0, err |-> err]]
  /\ UNCHANGED <<bridge, loop, panicked, sched, js>>

\* closeReaderForRead: a failing close replaces EOF, if this is the first close.
CloseForRead(i) ==
  /\ reads[i].at = "close"
  /\ closeOnce' = TRUE
  /\ \E failed \in BOOLEAN :
       /\ failed => ~closeOnce
       /\ reads' = [reads EXCEPT ![i] =
            [at |-> "post", chunk |-> @.chunk, err |-> IF failed THEN "err" ELSE @.err]]
  /\ UNCHANGED <<config, pos, settled, settle, hook, onSettled, offSettled, loop, panicked, sched, js>>

\* RunOnLoop takes the result or refuses it.
Post(i) ==
  /\ config.sched
  /\ reads[i].at = "post"
  /\ \/ Sched!Accept(i) /\ At(i, "queued")
     \/ Sched!Refuse(i) /\ At(i, "refused")
  /\ UNCHANGED <<pos, bridge, loop, panicked, js>>

-----------------------------------------------------------------------------
(* deliver and abandon.                                                    *)

\* The section of deliver under s.mu.
DeliverLocked(i) ==
  IF settled
    THEN At(i, "done") /\ UNCHANGED <<settled, settle, loop>>
    ELSE /\ settled' = (reads[i].err # "nil")
         /\ settle' = FALSE
         /\ loop' = Job("deliver", i)
         /\ UNCHANGED reads

\* The scheduler runs the oldest result, or readOnce calls deliver itself.
Deliver ==
  /\ loop = Idle
  /\ \/ config.sched /\ Sched!RunNext /\ DeliverLocked(Head(tasks))
     \/ /\ ~config.sched
        /\ \E i \in 1..Len(reads) : reads[i].at = "post" /\ DeliverLocked(i)
        /\ UNCHANGED sched
  /\ UNCHANGED <<config, pos, closeOnce, hook, onSettled, offSettled, panicked, js>>

\* controller.enqueue, .close and .error with the result r: enqueue and close throw
\* unless the stream is readable, and callStreamController panics.
Transfer(r) ==
  LET full == IF r.chunk # 0 THEN Append(queue, r.chunk) ELSE queue
      served == want /\ full # <<>>
      rest == IF served THEN Tail(full) ELSE full
  IN \/ /\ stream # "readable" /\ (r.chunk # 0 \/ r.err = "EOF")
        /\ panicked' = TRUE
        /\ UNCHANGED <<stream, queue, want, got>>
     \/ /\ stream = "readable" \/ (r.chunk = 0 /\ r.err # "EOF")
        /\ got' = IF served THEN Append(got, Head(full)) ELSE got
        /\ queue' = IF r.err = "err" THEN <<>> ELSE rest
        /\ want' = (want /\ ~served /\ r.err = "nil")
        /\ stream' = CASE r.err = "EOF" -> (IF rest = <<>> THEN "closed" ELSE "closing")
                       [] r.err = "err" /\ stream = "readable" -> "errored"
                       [] OTHER -> stream
        /\ UNCHANGED panicked

SettledHook(r) == onSettled' = IF r.err # "nil" THEN onSettled + 1 ELSE onSettled

DeliverEnds ==
  /\ At(loop.read, "done")
  /\ loop' = Idle
  /\ UNCHANGED <<config, pos, settled, settle, closeOnce, hook, offSettled, sched, cancelled>>

\* Faulty variant: the bytes that came with EOF or an error are dropped.
DeliverDropsLast ==
  /\ loop.job = "deliver"
  /\ LET r == reads[loop.read]
     IN SettledHook(r) /\ Transfer(IF r.err # "nil" THEN [r EXCEPT !.chunk = 0] ELSE r)
  /\ pulling' = (pulling /\ ~(loop.settle /\ ~panicked'))
  /\ DeliverEnds

\* Faulty variant: the promise of the pull is not resolved.
DeliverKeepsPull ==
  /\ loop.job = "deliver"
  /\ LET r == reads[loop.read]
     IN SettledHook(r) /\ Transfer(r)
  /\ UNCHANGED pulling
  /\ DeliverEnds

\* deliver after the section: onSettled for a terminal result, then the controller,
\* then the promise of the pull.
DeliverRest ==
  /\ loop.job = "deliver"
  /\ LET r == reads[loop.read]
     IN SettledHook(r) /\ Transfer(r)
  /\ pulling' = (pulling /\ ~(loop.settle /\ ~panicked'))
  /\ DeliverEnds

\* Faulty variant: s.settled is not looked at.
AbandonUnchecked(i) ==
  /\ reads[i].at = "refused"
  /\ settled' = TRUE
  /\ settle' = FALSE
  /\ At(i, "abandon")
  /\ UNCHANGED <<config, pos, closeOnce, hook, onSettled, offSettled, loop, panicked, sched, js>>

\* abandon, on the reading goroutine: the section under s.mu ...
Abandon(i) ==
  /\ reads[i].at = "refused"
  /\ IF settled
       THEN At(i, "done") /\ UNCHANGED <<settled, settle>>
       ELSE At(i, "abandon") /\ settled' = TRUE /\ settle' = FALSE
  /\ UNCHANGED <<config, pos, closeOnce, hook, onSettled, offSettled, loop, panicked, sched, js>>

\* ... and the rest of it: closeReader and the off-loop hook.
AbandonRest(i) ==
  /\ reads[i].at = "abandon"
  /\ At(i, "done")
  /\ closeOnce' = TRUE
  /\ offSettled' = offSettled + 1
  /\ UNCHANGED <<config, pos, settled, settle, hook, onSettled, loop, panicked, sched, js>>

-----------------------------------------------------------------------------
(* Error and cancel, on the loop.                                          *)

\* Error does nothing on a settled stream; otherwise the section under s.mu ...
Error ==
  /\ LoopFree /\ stream # "none"
  /\ ~settled
  /\ settled' = TRUE
  /\ settle' = FALSE
  /\ loop' = Job("error", 0)
  /\ UNCHANGED <<config, reads, pos, closeOnce, hook, onSettled, offSettled, panicked, sched, js>>

\* Faulty variant: the reader is left to the garbage collector.
ErrorKeepsReader ==
  /\ loop.job = "error"
  /\ onSettled' = onSettled + 1
  /\ stream' = IF stream \in {"readable", "closing"} THEN "errored" ELSE stream
  /\ queue' = <<>> /\ want' = FALSE
  /\ pulling' = (pulling /\ ~loop.settle)
  /\ loop' = Idle
  /\ UNCHANGED <<config, reads, pos, settled, settle, closeOnce, hook, offSettled, panicked, sched, got, cancelled>>

\* ... then the promise, closeReader, onSettled and controller.error.
ErrorRest ==
  /\ loop.job = "error"
  /\ closeOnce' = TRUE
  /\ onSettled' = onSettled + 1
  /\ stream' = IF stream \in {"readable", "closing"} THEN "errored" ELSE stream
  /\ queue' = <<>> /\ want' = FALSE
  /\ pulling' = (pulling /\ ~loop.settle)
  /\ loop' = Idle
  /\ UNCHANGED <<config, reads, pos, settled, settle, hook, offSettled, panicked, sched, got, cancelled>>

\* The polyfill closes a cancelled stream and drops its queue before it calls cancel.
CancelStream ==
  /\ LoopFree /\ stream \in {"readable", "closing"}
  /\ stream' = "closed" /\ queue' = <<>> /\ want' = FALSE /\ cancelled' = TRUE
  /\ UNCHANGED <<config, reads, pos, closeOnce, hook, onSettled, offSettled, panicked, sched, pulling, got>>

\* Faulty variant: cancel does not mark the stream settled.
CancelUnmarked ==
  /\ CancelStream
  /\ loop' = IF settled THEN loop ELSE Job("cancel", 0)
  /\ UNCHANGED <<settled, settle>>

\* cancel, the section under s.mu: nothing more to do on a settled stream ...
Cancel ==
  /\ CancelStream
  /\ IF settled
       THEN UNCHANGED <<settled, settle, loop>>
       ELSE settled' = TRUE /\ settle' = FALSE /\ loop' = Job("cancel", 0)

\* ... then the promise, the hook or closeReader, and onSettled.
CancelRest ==
  /\ loop.job = "cancel"
  /\ IF config.onCancel
       THEN hook' = "called" /\ UNCHANGED closeOnce
       ELSE closeOnce' = TRUE /\ UNCHANGED hook
  /\ onSettled' = onSettled + 1
  /\ pulling' = (pulling /\ ~loop.settle)
  /\ loop' = Idle
  /\ UNCHANGED <<config, reads, pos, settled, settle, offSettled, panicked, sched,
                 stream, queue, want, got, cancelled>>

\* The hook (fs/streams.go) closes the reader on a goroutine of its own.
HookCloses ==
  /\ hook = "called"
  /\ hook' = "closed"
  /\ UNCHANGED <<config, reads, pos, settled, settle, closeOnce, onSettled, offSettled, loop, panicked,
                 sched, js>>

-----------------------------------------------------------------------------
(* The consumer and the scheduler.                                         *)

\* reader.read(): from the queue, or pending.
ConsumerRead ==
  /\ LoopFree /\ stream \in {"readable", "closing"} /\ ~want
  /\ IF queue = <<>>
       THEN want' = TRUE /\ UNCHANGED <<queue, got, stream>>
       ELSE /\ got' = Append(got, Head(queue))
            /\ queue' = Tail(queue)
            /\ stream' = IF stream = "closing" /\ Len(queue) = 1 THEN "closed" ELSE stream
            /\ UNCHANGED want
  /\ UNCHANGED <<reads, pos, bridge, loop, panicked, sched, pulling, cancelled>>

SchedulerChanges ==
  /\ config.sched
  /\ Sched!Close \/ Sched!Reopen
  /\ UNCHANGED <<reads, pos, bridge, loop, panicked, js>>

LoopStep == Deliver \/ DeliverRest \/ ErrorRest \/ CancelRest \/ Pull
ReadStep(i) ==
  i <= Len(reads) /\ (Read(i) \/ CloseForRead(i) \/ Post(i) \/ Abandon(i) \/ AbandonRest(i))

Next ==
  \/ LoopStep \/ HookCloses
  \/ \E i \in ReadIds : ReadStep(i)
  \/ Construct \/ ConstructFails \/ Error \/ Cancel \/ ConsumerRead \/ SchedulerChanges

\* The loop runs what it accepted and finishes what it started, a Read returns, and
\* the hook closes the reader; nobody has to read, cancel, or stop the loop.
Fairness ==
  /\ WF_vars(LoopStep) /\ WF_vars(HookCloses)
  /\ \A i \in ReadIds : WF_vars(ReadStep(i))

Spec == Init /\ [][Next]_vars
FairSpec == Spec /\ Fairness

-----------------------------------------------------------------------------
Count(n) == [i \in 1..n |-> i]

\* The types of all variables; the hooks are called at most once each.
TypeOK ==
  /\ config \in [sched : BOOLEAN, onCancel : BOOLEAN]
  /\ reads \in Seq([at : {"read", "close", "post", "queued", "refused", "abandon", "done"},
                    chunk : 0..Content, err : {"nil", "EOF", "err"}])
  /\ Len(reads) <= MaxReads /\ pos \in 0..Content
  /\ settled \in BOOLEAN /\ settle \in BOOLEAN /\ closeOnce \in BOOLEAN
  /\ hook \in {"unused", "called", "closed"} /\ onSettled \in 0..1 /\ offSettled \in 0..1
  /\ loop \in [job : {"idle", "deliver", "error", "cancel"}, read : 0..MaxReads, settle : BOOLEAN]
  /\ panicked \in BOOLEAN /\ want \in BOOLEAN /\ pulling \in BOOLEAN /\ cancelled \in BOOLEAN
  /\ tasks \in Seq(ReadIds) /\ posted \subseteq ReadIds /\ open \in BOOLEAN
  /\ stream \in {"none", "readable", "closing", "closed", "errored"}
  /\ queue \in Seq(1..Content) /\ got \in Seq(1..Content)

\* No result reaches the controller of a stream that was cancelled, failed or closed
\* while the read was under way: callStreamController never panics on the loop.
ControllerCallsLegal == ~panicked

\* The consumer gets the bytes of the reader in order and without a gap, whatever is
\* queued included, and an end of stream it did not ask for means it got all of them.
InOrder ==
  /\ got \o queue = Count(Len(got \o queue))
  /\ (stream = "closing" \/ (stream = "closed" /\ ~cancelled)) => got \o queue = Count(Content)

\* The settle hooks together run at most once, though deliver, Error and cancel on the
\* loop race with abandon off the loop, and only for a settled (or failed) stream.
HooksOnce ==
  /\ onSettled + offSettled <= 1
  /\ onSettled + offSettled = 1 => settled \/ stream = "none"

\* A read that the consumer has made is answered as long as the scheduler accepts
\* work: no pull promise is left pending by any path.
ReadAnswered == []open => (want ~> ~want)

\* Once settled, on any path, a hook runs and somebody closes the reader.
Released == settled ~> (onSettled + offSettled = 1 /\ (closeOnce \/ hook = "closed"))
=============================================================================
