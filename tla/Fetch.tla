-------------------------------- MODULE Fetch --------------------------------
(***************************************************************************)
(* One call of fetch(): fetch/internal/bare/facade.js, fetch/dispatch.go   *)
(* and fetch/upload.go.  Goroutines that take part:                        *)
(*                                                                         *)
(*   - the loop, where JavaScript fetches, aborts, produces the body of    *)
(*     the request and consumes that of the response;                      *)
(*   - "go", the goroutine of the dispatch function;                       *)
(*   - "transport", net/http: one goroutine reads the request body while   *)
(*     another may close it;                                               *)
(*   - "body", a read of the response body (streams/reader.go) whose       *)
(*     result the loop refuses.                                            *)
(*                                                                         *)
(* What a task of the loop has still to do is the sequence `script` of the *)
(* calls it makes: other goroutines act between two of them.  The          *)
(* scheduler is the abstract one.                                          *)
(***************************************************************************)
EXTENDS Naturals, Sequences

CONSTANT Sizes          \* the bytes of each chunk that a streamed body may have

ASSUME FetchAssumption == Sizes \in Seq(Nat)

Closers == {"loop", "go", "transport", "body"}

VARIABLES
  \* JavaScript
  kind,          \* requestBodyKinds: "static" or "stream"
  promise,       \* what fetch() returned, and how far send() has got
  signal,        \* signal.aborted
  listener,      \* the abort listener on the signal: "none", "readBody", "dispatch"
  script,        \* the calls the present task of the loop has still to make
  \* dispatchRequest
  abortSet,      \* abort.aborted
  handler,       \* abort.handler is set
  cancelled,     \* the context
  go,            \* where the goroutine of the dispatch function is
  body,          \* of the response: "none", "raw", "open" (a stream), "closed"
  \* uploadBody
  finished, closed, once,   \* finished, <-aborted, abortOnce
  items, current,           \* the channel of capacity 1 and the item being read
  jsRead,                   \* a reader.read() whose promise is pending
  lock,                     \* of the stream: "none", "held", "cancelling", "released"
  produced,                 \* chunks the stream has delivered
  read,                     \* where the transport's Read is
  received,                 \* the bytes it returned
  closing,                  \* per closer, where its uploadBody.Close is
  \* external
  http,          \* what the server or the network did
  \* the scheduler
  pending, posted, open

js == <<kind, promise, signal, listener>>
request == <<abortSet, handler, cancelled, go, body>>
channel == <<finished, closed, once, items>>
source == <<jsRead, lock, produced>>
transport == <<current, read, received>>
sched == <<pending, posted, open>>
vars == <<js, script, request, channel, source, transport, closing, http, sched>>

Task == [op : {"readNext"}, n : 0..Len(Sizes)] \cup [op : {"settle", "cancelReader"}]

Sched == INSTANCE Scheduler WITH Tasks <- Task, pending <- pending, submitted <- posted, open <- open

Chunk(n) == [type |-> "data", chunk |-> n, from |-> 1]
Failure == [type |-> "err"]
Eof == [type |-> "eof"]

Init ==
  /\ kind \in {"static", "stream"} /\ promise = "new" /\ signal = FALSE /\ listener = "none"
  /\ script = <<>>
  /\ abortSet = FALSE /\ handler = FALSE /\ cancelled = FALSE /\ go = "none" /\ body = "none"
  /\ finished = FALSE /\ closed = FALSE /\ once = "free" /\ items = <<>> /\ current = <<>>
  /\ jsRead = FALSE /\ lock = "none" /\ produced = 0
  /\ read = "idle" /\ received = <<>>
  /\ closing = [a \in Closers |-> "idle"]
  /\ http = "none"
  /\ Sched!Init

\* JavaScript runs between two tasks, or in the jobs that a terminating loop drains.
LoopIdle == script = <<>> /\ closing["loop"] = "idle" /\ (open \/ pending # <<>>)

Call(op) == [op |-> op]
Enqueue(item) == [op |-> "enqueue", item |-> item]
FinishOnLoop(item) == [op |-> "finishOnLoop", item |-> item]

\* Faulty variant: the listener stays on the signal.
FinishKeepsListener == <<Call("close"), Call("cancel")>>

\* data.finish: the listener, the upload, the context.
Finish == <<Call("detachAbortListener"), Call("close"), Call("cancel")>>

\* data.abortOnLoop.
AbortOnLoop == <<Call("abortOnLoop"), Call("cancel")>>

\* The cleanup of a response stream.
Cleanup == <<Call("clearHandler")>> \o Finish

-----------------------------------------------------------------------------
(* fetch(): the facade, and parseDispatchRequest on the loop.              *)

\* send: the body of a static request is read first.
Send ==
  /\ LoopIdle /\ promise = "new"
  /\ promise' = IF signal THEN "aborted" ELSE IF kind = "static" THEN "readBody" ELSE "dispatch"
  /\ listener' = IF promise' = "readBody" THEN "readBody" ELSE listener
  /\ UNCHANGED <<kind, signal, script, request, channel, source, transport, closing, http, sched>>

\* readBody returns or fails; the listener is removed either way.
ReadBody ==
  /\ LoopIdle /\ promise = "readBody"
  /\ promise' \in {"dispatch", "failed"}
  /\ listener' = "none"
  /\ UNCHANGED <<kind, signal, script, request, channel, source, transport, closing, http, sched>>

\* host.dispatch: newUploadBody reads for the first time, the listener is attached and
\* the goroutine started. The read may fail at once, or abort the signal (it calls
\* the pull of the stream).
Dispatch ==
  /\ LoopIdle /\ promise = "dispatch"
  /\ \/ /\ signal /\ promise' = "aborted"
        /\ UNCHANGED <<signal, listener, script, abortSet, lock, jsRead>>
     \/ /\ ~signal /\ promise' = "pending" /\ kind = "static"
        /\ listener' = "dispatch" /\ script' = <<Call("start")>>
        /\ UNCHANGED <<signal, abortSet, lock, jsRead>>
     \/ /\ ~signal /\ promise' = "pending" /\ kind = "stream" /\ lock' = "held"
        /\ \/ /\ listener' = "dispatch" /\ jsRead' = TRUE /\ script' = <<Call("start")>>
              /\ UNCHANGED <<signal, abortSet>>
           \/ /\ listener' = "dispatch" /\ script' = <<FinishOnLoop(Failure), Call("start")>>
              /\ UNCHANGED <<signal, abortSet, jsRead>>
           \/ /\ signal' = TRUE /\ abortSet' = TRUE /\ jsRead' = TRUE
              /\ script' = AbortOnLoop \o <<Call("start")>>
              /\ UNCHANGED listener
  /\ UNCHANGED <<kind, handler, cancelled, go, body, channel, produced, transport,
                 closing, http, sched>>

\* parseDispatchRequest fails: headers, a stream that is locked, or a signal that
\* cannot be listened to, after the upload has started.
DispatchFails ==
  /\ LoopIdle /\ promise = "dispatch" /\ ~signal
  /\ promise' = "failed"
  /\ \/ /\ cancelled' = TRUE
        /\ UNCHANGED <<lock, jsRead, script>>
     \/ /\ kind = "stream"
        /\ lock' = "held" /\ jsRead' = TRUE /\ script' = AbortOnLoop
        /\ UNCHANGED cancelled
  /\ UNCHANGED <<kind, signal, listener, abortSet, handler, go, body, channel, produced, transport,
                 closing, http, sched>>

-----------------------------------------------------------------------------
(* The abort signal.                                                       *)

\* doAbort takes the listeners off and calls them. That of readBody cancels the
\* body and rejects; that of dispatch sets the abort state.
Abort ==
  /\ LoopIdle /\ ~signal
  /\ signal' = TRUE
  /\ listener' = "none"
  /\ promise' = IF listener = "readBody" THEN "aborted" ELSE promise
  /\ script' = IF listener = "dispatch" THEN <<Call("setAbort")>> ELSE <<>>
  /\ UNCHANGED <<kind, request, channel, source, transport, closing, http, sched>>

\* A call of the script: the calls it makes itself come first.
Step(op, calls) ==
  /\ script # <<>> /\ Head(script).op = op /\ closing["loop"] = "idle"
  /\ script' = calls \o Tail(script)

\* dispatchAbortState.set: the handler of the response stream, if there is one.
SetAbort ==
  /\ Step("setAbort", (IF handler THEN <<Call("bodyError")>> ELSE <<>>) \o AbortOnLoop)
  /\ abortSet' = TRUE
  /\ UNCHANGED <<js, handler, cancelled, go, body, channel, source, transport, closing, http, sched>>

\* ReaderStream.Error: nothing if the stream has settled.
BodyError ==
  /\ Step("bodyError", IF body = "open" THEN Cleanup ELSE <<>>)
  /\ body' = "closed"
  /\ UNCHANGED <<js, abortSet, handler, cancelled, go, channel, source, transport, closing, http, sched>>

ClearHandler ==
  /\ Step("clearHandler", <<>>)
  /\ handler' = FALSE
  /\ UNCHANGED <<js, abortSet, cancelled, go, body, channel, source, transport, closing, http, sched>>

DetachAbortListener ==
  /\ Step("detachAbortListener", <<>>)
  /\ listener' = "none"
  /\ UNCHANGED <<kind, promise, signal, request, channel, source, transport, closing, http, sched>>

CancelContext ==
  /\ Step("cancel", <<>>)
  /\ cancelled' = TRUE
  /\ UNCHANGED <<js, abortSet, handler, go, body, channel, source, transport, closing, http, sched>>

StartGoroutine ==
  /\ Step("start", <<>>)
  /\ go' = "do" /\ http' = "running"
  /\ UNCHANGED <<js, abortSet, handler, cancelled, body, channel, source, transport, closing, sched>>

-----------------------------------------------------------------------------
(* uploadBody on the loop.                                                 *)

\* The promise of reader.read() settles: a chunk, the end, a rejection, or a chunk
\* that is not bytes.
ReadSettles ==
  /\ LoopIdle /\ jsRead
  /\ jsRead' = FALSE
  /\ \/ finished /\ UNCHANGED <<script, produced>>
     \/ /\ ~finished /\ produced < Len(Sizes)
        /\ produced' = produced + 1
        /\ script' = <<Enqueue(Chunk(produced + 1))>>
     \/ /\ ~finished
        /\ script' \in {<<FinishOnLoop(Eof)>>, <<FinishOnLoop(Failure)>>, <<Call("failChunkOnLoop")>>}
        /\ UNCHANGED produced
  /\ UNCHANGED <<js, request, channel, lock, transport, closing, http, sched>>

\* A select: with room in the channel and aborted closed either may happen.
EnqueueItem ==
  /\ Step("enqueue", <<>>)
  /\ \/ items = <<>> /\ items' = <<Head(script).item>>
     \/ closed /\ UNCHANGED items
  /\ UNCHANGED <<js, request, finished, closed, once, source, transport, closing, http, sched>>

FinishUpload ==
  /\ Step("finishOnLoop",
          IF finished THEN <<>> ELSE <<Call("release"), Enqueue(Head(script).item)>>)
  /\ finished' = TRUE
  /\ UNCHANGED <<js, request, closed, once, items, source, transport, closing, http, sched>>

FailChunk ==
  /\ Step("failChunkOnLoop", IF finished THEN <<>> ELSE <<Enqueue(Failure), Call("cancelReader")>>)
  /\ finished' = TRUE
  /\ UNCHANGED <<js, request, closed, once, items, source, transport, closing, http, sched>>

\* releaseReaderOnLoop.
Release ==
  /\ Step("release", <<>>)
  /\ lock' = "released"
  /\ UNCHANGED <<js, request, channel, jsRead, produced, transport, closing, http, sched>>

\* cancelReaderOnLoop: reader.cancel fails, or returns a promise.
CancelReader ==
  /\ Step("cancelReader", <<>>)
  /\ lock' \in IF lock = "released" THEN {lock} ELSE {"cancelling", "released"}
  /\ UNCHANGED <<js, request, channel, jsRead, produced, transport, closing, http, sched>>

\* The promise of reader.cancel settles, if the stream's own cancel ever returns.
CancelSettles ==
  /\ LoopIdle /\ lock = "cancelling"
  /\ lock' = "released"
  /\ UNCHANGED <<js, script, request, channel, jsRead, produced, transport, closing, http, sched>>

\* Faulty variant: the abort is handed to the transport as an item.
AbortUploadAsItem ==
  /\ kind = "stream" => once # "busy"
  /\ LET first == kind = "stream" /\ once = "free" IN
     /\ Step("abortOnLoop", IF first /\ ~finished THEN <<Enqueue(Failure), Call("cancelReader"),
                                                         Call("onceDone")>> ELSE <<>>)
     /\ once' = IF ~first THEN once ELSE IF finished THEN "done" ELSE "busy"
     /\ finished' = (finished \/ first)
  /\ UNCHANGED <<js, request, closed, items, source, transport, closing, http, sched>>

\* abortOnce.Do in abortOnLoop: nothing after another caller, or if the upload has
\* finished.
AbortUpload ==
  /\ kind = "stream" => once # "busy"
  /\ LET first == kind = "stream" /\ once = "free" IN
     /\ Step("abortOnLoop", IF first /\ ~finished THEN <<Call("closeAborted")>> ELSE <<>>)
     /\ once' = IF ~first THEN once ELSE IF finished THEN "done" ELSE "busy"
     /\ finished' = (finished \/ first)
  /\ UNCHANGED <<js, request, closed, items, source, transport, closing, http, sched>>

CloseAborted ==
  /\ Step("closeAborted", <<Call("cancelReader"), Call("onceDone")>>)
  /\ closed' = TRUE
  /\ UNCHANGED <<js, request, finished, once, items, source, transport, closing, http, sched>>

OnceDone ==
  /\ Step("onceDone", <<>>)
  /\ once' = "done"
  /\ UNCHANGED <<js, request, finished, closed, items, source, transport, closing, http, sched>>

-----------------------------------------------------------------------------
(* uploadBody.Close, by any goroutine.                                     *)

\* Close returns at once if the upload has finished.
CloseStarts(a) == closing' = [closing EXCEPT ![a] = IF kind = "stream" /\ ~finished THEN "once" ELSE "idle"]

CloseOnLoop ==
  /\ Step("close", <<>>)
  /\ CloseStarts("loop")
  /\ UNCHANGED <<js, request, channel, source, transport, http, sched>>

\* abortOnce.Do: the first caller closes, the others wait for it.
CloseDo(a) ==
  /\ closing[a] = "once" /\ once # "busy"
  /\ IF once = "done" THEN closing' = [closing EXCEPT ![a] = "idle"] /\ UNCHANGED <<once, finished>>
     ELSE /\ once' = "busy" /\ finished' = TRUE
          /\ closing' = [closing EXCEPT ![a] = "do"]
  /\ UNCHANGED <<js, script, request, closed, items, source, transport, http, sched>>

\* close(aborted), and the cancel of the reader is left to the loop.
CloseDone(a) ==
  /\ closing[a] = "do"
  /\ closed' = TRUE /\ once' = "done"
  /\ closing' = [closing EXCEPT ![a] = "idle"]
  /\ Sched!Accept(Call("cancelReader")) \/ Sched!Refuse(Call("cancelReader"))
  /\ UNCHANGED <<js, script, request, finished, items, source, transport, http>>

\* The transport closes the body of a request that ends, possibly during a Read.
TransportClose ==
  /\ closing["transport"] = "idle" /\ kind = "stream" /\ ~finished
  /\ cancelled \/ http \notin {"none", "running"} \/ read \in {"eof", "failed"}
  /\ CloseStarts("transport")
  /\ UNCHANGED <<js, script, request, channel, source, transport, http, sched>>

-----------------------------------------------------------------------------
(* uploadBody.Read, on the transport's goroutine.                          *)

\* net/http reads as long as it likes: after an early response, after a Close, and
\* after the request has failed.
Read ==
  /\ read = "idle" /\ kind = "stream" /\ http # "none"
  /\ read' = IF current = <<>> THEN "select" ELSE "item"
  /\ UNCHANGED <<js, script, request, channel, source, current, received, closing, http, sched>>

ReadSelect ==
  /\ read = "select"
  /\ \/ /\ items # <<>>
        /\ current' = items /\ items' = <<>>
        /\ read' = "item"
     \/ /\ closed
        /\ read' = "failed"
        /\ UNCHANGED <<items, current>>
  /\ UNCHANGED <<js, script, request, finished, closed, once, source, received, closing, http, sched>>

Bytes(n, from, to) == [i \in 1..(to + 1 - from) |-> <<n, from + i - 1>>]

\* Faulty variant: what did not fit into the target is dropped.
ReadItemDropsRest ==
  /\ read = "item"
  /\ LET item == current[1] IN
     \/ /\ item.type # "data"
        /\ read' = IF item.type = "eof" THEN "eof" ELSE "failed"
        /\ UNCHANGED received
     \/ /\ item.type = "data"
        /\ read' = IF Sizes[item.chunk] = 0 THEN "clearAndGoOn" ELSE "clear"
        /\ \E to \in item.from..Sizes[item.chunk] :
             received' = received \o Bytes(item.chunk, item.from, to)
  /\ UNCHANGED <<js, script, request, channel, source, current, closing, http, sched>>

\* The item: an error, the end, or some of its bytes; an item without bytes left is
\* cleared, and the call goes on if it had none.
ReadItem ==
  /\ read = "item"
  /\ LET item == current[1] IN
     \/ /\ item.type # "data"
        /\ read' = IF item.type = "eof" THEN "eof" ELSE "failed"
        /\ UNCHANGED <<current, received>>
     \/ /\ item.type = "data" /\ Sizes[item.chunk] = 0
        /\ read' = "clearAndGoOn"
        /\ UNCHANGED <<current, received>>
     \/ /\ item.type = "data"
        /\ \E to \in item.from..Sizes[item.chunk] :
             /\ received' = received \o Bytes(item.chunk, item.from, to)
             /\ current' = <<[item EXCEPT !.from = to + 1]>>
             /\ read' = IF to = Sizes[item.chunk] THEN "clear" ELSE "idle"
  /\ UNCHANGED <<js, script, request, channel, source, closing, http, sched>>

Returns == IF read = "clear" THEN "idle" ELSE "select"

\* clearCurrentAndReadNext up to the unlock.
ClearCurrent ==
  /\ read \in {"clear", "clearAndGoOn"} /\ current # <<>>
  /\ current' = <<>>
  /\ read' = IF finished THEN Returns ELSE read
  /\ UNCHANGED <<js, script, request, channel, source, received, closing, http, sched>>

\* RunOnLoop(readNextOnLoop); a refusal ends the upload.
ReadNext ==
  /\ read \in {"clear", "clearAndGoOn"} /\ current = <<>>
  /\ LET t == [op |-> "readNext", n |-> produced] IN
     \/ Sched!Accept(t) /\ read' = Returns
     \/ Sched!Refuse(t) /\ read' = IF read = "clear" THEN "terminate" ELSE "terminateAndGoOn"
  /\ UNCHANGED <<js, script, request, channel, source, current, received, closing, http>>

\* terminateOffLoop.
Terminate ==
  /\ read \in {"terminate", "terminateAndGoOn"} /\ once # "busy"
  /\ once' = "done"
  /\ finished' = (finished \/ once = "free") /\ closed' = (closed \/ once = "free")
  /\ read' = IF read = "terminate" THEN "idle" ELSE "select"
  /\ UNCHANGED <<js, script, request, items, source, current, received, closing, http, sched>>

-----------------------------------------------------------------------------
(* The request: net/http (external) and the goroutine of the dispatch function. *)

\* A response may come before the request body was sent; a failure at any time.
Answer ==
  /\ http = "running"
  /\ http' \in {"response", "nullBody", "error"}
  /\ body' = IF http' = "error" THEN "none" ELSE "raw"
  /\ UNCHANGED <<js, script, abortSet, handler, cancelled, go, channel, source, transport, closing, sched>>

\* doDispatchRequest returns; the closure is queued, or everything is released here.
Settle ==
  /\ go = "do" /\ http # "running"
  /\ \/ /\ Sched!Accept(Call("settle"))
        /\ go' = "done"
        /\ UNCHANGED closing
     \/ /\ Sched!Refuse(Call("settle"))
        /\ go' = "offLoop"
        /\ CloseStarts("go")
  /\ UNCHANGED <<js, script, abortSet, handler, cancelled, body, channel, source, transport, http>>

\* The rest of finishOffLoop, and the close of the response.
FinishOffLoop ==
  /\ go = "offLoop" /\ closing["go"] = "idle"
  /\ go' = "refused" /\ cancelled' = TRUE
  /\ body' = IF body = "none" THEN "none" ELSE "closed"
  /\ UNCHANGED <<js, script, abortSet, handler, channel, source, transport, closing, http, sched>>

-----------------------------------------------------------------------------
(* Tasks of the loop.                                                      *)

\* The closure of the dispatch function.
SettleTask ==
  CASE http = "error" -> Finish \o <<Call("reject")>>
    [] http = "nullBody" -> <<Call("closeBody")>> \o Finish \o <<Call("resolve")>>
    [] OTHER -> <<Call("setHandler"), Call("resolve")>>

\* readNextOnLoop.
ReadNextTask ==
  \/ finished /\ UNCHANGED <<script, jsRead>>
  \/ ~finished /\ jsRead' = TRUE /\ UNCHANGED script
  \/ ~finished /\ script' = <<FinishOnLoop(Failure)>> /\ UNCHANGED jsRead

RunTask ==
  /\ LoopIdle
  /\ Sched!RunNext
  /\ CASE Head(pending).op = "settle" -> script' = SettleTask /\ UNCHANGED jsRead
       [] Head(pending).op = "cancelReader" -> script' = <<Call("cancelReader")>> /\ UNCHANGED jsRead
       [] OTHER -> ReadNextTask
  /\ UNCHANGED <<js, request, channel, lock, produced, transport, closing, http>>

\* fetchReadableStream: the handler is called if the abort came first.
SetHandler ==
  /\ Step("setHandler", IF abortSet THEN <<Call("bodyError")>> ELSE <<>>)
  /\ body' = "open" /\ handler' = TRUE
  /\ UNCHANGED <<js, abortSet, cancelled, go, channel, source, transport, closing, http, sched>>

CloseBody ==
  /\ Step("closeBody", <<>>)
  /\ body' = "closed"
  /\ UNCHANGED <<js, abortSet, handler, cancelled, go, channel, source, transport, closing, http, sched>>

\* The promise of dispatch, and what send makes of it.
SettlePromise ==
  /\ \/ Step("resolve", <<>>) /\ promise' = "resolved"
     \/ Step("reject", <<>>) /\ promise' = IF signal THEN "aborted" ELSE "failed"
  /\ UNCHANGED <<kind, signal, listener, request, channel, source, transport, closing, http, sched>>

-----------------------------------------------------------------------------
(* The response stream, as ReaderStream.tla describes it.                  *)

\* End, failure or cancel of the stream: onSettled, once, on the loop.
BodySettles ==
  /\ LoopIdle /\ body = "open"
  /\ body' = "closed"
  /\ script' = Cleanup
  /\ UNCHANGED <<js, abortSet, handler, cancelled, go, channel, source, transport, closing, http, sched>>

\* A read whose result the loop refuses: onSettledOffLoop.
BodyAbandoned ==
  /\ ~open /\ body = "open"
  /\ body' = "closed" /\ handler' = FALSE
  /\ CloseStarts("body")
  /\ go' = "bodyOffLoop"
  /\ UNCHANGED <<js, script, abortSet, cancelled, channel, source, transport, http, sched>>

BodyFinishOffLoop ==
  /\ go = "bodyOffLoop" /\ closing["body"] = "idle"
  /\ cancelled' = TRUE
  /\ go' = "refused"
  /\ UNCHANGED <<js, script, abortSet, handler, body, channel, source, transport, closing, http, sched>>

SchedulerChanges ==
  /\ Sched!Close \/ Sched!Reopen
  /\ UNCHANGED <<js, script, request, channel, source, transport, closing, http>>

-----------------------------------------------------------------------------
LoopStep ==
  \/ SetAbort \/ BodyError \/ ClearHandler \/ DetachAbortListener \/ CancelContext \/ StartGoroutine
  \/ EnqueueItem \/ FinishUpload \/ FailChunk \/ Release \/ CancelReader
  \/ AbortUpload \/ CloseAborted \/ OnceDone \/ CloseOnLoop
  \/ SetHandler \/ CloseBody \/ SettlePromise \/ RunTask
ReadStep == ReadSelect \/ ReadItem \/ ClearCurrent \/ ReadNext \/ Terminate
CloseStep(a) == CloseDo(a) \/ CloseDone(a)

Next ==
  \/ Send \/ ReadBody \/ Dispatch \/ DispatchFails \/ Abort
  \/ ReadSettles \/ CancelSettles \/ BodySettles \/ LoopStep
  \/ Read \/ ReadStep \/ TransportClose \/ Answer
  \/ \E a \in Closers : CloseStep(a)
  \/ Settle \/ FinishOffLoop \/ BodyAbandoned \/ BodyFinishOffLoop
  \/ SchedulerChanges

\* Goroutines that are not blocked run. The transport returns when the context is
\* cancelled or the body fails; the server need not answer, JavaScript need not
\* produce, consume or abort anything.
Fairness ==
  /\ WF_vars(LoopStep) /\ WF_vars(ReadStep)
  /\ \A a \in Closers : WF_vars(CloseStep(a))
  /\ WF_vars(Settle) /\ WF_vars(FinishOffLoop) /\ WF_vars(BodyFinishOffLoop)
  /\ WF_vars((cancelled \/ read = "failed") /\ Answer)

Spec == Init /\ [][Next]_vars
FairSpec == Spec /\ Fairness

-----------------------------------------------------------------------------
\* A blocked enqueue would block the loop and everything on it: whenever the loop
\* has an item to hand over, the channel has room or the upload was aborted. There
\* is one item between JavaScript and the transport, whoever ends the upload.
EnqueueNeverBlocks ==
  script # <<>> /\ Head(script).op = "enqueue" => items = <<>> \/ closed

\* The bytes of the first k chunks of the stream, and their order in it.
BytesOf(k) == UNION {{n} \X (1..Sizes[n]) : n \in 1..k}
Precedes(p, q) == p[1] < q[1] \/ (p[1] = q[1] /\ p[2] < q[2])

\* What the transport was given of the request body is what the stream produced, in
\* order, without loss or repetition, across partial reads and empty chunks, and also
\* when it goes on reading beside an early response or after a Close (uploadBody.Read,
\* upload.go:188, looks at neither); it sees the end only after all of it.
UploadInOrder ==
  /\ \A i \in DOMAIN received : received[i] \in BytesOf(produced)
  /\ \A i, j \in DOMAIN received : i < j => Precedes(received[i], received[j])
  /\ \A p \in BytesOf(produced) :
       read = "eof" \/ (\E i \in DOMAIN received : Precedes(p, received[i])) =>
         \E j \in DOMAIN received : received[j] = p

\* The request is released: the context cancelled, no listener on the signal, the
\* reader of the upload unlocked, or the stream's own cancel called.
Released ==
  /\ cancelled /\ listener # "dispatch" /\ body # "open"
  /\ kind = "stream" => finished /\ lock \in {"released", "cancelling"}

\* An aborted fetch settles and is released, and so is one that failed or whose
\* response was consumed, if the loop is not terminated; if it is, at least the context
\* and the response are. A Read of the request body never outlives this.
FetchEnds ==
  /\ []open =>
       /\ (promise = "pending" /\ signal) ~> (promise # "pending")
       /\ ((go # "none" \/ lock # "none") /\ (signal \/ promise = "failed" \/ body = "closed")) ~> Released
  /\ (go \in {"offLoop", "bodyOffLoop"}) ~> (cancelled /\ body \in {"none", "closed"})
  /\ (cancelled /\ read = "select") ~> (read # "select")
=============================================================================
