---------------------------- MODULE FetchProofs -----------------------------
(* Theorems about the upload of a request body (Fetch): the enqueue onto the body's
   channel never blocks the loop, and the transport receives the bytes in order. *)
EXTENDS Fetch, SequenceTheorems, TLAPS

\* What the loop hands to the transport: a chunk, none of which was read yet or some.
Item == [type : {"data"}, chunk : 1..Len(Sizes), from : Nat] \cup [type : {"err", "eof"}]

\* The calls of a script.
CallOps ==
  {"start", "setAbort", "abortOnLoop", "closeAborted", "onceDone", "cancel", "cancelReader",
   "detachAbortListener", "close", "clearHandler", "bodyError", "release", "failChunkOnLoop",
   "setHandler", "closeBody", "resolve", "reject"}
ScriptCall == [op : CallOps] \cup [op : {"enqueue", "finishOnLoop"}, item : Item]

ReadStates ==
  {"idle", "select", "item", "clear", "clearAndGoOn", "terminate", "terminateAndGoOn", "eof", "failed"}
UploadTypes ==
  /\ script \in Seq(ScriptCall) /\ pending \in Seq(Task)
  /\ items = <<>> \/ \E item \in Item : items = <<item>>
  /\ current = <<>> \/ \E item \in Item : current = <<item>>
  /\ jsRead \in BOOLEAN /\ produced \in 0..Len(Sizes) /\ received \in Seq(Nat \X Nat)
  /\ read \in ReadStates

\* Before host.dispatch nothing of the request exists.
Early == promise \in {"new", "readBody", "dispatch"}
EarlyInv ==
  Early =>
    /\ script = <<>> /\ pending = <<>> /\ http = "none" /\ go = "none" /\ body = "none"
    /\ listener # "dispatch" /\ ~cancelled /\ \A a \in Closers : closing[a] = "idle"
    /\ items = <<>> /\ current = <<>> /\ ~jsRead /\ produced = 0 /\ received = <<>>
    /\ read = "idle" /\ lock = "none"

\* The turn of the upload: to produce the next item, to hand it over, to read it or to
\* ask for the one after it.
TurnOps == {"enqueue", "finishOnLoop", "failChunkOnLoop"}
Hands(s) == \E i \in DOMAIN s : s[i].op \in TurnOps
Asks(s) == \E i \in DOMAIN s : s[i].op = "readNext"
Reads == current # <<>> \/ read \in {"clear", "clearAndGoOn"}
OneTurn ==
  /\ \A i, j \in DOMAIN script : script[i].op \in TurnOps /\ script[j].op \in TurnOps => i = j
  /\ \A i, j \in DOMAIN pending : pending[i].op = "readNext" /\ pending[j].op = "readNext" => i = j
  /\ jsRead => ~Hands(script) /\ items = <<>> /\ ~Reads /\ ~Asks(pending)
  /\ Hands(script) => items = <<>> /\ ~Reads /\ ~Asks(pending)
  /\ items # <<>> => ~Reads /\ ~Asks(pending)
  /\ Reads => ~Asks(pending)

ReadInv ==
  /\ read \in {"select", "terminate", "terminateAndGoOn"} => current = <<>>
  /\ read \in {"item", "eof"} => current # <<>>
  /\ read = "eof" => current[1].type = "eof"
  /\ read \in {"clear", "clearAndGoOn"} /\ current # <<>> =>
       current[1].type = "data" /\ current[1].from = Sizes[current[1].chunk] + 1

\* Of the first k chunks, the bytes in r are those before the byte b of chunk n.
UpTo(r, k, n, b) ==
  /\ \A i \in DOMAIN r : Precedes(r[i], <<n, b>>)
  /\ \A p \in BytesOf(k) : Precedes(p, <<n, b>>) => \E i \in DOMAIN r : r[i] = p
All(r, k) == UpTo(r, k, k + 1, 1)

\* An item on its way to the transport that has received r: the last of the k chunks
\* produced, or what comes after all of them.
OnItsWay(r, k, item) ==
  IF item.type = "data" THEN item.chunk = k /\ item.from = 1 /\ UpTo(r, k, k, 1) ELSE All(r, k)
BeingRead(r, k, item) ==
  IF item.type = "data"
    THEN item.chunk = k /\ item.from \in 1..Sizes[k] + 1 /\ UpTo(r, k, k, item.from)
    ELSE All(r, k)
CallInv(r, k, c) ==
  /\ c.op = "enqueue" => OnItsWay(r, k, c.item)
  /\ c.op = "finishOnLoop" => All(r, k) /\ c.item.type # "data"
  /\ c.op = "failChunkOnLoop" => All(r, k)
BytesInv ==
  /\ jsRead => All(received, produced)
  /\ \A i \in DOMAIN script : CallInv(received, produced, script[i])
  /\ items # <<>> => OnItsWay(received, produced, items[1])
  /\ current # <<>> => BeingRead(received, produced, current[1])
  /\ Asks(pending) => All(received, produced)
  /\ read \in {"clear", "clearAndGoOn"} /\ current = <<>> => All(received, produced)

\* The bytes in r are the first ones of k chunks, in order.
InOrder(r, k) ==
  /\ \A i \in DOMAIN r : r[i] \in BytesOf(k)
  /\ \A i, j \in DOMAIN r : i < j => Precedes(r[i], r[j])
  /\ \A p \in BytesOf(k) :
       (\E i \in DOMAIN r : Precedes(p, r[i])) => \E j \in DOMAIN r : r[j] = p

UploadInv == UploadTypes /\ EarlyInv /\ OneTurn /\ ReadInv /\ BytesInv /\ InOrder(received, produced)

-----------------------------------------------------------------------------
(* Scripts.                                                                *)

\* The calls that do not take the turn.
QuietCall == [op : CallOps \ {"failChunkOnLoop"}]

\* The script t has no other calls with the turn than s.
Follows(t, s) ==
  /\ t \in Seq(ScriptCall)
  /\ \A i, j \in DOMAIN t : t[i].op \in TurnOps /\ t[j].op \in TurnOps => i = j
  /\ \A i \in DOMAIN t : t[i].op \in TurnOps => \E j \in DOMAIN s : s[j] = t[i]

\* The sequences of calls that do not take the turn.
LEMMA QuietCalls ==
  /\ Finish \in Seq(QuietCall) /\ AbortOnLoop \in Seq(QuietCall) /\ Cleanup \in Seq(QuietCall)
  /\ \A op \in CallOps \ {"failChunkOnLoop"} : Call(op) \in QuietCall /\ <<Call(op)>> \in Seq(QuietCall)
  /\ <<>> \in Seq(QuietCall)
<1>1. \A op \in CallOps \ {"failChunkOnLoop"} : Call(op) \in QuietCall BY DEF Call, QuietCall
<1>2. \A op \in CallOps \ {"failChunkOnLoop"} : <<Call(op)>> \in Seq(QuietCall)
  <2> HIDE DEF QuietCall
  <2> QED BY <1>1
<1>3. /\ Call("detachAbortListener") \in QuietCall /\ Call("close") \in QuietCall
      /\ Call("cancel") \in QuietCall /\ Call("abortOnLoop") \in QuietCall
      /\ Call("clearHandler") \in QuietCall
  BY <1>1 DEF CallOps
<1>4. Finish \in Seq(QuietCall) BY <1>3 DEF Finish
<1>5. AbortOnLoop \in Seq(QuietCall) BY <1>3 DEF AbortOnLoop
<1>6. Cleanup \in Seq(QuietCall) BY <1>3, <1>4 DEF Cleanup
<1> QED BY <1>1, <1>2, <1>4, <1>5, <1>6

\* A quiet call is a call of a script, and has not the turn.
LEMMA QuietIsCall ==
  ASSUME NEW c \in QuietCall
  PROVE  c \in ScriptCall /\ c.op \notin TurnOps
BY DEF QuietCall, ScriptCall, CallOps, TurnOps

\* A script that goes on with quiet calls.
LEMMA QuietFollows ==
  ASSUME UploadInv, script # <<>>, NEW calls \in Seq(QuietCall)
  PROVE  Follows(calls \o Tail(script), script)
<1> DEFINE t == calls \o Tail(script)
           n == Len(calls)
<1>1. script \in Seq(ScriptCall) /\ Len(script) \in Nat \ {0} /\ n \in Nat
  BY DEF UploadInv, UploadTypes
<1>2. /\ Tail(script) \in Seq(ScriptCall) /\ Len(Tail(script)) = Len(script) - 1
      /\ \A i \in 1..Len(script) - 1 : Tail(script)[i] = script[i + 1]
  BY <1>1
<1>3. calls \in Seq(ScriptCall)
  <2>1. \A i \in 1..n : calls[i] \in ScriptCall BY QuietIsCall
  <2> QED BY <2>1
<1>4. /\ t \in Seq(ScriptCall) /\ Len(t) = n + Len(script) - 1
      /\ \A i \in 1..n : t[i] = calls[i]
      /\ \A i \in n + 1..Len(t) : t[i] = Tail(script)[i - n]
  BY <1>1, <1>2, <1>3
<1>5. DOMAIN t = 1..Len(t) BY <1>4
<1> HIDE DEF t
<1>6. \A i \in 1..n : t[i].op \notin TurnOps BY <1>4, QuietIsCall
<1>7. \A i \in n + 1..Len(t) : t[i] = script[i - n + 1] /\ i - n + 1 \in DOMAIN script
  <2> SUFFICES ASSUME NEW i \in n + 1..Len(t)
               PROVE  t[i] = script[i - n + 1] /\ i - n + 1 \in DOMAIN script
    OBVIOUS
  <2>1. i - n \in 1..Len(script) - 1 BY <1>1, <1>4
  <2>2. t[i] = Tail(script)[i - n] BY <1>4
  <2>3. Tail(script)[i - n] = script[i - n + 1] BY <1>2, <2>1
  <2> QED BY <1>1, <2>1, <2>2, <2>3
<1>8. ASSUME NEW i \in DOMAIN t, t[i].op \in TurnOps
      PROVE  i \in n + 1..Len(t)
  <2>1. i \in 1..Len(t) /\ i \notin 1..n BY <1>5, <1>6, <1>8
  <2> QED BY <1>1, <1>4, <2>1
<1>9. ASSUME NEW i \in DOMAIN t, NEW j \in DOMAIN t, t[i].op \in TurnOps, t[j].op \in TurnOps
      PROVE  i = j
  <2>1. i \in n + 1..Len(t) /\ j \in n + 1..Len(t) BY <1>8, <1>9
  <2>2. i - n + 1 = j - n + 1 BY <1>7, <1>9, <2>1 DEF UploadInv, OneTurn
  <2> QED BY <1>1, <2>1, <2>2
<1>10. \A i \in DOMAIN t : t[i].op \in TurnOps => \E j \in DOMAIN script : script[j] = t[i]
  BY <1>7, <1>8
<1> QED BY <1>4, <1>9, <1>10 DEF Follows, t

\* A script of quiet calls alone.
LEMMA QuietScript ==
  ASSUME NEW calls \in Seq(QuietCall), NEW s
  PROVE  Follows(calls, s) /\ ~Hands(calls)
<1>1. \A i \in DOMAIN calls : calls[i] \in ScriptCall /\ calls[i].op \notin TurnOps
  BY QuietIsCall
<1>2. calls \in Seq(ScriptCall) BY <1>1
<1> QED BY <1>1, <1>2 DEF Follows, Hands

-----------------------------------------------------------------------------
(* Steps that leave the bytes and the turn alone.                          *)

\* The bytes and the turn where a step only makes a script that follows the present one
\* and queues or starts tasks other than a read.
LEMMA CarriesOn ==
  ASSUME UploadInv, Follows(script', script), EarlyInv',
         pending' \in Seq(Task),
         \A i, j \in DOMAIN pending' : pending'[i].op = "readNext" /\ pending'[j].op = "readNext" => i = j,
         Asks(pending') => Asks(pending),
         UNCHANGED <<items, current, jsRead, produced, received, read>>
  PROVE  UploadInv'
<1> USE DEF UploadInv
<1>1. UploadTypes' BY DEF UploadTypes, Follows
<1>2. Hands(script') => Hands(script) BY DEF Hands, Follows
<1>3. OneTurn'
  <2>1. \A i, j \in DOMAIN script' : script'[i].op \in TurnOps /\ script'[j].op \in TurnOps => i = j
    BY DEF Follows
  <2>2. Reads' <=> Reads BY DEF Reads
  <2>3. Hands(script)' <=> Hands(script') BY DEF Hands
  <2>4. Asks(pending)' <=> Asks(pending') BY DEF Asks
  <2> HIDE DEF Reads, Hands, Asks
  <2> QED BY <1>2, <2>1, <2>2, <2>3, <2>4 DEF OneTurn
<1>4. ReadInv' BY DEF ReadInv
<1>5. BytesInv'
  <2>1. ASSUME NEW i \in DOMAIN script' PROVE CallInv(received, produced, script'[i])
    <3>1. CASE script'[i].op \in TurnOps BY <3>1 DEF Follows, BytesInv
    <3>2. CASE script'[i].op \notin TurnOps BY <3>2 DEF CallInv, TurnOps
    <3> QED BY <3>1, <3>2
  <2>2. Asks(pending)' => Asks(pending) BY DEF Asks
  <2> QED BY <2>1, <2>2 DEF BytesInv
<1> QED BY <1>1, <1>3, <1>4, <1>5

\* The same, when the queue does not change.
LEMMA CarriesOnQuietly ==
  ASSUME UploadInv, Follows(script', script), EarlyInv',
         UNCHANGED <<items, current, jsRead, produced, received, read, pending>>
  PROVE  UploadInv'
<1>1. /\ pending' \in Seq(Task)
      /\ \A i, j \in DOMAIN pending' : pending'[i].op = "readNext" /\ pending'[j].op = "readNext" => i = j
      /\ Asks(pending') => Asks(pending)
  BY DEF UploadInv, UploadTypes, OneTurn
<1> QED BY <1>1, CarriesOn

\* A call of the script that makes quiet calls.
LEMMA QuietStep ==
  ASSUME UploadInv, NEW op, NEW calls \in Seq(QuietCall), Step(op, calls), ~Early',
         UNCHANGED <<items, current, jsRead, produced, received, read, pending>>
  PROVE  UploadInv'
<1>1. Follows(script', script) BY QuietFollows DEF Step
<1>2. EarlyInv' BY DEF EarlyInv
<1> QED BY <1>1, <1>2, CarriesOnQuietly

\* A script follows itself.
LEMMA SameScript ==
  ASSUME UploadInv, script' = script
  PROVE  Follows(script', script)
BY DEF UploadInv, UploadTypes, OneTurn, Follows

\* A step of another goroutine that touches neither script nor queue.
LEMMA Elsewhere ==
  ASSUME UploadInv, EarlyInv',
         UNCHANGED <<script, items, current, jsRead, produced, received, read, pending>>
  PROVE  UploadInv'
BY SameScript, CarriesOnQuietly

\* Once dispatched, the promise does not go back.
LEMMA StepIsLate ==
  ASSUME UploadInv, NEW op, NEW calls, Step(op, calls)
  PROVE  ~Early
BY DEF Step, UploadInv, EarlyInv

\* Task queued: it is not a read.
LEMMA QueuedTask ==
  ASSUME UploadInv, NEW t \in Task, t.op # "readNext", pending' = Append(pending, t)
  PROVE  /\ pending' \in Seq(Task)
         /\ \A i, j \in DOMAIN pending' : pending'[i].op = "readNext" /\ pending'[j].op = "readNext" => i = j
         /\ Asks(pending') => Asks(pending)
<1> DEFINE n == Len(pending) + 1
<1>1. pending \in Seq(Task) /\ Len(pending) \in Nat BY DEF UploadInv, UploadTypes
<1>2. /\ pending' \in Seq(Task) /\ DOMAIN pending' = DOMAIN pending \cup {n} /\ pending'[n] = t
      /\ \A i \in DOMAIN pending : pending'[i] = pending[i]
  BY <1>1
<1> QED BY <1>2 DEF UploadInv, OneTurn, Asks

\* The oldest task is taken.
LEMMA TakenTask ==
  ASSUME UploadInv, pending # <<>>, pending' = Tail(pending)
  PROVE  /\ pending' \in Seq(Task) /\ Head(pending) \in Task
         /\ \A i, j \in DOMAIN pending' : pending'[i].op = "readNext" /\ pending'[j].op = "readNext" => i = j
         /\ Asks(pending') => Asks(pending)
         /\ Head(pending).op = "readNext" => Asks(pending) /\ ~Asks(pending')
<1>1. pending \in Seq(Task) /\ Len(pending) \in Nat \ {0} /\ DOMAIN pending = 1..Len(pending)
  BY DEF UploadInv, UploadTypes
<1>2. /\ pending' \in Seq(Task) /\ DOMAIN pending' = 1..Len(pending) - 1
      /\ \A i \in 1..Len(pending) - 1 : pending'[i] = pending[i + 1]
      /\ Head(pending) = pending[1] /\ Head(pending) \in Task
  BY <1>1
<1>3. \A i \in DOMAIN pending' : pending'[i] = pending[i + 1] /\ i + 1 \in DOMAIN pending /\ i + 1 # 1
  BY <1>1, <1>2
<1>4. \A i, j \in DOMAIN pending : pending[i].op = "readNext" /\ pending[j].op = "readNext" => i = j
  BY DEF UploadInv, OneTurn
<1>5. ASSUME NEW i \in DOMAIN pending', NEW j \in DOMAIN pending',
             pending'[i].op = "readNext", pending'[j].op = "readNext"
      PROVE  i = j
  <2>1. i + 1 = j + 1 BY <1>3, <1>4, <1>5
  <2> QED BY <1>1, <1>2, <2>1
<1>6. Asks(pending') => Asks(pending) BY <1>3 DEF Asks
<1>7. Head(pending).op = "readNext" => Asks(pending) /\ ~Asks(pending')
  <2>1. 1 \in DOMAIN pending BY <1>1
  <2> QED BY <1>2, <1>3, <1>4, <2>1 DEF Asks
<1> QED BY <1>2, <1>5, <1>6, <1>7

\* The calls of the loop that neither touch the upload's item nor make a call that does.
QuietLoopStep ==
  \/ SetAbort \/ BodyError \/ ClearHandler \/ DetachAbortListener \/ CancelContext \/ StartGoroutine
  \/ Release \/ CancelReader \/ AbortUpload \/ CloseAborted \/ OnceDone \/ CloseOnLoop
  \/ SetHandler \/ CloseBody \/ SettlePromise

\* The loop's quiet calls keep the invariant.
LEMMA QuietLoopStepKeeps ==
  ASSUME UploadInv, QuietLoopStep
  PROVE  UploadInv'
<1> DEFINE One(op) == <<Call(op)>>
<1> USE QuietCalls
<1>0. /\ One("bodyError") \in Seq(QuietCall) /\ One("closeAborted") \in Seq(QuietCall)
      /\ One("cancelReader") \in Seq(QuietCall) /\ One("onceDone") \in Seq(QuietCall)
  BY DEF CallOps
<1>1. ASSUME NEW op, NEW calls \in Seq(QuietCall), Step(op, calls), promise' = promise,
             UNCHANGED <<items, current, jsRead, produced, received, read, pending>>
      PROVE  UploadInv'
  <2>1. ~Early' BY <1>1, StepIsLate DEF Early
  <2> QED BY <1>1, <2>1, QuietStep
<1>2. CASE SetAbort
  <2> DEFINE calls == (IF handler THEN <<Call("bodyError")>> ELSE <<>>) \o AbortOnLoop
  <2>1. calls \in Seq(QuietCall)
    <3>1. CASE handler BY <1>0, <3>1
    <3>2. CASE ~handler BY <3>2
    <3> QED BY <3>1, <3>2
  <2>2. Step("setAbort", calls) BY <1>2 DEF SetAbort
  <2> HIDE DEF calls
  <2> QED BY <1>1, <1>2, <2>1, <2>2 DEF SetAbort, js, channel, source, transport, sched
<1>3. CASE BodyError
  <2> DEFINE calls == IF body = "open" THEN Cleanup ELSE <<>>
  <2>1. calls \in Seq(QuietCall) OBVIOUS
  <2>2. Step("bodyError", calls) BY <1>3 DEF BodyError
  <2> HIDE DEF calls
  <2> QED BY <1>1, <1>3, <2>1, <2>2 DEF BodyError, js, channel, source, transport, sched
<1>4. CASE ClearHandler BY <1>1, <1>4 DEF ClearHandler, js, channel, source, transport, sched
<1>5. CASE DetachAbortListener BY <1>1, <1>5 DEF DetachAbortListener, channel, source, transport, sched
<1>6. CASE CancelContext BY <1>1, <1>6 DEF CancelContext, js, channel, source, transport, sched
<1>7. CASE StartGoroutine BY <1>1, <1>7 DEF StartGoroutine, js, channel, source, transport, sched
<1>8. CASE Release BY <1>1, <1>8 DEF Release, js, channel, transport, sched
<1>9. CASE CancelReader BY <1>1, <1>9 DEF CancelReader, js, channel, transport, sched
<1>10. CASE AbortUpload
  <2> DEFINE calls == IF (kind = "stream" /\ once = "free") /\ ~finished THEN One("closeAborted") ELSE <<>>
  <2>1. calls \in Seq(QuietCall) BY <1>0
  <2>2. Step("abortOnLoop", calls) BY <1>10 DEF AbortUpload
  <2> HIDE DEF calls
  <2> QED BY <1>1, <1>10, <2>1, <2>2 DEF AbortUpload, js, source, transport, sched
<1>11. CASE CloseAborted
  <2> DEFINE calls == <<Call("cancelReader"), Call("onceDone")>>
  <2>1. calls \in Seq(QuietCall)
    <3>1. Call("cancelReader") \in QuietCall /\ Call("onceDone") \in QuietCall BY DEF CallOps
    <3> QED BY <3>1
  <2>2. Step("closeAborted", calls) BY <1>11 DEF CloseAborted
  <2> HIDE DEF calls
  <2> QED BY <1>1, <1>11, <2>1, <2>2 DEF CloseAborted, js, source, transport, sched
<1>12. CASE OnceDone BY <1>1, <1>12 DEF OnceDone, js, source, transport, sched
<1>13. CASE CloseOnLoop BY <1>1, <1>13 DEF CloseOnLoop, js, channel, source, transport, sched
<1>14. CASE SetHandler
  <2> DEFINE calls == IF abortSet THEN One("bodyError") ELSE <<>>
  <2>1. calls \in Seq(QuietCall) BY <1>0
  <2>2. Step("setHandler", calls) BY <1>14 DEF SetHandler
  <2> HIDE DEF calls
  <2> QED BY <1>1, <1>14, <2>1, <2>2 DEF SetHandler, js, channel, source, transport, sched
<1>15. CASE CloseBody BY <1>1, <1>15 DEF CloseBody, js, channel, source, transport, sched
<1>16. CASE SettlePromise
  <2>1. promise' \in {"resolved", "aborted", "failed"} BY <1>16 DEF SettlePromise
  <2>2. ~Early' BY <2>1 DEF Early
  <2>3. Step("resolve", <<>>) \/ Step("reject", <<>>) BY <1>16 DEF SettlePromise
  <2>4. UNCHANGED <<items, current, jsRead, produced, received, read, pending>>
    BY <1>16 DEF SettlePromise, channel, source, transport, sched
  <2> QED BY <2>2, <2>3, <2>4, QuietStep
<1> QED BY <1>2, <1>3, <1>4, <1>5, <1>6, <1>7, <1>8, <1>9, <1>10, <1>11, <1>12, <1>13, <1>14,
           <1>15, <1>16 DEF QuietLoopStep

\* Before the dispatch: the facade, and an abort at any time.
LEMMA FacadeKeeps ==
  ASSUME UploadInv, Send \/ ReadBody \/ Abort
  PROVE  UploadInv'
<1>1. CASE Send
  <2>1. UNCHANGED <<script, items, current, jsRead, produced, received, read, pending>>
    BY <1>1 DEF Send, channel, source, transport, sched
  <2>2. EarlyInv'
    <3>1. Early BY <1>1 DEF Send, Early
    <3>2. listener' # "dispatch" BY <1>1, <3>1 DEF Send, UploadInv, EarlyInv
    <3> QED BY <1>1, <3>1, <3>2 DEF UploadInv, EarlyInv, Send, request, channel, source, transport, sched
  <2> QED BY <2>1, <2>2, Elsewhere
<1>2. CASE ReadBody
  <2>1. UNCHANGED <<script, items, current, jsRead, produced, received, read, pending>>
    BY <1>2 DEF ReadBody, channel, source, transport, sched
  <2>2. EarlyInv'
    <3>1. Early BY <1>2 DEF ReadBody, Early
    <3> QED BY <1>2, <3>1 DEF UploadInv, EarlyInv, ReadBody, request, channel, source, transport, sched
  <2> QED BY <2>1, <2>2, Elsewhere
<1>3. CASE Abort
  <2>1. UNCHANGED <<items, current, jsRead, produced, received, read, pending>>
    BY <1>3 DEF Abort, channel, source, transport, sched
  <2>2. EarlyInv'
    <3> SUFFICES ASSUME Early' PROVE EarlyInv' BY DEF EarlyInv
    <3>1. Early BY <1>3 DEF Abort, Early
    <3>2. script' = <<>> /\ listener' # "dispatch" BY <1>3, <3>1 DEF Abort, UploadInv, EarlyInv
    <3> QED BY <1>3, <3>1, <3>2 DEF UploadInv, EarlyInv, Abort, request, channel, source, transport, sched
  <2>3. script' \in Seq(QuietCall) BY <1>3, QuietCalls DEF Abort, CallOps
  <2>4. Follows(script', script) BY <2>3, QuietScript
  <2> QED BY <2>1, <2>2, <2>4, CarriesOnQuietly
<1> QED BY <1>1, <1>2, <1>3

\* Steps of the other goroutines, and of JavaScript with the response: none before the
\* dispatch, and none has to do with the upload's item.
OtherStep ==
  \/ CancelSettles \/ TransportClose \/ Answer \/ FinishOffLoop \/ BodyAbandoned \/ BodyFinishOffLoop
  \/ \E a \in Closers : CloseDo(a)

\* The steps off the loop that leave the upload's item alone keep it.
LEMMA OtherStepKeeps ==
  ASSUME UploadInv, OtherStep
  PROVE  UploadInv'
<1> SUFFICES /\ ~Early /\ promise' = promise
             /\ UNCHANGED <<script, items, current, jsRead, produced, received, read, pending>>
  BY Elsewhere DEF Early, EarlyInv
<1>0. EarlyInv BY DEF UploadInv
<1>1. CASE CancelSettles
  <2>1. ~Early BY <1>0, <1>1 DEF EarlyInv, CancelSettles
  <2> QED BY <1>1, <2>1 DEF CancelSettles, js, channel, transport, sched
<1>2. CASE TransportClose
  <2>1. ~Early BY <1>0, <1>2 DEF EarlyInv, TransportClose
  <2> QED BY <1>2, <2>1 DEF TransportClose, js, channel, source, transport, sched
<1>3. CASE Answer
  <2>1. ~Early BY <1>0, <1>3 DEF EarlyInv, Answer
  <2> QED BY <1>3, <2>1 DEF Answer, js, channel, source, transport, sched
<1>4. CASE FinishOffLoop
  <2>1. ~Early BY <1>0, <1>4 DEF EarlyInv, FinishOffLoop
  <2> QED BY <1>4, <2>1 DEF FinishOffLoop, js, channel, source, transport, sched
<1>5. CASE BodyAbandoned
  <2>1. ~Early BY <1>0, <1>5 DEF EarlyInv, BodyAbandoned
  <2> QED BY <1>5, <2>1 DEF BodyAbandoned, js, channel, source, transport, sched
<1>6. CASE BodyFinishOffLoop
  <2>1. ~Early BY <1>0, <1>6 DEF EarlyInv, BodyFinishOffLoop
  <2> QED BY <1>6, <2>1 DEF BodyFinishOffLoop, js, channel, source, transport, sched
<1>7. ASSUME NEW a \in Closers, CloseDo(a)
      PROVE  /\ ~Early /\ promise' = promise
             /\ UNCHANGED <<script, items, current, jsRead, produced, received, read, pending>>
  <2>1. ~Early BY <1>0, <1>7 DEF EarlyInv, CloseDo
  <2> QED BY <1>7, <2>1 DEF CloseDo, js, source, transport, sched
<1> QED BY <1>1, <1>2, <1>3, <1>4, <1>5, <1>6, <1>7 DEF OtherStep

\* The scheduler opens or closes.
LEMMA SchedulerKeeps ==
  ASSUME UploadInv, SchedulerChanges
  PROVE  UploadInv'
<1>1. /\ UNCHANGED <<script, items, current, jsRead, produced, received, read, pending>>
      /\ UNCHANGED <<promise, http, go, body, listener, cancelled, closing, lock>>
  BY DEF SchedulerChanges, Sched!Close, Sched!Reopen, js, request, channel, source, transport
<1>2. EarlyInv' BY <1>1 DEF UploadInv, EarlyInv, Early
<1> QED BY <1>1, <1>2, Elsewhere

\* A task other than a read joins the queue, or is refused.
LEMMA TaskQueued ==
  ASSUME UploadInv, NEW op \in {"settle", "cancelReader"},
         Sched!Accept(Call(op)) \/ Sched!Refuse(Call(op)),
         ~Early', UNCHANGED <<script, items, current, jsRead, produced, received, read>>
  PROVE  UploadInv'
<1>1. Follows(script', script) BY SameScript
<1>2. EarlyInv' BY DEF EarlyInv
<1>3. Call(op) \in Task /\ Call(op).op # "readNext" BY DEF Call, Task
<1>4. CASE pending' = Append(pending, Call(op))
  <2>1. /\ pending' \in Seq(Task)
        /\ \A i, j \in DOMAIN pending' : pending'[i].op = "readNext" /\ pending'[j].op = "readNext" => i = j
        /\ Asks(pending') => Asks(pending)
    BY <1>3, <1>4, QueuedTask
  <2> QED BY <1>1, <1>2, <2>1, CarriesOn
<1>5. CASE pending' = pending BY <1>1, <1>2, <1>5, CarriesOnQuietly
<1> QED BY <1>4, <1>5 DEF Sched!Accept, Sched!Refuse

\* The steps off the loop that queue a task keep it.
LEMMA QueueingKeeps ==
  ASSUME UploadInv, Settle \/ \E a \in Closers : CloseDone(a)
  PROVE  UploadInv'
<1>0. EarlyInv BY DEF UploadInv
<1>1. CASE Settle
  <2>1. ~Early /\ promise' = promise BY <1>0, <1>1 DEF EarlyInv, Settle, js
  <2>2. UNCHANGED <<script, items, current, jsRead, produced, received, read>>
    BY <1>1 DEF Settle, channel, source, transport
  <2>3. Sched!Accept(Call("settle")) \/ Sched!Refuse(Call("settle")) BY <1>1 DEF Settle
  <2>4. ~Early' BY <2>1 DEF Early
  <2> QED BY <2>2, <2>3, <2>4, TaskQueued
<1>2. ASSUME NEW a \in Closers, CloseDone(a) PROVE UploadInv'
  <2>1. ~Early /\ promise' = promise BY <1>0, <1>2 DEF EarlyInv, CloseDone, js
  <2>2. UNCHANGED <<script, items, current, jsRead, produced, received, read>>
    BY <1>2 DEF CloseDone, source, transport
  <2>3. Sched!Accept(Call("cancelReader")) \/ Sched!Refuse(Call("cancelReader")) BY <1>2 DEF CloseDone
  <2>4. ~Early' BY <2>1 DEF Early
  <2> QED BY <2>2, <2>3, <2>4, TaskQueued
<1> QED BY <1>1, <1>2

\* The response stream settles.
LEMMA BodySettlesKeeps ==
  ASSUME UploadInv, BodySettles
  PROVE  UploadInv'
<1>1. ~Early /\ promise' = promise BY DEF UploadInv, EarlyInv, BodySettles, js
<1>2. UNCHANGED <<items, current, jsRead, produced, received, read, pending>>
  BY DEF BodySettles, channel, source, transport, sched
<1>3. EarlyInv' BY <1>1 DEF Early, EarlyInv
<1>4. Follows(script', script) BY QuietCalls, QuietScript DEF BodySettles
<1> QED BY <1>2, <1>3, <1>4, CarriesOnQuietly

-----------------------------------------------------------------------------
(* Steps with the turn.                                                    *)

\* JavaScript is asked for the next chunk.
LEMMA ReadStarts ==
  ASSUME UploadInv, ~Early', jsRead' = TRUE, script' \in Seq(QuietCall),
         items = <<>>, ~Reads, pending' \in Seq(Task), ~Asks(pending'), All(received, produced),
         UNCHANGED <<items, current, produced, received, read>>
  PROVE  UploadInv'
<1> USE DEF UploadInv
<1>1. /\ script' \in Seq(ScriptCall)
      /\ \A i \in DOMAIN script' : script'[i].op \notin TurnOps
  BY QuietScript DEF Follows, Hands
<1>2. UploadTypes' BY <1>1 DEF UploadTypes
<1>3. EarlyInv' BY DEF EarlyInv
<1>4. ~Reads' BY DEF Reads
<1>5. ~Hands(script)' BY <1>1 DEF Hands
<1>6. ~Asks(pending)' BY DEF Asks
<1>7. OneTurn'
  <2>1. \A i, j \in DOMAIN pending' : pending'[i].op = "readNext" /\ pending'[j].op = "readNext" => i = j
    BY DEF Asks
  <2> HIDE DEF Reads, Hands, Asks
  <2> QED BY <1>1, <1>4, <1>5, <1>6, <2>1 DEF OneTurn
<1>8. ReadInv' BY DEF ReadInv
<1>9. BytesInv'
  <2>1. \A i \in DOMAIN script' : CallInv(received, produced, script'[i])
    BY <1>1 DEF CallInv, TurnOps
  <2> QED BY <1>6, <2>1 DEF BytesInv, Reads
<1> QED BY <1>2, <1>3, <1>7, <1>8, <1>9

\* The script has the turn: what was read or failed is to be handed over.
LEMMA HandingStarts ==
  ASSUME UploadInv, ~Early', jsRead' = FALSE,
         script' \in Seq(ScriptCall),
         \A i, j \in DOMAIN script' : script'[i].op \in TurnOps /\ script'[j].op \in TurnOps => i = j,
         produced' \in 0..Len(Sizes),
         \A i \in DOMAIN script' : CallInv(received, produced', script'[i]),
         InOrder(received, produced'),
         items = <<>>, ~Reads, pending' \in Seq(Task), ~Asks(pending'),
         UNCHANGED <<items, current, received, read>>
  PROVE  UploadInv'
<1> USE DEF UploadInv
<1>2. UploadTypes' BY DEF UploadTypes
<1>3. EarlyInv' BY DEF EarlyInv
<1>4. ~Reads' BY DEF Reads
<1>6. ~Asks(pending)' BY DEF Asks
<1>7. OneTurn'
  <2>1. \A i, j \in DOMAIN pending' : pending'[i].op = "readNext" /\ pending'[j].op = "readNext" => i = j
    BY DEF Asks
  <2> HIDE DEF Reads, Hands, Asks
  <2> QED BY <1>4, <1>6, <2>1 DEF OneTurn
<1>8. ReadInv' BY DEF ReadInv
<1>9. BytesInv' BY <1>4, <1>6 DEF BytesInv, Reads
<1> QED BY <1>2, <1>3, <1>7, <1>8, <1>9

\* A byte of the first k chunks.
LEMMA ByteOf ==
  ASSUME NEW k \in 0..Len(Sizes), NEW p \in BytesOf(k)
  PROVE  p[1] \in 1..k /\ p[2] \in 1..Sizes[p[1]] /\ p = <<p[1], p[2]>>
<1>1. PICK n \in 1..k : p \in {n} \X (1..Sizes[n]) BY DEF BytesOf
<1> QED BY <1>1

\* A byte of one of the first k chunks is among their bytes.
LEMMA ByteIn ==
  ASSUME NEW k \in 0..Len(Sizes), NEW n \in 1..k, NEW b \in 1..Sizes[n]
  PROVE  <<n, b>> \in BytesOf(k)
<1>1. <<n, b>> \in {n} \X (1..Sizes[n]) OBVIOUS
<1> QED BY <1>1 DEF BytesOf

\* One chunk more: its bytes come after all that was received.
LEMMA NextChunk ==
  ASSUME NEW k \in 0..Len(Sizes), k < Len(Sizes), NEW r, InOrder(r, k)
  PROVE  /\ InOrder(r, k + 1)
         /\ All(r, k) => UpTo(r, k + 1, k + 1, 1)
<1>0. Len(Sizes) \in Nat /\ k + 1 \in 0..Len(Sizes) /\ \A n \in 1..Len(Sizes) : Sizes[n] \in Nat
  BY FetchAssumption
<1>1. \A p \in BytesOf(k) : p \in BytesOf(k + 1)
  <2> TAKE p \in BytesOf(k)
  <2>1. p[1] \in 1..k /\ p[2] \in 1..Sizes[p[1]] /\ p = <<p[1], p[2]>> BY ByteOf
  <2>2. p[1] \in 1..k + 1 BY <1>0, <2>1
  <2>3. <<p[1], p[2]>> \in BytesOf(k + 1) BY <1>0, <2>1, <2>2, ByteIn
  <2> QED BY <2>1, <2>3
<1>2. ASSUME NEW p \in BytesOf(k + 1), p \notin BytesOf(k) PROVE p[1] = k + 1 /\ p[2] \in Nat /\ p[2] >= 1
  <2>1. p[1] \in 1..k + 1 /\ p[2] \in 1..Sizes[p[1]] /\ p = <<p[1], p[2]>> BY <1>0, ByteOf
  <2>2. p[1] \notin 1..k
    <3> SUFFICES ASSUME p[1] \in 1..k PROVE FALSE OBVIOUS
    <3>1. <<p[1], p[2]>> \in BytesOf(k) BY <2>1, ByteIn
    <3> QED BY <1>2, <2>1, <3>1
  <2> QED BY <1>0, <2>1, <2>2
<1>3. ASSUME NEW i \in DOMAIN r PROVE r[i][1] \in 1..k
  BY ByteOf DEF InOrder
<1>4. InOrder(r, k + 1)
  <2>1. ASSUME NEW p \in BytesOf(k + 1), NEW i \in DOMAIN r, Precedes(p, r[i])
        PROVE  p \in BytesOf(k)
    BY <1>0, <1>2, <1>3, <2>1 DEF Precedes
  <2> QED BY <1>1, <2>1 DEF InOrder
<1>5. ASSUME All(r, k) PROVE UpTo(r, k + 1, k + 1, 1)
  <2>1. ASSUME NEW p \in BytesOf(k + 1), Precedes(p, <<k + 1, 1>>) PROVE p \in BytesOf(k)
    BY <1>0, <1>2, <2>1 DEF Precedes
  <2> QED BY <1>5, <2>1 DEF All, UpTo
<1> QED BY <1>4, <1>5

\* The whole chunk was received.
LEMMA WholeChunk ==
  ASSUME NEW k \in 1..Len(Sizes), NEW r, InOrder(r, k), UpTo(r, k, k, Sizes[k] + 1)
  PROVE  All(r, k)
<1>0. Len(Sizes) \in Nat /\ k \in 0..Len(Sizes) /\ Sizes[k] \in Nat BY FetchAssumption
<1>1. \A p \in BytesOf(k) : Precedes(p, <<k, Sizes[k] + 1>>)
  <2> TAKE p \in BytesOf(k)
  <2>1. p[1] \in 1..k /\ p[2] \in 1..Sizes[p[1]] BY <1>0, ByteOf
  <2>2. CASE p[1] = k BY <1>0, <2>1, <2>2 DEF Precedes
  <2>3. CASE p[1] # k BY <1>0, <2>1, <2>3 DEF Precedes
  <2> QED BY <2>2, <2>3
<1>2. ASSUME NEW i \in DOMAIN r PROVE Precedes(r[i], <<k + 1, 1>>)
  <2>1. r[i][1] \in 1..k BY <1>0, ByteOf DEF InOrder
  <2> QED BY <1>0, <2>1 DEF Precedes
<1> QED BY <1>1, <1>2 DEF All, UpTo

\* Nothing was produced, so nothing is missing.
LEMMA NothingYet == All(<<>>, 0)
<1>1. BytesOf(0) = {}
  <2>1. 0 \in 0..Len(Sizes) BY FetchAssumption
  <2> QED BY <2>1, ByteOf
<1>2. DOMAIN <<>> = {} OBVIOUS
<1> QED BY <1>1, <1>2 DEF All, UpTo

\* The items and the calls that carry them.
LEMMA TurnCalls ==
  /\ Failure \in Item /\ Failure.type # "data" /\ Eof \in Item /\ Eof.type # "data"
  /\ \A n \in 1..Len(Sizes) : /\ Chunk(n) \in Item /\ Chunk(n).type = "data"
                              /\ Chunk(n).chunk = n /\ Chunk(n).from = 1
  /\ \A item \in Item : /\ Enqueue(item) \in ScriptCall /\ Enqueue(item).op = "enqueue"
                        /\ Enqueue(item).item = item
  /\ \A item \in Item : /\ FinishOnLoop(item) \in ScriptCall /\ FinishOnLoop(item).op = "finishOnLoop"
                        /\ FinishOnLoop(item).item = item
  /\ Call("failChunkOnLoop") \in ScriptCall /\ Call("failChunkOnLoop").op = "failChunkOnLoop"
<1>1. Failure \in Item /\ Failure.type # "data" /\ Eof \in Item /\ Eof.type # "data"
  BY DEF Failure, Eof, Item
<1>2. \A n \in 1..Len(Sizes) : /\ Chunk(n) \in Item /\ Chunk(n).type = "data"
                               /\ Chunk(n).chunk = n /\ Chunk(n).from = 1
  BY DEF Chunk, Item
<1>3. Call("failChunkOnLoop") \in ScriptCall /\ Call("failChunkOnLoop").op = "failChunkOnLoop"
  BY DEF Call, ScriptCall, CallOps
<1> HIDE DEF Item
<1>4. \A item \in Item : /\ Enqueue(item) \in ScriptCall /\ Enqueue(item).op = "enqueue"
                         /\ Enqueue(item).item = item
  BY DEF Enqueue, ScriptCall
<1>5. \A item \in Item : /\ FinishOnLoop(item) \in ScriptCall /\ FinishOnLoop(item).op = "finishOnLoop"
                         /\ FinishOnLoop(item).item = item
  BY DEF FinishOnLoop, ScriptCall
<1> QED BY <1>1, <1>2, <1>3, <1>4, <1>5

\* A script of one call that has the turn.
LEMMA OneCall ==
  ASSUME NEW c \in ScriptCall, NEW r, NEW k, CallInv(r, k, c)
  PROVE  /\ <<c>> \in Seq(ScriptCall)
         /\ \A i, j \in DOMAIN <<c>> : <<c>>[i].op \in TurnOps /\ <<c>>[j].op \in TurnOps => i = j
         /\ \A i \in DOMAIN <<c>> : CallInv(r, k, <<c>>[i])
<1>1. DOMAIN <<c>> = {1} /\ <<c>>[1] = c OBVIOUS
<1> QED BY <1>1

\* The calls that carry the turn, when all was received or a chunk was produced.
LEMMA TurnCallInv ==
  ASSUME NEW r, NEW k
  PROVE  /\ \A item \in Item : OnItsWay(r, k, item) => CallInv(r, k, Enqueue(item))
         /\ All(r, k) => \A item \in Item : item.type # "data" =>
              CallInv(r, k, Enqueue(item)) /\ CallInv(r, k, FinishOnLoop(item))
         /\ All(r, k) => CallInv(r, k, Call("failChunkOnLoop"))
BY TurnCalls DEF CallInv, OnItsWay

\* host.dispatch starts the upload, or fails to.
LEMMA DispatchKeeps ==
  ASSUME UploadInv, Dispatch \/ DispatchFails
  PROVE  UploadInv'
<1>0. Early BY DEF Dispatch, DispatchFails, Early
<1>1. /\ script = <<>> /\ items = <<>> /\ current = <<>> /\ ~jsRead /\ produced = 0
      /\ received = <<>> /\ read = "idle" /\ pending = <<>>
  BY <1>0 DEF UploadInv, EarlyInv
<1>2. promise' \in {"aborted", "pending", "failed"} BY DEF Dispatch, DispatchFails
<1>3. ~Early' /\ EarlyInv' BY <1>2 DEF Early, EarlyInv
<1>4. UNCHANGED <<items, current, produced, received, read, pending>>
  BY DEF Dispatch, DispatchFails, channel, transport, sched
<1>5. ~Reads /\ ~Asks(pending') /\ pending' \in Seq(Task) BY <1>1, <1>4 DEF Reads, Asks
<1>6. All(received, produced) BY <1>1, NothingYet
<1>7. <<Call("start")>> \in Seq(QuietCall) /\ AbortOnLoop \in Seq(QuietCall)
  BY QuietCalls DEF CallOps
<1>8. CASE jsRead' = jsRead /\ script' = script
  BY <1>3, <1>4, <1>8, SameScript, CarriesOnQuietly
<1>9. CASE jsRead' = jsRead /\ script' = <<Call("start")>>
  BY <1>3, <1>4, <1>7, <1>9, QuietScript, CarriesOnQuietly
<1>10. CASE jsRead' = TRUE /\ script' = <<Call("start")>>
  BY <1>1, <1>3, <1>4, <1>5, <1>6, <1>7, <1>10, ReadStarts
<1>11. CASE jsRead' = TRUE /\ script' = AbortOnLoop \o <<Call("start")>>
  <2>1. script' \in Seq(QuietCall) BY <1>7, <1>11
  <2> QED BY <1>1, <1>3, <1>4, <1>5, <1>6, <1>11, <2>1, ReadStarts
<1>12. CASE jsRead' = TRUE /\ script' = AbortOnLoop
  BY <1>1, <1>3, <1>4, <1>5, <1>6, <1>7, <1>12, ReadStarts
<1>13. CASE jsRead' = jsRead /\ script' = <<FinishOnLoop(Failure), Call("start")>>
  <2>1. /\ FinishOnLoop(Failure) \in ScriptCall
        /\ CallInv(received, produced, FinishOnLoop(Failure))
    BY <1>6, TurnCalls, TurnCallInv
  <2>2. Call("start") \in ScriptCall /\ Call("start").op \notin TurnOps
    BY QuietCalls, QuietIsCall DEF CallOps
  <2>3. CallInv(received, produced, Call("start")) BY <2>2 DEF CallInv, TurnOps
  <2>4. /\ DOMAIN script' = {1, 2} /\ script' \in Seq(ScriptCall)
        /\ script'[1] = FinishOnLoop(Failure) /\ script'[2] = Call("start")
    BY <1>13, <2>1, <2>2
  <2>5. \A i, j \in DOMAIN script' : script'[i].op \in TurnOps /\ script'[j].op \in TurnOps => i = j
    BY <2>2, <2>4
  <2>6. \A i \in DOMAIN script' : CallInv(received, produced', script'[i]) BY <1>4, <2>1, <2>3, <2>4
  <2>7. jsRead' = FALSE BY <1>1, <1>13 DEF UploadInv, UploadTypes
  <2>8. produced' \in 0..Len(Sizes) /\ InOrder(received, produced')
    BY <1>4 DEF UploadInv, UploadTypes
  <2> QED BY <1>1, <1>3, <1>4, <1>5, <2>4, <2>5, <2>6, <2>7, <2>8, HandingStarts
<1> QED BY <1>8, <1>9, <1>10, <1>11, <1>12, <1>13 DEF Dispatch, DispatchFails

\* reader.read() settles: the turn passes to the script, or ends with the upload.
LEMMA ReadSettlesKeeps ==
  ASSUME UploadInv, ReadSettles
  PROVE  UploadInv'
<1>1. /\ script = <<>> /\ jsRead /\ jsRead' = FALSE /\ promise' = promise
      /\ UNCHANGED <<items, current, received, read, pending>>
  BY DEF ReadSettles, LoopIdle, js, channel, transport, sched
<1>2. ~Early /\ ~Early' BY <1>1 DEF UploadInv, EarlyInv, Early
<1>3. items = <<>> /\ ~Reads /\ ~Asks(pending) /\ All(received, produced)
  BY <1>1 DEF UploadInv, OneTurn, BytesInv
<1>4. ~Asks(pending') /\ pending' \in Seq(Task) BY <1>1, <1>3 DEF Asks, UploadInv, UploadTypes
<1>5. produced \in 0..Len(Sizes) /\ InOrder(received, produced) BY DEF UploadInv, UploadTypes
<1>6. CASE finished /\ UNCHANGED <<script, produced>>
  <2>1. DOMAIN script' = {} /\ script' \in Seq(ScriptCall) BY <1>1, <1>6
  <2> QED BY <1>1, <1>2, <1>3, <1>4, <1>5, <1>6, <2>1, HandingStarts
<1>7. CASE /\ produced < Len(Sizes) /\ produced' = produced + 1
           /\ script' = <<Enqueue(Chunk(produced + 1))>>
  <2> DEFINE item == Chunk(produced + 1)
  <2>1. produced' \in 0..Len(Sizes) /\ produced' \in 1..Len(Sizes) BY <1>5, <1>7, FetchAssumption
  <2>2. item \in Item /\ item.type = "data" /\ item.chunk = produced' /\ item.from = 1
    BY <1>7, <2>1, TurnCalls
  <2>3. InOrder(received, produced') /\ UpTo(received, produced', produced', 1)
    BY <1>3, <1>5, <1>7, NextChunk
  <2>4. OnItsWay(received, produced', item) BY <2>2, <2>3 DEF OnItsWay
  <2> HIDE DEF item
  <2>5. Enqueue(item) \in ScriptCall /\ CallInv(received, produced', Enqueue(item))
    BY <2>2, <2>4, TurnCalls, TurnCallInv
  <2>6. script' = <<Enqueue(item)>> BY <1>7 DEF item
  <2>7. /\ script' \in Seq(ScriptCall)
        /\ \A i, j \in DOMAIN script' : script'[i].op \in TurnOps /\ script'[j].op \in TurnOps => i = j
        /\ \A i \in DOMAIN script' : CallInv(received, produced', script'[i])
    BY <2>5, <2>6, OneCall
  <2> QED BY <1>1, <1>2, <1>3, <1>4, <2>1, <2>3, <2>7, HandingStarts
<1>8. CASE /\ script' \in {<<FinishOnLoop(Eof)>>, <<FinishOnLoop(Failure)>>, <<Call("failChunkOnLoop")>>}
           /\ UNCHANGED produced
  <2>1. PICK c \in {FinishOnLoop(Eof), FinishOnLoop(Failure), Call("failChunkOnLoop")} : script' = <<c>>
    BY <1>8
  <2>2. c \in ScriptCall /\ CallInv(received, produced, c)
    BY <1>3, TurnCalls, TurnCallInv
  <2>3. /\ script' \in Seq(ScriptCall)
        /\ \A i, j \in DOMAIN script' : script'[i].op \in TurnOps /\ script'[j].op \in TurnOps => i = j
        /\ \A i \in DOMAIN script' : CallInv(received, produced, script'[i])
    BY <2>1, <2>2, OneCall
  <2> QED BY <1>1, <1>2, <1>3, <1>4, <1>5, <1>8, <2>3, HandingStarts
<1> QED BY <1>6, <1>7, <1>8 DEF ReadSettles

\* A task of the loop.
LEMMA RunTaskKeeps ==
  ASSUME UploadInv, RunTask
  PROVE  UploadInv'
<1>1. /\ script = <<>> /\ pending # <<>> /\ pending' = Tail(pending) /\ promise' = promise
      /\ UNCHANGED <<items, current, produced, received, read>>
  BY DEF RunTask, LoopIdle, Sched!RunNext, js, channel, transport
<1>2. ~Early /\ ~Early' BY <1>1 DEF UploadInv, EarlyInv, Early
<1>3. EarlyInv' BY <1>2 DEF EarlyInv
<1>4. /\ pending' \in Seq(Task) /\ Head(pending) \in Task
      /\ \A i, j \in DOMAIN pending' : pending'[i].op = "readNext" /\ pending'[j].op = "readNext" => i = j
      /\ Asks(pending') => Asks(pending)
      /\ Head(pending).op = "readNext" => Asks(pending) /\ ~Asks(pending')
  BY <1>1, TakenTask
<1>5. ASSUME script' \in Seq(QuietCall), jsRead' = jsRead PROVE UploadInv'
  <2>1. Follows(script', script) BY <1>5, QuietScript
  <2> QED BY <1>1, <1>3, <1>4, <1>5, <2>1, CarriesOn
<1>6. CASE Head(pending).op = "settle"
  <2>1. SettleTask \in Seq(QuietCall)
    <3> USE QuietCalls
    <3>1. /\ <<Call("reject")>> \in Seq(QuietCall) /\ <<Call("closeBody")>> \in Seq(QuietCall)
          /\ <<Call("resolve")>> \in Seq(QuietCall)
          /\ Call("setHandler") \in QuietCall /\ Call("resolve") \in QuietCall
      BY DEF CallOps
    <3>2. Finish \o <<Call("reject")>> \in Seq(QuietCall) BY <3>1
    <3>3. <<Call("closeBody")>> \o Finish \in Seq(QuietCall) BY <3>1
    <3>4. (<<Call("closeBody")>> \o Finish) \o <<Call("resolve")>> \in Seq(QuietCall) BY <3>1, <3>3
    <3>5. <<Call("setHandler"), Call("resolve")>> \in Seq(QuietCall) BY <3>1
    <3>6. CASE http = "error" BY <3>2, <3>6 DEF SettleTask
    <3>7. CASE http = "nullBody" BY <3>4, <3>7 DEF SettleTask
    <3>8. CASE http # "error" /\ http # "nullBody" BY <3>5, <3>8 DEF SettleTask
    <3> QED BY <3>6, <3>7, <3>8
  <2>2. script' = SettleTask /\ jsRead' = jsRead BY <1>6 DEF RunTask
  <2> QED BY <1>5, <2>1, <2>2
<1>7. CASE Head(pending).op = "cancelReader"
  <2>1. script' = <<Call("cancelReader")>> /\ jsRead' = jsRead BY <1>7 DEF RunTask
  <2> QED BY <1>5, <2>1, QuietCalls DEF CallOps
<1>8. CASE Head(pending).op = "readNext"
  <2>1. ReadNextTask BY <1>8 DEF RunTask
  <2>2. Asks(pending) /\ ~Asks(pending') BY <1>4, <1>8
  <2>3. jsRead = FALSE /\ items = <<>> /\ ~Reads /\ All(received, produced)
    BY <2>2 DEF UploadInv, UploadTypes, OneTurn, BytesInv
  <2>4. produced' \in 0..Len(Sizes) /\ InOrder(received, produced')
    BY <1>1 DEF UploadInv, UploadTypes
  <2>5. CASE UNCHANGED <<script, jsRead>> BY <1>1, <1>5, <2>5, QuietCalls
  <2>6. CASE jsRead' = TRUE /\ UNCHANGED script
    BY <1>1, <1>2, <1>4, <2>2, <2>3, <2>6, ReadStarts, QuietCalls
  <2>7. CASE script' = <<FinishOnLoop(Failure)>> /\ UNCHANGED jsRead
    <3>1. FinishOnLoop(Failure) \in ScriptCall /\ CallInv(received, produced, FinishOnLoop(Failure))
      BY <2>3, TurnCalls, TurnCallInv
    <3>2. /\ script' \in Seq(ScriptCall)
          /\ \A i, j \in DOMAIN script' : script'[i].op \in TurnOps /\ script'[j].op \in TurnOps => i = j
          /\ \A i \in DOMAIN script' : CallInv(received, produced, script'[i])
      BY <2>7, <3>1, OneCall
    <3> QED BY <1>1, <1>2, <1>4, <2>2, <2>3, <2>4, <2>7, <3>2, HandingStarts
  <2> QED BY <2>1, <2>5, <2>6, <2>7 DEF ReadNextTask
<1> QED BY <1>4, <1>6, <1>7, <1>8 DEF Task

\* The script is at a call that has the turn: nobody else has it.
LEMMA AtTurn ==
  ASSUME UploadInv, script # <<>>, Head(script).op \in TurnOps
  PROVE  /\ Head(script) \in ScriptCall /\ CallInv(received, produced, Head(script))
         /\ jsRead = FALSE /\ items = <<>> /\ ~Reads /\ ~Asks(pending)
         /\ Tail(script) \in Seq(ScriptCall)
         /\ \A i \in DOMAIN Tail(script) :
              Tail(script)[i].op \notin TurnOps /\ CallInv(received, produced, Tail(script)[i])
<1>1. script \in Seq(ScriptCall) /\ Len(script) \in Nat \ {0} /\ DOMAIN script = 1..Len(script)
  BY DEF UploadInv, UploadTypes
<1>2. 1 \in DOMAIN script /\ Head(script) = script[1] BY <1>1
<1>3. Hands(script) BY <1>2 DEF Hands
<1>4. jsRead = FALSE /\ items = <<>> /\ ~Reads /\ ~Asks(pending)
  BY <1>3 DEF UploadInv, UploadTypes, OneTurn
<1>5. Head(script) \in ScriptCall /\ CallInv(received, produced, Head(script))
  BY <1>1, <1>2 DEF UploadInv, BytesInv
<1>6. /\ Tail(script) \in Seq(ScriptCall) /\ DOMAIN Tail(script) = 1..Len(script) - 1
      /\ \A i \in 1..Len(script) - 1 : Tail(script)[i] = script[i + 1]
  BY <1>1
<1>7. ASSUME NEW i \in DOMAIN Tail(script)
      PROVE  Tail(script)[i].op \notin TurnOps /\ CallInv(received, produced, Tail(script)[i])
  <2>1. i + 1 \in DOMAIN script /\ i + 1 # 1 /\ Tail(script)[i] = script[i + 1] BY <1>1, <1>6
  <2> QED BY <1>2, <2>1 DEF UploadInv, OneTurn, BytesInv
<1> QED BY <1>4, <1>5, <1>6, <1>7

\* Two calls and what comes after them.
LEMMA TwoAndRest ==
  ASSUME NEW S, NEW two \in Seq(S), Len(two) = 2, NEW rest \in Seq(S)
  PROVE  /\ two \o rest \in Seq(S) /\ DOMAIN (two \o rest) = 1..Len(rest) + 2
         /\ (two \o rest)[1] = two[1] /\ (two \o rest)[2] = two[2]
         /\ \A i \in 3..Len(rest) + 2 : (two \o rest)[i] = rest[i - 2]
<1> DEFINE t == two \o rest
<1>1. t \in Seq(S) /\ Len(t) = Len(rest) + 2 /\ Len(rest) \in Nat
  <2>1. \A a, b \in Seq(S) : a \o b \in Seq(S) /\ Len(a \o b) = Len(a) + Len(b)
    BY ConcatProperties
  <2>2. t \in Seq(S) /\ Len(t) = Len(two) + Len(rest) BY <2>1
  <2>3. Len(rest) \in Nat OBVIOUS
  <2> HIDE DEF t
  <2> QED BY <2>2, <2>3
<1>2. \A i \in 1..Len(t) : t[i] = IF i <= 2 THEN two[i] ELSE rest[i - 2] BY <1>1, ConcatProperties
<1>3. DOMAIN t = 1..Len(rest) + 2 BY <1>1
<1>4. t[1] = two[1] /\ t[2] = two[2] BY <1>1, <1>2
<1>5. \A i \in 3..Len(rest) + 2 : i \in 1..Len(t) /\ ~(i <= 2) BY <1>1
<1>6. \A i \in 3..Len(rest) + 2 : t[i] = rest[i - 2] BY <1>2, <1>5
<1> QED BY <1>1, <1>3, <1>4, <1>6

\* The call of the script passes the turn to one of two calls that it makes.
LEMMA HandsOn ==
  ASSUME UploadInv, script # <<>>, Head(script).op \in TurnOps, ~Early',
         NEW a \in ScriptCall, NEW b \in ScriptCall, a.op \notin TurnOps \/ b.op \notin TurnOps,
         CallInv(received, produced, a), CallInv(received, produced, b),
         script' = <<a, b>> \o Tail(script),
         UNCHANGED <<jsRead, items, current, produced, received, read, pending>>
  PROVE  UploadInv'
<1> DEFINE rest == Tail(script)
<1>1. /\ jsRead' = FALSE /\ items = <<>> /\ ~Reads /\ ~Asks(pending)
      /\ rest \in Seq(ScriptCall)
      /\ \A i \in DOMAIN rest : rest[i].op \notin TurnOps /\ CallInv(received, produced, rest[i])
  BY AtTurn
<1> HIDE DEF rest
<1> DEFINE two == <<a, b>>
<1>2. /\ two \in Seq(ScriptCall) /\ Len(two) = 2 /\ two[1] = a /\ two[2] = b
      /\ script' = two \o rest
  BY DEF rest
<1> HIDE DEF two
<1>3. /\ script' \in Seq(ScriptCall) /\ DOMAIN script' = 1..Len(rest) + 2
      /\ script'[1] = a /\ script'[2] = b
      /\ \A i \in 3..Len(rest) + 2 : script'[i] = rest[i - 2]
  <2>1. rest \in Seq(ScriptCall) BY <1>1
  <2>2. /\ two \o rest \in Seq(ScriptCall) /\ DOMAIN (two \o rest) = 1..Len(rest) + 2
        /\ (two \o rest)[1] = two[1] /\ (two \o rest)[2] = two[2]
        /\ \A i \in 3..Len(rest) + 2 : (two \o rest)[i] = rest[i - 2]
    <3> HIDE DEF ScriptCall
    <3> QED BY <1>2, <2>1, TwoAndRest, Zenon
  <2> QED BY <1>2, <2>2
<1>4. Len(rest) \in Nat /\ DOMAIN rest = 1..Len(rest) BY <1>1
<1>5. ASSUME NEW i \in DOMAIN script', i # 1, i # 2
      PROVE  script'[i].op \notin TurnOps /\ CallInv(received, produced, script'[i])
  <2>1. i \in 1..Len(rest) + 2 /\ i # 1 /\ i # 2 BY <1>3, <1>5
  <2>2. i \in 3..Len(rest) + 2 /\ i - 2 \in DOMAIN rest BY <1>4, <2>1
  <2>3. script'[i] = rest[i - 2] BY <1>3, <2>2
  <2> QED BY <1>1, <2>2, <2>3
<1>6. \A i, j \in DOMAIN script' : script'[i].op \in TurnOps /\ script'[j].op \in TurnOps => i = j
  <2> SUFFICES ASSUME NEW i \in DOMAIN script', NEW j \in DOMAIN script',
                      script'[i].op \in TurnOps, script'[j].op \in TurnOps
               PROVE  i = j
    OBVIOUS
  <2>1. (i = 1 \/ i = 2) /\ (j = 1 \/ j = 2) BY <1>5
  <2>2. ~(script'[1].op \in TurnOps /\ script'[2].op \in TurnOps) BY <1>3
  <2> QED BY <2>1, <2>2
<1>7. \A i \in DOMAIN script' : CallInv(received, produced', script'[i]) BY <1>3, <1>5
<1>8. ~Asks(pending') /\ pending' \in Seq(Task) BY <1>1 DEF Asks, UploadInv, UploadTypes
<1>9. produced' \in 0..Len(Sizes) /\ InOrder(received, produced') BY DEF UploadInv, UploadTypes
<1> QED BY <1>1, <1>3, <1>6, <1>7, <1>8, <1>9, HandingStarts

\* finishOnLoop and failChunkOnLoop.
LEMMA FinishKeeps ==
  ASSUME UploadInv, FinishUpload \/ FailChunk
  PROVE  UploadInv'
<1>0. promise' = promise /\ UNCHANGED <<jsRead, items, current, produced, received, read, pending>>
  BY DEF FinishUpload, FailChunk, js, source, transport, sched
<1>1. ~Early'
  <2>1. ~Early BY StepIsLate DEF FinishUpload, FailChunk
  <2> QED BY <1>0, <2>1 DEF Early
<1>2. CASE finished
  <2>1. Step("finishOnLoop", <<>>) \/ Step("failChunkOnLoop", <<>>)
    BY <1>2 DEF FinishUpload, FailChunk
  <2> QED BY <1>0, <1>1, <2>1, QuietCalls, QuietStep
<1>3. ASSUME NEW op \in CallOps \ {"failChunkOnLoop"}
      PROVE  /\ Call(op) \in ScriptCall /\ Call(op).op \notin TurnOps
             /\ CallInv(received, produced, Call(op))
  <2>1. Call(op) \in ScriptCall /\ Call(op).op \notin TurnOps BY QuietCalls, QuietIsCall
  <2> QED BY <2>1 DEF CallInv, TurnOps
<1>4. CASE ~finished /\ FinishUpload
  <2> DEFINE item == Head(script).item
  <2>1. /\ script # <<>> /\ Head(script).op = "finishOnLoop"
        /\ script' = <<Call("release"), Enqueue(item)>> \o Tail(script)
    BY <1>4 DEF FinishUpload, Step
  <2>2. Head(script).op \in TurnOps BY <2>1 DEF TurnOps
  <2>3. item \in Item /\ item.type # "data" /\ All(received, produced)
    BY <2>1, <2>2, AtTurn DEF ScriptCall, CallInv, CallOps
  <2> HIDE DEF item
  <2>4. Enqueue(item) \in ScriptCall /\ CallInv(received, produced, Enqueue(item))
    BY <2>3, TurnCalls, TurnCallInv
  <2>5. /\ Call("release") \in ScriptCall /\ Call("release").op \notin TurnOps
        /\ CallInv(received, produced, Call("release"))
    BY <1>3 DEF CallOps
  <2> QED BY <1>0, <1>1, <2>1, <2>2, <2>4, <2>5, HandsOn
<1>5. CASE ~finished /\ FailChunk
  <2>1. /\ script # <<>> /\ Head(script).op = "failChunkOnLoop"
        /\ script' = <<Enqueue(Failure), Call("cancelReader")>> \o Tail(script)
    BY <1>5 DEF FailChunk, Step
  <2>2. Head(script).op \in TurnOps BY <2>1 DEF TurnOps
  <2>3. All(received, produced) BY <2>1, <2>2, AtTurn DEF CallInv
  <2>4. Enqueue(Failure) \in ScriptCall /\ CallInv(received, produced, Enqueue(Failure))
    BY <2>3, TurnCalls, TurnCallInv
  <2>5. /\ Call("cancelReader") \in ScriptCall /\ Call("cancelReader").op \notin TurnOps
        /\ CallInv(received, produced, Call("cancelReader"))
    BY <1>3 DEF CallOps
  <2> QED BY <1>0, <1>1, <2>1, <2>2, <2>4, <2>5, HandsOn
<1> QED BY <1>2, <1>4, <1>5

\* The item is handed over, or dropped because the upload was aborted.
LEMMA EnqueueKeeps ==
  ASSUME UploadInv, EnqueueItem
  PROVE  UploadInv'
<1>0. /\ promise' = promise /\ UNCHANGED <<jsRead, current, produced, received, read, pending>>
      /\ Step("enqueue", <<>>)
  BY DEF EnqueueItem, js, source, transport, sched
<1>1. ~Early'
  <2>1. ~Early BY <1>0, StepIsLate
  <2> QED BY <1>0, <2>1 DEF Early
<1>2. CASE UNCHANGED items BY <1>0, <1>1, <1>2, QuietCalls, QuietStep
<1>3. CASE items = <<>> /\ items' = <<Head(script).item>>
  <2> DEFINE item == Head(script).item
             rest == Tail(script)
  <2>1. script # <<>> /\ Head(script).op = "enqueue" /\ script' = <<>> \o Tail(script)
    BY <1>0 DEF Step
  <2>2. Head(script).op \in TurnOps BY <2>1 DEF TurnOps
  <2>3. /\ jsRead = FALSE /\ ~Reads /\ ~Asks(pending) /\ rest \in Seq(ScriptCall)
        /\ \A i \in DOMAIN rest : rest[i].op \notin TurnOps /\ CallInv(received, produced, rest[i])
    BY <2>1, <2>2, AtTurn
  <2>4. item \in Item /\ OnItsWay(received, produced, item)
    BY <2>1, <2>2, AtTurn DEF ScriptCall, CallInv, CallOps
  <2>5. script' = rest BY <2>1, <2>3
  <2>6. items' = <<item>> /\ items'[1] = item BY <1>3
  <2> HIDE DEF item, rest
  <2>7. UploadTypes' BY <1>0, <2>3, <2>4, <2>5, <2>6 DEF UploadInv, UploadTypes
  <2>8. EarlyInv' BY <1>1 DEF EarlyInv
  <2>9. ~Reads' /\ ~Asks(pending)' /\ ~Hands(script)' BY <1>0, <2>3, <2>5 DEF Reads, Asks, Hands
  <2>10. OneTurn' BY <1>0, <2>3, <2>5, <2>9 DEF UploadInv, OneTurn
  <2>11. ReadInv' BY <1>0 DEF UploadInv, ReadInv
  <2>12. BytesInv' BY <1>0, <2>3, <2>4, <2>5, <2>6, <2>9 DEF UploadInv, BytesInv, Reads
  <2> QED BY <1>0, <2>7, <2>8, <2>10, <2>11, <2>12 DEF UploadInv
<1> QED BY <1>2, <1>3 DEF EnqueueItem

-----------------------------------------------------------------------------
(* The transport's Read.                                                   *)

\* The step of a Read that has the turn, or that receives nothing and takes no turn.
LEMMA ReaderKeeps ==
  ASSUME UploadInv, ~Early', UNCHANGED <<script, pending, jsRead, items, produced>>,
         received' \in Seq(Nat \X Nat), read' \in ReadStates,
         current' = <<>> \/ \E item \in Item : current' = <<item>>,
         Reads' => Reads, received' = received \/ Reads,
         ReadInv', InOrder(received', produced),
         current' # <<>> => BeingRead(received', produced, current'[1]),
         read' \in {"clear", "clearAndGoOn"} /\ current' = <<>> => All(received', produced)
  PROVE  UploadInv'
<1> USE DEF UploadInv
<1>1. UploadTypes' BY DEF UploadTypes
<1>2. EarlyInv' BY DEF EarlyInv
<1>3. (Hands(script)' <=> Hands(script)) /\ (Asks(pending)' <=> Asks(pending)) BY DEF Hands, Asks
<1>4. OneTurn'
  <2> HIDE DEF Reads, Hands, Asks
  <2> QED BY <1>3 DEF OneTurn
<1>5. BytesInv'
  <2>1. CASE received' = received BY <1>3, <2>1 DEF BytesInv
  <2>2. CASE Reads
    <3>1. ~jsRead' /\ items' = <<>> /\ ~Asks(pending)' /\ ~Hands(script) BY <1>3, <2>2 DEF OneTurn
    <3>2. \A i \in DOMAIN script' : CallInv(received', produced', script'[i])
      BY <3>1 DEF Hands, CallInv, TurnOps
    <3> QED BY <3>1, <3>2 DEF BytesInv
  <2> QED BY <2>1, <2>2
<1> QED BY <1>1, <1>2, <1>4, <1>5

\* The length of a sequence is that of its domain.
LEMMA LenDomain ==
  ASSUME NEW S, NEW s \in Seq(S), NEW n \in Nat, DOMAIN s = 1..n
  PROVE  Len(s) = n
<1>1. Len(s) \in Nat /\ DOMAIN s = 1..Len(s) OBVIOUS
<1> QED BY <1>1

\* The order of bytes is transitive.
LEMMA PrecedesTransitive ==
  ASSUME NEW p, NEW a, NEW b, p[1] \in Nat, p[2] \in Nat, a[1] \in Nat, a[2] \in Nat,
         b[1] \in Nat, b[2] \in Nat, Precedes(p, a), Precedes(a, b)
  PROVE  Precedes(p, b)
BY DEF Precedes

\* Some more bytes of the chunk that is being read.
LEMMA MoreBytes ==
  ASSUME NEW k \in 1..Len(Sizes), NEW r \in Seq(Nat \X Nat), InOrder(r, k),
         NEW from \in 1..Sizes[k] + 1, UpTo(r, k, k, from), NEW to \in from..Sizes[k]
  PROVE  /\ r \o Bytes(k, from, to) \in Seq(Nat \X Nat)
         /\ InOrder(r \o Bytes(k, from, to), k)
         /\ UpTo(r \o Bytes(k, from, to), k, k, to + 1)
<1> DEFINE more == Bytes(k, from, to)
           all == r \o more
           n == Len(r)
           m == to + 1 - from
<1>00. m = to + 1 - from /\ n = Len(r) OBVIOUS
<1>0. /\ Sizes[k] \in Nat /\ k \in Nat /\ from \in Nat /\ to \in Nat /\ from >= 1 /\ from <= to
      /\ to <= Sizes[k] /\ m \in Nat /\ n \in Nat /\ k \in 0..Len(Sizes)
  BY FetchAssumption
<1>1. more = [i \in 1..m |-> <<k, from + i - 1>>] BY DEF Bytes
<1> HIDE DEF more, m, n
<1>2. more \in Seq(Nat \X Nat) /\ Len(more) = m /\ \A j \in 1..m : more[j] = <<k, from + j - 1>>
  <2>1. \A i \in 1..m : <<k, from + i - 1>> \in Nat \X Nat BY <1>0
  <2>2. more \in [1..m -> Nat \X Nat] BY <1>1, <2>1
  <2>3. more \in Seq(Nat \X Nat) BY <1>0, <2>2
  <2>4. DOMAIN more = 1..m BY <2>2
  <2>5. Len(more) = m BY <1>0, <2>3, <2>4, LenDomain
  <2> QED BY <1>1, <2>3, <2>5
<1>3. /\ all \in Seq(Nat \X Nat) /\ DOMAIN all = 1..n + m /\ DOMAIN r = 1..n
      /\ \A i \in 1..n + m : all[i] = IF i <= n THEN r[i] ELSE more[i - n]
  <2>1. \A a, b \in Seq(Nat \X Nat) :
          /\ a \o b \in Seq(Nat \X Nat) /\ Len(a \o b) = Len(a) + Len(b)
          /\ \A i \in 1..Len(a) + Len(b) : (a \o b)[i] = IF i <= Len(a) THEN a[i] ELSE b[i - Len(a)]
    BY ConcatProperties
  <2>2. /\ all \in Seq(Nat \X Nat) /\ Len(all) = Len(r) + Len(more)
        /\ \A i \in 1..Len(r) + Len(more) : all[i] = IF i <= Len(r) THEN r[i] ELSE more[i - Len(r)]
    BY <1>2, <2>1
  <2> HIDE DEF all
  <2>3. /\ Len(all) = n + m
        /\ \A i \in 1..n + m : all[i] = IF i <= n THEN r[i] ELSE more[i - n]
    BY <1>2, <2>2 DEF n
  <2>4. DOMAIN all = 1..n + m BY <2>2, <2>3
  <2>5. DOMAIN r = 1..n BY DEF n
  <2> QED BY <2>2, <2>3, <2>4, <2>5
<1> HIDE DEF all
<1>31. n \in Nat /\ m \in Nat /\ \A i \in 1..n : i \in 1..n + m /\ i <= n BY <1>0
<1>4. /\ \A i \in 1..n : all[i] = r[i] /\ i \in DOMAIN all
      /\ \A j \in 1..m : all[n + j] = <<k, from + j - 1>> /\ n + j \in DOMAIN all
      /\ \A i \in DOMAIN all : i \in 1..n \/ \E j \in 1..m : i = n + j
  <2>1. \A i \in 1..n : all[i] = r[i] /\ i \in DOMAIN all BY <1>3, <1>31
  <2>2. ASSUME NEW j \in 1..m PROVE all[n + j] = <<k, from + j - 1>> /\ n + j \in DOMAIN all
    <3> DEFINE i == n + j
    <3>1. i \in 1..n + m /\ ~(i <= n) /\ i - n = j BY <1>31
    <3> HIDE DEF i
    <3>2. all[i] = more[i - n] BY <1>3, <3>1
    <3>3. all[i] = more[j] BY <3>1, <3>2
    <3> QED BY <1>2, <1>3, <3>1, <3>3 DEF i
  <2>3. ASSUME NEW i \in DOMAIN all, i \notin 1..n PROVE \E j \in 1..m : i = n + j
    <3>1. i - n \in 1..m /\ i = n + (i - n)
      <4>1. i \in 1..n + m BY <1>3
      <4> QED BY <1>31, <2>3, <4>1
    <3> QED BY <3>1
  <2> QED BY <2>1, <2>2, <2>3
<1>5. ASSUME NEW i \in 1..n
      PROVE  /\ r[i] \in BytesOf(k) /\ r[i][1] \in Nat /\ r[i][2] \in Nat
             /\ Precedes(r[i], <<k, from>>)
  <2>1. r[i] \in BytesOf(k) /\ Precedes(r[i], <<k, from>>) BY <1>3 DEF InOrder, UpTo
  <2>2. r[i][1] \in 1..k /\ r[i][2] \in 1..Sizes[r[i][1]] BY <1>0, <2>1, ByteOf
  <2>3. r[i][2] \in Nat BY <2>2
  <2> QED BY <2>1, <2>2, <2>3
<1>51. ASSUME NEW b \in from..to + 1
       PROVE  <<k, b>>[1] \in Nat /\ <<k, b>>[2] \in Nat
  <2>1. b \in Nat BY <1>0
  <2> QED BY <1>0, <2>1
<1>6. ASSUME NEW j \in 1..m
      PROVE  /\ <<k, from + j - 1>> \in BytesOf(k)
             /\ from + j - 1 \in from..to
  <2>1. from + j - 1 \in 1..Sizes[k] /\ from + j - 1 \in from..to BY <1>0, <1>00
  <2> QED BY <1>0, <2>1, ByteIn
<1>7. UpTo(all, k, k, to + 1)
  <2>1. ASSUME NEW i \in DOMAIN all PROVE Precedes(all[i], <<k, to + 1>>)
    <3>1. CASE i \in 1..n
      <4>1. all[i] = r[i] BY <1>4, <3>1
      <4>2. from \in from..to + 1 /\ to + 1 \in from..to + 1 /\ from < to + 1 BY <1>0
      <4>3. Precedes(<<k, from>>, <<k, to + 1>>) BY <4>2 DEF Precedes
      <4>4. Precedes(r[i], <<k, to + 1>>) BY <1>5, <1>51, <3>1, <4>2, <4>3, PrecedesTransitive
      <4> QED BY <4>1, <4>4
    <3>2. ASSUME NEW j \in 1..m, i = n + j PROVE Precedes(all[i], <<k, to + 1>>)
      <4>1. all[i] = <<k, from + j - 1>> BY <1>4, <3>2
      <4>2. from + j - 1 \in from..to BY <1>6
      <4>3. from + j - 1 < to + 1 BY <1>0, <4>2
      <4> QED BY <4>1, <4>3 DEF Precedes
    <3> QED BY <1>4, <3>1, <3>2
  <2>2. ASSUME NEW p \in BytesOf(k), Precedes(p, <<k, to + 1>>)
        PROVE  \E i \in DOMAIN all : all[i] = p
    <3>1. p[1] \in Nat /\ p[2] \in Nat /\ p = <<p[1], p[2]>> BY <1>0, ByteOf
    <3>2. CASE Precedes(p, <<k, from>>)
      <4>1. PICK i \in DOMAIN r : r[i] = p BY <3>2 DEF UpTo
      <4> QED BY <1>3, <1>4, <4>1
    <3>3. CASE ~Precedes(p, <<k, from>>)
      <4>1. p[1] = k /\ p[2] >= from /\ p[2] <= to BY <1>0, <2>2, <3>1, <3>3 DEF Precedes
      <4>2. p[2] + 1 - from \in 1..m /\ from + (p[2] + 1 - from) - 1 = p[2]
        <5> DEFINE b == p[2]
        <5>1. b \in Nat /\ b >= from /\ b <= to BY <3>1, <4>1
        <5> HIDE DEF b
        <5>2. b + 1 - from \in 1..m /\ from + (b + 1 - from) - 1 = b BY <1>0, <1>00, <5>1
        <5> QED BY <5>2 DEF b
      <4>3. PICK j \in 1..m : from + j - 1 = p[2] BY <4>2
      <4>4. all[n + j] = p /\ n + j \in DOMAIN all BY <1>4, <3>1, <4>1, <4>3
      <4> QED BY <4>4
    <3> QED BY <3>2, <3>3
  <2> QED BY <2>1, <2>2 DEF UpTo
<1>8. InOrder(all, k)
  <2>1. ASSUME NEW i \in DOMAIN all PROVE all[i] \in BytesOf(k)
    BY <1>4, <1>5, <1>6
  <2>2. ASSUME NEW i \in DOMAIN all, NEW j \in DOMAIN all, i < j
        PROVE  Precedes(all[i], all[j])
    <3>1. CASE i \in 1..n /\ j \in 1..n
      BY <1>3, <1>4, <2>2, <3>1 DEF InOrder
    <3>2. ASSUME i \in 1..n, NEW b \in 1..m, j = n + b PROVE Precedes(all[i], all[j])
      <4>1. all[i] = r[i] /\ all[j] = <<k, from + b - 1>> BY <1>4, <3>2
      <4>2. Precedes(r[i], <<k, from>>) /\ r[i][1] \in Nat /\ r[i][2] \in Nat BY <1>5, <3>2
      <4>3. from + b - 1 \in from..to + 1 /\ from \in from..to + 1
        <5>1. from + b - 1 \in from..to BY <1>6
        <5> QED BY <1>0, <5>1
      <4>4. b = 1 => from + b - 1 = from BY <1>0
      <4>5. b # 1 => from < from + b - 1 BY <1>0
      <4>6. b # 1 => Precedes(<<k, from>>, <<k, from + b - 1>>) BY <4>5 DEF Precedes
      <4>7. Precedes(r[i], <<k, from + b - 1>>)
        <5>1. CASE b = 1 BY <4>2, <4>4, <5>1
        <5>2. CASE b # 1 BY <1>51, <4>2, <4>3, <4>6, <5>2, PrecedesTransitive
        <5> QED BY <5>1, <5>2
      <4> QED BY <4>1, <4>7
    <3>3. ASSUME NEW a \in 1..m, i = n + a, j \in 1..n PROVE FALSE BY <1>0, <2>2, <3>3
    <3>4. ASSUME NEW a \in 1..m, i = n + a, NEW b \in 1..m, j = n + b PROVE Precedes(all[i], all[j])
      <4>1. all[i] = <<k, from + a - 1>> /\ all[j] = <<k, from + b - 1>> BY <1>4, <3>4
      <4>2. a < b BY <1>0, <2>2, <3>4
      <4> QED BY <1>0, <4>1, <4>2 DEF Precedes
    <3> QED BY <1>4, <3>1, <3>2, <3>3, <3>4
  <2>3. ASSUME NEW p \in BytesOf(k), NEW i \in DOMAIN all, Precedes(p, all[i])
        PROVE  \E j \in DOMAIN all : all[j] = p
    <3>1. p[1] \in Nat /\ p[2] \in Nat BY <1>0, ByteOf
    <3>2. all[i][1] \in Nat /\ all[i][2] \in Nat
      <4>1. all[i] \in BytesOf(k) BY <2>1
      <4>2. all[i][1] \in 1..k /\ all[i][2] \in 1..Sizes[all[i][1]] BY <1>0, <4>1, ByteOf
      <4> QED BY <4>2
    <3>3. Precedes(all[i], <<k, to + 1>>) BY <1>7 DEF UpTo
    <3>4. <<k, to + 1>>[1] \in Nat /\ <<k, to + 1>>[2] \in Nat
      <4>1. to + 1 \in from..to + 1 BY <1>0
      <4> QED BY <1>51, <4>1
    <3>5. Precedes(p, <<k, to + 1>>) BY <2>3, <3>1, <3>2, <3>3, <3>4, PrecedesTransitive
    <3> QED BY <1>7, <3>5 DEF UpTo
  <2> QED BY <2>1, <2>2, <2>3 DEF InOrder
<1> QED BY <1>3, <1>7, <1>8 DEF all, more

\* Read, and a Read that gives up or goes on without the turn.
LEMMA ReadKeeps ==
  ASSUME UploadInv, Read \/ Terminate \/ (ReadSelect /\ read' = "failed" /\ UNCHANGED <<items, current>>)
  PROVE  UploadInv'
<1>0. UNCHANGED <<script, pending, jsRead, items, produced, received, current, promise>>
  <2>1. CASE Read BY <2>1 DEF Read, js, channel, source, sched
  <2>2. CASE Terminate BY <2>2 DEF Terminate, js, source, sched
  <2>3. CASE ReadSelect /\ UNCHANGED <<items, current>> BY <2>3 DEF ReadSelect, js, source, sched
  <2> QED BY <2>1, <2>2, <2>3
<1>1. ~Early'
  <2>1. ~Early BY DEF UploadInv, EarlyInv, Read, Terminate, ReadSelect
  <2> QED BY <1>0, <2>1 DEF Early
<1>2. /\ read' \in {"select", "item", "idle", "failed"} /\ read \notin {"clear", "clearAndGoOn"}
      /\ read' = "select" => current = <<>>
      /\ read' = "item" => current # <<>>
  <2>1. CASE Read BY <2>1 DEF Read
  <2>2. CASE Terminate BY <2>2 DEF Terminate, UploadInv, ReadInv
  <2>3. CASE ReadSelect /\ read' = "failed"
    BY <1>0, <2>3 DEF ReadSelect, UploadInv, ReadInv
  <2> QED BY <2>1, <2>2, <2>3
<1>3. ReadInv' BY <1>0, <1>2 DEF ReadInv
<1>4. Reads' => Reads BY <1>0, <1>2 DEF Reads
<1>5. /\ received' \in Seq(Nat \X Nat) /\ read' \in ReadStates
      /\ current' = <<>> \/ \E item \in Item : current' = <<item>>
      /\ InOrder(received', produced)
      /\ current' # <<>> => BeingRead(received', produced, current'[1])
      /\ ~(read' \in {"clear", "clearAndGoOn"})
  BY <1>0, <1>2 DEF UploadInv, UploadTypes, BytesInv, ReadStates
<1> QED BY <1>0, <1>1, <1>3, <1>4, <1>5, ReaderKeeps

\* Read takes the item from the channel.
LEMMA ReadSelectKeeps ==
  ASSUME UploadInv, ReadSelect
  PROVE  UploadInv'
<1>1. CASE read' = "failed" /\ UNCHANGED <<items, current>> BY <1>1, ReadKeeps
<1>2. CASE items # <<>> /\ current' = items /\ items' = <<>> /\ read' = "item"
  <2>0. UNCHANGED <<script, pending, jsRead, produced, received, promise>>
    BY DEF ReadSelect, js, source, sched
  <2>1. ~Early'
    <3>1. ~Early BY DEF UploadInv, EarlyInv, ReadSelect
    <3> QED BY <2>0, <3>1 DEF Early
  <2>2. PICK item \in Item : items = <<item>> BY <1>2 DEF UploadInv, UploadTypes
  <2>3. items[1] = item /\ current'[1] = item BY <1>2, <2>2
  <2>4. jsRead = FALSE /\ ~Hands(script) /\ ~Asks(pending)
    BY <1>2 DEF UploadInv, UploadTypes, OneTurn
  <2>5. BeingRead(received, produced, item)
    <3>1. OnItsWay(received, produced, item) BY <1>2, <2>3 DEF UploadInv, BytesInv
    <3>2. CASE item.type = "data"
      <4>1. produced \in 1..Len(Sizes) /\ item.from = 1 /\ item.chunk = produced
        BY <3>1, <3>2 DEF OnItsWay, Item
      <4>2. Sizes[produced] \in Nat BY <4>1, FetchAssumption
      <4> QED BY <3>1, <3>2, <4>1, <4>2 DEF OnItsWay, BeingRead
    <3>3. CASE item.type # "data" BY <3>1, <3>3 DEF OnItsWay, BeingRead
    <3> QED BY <3>2, <3>3
  <2> HIDE DEF Item
  <2>6. UploadTypes' BY <1>2, <2>0, <2>2 DEF UploadInv, UploadTypes, ReadStates
  <2>7. EarlyInv' BY <2>1 DEF EarlyInv
  <2>8. ~Hands(script)' /\ ~Asks(pending)' BY <2>0, <2>4 DEF Hands, Asks
  <2>9. OneTurn' BY <1>2, <2>0, <2>4, <2>8 DEF UploadInv, OneTurn
  <2>10. ReadInv' BY <1>2, <2>2 DEF ReadInv
  <2>11. BytesInv' BY <1>2, <2>0, <2>3, <2>4, <2>5, <2>8 DEF UploadInv, BytesInv
  <2> QED BY <2>0, <2>6, <2>7, <2>9, <2>10, <2>11 DEF UploadInv
<1> QED BY <1>1, <1>2 DEF ReadSelect

\* Read looks at its item.
LEMMA ReadItemKeeps ==
  ASSUME UploadInv, ReadItem
  PROVE  UploadInv'
<1>0. read = "item" /\ UNCHANGED <<script, pending, jsRead, items, produced, promise>>
  BY DEF ReadItem, js, channel, source, sched
<1>1. ~Early'
  <2>1. ~Early BY <1>0 DEF UploadInv, EarlyInv
  <2> QED BY <1>0, <2>1 DEF Early
<1>2. current # <<>> BY <1>0 DEF UploadInv, ReadInv
<1>3. PICK item \in Item : current = <<item>> BY <1>2 DEF UploadInv, UploadTypes
<1>4. current[1] = item /\ Reads BY <1>2, <1>3 DEF Reads
<1>5. BeingRead(received, produced, item) BY <1>2, <1>4 DEF UploadInv, BytesInv
<1>6. InOrder(received, produced) /\ received \in Seq(Nat \X Nat) BY DEF UploadInv, UploadTypes
<1>7. CASE /\ item.type # "data" /\ read' = IF item.type = "eof" THEN "eof" ELSE "failed"
           /\ UNCHANGED <<current, received>>
  <2>1. ReadInv' BY <1>2, <1>4, <1>7 DEF ReadInv
  <2>2. read' \in ReadStates /\ ~(read' \in {"clear", "clearAndGoOn"}) BY <1>7 DEF ReadStates
  <2> QED BY <1>0, <1>1, <1>3, <1>4, <1>5, <1>6, <1>7, <2>1, <2>2, ReaderKeeps
<1>8. CASE item.type = "data"
  <2>1. /\ produced \in 1..Len(Sizes) /\ item.chunk = produced /\ Sizes[produced] \in Nat
        /\ item.from \in 1..Sizes[produced] + 1 /\ UpTo(received, produced, produced, item.from)
    BY <1>5, <1>8, FetchAssumption DEF BeingRead, Item
  <2>2. CASE Sizes[item.chunk] = 0 /\ read' = "clearAndGoOn" /\ UNCHANGED <<current, received>>
    <3>1. item.from = Sizes[item.chunk] + 1 BY <2>1, <2>2
    <3>2. ReadInv' BY <1>2, <1>4, <1>8, <2>2, <3>1 DEF ReadInv
    <3>3. read' \in ReadStates BY <2>2 DEF ReadStates
    <3> QED BY <1>0, <1>1, <1>2, <1>3, <1>4, <1>5, <1>6, <2>2, <3>2, <3>3, ReaderKeeps
  <2>3. ASSUME NEW to \in item.from..Sizes[item.chunk],
               received' = received \o Bytes(item.chunk, item.from, to),
               current' = <<[item EXCEPT !.from = to + 1]>>,
               read' = IF to = Sizes[item.chunk] THEN "clear" ELSE "idle"
        PROVE  UploadInv'
    <3> DEFINE next == [item EXCEPT !.from = to + 1]
    <3>0. to \in Nat /\ to <= Sizes[produced] BY <2>1
    <3>1. /\ received' \in Seq(Nat \X Nat) /\ InOrder(received', produced)
          /\ UpTo(received', produced, produced, to + 1)
      BY <1>6, <2>1, <2>3, MoreBytes
    <3>2. /\ next \in Item /\ next.type = "data" /\ next.chunk = produced /\ next.from = to + 1
      BY <1>8, <2>1, <3>0 DEF Item
    <3>3. BeingRead(received', produced, next) BY <2>1, <3>0, <3>1, <3>2 DEF BeingRead
    <3> HIDE DEF next
    <3>4. current' = <<next>> /\ current'[1] = next /\ current' # <<>> BY <2>3 DEF next
    <3>5. ReadInv' BY <2>1, <2>3, <3>2, <3>4 DEF ReadInv
    <3>6. read' \in ReadStates BY <2>3 DEF ReadStates
    <3> QED BY <1>0, <1>1, <1>4, <3>1, <3>2, <3>3, <3>4, <3>5, <3>6, ReaderKeeps
  <2> QED BY <1>4, <1>8, <2>2, <2>3 DEF ReadItem
<1> QED BY <1>4, <1>7, <1>8 DEF ReadItem

\* clearCurrentAndReadNext up to the unlock.
LEMMA ClearCurrentKeeps ==
  ASSUME UploadInv, ClearCurrent
  PROVE  UploadInv'
<1>0. /\ read \in {"clear", "clearAndGoOn"} /\ current # <<>> /\ current' = <<>>
      /\ read' \in {read, "idle", "select"}
      /\ UNCHANGED <<script, pending, jsRead, items, produced, received, promise>>
  BY DEF ClearCurrent, Returns, js, channel, source, sched
<1>1. ~Early'
  <2>1. ~Early BY <1>0 DEF UploadInv, EarlyInv
  <2> QED BY <1>0, <2>1 DEF Early
<1>2. PICK item \in Item : current = <<item>> BY <1>0 DEF UploadInv, UploadTypes
<1>3. /\ current[1] = item /\ item.type = "data" /\ item.from = Sizes[item.chunk] + 1
      /\ BeingRead(received, produced, item)
  BY <1>0, <1>2 DEF UploadInv, ReadInv, BytesInv
<1>4. All(received, produced)
  <2>1. /\ produced \in 1..Len(Sizes)
        /\ UpTo(received, produced, produced, Sizes[produced] + 1)
    BY <1>3 DEF BeingRead, Item
  <2> QED BY <2>1, WholeChunk DEF UploadInv
<1>5. ReadInv' BY <1>0 DEF ReadInv
<1>6. read' \in ReadStates BY <1>0 DEF ReadStates
<1>7. Reads BY <1>0 DEF Reads
<1>8. received' \in Seq(Nat \X Nat) /\ InOrder(received', produced)
  BY <1>0 DEF UploadInv, UploadTypes
<1> QED BY <1>0, <1>1, <1>4, <1>5, <1>6, <1>7, <1>8, ReaderKeeps

\* The loop is asked for the next chunk, or refuses.
LEMMA ReadNextKeeps ==
  ASSUME UploadInv, ReadNext
  PROVE  UploadInv'
<1> DEFINE t == [op |-> "readNext", n |-> produced]
<1>0. /\ read \in {"clear", "clearAndGoOn"} /\ current = <<>> /\ current' = <<>>
      /\ UNCHANGED <<script, jsRead, items, produced, received, promise>>
  BY DEF ReadNext, js, channel, source
<1>1. ~Early'
  <2>1. ~Early BY <1>0 DEF UploadInv, EarlyInv
  <2> QED BY <1>0, <2>1 DEF Early
<1>2. Reads /\ All(received, produced) BY <1>0 DEF Reads, UploadInv, BytesInv
<1>3. jsRead = FALSE /\ items = <<>> /\ ~Hands(script) /\ ~Asks(pending)
  BY <1>2 DEF UploadInv, UploadTypes, OneTurn
<1>4. CASE pending' = Append(pending, t) /\ read' = Returns
  <2>1. t \in Task /\ t.op = "readNext" BY DEF Task, UploadInv, UploadTypes
  <2> HIDE DEF t
  <2>2. pending \in Seq(Task) /\ Len(pending) \in Nat BY DEF UploadInv, UploadTypes
  <2>3. /\ pending' \in Seq(Task) /\ DOMAIN pending' = DOMAIN pending \cup {Len(pending) + 1}
        /\ \A i \in DOMAIN pending : pending'[i] = pending[i]
    BY <1>4, <2>1, <2>2
  <2>4. \A i, j \in DOMAIN pending' : pending'[i].op = "readNext" /\ pending'[j].op = "readNext" => i = j
    BY <1>3, <2>3 DEF Asks
  <2>5. read' \in {"idle", "select"} BY <1>4 DEF Returns
  <2>6. ~Reads' BY <1>0, <2>5 DEF Reads
  <2>7. ~Hands(script)' BY <1>0, <1>3 DEF Hands
  <2>8. UploadTypes' BY <1>0, <2>3, <2>5 DEF UploadInv, UploadTypes, ReadStates
  <2>9. EarlyInv' BY <1>1 DEF EarlyInv
  <2>10. OneTurn' BY <1>0, <1>3, <2>4, <2>6, <2>7 DEF UploadInv, OneTurn
  <2>11. ReadInv' BY <1>0, <2>5 DEF ReadInv
  <2>12. BytesInv' BY <1>0, <1>2, <1>3, <2>5 DEF UploadInv, BytesInv
  <2> QED BY <1>0, <2>8, <2>9, <2>10, <2>11, <2>12 DEF UploadInv
<1>5. CASE pending' = pending /\ read' \in {"terminate", "terminateAndGoOn"}
  <2>1. ReadInv' BY <1>0, <1>5 DEF ReadInv
  <2>2. read' \in ReadStates /\ ~(read' \in {"clear", "clearAndGoOn"}) BY <1>5 DEF ReadStates
  <2>3. received' \in Seq(Nat \X Nat) /\ InOrder(received', produced)
    BY <1>0 DEF UploadInv, UploadTypes
  <2> QED BY <1>0, <1>1, <1>2, <1>5, <2>1, <2>2, <2>3, ReaderKeeps
<1>6. \/ pending' = Append(pending, t) /\ read' = Returns
      \/ pending' = pending /\ read' \in {"terminate", "terminateAndGoOn"}
  BY DEF ReadNext, Sched!Accept, Sched!Refuse
<1> QED BY <1>4, <1>5, <1>6

-----------------------------------------------------------------------------
(* The invariant, and the properties.                                      *)

\* The invariant of the upload holds in every state.
LEMMA UploadInvariance == Spec => []UploadInv
<1>1. Init => UploadInv
  <2> SUFFICES ASSUME Init PROVE UploadInv OBVIOUS
  <2>1. /\ script = <<>> /\ pending = <<>> /\ items = <<>> /\ current = <<>> /\ jsRead = FALSE
        /\ produced = 0 /\ received = <<>> /\ read = "idle"
    BY DEF Init, Sched!Init
  <2>2. DOMAIN <<>> = {} OBVIOUS
  <2>3. UploadTypes
    <3>1. 0 \in 0..Len(Sizes) BY FetchAssumption
    <3>2. <<>> \in Seq(ScriptCall) /\ <<>> \in Seq(Task) /\ <<>> \in Seq(Nat \X Nat) OBVIOUS
    <3>3. "idle" \in ReadStates BY DEF ReadStates
    <3> QED BY <2>1, <3>1, <3>2, <3>3 DEF UploadTypes
  <2>4. EarlyInv BY <2>1 DEF Init, EarlyInv, Closers
  <2>5. ~Hands(script) /\ ~Asks(pending) /\ ~Reads BY <2>1, <2>2 DEF Hands, Asks, Reads
  <2>6. OneTurn BY <2>1, <2>2, <2>5 DEF OneTurn
  <2>7. ReadInv BY <2>1 DEF ReadInv
  <2>8. BytesInv BY <2>1, <2>2, <2>5 DEF BytesInv
  <2>9. InOrder(received, produced) BY <2>1, <2>2 DEF InOrder
  <2> QED BY <2>3, <2>4, <2>6, <2>7, <2>8, <2>9 DEF UploadInv
<1>2. UploadInv /\ [Next]_vars => UploadInv'
  <2> SUFFICES ASSUME UploadInv, [Next]_vars PROVE UploadInv' OBVIOUS
  <2>1. CASE UNCHANGED vars
    <3>1. /\ UNCHANGED <<script, items, current, jsRead, produced, received, read, pending>>
          /\ UNCHANGED <<promise, http, go, body, listener, cancelled, closing, lock>>
      BY <2>1 DEF vars, js, request, channel, source, transport, sched
    <3>2. EarlyInv' BY <3>1 DEF UploadInv, EarlyInv, Early
    <3> QED BY <3>1, <3>2, Elsewhere
  <2>2. CASE Send \/ ReadBody \/ Abort BY <2>2, FacadeKeeps
  <2>3. CASE Dispatch \/ DispatchFails BY <2>3, DispatchKeeps
  <2>4. CASE ReadSettles BY <2>4, ReadSettlesKeeps
  <2>5. CASE BodySettles BY <2>5, BodySettlesKeeps
  <2>6. CASE LoopStep
    <3>1. CASE QuietLoopStep BY <3>1, QuietLoopStepKeeps
    <3>2. CASE EnqueueItem BY <3>2, EnqueueKeeps
    <3>3. CASE FinishUpload \/ FailChunk BY <3>3, FinishKeeps
    <3>4. CASE RunTask BY <3>4, RunTaskKeeps
    <3> QED BY <2>6, <3>1, <3>2, <3>3, <3>4 DEF LoopStep, QuietLoopStep
  <2>7. CASE Read BY <2>7, ReadKeeps
  <2>8. CASE ReadStep
    BY <2>8, ReadSelectKeeps, ReadItemKeeps, ClearCurrentKeeps, ReadNextKeeps, ReadKeeps DEF ReadStep
  <2>9. CASE \E a \in Closers : CloseStep(a)
    BY <2>9, OtherStepKeeps, QueueingKeeps DEF CloseStep, OtherStep
  <2>10. CASE Settle BY <2>10, QueueingKeeps
  <2>11. CASE CancelSettles \/ TransportClose \/ Answer \/ FinishOffLoop \/ BodyAbandoned \/ BodyFinishOffLoop
    BY <2>11, OtherStepKeeps DEF OtherStep
  <2>12. CASE SchedulerChanges BY <2>12, SchedulerKeeps
  <2> QED BY <2>1, <2>2, <2>3, <2>4, <2>5, <2>6, <2>7, <2>8, <2>9, <2>10, <2>11, <2>12 DEF Next
<1> QED BY <1>1, <1>2, PTL DEF Spec

\* The loop never blocks in uploadBody.enqueue, whoever aborts, closes or terminates the
\* upload meanwhile: one item is between JavaScript and the transport.
THEOREM EnqueueNeverBlocksHolds == Spec => []EnqueueNeverBlocks
<1>1. UploadInv => EnqueueNeverBlocks
  <2> SUFFICES ASSUME UploadInv, script # <<>>, Head(script).op = "enqueue" PROVE items = <<>>
    BY DEF EnqueueNeverBlocks
  <2>1. Head(script).op \in TurnOps BY DEF TurnOps
  <2> QED BY <2>1, AtTurn
<1> QED BY <1>1, UploadInvariance, PTL

\* The transport reads the bytes that the request's stream produced, in order and each
\* once, for chunks of any sizes read in any portions, and the end only after all of them.
THEOREM UploadArrivesInOrder == Spec => []UploadInOrder
<1>1. UploadInv => UploadInOrder
  <2> SUFFICES ASSUME UploadInv PROVE UploadInOrder OBVIOUS
  <2>1. InOrder(received, produced) /\ produced \in 0..Len(Sizes) BY DEF UploadInv, UploadTypes
  <2>2. ASSUME read = "eof", NEW p \in BytesOf(produced)
        PROVE  \E j \in DOMAIN received : received[j] = p
    <3>1. current # <<>> /\ current[1].type = "eof" BY <2>2 DEF UploadInv, ReadInv
    <3>2. All(received, produced) BY <3>1 DEF UploadInv, BytesInv, BeingRead
    <3>3. p[1] \in 1..produced /\ p[2] \in 1..Sizes[p[1]] BY <2>1, ByteOf
    <3>4. Precedes(p, <<produced + 1, 1>>) BY <2>1, <3>3, FetchAssumption DEF Precedes
    <3> QED BY <3>2, <3>4 DEF All, UpTo
  <2> QED BY <2>1, <2>2 DEF InOrder, UploadInOrder
<1> QED BY <1>1, UploadInvariance, PTL
=============================================================================
