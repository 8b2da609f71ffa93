------------------------- MODULE ReaderStreamProofs -------------------------
(***************************************************************************)
(* A stream over a reader of any length, with any high-water mark: the     *)
(* controller is only called while it may be, the consumer gets the bytes  *)
(* in order, and one settle hook runs.  The argument: at most one readOnce *)
(* is under way, the last one; while the stream is not settled, what was   *)
(* read is what the consumer has or may take, and what that one carries.   *)
(***************************************************************************)
EXTENDS ReaderStream, TLAPS, SequenceTheorems

ReadRec == [at : {"read", "close", "post", "queued", "refused", "abandon", "done"},
            chunk : 0..Content, err : {"nil", "EOF", "err"}]

\* The readOnce that may be under way.
Last == IF reads = <<>> THEN [at |-> "done", chunk |-> 0, err |-> "nil"] ELSE reads[Len(reads)]
Flying == Last.at # "done"

\* The types, without the bounds on the hooks that HookInv implies.
Types ==
  /\ config \in [sched : BOOLEAN, onCancel : BOOLEAN]
  /\ reads \in Seq(ReadRec) /\ pos \in 0..Content
  /\ settled \in BOOLEAN /\ settle \in BOOLEAN /\ closeOnce \in BOOLEAN
  /\ hook \in {"unused", "called", "closed"} /\ onSettled \in Nat /\ offSettled \in Nat
  /\ loop \in [job : {"idle", "deliver", "error", "cancel"}, read : Nat, settle : BOOLEAN]
  /\ panicked \in BOOLEAN /\ want \in BOOLEAN /\ pulling \in BOOLEAN /\ cancelled \in BOOLEAN
  /\ tasks \in Seq(ReadIds) /\ posted \subseteq ReadIds /\ open \in BOOLEAN
  /\ stream \in {"none", "readable", "closing", "closed", "errored"}
  /\ queue \in Seq(1..Content) /\ got \in Seq(1..Content)

\* Only the last readOnce is under way, and what it carries is the last chunk taken.
ReadsInv ==
  /\ \A i \in 1..Len(reads) : reads[i].at # "done" => i = Len(reads)
  /\ Flying =>
       /\ Last.at = "read" => Last.chunk = 0 /\ Last.err = "nil"
       /\ Last.at = "close" => Last.err # "nil"
       /\ Last.chunk \in {0, pos}
       /\ Last.err = "EOF" => pos = Content
       /\ stream # "none"
  /\ Len(reads) <= pos + MaxEmpty + (IF Last.at = "read" \/ Last.err # "nil" THEN 1 ELSE 0)

\* The scheduler has its result, if any.
TasksInv ==
  tasks # <<>> =>
    /\ Len(tasks) = 1 /\ tasks[1] = Len(reads)
    /\ Last.at = "queued" /\ config.sched /\ loop.job # "deliver"

\* A delivery under way: of the last readOnce, to a readable stream.
LoopInv ==
  /\ loop.job = "deliver" =>
       /\ stream = "readable" /\ loop.settle /\ reads # <<>> /\ loop.read = Len(reads)
       /\ Last.at = (IF config.sched THEN "queued" ELSE "post")
       /\ settled = (Last.err # "nil")
  /\ loop.job = "error" => stream = "readable"
  /\ loop.read <= Len(reads)

\* While the stream is not settled, a pull is pending exactly while a readOnce is
\* under way.
PullInv ==
  ~settled =>
    /\ loop.job \in {"idle", "deliver"} /\ stream \in {"none", "readable"}
    /\ pulling <=> Flying
    /\ pulling /\ loop.job = "idle" => settle
    /\ Last.at # "abandon"
    /\ ~Flying => Last.err = "nil"

\* Nothing taken from the reader is lost before the stream has settled.
CountInv ==
  ~settled \/ loop.job = "deliver" =>
    pos = Len(got) + Len(queue) + (IF Flying /\ Last.chunk # 0 THEN 1 ELSE 0)

\* The chunks of g and then of q are numbered from 1.
Numbered(g, q) ==
  /\ \A i \in 1..Len(g) : g[i] = i
  /\ \A i \in 1..Len(q) : q[i] = Len(g) + i
OrderInv ==
  /\ Numbered(got, queue)
  /\ stream = "closing" \/ (stream = "closed" /\ ~cancelled) => Len(got) + Len(queue) = Content

\* Whoever settled the stream has called its hook, or is about to.
Settling ==
  \/ loop.job \in {"error", "cancel"}
  \/ loop.job = "deliver" /\ Last.err # "nil"
HookInv ==
  /\ stream = "none" =>
       /\ reads = <<>> /\ ~settled /\ loop.job = "idle"
       /\ offSettled = 0 /\ onSettled = IF closeOnce THEN 1 ELSE 0
  /\ stream # "none" =>
       (IF Settling THEN 1 ELSE 0) + (IF Last.at = "abandon" THEN 1 ELSE 0)
         + onSettled + offSettled = IF settled THEN 1 ELSE 0

IInv == /\ Types /\ ReadsInv /\ TasksInv /\ LoopInv /\ PullInv /\ CountInv /\ OrderInv /\ HookInv
        /\ ~panicked

-----------------------------------------------------------------------------
(* Numbered chunks.                                                        *)

\* A chunk with the next number joins the queue.
LEMMA NumberedAppend ==
  ASSUME NEW g \in Seq(1..Content), NEW q \in Seq(1..Content), Numbered(g, q), NEW c \in 1..Content,
         c = Len(g) + Len(q) + 1
  PROVE  /\ Append(q, c) \in Seq(1..Content) /\ Len(Append(q, c)) = Len(q) + 1
         /\ Numbered(g, Append(q, c)) /\ Append(q, c) # <<>>
<1>1. Len(g) \in Nat /\ Len(q) \in Nat
  BY LenProperties
<1>2. /\ Append(q, c) \in Seq(1..Content) /\ Len(Append(q, c)) = Len(q) + 1 /\ Append(q, c) # <<>>
      /\ \A i \in 1..Len(q) : Append(q, c)[i] = q[i]
      /\ Append(q, c)[Len(q) + 1] = c
  <2> DEFINE S == 1..Content
  <2>1. q \in Seq(S) /\ c \in S
    OBVIOUS
  <2> HIDE DEF S
  <2>2. /\ Append(q, c) \in Seq(S) /\ Len(Append(q, c)) = Len(q) + 1 /\ Append(q, c) # <<>>
        /\ \A i \in 1..Len(q) : Append(q, c)[i] = q[i]
        /\ Append(q, c)[Len(q) + 1] = c
    BY <2>1, AppendProperties
  <2> QED BY <2>2 DEF S
<1>3. ASSUME NEW i \in 1..Len(Append(q, c)) PROVE Append(q, c)[i] = Len(g) + i
  <2>1. i \in 1..Len(q) \/ i = Len(q) + 1
    BY <1>1, <1>2
  <2>2. CASE i \in 1..Len(q)
    BY <2>2, <1>2 DEF Numbered
  <2>3. CASE i = Len(q) + 1
    <3>1. Len(g) + i = Len(g) + Len(q) + 1
      BY <2>3, <1>1
    <3> QED BY <2>3, <3>1, <1>2
  <2> QED BY <2>1, <2>2, <2>3
<1> QED BY <1>2, <1>3 DEF Numbered

\* The oldest chunk of the queue goes to the consumer.
LEMMA NumberedServe ==
  ASSUME NEW g \in Seq(1..Content), NEW q \in Seq(1..Content), Numbered(g, q), q # <<>>
  PROVE  /\ Append(g, Head(q)) \in Seq(1..Content) /\ Tail(q) \in Seq(1..Content)
         /\ Len(Append(g, Head(q))) + Len(Tail(q)) = Len(g) + Len(q)
         /\ Len(Tail(q)) = Len(q) - 1
         /\ Numbered(Append(g, Head(q)), Tail(q))
<1>1. Len(g) \in Nat /\ Len(q) \in Nat /\ Len(q) >= 1
  BY LenProperties, EmptySeq
<1>2. /\ Head(q) = q[1] /\ Head(q) \in 1..Content /\ Tail(q) \in Seq(1..Content) /\ Len(Tail(q)) = Len(q) - 1
      /\ \A i \in 1..Len(q) - 1 : Tail(q)[i] = q[i + 1]
  <2> DEFINE S == 1..Content
  <2>1. q \in Seq(S)
    OBVIOUS
  <2> HIDE DEF S
  <2>2. /\ Head(q) = q[1] /\ Head(q) \in S /\ Tail(q) \in Seq(S) /\ Len(Tail(q)) = Len(q) - 1
        /\ \A i \in 1..Len(q) - 1 : Tail(q)[i] = q[i + 1]
    BY <2>1, <1>1, HeadTailProperties
  <2> QED BY <2>2 DEF S
<1>3. /\ Append(g, Head(q)) \in Seq(1..Content) /\ Len(Append(g, Head(q))) = Len(g) + 1
      /\ \A i \in 1..Len(g) : Append(g, Head(q))[i] = g[i]
      /\ Append(g, Head(q))[Len(g) + 1] = Head(q)
  BY <1>2, AppendProperties
<1>4. ASSUME NEW i \in 1..Len(g) + 1 PROVE Append(g, Head(q))[i] = i
  <2>1. q[1] = Len(g) + 1
    BY <1>1 DEF Numbered
  <2>2. i \in 1..Len(g) \/ i = Len(g) + 1
    BY <1>1
  <2> QED BY <2>1, <2>2, <1>2, <1>3 DEF Numbered
<1>5. ASSUME NEW i \in 1..Len(q) - 1 PROVE Tail(q)[i] = (Len(g) + 1) + i
  <2>1. i + 1 \in 1..Len(q)
    BY <1>1
  <2> QED BY <2>1, <1>1, <1>2 DEF Numbered
<1> QED BY <1>1, <1>2, <1>3, <1>4, <1>5 DEF Numbered

\* The queue is dropped.
LEMMA NumberedDrop ==
  ASSUME NEW g, NEW q, Numbered(g, q)
  PROVE  Numbered(g, <<>>)
BY DEF Numbered

\* Together they are the numbers from 1.
LEMMA NumberedCount ==
  ASSUME NEW g \in Seq(1..Content), NEW q \in Seq(1..Content), Numbered(g, q)
  PROVE  /\ Len(g \o q) = Len(g) + Len(q)
         /\ g \o q = Count(Len(g \o q))
<1>1. Len(g) \in Nat /\ Len(q) \in Nat
  BY LenProperties
<1>2. /\ g \o q \in Seq(1..Content) /\ Len(g \o q) = Len(g) + Len(q)
      /\ \A i \in 1..Len(g) + Len(q) : (g \o q)[i] = IF i <= Len(g) THEN g[i] ELSE q[i - Len(g)]
  BY ConcatProperties, Zenon
<1> DEFINE n == Len(g) + Len(q)
<1>3. g \o q = [i \in 1..n |-> (g \o q)[i]]
  BY <1>2, LenProperties
<1>4. ASSUME NEW i \in 1..n PROVE (g \o q)[i] = i
  <2>1. CASE i <= Len(g)
    BY <2>1, <1>1, <1>2 DEF Numbered
  <2>2. CASE ~(i <= Len(g))
    <3>1. i - Len(g) \in 1..Len(q) /\ Len(g) + (i - Len(g)) = i
      BY <2>2, <1>1
    <3> QED BY <3>1, <2>2, <1>2 DEF Numbered
  <2> QED BY <2>1, <2>2
<1>5. [i \in 1..n |-> (g \o q)[i]] = [i \in 1..n |-> i]
  BY <1>4
<1> QED BY <1>2, <1>3, <1>5 DEF Count

-----------------------------------------------------------------------------
(* The readOnce goroutines.                                                *)

\* When reads stays, so does the last one.
LEMMA LastKept == ASSUME reads' = reads PROVE Last' = Last
BY DEF Last

\* Facts about the last readOnce.
LEMMA LastFacts ==
  ASSUME Types, ReadsInv
  PROVE  /\ Last \in ReadRec /\ Len(reads) \in Nat
         /\ reads = <<>> => Last.at = "done" /\ Last.err = "nil" /\ Last.chunk = 0
         /\ Flying => reads # <<>> /\ Len(reads) \in 1..Len(reads) /\ Last = reads[Len(reads)]
<1>1. reads \in Seq(ReadRec) /\ Content \in Nat
  BY ReaderAssumption DEF Types
<1>2. Len(reads) \in Nat /\ (reads # <<>> => Len(reads) \in 1..Len(reads))
  BY <1>1, LenProperties, EmptySeq
<1>3. reads # <<>> => Last = reads[Len(reads)] /\ reads[Len(reads)] \in ReadRec
  BY <1>1, <1>2, ElementOfSeq DEF Last
<1>4. reads = <<>> => Last = [at |-> "done", chunk |-> 0, err |-> "nil"]
  BY DEF Last
<1>5. [at |-> "done", chunk |-> 0, err |-> "nil"] \in ReadRec
  BY <1>1 DEF ReadRec
<1> QED BY <1>2, <1>3, <1>4, <1>5 DEF Flying

\* The readOnce that is under way goes on.
LEMMA ReadsUpdate ==
  ASSUME Types, ReadsInv, NEW i \in 1..Len(reads), reads[i].at # "done",
         NEW r \in ReadRec, reads' = [reads EXCEPT ![i] = r]
  PROVE  /\ i = Len(reads) /\ Last = reads[i] /\ Flying
         /\ reads' \in Seq(ReadRec) /\ Len(reads') = Len(reads) /\ reads' # <<>> /\ Last' = r
         /\ \A j \in 1..Len(reads') : reads'[j].at # "done" => j = Len(reads')
<1>1. i = Len(reads) /\ reads \in Seq(ReadRec) /\ Len(reads) \in Nat
  BY LenProperties DEF ReadsInv, Types
<1>2. reads # <<>>
  BY <1>1
<1>3. Last = reads[i] /\ Flying
  BY <1>1, <1>2 DEF Last, Flying
<1>4. /\ reads' \in Seq(ReadRec) /\ Len(reads') = Len(reads)
      /\ \A j \in 1..Len(reads) : reads'[j] = IF j = i THEN r ELSE reads[j]
  BY <1>1, ExceptSeq
<1>5. reads' # <<>>
  BY <1>1, <1>4
<1>6. Last' = r
  BY <1>1, <1>4, <1>5 DEF Last
<1> QED BY <1>1, <1>3, <1>4, <1>5, <1>6 DEF ReadsInv

\* At is such an update.
LEMMA ReadsAt ==
  ASSUME Types, ReadsInv, NEW i \in 1..Len(reads), reads[i].at # "done",
         NEW w \in {"post", "queued", "refused", "abandon", "done"}, At(i, w)
  PROVE  /\ i = Len(reads) /\ Last = reads[i] /\ Flying
         /\ reads' \in Seq(ReadRec) /\ Len(reads') = Len(reads) /\ reads' # <<>>
         /\ Last' \in ReadRec /\ Last'.at = w /\ Last'.chunk = Last.chunk /\ Last'.err = Last.err
         /\ \A j \in 1..Len(reads') : reads'[j].at # "done" => j = Len(reads')
<1> DEFINE r == [reads[i] EXCEPT !.at = w]
<1>1. reads[i] \in ReadRec
  BY ElementOfSeq DEF Types
<1>2. r \in ReadRec /\ r.at = w /\ r.chunk = reads[i].chunk /\ r.err = reads[i].err
  BY <1>1 DEF ReadRec
<1>3. reads' = [reads EXCEPT ![i] = r]
  BY DEF At
<1> HIDE DEF r
<1> QED BY <1>2, <1>3, ReadsUpdate

-----------------------------------------------------------------------------
(* The invariant holds at first, and every step keeps it.                  *)

\* Init establishes the invariant.
LEMMA InitIInv == Init => IInv
<1> SUFFICES ASSUME Init PROVE IInv
  OBVIOUS
<1>0. Content \in Nat /\ MaxEmpty \in Nat
  BY ReaderAssumption
<1>1. /\ reads = <<>> /\ Len(reads) = 0 /\ pos = 0 /\ tasks = <<>> /\ got = <<>> /\ queue = <<>>
      /\ Len(got) = 0 /\ Len(queue) = 0
      /\ settled = FALSE /\ settle = FALSE /\ closeOnce = FALSE /\ pulling = FALSE
      /\ onSettled = 0 /\ offSettled = 0 /\ stream = "none" /\ panicked = FALSE
  BY DEF Init, Sched!Init
<1>2. Last = [at |-> "done", chunk |-> 0, err |-> "nil"] /\ ~Flying
  BY <1>1 DEF Last, Flying
<1>3. loop.job = "idle" /\ loop.read = 0
      /\ loop \in [job : {"idle", "deliver", "error", "cancel"}, read : Nat, settle : BOOLEAN]
  BY DEF Init, Idle
<1>4. Types
  <2>1. /\ config \in [sched : BOOLEAN, onCancel : BOOLEAN] /\ want \in BOOLEAN /\ cancelled \in BOOLEAN
        /\ posted \subseteq ReadIds /\ open \in BOOLEAN /\ hook \in {"unused", "called", "closed"}
    BY DEF Init, Sched!Init
  <2>2. /\ settled \in BOOLEAN /\ settle \in BOOLEAN /\ closeOnce \in BOOLEAN
        /\ panicked \in BOOLEAN /\ pulling \in BOOLEAN
    BY <1>1
  <2>3. /\ reads \in Seq(ReadRec) /\ tasks \in Seq(ReadIds)
        /\ queue \in Seq(1..Content) /\ got \in Seq(1..Content) /\ pos \in 0..Content
    BY <1>0, <1>1
  <2>4. /\ onSettled \in Nat /\ offSettled \in Nat
        /\ stream \in {"none", "readable", "closing", "closed", "errored"}
    BY <1>1
  <2> QED BY <1>3, <2>1, <2>2, <2>3, <2>4 DEF Types
<1>5. ReadsInv /\ TasksInv /\ LoopInv
  BY <1>0, <1>1, <1>2, <1>3 DEF ReadsInv, TasksInv, LoopInv
<1>6. PullInv /\ CountInv
  BY <1>1, <1>2, <1>3 DEF PullInv, CountInv
<1>7. OrderInv /\ HookInv
  BY <1>1, <1>2, <1>3 DEF OrderInv, Numbered, HookInv
<1> QED BY <1>1, <1>4, <1>5, <1>6, <1>7 DEF IInv

\* The ReadableStream constructor returns.
LEMMA ConstructKeeps == ASSUME IInv, Construct PROVE IInv'
<1>1. /\ stream = "none" /\ stream' = "readable" /\ ~closeOnce
      /\ UNCHANGED <<reads, pos, bridge, loop, panicked, sched, queue, want, pulling, got, cancelled>>
  BY DEF Construct
<1>2. Last' = Last
  BY <1>1, LastKept
<1>3. loop.job = "idle" /\ ~settled /\ reads = <<>> /\ ~Flying /\ Last.at = "done"
  BY <1>1, LastFacts DEF IInv, HookInv, Flying
<1>4. Types'
  BY <1>1 DEF IInv, Types, bridge, sched
<1>5. ReadsInv' /\ TasksInv' /\ LoopInv'
  BY <1>1, <1>2, <1>3 DEF IInv, ReadsInv, TasksInv, LoopInv, Flying, bridge, sched
<1>6. PullInv' /\ CountInv'
  BY <1>1, <1>2, <1>3 DEF IInv, PullInv, CountInv, Flying, bridge, sched
<1>7. OrderInv'
  BY <1>1 DEF IInv, OrderInv
<1>8. HookInv'
  BY <1>1, <1>2, <1>3 DEF IInv, HookInv, Settling, bridge
<1> QED BY <1>1, <1>4, <1>5, <1>6, <1>7, <1>8 DEF IInv

\* It throws.
LEMMA ConstructFailsKeeps == ASSUME IInv, ConstructFails PROVE IInv'
<1>1. /\ stream = "none" /\ ~closeOnce /\ closeOnce' = TRUE /\ onSettled' = onSettled + 1
      /\ UNCHANGED <<config, reads, pos, settled, settle, hook, offSettled, loop, panicked, sched, js>>
  BY DEF ConstructFails
<1>2. Last' = Last
  BY <1>1, LastKept
<1>4. Types'
  BY <1>1 DEF IInv, Types, js, sched
<1>5. ReadsInv' /\ TasksInv' /\ LoopInv'
  BY <1>1, <1>2 DEF IInv, ReadsInv, TasksInv, LoopInv, Flying, js, sched
<1>6. PullInv' /\ CountInv'
  BY <1>1, <1>2 DEF IInv, PullInv, CountInv, Flying, js, sched
<1>7. OrderInv'
  BY <1>1 DEF IInv, OrderInv, js
<1>8. HookInv'
  BY <1>1, <1>2 DEF IInv, HookInv, Settling, js
<1> QED BY <1>1, <1>4, <1>5, <1>6, <1>7, <1>8 DEF IInv

\* pull starts a readOnce, if the stream has not settled.
LEMMA PullKeeps == ASSUME IInv, Pull PROVE IInv'
<1> DEFINE r == [at |-> "read", chunk |-> 0, err |-> "nil"]
<1>0. Content \in Nat /\ MaxEmpty \in Nat /\ Types /\ ReadsInv
  BY ReaderAssumption DEF IInv
<1>1. /\ stream = "readable" /\ ~pulling /\ loop.job = "idle"
      /\ UNCHANGED <<config, pos, settled, closeOnce, hook, onSettled, offSettled, loop, panicked, sched,
                     stream, queue, want, got, cancelled>>
  BY DEF Pull, ShouldPull, LoopFree, Idle
<1>2. CASE settled /\ UNCHANGED <<reads, settle, pulling>>
  <2>2. Last' = Last
    BY <1>2, LastKept
  <2>4. Types'
    BY <1>1, <1>2 DEF IInv, Types, sched
  <2>5. ReadsInv' /\ TasksInv' /\ LoopInv'
    BY <1>1, <1>2, <2>2 DEF IInv, ReadsInv, TasksInv, LoopInv, Flying, sched
  <2>6. PullInv' /\ CountInv'
    BY <1>1, <1>2, <2>2 DEF IInv, PullInv, CountInv, Flying, sched
  <2>7. OrderInv' /\ HookInv'
    BY <1>1, <1>2, <2>2 DEF IInv, OrderInv, HookInv, Settling
  <2> QED BY <1>1, <2>4, <2>5, <2>6, <2>7 DEF IInv
<1>3. CASE ~settled /\ settle' = TRUE /\ pulling' = TRUE /\ reads' = Append(reads, r)
  <2>1. ~Flying /\ Last.at = "done" /\ Last.err = "nil"
    BY <1>1, <1>3 DEF IInv, PullInv, Flying
  <2>2. r \in ReadRec /\ r.at = "read" /\ r.chunk = 0 /\ r.err = "nil"
    BY <1>0 DEF ReadRec
  <2> HIDE DEF r
  <2>3. /\ reads' \in Seq(ReadRec) /\ Len(reads') = Len(reads) + 1 /\ reads' # <<>>
        /\ \A i \in 1..Len(reads) : reads'[i] = reads[i]
        /\ reads'[Len(reads) + 1] = r /\ Len(reads) \in Nat
    BY <1>0, <1>3, <2>2, AppendProperties, LenProperties DEF Types
  <2>4. Last' = r /\ Flying'
    BY <2>2, <2>3 DEF Last, Flying
  <2>5. Types'
    BY <1>1, <1>3, <2>3 DEF IInv, Types, sched
  <2>6. \A i \in 1..Len(reads') : reads'[i].at # "done" => i = Len(reads')
    <3> SUFFICES ASSUME NEW i \in 1..Len(reads') , i # Len(reads') PROVE reads'[i].at = "done"
      OBVIOUS
    <3>1. i \in 1..Len(reads) /\ reads'[i] = reads[i]
      BY <2>3
    <3>2. i = Len(reads) => reads[i] = Last
      BY <3>1, <2>3 DEF Last
    <3> QED BY <3>1, <3>2, <2>1, <1>0 DEF ReadsInv
  <2>7. Len(reads) <= pos + MaxEmpty /\ pos \in Nat
    BY <1>0, <2>1 DEF ReadsInv, Types
  <2>8. ReadsInv'
    BY <1>0, <1>1, <2>2, <2>3, <2>4, <2>6, <2>7 DEF ReadsInv, Flying
  <2>9. tasks = <<>>
    BY <2>1 DEF IInv, TasksInv
  <2>10. TasksInv' /\ LoopInv'
    BY <1>1, <2>3, <2>9 DEF IInv, Types, TasksInv, LoopInv, sched
  <2>11. PullInv'
    BY <1>1, <1>3, <2>2, <2>4 DEF IInv, PullInv, Flying
  <2>12. CountInv'
    BY <1>1, <1>3, <2>1, <2>2, <2>4 DEF IInv, CountInv
  <2>13. OrderInv'
    BY <1>1 DEF IInv, OrderInv
  <2>14. HookInv'
    BY <1>1, <1>3, <2>1, <2>2, <2>4 DEF IInv, HookInv, Settling
  <2> QED BY <1>1, <2>5, <2>8, <2>10, <2>11, <2>12, <2>13, <2>14 DEF IInv
<1> QED BY <1>2, <1>3 DEF Pull

\* A read returns: the chunk it brings, if any, is the last one taken.
LEMMA ReadKeeps ==
  ASSUME IInv, NEW i \in ReadIds, i <= Len(reads), Read(i)
  PROVE  IInv'
<1>0. Content \in Nat /\ MaxEmpty \in Nat /\ Types /\ ReadsInv /\ pos \in 0..Content
  BY ReaderAssumption DEF IInv, Types
<1>1. PICK bytes \in BOOLEAN, err \in {"nil", "EOF", "err"} :
        /\ bytes => pos < Content
        /\ err = "EOF" => pos + (IF bytes THEN 1 ELSE 0) = Content
        /\ ~bytes /\ err = "nil" => Empty < MaxEmpty
        /\ pos' = IF bytes THEN pos + 1 ELSE pos
        /\ reads' = [reads EXCEPT ![i] =
             [at |-> IF err = "nil" THEN "post" ELSE "close",
              chunk |-> IF bytes THEN pos + 1 ELSE 0, err |-> err]]
  BY DEF Read
<1> DEFINE r == [at |-> IF err = "nil" THEN "post" ELSE "close",
                 chunk |-> IF bytes THEN pos + 1 ELSE 0, err |-> err]
<1>2. i \in 1..Len(reads) /\ reads[i].at = "read" /\ UNCHANGED <<bridge, loop, panicked, sched, js>>
  BY <1>0 DEF Read, ReadIds
<1>3. /\ r \in ReadRec /\ r.err = err /\ r.at = (IF err = "nil" THEN "post" ELSE "close")
      /\ r.chunk = (IF bytes THEN pos + 1 ELSE 0)
  BY <1>0, <1>1 DEF ReadRec
<1> HIDE DEF r
<1>4. /\ i = Len(reads) /\ Last = reads[i] /\ Flying
      /\ reads' \in Seq(ReadRec) /\ Len(reads') = Len(reads) /\ reads' # <<>> /\ Last' = r
      /\ \A j \in 1..Len(reads') : reads'[j].at # "done" => j = Len(reads')
  BY <1>0, <1>1, <1>2, <1>3, ReadsUpdate DEF r
<1>5. Flying' /\ Last.at = "read" /\ Last.chunk = 0 /\ Last.err = "nil" /\ Len(reads) \in Nat
  BY <1>0, <1>2, <1>3, <1>4, LastFacts DEF Flying, ReadsInv
<1>6. pos' \in 0..Content
  BY <1>0, <1>1
<1>7. Types'
  BY <1>2, <1>4, <1>6 DEF IInv, Types, bridge, sched, js
<1>8. stream # "none" /\ stream' = stream
  BY <1>2, <1>4, <1>0 DEF ReadsInv, js
<1>9. Len(reads) <= pos + MaxEmpty + 1
  BY <1>0, <1>5 DEF ReadsInv
<1>10. Len(reads') <= pos' + MaxEmpty + (IF Last'.at = "read" \/ Last'.err # "nil" THEN 1 ELSE 0)
  <2>1. CASE bytes
    BY <2>1, <1>0, <1>1, <1>3, <1>4, <1>5, <1>9
  <2>2. CASE ~bytes /\ err = "nil"
    BY <2>2, <1>0, <1>1, <1>3, <1>4, <1>5 DEF Empty
  <2>3. CASE ~bytes /\ err # "nil"
    BY <2>3, <1>0, <1>1, <1>3, <1>4, <1>5, <1>9
  <2> QED BY <2>1, <2>2, <2>3
<1>11. /\ r.at # "read" /\ (r.at = "close" => r.err # "nil") /\ r.chunk \in {0, pos'}
       /\ r.err = "EOF" => pos' = Content
  BY <1>0, <1>1, <1>3
<1>12. ReadsInv'
  BY <1>4, <1>8, <1>10, <1>11 DEF ReadsInv
<1>13. tasks = <<>> /\ loop.job # "deliver"
  BY <1>5 DEF IInv, TasksInv, LoopInv
<1>14. TasksInv' /\ LoopInv'
  BY <1>2, <1>4, <1>13 DEF IInv, TasksInv, LoopInv, sched, js, bridge
<1>15. PullInv'
  BY <1>2, <1>3, <1>4, <1>5 DEF IInv, PullInv, js, bridge
<1>16. CountInv'
  <2> SUFFICES ASSUME ~settled
               PROVE  pos' = Len(got) + Len(queue) + (IF r.chunk # 0 THEN 1 ELSE 0)
    BY <1>2, <1>4, <1>5, <1>13 DEF CountInv, js, bridge
  <2>1. pos = Len(got) + Len(queue) + 0
    BY <1>5 DEF IInv, CountInv
  <2>2. Len(got) \in Nat /\ Len(queue) \in Nat
    BY <1>0, LenProperties DEF Types
  <2> QED BY <2>1, <2>2, <1>0, <1>1, <1>3
<1>17. OrderInv'
  BY <1>2 DEF IInv, OrderInv, js
<1>18. HookInv'
  BY <1>2, <1>3, <1>4, <1>5, <1>8, <1>13 DEF IInv, HookInv, Settling, bridge
<1> QED BY <1>2, <1>7, <1>12, <1>14, <1>15, <1>16, <1>17, <1>18 DEF IInv

\* The bridge closes the reader after a terminal read.
LEMMA CloseForReadKeeps ==
  ASSUME IInv, NEW i \in ReadIds, i <= Len(reads), CloseForRead(i)
  PROVE  IInv'
<1>0. Types /\ ReadsInv
  BY DEF IInv
<1>1. PICK failed \in BOOLEAN :
        reads' = [reads EXCEPT ![i] =
                    [at |-> "post", chunk |-> reads[i].chunk,
                     err |-> IF failed THEN "err" ELSE reads[i].err]]
  BY DEF CloseForRead
<1>2. /\ i \in 1..Len(reads) /\ reads[i].at = "close" /\ closeOnce' = TRUE
      /\ UNCHANGED <<config, pos, settled, settle, hook, onSettled, offSettled, loop, panicked, sched, js>>
  BY DEF CloseForRead, ReadIds
<1> DEFINE r == [at |-> "post", chunk |-> reads[i].chunk, err |-> IF failed THEN "err" ELSE reads[i].err]
<1>3. /\ r \in ReadRec /\ r.at = "post" /\ r.chunk = reads[i].chunk
      /\ r.err = (IF failed THEN "err" ELSE reads[i].err)
  <2>1. reads[i] \in ReadRec
    BY <1>0, <1>2, ElementOfSeq DEF Types
  <2> QED BY <2>1 DEF ReadRec
<1>a. reads' = [reads EXCEPT ![i] = r]
  BY <1>1
<1> HIDE DEF r
<1>4. /\ i = Len(reads) /\ Last = reads[i] /\ Flying
      /\ reads' \in Seq(ReadRec) /\ Len(reads') = Len(reads) /\ reads' # <<>> /\ Last' = r
      /\ \A j \in 1..Len(reads') : reads'[j].at # "done" => j = Len(reads')
  BY <1>0, <1>a, <1>2, <1>3, ReadsUpdate
<1>5. /\ Flying' /\ Last.at = "close" /\ Last.err # "nil" /\ r.err # "nil"
      /\ r.err = "EOF" => Last.err = "EOF"
  BY <1>0, <1>2, <1>3, <1>4 DEF Flying, ReadsInv
<1>6. Types'
  BY <1>2, <1>4 DEF IInv, Types, sched, js
<1>7. ReadsInv'
  BY <1>0, <1>2, <1>3, <1>4, <1>5 DEF ReadsInv, js
<1>8. tasks = <<>> /\ loop.job # "deliver"
  BY <1>5 DEF IInv, TasksInv, LoopInv
<1>9. TasksInv' /\ LoopInv'
  BY <1>2, <1>4, <1>8 DEF IInv, TasksInv, LoopInv, sched, js
<1>10. PullInv'
  BY <1>2, <1>3, <1>4, <1>5 DEF IInv, PullInv, js
<1>11. CountInv'
  BY <1>2, <1>3, <1>4, <1>5, <1>8 DEF IInv, CountInv, js
<1>12. OrderInv'
  BY <1>2 DEF IInv, OrderInv, js
<1>13. HookInv'
  BY <1>0, <1>2, <1>3, <1>4, <1>5, <1>8 DEF IInv, ReadsInv, HookInv, Settling, js
<1> QED BY <1>2, <1>6, <1>7, <1>9, <1>10, <1>11, <1>12, <1>13 DEF IInv

\* RunOnLoop takes the result, or refuses it.
LEMMA PostKeeps ==
  ASSUME IInv, NEW i \in ReadIds, i <= Len(reads), Post(i)
  PROVE  IInv'
<1>0. Types /\ ReadsInv
  BY DEF IInv
<1>1. /\ i \in 1..Len(reads) /\ reads[i].at = "post" /\ config.sched
      /\ UNCHANGED <<pos, bridge, loop, panicked, js>>
  BY DEF Post, ReadIds
<1>2. PICK w \in {"queued", "refused"} :
        /\ At(i, w) /\ posted' = posted \cup {i} /\ UNCHANGED open
        /\ w = "queued" => tasks' = Append(tasks, i)
        /\ w = "refused" => tasks' = tasks
  BY DEF Post, Sched!Accept, Sched!Refuse
<1>3. /\ i = Len(reads) /\ Last = reads[i] /\ Flying
      /\ reads' \in Seq(ReadRec) /\ Len(reads') = Len(reads) /\ reads' # <<>>
      /\ Last' \in ReadRec /\ Last'.at = w /\ Last'.chunk = Last.chunk /\ Last'.err = Last.err
      /\ \A j \in 1..Len(reads') : reads'[j].at # "done" => j = Len(reads')
  BY <1>0, <1>1, <1>2, ReadsAt
<1>4. Flying' /\ Last.at = "post"
  BY <1>1, <1>2, <1>3 DEF Flying
<1>5. tasks = <<>> /\ loop.job # "deliver"
  BY <1>1, <1>4 DEF IInv, TasksInv, LoopInv
<1>6. tasks' \in Seq(ReadIds) /\ (tasks' # <<>> => w = "queued" /\ Len(tasks') = 1 /\ tasks'[1] = i)
  <2>1. Append(<<>>, i) = <<i>> /\ <<i>> \in Seq(ReadIds) /\ Len(<<i>>) = 1 /\ <<i>>[1] = i
    OBVIOUS
  <2>2. CASE w = "queued"
    <3>1. tasks' = <<i>>
      BY <2>1, <2>2, <1>2, <1>5
    <3> QED BY <3>1, <2>1, <2>2
  <2>3. CASE w = "refused"
    BY <2>3, <1>2, <1>5
  <2> QED BY <2>2, <2>3
<1>7. Types'
  BY <1>1, <1>2, <1>3, <1>6 DEF IInv, Types, bridge, js
<1>8. ReadsInv'
  BY <1>0, <1>1, <1>2, <1>3, <1>4 DEF ReadsInv, js
<1>9. TasksInv' /\ LoopInv'
  BY <1>1, <1>3, <1>5, <1>6 DEF IInv, TasksInv, LoopInv, js, bridge
<1>10. PullInv'
  BY <1>1, <1>2, <1>3, <1>4 DEF IInv, PullInv, js, bridge
<1>11. CountInv'
  BY <1>1, <1>3, <1>4, <1>5 DEF IInv, CountInv, js, bridge
<1>12. OrderInv'
  BY <1>1 DEF IInv, OrderInv, js
<1>13. HookInv'
  BY <1>0, <1>1, <1>2, <1>3, <1>4, <1>5 DEF IInv, ReadsInv, HookInv, Settling, js, bridge
<1> QED BY <1>1, <1>7, <1>8, <1>9, <1>10, <1>11, <1>12, <1>13 DEF IInv

\* abandon marks the stream settled, unless somebody else has.
LEMMA AbandonKeeps ==
  ASSUME IInv, NEW i \in ReadIds, i <= Len(reads), Abandon(i)
  PROVE  IInv'
<1>0. Types /\ ReadsInv
  BY DEF IInv
<1>1. /\ i \in 1..Len(reads) /\ reads[i].at = "refused"
      /\ UNCHANGED <<config, pos, closeOnce, hook, onSettled, offSettled, loop, panicked, sched, js>>
  BY DEF Abandon, ReadIds
<1>2. PICK w \in {"abandon", "done"} :
        /\ At(i, w) /\ w = (IF settled THEN "done" ELSE "abandon") /\ settled' = TRUE
        /\ settle' \in BOOLEAN
  <2>1. settled = TRUE \/ settled = FALSE
    BY <1>0 DEF Types
  <2> QED BY <2>1, <1>0 DEF Abandon, Types
<1>3. /\ i = Len(reads) /\ Last = reads[i] /\ Flying
      /\ reads' \in Seq(ReadRec) /\ Len(reads') = Len(reads) /\ reads' # <<>>
      /\ Last' \in ReadRec /\ Last'.at = w /\ Last'.chunk = Last.chunk /\ Last'.err = Last.err
      /\ \A j \in 1..Len(reads') : reads'[j].at # "done" => j = Len(reads')
  BY <1>0, <1>1, <1>2, ReadsAt
<1>4. Last.at = "refused"
  BY <1>1, <1>3
<1>5. tasks = <<>> /\ loop.job # "deliver"
  BY <1>4 DEF IInv, TasksInv, LoopInv
<1>6. Types'
  BY <1>1, <1>2, <1>3 DEF IInv, Types, sched, js
<1>7. ReadsInv'
  BY <1>0, <1>1, <1>2, <1>3, <1>4 DEF ReadsInv, Flying, js
<1>8. TasksInv' /\ LoopInv'
  BY <1>1, <1>3, <1>5 DEF IInv, TasksInv, LoopInv, js, sched
<1>9. PullInv' /\ CountInv'
  BY <1>1, <1>2, <1>5 DEF PullInv, CountInv
<1>10. OrderInv'
  BY <1>1 DEF IInv, OrderInv, js
<1>11. HookInv'
  <2>1. stream # "none" /\ stream' = stream
    BY <1>0, <1>1, <1>3 DEF ReadsInv, js
  <2>2. Settling' <=> Settling
    BY <1>1, <1>5 DEF Settling
  <2>3. (IF Settling THEN 1 ELSE 0) + 0 + onSettled + offSettled = IF settled THEN 1 ELSE 0
    BY <2>1, <1>4 DEF IInv, HookInv
  <2>4. onSettled \in Nat /\ offSettled \in Nat
    BY <1>0 DEF Types
  <2>5. (IF Settling THEN 1 ELSE 0) + (IF w = "abandon" THEN 1 ELSE 0) + onSettled + offSettled = 1
    BY <2>3, <2>4, <1>2
  <2> QED BY <2>1, <2>2, <2>5, <1>1, <1>2, <1>3 DEF HookInv
<1> QED BY <1>1, <1>6, <1>7, <1>8, <1>9, <1>10, <1>11 DEF IInv

\* abandon calls the off-loop hook.
LEMMA AbandonRestKeeps ==
  ASSUME IInv, NEW i \in ReadIds, i <= Len(reads), AbandonRest(i)
  PROVE  IInv'
<1>0. Types /\ ReadsInv
  BY DEF IInv
<1>1. /\ i \in 1..Len(reads) /\ reads[i].at = "abandon" /\ At(i, "done")
      /\ closeOnce' = TRUE /\ offSettled' = offSettled + 1
      /\ UNCHANGED <<config, pos, settled, settle, hook, onSettled, loop, panicked, sched, js>>
  BY DEF AbandonRest, ReadIds
<1>3. /\ i = Len(reads) /\ Last = reads[i] /\ Flying
      /\ reads' \in Seq(ReadRec) /\ Len(reads') = Len(reads) /\ reads' # <<>>
      /\ Last' \in ReadRec /\ Last'.at = "done" /\ Last'.chunk = Last.chunk /\ Last'.err = Last.err
      /\ \A j \in 1..Len(reads') : reads'[j].at # "done" => j = Len(reads')
  BY <1>0, <1>1, ReadsAt
<1>4. Last.at = "abandon" /\ ~Flying'
  BY <1>1, <1>3 DEF Flying
<1>5. tasks = <<>> /\ loop.job # "deliver" /\ settled
  BY <1>4 DEF IInv, TasksInv, LoopInv, PullInv
<1>6. Types'
  BY <1>1, <1>3 DEF IInv, Types, sched, js
<1>7. ReadsInv'
  BY <1>0, <1>1, <1>3, <1>4 DEF ReadsInv, js
<1>8. TasksInv' /\ LoopInv'
  BY <1>1, <1>3, <1>5 DEF IInv, TasksInv, LoopInv, js, sched
<1>9. PullInv' /\ CountInv'
  BY <1>1, <1>5 DEF PullInv, CountInv
<1>10. OrderInv'
  BY <1>1 DEF IInv, OrderInv, js
<1>11. HookInv'
  <2>1. stream # "none" /\ stream' = stream
    BY <1>0, <1>1, <1>3 DEF ReadsInv, js
  <2>2. Settling' <=> Settling
    BY <1>1, <1>5 DEF Settling
  <2>3. (IF Settling THEN 1 ELSE 0) + 1 + onSettled + offSettled = 1
    BY <2>1, <1>4, <1>5 DEF IInv, HookInv
  <2>4. onSettled \in Nat /\ offSettled \in Nat
    BY <1>0 DEF Types
  <2>5. (IF Settling THEN 1 ELSE 0) + 0 + onSettled + (offSettled + 1) = 1
    BY <2>3, <2>4
  <2> QED BY <2>1, <2>2, <2>5, <1>1, <1>3, <1>5 DEF HookInv
<1> QED BY <1>1, <1>6, <1>7, <1>8, <1>9, <1>10, <1>11 DEF IInv

\* The section of deliver under s.mu, for the result the loop has taken.
LEMMA DeliverLockedKeeps ==
  ASSUME IInv, NEW i \in 1..Len(reads), loop = Idle, DeliverLocked(i),
         reads[i].at = (IF config.sched THEN "queued" ELSE "post"),
         tasks' = <<>>, posted' = posted, open' = open,
         UNCHANGED <<config, pos, closeOnce, hook, onSettled, offSettled, panicked, js>>
  PROVE  IInv'
<1>0. Types /\ ReadsInv /\ loop.job = "idle" /\ loop.read = 0 /\ reads[i].at # "done"
  BY DEF IInv, Idle
<1>1. i = Len(reads) /\ Last = reads[i] /\ Flying /\ stream # "none" /\ reads # <<>> /\ Len(reads) \in Nat
  <2>1. i = Len(reads)
    BY <1>0 DEF ReadsInv
  <2>2. reads # <<>> /\ Len(reads) \in Nat
    BY <2>1, <1>0, LenProperties DEF Types
  <2>3. Last = reads[i]
    BY <2>1, <2>2 DEF Last
  <2> QED BY <2>1, <2>2, <2>3, <1>0 DEF Flying, ReadsInv
<1>2. Last.at \in {"queued", "post"} /\ Last.at # "abandon"
  BY <1>0, <1>1
<1>3. tasks' \in Seq(ReadIds)
  OBVIOUS
<1>4. CASE settled
  <2>1. At(i, "done") /\ UNCHANGED <<settled, settle, loop>>
    BY <1>4 DEF DeliverLocked
  <2>2. /\ reads' \in Seq(ReadRec) /\ Len(reads') = Len(reads) /\ reads' # <<>>
        /\ Last' \in ReadRec /\ Last'.at = "done" /\ Last'.chunk = Last.chunk /\ Last'.err = Last.err
        /\ \A j \in 1..Len(reads') : reads'[j].at # "done" => j = Len(reads')
    BY <1>0, <2>1, ReadsAt
  <2>3. Types'
    BY <1>3, <2>1, <2>2 DEF IInv, Types, js
  <2>4. ReadsInv'
    BY <1>0, <1>2, <2>2 DEF ReadsInv, Flying, js
  <2>5. TasksInv' /\ LoopInv'
    BY <1>0, <1>1, <2>1, <2>2 DEF TasksInv, LoopInv
  <2>6. PullInv' /\ CountInv'
    BY <1>0, <1>4, <2>1 DEF PullInv, CountInv
  <2>7. OrderInv'
    BY DEF IInv, OrderInv, js
  <2>8. HookInv'
    BY <1>0, <1>1, <1>2, <1>4, <2>1, <2>2 DEF IInv, HookInv, Settling, js
  <2> QED BY <2>3, <2>4, <2>5, <2>6, <2>7, <2>8 DEF IInv
<1>5. CASE ~settled
  <2>1. /\ settled' = (Last.err # "nil") /\ settle' = FALSE /\ reads' = reads
        /\ loop' = [job |-> "deliver", read |-> i, settle |-> settle]
    BY <1>1, <1>5 DEF DeliverLocked, Job
  <2>2. Last' = Last
    BY <2>1, LastKept
  <2>3. settle = TRUE /\ pulling /\ stream = "readable"
    BY <1>0, <1>1, <1>5 DEF IInv, PullInv, Types
  <2>4. loop'.job = "deliver" /\ loop'.read = i /\ loop'.settle = TRUE
        /\ loop' \in [job : {"idle", "deliver", "error", "cancel"}, read : Nat, settle : BOOLEAN]
    BY <2>1, <2>3, <1>1
  <2>5. settled' \in BOOLEAN /\ settle' \in BOOLEAN
    BY <2>1
  <2>6. Types'
    BY <1>3, <2>1, <2>4, <2>5 DEF IInv, Types, js
  <2>7. ReadsInv'
    BY <1>0, <2>1, <2>2 DEF ReadsInv, Flying, js
  <2>8. TasksInv'
    BY DEF TasksInv
  <2>9. LoopInv'
    BY <1>0, <1>1, <2>1, <2>2, <2>3, <2>4 DEF LoopInv, js
  <2>10. PullInv'
    BY <1>1, <1>2, <2>1, <2>2, <2>3, <2>4 DEF PullInv, Flying, js
  <2>11. CountInv'
    BY <1>5, <2>1, <2>2 DEF IInv, CountInv, Flying, js
  <2>12. OrderInv'
    BY DEF IInv, OrderInv, js
  <2>13. HookInv'
    <3>1. onSettled + offSettled = 0 /\ onSettled \in Nat /\ offSettled \in Nat
      BY <1>0, <1>1, <1>2, <1>5 DEF IInv, HookInv, Settling, Types
    <3>2. Settling' <=> Last.err # "nil"
      BY <2>2, <2>4 DEF Settling
    <3>3. onSettled = 0 /\ offSettled = 0
      BY <3>1
    <3>4. stream' # "none" /\ Last'.at # "abandon" /\ onSettled' = 0 /\ offSettled' = 0
      BY <3>3, <1>1, <1>2, <2>2 DEF js
    <3>5. CASE Last.err = "nil"
      <4>1. ~settled' /\ ~Settling'
        BY <3>2, <3>5, <2>1
      <4> QED BY <4>1, <3>4 DEF HookInv
    <3>6. CASE Last.err # "nil"
      <4>1. settled' /\ Settling'
        BY <3>2, <3>6, <2>1
      <4> QED BY <4>1, <3>4 DEF HookInv
    <3> QED BY <3>5, <3>6
  <2> QED BY <2>6, <2>7, <2>8, <2>9, <2>10, <2>11, <2>12, <2>13 DEF IInv
<1> QED BY <1>4, <1>5

\* The loop takes the oldest result.
LEMMA DeliverKeeps == ASSUME IInv, Deliver PROVE IInv'
<1>0. /\ loop = Idle /\ Types /\ ReadsInv /\ TasksInv
      /\ UNCHANGED <<config, pos, closeOnce, hook, onSettled, offSettled, panicked, js>>
  BY DEF IInv, Deliver
<1>1. CASE config.sched /\ Sched!RunNext /\ DeliverLocked(Head(tasks))
  <2>1. tasks # <<>> /\ tasks' = Tail(tasks) /\ posted' = posted /\ open' = open
    BY <1>1 DEF Sched!RunNext
  <2>2. Len(tasks) = 1 /\ tasks[1] = Len(reads) /\ Last.at = "queued"
    BY <2>1, <1>0 DEF TasksInv
  <2>3. tasks \in Seq(ReadIds)
    BY <1>0 DEF Types
  <2>4. Head(tasks) = Len(reads) /\ tasks' = <<>>
    BY <2>1, <2>2, <2>3
  <2>5. Len(reads) \in 1..Len(reads) /\ reads[Len(reads)].at = "queued"
    BY <2>2, <1>0, LastFacts DEF Flying
  <2> QED BY <1>0, <1>1, <2>1, <2>4, <2>5, DeliverLockedKeeps
<1>2. CASE /\ ~config.sched /\ UNCHANGED sched
           /\ \E i \in 1..Len(reads) : reads[i].at = "post" /\ DeliverLocked(i)
  <2>1. PICK i \in 1..Len(reads) : reads[i].at = "post" /\ DeliverLocked(i)
    BY <1>2
  <2>2. tasks' = <<>> /\ posted' = posted /\ open' = open
    BY <1>0, <1>2 DEF TasksInv, sched
  <2> QED BY <1>0, <1>2, <2>1, <2>2, DeliverLockedKeeps
<1> QED BY <1>1, <1>2 DEF Deliver

\* What the controller is called with is the next chunk, and it is never called in
\* vain: the consumer and the queue stay numbered.
LEMMA TransferFacts ==
  ASSUME Types, Numbered(got, queue), stream = "readable", ~panicked, NEW r \in ReadRec,
         r.chunk # 0 => r.chunk = Len(got) + Len(queue) + 1,
         Transfer(r)
  PROVE  /\ panicked' = panicked
         /\ got' \in Seq(1..Content) /\ queue' \in Seq(1..Content) /\ Numbered(got', queue')
         /\ want' \in BOOLEAN
         /\ r.err = "nil" => stream' = "readable"
         /\ r.err = "EOF" => stream' \in {"closing", "closed"}
         /\ r.err = "err" => stream' = "errored"
         /\ r.err # "err" =>
              Len(got') + Len(queue') = Len(got) + Len(queue) + (IF r.chunk # 0 THEN 1 ELSE 0)
<1> DEFINE full == IF r.chunk # 0 THEN Append(queue, r.chunk) ELSE queue
           served == want /\ full # <<>>
           rest == IF served THEN Tail(full) ELSE full
           taken == IF served THEN Append(got, Head(full)) ELSE got
<1>0. /\ Content \in Nat /\ got \in Seq(1..Content) /\ queue \in Seq(1..Content)
      /\ Len(got) \in Nat /\ Len(queue) \in Nat /\ r.chunk \in 0..Content
      /\ r.err \in {"nil", "EOF", "err"}
  BY ReaderAssumption, LenProperties DEF Types, ReadRec
<1>1. /\ panicked' = panicked
      /\ got' = taken
      /\ queue' = IF r.err = "err" THEN <<>> ELSE rest
      /\ want' = (want /\ ~served /\ r.err = "nil")
      /\ stream' = CASE r.err = "EOF" -> (IF rest = <<>> THEN "closed" ELSE "closing")
                     [] r.err = "err" /\ stream = "readable" -> "errored"
                     [] OTHER -> stream
  BY DEF Transfer
<1>2. /\ full \in Seq(1..Content) /\ Numbered(got, full)
      /\ Len(full) = Len(queue) + (IF r.chunk # 0 THEN 1 ELSE 0)
  <2>1. CASE r.chunk = 0
    BY <2>1, <1>0
  <2>2. CASE r.chunk # 0
    <3>1. r.chunk \in 1..Content /\ r.chunk = Len(got) + Len(queue) + 1
      BY <2>2, <1>0
    <3>2. /\ Append(queue, r.chunk) \in Seq(1..Content) /\ Len(Append(queue, r.chunk)) = Len(queue) + 1
          /\ Numbered(got, Append(queue, r.chunk))
      BY <3>1, <1>0, NumberedAppend
    <3> QED BY <3>2, <2>2
  <2> QED BY <2>1, <2>2
<1> HIDE DEF full
<1>3. /\ taken \in Seq(1..Content) /\ rest \in Seq(1..Content) /\ Numbered(taken, rest)
      /\ Len(taken) + Len(rest) = Len(got) + Len(full)
  <2>1. CASE served
    <3>1. taken = Append(got, Head(full)) /\ rest = Tail(full) /\ full # <<>>
      BY <2>1
    <3>2. /\ Append(got, Head(full)) \in Seq(1..Content) /\ Tail(full) \in Seq(1..Content)
          /\ Len(Append(got, Head(full))) + Len(Tail(full)) = Len(got) + Len(full)
          /\ Numbered(Append(got, Head(full)), Tail(full))
      BY <3>1, <1>0, <1>2, NumberedServe
    <3> HIDE DEF taken, rest, served
    <3> QED BY <3>1, <3>2, Zenon
  <2>2. CASE ~served
    BY <2>2, <1>0, <1>2
  <2> QED BY <2>1, <2>2
<1> HIDE DEF taken, rest, served
<1>4. want' \in BOOLEAN
  BY <1>1
<1>5. /\ r.err = "nil" => stream' = "readable"
      /\ r.err = "EOF" => stream' \in {"closing", "closed"}
      /\ r.err = "err" => stream' = "errored"
  BY <1>0, <1>1
<1>6. /\ got' \in Seq(1..Content) /\ queue' \in Seq(1..Content) /\ Numbered(got', queue')
      /\ r.err # "err" => Len(got') + Len(queue') = Len(got) + Len(full)
  <2>1. CASE r.err = "err"
    <3>1. got' = taken /\ queue' = <<>>
      BY <2>1, <1>1
    <3>2. <<>> \in Seq(1..Content) /\ Numbered(taken, <<>>)
      BY <1>3, NumberedDrop
    <3> QED BY <3>1, <3>2, <2>1, <1>3
  <2>2. CASE r.err # "err"
    <3>1. got' = taken /\ queue' = rest
      BY <2>2, <1>1
    <3> QED BY <3>1, <1>3
  <2> QED BY <2>1, <2>2
<1>7. Len(got) + Len(full) = Len(got) + Len(queue) + (IF r.chunk # 0 THEN 1 ELSE 0)
  <2>1. CASE r.chunk = 0
    BY <2>1, <1>0, <1>2
  <2>2. CASE r.chunk # 0
    <3>1. Len(full) = Len(queue) + 1
      BY <2>2, <1>2
    <3>2. Len(got) + (Len(queue) + 1) = Len(got) + Len(queue) + 1
      BY <1>0
    <3> QED BY <2>2, <3>1, <3>2
  <2> QED BY <2>1, <2>2
<1> QED BY <1>1, <1>4, <1>5, <1>6, <1>7, Zenon

\* deliver calls the hook and the controller, and resolves the pull.
LEMMA DeliverRestKeeps == ASSUME IInv, DeliverRest PROVE IInv'
<1>0. Types /\ ReadsInv /\ loop.job = "deliver" /\ Content \in Nat /\ ~panicked
  BY ReaderAssumption DEF IInv, DeliverRest
<1>1. /\ stream = "readable" /\ loop.settle /\ loop.read = Len(reads) /\ reads # <<>>
      /\ Last.at \in {"queued", "post"} /\ (settled <=> Last.err # "nil")
  BY <1>0 DEF IInv, LoopInv
<1>2. Flying /\ Len(reads) \in 1..Len(reads) /\ Last = reads[Len(reads)] /\ Last \in ReadRec
  BY <1>0, <1>1, LastFacts DEF Flying
<1>3. /\ SettledHook(Last) /\ Transfer(Last) /\ At(Len(reads), "done")
      /\ pulling' = (pulling /\ ~(loop.settle /\ ~panicked'))
      /\ loop' = Idle
      /\ UNCHANGED <<config, pos, settled, settle, closeOnce, hook, offSettled, sched, cancelled>>
  BY <1>1, <1>2 DEF DeliverRest, DeliverEnds
<1>4. /\ reads' \in Seq(ReadRec) /\ Len(reads') = Len(reads) /\ reads' # <<>>
      /\ Last' \in ReadRec /\ Last'.at = "done" /\ Last'.chunk = Last.chunk /\ Last'.err = Last.err
      /\ \A j \in 1..Len(reads') : reads'[j].at # "done" => j = Len(reads')
  BY <1>0, <1>1, <1>2, <1>3, ReadsAt
<1>5. /\ pos = Len(got) + Len(queue) + (IF Last.chunk # 0 THEN 1 ELSE 0)
      /\ Last.chunk \in {0, pos} /\ (Last.err = "EOF" => pos = Content)
      /\ Len(got) \in Nat /\ Len(queue) \in Nat
  BY <1>0, <1>2, LenProperties DEF IInv, CountInv, ReadsInv, Types
<1>6. /\ panicked' = panicked
      /\ got' \in Seq(1..Content) /\ queue' \in Seq(1..Content) /\ Numbered(got', queue')
      /\ want' \in BOOLEAN
      /\ Last.err = "nil" => stream' = "readable"
      /\ Last.err = "EOF" => stream' \in {"closing", "closed"}
      /\ Last.err = "err" => stream' = "errored"
      /\ Last.err # "err" =>
           Len(got') + Len(queue') = Len(got) + Len(queue) + (IF Last.chunk # 0 THEN 1 ELSE 0)
  <2>1. Last.chunk # 0 => Last.chunk = Len(got) + Len(queue) + 1
    BY <1>5
  <2>2. Numbered(got, queue)
    BY DEF IInv, OrderInv
  <2> QED BY <2>1, <2>2, <1>0, <1>1, <1>2, <1>3, TransferFacts
<1>7. Last.err \in {"nil", "EOF", "err"}
  BY <1>2 DEF ReadRec
<1>8. pulling' = FALSE /\ loop'.job = "idle" /\ loop'.read = 0
      /\ loop' \in [job : {"idle", "deliver", "error", "cancel"}, read : Nat, settle : BOOLEAN]
  BY <1>0, <1>1, <1>3, <1>6 DEF Idle
<1>9. onSettled' \in Nat /\ onSettled' = (IF Last.err # "nil" THEN onSettled + 1 ELSE onSettled)
  BY <1>0, <1>3 DEF SettledHook, Types
<1>10. Types'
  <2>1. stream' \in {"none", "readable", "closing", "closed", "errored"} /\ pulling' \in BOOLEAN
        /\ panicked' \in BOOLEAN
    BY <1>0, <1>6, <1>7, <1>8 DEF Types
  <2> QED BY <2>1, <1>0, <1>3, <1>4, <1>6, <1>8, <1>9 DEF Types, sched
<1>11. ReadsInv'
  <2>1. ~Flying' /\ Last.at # "read"
    BY <1>1, <1>4 DEF Flying
  <2>2. Len(reads) <= pos + MaxEmpty + (IF Last.err # "nil" THEN 1 ELSE 0)
    BY <2>1, <1>0 DEF ReadsInv
  <2>3. Len(reads') <= pos' + MaxEmpty + (IF Last'.at = "read" \/ Last'.err # "nil" THEN 1 ELSE 0)
    BY <2>2, <1>3, <1>4
  <2> QED BY <2>1, <2>3, <1>4 DEF ReadsInv
<1>12. TasksInv' /\ LoopInv'
  <2>1. tasks = <<>>
    BY <1>0 DEF IInv, TasksInv
  <2>2. Len(reads') \in Nat
    BY <1>2, <1>4
  <2> QED BY <2>1, <2>2, <1>3, <1>8 DEF TasksInv, LoopInv, sched
<1>13. PullInv'
  BY <1>1, <1>3, <1>4, <1>6, <1>8 DEF PullInv, Flying
<1>14. CountInv'
  <2> SUFFICES ASSUME ~settled' PROVE pos' = Len(got') + Len(queue') + 0
    BY <1>4, <1>8 DEF CountInv, Flying
  <2>1. Last.err = "nil"
    BY <1>1, <1>3
  <2>2. Len(got') + Len(queue') = pos /\ Len(got') \in Nat /\ Len(queue') \in Nat
    BY <2>1, <1>5, <1>6, LenProperties
  <2> QED BY <2>2, <1>3
<1>15. OrderInv'
  <2>1. stream' = "closing" \/ stream' = "closed" => Last.err = "EOF"
    BY <1>6, <1>7
  <2> QED BY <2>1, <1>5, <1>6 DEF OrderInv
<1>16. HookInv'
  <2>1. stream' # "none" /\ ~Settling' /\ Last'.at # "abandon"
    BY <1>4, <1>6, <1>7, <1>8 DEF Settling
  <2>2. (IF Settling THEN 1 ELSE 0) + 0 + onSettled + offSettled = IF settled THEN 1 ELSE 0
    BY <1>1 DEF IInv, HookInv
  <2>3. onSettled \in Nat /\ offSettled \in Nat /\ (Settling <=> Last.err # "nil")
    BY <1>0 DEF Types, Settling
  <2>4. 0 + 0 + onSettled' + offSettled = IF settled THEN 1 ELSE 0
    BY <2>2, <2>3, <1>9
  <2> QED BY <2>1, <2>4, <1>3 DEF HookInv
<1> QED BY <1>0, <1>6, <1>10, <1>11, <1>12, <1>13, <1>14, <1>15, <1>16 DEF IInv

\* Error marks the stream settled.
LEMMA ErrorKeeps == ASSUME IInv, Error PROVE IInv'
<1>0. Types /\ ReadsInv /\ loop.job = "idle"
  BY DEF IInv, Error, LoopFree, Idle
<1>1. /\ stream # "none" /\ ~settled /\ settled' = TRUE /\ settle' = FALSE
      /\ loop' = [job |-> "error", read |-> 0, settle |-> settle]
      /\ UNCHANGED <<config, reads, pos, closeOnce, hook, onSettled, offSettled, panicked, sched, js>>
  BY DEF Error, Job
<1>2. Last' = Last /\ stream = "readable"
  BY <1>1, LastKept DEF IInv, PullInv
<1>3. loop'.job = "error" /\ loop'.read = 0
      /\ loop' \in [job : {"idle", "deliver", "error", "cancel"}, read : Nat, settle : BOOLEAN]
  BY <1>0, <1>1 DEF Types
<1>4. Types'
  <2>1. UNCHANGED <<config, reads, pos, closeOnce, hook, onSettled, offSettled, panicked,
                    tasks, posted, open, stream, queue, want, pulling, got, cancelled>>
    BY <1>1 DEF sched, js
  <2>2. settled' \in BOOLEAN /\ settle' \in BOOLEAN
    BY <1>1
  <2> QED BY <1>0, <1>3, <2>1, <2>2 DEF Types
<1>5. ReadsInv' /\ TasksInv'
  BY <1>1, <1>2, <1>3 DEF IInv, ReadsInv, TasksInv, Flying, sched, js
<1>6. LoopInv'
  <2>1. Len(reads) \in Nat
    BY <1>0, LastFacts
  <2> QED BY <2>1, <1>1, <1>2, <1>3 DEF LoopInv, js
<1>7. PullInv' /\ CountInv'
  BY <1>1, <1>3 DEF PullInv, CountInv
<1>8. OrderInv'
  BY <1>1 DEF IInv, OrderInv, js
<1>9. HookInv'
  <2>1. Last.at # "abandon" /\ ~Settling
    BY <1>0, <1>1 DEF IInv, PullInv, Settling
  <2>2. 0 + 0 + onSettled + offSettled = 0 /\ onSettled \in Nat /\ offSettled \in Nat
    BY <2>1, <1>0, <1>1 DEF IInv, HookInv, Types
  <2>3. Settling'
    BY <1>3 DEF Settling
  <2>4. 1 + 0 + onSettled + offSettled = 1
    BY <2>2
  <2> QED BY <2>1, <2>3, <2>4, <1>1, <1>2 DEF HookInv, js
<1> QED BY <1>1, <1>4, <1>5, <1>6, <1>7, <1>8, <1>9 DEF IInv

\* Error calls the hook and the controller.
LEMMA ErrorRestKeeps == ASSUME IInv, ErrorRest PROVE IInv'
<1>0. Types /\ ReadsInv /\ loop.job = "error" /\ stream = "readable" /\ settled
  BY DEF IInv, ErrorRest, LoopInv, PullInv
<1>1. /\ closeOnce' = TRUE /\ onSettled' = onSettled + 1 /\ stream' = "errored"
      /\ queue' = <<>> /\ want' = FALSE /\ pulling' \in BOOLEAN /\ loop' = Idle
      /\ UNCHANGED <<config, reads, pos, settled, settle, hook, offSettled, panicked, sched, got, cancelled>>
  BY <1>0 DEF ErrorRest
<1>2. Last' = Last
  BY <1>1, LastKept
<1>3. loop'.job = "idle" /\ loop'.read = 0
      /\ loop' \in [job : {"idle", "deliver", "error", "cancel"}, read : Nat, settle : BOOLEAN]
  BY <1>1 DEF Idle
<1>4. Types'
  <2>1. closeOnce' \in BOOLEAN /\ want' \in BOOLEAN
    BY <1>1
  <2>2. queue' \in Seq(1..Content)
    BY <1>1
  <2>3. onSettled' \in Nat /\ stream' \in {"none", "readable", "closing", "closed", "errored"}
    BY <1>0, <1>1 DEF Types
  <2> QED BY <2>1, <2>2, <2>3, <1>0, <1>1, <1>3 DEF Types, sched
<1>5. ReadsInv' /\ TasksInv'
  BY <1>1, <1>2, <1>3 DEF IInv, ReadsInv, TasksInv, Flying, sched
<1>6. LoopInv'
  <2>1. Len(reads) \in Nat
    BY <1>0, LastFacts
  <2> QED BY <2>1, <1>1, <1>3 DEF LoopInv
<1>7. PullInv' /\ CountInv'
  BY <1>0, <1>1, <1>3 DEF PullInv, CountInv
<1>8. OrderInv'
  BY <1>1, NumberedDrop DEF IInv, OrderInv
<1>9. HookInv'
  <2>1. Settling /\ ~Settling'
    BY <1>0, <1>3 DEF Settling
  <2>2. 1 + (IF Last.at = "abandon" THEN 1 ELSE 0) + onSettled + offSettled = 1
        /\ onSettled \in Nat /\ offSettled \in Nat
    BY <2>1, <1>0 DEF IInv, HookInv, Types
  <2>3. 0 + (IF Last.at = "abandon" THEN 1 ELSE 0) + (onSettled + 1) + offSettled = 1
    BY <2>2
  <2> QED BY <2>1, <2>3, <1>0, <1>1, <1>2 DEF HookInv
<1> QED BY <1>1, <1>4, <1>5, <1>6, <1>7, <1>8, <1>9 DEF IInv

\* cancel marks the stream settled, unless somebody else has.
LEMMA CancelKeeps == ASSUME IInv, Cancel PROVE IInv'
<1>0. Types /\ ReadsInv /\ loop.job = "idle" /\ loop.read = 0 /\ stream # "none"
  BY DEF IInv, Cancel, CancelStream, LoopFree, Idle
<1>1. /\ stream' = "closed" /\ queue' = <<>> /\ want' = FALSE /\ cancelled' = TRUE /\ settled' = TRUE
      /\ UNCHANGED <<config, reads, pos, closeOnce, hook, onSettled, offSettled, panicked, sched, pulling, got>>
      /\ settled => UNCHANGED <<settle, loop>>
      /\ ~settled => settle' = FALSE /\ loop' = [job |-> "cancel", read |-> 0, settle |-> settle]
  <2>1. settled = TRUE \/ settled = FALSE
    BY <1>0 DEF Types
  <2> QED BY <2>1 DEF Cancel, CancelStream, Job
<1>2. Last' = Last
  BY <1>1, LastKept
<1>3. /\ settled => loop'.job = "idle"
      /\ ~settled => loop'.job = "cancel"
      /\ loop'.read = 0 /\ settle' \in BOOLEAN
      /\ loop' \in [job : {"idle", "deliver", "error", "cancel"}, read : Nat, settle : BOOLEAN]
  <2>1. CASE settled
    BY <2>1, <1>0, <1>1 DEF Types
  <2>2. CASE ~settled
    <3>1. settle \in BOOLEAN /\ settle' \in BOOLEAN
      BY <2>2, <1>0, <1>1 DEF Types
    <3>2. loop' = [job |-> "cancel", read |-> 0, settle |-> settle]
      BY <2>2, <1>1
    <3> QED BY <2>2, <3>1, <3>2
  <2> QED BY <2>1, <2>2
<1>4. Types'
  <2>1. settled' \in BOOLEAN /\ want' \in BOOLEAN /\ cancelled' \in BOOLEAN
    BY <1>1
  <2>2. queue' \in Seq(1..Content)
    BY <1>1
  <2>3. stream' \in {"none", "readable", "closing", "closed", "errored"}
    BY <1>1
  <2> QED BY <2>1, <2>2, <2>3, <1>0, <1>1, <1>3 DEF Types, sched
<1>5. ReadsInv' /\ TasksInv'
  BY <1>1, <1>2, <1>3 DEF IInv, ReadsInv, TasksInv, Flying, sched
<1>6. LoopInv'
  <2>1. Len(reads) \in Nat
    BY <1>0, LastFacts
  <2> QED BY <2>1, <1>1, <1>3 DEF LoopInv
<1>7. PullInv' /\ CountInv'
  BY <1>1, <1>3 DEF PullInv, CountInv
<1>8. OrderInv'
  BY <1>1, NumberedDrop DEF IInv, OrderInv
<1>9. HookInv'
  <2>0. ~Settling /\ onSettled \in Nat /\ offSettled \in Nat
    BY <1>0 DEF Settling, Types
  <2>1. 0 + (IF Last.at = "abandon" THEN 1 ELSE 0) + onSettled + offSettled = IF settled THEN 1 ELSE 0
    BY <2>0, <1>0 DEF IInv, HookInv
  <2>2. Settling' <=> ~settled
    BY <1>3 DEF Settling
  <2>3. (IF Settling' THEN 1 ELSE 0) + (IF Last.at = "abandon" THEN 1 ELSE 0) + onSettled + offSettled = 1
    BY <2>0, <2>1, <2>2
  <2> QED BY <2>3, <1>1, <1>2 DEF HookInv
<1> QED BY <1>1, <1>4, <1>5, <1>6, <1>7, <1>8, <1>9 DEF IInv

\* cancel calls the hooks.
LEMMA CancelRestKeeps == ASSUME IInv, CancelRest PROVE IInv'
<1>0. Types /\ ReadsInv /\ loop.job = "cancel" /\ stream # "none" /\ settled
  BY DEF IInv, CancelRest, HookInv, PullInv
<1>1. /\ closeOnce' \in BOOLEAN /\ hook' \in {"unused", "called", "closed"}
      /\ onSettled' = onSettled + 1 /\ pulling' \in BOOLEAN /\ loop' = Idle
      /\ UNCHANGED <<config, reads, pos, settled, settle, offSettled, panicked, sched,
                     stream, queue, want, got, cancelled>>
  BY <1>0 DEF CancelRest, Types
<1>2. Last' = Last
  BY <1>1, LastKept
<1>3. loop'.job = "idle" /\ loop'.read = 0
      /\ loop' \in [job : {"idle", "deliver", "error", "cancel"}, read : Nat, settle : BOOLEAN]
  BY <1>1 DEF Idle
<1>4. Types'
  BY <1>0, <1>1, <1>3 DEF Types, sched
<1>5. ReadsInv' /\ TasksInv'
  BY <1>1, <1>2, <1>3 DEF IInv, ReadsInv, TasksInv, Flying, sched
<1>6. LoopInv'
  <2>1. Len(reads) \in Nat
    BY <1>0, LastFacts
  <2> QED BY <2>1, <1>1, <1>3 DEF LoopInv
<1>7. PullInv' /\ CountInv'
  BY <1>0, <1>1, <1>3 DEF PullInv, CountInv
<1>8. OrderInv'
  BY <1>1 DEF IInv, OrderInv
<1>9. HookInv'
  <2>1. Settling /\ ~Settling'
    BY <1>0, <1>3 DEF Settling
  <2>2. 1 + (IF Last.at = "abandon" THEN 1 ELSE 0) + onSettled + offSettled = 1
        /\ onSettled \in Nat /\ offSettled \in Nat
    BY <2>1, <1>0 DEF IInv, HookInv, Types
  <2>3. 0 + (IF Last.at = "abandon" THEN 1 ELSE 0) + (onSettled + 1) + offSettled = 1
    BY <2>2
  <2> QED BY <2>1, <2>3, <1>0, <1>1, <1>2 DEF HookInv
<1> QED BY <1>1, <1>4, <1>5, <1>6, <1>7, <1>8, <1>9 DEF IInv

\* The consumer reads.
LEMMA ConsumerReadKeeps == ASSUME IInv, ConsumerRead PROVE IInv'
<1>0. /\ Types /\ ReadsInv /\ loop.job = "idle" /\ stream \in {"readable", "closing"}
      /\ got \in Seq(1..Content) /\ queue \in Seq(1..Content) /\ Numbered(got, queue)
      /\ Len(got) \in Nat /\ Len(queue) \in Nat
  BY LenProperties DEF IInv, ConsumerRead, LoopFree, Idle, Types, OrderInv
<1>1. UNCHANGED <<reads, pos, bridge, loop, panicked, sched, pulling, cancelled>> /\ Last' = Last
  BY LastKept DEF ConsumerRead
<1>2. /\ got' \in Seq(1..Content) /\ queue' \in Seq(1..Content) /\ Numbered(got', queue')
      /\ Len(got') + Len(queue') = Len(got) + Len(queue) /\ want' \in BOOLEAN
      /\ stream' = stream \/ (stream = "closing" /\ stream' = "closed")
  <2>1. CASE queue = <<>>
    BY <2>1, <1>0 DEF ConsumerRead
  <2>2. CASE queue # <<>>
    <3>1. got' = Append(got, Head(queue)) /\ queue' = Tail(queue) /\ want' = want
          /\ stream' = IF stream = "closing" /\ Len(queue) = 1 THEN "closed" ELSE stream
      BY <2>2 DEF ConsumerRead
    <3>2. want' \in BOOLEAN
      BY <3>1, <1>0 DEF Types
    <3>3. /\ Append(got, Head(queue)) \in Seq(1..Content) /\ Tail(queue) \in Seq(1..Content)
          /\ Len(Append(got, Head(queue))) + Len(Tail(queue)) = Len(got) + Len(queue)
          /\ Numbered(Append(got, Head(queue)), Tail(queue))
      BY <2>2, <1>0, NumberedServe
    <3>4. stream' = stream \/ (stream = "closing" /\ stream' = "closed")
      BY <3>1
    <3> QED BY <3>1, <3>2, <3>3, <3>4, Zenon
  <2> QED BY <2>1, <2>2
<1>3. Types'
  <2>1. stream' \in {"none", "readable", "closing", "closed", "errored"}
    BY <1>0, <1>2
  <2> QED BY <2>1, <1>0, <1>1, <1>2 DEF Types, bridge, sched
<1>4. ReadsInv' /\ TasksInv' /\ LoopInv'
  BY <1>0, <1>1, <1>2 DEF IInv, ReadsInv, TasksInv, LoopInv, Flying, bridge, sched
<1>5. PullInv' /\ CountInv'
  BY <1>0, <1>1, <1>2 DEF IInv, PullInv, CountInv, Flying, bridge
<1>6. OrderInv'
  BY <1>0, <1>1, <1>2 DEF IInv, OrderInv
<1>7. HookInv'
  BY <1>0, <1>1, <1>2 DEF IInv, HookInv, Settling, bridge
<1> QED BY <1>1, <1>3, <1>4, <1>5, <1>6, <1>7 DEF IInv

\* The hook closes the reader, or the scheduler closes or opens.
LEMMA OutsideKeeps ==
  ASSUME IInv, HookCloses \/ SchedulerChanges \/ UNCHANGED vars
  PROVE  IInv'
<1>1. /\ hook' \in {"unused", "called", "closed"} /\ open' \in BOOLEAN
      /\ UNCHANGED <<config, reads, pos, settled, settle, closeOnce, onSettled, offSettled, loop, panicked,
                     tasks, posted, js>>
  <2>1. CASE HookCloses
    BY <2>1 DEF HookCloses, sched, IInv, Types
  <2>2. CASE SchedulerChanges
    BY <2>2 DEF SchedulerChanges, Sched!Close, Sched!Reopen, bridge, IInv, Types
  <2>3. CASE UNCHANGED vars
    BY <2>3 DEF vars, bridge, sched, IInv, Types
  <2> QED BY <2>1, <2>2, <2>3
<1>2. Last' = Last
  BY <1>1, LastKept
<1>3. Types'
  BY <1>1 DEF IInv, Types, js
<1>4. ReadsInv' /\ TasksInv' /\ LoopInv'
  BY <1>1, <1>2 DEF IInv, ReadsInv, TasksInv, LoopInv, Flying, js
<1>5. PullInv' /\ CountInv' /\ OrderInv'
  BY <1>1, <1>2 DEF IInv, PullInv, CountInv, OrderInv, Flying, js
<1>6. HookInv'
  BY <1>1, <1>2 DEF IInv, HookInv, Settling, js
<1> QED BY <1>1, <1>3, <1>4, <1>5, <1>6 DEF IInv

\* Every step keeps the invariant.
LEMMA NextIInv == IInv /\ [Next]_vars => IInv'
<1> SUFFICES ASSUME IInv, [Next]_vars PROVE IInv'
  OBVIOUS
<1>1. ASSUME LoopStep PROVE IInv'
  BY <1>1, DeliverKeeps, DeliverRestKeeps, ErrorRestKeeps, CancelRestKeeps, PullKeeps DEF LoopStep
<1>2. ASSUME NEW i \in ReadIds, ReadStep(i) PROVE IInv'
  BY <1>2, ReadKeeps, CloseForReadKeeps, PostKeeps, AbandonKeeps, AbandonRestKeeps DEF ReadStep
<1> QED BY <1>1, <1>2, ConstructKeeps, ConstructFailsKeeps, ErrorKeeps, CancelKeeps,
           ConsumerReadKeeps, OutsideKeeps DEF Next

-----------------------------------------------------------------------------
\* The inductive invariant: one readOnce at a time, and an account of every chunk and
\* of who settled the stream.
THEOREM Inductive == Spec => []IInv
BY InitIInv, NextIInv, PTL DEF Spec

\* The types of all variables, and their bounds: at most MaxReads reads are made.
THEOREM StreamTypes == Spec => []TypeOK
<1>1. IInv => TypeOK
  <2> SUFFICES ASSUME IInv PROVE TypeOK
    OBVIOUS
  <2>0. Types /\ ReadsInv /\ Content \in Nat /\ MaxEmpty \in Nat
    BY ReaderAssumption DEF IInv
  <2>1. Len(reads) \in Nat /\ Len(reads) <= MaxReads
    <3>1. Len(reads) \in Nat /\ Len(reads) <= pos + MaxEmpty + 1 /\ pos \in 0..Content
      BY <2>0, LastFacts DEF ReadsInv, Types
    <3> QED BY <3>1, <2>0 DEF MaxReads
  <2>2. loop \in [job : {"idle", "deliver", "error", "cancel"}, read : 0..MaxReads, settle : BOOLEAN]
    <3>1. loop.read \in Nat /\ loop.read <= Len(reads)
      BY <2>0 DEF IInv, LoopInv, Types
    <3>2. MaxReads \in Nat
      BY <2>0 DEF MaxReads
    <3> QED BY <3>1, <3>2, <2>0, <2>1 DEF Types
  <2>3. onSettled \in 0..1 /\ offSettled \in 0..1
    BY <2>0 DEF IInv, HookInv, Types
  <2> QED BY <2>0, <2>1, <2>2, <2>3 DEF TypeOK, Types, ReadRec
<1> QED BY <1>1, Inductive, PTL

\* callStreamController never panics: no result reaches a stream that is not readable.
THEOREM ControllerLegal == Spec => []ControllerCallsLegal
<1>1. IInv => ControllerCallsLegal
  BY DEF IInv, ControllerCallsLegal
<1> QED BY <1>1, Inductive, PTL

\* The bytes arrive in order and without a gap, all of them before an end of stream.
THEOREM BytesInOrder == Spec => []InOrder
<1>1. IInv => InOrder
  <2> SUFFICES ASSUME IInv PROVE InOrder
    OBVIOUS
  <2>1. got \in Seq(1..Content) /\ queue \in Seq(1..Content) /\ Numbered(got, queue)
    BY DEF IInv, Types, OrderInv
  <2>2. Len(got \o queue) = Len(got) + Len(queue) /\ got \o queue = Count(Len(got \o queue))
    BY <2>1, NumberedCount
  <2>3. stream = "closing" \/ (stream = "closed" /\ ~cancelled) => Len(got) + Len(queue) = Content
    BY DEF IInv, OrderInv
  <2> QED BY <2>2, <2>3 DEF InOrder
<1> QED BY <1>1, Inductive, PTL

\* The settle hooks run at most once, and for a settled stream.
THEOREM OneHook == Spec => []HooksOnce
<1>1. IInv => HooksOnce
  <2> SUFFICES ASSUME IInv PROVE HooksOnce
    OBVIOUS
  <2>1. onSettled \in Nat /\ offSettled \in Nat
    BY DEF IInv, Types
  <2> QED BY <2>1 DEF IInv, HookInv, HooksOnce
<1> QED BY <1>1, Inductive, PTL
=============================================================================
