--------------------------- MODULE EventLoopProofs ---------------------------
(***************************************************************************)
(* Proofs about EventLoop, for any sets of timers, intervals, immediates   *)
(* and tasks: the job table stays indexed and jobCount stays exact; no     *)
(* wakeup is lost; a counted job can end, and Terminate leaves nothing     *)
(* behind; the loop implements Scheduler.                                  *)
(***************************************************************************)
EXTENDS EventLoop, FiniteSetTheorems, SequenceTheorems, TLAPS

\* The strengthening.  Where the goroutine that owns the runtime is, against the
\* lifecycle state; the rest of a batch exists only while runAux iterates.
ExecInv ==
  /\ running \/ pc = "off" \/ ctl = "termAux"
  /\ ctl = "termAux" => ~running /\ caller = "terminate" /\ pc \in {"swap", "aux", "cb"}
  /\ caller = "terminate" => ctl = "termAux"
  /\ pc \in {"fn", "off"} => caller = "startup"
  /\ pc \notin {"aux", "cb"} => batch = <<>>

\* The entries a queue may hold: an entry about a job that is already scheduled,
\* except a start, which is queued once and before the job exists.
EntryOK(e) ==
  /\ e.op \in {"timeout", "interval", "remove", "immediate"} => e.id \in started
  /\ e.op = "start" => e.id \notin started /\ e \in asked
  /\ e.op \in {"start", "clear"} => e.id \in GoHandles

Holds(s, e) == \E k \in 1..Len(s) : s[k] = e

EntriesInv ==
  /\ \A k \in 1..Len(aux) : EntryOK(aux[k])
  /\ \A k \in 1..Len(batch) : EntryOK(batch[k])

StartsOnce ==
  /\ \A k, m \in 1..Len(aux) : aux[k].op = "start" /\ aux[k] = aux[m] => k = m
  /\ \A k, m \in 1..Len(batch) : batch[k].op = "start" /\ batch[k] = batch[m] => k = m
  /\ \A k \in 1..Len(batch), m \in 1..Len(aux) : batch[k].op = "start" => batch[k] # aux[m]

\* A clear is queued behind the start of its job.
StartBeforeClear ==
  /\ \A j \in GoHandles : E_("start", j) \in asked =>
       j \in started \/ Holds(batch, E_("start", j)) \/ Holds(aux, E_("start", j))
  /\ \A k \in 1..Len(batch) : batch[k].op = "clear" =>
       \/ batch[k].id \in started
       \/ \E m \in 1..(k-1) : batch[m] = E_("start", batch[k].id)
  /\ \A k \in 1..Len(aux) : aux[k].op = "clear" =>
       \/ aux[k].id \in started
       \/ Holds(batch, E_("start", aux[k].id))
       \/ \E m \in 1..(k-1) : aux[m] = E_("start", aux[k].id)

JobsInv ==
  /\ \A j \in Jobs : idx[j] # 0 => j \in started \ Immediates
  /\ cancelled \subseteq started /\ \A j \in Jobs : j \notin started => j \in refed
  /\ \A t \in Timeouts : timer[t] # "none" => t \in started
  /\ \A i \in Intervals : worker[i] # "none" => i \in started
  /\ \A j \in GoHandles \cap started : E_("start", j) \in asked

QueueInv == EntriesInv /\ StartsOnce /\ StartBeforeClear

IInv == TypeOK /\ JobsIndexed /\ JobsInv /\ ExecInv /\ QueueInv /\ JobCountExact

-----------------------------------------------------------------------------
(* The job table.                                                          *)

\* StartJob puts a job that is not in the table at its end.
LEMMA StartJobTable ==
  ASSUME jobs \in Seq(Jobs), idx \in [Jobs -> Nat], JobsIndexed,
         NEW j \in Jobs, idx[j] = 0,
         jobs' = Append(jobs, j), idx' = [idx EXCEPT ![j] = Len(jobs) + 1]
  PROVE  /\ jobs' \in Seq(Jobs) /\ idx' \in [Jobs -> Nat] /\ JobsIndexed'
         /\ \A i \in Jobs : idx'[i] # 0 => i = j \/ idx[i] # 0
<1>1. Len(jobs) \in Nat /\ Len(jobs') = Len(jobs) + 1
  OBVIOUS
<1>2. \A k \in 1..Len(jobs) : jobs'[k] = jobs[k] /\ jobs[k] \in Jobs /\ jobs[k] # j
  BY <1>1 DEF JobsIndexed
<1>3. jobs'[Len(jobs) + 1] = j
  BY <1>1
<1>4. QED
  BY <1>1, <1>2, <1>3 DEF JobsIndexed

\* removeJob takes out the job it is given and no other.
LEMMA RemoveJobTable ==
  ASSUME jobs \in Seq(Jobs), idx \in [Jobs -> Nat], JobsIndexed,
         NEW j \in Jobs, RemoveJob(j)
  PROVE  /\ jobs' \in Seq(Jobs) /\ idx' \in [Jobs -> Nat] /\ JobsIndexed'
         /\ \A i \in Jobs : idx'[i] # 0 => idx[i] # 0
<1>1. CASE idx[j] = 0
  BY <1>1 DEF RemoveJob, JobsIndexed
<1>2. CASE idx[j] # 0
  <2> DEFINE hole == idx[j]
             n == Len(jobs)
             last == jobs[n]
             s == [jobs EXCEPT ![hole] = last]
  <2>1. n \in Nat /\ hole \in 1..n /\ n >= 1 /\ jobs[hole] = j
    BY <1>2 DEF JobsIndexed
  <2>2. last \in Jobs /\ idx[last] = n
    BY <2>1 DEF JobsIndexed
  <2>3. s \in Seq(Jobs) /\ Len(s) = n
    BY <2>1, <2>2
  <2>4. jobs' = SubSeq(s, 1, n - 1) /\ idx' = [idx EXCEPT ![last] = hole, ![j] = 0]
    BY <1>2 DEF RemoveJob
  <2>5. Len(jobs') = n - 1 /\ jobs' \in Seq(Jobs)
    BY <2>1, <2>3, <2>4
  <2>6. \A k \in 1..(n-1) : jobs'[k] = IF k = hole THEN last ELSE jobs[k]
    BY <2>1, <2>3, <2>4
  <2>7. idx' \in [Jobs -> Nat]
    BY <2>1, <2>2, <2>4
  <2>8. \A i \in Jobs : idx'[i] = IF i = j THEN 0 ELSE IF i = last THEN hole ELSE idx[i]
    BY <2>2, <2>4
  <2>9. \A i \in Jobs : idx'[i] # 0 => idx[i] # 0
    BY <2>1, <2>2, <2>8
  <2>10. ASSUME NEW i \in Jobs, idx'[i] # 0
         PROVE  idx'[i] \in 1..(n-1) /\ jobs'[idx'[i]] = i
    BY <2>1, <2>2, <2>6, <2>8, <2>10 DEF JobsIndexed
  <2>11. ASSUME NEW k \in 1..(n-1)
         PROVE  idx'[jobs'[k]] = k
    <3>1. CASE k = hole
      BY <2>1, <2>2, <2>6, <2>8, <3>1
    <3>2. CASE k # hole
      <4>1. k \in 1..n /\ jobs'[k] = jobs[k]
        BY <2>1, <2>6, <3>2
      <4>2. jobs[k] \in Jobs /\ idx[jobs[k]] = k
        BY <4>1 DEF JobsIndexed
      <4>3. jobs[k] # j /\ jobs[k] # last
        BY <2>1, <2>2, <3>2, <4>2
      <4> QED BY <2>8, <4>1, <4>2, <4>3
    <3> QED BY <3>1, <3>2
  <2>12. QED
    BY <2>5, <2>7, <2>9, <2>10, <2>11 DEF JobsIndexed
<1>3. QED
  BY <1>1, <1>2

-----------------------------------------------------------------------------
(* The queue.                                                              *)

\* The elements of the sequences the queue steps build.
LEMMA SeqFacts ==
  ASSUME NEW S, NEW s \in Seq(S), NEW e \in S
  PROVE  /\ Len(s) \in Nat
         /\ \A k \in 1..Len(s) : s[k] \in S
         /\ Append(s, e) \in Seq(S) /\ Len(Append(s, e)) = Len(s) + 1
         /\ \A k \in 1..Len(s) : Append(s, e)[k] = s[k]
         /\ Append(s, e)[Len(s) + 1] = e
         /\ s # <<>> => /\ Tail(s) \in Seq(S) /\ Len(Tail(s)) = Len(s) - 1 /\ Len(s) >= 1
                       /\ \A k \in 1..(Len(s) - 1) : Tail(s)[k] = s[k+1]
                       /\ Head(s) = s[1]
OBVIOUS

\* Steps that leave the queue alone, or append an entry that is not a start.
LEMMA QueueAppend ==
  ASSUME TypeOK, QueueInv, NEW e \in Entry,
         e.op # "start", EntryOK(e)',
         e.op = "clear" => E_("start", e.id) \in asked,
         aux' = aux \/ aux' = Append(aux, e), batch' = batch,
         started \subseteq started', started' \cap GoHandles \subseteq started,
         asked \subseteq asked', \A j \in GoHandles : E_("start", j) \in asked' => E_("start", j) \in asked
  PROVE  QueueInv'
<1>0. /\ aux \in Seq(Entry) /\ batch \in Seq(Entry)
  BY DEF TypeOK
<1>1. /\ Len(aux) \in Nat /\ Len(aux') \in {Len(aux), Len(aux) + 1}
      /\ \A k \in 1..Len(aux) : aux'[k] = aux[k] /\ aux[k] \in Entry
      /\ \A k \in 1..Len(batch) : batch[k] \in Entry
      /\ \A k \in 1..Len(aux') : k \notin 1..Len(aux) => k = Len(aux) + 1 /\ aux'[k] = e
  BY <1>0, SeqFacts
<1>2. \A d \in Entry : EntryOK(d) => EntryOK(d)'
  BY DEF EntryOK, Entry
<1>3. EntriesInv'
  BY <1>1, <1>2 DEF QueueInv, EntriesInv
<1>4. StartsOnce'
  <2>1. \A k \in 1..Len(aux') : aux'[k].op = "start" => k \in 1..Len(aux) /\ aux'[k] = aux[k]
    BY <1>1
  <2>2. StartsOnce
    BY DEF QueueInv
  <2> QED
    BY <2>1, <2>2 DEF StartsOnce
<1>5. \A d : Holds(aux, d) => Holds(aux', d)
  BY <1>1 DEF Holds
<1>6. StartBeforeClear'
  <2>1. ASSUME NEW j \in GoHandles, E_("start", j) \in asked'
        PROVE  j \in started' \/ Holds(batch', E_("start", j)) \/ Holds(aux', E_("start", j))
    BY <2>1, <1>5 DEF QueueInv, StartBeforeClear
  <2>2. ASSUME NEW k \in 1..Len(batch'), batch'[k].op = "clear"
        PROVE  batch'[k].id \in started' \/ \E m \in 1..(k-1) : batch'[m] = E_("start", batch'[k].id)
    BY <2>2 DEF QueueInv, StartBeforeClear
  <2>3. ASSUME NEW k \in 1..Len(aux'), aux'[k].op = "clear"
        PROVE  \/ aux'[k].id \in started' \/ Holds(batch', E_("start", aux'[k].id))
               \/ \E m \in 1..(k-1) : aux'[m] = E_("start", aux'[k].id)
    <3>1. CASE k \in 1..Len(aux)
      <4>1. \/ aux[k].id \in started \/ Holds(batch, E_("start", aux[k].id))
            \/ \E m \in 1..(k-1) : aux[m] = E_("start", aux[k].id)
        BY <2>3, <3>1, <1>1 DEF QueueInv, StartBeforeClear
      <4>2. \A m \in 1..(k-1) : aux'[m] = aux[m]
        BY <3>1, <1>1
      <4>3. QED
        BY <4>1, <4>2, <3>1, <1>1
    <3>2. CASE k \notin 1..Len(aux)
      <4>1. k = Len(aux) + 1 /\ aux'[k] = e /\ e.op = "clear"
        BY <3>2, <2>3, <1>1
      <4>2. e.id \in GoHandles /\ E_("start", e.id) \in asked
        BY <4>1 DEF EntryOK
      <4>3. e.id \in started \/ Holds(batch, E_("start", e.id)) \/ Holds(aux, E_("start", e.id))
        BY <4>2 DEF QueueInv, StartBeforeClear
      <4>4. Holds(aux, E_("start", e.id)) => \E m \in 1..(k-1) : aux'[m] = E_("start", e.id)
        BY <4>1, <1>1 DEF Holds
      <4>5. QED
        BY <4>1, <4>3, <4>4
    <3>3. QED
      BY <3>1, <3>2
  <2>4. QED
    BY <2>1, <2>2, <2>3 DEF StartBeforeClear
<1>7. QED
  BY <1>3, <1>4, <1>6 DEF QueueInv

\* SetTimeout and SetInterval of the Go API queue the start of a new job.
LEMMA QueueStart ==
  ASSUME TypeOK, JobsInv, QueueInv, NEW j \in GoHandles, GoHandles \subseteq Jobs,
         GoSchedule(j)
  PROVE  QueueInv'
<1> DEFINE e == E_("start", j)
<1>0. /\ aux \in Seq(Entry) /\ batch \in Seq(Entry) /\ e \in Entry
      /\ e.op = "start" /\ e.id = j /\ e \notin asked
      /\ aux' = Append(aux, e) /\ batch' = batch /\ started' = started /\ asked' = asked \cup {e}
  BY DEF TypeOK, GoSchedule, AddAuxJob, E_, Entry, execVars, tableVars
<1>1. /\ Len(aux) \in Nat /\ Len(aux') = Len(aux) + 1 /\ aux'[Len(aux) + 1] = e
      /\ \A k \in 1..Len(aux) : aux'[k] = aux[k] /\ aux[k] \in Entry
      /\ \A k \in 1..Len(batch) : batch[k] \in Entry
  BY <1>0, SeqFacts
<1>2. j \notin started
  BY <1>0 DEF JobsInv
<1>3. /\ \A k \in 1..Len(aux) : aux[k] # e
      /\ \A k \in 1..Len(batch) : batch[k] # e
  BY <1>0 DEF QueueInv, EntriesInv, EntryOK
<1>4. EntryOK(e)' /\ \A d \in Entry : EntryOK(d) => EntryOK(d)'
  BY <1>0, <1>2 DEF EntryOK
<1>5. EntriesInv'
  BY <1>0, <1>1, <1>4 DEF QueueInv, EntriesInv
<1>6. StartsOnce'
  BY <1>0, <1>1, <1>3 DEF QueueInv, StartsOnce
<1>7. StartBeforeClear'
  <2>1. ASSUME NEW i \in GoHandles, E_("start", i) \in asked'
        PROVE  i \in started' \/ Holds(batch', E_("start", i)) \/ Holds(aux', E_("start", i))
    <3>1. CASE E_("start", i) \in asked
      BY <3>1, <1>0, <1>1 DEF QueueInv, StartBeforeClear, Holds
    <3>2. CASE E_("start", i) = e
      BY <3>2, <1>1 DEF Holds
    <3>3. QED
      BY <3>1, <3>2, <2>1, <1>0
  <2>2. ASSUME NEW k \in 1..Len(batch'), batch'[k].op = "clear"
        PROVE  batch'[k].id \in started' \/ \E m \in 1..(k-1) : batch'[m] = E_("start", batch'[k].id)
    BY <2>2, <1>0 DEF QueueInv, StartBeforeClear
  <2>3. ASSUME NEW k \in 1..Len(aux'), aux'[k].op = "clear"
        PROVE  \/ aux'[k].id \in started' \/ Holds(batch', E_("start", aux'[k].id))
               \/ \E m \in 1..(k-1) : aux'[m] = E_("start", aux'[k].id)
    <3>1. k \in 1..Len(aux) /\ aux'[k] = aux[k] /\ \A m \in 1..(k-1) : aux'[m] = aux[m]
      BY <2>3, <1>0, <1>1
    <3>2. \/ aux[k].id \in started \/ Holds(batch, E_("start", aux[k].id))
          \/ \E m \in 1..(k-1) : aux[m] = E_("start", aux[k].id)
      BY <2>3, <3>1 DEF QueueInv, StartBeforeClear
    <3>3. QED
      BY <3>1, <3>2, <1>0
  <2>4. QED
    BY <2>1, <2>2, <2>3 DEF StartBeforeClear
<1>8. QED
  BY <1>5, <1>6, <1>7 DEF QueueInv

\* runAux takes the queue when the previous batch is used up.
LEMMA QueueSwap ==
  ASSUME TypeOK, QueueInv, batch = <<>>, batch' = aux, aux' = <<>>, UNCHANGED <<started, asked>>
  PROVE  QueueInv'
<1>1. Len(batch) = 0 /\ Len(aux') = 0 /\ \A d : ~Holds(batch, d)
  BY DEF Holds
<1>2. \A d : EntryOK(d)' = EntryOK(d)
  BY DEF EntryOK
<1>3. EntriesInv'
  BY <1>1, <1>2 DEF QueueInv, EntriesInv
<1>4. StartsOnce'
  BY <1>1 DEF QueueInv, StartsOnce
<1>5. StartBeforeClear'
  BY <1>1 DEF QueueInv, StartBeforeClear
<1>6. QED
  BY <1>3, <1>4, <1>5 DEF QueueInv

\* runAux takes the next entry; if it is a start, the job is scheduled.
LEMMA QueueTake ==
  ASSUME TypeOK, QueueInv, NEW e \in Entry,
         batch # <<>>, Head(batch) = e, batch' = Tail(batch), UNCHANGED <<aux, asked>>,
         started' = IF e.op = "start" THEN started \cup {e.id} ELSE started
  PROVE  QueueInv'
<1>0. /\ aux \in Seq(Entry) /\ batch \in Seq(Entry)
  BY DEF TypeOK
<1>1. /\ Len(aux) \in Nat /\ Len(batch) \in Nat /\ Len(batch) >= 1 /\ Len(batch') = Len(batch) - 1
      /\ batch[1] = e
      /\ \A k \in 1..Len(batch') : batch'[k] = batch[k+1] /\ k + 1 \in 1..Len(batch)
      /\ \A k \in 1..Len(batch) : batch[k] \in Entry
      /\ \A k \in 1..Len(aux) : aux[k] \in Entry
  BY <1>0, SeqFacts
<1>2. \A d \in Entry : EntryOK(d) /\ (d.op = "start" => d # e) => EntryOK(d)'
  BY DEF EntryOK, Entry
<1>3. /\ \A k \in 1..Len(batch') : batch'[k].op = "start" => batch'[k] # e
      /\ \A k \in 1..Len(aux) : aux[k].op = "start" => aux[k] # e
  BY <1>1 DEF QueueInv, StartsOnce
<1>4. EntriesInv'
  BY <1>1, <1>2, <1>3 DEF QueueInv, EntriesInv
<1>5. StartsOnce'
  BY <1>1 DEF QueueInv, StartsOnce
<1>6. \A i \in GoHandles : Holds(batch, E_("start", i)) => i \in started' \/ Holds(batch', E_("start", i))
  <2>1. SUFFICES ASSUME NEW i \in GoHandles, NEW k \in 1..Len(batch), batch[k] = E_("start", i)
                 PROVE  i \in started' \/ Holds(batch', E_("start", i))
    BY DEF Holds
  <2>2. CASE k = 1
    BY <2>1, <2>2, <1>1 DEF E_
  <2>3. CASE k # 1
    <3>1. k - 1 \in 1..Len(batch') /\ batch'[k-1] = batch[k]
      BY <2>3, <1>1
    <3>2. QED
      BY <3>1, <2>1 DEF Holds
  <2>4. QED
    BY <2>2, <2>3
<1>7. StartBeforeClear'
  <2>1. ASSUME NEW i \in GoHandles, E_("start", i) \in asked'
        PROVE  i \in started' \/ Holds(batch', E_("start", i)) \/ Holds(aux', E_("start", i))
    BY <2>1, <1>6 DEF QueueInv, StartBeforeClear
  <2>2. ASSUME NEW k \in 1..Len(batch'), batch'[k].op = "clear"
        PROVE  batch'[k].id \in started' \/ \E m \in 1..(k-1) : batch'[m] = E_("start", batch'[k].id)
    <3>1. k + 1 \in 1..Len(batch) /\ batch'[k] = batch[k+1]
      BY <1>1
    <3>2. CASE batch[k+1].id \in started
      BY <3>1, <3>2
    <3>3. ASSUME NEW m \in 1..k, batch[m] = E_("start", batch[k+1].id)
          PROVE  batch'[k].id \in started' \/ \E n \in 1..(k-1) : batch'[n] = E_("start", batch'[k].id)
      <4>1. CASE m = 1
        BY <4>1, <3>1, <3>3, <1>1 DEF E_
      <4>2. CASE m # 1
        <5>1. m - 1 \in 1..(k-1) /\ m - 1 \in 1..Len(batch') /\ batch'[m-1] = batch[m]
          BY <4>2, <3>1, <1>1
        <5>2. QED
          BY <5>1, <3>1, <3>3
      <4>3. QED
        BY <4>1, <4>2
    <3>4. QED
      BY <3>1, <3>2, <3>3, <2>2 DEF QueueInv, StartBeforeClear
  <2>3. ASSUME NEW k \in 1..Len(aux'), aux'[k].op = "clear"
        PROVE  \/ aux'[k].id \in started' \/ Holds(batch', E_("start", aux'[k].id))
               \/ \E m \in 1..(k-1) : aux'[m] = E_("start", aux'[k].id)
    <3>1. aux[k].id \in GoHandles
      BY <2>3, <1>1 DEF QueueInv, EntriesInv, EntryOK
    <3>2. QED
      BY <2>3, <3>1, <1>6 DEF QueueInv, StartBeforeClear
  <2>4. QED
    BY <2>1, <2>2, <2>3 DEF StartBeforeClear
<1>8. QED
  BY <1>4, <1>5, <1>7 DEF QueueInv

-----------------------------------------------------------------------------
(* Types and the table, one step per action.                               *)

TableInv == TypeOK /\ JobsIndexed /\ JobsInv

\* What every proof below uses of the constants.
LEMMA Constants ==
  /\ Timeouts \subseteq Jobs /\ Intervals \subseteq Jobs /\ Immediates \subseteq Jobs
  /\ GoHandles \subseteq Jobs /\ GoHandles \cap Immediates = {}
  /\ \A j \in Jobs : j \notin Timeouts /\ j \notin Immediates => j \in Intervals
  /\ \A i \in Intervals : i \notin Timeouts
  /\ \A m \in Immediates : m \notin Timeouts /\ m \notin Intervals
  /\ Requires \subseteq Tasks
BY JobsAssumption, ParamAssumption DEF Jobs

\* Every entry has an operation and the timer or the task it is about.
LEMMA EntryFacts ==
  ASSUME NEW op \in {"timeout", "start", "clear", "interval", "remove", "immediate", "task"},
         NEW id \in Jobs \cup Tasks
  PROVE  E_(op, id) \in Entry /\ E_(op, id).op = op /\ E_(op, id).id = id
BY DEF E_, Entry

\* Scheduling a job.
LEMMA StartJobStep ==
  ASSUME TableInv, NEW j \in Timeouts \cup Intervals, j \notin started, StartJob(j)
  PROVE  /\ jobCount' \in Int /\ jobs' \in Seq(Jobs) /\ idx' \in [Jobs -> Nat]
         /\ started' \subseteq Jobs /\ cancelled' \subseteq Jobs /\ refed' \subseteq Jobs
         /\ timer' \in [Timeouts -> {"none", "armed", "fired", "done"}]
         /\ worker' \in [Intervals -> {"none", "run", "exit", "done"}]
         /\ stopChan' \subseteq Intervals
         /\ JobsIndexed'
         /\ (\A i \in GoHandles \cap started' : E_("start", i) \in asked') => JobsInv'
<1>1. idx[j] = 0 /\ j \in Jobs
  BY Constants DEF TableInv, TypeOK, JobsInv
<1>2. /\ jobs' \in Seq(Jobs) /\ idx' \in [Jobs -> Nat] /\ JobsIndexed'
      /\ \A i \in Jobs : idx'[i] # 0 => i = j \/ idx[i] # 0
  BY <1>1, StartJobTable DEF TableInv, TypeOK, StartJob
<1>3. /\ timer' \in [Timeouts -> {"none", "armed", "fired", "done"}]
      /\ worker' \in [Intervals -> {"none", "run", "exit", "done"}]
      /\ \A t \in Timeouts : timer'[t] # "none" => t = j \/ timer[t] # "none"
      /\ \A i \in Intervals : worker'[i] # "none" => i = j \/ worker[i] # "none"
  BY DEF TableInv, TypeOK, StartJob
<1>4. QED
  BY <1>1, <1>2, <1>3, Constants DEF TableInv, TypeOK, StartJob, JobsInv

\* Clearing a job through its handle.
LEMMA ClearJobStep ==
  ASSUME TableInv, NEW j \in Timeouts \cup Intervals, j \in started, ClearJob(j)
  PROVE  /\ jobCount' \in Int /\ jobs' \in Seq(Jobs) /\ idx' \in [Jobs -> Nat]
         /\ started' = started /\ refed' = refed /\ cancelled' = cancelled \cup {j}
         /\ jobCount' = IF j \in cancelled \/ j \notin refed THEN jobCount ELSE jobCount - 1
         /\ timer' \in [Timeouts -> {"none", "armed", "fired", "done"}]
         /\ worker' \in [Intervals -> {"none", "run", "exit", "done"}]
         /\ stopChan' \subseteq Intervals
         /\ JobsIndexed'
         /\ asked' = asked => JobsInv'
<1>0. j \in Jobs
  BY Constants
<1>1. CASE j \in cancelled
  BY <1>1 DEF TableInv, TypeOK, ClearJob, ClearTimeout, ClearInterval, tableVars, timerVars, JobsInv, JobsIndexed
<1>2. CASE j \notin cancelled
  <2>1. RemoveJob(j) \/ UNCHANGED <<jobs, idx>>
    BY <1>2 DEF ClearJob, ClearTimeout, ClearInterval
  <2>2. /\ jobs' \in Seq(Jobs) /\ idx' \in [Jobs -> Nat] /\ JobsIndexed'
        /\ \A i \in Jobs : idx'[i] # 0 => idx[i] # 0
    <3>1. CASE RemoveJob(j)
      BY <3>1, <1>0, RemoveJobTable DEF TableInv, TypeOK
    <3>2. CASE UNCHANGED <<jobs, idx>>
      BY <3>2 DEF TableInv, TypeOK, JobsIndexed
    <3>3. QED
      BY <2>1, <3>1, <3>2
  <2>3. /\ started' = started /\ refed' = refed /\ Uncount(j) /\ worker' = worker
        /\ timer' \in [Timeouts -> {"none", "armed", "fired", "done"}]
        /\ \A t \in Timeouts : timer'[t] # "none" => timer[t] # "none"
        /\ stopChan' \subseteq Intervals
    BY <1>2, Constants DEF ClearJob, ClearTimeout, ClearInterval, TableInv, TypeOK
  <2>4. QED
    BY <1>0, <1>2, <2>2, <2>3 DEF TableInv, TypeOK, Uncount, JobsInv
<1>3. QED
  BY <1>1, <1>2

\* The entry taken from the batch is one the invariant allows.
LEMMA HeadOK ==
  ASSUME TypeOK, QueueInv, NEW op, NEW j, TakeEntry(op, j)
  PROVE  EntryOK(E_(op, j)) /\ E_(op, j) \in Entry
<1>1. batch \in Seq(Entry) /\ batch # <<>> /\ Head(batch) = E_(op, j)
  BY DEF TypeOK, TakeEntry
<1>2. Len(batch) \in Nat /\ Len(batch) >= 1 /\ batch[1] = Head(batch) /\ batch[1] \in Entry
  BY <1>1
<1>3. QED
  BY <1>1, <1>2 DEF QueueInv, EntriesInv
\* The entry that clears a job is behind the one that starts it.
LEMMA ClearIsStarted ==
  ASSUME TypeOK, QueueInv, NEW j \in GoHandles, DoClear(j)
  PROVE  j \in started
<1>1. batch \in Seq(Entry) /\ batch # <<>> /\ Head(batch) = E_("clear", j) /\ j \in Jobs
  BY Constants DEF TypeOK, DoClear, TakeEntry
<1>2. Len(batch) \in Nat /\ Len(batch) >= 1 /\ batch[1] = E_("clear", j)
  BY <1>1, SeqFacts, EntryFacts
<1>3. batch[1].op = "clear" /\ batch[1].id = j
  BY <1>1, <1>2, EntryFacts
<1>4. QED
  BY <1>2, <1>3 DEF QueueInv, StartBeforeClear

\* Every step keeps the types and the table.
LEMMA TableStep ==
  ASSUME IInv, [Next]_vars
  PROVE  TableInv'
<1>0. TableInv /\ TypeOK /\ JobsIndexed /\ JobsInv /\ QueueInv
  BY DEF IInv, TableInv
<1> USE DEF tableVars, timerVars, queueVars, lifeVars, execVars, apiVars
<1>1. ASSUME NEW t \in Tasks, JsRunOnLoop(t)
      PROVE  TableInv'
  <2>1. TypeOK'
    BY <1>1, <1>0, Constants, EntryFacts DEF JsRunOnLoop, AddAuxJobOnLoop, TypeOK
  <2>2. JobsIndexed' /\ JobsInv'
    BY <1>1, <1>0, Constants DEF JsRunOnLoop, AddAuxJobOnLoop, TypeOK, JobsIndexed, JobsInv
  <2>3. QED
    BY <2>1, <2>2 DEF TableInv
<1>2. ASSUME NEW t \in Tasks, RunOnLoop(t)
      PROVE  TableInv'
  <2>1. TypeOK'
    BY <1>2, <1>0, Constants, EntryFacts DEF RunOnLoop, AddAuxJob, TypeOK
  <2>2. JobsIndexed' /\ JobsInv'
    BY <1>2, <1>0, Constants DEF RunOnLoop, AddAuxJob, TypeOK, JobsIndexed, JobsInv
  <2>3. QED
    BY <2>1, <2>2 DEF TableInv
<1>3. ASSUME NEW j \in GoHandles, GoSchedule(j)
      PROVE  TableInv'
  <2>1. TypeOK'
    BY <1>3, <1>0, Constants, EntryFacts DEF GoSchedule, AddAuxJob, TypeOK
  <2>2. JobsIndexed' /\ JobsInv'
    BY <1>3, <1>0, Constants DEF GoSchedule, AddAuxJob, TypeOK, JobsIndexed, JobsInv
  <2>3. QED
    BY <2>1, <2>2 DEF TableInv
<1>4. ASSUME NEW j \in GoHandles, GoClear(j)
      PROVE  TableInv'
  <2>1. TypeOK'
    BY <1>4, <1>0, Constants, EntryFacts DEF GoClear, AddAuxJob, TypeOK
  <2>2. JobsIndexed' /\ JobsInv'
    BY <1>4, <1>0, Constants DEF GoClear, AddAuxJob, TypeOK, JobsIndexed, JobsInv
  <2>3. QED
    BY <2>1, <2>2 DEF TableInv
<1>5. ASSUME NEW e \in wakers, Wakeup(e)
      PROVE  TableInv'
  BY <1>5, <1>0 DEF Wakeup, TypeOK, JobsInv, JobsIndexed, TableInv
<1>6. ASSUME NEW t \in Timeouts, TimerFire(t)
      PROVE  TableInv'
  BY <1>6, <1>0 DEF TimerFire, TypeOK, JobsInv, JobsIndexed, TableInv
<1>7. ASSUME NEW t \in Timeouts, TimerEnqueue(t)
      PROVE  TableInv'
  <2>1. TypeOK'
    BY <1>7, <1>0, Constants, EntryFacts DEF TimerEnqueue, AddAuxJob, TypeOK
  <2>2. JobsIndexed' /\ JobsInv'
    BY <1>7, <1>0, Constants DEF TimerEnqueue, AddAuxJob, TypeOK, JobsIndexed, JobsInv
  <2>3. QED
    BY <2>1, <2>2 DEF TableInv
<1>8. ASSUME NEW i \in Intervals, WorkerTick(i)
      PROVE  TableInv'
  <2>1. TypeOK'
    BY <1>8, <1>0, Constants, EntryFacts DEF WorkerTick, AddAuxJob, TypeOK
  <2>2. JobsIndexed' /\ JobsInv'
    BY <1>8, <1>0, Constants DEF WorkerTick, AddAuxJob, TypeOK, JobsIndexed, JobsInv
  <2>3. QED
    BY <2>1, <2>2 DEF TableInv
<1>9. ASSUME NEW i \in Intervals, WorkerStop(i)
      PROVE  TableInv'
  BY <1>9, <1>0 DEF WorkerStop, TypeOK, JobsInv, JobsIndexed, TableInv
<1>10. ASSUME NEW i \in Intervals, WorkerExit(i)
      PROVE  TableInv'
  <2>1. TypeOK'
    BY <1>10, <1>0, Constants, EntryFacts DEF WorkerExit, AddAuxJob, TypeOK
  <2>2. JobsIndexed' /\ JobsInv'
    BY <1>10, <1>0, Constants DEF WorkerExit, AddAuxJob, TypeOK, JobsIndexed, JobsInv
  <2>3. QED
    BY <2>1, <2>2 DEF TableInv
<1>11. ASSUME NEW t \in Tasks, RunTask(t)
      PROVE  TableInv'
  <2>1. TypeOK'
    BY <1>11, <1>0 DEF RunTask, TakeEntry, TypeOK
  <2>2. JobsIndexed' /\ JobsInv'
    BY <1>11, <1>0 DEF RunTask, TakeEntry, TypeOK, JobsIndexed, JobsInv
  <2>3. QED
    BY <2>1, <2>2 DEF TableInv
<1>12. ASSUME NEW i \in Intervals, DoInterval(i)
      PROVE  TableInv'
  <2>1. TypeOK'
    BY <1>12, <1>0 DEF DoInterval, TakeEntry, NoCallback, Callback, TypeOK
  <2>2. JobsIndexed' /\ JobsInv'
    BY <1>12, <1>0 DEF DoInterval, TakeEntry, NoCallback, Callback, TypeOK, JobsIndexed, JobsInv
  <2>3. QED
    BY <2>1, <2>2 DEF TableInv
<1>13. CASE EndCallback
  BY <1>13, <1>0 DEF EndCallback, TypeOK, JobsInv, JobsIndexed, TableInv
<1>14. CASE PanicInCallback
  BY <1>14, <1>0 DEF PanicInCallback, TypeOK, JobsInv, JobsIndexed, TableInv
<1>15. CASE RunAuxSwap
  <2>1. TypeOK'
    BY <1>15, <1>0 DEF RunAuxSwap, TypeOK
  <2>2. JobsIndexed' /\ JobsInv'
    BY <1>15, <1>0 DEF RunAuxSwap, TypeOK, JobsIndexed, JobsInv
  <2>3. QED
    BY <2>1, <2>2 DEF TableInv
<1>16. CASE StartupDone
  BY <1>16, <1>0 DEF StartupDone, LoopHeader, LeaveLoop, TypeOK, JobsInv, JobsIndexed, TableInv
<1>17. CASE SelectWakeup
  <2>1. TypeOK'
    BY <1>17, <1>0 DEF SelectWakeup, TypeOK
  <2>2. JobsIndexed' /\ JobsInv'
    BY <1>17, <1>0 DEF SelectWakeup, JobsIndexed, JobsInv
  <2>3. QED
    BY <2>1, <2>2 DEF TableInv
<1>18. CASE SelectDone
  BY <1>18, <1>0 DEF SelectDone, LeaveLoop, TypeOK, JobsInv, JobsIndexed, TableInv
<1>19. CASE WakeupDone
  BY <1>19, <1>0 DEF WakeupDone, LoopHeader, LeaveLoop, TypeOK, JobsInv, JobsIndexed, TableInv
<1>20. CASE RunExit
  BY <1>20, <1>0 DEF RunExit, TypeOK, JobsInv, JobsIndexed, TableInv
<1>21. CASE RunFnReturns
  BY <1>21, <1>0 DEF RunFnReturns, TypeOK, JobsInv, JobsIndexed, TableInv
<1>22. CASE RunFnPanics
  BY <1>22, <1>0 DEF RunFnPanics, TypeOK, JobsInv, JobsIndexed, TableInv
<1>23. CASE Start
  BY <1>23, <1>0 DEF Start, SetRunning, TypeOK, JobsInv, JobsIndexed, TableInv
<1>24. CASE Run
  BY <1>24, <1>0 DEF Run, SetRunning, TypeOK, JobsInv, JobsIndexed, TableInv
<1>25. CASE Stop
  BY <1>25, <1>0 DEF Stop, TypeOK, JobsInv, JobsIndexed, TableInv
<1>26. CASE StopAsk
  <2>1. TypeOK'
    BY <1>26, <1>0 DEF StopAsk, TypeOK
  <2>2. JobsIndexed' /\ JobsInv'
    BY <1>26, <1>0 DEF StopAsk, JobsIndexed, JobsInv
  <2>3. QED
    BY <2>1, <2>2 DEF TableInv
<1>27. CASE StopReturn
  BY <1>27, <1>0 DEF StopReturn, TypeOK, JobsInv, JobsIndexed, TableInv
<1>28. CASE Terminate
  BY <1>28, <1>0 DEF Terminate, TypeOK, JobsInv, JobsIndexed, TableInv
<1>29. CASE TerminateMark
  BY <1>29, <1>0 DEF TerminateMark, TypeOK, JobsInv, JobsIndexed, TableInv
<1>30. CASE TerminateAuxDone
  BY <1>30, <1>0 DEF TerminateAuxDone, TypeOK, JobsInv, JobsIndexed, TableInv
<1>31. CASE TerminateReturn
  BY <1>31, <1>0 DEF TerminateReturn, TypeOK, JobsInv, JobsIndexed, TableInv
<1>32. CASE UNCHANGED vars
  BY <1>32, <1>0 DEF vars, TypeOK, JobsInv, JobsIndexed, TableInv
<1>33. ASSUME NEW j \in Timeouts \cup Intervals, JsSchedule(j)
      PROVE  TableInv'
  <2>1. StartJob(j) /\ j \notin started /\ j \notin GoHandles
    BY <1>33 DEF JsSchedule
  <2>2. \A i \in GoHandles \cap started' : E_("start", i) \in asked'
    BY <1>33, <2>1, <1>0 DEF JsSchedule, StartJob, JobsInv
  <2>3. QED
    BY <1>33, <2>1, <2>2, <1>0, StartJobStep DEF JsSchedule, TypeOK, TableInv
<1>34. ASSUME NEW m \in Immediates, JsSetImmediate(m)
      PROVE  TableInv'
  <2>1. m \in Jobs /\ m \notin GoHandles /\ E_("immediate", m) \in Entry
    BY Constants, EntryFacts
  <2>2. TypeOK'
    BY <1>34, <2>1, <1>0 DEF JsSetImmediate, AddAuxJobOnLoop, TypeOK
  <2>3. JobsIndexed' /\ JobsInv'
    BY <1>34, <2>1, <1>0 DEF JsSetImmediate, JobsInv, JobsIndexed
  <2>4. QED
    BY <2>2, <2>3 DEF TableInv
<1>35. ASSUME NEW j \in Timeouts \cup Intervals, JsClear(j)
      PROVE  TableInv'
  <2>1. ClearJob(j) /\ j \in started
    BY <1>35 DEF JsClear
  <2>2. QED
    BY <1>35, <2>1, <1>0, ClearJobStep DEF JsClear, TypeOK, TableInv
<1>36. ASSUME NEW m \in Immediates, JsClearImmediate(m)
      PROVE  TableInv'
  BY <1>36, <1>0 DEF JsClearImmediate, Uncount, TypeOK, JobsInv, JobsIndexed, TableInv
<1>37. ASSUME NEW j \in Jobs, SetJobRef(j)
      PROVE  TableInv'
  BY <1>37, <1>0 DEF SetJobRef, TypeOK, JobsInv, JobsIndexed, TableInv
<1>38. ASSUME NEW t \in Timeouts, DoTimeout(t)
      PROVE  TableInv'
  <2>1. t \in started /\ t \in Jobs
    <3>1. TakeEntry("timeout", t)
      BY <1>38 DEF DoTimeout
    <3>2. QED
      BY <3>1, <1>0, HeadOK, Constants, EntryFacts DEF EntryOK
  <2>2. /\ jobs' \in Seq(Jobs) /\ idx' \in [Jobs -> Nat] /\ JobsIndexed'
        /\ \A i \in Jobs : idx'[i] # 0 => idx[i] # 0
    BY <1>38, <1>0, <2>1, RemoveJobTable DEF DoTimeout, TypeOK
  <2>3. TypeOK'
    BY <1>38, <1>0, <2>1, <2>2 DEF DoTimeout, TakeEntry, NoCallback, Callback, Uncount, TypeOK
  <2>4. JobsInv'
    BY <1>38, <1>0, <2>1, <2>2 DEF DoTimeout, TakeEntry, Uncount, JobsInv
  <2>5. QED
    BY <2>2, <2>3, <2>4 DEF TableInv
<1>39. ASSUME NEW m \in Immediates, DoImmediate(m)
      PROVE  TableInv'
  <2>1. m \in started /\ m \in Jobs
    <3>1. TakeEntry("immediate", m)
      BY <1>39 DEF DoImmediate
    <3>2. QED
      BY <3>1, <1>0, HeadOK, Constants, EntryFacts DEF EntryOK
  <2>2. QED
    BY <1>39, <1>0, <2>1 DEF DoImmediate, TakeEntry, NoCallback, Callback, Uncount, TypeOK, JobsInv, JobsIndexed, TableInv
<1>40. ASSUME NEW j \in GoHandles, DoStart(j)
      PROVE  TableInv'
  <2>1. j \in Timeouts \cup Intervals /\ StartJob(j)
    BY <1>40, ParamAssumption DEF DoStart
  <2>2. j \notin started /\ E_("start", j) \in asked
    <3>1. TakeEntry("start", j)
      BY <1>40 DEF DoStart
    <3>2. QED
      BY <3>1, <1>0, HeadOK, Constants, EntryFacts DEF EntryOK
  <2>3. \A i \in GoHandles \cap started' : E_("start", i) \in asked'
    BY <1>40, <2>1, <2>2, <1>0 DEF DoStart, TakeEntry, StartJob, JobsInv
  <2>4. QED
    BY <1>40, <2>1, <2>2, <2>3, <1>0, StartJobStep DEF DoStart, TakeEntry, NoCallback, TypeOK, TableInv
<1>41. ASSUME NEW j \in GoHandles, DoClear(j)
      PROVE  TableInv'
  <2>1. j \in Timeouts \cup Intervals /\ ClearJob(j)
    BY <1>41, ParamAssumption DEF DoClear
  <2>2. j \in started
    BY <1>41, ClearIsStarted, <1>0
  <2>3. QED
    BY <1>41, <2>1, <2>2, <1>0, ClearJobStep DEF DoClear, TakeEntry, NoCallback, TypeOK, TableInv
<1>42. ASSUME NEW i \in Intervals, DoRemove(i)
      PROVE  TableInv'
  <2>1. i \in Jobs
    BY Constants
  <2>2. /\ jobs' \in Seq(Jobs) /\ idx' \in [Jobs -> Nat] /\ JobsIndexed'
        /\ \A k \in Jobs : idx'[k] # 0 => idx[k] # 0
    BY <1>42, <1>0, <2>1, RemoveJobTable DEF DoRemove, TypeOK
  <2>3. QED
    BY <1>42, <1>0, <2>2 DEF DoRemove, TakeEntry, NoCallback, TypeOK, JobsInv, TableInv
<1>43. CASE StopNoWait
  <2>1. canRun' = FALSE /\ token' = TRUE
        /\ UNCHANGED <<aux, terminated, wakers, running, ctxDone, waiting, bcast, ctl>>
        /\ UNCHANGED <<tableVars, timerVars, execVars, apiVars>>
    BY <1>43 DEF StopNoWait
  <2>2. TypeOK'
    <3>1. canRun' \in BOOLEAN /\ token' \in BOOLEAN
      BY <2>1
    <3>2. QED
      BY <2>1, <3>1, <1>0, SMTT(60) DEF TypeOK
  <2>3. JobsIndexed' /\ JobsInv'
    BY <2>1, <1>0 DEF JobsIndexed, JobsInv
  <2>4. QED
    BY <2>2, <2>3 DEF TableInv
<1>44. CASE RunBroadcast
  <2>1. bcast' = FALSE /\ waiting' = FALSE
        /\ UNCHANGED <<canRun, running, ctxDone, ctl>>
        /\ UNCHANGED <<tableVars, timerVars, queueVars, execVars, apiVars>>
    BY <1>44 DEF RunBroadcast
  <2>2. TypeOK'
    <3>1. bcast' \in BOOLEAN /\ waiting' \in BOOLEAN
      BY <2>1
    <3>2. QED
      BY <2>1, <3>1, <1>0, SMTT(60) DEF TypeOK
  <2>3. JobsIndexed' /\ JobsInv'
    BY <2>1, <1>0 DEF JobsIndexed, JobsInv
  <2>4. QED
    BY <2>2, <2>3 DEF TableInv
<1>45. CASE TerminateCancel
  <2>1. PICK k \in 1..Len(jobs) :
          /\ jobs[k] \notin cancelled /\ Uncount(jobs[k]) /\ RemoveJob(jobs[k])
          /\ IF jobs[k] \in Timeouts
               THEN /\ timer' = [timer EXCEPT ![jobs[k]] = IF @ = "armed" THEN "done" ELSE @]
                    /\ UNCHANGED <<worker, stopChan>>
               ELSE stopChan' = stopChan \cup {jobs[k]} /\ UNCHANGED <<timer, worker>>
    BY <1>45 DEF TerminateCancel, Live
  <2>2. jobs[k] \in Jobs /\ jobs[k] \in started /\ jobs[k] \notin Immediates
    BY <1>0 DEF TypeOK, JobsIndexed, JobsInv
  <2>3. /\ jobs' \in Seq(Jobs) /\ idx' \in [Jobs -> Nat] /\ JobsIndexed'
        /\ \A i \in Jobs : idx'[i] # 0 => idx[i] # 0
    BY <1>0, <2>1, <2>2, RemoveJobTable DEF TypeOK
  <2>4. TypeOK'
    <3>1. /\ timer' \in [Timeouts -> {"none", "armed", "fired", "done"}]
          /\ worker' = worker /\ stopChan' \subseteq Intervals
          /\ jobCount' \in Int /\ cancelled' \subseteq Jobs
      BY <1>0, <2>1, <2>2, Constants DEF Uncount, TypeOK
    <3>2. UNCHANGED <<started, refed, queueVars, lifeVars, execVars, apiVars>>
      BY <1>45 DEF TerminateCancel
    <3>3. QED
      BY <1>0, <2>3, <3>1, <3>2 DEF TypeOK
  <2>5. JobsInv'
    <3>1. JobsInv
      BY <1>0
    <3>2. started' = started /\ refed' = refed /\ asked' = asked
      BY <1>45 DEF TerminateCancel, apiVars
    <3>3. cancelled' = cancelled \cup {jobs[k]} /\ worker' = worker
      BY <2>1 DEF Uncount
    <3>4. \A t \in Timeouts : timer'[t] # "none" => timer[t] # "none"
      <4>1. timer \in [Timeouts -> {"none", "armed", "fired", "done"}]
        BY <1>0 DEF TypeOK
      <4> QED BY <2>1, <4>1
    <3> QED BY <2>2, <2>3, <3>1, <3>2, <3>3, <3>4 DEF JobsInv
  <2>6. QED
    BY <2>3, <2>4, <2>5 DEF TableInv
<1>46. QED
  BY <1>1, <1>2, <1>3, <1>4, <1>5, <1>6, <1>7, <1>8, <1>9, <1>10, <1>11, <1>12, <1>13, <1>14, <1>15, <1>16, <1>17, <1>18, <1>19, <1>20, <1>21, <1>22, <1>23, <1>24, <1>25, <1>26, <1>27, <1>28, <1>29, <1>30, <1>31, <1>32, <1>33, <1>34, <1>35, <1>36, <1>37, <1>38, <1>39, <1>40, <1>41, <1>42, <1>43, <1>44, <1>45
     DEF Next, JsStep, ApiStep, GoroutineStep, EntryStep, LoopStep, LifeStep

-----------------------------------------------------------------------------
(* Where the owner of the runtime is, one step per action.                 *)

\* Every step keeps the owner of the runtime in line with the lifecycle.
LEMMA ExecStep ==
  ASSUME IInv, [Next]_vars
  PROVE  ExecInv'
<1>0. TypeOK /\ ExecInv
  BY DEF IInv
<1> USE DEF tableVars, timerVars, queueVars, lifeVars, execVars, apiVars
<1>1. ASSUME NEW j \in Timeouts \cup Intervals, JsSchedule(j)
      PROVE  ExecInv'
  BY <1>1, <1>0 DEF JsSchedule, ExecInv, TypeOK
<1>2. ASSUME NEW j \in Timeouts \cup Intervals, JsClear(j)
      PROVE  ExecInv'
  BY <1>2, <1>0 DEF JsClear, ExecInv, TypeOK
<1>3. ASSUME NEW m \in Immediates, JsSetImmediate(m)
      PROVE  ExecInv'
  BY <1>3, <1>0 DEF JsSetImmediate, ExecInv, TypeOK
<1>4. ASSUME NEW m \in Immediates, JsClearImmediate(m)
      PROVE  ExecInv'
  BY <1>4, <1>0 DEF JsClearImmediate, ExecInv, TypeOK
<1>5. ASSUME NEW j \in Jobs, SetJobRef(j)
      PROVE  ExecInv'
  BY <1>5, <1>0 DEF SetJobRef, ExecInv, TypeOK
<1>6. ASSUME NEW t \in Tasks, JsRunOnLoop(t)
      PROVE  ExecInv'
  BY <1>6, <1>0 DEF JsRunOnLoop, ExecInv, TypeOK
<1>7. ASSUME NEW t \in Tasks, RunOnLoop(t)
      PROVE  ExecInv'
  BY <1>7, <1>0 DEF RunOnLoop, ExecInv, TypeOK
<1>8. ASSUME NEW j \in GoHandles, GoSchedule(j)
      PROVE  ExecInv'
  BY <1>8, <1>0 DEF GoSchedule, ExecInv, TypeOK
<1>9. ASSUME NEW j \in GoHandles, GoClear(j)
      PROVE  ExecInv'
  BY <1>9, <1>0 DEF GoClear, ExecInv, TypeOK
<1>10. CASE StopNoWait
  BY <1>10, <1>0 DEF StopNoWait, ExecInv, TypeOK
<1>11. ASSUME NEW e \in wakers, Wakeup(e)
      PROVE  ExecInv'
  BY <1>11, <1>0 DEF Wakeup, ExecInv, TypeOK
<1>12. ASSUME NEW t \in Timeouts, TimerFire(t)
      PROVE  ExecInv'
  BY <1>12, <1>0 DEF TimerFire, ExecInv, TypeOK
<1>13. ASSUME NEW t \in Timeouts, TimerEnqueue(t)
      PROVE  ExecInv'
  BY <1>13, <1>0 DEF TimerEnqueue, ExecInv, TypeOK
<1>14. ASSUME NEW i \in Intervals, WorkerTick(i)
      PROVE  ExecInv'
  BY <1>14, <1>0 DEF WorkerTick, ExecInv, TypeOK
<1>15. ASSUME NEW i \in Intervals, WorkerStop(i)
      PROVE  ExecInv'
  BY <1>15, <1>0 DEF WorkerStop, ExecInv, TypeOK
<1>16. ASSUME NEW i \in Intervals, WorkerExit(i)
      PROVE  ExecInv'
  BY <1>16, <1>0 DEF WorkerExit, ExecInv, TypeOK
<1>17. ASSUME NEW t \in Tasks, RunTask(t)
      PROVE  ExecInv'
  BY <1>17, <1>0 DEF RunTask, TakeEntry, ExecInv, TypeOK
<1>18. ASSUME NEW t \in Timeouts, DoTimeout(t)
      PROVE  ExecInv'
  BY <1>18, <1>0 DEF DoTimeout, TakeEntry, NoCallback, Callback, ExecInv, TypeOK
<1>19. ASSUME NEW i \in Intervals, DoInterval(i)
      PROVE  ExecInv'
  BY <1>19, <1>0 DEF DoInterval, TakeEntry, NoCallback, Callback, ExecInv, TypeOK
<1>20. ASSUME NEW i \in Intervals, DoRemove(i)
      PROVE  ExecInv'
  BY <1>20, <1>0 DEF DoRemove, TakeEntry, NoCallback, ExecInv, TypeOK
<1>21. ASSUME NEW m \in Immediates, DoImmediate(m)
      PROVE  ExecInv'
  BY <1>21, <1>0 DEF DoImmediate, TakeEntry, NoCallback, Callback, ExecInv, TypeOK
<1>22. ASSUME NEW j \in GoHandles, DoStart(j)
      PROVE  ExecInv'
  BY <1>22, <1>0 DEF DoStart, TakeEntry, NoCallback, ExecInv, TypeOK
<1>23. ASSUME NEW j \in GoHandles, DoClear(j)
      PROVE  ExecInv'
  BY <1>23, <1>0 DEF DoClear, TakeEntry, NoCallback, ExecInv, TypeOK
<1>24. CASE RunFnReturns
  BY <1>24, <1>0 DEF RunFnReturns, ExecInv, TypeOK
<1>25. CASE RunAuxSwap
  BY <1>25, <1>0 DEF RunAuxSwap, ExecInv, TypeOK
<1>26. CASE EndCallback
  BY <1>26, <1>0 DEF EndCallback, ExecInv, TypeOK
<1>27. CASE StartupDone
  BY <1>27, <1>0 DEF StartupDone, LoopHeader, LeaveLoop, ExecInv, TypeOK
<1>28. CASE SelectWakeup
  BY <1>28, <1>0 DEF SelectWakeup, ExecInv, TypeOK
<1>29. CASE SelectDone
  BY <1>29, <1>0 DEF SelectDone, LeaveLoop, ExecInv, TypeOK
<1>30. CASE WakeupDone
  BY <1>30, <1>0 DEF WakeupDone, LoopHeader, LeaveLoop, ExecInv, TypeOK
<1>31. CASE RunExit
  BY <1>31, <1>0 DEF RunExit, ExecInv, TypeOK
<1>32. CASE PanicInCallback
  BY <1>32, <1>0 DEF PanicInCallback, ExecInv, TypeOK
<1>33. CASE RunFnPanics
  BY <1>33, <1>0 DEF RunFnPanics, ExecInv, TypeOK
<1>34. CASE RunBroadcast
  BY <1>34, <1>0 DEF RunBroadcast, ExecInv, TypeOK
<1>35. CASE StopAsk
  BY <1>35, <1>0 DEF StopAsk, ExecInv, TypeOK
<1>36. CASE StopReturn
  BY <1>36, <1>0 DEF StopReturn, ExecInv, TypeOK
<1>37. CASE TerminateMark
  BY <1>37, <1>0 DEF TerminateMark, ExecInv, TypeOK
<1>38. CASE TerminateAuxDone
  BY <1>38, <1>0 DEF TerminateAuxDone, ExecInv, TypeOK
<1>39. CASE TerminateCancel
  BY <1>39, <1>0 DEF TerminateCancel, ExecInv, TypeOK
<1>40. CASE TerminateReturn
  BY <1>40, <1>0 DEF TerminateReturn, ExecInv, TypeOK
<1>41. CASE Start
  BY <1>41, <1>0 DEF Start, SetRunning, ExecInv, TypeOK
<1>42. CASE Run
  BY <1>42, <1>0 DEF Run, SetRunning, ExecInv, TypeOK
<1>43. CASE Stop
  BY <1>43, <1>0 DEF Stop, ExecInv, TypeOK
<1>44. CASE Terminate
  BY <1>44, <1>0 DEF Terminate, ExecInv, TypeOK
<1>45. CASE UNCHANGED vars
  BY <1>45, <1>0 DEF vars, ExecInv, TypeOK
<1>46. QED
  BY <1>1, <1>2, <1>3, <1>4, <1>5, <1>6, <1>7, <1>8, <1>9, <1>10, <1>11, <1>12,
     <1>13, <1>14, <1>15, <1>16, <1>17, <1>18, <1>19, <1>20, <1>21, <1>22, <1>23, <1>24,
     <1>25, <1>26, <1>27, <1>28, <1>29, <1>30, <1>31, <1>32, <1>33, <1>34, <1>35, <1>36,
     <1>37, <1>38, <1>39, <1>40, <1>41, <1>42, <1>43, <1>44, <1>45
     DEF Next, JsStep, ApiStep, GoroutineStep, EntryStep, LoopStep, LifeStep

-----------------------------------------------------------------------------
(* The queue, one step per action.                                         *)

\* Steps that leave the queue alone.
LEMMA QueueKept ==
  ASSUME QueueInv, UNCHANGED <<aux, batch, asked>>,
         started \subseteq started', started' \cap GoHandles \subseteq started
  PROVE  QueueInv'
<1>1. EntriesInv'
  BY DEF QueueInv, EntriesInv, EntryOK
<1>2. StartsOnce'
  BY DEF QueueInv, StartsOnce
<1>3. StartBeforeClear'
  BY DEF QueueInv, StartBeforeClear, Holds
<1>4. QED
  BY <1>1, <1>2, <1>3 DEF QueueInv

\* Every step keeps the queue in order.
LEMMA QueueStep ==
  ASSUME IInv, [Next]_vars
  PROVE  QueueInv'
<1>0. TypeOK /\ JobsInv /\ ExecInv /\ QueueInv
  BY DEF IInv
<1> USE DEF tableVars, timerVars, queueVars, lifeVars, execVars, apiVars
<1>1. ASSUME NEW j \in Timeouts \cup Intervals, JsSchedule(j)
      PROVE  QueueInv'
  <2>1. /\ UNCHANGED <<aux, batch, asked>>
        /\ started \subseteq started' /\ started' \cap GoHandles \subseteq started
    BY <1>1 DEF JsSchedule, StartJob
  <2>2. QED
    BY <2>1, <1>0, QueueKept
<1>2. ASSUME NEW j \in Timeouts \cup Intervals, JsClear(j)
      PROVE  QueueInv'
  <2>1. /\ UNCHANGED <<aux, batch, asked>>
        /\ started \subseteq started' /\ started' \cap GoHandles \subseteq started
    BY <1>2 DEF JsClear, ClearJob, ClearTimeout, ClearInterval
  <2>2. QED
    BY <2>1, <1>0, QueueKept
<1>3. ASSUME NEW m \in Immediates, JsSetImmediate(m)
      PROVE  QueueInv'
  <2> DEFINE e == E_("immediate", m)
  <2>1. e \in Entry /\ e.op = "immediate" /\ e.id = m
    BY EntryFacts, Constants
  <2>2. /\ aux' = aux \/ aux' = Append(aux, e)
        /\ batch' = batch /\ started \subseteq started' /\ started' \cap GoHandles \subseteq started
        /\ asked \subseteq asked'
        /\ \A k \in GoHandles : E_("start", k) \in asked' => E_("start", k) \in asked
    BY <1>3, Constants DEF JsSetImmediate, AddAuxJob, AddAuxJobOnLoop, E_
  <2>3. EntryOK(e)' /\ (e.op = "clear" => E_("start", e.id) \in asked)
    BY <1>3, <2>1, <1>0, Constants DEF JsSetImmediate, EntryOK, JobsInv
  <2>4. QED
    BY <2>1, <2>2, <2>3, <1>0, QueueAppend
<1>4. ASSUME NEW m \in Immediates, JsClearImmediate(m)
      PROVE  QueueInv'
  BY <1>4, <1>0, QueueKept DEF JsClearImmediate
<1>5. ASSUME NEW j \in Jobs, SetJobRef(j)
      PROVE  QueueInv'
  BY <1>5, <1>0, QueueKept DEF SetJobRef
<1>6. ASSUME NEW t \in Tasks, JsRunOnLoop(t)
      PROVE  QueueInv'
  <2> DEFINE e == E_("task", t)
  <2>1. e \in Entry /\ e.op = "task" /\ e.id = t
    BY EntryFacts, Constants
  <2>2. /\ aux' = aux \/ aux' = Append(aux, e)
        /\ batch' = batch /\ started \subseteq started' /\ started' \cap GoHandles \subseteq started
        /\ asked \subseteq asked'
        /\ \A k \in GoHandles : E_("start", k) \in asked' => E_("start", k) \in asked
    BY <1>6, Constants DEF JsRunOnLoop, AddAuxJob, AddAuxJobOnLoop, E_
  <2>3. EntryOK(e)' /\ (e.op = "clear" => E_("start", e.id) \in asked)
    BY <1>6, <2>1, <1>0, Constants DEF JsRunOnLoop, EntryOK, JobsInv
  <2>4. QED
    BY <2>1, <2>2, <2>3, <1>0, QueueAppend
<1>7. ASSUME NEW t \in Tasks, RunOnLoop(t)
      PROVE  QueueInv'
  <2> DEFINE e == E_("task", t)
  <2>1. e \in Entry /\ e.op = "task" /\ e.id = t
    BY EntryFacts, Constants
  <2>2. /\ aux' = aux \/ aux' = Append(aux, e)
        /\ batch' = batch /\ started \subseteq started' /\ started' \cap GoHandles \subseteq started
        /\ asked \subseteq asked'
        /\ \A k \in GoHandles : E_("start", k) \in asked' => E_("start", k) \in asked
    BY <1>7, Constants DEF RunOnLoop, AddAuxJob, AddAuxJobOnLoop, E_
  <2>3. EntryOK(e)' /\ (e.op = "clear" => E_("start", e.id) \in asked)
    BY <1>7, <2>1, <1>0, Constants DEF RunOnLoop, EntryOK, JobsInv
  <2>4. QED
    BY <2>1, <2>2, <2>3, <1>0, QueueAppend
<1>8. ASSUME NEW j \in GoHandles, GoSchedule(j)
      PROVE  QueueInv'
  BY <1>8, <1>0, Constants, QueueStart
<1>9. ASSUME NEW j \in GoHandles, GoClear(j)
      PROVE  QueueInv'
  <2> DEFINE e == E_("clear", j)
  <2>1. e \in Entry /\ e.op = "clear" /\ e.id = j
    BY EntryFacts, Constants
  <2>2. /\ aux' = aux \/ aux' = Append(aux, e)
        /\ batch' = batch /\ started \subseteq started' /\ started' \cap GoHandles \subseteq started
        /\ asked \subseteq asked'
        /\ \A k \in GoHandles : E_("start", k) \in asked' => E_("start", k) \in asked
    BY <1>9, Constants DEF GoClear, AddAuxJob, AddAuxJobOnLoop, E_
  <2>3. EntryOK(e)' /\ (e.op = "clear" => E_("start", e.id) \in asked)
    BY <1>9, <2>1, <1>0, Constants DEF GoClear, EntryOK, JobsInv
  <2>4. QED
    BY <2>1, <2>2, <2>3, <1>0, QueueAppend
<1>10. CASE StopNoWait
  BY <1>10, <1>0, QueueKept DEF StopNoWait
<1>11. ASSUME NEW e \in wakers, Wakeup(e)
      PROVE  QueueInv'
  BY <1>11, <1>0, QueueKept DEF Wakeup
<1>12. ASSUME NEW t \in Timeouts, TimerFire(t)
      PROVE  QueueInv'
  BY <1>12, <1>0, QueueKept DEF TimerFire
<1>13. ASSUME NEW t \in Timeouts, TimerEnqueue(t)
      PROVE  QueueInv'
  <2> DEFINE e == E_("timeout", t)
  <2>1. e \in Entry /\ e.op = "timeout" /\ e.id = t
    BY EntryFacts, Constants
  <2>2. /\ aux' = aux \/ aux' = Append(aux, e)
        /\ batch' = batch /\ started \subseteq started' /\ started' \cap GoHandles \subseteq started
        /\ asked \subseteq asked'
        /\ \A k \in GoHandles : E_("start", k) \in asked' => E_("start", k) \in asked
    BY <1>13, Constants DEF TimerEnqueue, AddAuxJob, AddAuxJobOnLoop, E_
  <2>3. EntryOK(e)' /\ (e.op = "clear" => E_("start", e.id) \in asked)
    BY <1>13, <2>1, <1>0, Constants DEF TimerEnqueue, EntryOK, JobsInv
  <2>4. QED
    BY <2>1, <2>2, <2>3, <1>0, QueueAppend
<1>14. ASSUME NEW i \in Intervals, WorkerTick(i)
      PROVE  QueueInv'
  <2> DEFINE e == E_("interval", i)
  <2>1. e \in Entry /\ e.op = "interval" /\ e.id = i
    BY EntryFacts, Constants
  <2>2. /\ aux' = aux \/ aux' = Append(aux, e)
        /\ batch' = batch /\ started \subseteq started' /\ started' \cap GoHandles \subseteq started
        /\ asked \subseteq asked'
        /\ \A k \in GoHandles : E_("start", k) \in asked' => E_("start", k) \in asked
    BY <1>14, Constants DEF WorkerTick, AddAuxJob, AddAuxJobOnLoop, E_
  <2>3. EntryOK(e)' /\ (e.op = "clear" => E_("start", e.id) \in asked)
    BY <1>14, <2>1, <1>0, Constants DEF WorkerTick, EntryOK, JobsInv
  <2>4. QED
    BY <2>1, <2>2, <2>3, <1>0, QueueAppend
<1>15. ASSUME NEW i \in Intervals, WorkerStop(i)
      PROVE  QueueInv'
  BY <1>15, <1>0, QueueKept DEF WorkerStop
<1>16. ASSUME NEW i \in Intervals, WorkerExit(i)
      PROVE  QueueInv'
  <2> DEFINE e == E_("remove", i)
  <2>1. e \in Entry /\ e.op = "remove" /\ e.id = i
    BY EntryFacts, Constants
  <2>2. /\ aux' = aux \/ aux' = Append(aux, e)
        /\ batch' = batch /\ started \subseteq started' /\ started' \cap GoHandles \subseteq started
        /\ asked \subseteq asked'
        /\ \A k \in GoHandles : E_("start", k) \in asked' => E_("start", k) \in asked
    BY <1>16, Constants DEF WorkerExit, AddAuxJob, AddAuxJobOnLoop, E_
  <2>3. EntryOK(e)' /\ (e.op = "clear" => E_("start", e.id) \in asked)
    BY <1>16, <2>1, <1>0, Constants DEF WorkerExit, EntryOK, JobsInv
  <2>4. QED
    BY <2>1, <2>2, <2>3, <1>0, QueueAppend
<1>17. ASSUME NEW t \in Tasks, RunTask(t)
      PROVE  QueueInv'
  <2>1. TakeEntry("task", t)
    BY <1>17 DEF RunTask
  <2>2. E_("task", t).op = "task" /\ E_("task", t).id = t /\ E_("task", t) \in Entry
    BY Constants, EntryFacts
  <2>3. started' = IF "task" = "start" THEN started \cup {t} ELSE started
    BY <1>17 DEF RunTask
  <2>4. QED
    BY <2>1, <2>2, <2>3, <1>0, QueueTake DEF TakeEntry
<1>18. ASSUME NEW t \in Timeouts, DoTimeout(t)
      PROVE  QueueInv'
  <2>1. TakeEntry("timeout", t)
    BY <1>18 DEF DoTimeout
  <2>2. E_("timeout", t).op = "timeout" /\ E_("timeout", t).id = t /\ E_("timeout", t) \in Entry
    BY Constants, EntryFacts
  <2>3. started' = IF "timeout" = "start" THEN started \cup {t} ELSE started
    BY <1>18 DEF DoTimeout
  <2>4. QED
    BY <2>1, <2>2, <2>3, <1>0, QueueTake DEF TakeEntry
<1>19. ASSUME NEW i \in Intervals, DoInterval(i)
      PROVE  QueueInv'
  <2>1. TakeEntry("interval", i)
    BY <1>19 DEF DoInterval
  <2>2. E_("interval", i).op = "interval" /\ E_("interval", i).id = i /\ E_("interval", i) \in Entry
    BY Constants, EntryFacts
  <2>3. started' = IF "interval" = "start" THEN started \cup {i} ELSE started
    BY <1>19 DEF DoInterval
  <2>4. QED
    BY <2>1, <2>2, <2>3, <1>0, QueueTake DEF TakeEntry
<1>20. ASSUME NEW i \in Intervals, DoRemove(i)
      PROVE  QueueInv'
  <2>1. TakeEntry("remove", i)
    BY <1>20 DEF DoRemove
  <2>2. E_("remove", i).op = "remove" /\ E_("remove", i).id = i /\ E_("remove", i) \in Entry
    BY Constants, EntryFacts
  <2>3. started' = IF "remove" = "start" THEN started \cup {i} ELSE started
    BY <1>20 DEF DoRemove
  <2>4. QED
    BY <2>1, <2>2, <2>3, <1>0, QueueTake DEF TakeEntry
<1>21. ASSUME NEW m \in Immediates, DoImmediate(m)
      PROVE  QueueInv'
  <2>1. TakeEntry("immediate", m)
    BY <1>21 DEF DoImmediate
  <2>2. E_("immediate", m).op = "immediate" /\ E_("immediate", m).id = m /\ E_("immediate", m) \in Entry
    BY Constants, EntryFacts
  <2>3. started' = IF "immediate" = "start" THEN started \cup {m} ELSE started
    BY <1>21 DEF DoImmediate
  <2>4. QED
    BY <2>1, <2>2, <2>3, <1>0, QueueTake DEF TakeEntry
<1>22. ASSUME NEW j \in GoHandles, DoStart(j)
      PROVE  QueueInv'
  <2>1. TakeEntry("start", j)
    BY <1>22 DEF DoStart
  <2>2. E_("start", j).op = "start" /\ E_("start", j).id = j /\ E_("start", j) \in Entry
    BY Constants, EntryFacts
  <2>3. started' = IF "start" = "start" THEN started \cup {j} ELSE started
    BY <1>22 DEF DoStart, StartJob
  <2>4. QED
    BY <2>1, <2>2, <2>3, <1>0, QueueTake DEF TakeEntry
<1>23. ASSUME NEW j \in GoHandles, DoClear(j)
      PROVE  QueueInv'
  <2>1. TakeEntry("clear", j)
    BY <1>23 DEF DoClear
  <2>2. E_("clear", j).op = "clear" /\ E_("clear", j).id = j /\ E_("clear", j) \in Entry
    BY Constants, EntryFacts
  <2>3. started' = IF "clear" = "start" THEN started \cup {j} ELSE started
    BY <1>23 DEF DoClear, ClearJob, ClearTimeout, ClearInterval
  <2>4. QED
    BY <2>1, <2>2, <2>3, <1>0, QueueTake DEF TakeEntry
<1>24. CASE RunFnReturns
  BY <1>24, <1>0, QueueKept DEF RunFnReturns
<1>25. CASE RunAuxSwap
  BY <1>25, <1>0, QueueSwap DEF RunAuxSwap, ExecInv
<1>26. CASE EndCallback
  BY <1>26, <1>0, QueueKept DEF EndCallback
<1>27. CASE StartupDone
  BY <1>27, <1>0, QueueKept DEF StartupDone, LoopHeader, LeaveLoop
<1>28. CASE SelectWakeup
  BY <1>28, <1>0, QueueKept DEF SelectWakeup
<1>29. CASE SelectDone
  BY <1>29, <1>0, QueueKept DEF SelectDone, LeaveLoop
<1>30. CASE WakeupDone
  BY <1>30, <1>0, QueueKept DEF WakeupDone, LoopHeader, LeaveLoop
<1>31. CASE RunExit
  BY <1>31, <1>0, QueueKept DEF RunExit
<1>32. CASE PanicInCallback
  BY <1>32, <1>0, QueueKept DEF PanicInCallback
<1>33. CASE RunFnPanics
  BY <1>33, <1>0, QueueKept DEF RunFnPanics
<1>34. CASE RunBroadcast
  BY <1>34, <1>0, QueueKept DEF RunBroadcast
<1>35. CASE StopAsk
  BY <1>35, <1>0, QueueKept DEF StopAsk
<1>36. CASE StopReturn
  BY <1>36, <1>0, QueueKept DEF StopReturn
<1>37. CASE TerminateMark
  BY <1>37, <1>0, QueueKept DEF TerminateMark
<1>38. CASE TerminateAuxDone
  BY <1>38, <1>0, QueueKept DEF TerminateAuxDone
<1>39. CASE TerminateCancel
  BY <1>39, <1>0, QueueKept DEF TerminateCancel
<1>40. CASE TerminateReturn
  BY <1>40, <1>0, QueueKept DEF TerminateReturn
<1>41. CASE Start
  BY <1>41, <1>0, QueueKept DEF Start, SetRunning
<1>42. CASE Run
  BY <1>42, <1>0, QueueKept DEF Run, SetRunning
<1>43. CASE Stop
  BY <1>43, <1>0, QueueKept DEF Stop
<1>44. CASE Terminate
  BY <1>44, <1>0, QueueKept DEF Terminate
<1>45. CASE UNCHANGED vars
  BY <1>45, <1>0, QueueKept DEF vars
<1>46. QED
  BY <1>1, <1>2, <1>3, <1>4, <1>5, <1>6, <1>7, <1>8, <1>9, <1>10, <1>11, <1>12,
     <1>13, <1>14, <1>15, <1>16, <1>17, <1>18, <1>19, <1>20, <1>21, <1>22, <1>23, <1>24,
     <1>25, <1>26, <1>27, <1>28, <1>29, <1>30, <1>31, <1>32, <1>33, <1>34, <1>35, <1>36,
     <1>37, <1>38, <1>39, <1>40, <1>41, <1>42, <1>43, <1>44, <1>45
     DEF Next, JsStep, ApiStep, GoroutineStep, EntryStep, LoopStep, LifeStep

-----------------------------------------------------------------------------
(* jobCount, one step per action.                                          *)

\* The set of counted jobs is finite; adding or removing one job changes its size
\* by one, or by none.
LEMMA CountedFacts ==
  ASSUME TypeOK
  PROVE  /\ IsFiniteSet(Counted) /\ Cardinality(Counted) \in Nat
         /\ \A j : Cardinality(Counted \cup {j}) =
                    IF j \in Counted THEN Cardinality(Counted) ELSE Cardinality(Counted) + 1
         /\ \A j : Cardinality(Counted \ {j}) =
                    IF j \in Counted THEN Cardinality(Counted) - 1 ELSE Cardinality(Counted)
<1>1. Counted \subseteq Jobs
  BY DEF TypeOK, Counted
<1>2. IsFiniteSet(Counted)
  BY <1>1, FS_Subset, JobsAssumption
<1>3. QED
  BY <1>2, FS_AddElement, FS_RemoveElement, FS_CardinalityType

\* Steps that leave the counted jobs and the hold alone.
LEMMA CountKept ==
  ASSUME JobCountExact, UNCHANGED <<jobCount, started, cancelled, refed>>, Hold' = Hold
  PROVE  JobCountExact'
BY DEF JobCountExact, Counted

\* Steps that count one more job.
LEMMA CountOneMore ==
  ASSUME TypeOK, JobCountExact, NEW j, j \notin Counted, Counted' = Counted \cup {j},
         jobCount' = jobCount + 1, Hold' = Hold
  PROVE  JobCountExact'
BY CountedFacts DEF JobCountExact

\* Steps that cancel a job: it no longer counts, if it did.
LEMMA CountOneLess ==
  ASSUME TypeOK, JobCountExact, NEW j, Counted' = Counted \ {j},
         jobCount' = IF j \in Counted THEN jobCount - 1 ELSE jobCount, Hold' = Hold
  PROVE  JobCountExact'
BY CountedFacts DEF JobCountExact

\* Every step keeps jobCount exact.
LEMMA CountStep ==
  ASSUME IInv, [Next]_vars
  PROVE  JobCountExact'
<1>0. /\ TypeOK /\ JobsIndexed /\ JobsInv /\ ExecInv /\ QueueInv /\ JobCountExact
      /\ TableInv
  BY DEF IInv, TableInv
<1> USE DEF tableVars, timerVars, queueVars, lifeVars, execVars, apiVars
<1>1. ASSUME NEW j \in Timeouts \cup Intervals, JsSchedule(j)
      PROVE  JobCountExact'
  <2>1. j \notin started /\ j \in Jobs
    BY <1>1, Constants DEF JsSchedule
  <2>2. j \in refed /\ j \notin cancelled
    BY <2>1, <1>0 DEF JobsInv
  <2>3. /\ started' = started \cup {j} /\ cancelled' = cancelled /\ refed' = refed
        /\ jobCount' = jobCount + 1 /\ Hold' = Hold
    BY <1>1 DEF JsSchedule, StartJob, Hold
  <2>4. Counted' = Counted \cup {j} /\ j \notin Counted
    BY <2>1, <2>2, <2>3 DEF Counted
  <2>5. QED
    BY <2>3, <2>4, <1>0, CountOneMore
<1>2. ASSUME NEW j \in Timeouts \cup Intervals, JsClear(j)
      PROVE  JobCountExact'
  <2>1. j \in started /\ j \in Timeouts \cup Intervals /\ ClearJob(j)
    <3>1. j \in started
      BY <1>2 DEF JsClear
    <3>2. QED
      BY <1>2, <3>1, ParamAssumption DEF JsClear, DoClear
  <2>2. /\ started' = started /\ refed' = refed /\ cancelled' = cancelled \cup {j}
        /\ jobCount' = IF j \in cancelled \/ j \notin refed THEN jobCount ELSE jobCount - 1
    BY <2>1, <1>0, ClearJobStep DEF TableInv
  <2>3. Hold' = Hold
    BY <1>2 DEF JsClear, Hold
  <2>4. Counted' = Counted \ {j} /\ (j \in Counted <=> j \in refed /\ j \notin cancelled)
    BY <2>1, <2>2 DEF Counted
  <2>5. QED
    BY <2>2, <2>3, <2>4, <1>0, CountOneLess
<1>3. ASSUME NEW m \in Immediates, JsSetImmediate(m)
      PROVE  JobCountExact'
  <2>1. m \notin started /\ m \in Jobs
    BY <1>3, Constants DEF JsSetImmediate
  <2>2. m \in refed /\ m \notin cancelled
    BY <2>1, <1>0 DEF JobsInv
  <2>3. /\ started' = started \cup {m} /\ cancelled' = cancelled /\ refed' = refed
        /\ jobCount' = jobCount + 1 /\ Hold' = Hold
    BY <1>3 DEF JsSetImmediate, Hold
  <2>4. Counted' = Counted \cup {m} /\ m \notin Counted
    BY <2>1, <2>2, <2>3 DEF Counted
  <2>5. QED
    BY <2>3, <2>4, <1>0, CountOneMore
<1>4. ASSUME NEW m \in Immediates, JsClearImmediate(m)
      PROVE  JobCountExact'
  <2>1. /\ started' = started /\ refed' = refed /\ cancelled' = cancelled \cup {m}
        /\ m \in started /\ m \notin cancelled
        /\ jobCount' = IF m \in refed THEN jobCount - 1 ELSE jobCount
        /\ Hold' = Hold
    BY <1>4 DEF JsClearImmediate, Uncount, Hold
  <2>2. Counted' = Counted \ {m} /\ (m \in Counted <=> m \in refed)
    BY <2>1 DEF Counted
  <2>3. QED
    BY <2>1, <2>2, <1>0, CountOneLess
<1>5. ASSUME NEW j \in Jobs, SetJobRef(j)
      PROVE  JobCountExact'
  <2>1. started' = started /\ cancelled' = cancelled /\ Hold' = Hold /\ j \in started \ cancelled
    BY <1>5 DEF SetJobRef, Hold
  <2>2. CASE j \in refed
    <3>1. refed' = refed \ {j} /\ jobCount' = jobCount - 1
      BY <1>5, <2>2 DEF SetJobRef
    <3>2. Counted' = Counted \ {j} /\ j \in Counted
      BY <2>1, <2>2, <3>1 DEF Counted
    <3>3. QED
      BY <2>1, <3>1, <3>2, <1>0, CountOneLess
  <2>3. CASE j \notin refed
    <3>1. refed' = refed \cup {j} /\ jobCount' = jobCount + 1
      BY <1>5, <2>3 DEF SetJobRef
    <3>2. Counted' = Counted \cup {j} /\ j \notin Counted
      BY <2>1, <2>3, <3>1 DEF Counted
    <3>3. QED
      BY <2>1, <3>1, <3>2, <1>0, CountOneMore
  <2>4. QED
    BY <2>2, <2>3
<1>6. ASSUME NEW t \in Tasks, JsRunOnLoop(t)
      PROVE  JobCountExact'
  BY <1>6, <1>0, CountKept DEF JsRunOnLoop, ExecInv, Hold
<1>7. ASSUME NEW t \in Tasks, RunOnLoop(t)
      PROVE  JobCountExact'
  BY <1>7, <1>0, CountKept DEF RunOnLoop, ExecInv, Hold
<1>8. ASSUME NEW j \in GoHandles, GoSchedule(j)
      PROVE  JobCountExact'
  BY <1>8, <1>0, CountKept DEF GoSchedule, ExecInv, Hold
<1>9. ASSUME NEW j \in GoHandles, GoClear(j)
      PROVE  JobCountExact'
  BY <1>9, <1>0, CountKept DEF GoClear, ExecInv, Hold
<1>10. CASE StopNoWait
  BY <1>10, <1>0, CountKept DEF StopNoWait, ExecInv, Hold
<1>11. ASSUME NEW e \in wakers, Wakeup(e)
      PROVE  JobCountExact'
  BY <1>11, <1>0, CountKept DEF Wakeup, ExecInv, Hold
<1>12. ASSUME NEW t \in Timeouts, TimerFire(t)
      PROVE  JobCountExact'
  BY <1>12, <1>0, CountKept DEF TimerFire, ExecInv, Hold
<1>13. ASSUME NEW t \in Timeouts, TimerEnqueue(t)
      PROVE  JobCountExact'
  BY <1>13, <1>0, CountKept DEF TimerEnqueue, ExecInv, Hold
<1>14. ASSUME NEW i \in Intervals, WorkerTick(i)
      PROVE  JobCountExact'
  BY <1>14, <1>0, CountKept DEF WorkerTick, ExecInv, Hold
<1>15. ASSUME NEW i \in Intervals, WorkerStop(i)
      PROVE  JobCountExact'
  BY <1>15, <1>0, CountKept DEF WorkerStop, ExecInv, Hold
<1>16. ASSUME NEW i \in Intervals, WorkerExit(i)
      PROVE  JobCountExact'
  BY <1>16, <1>0, CountKept DEF WorkerExit, ExecInv, Hold
<1>17. ASSUME NEW t \in Tasks, RunTask(t)
      PROVE  JobCountExact'
  BY <1>17, <1>0, CountKept DEF RunTask, TakeEntry, ExecInv, Hold
<1>18. ASSUME NEW t \in Timeouts, DoTimeout(t)
      PROVE  JobCountExact'
  <2>1. t \in started
    <3>1. TakeEntry("timeout", t)
      BY <1>18 DEF DoTimeout
    <3>2. QED
      BY <3>1, <1>0, HeadOK, Constants, EntryFacts DEF EntryOK
  <2>2. started' = started /\ refed' = refed /\ Hold' = Hold
    BY <1>18 DEF DoTimeout, TakeEntry, NoCallback, Callback, Hold
  <2>3. CASE t \in cancelled
    BY <1>18, <2>2, <2>3, <1>0, CountKept DEF DoTimeout
  <2>4. CASE t \notin cancelled
    <3>1. /\ cancelled' = cancelled \cup {t}
          /\ jobCount' = IF t \in refed THEN jobCount - 1 ELSE jobCount
      BY <1>18, <2>4 DEF DoTimeout, Uncount
    <3>2. Counted' = Counted \ {t} /\ (t \in Counted <=> t \in refed)
      BY <2>1, <2>2, <2>4, <3>1 DEF Counted
    <3>3. QED
      BY <2>2, <3>1, <3>2, <1>0, CountOneLess
  <2>5. QED
    BY <2>3, <2>4
<1>19. ASSUME NEW i \in Intervals, DoInterval(i)
      PROVE  JobCountExact'
  BY <1>19, <1>0, CountKept DEF DoInterval, TakeEntry, NoCallback, Callback, ExecInv, Hold
<1>20. ASSUME NEW i \in Intervals, DoRemove(i)
      PROVE  JobCountExact'
  BY <1>20, <1>0, CountKept DEF DoRemove, TakeEntry, NoCallback, ExecInv, Hold
<1>21. ASSUME NEW m \in Immediates, DoImmediate(m)
      PROVE  JobCountExact'
  <2>1. m \in started
    <3>1. TakeEntry("immediate", m)
      BY <1>21 DEF DoImmediate
    <3>2. QED
      BY <3>1, <1>0, HeadOK, Constants, EntryFacts DEF EntryOK
  <2>2. started' = started /\ refed' = refed /\ Hold' = Hold
    BY <1>21 DEF DoImmediate, TakeEntry, NoCallback, Callback, Hold
  <2>3. CASE m \in cancelled
    BY <1>21, <2>2, <2>3, <1>0, CountKept DEF DoImmediate
  <2>4. CASE m \notin cancelled
    <3>1. /\ cancelled' = cancelled \cup {m}
          /\ jobCount' = IF m \in refed THEN jobCount - 1 ELSE jobCount
      BY <1>21, <2>4 DEF DoImmediate, Uncount
    <3>2. Counted' = Counted \ {m} /\ (m \in Counted <=> m \in refed)
      BY <2>1, <2>2, <2>4, <3>1 DEF Counted
    <3>3. QED
      BY <2>2, <3>1, <3>2, <1>0, CountOneLess
  <2>5. QED
    BY <2>3, <2>4
<1>22. ASSUME NEW j \in GoHandles, DoStart(j)
      PROVE  JobCountExact'
  <2>1. j \notin started /\ j \in Jobs
    <3>1. TakeEntry("start", j)
      BY <1>22 DEF DoStart
    <3>2. QED
      BY <3>1, <1>0, HeadOK, Constants, EntryFacts DEF EntryOK
  <2>2. j \in refed /\ j \notin cancelled
    BY <2>1, <1>0 DEF JobsInv
  <2>3. /\ started' = started \cup {j} /\ cancelled' = cancelled /\ refed' = refed
        /\ jobCount' = jobCount + 1 /\ Hold' = Hold
    BY <1>22 DEF DoStart, TakeEntry, NoCallback, StartJob, Hold
  <2>4. Counted' = Counted \cup {j} /\ j \notin Counted
    BY <2>1, <2>2, <2>3 DEF Counted
  <2>5. QED
    BY <2>3, <2>4, <1>0, CountOneMore
<1>23. ASSUME NEW j \in GoHandles, DoClear(j)
      PROVE  JobCountExact'
  <2>1. j \in started /\ j \in Timeouts \cup Intervals /\ ClearJob(j)
    <3>1. j \in started
      BY <1>23, ClearIsStarted, <1>0
    <3>2. QED
      BY <1>23, <3>1, ParamAssumption DEF JsClear, DoClear
  <2>2. /\ started' = started /\ refed' = refed /\ cancelled' = cancelled \cup {j}
        /\ jobCount' = IF j \in cancelled \/ j \notin refed THEN jobCount ELSE jobCount - 1
    BY <2>1, <1>0, ClearJobStep DEF TableInv
  <2>3. Hold' = Hold
    BY <1>23 DEF DoClear, TakeEntry, NoCallback, Hold
  <2>4. Counted' = Counted \ {j} /\ (j \in Counted <=> j \in refed /\ j \notin cancelled)
    BY <2>1, <2>2 DEF Counted
  <2>5. QED
    BY <2>2, <2>3, <2>4, <1>0, CountOneLess
<1>24. CASE RunFnReturns
  BY <1>24, <1>0, CountKept DEF RunFnReturns, ExecInv, Hold
<1>25. CASE RunAuxSwap
  BY <1>25, <1>0, CountKept DEF RunAuxSwap, ExecInv, Hold
<1>26. CASE EndCallback
  BY <1>26, <1>0, CountKept DEF EndCallback, ExecInv, Hold
<1>27. CASE StartupDone
  <2>1. Counted' = Counted /\ jobCount \in Int
    BY <1>27, <1>0 DEF StartupDone, Counted, TypeOK
  <2>2. QED
    BY <1>27, <2>1, <1>0, CountedFacts DEF StartupDone, LoopHeader, LeaveLoop, JobCountExact, Hold, TypeOK
<1>28. CASE SelectWakeup
  BY <1>28, <1>0, CountKept DEF SelectWakeup, ExecInv, Hold
<1>29. CASE SelectDone
  <2>1. Counted' = Counted /\ jobCount \in Int
    BY <1>29, <1>0 DEF SelectDone, Counted, TypeOK
  <2>2. QED
    BY <1>29, <2>1, <1>0, CountedFacts DEF SelectDone, LeaveLoop, JobCountExact, Hold, TypeOK
<1>30. CASE WakeupDone
  <2>1. Counted' = Counted /\ jobCount \in Int
    BY <1>30, <1>0 DEF WakeupDone, Counted, TypeOK
  <2>2. QED
    BY <1>30, <2>1, <1>0, CountedFacts DEF WakeupDone, LoopHeader, LeaveLoop, JobCountExact, Hold, TypeOK
<1>31. CASE RunExit
  BY <1>31, <1>0, CountKept DEF RunExit, ExecInv, Hold
<1>32. CASE PanicInCallback
  BY <1>32, <1>0, CountKept DEF PanicInCallback, ExecInv, Hold
<1>33. CASE RunFnPanics
  BY <1>33, <1>0, CountKept DEF RunFnPanics, ExecInv, Hold
<1>34. CASE RunBroadcast
  BY <1>34, <1>0, CountKept DEF RunBroadcast, ExecInv, Hold
<1>35. CASE StopAsk
  BY <1>35, <1>0, CountKept DEF StopAsk, ExecInv, Hold
<1>36. CASE StopReturn
  BY <1>36, <1>0, CountKept DEF StopReturn, ExecInv, Hold
<1>37. CASE TerminateMark
  BY <1>37, <1>0, CountKept DEF TerminateMark, ExecInv, Hold
<1>38. CASE TerminateAuxDone
  BY <1>38, <1>0, CountKept DEF TerminateAuxDone, ExecInv, Hold
<1>39. CASE TerminateCancel
  <2>1. PICK k \in 1..Len(jobs) : jobs[k] \notin cancelled /\ Uncount(jobs[k])
    BY <1>39 DEF TerminateCancel, Live
  <2>2. jobs[k] \in started
    BY <1>0 DEF TypeOK, JobsIndexed, JobsInv
  <2>3. started' = started /\ refed' = refed /\ Hold' = Hold
    BY <1>39 DEF TerminateCancel, Hold
  <2>4. Counted' = Counted \ {jobs[k]} /\ (jobs[k] \in Counted <=> jobs[k] \in refed)
    BY <2>1, <2>2, <2>3 DEF Counted, Uncount
  <2>5. QED
    BY <2>1, <2>3, <2>4, <1>0, CountOneLess DEF Uncount
<1>40. CASE TerminateReturn
  BY <1>40, <1>0, CountKept DEF TerminateReturn, ExecInv, Hold
<1>41. CASE Start
  BY <1>41, <1>0, CountKept DEF Start, SetRunning, ExecInv, Hold
<1>42. CASE Run
  BY <1>42, <1>0, CountKept DEF Run, SetRunning, ExecInv, Hold
<1>43. CASE Stop
  BY <1>43, <1>0, CountKept DEF Stop, ExecInv, Hold
<1>44. CASE Terminate
  BY <1>44, <1>0, CountKept DEF Terminate, ExecInv, Hold
<1>45. CASE UNCHANGED vars
  BY <1>45, <1>0, CountKept DEF vars, ExecInv, Hold
<1>46. QED
  BY <1>1, <1>2, <1>3, <1>4, <1>5, <1>6, <1>7, <1>8, <1>9, <1>10, <1>11, <1>12,
     <1>13, <1>14, <1>15, <1>16, <1>17, <1>18, <1>19, <1>20, <1>21, <1>22, <1>23, <1>24,
     <1>25, <1>26, <1>27, <1>28, <1>29, <1>30, <1>31, <1>32, <1>33, <1>34, <1>35, <1>36,
     <1>37, <1>38, <1>39, <1>40, <1>41, <1>42, <1>43, <1>44, <1>45
     DEF Next, JsStep, ApiStep, GoroutineStep, EntryStep, LoopStep, LifeStep

-----------------------------------------------------------------------------
(* The invariant and what follows from it.                                 *)

\* A new loop satisfies the inductive invariant.
LEMMA InitIInv == Init => IInv
<1> SUFFICES ASSUME Init PROVE IInv
  OBVIOUS
<1>1. TypeOK /\ JobsIndexed /\ JobsInv
  <2>1. TypeOK
    <3>1. /\ jobs \in Seq(Jobs) /\ aux \in Seq(Entry) /\ batch \in Seq(Entry) /\ wakers \subseteq Entry
          /\ asked \subseteq Entry /\ jobCount \in Int /\ idx \in [Jobs -> Nat]
      BY DEF Init
    <3>2. /\ timer \in [Timeouts -> {"none", "armed", "fired", "done"}]
          /\ worker \in [Intervals -> {"none", "run", "exit", "done"}]
          /\ reply \in [Requires -> {"none", "waiting", "result", "error"}]
      BY DEF Init
    <3>3. /\ terminated \in BOOLEAN /\ token \in BOOLEAN /\ canRun \in BOOLEAN
          /\ running \in BOOLEAN /\ ctxDone \in BOOLEAN /\ waiting \in BOOLEAN
          /\ bcast \in BOOLEAN /\ inBackground \in BOOLEAN
      BY DEF Init
    <3>4. QED
      BY <3>1, <3>2, <3>3 DEF Init, TypeOK
  <2>2. JobsIndexed
    BY DEF Init, JobsIndexed
  <2>3. JobsInv
    BY DEF Init, JobsInv
  <2>4. QED
    BY <2>1, <2>2, <2>3
<1>2. ExecInv
  BY DEF Init, ExecInv
<1>3. QueueInv
  BY DEF Init, QueueInv, EntriesInv, StartsOnce, StartBeforeClear
<1>4. JobCountExact
  <2>1. Counted = {} /\ ~Hold /\ jobCount = 0
    BY DEF Init, Counted, Hold
  <2>2. QED
    BY <2>1, FS_EmptySet DEF JobCountExact
<1>5. QED
  BY <1>1, <1>2, <1>3, <1>4 DEF IInv

\* The strengthened invariant is inductive.
THEOREM Invariance == Spec => []IInv
<1>1. IInv /\ [Next]_vars => IInv'
  BY TableStep, ExecStep, QueueStep, CountStep DEF IInv, TableInv
<1>2. QED
  BY InitIInv, <1>1, PTL DEF Spec

\* Every variable keeps its type, whatever the loop is used for.
THEOREM TypeCorrect == Spec => []TypeOK
<1>1. IInv => TypeOK
  BY DEF IInv
<1>2. QED
  BY Invariance, <1>1, PTL

\* removeJob never takes out another job than the one it is given: the table and
\* the positions the jobs remember agree in every reachable state.
THEOREM TableIsIndexed == Spec => []JobsIndexed
<1>1. IInv => JobsIndexed
  BY DEF IInv
<1>2. QED
  BY Invariance, <1>1, PTL

\* jobCount is the number of jobs that keep the loop running, for any number of
\* timers, intervals, immediates and goroutines: the condition of run()'s loop
\* means what Run's documentation says.
THEOREM JobCountIsExact == Spec => []JobCountExact
<1>1. IInv => JobCountExact
  BY DEF IInv
<1>2. QED
  BY Invariance, <1>1, PTL

-----------------------------------------------------------------------------
(* Wakeups.  A queued job is followed by a wakeup except while the loop is *)
(* about to take the whole queue; a stop request made before the loop      *)
(* first sleeps is still in the channel when it does.                      *)

WakeInv ==
  /\ aux # <<>> /\ pc # "swap" => token \/ wakers # {}
  /\ /\ ~canRun /\ running
     /\ pc = "select" \/ (pc \in {"fn", "swap", "aux", "cb"} /\ caller = "startup")
     => token

\* Every step keeps a wakeup behind the work.
LEMMA WakeStep ==
  ASSUME IInv, WakeInv, [Next]_vars
  PROVE  WakeInv'
<1>0. TypeOK /\ ExecInv /\ WakeInv
  BY DEF IInv
<1> USE DEF tableVars, timerVars, queueVars, lifeVars, execVars, apiVars
<1>1. ASSUME NEW j \in Timeouts \cup Intervals, JsSchedule(j)
      PROVE  WakeInv'
  BY <1>1, <1>0 DEF JsSchedule, WakeInv, ExecInv, TypeOK
<1>2. ASSUME NEW j \in Timeouts \cup Intervals, JsClear(j)
      PROVE  WakeInv'
  BY <1>2, <1>0 DEF JsClear, WakeInv, ExecInv, TypeOK
<1>3. ASSUME NEW m \in Immediates, JsSetImmediate(m)
      PROVE  WakeInv'
  BY <1>3, <1>0 DEF JsSetImmediate, AddAuxJob, AddAuxJobOnLoop, WakeInv, ExecInv, TypeOK
<1>4. ASSUME NEW m \in Immediates, JsClearImmediate(m)
      PROVE  WakeInv'
  BY <1>4, <1>0 DEF JsClearImmediate, WakeInv, ExecInv, TypeOK
<1>5. ASSUME NEW j \in Jobs, SetJobRef(j)
      PROVE  WakeInv'
  BY <1>5, <1>0 DEF SetJobRef, WakeInv, ExecInv, TypeOK
<1>6. ASSUME NEW t \in Tasks, JsRunOnLoop(t)
      PROVE  WakeInv'
  BY <1>6, <1>0 DEF JsRunOnLoop, AddAuxJob, AddAuxJobOnLoop, WakeInv, ExecInv, TypeOK
<1>7. ASSUME NEW t \in Tasks, RunOnLoop(t)
      PROVE  WakeInv'
  BY <1>7, <1>0 DEF RunOnLoop, AddAuxJob, AddAuxJobOnLoop, WakeInv, ExecInv, TypeOK
<1>8. ASSUME NEW j \in GoHandles, GoSchedule(j)
      PROVE  WakeInv'
  BY <1>8, <1>0 DEF GoSchedule, AddAuxJob, AddAuxJobOnLoop, WakeInv, ExecInv, TypeOK
<1>9. ASSUME NEW j \in GoHandles, GoClear(j)
      PROVE  WakeInv'
  BY <1>9, <1>0 DEF GoClear, AddAuxJob, AddAuxJobOnLoop, WakeInv, ExecInv, TypeOK
<1>10. CASE StopNoWait
  BY <1>10, <1>0 DEF StopNoWait, WakeInv, ExecInv, TypeOK
<1>11. ASSUME NEW e \in wakers, Wakeup(e)
      PROVE  WakeInv'
  BY <1>11, <1>0 DEF Wakeup, WakeInv, ExecInv, TypeOK
<1>12. ASSUME NEW t \in Timeouts, TimerFire(t)
      PROVE  WakeInv'
  BY <1>12, <1>0 DEF TimerFire, WakeInv, ExecInv, TypeOK
<1>13. ASSUME NEW t \in Timeouts, TimerEnqueue(t)
      PROVE  WakeInv'
  BY <1>13, <1>0 DEF TimerEnqueue, AddAuxJob, AddAuxJobOnLoop, WakeInv, ExecInv, TypeOK
<1>14. ASSUME NEW i \in Intervals, WorkerTick(i)
      PROVE  WakeInv'
  BY <1>14, <1>0 DEF WorkerTick, AddAuxJob, AddAuxJobOnLoop, WakeInv, ExecInv, TypeOK
<1>15. ASSUME NEW i \in Intervals, WorkerStop(i)
      PROVE  WakeInv'
  BY <1>15, <1>0 DEF WorkerStop, WakeInv, ExecInv, TypeOK
<1>16. ASSUME NEW i \in Intervals, WorkerExit(i)
      PROVE  WakeInv'
  BY <1>16, <1>0 DEF WorkerExit, AddAuxJob, AddAuxJobOnLoop, WakeInv, ExecInv, TypeOK
<1>17. ASSUME NEW t \in Tasks, RunTask(t)
      PROVE  WakeInv'
  BY <1>17, <1>0 DEF RunTask, TakeEntry, WakeInv, ExecInv, TypeOK
<1>18. ASSUME NEW t \in Timeouts, DoTimeout(t)
      PROVE  WakeInv'
  BY <1>18, <1>0 DEF DoTimeout, TakeEntry, NoCallback, Callback, WakeInv, ExecInv, TypeOK
<1>19. ASSUME NEW i \in Intervals, DoInterval(i)
      PROVE  WakeInv'
  BY <1>19, <1>0 DEF DoInterval, TakeEntry, NoCallback, Callback, WakeInv, ExecInv, TypeOK
<1>20. ASSUME NEW i \in Intervals, DoRemove(i)
      PROVE  WakeInv'
  BY <1>20, <1>0 DEF DoRemove, TakeEntry, NoCallback, WakeInv, ExecInv, TypeOK
<1>21. ASSUME NEW m \in Immediates, DoImmediate(m)
      PROVE  WakeInv'
  BY <1>21, <1>0 DEF DoImmediate, TakeEntry, NoCallback, Callback, WakeInv, ExecInv, TypeOK
<1>22. ASSUME NEW j \in GoHandles, DoStart(j)
      PROVE  WakeInv'
  BY <1>22, <1>0 DEF DoStart, TakeEntry, NoCallback, WakeInv, ExecInv, TypeOK
<1>23. ASSUME NEW j \in GoHandles, DoClear(j)
      PROVE  WakeInv'
  BY <1>23, <1>0 DEF DoClear, TakeEntry, NoCallback, WakeInv, ExecInv, TypeOK
<1>24. CASE RunFnReturns
  BY <1>24, <1>0 DEF RunFnReturns, WakeInv, ExecInv, TypeOK
<1>25. CASE RunAuxSwap
  BY <1>25, <1>0 DEF RunAuxSwap, WakeInv, ExecInv, TypeOK
<1>26. CASE EndCallback
  BY <1>26, <1>0 DEF EndCallback, WakeInv, ExecInv, TypeOK
<1>27. CASE StartupDone
  BY <1>27, <1>0 DEF StartupDone, LoopHeader, LeaveLoop, WakeInv, ExecInv, TypeOK
<1>28. CASE SelectWakeup
  BY <1>28, <1>0 DEF SelectWakeup, WakeInv, ExecInv, TypeOK
<1>29. CASE SelectDone
  BY <1>29, <1>0 DEF SelectDone, LeaveLoop, WakeInv, ExecInv, TypeOK
<1>30. CASE WakeupDone
  BY <1>30, <1>0 DEF WakeupDone, LoopHeader, LeaveLoop, WakeInv, ExecInv, TypeOK
<1>31. CASE RunExit
  BY <1>31, <1>0 DEF RunExit, WakeInv, ExecInv, TypeOK
<1>32. CASE PanicInCallback
  BY <1>32, <1>0 DEF PanicInCallback, WakeInv, ExecInv, TypeOK
<1>33. CASE RunFnPanics
  BY <1>33, <1>0 DEF RunFnPanics, WakeInv, ExecInv, TypeOK
<1>34. CASE RunBroadcast
  BY <1>34, <1>0 DEF RunBroadcast, WakeInv, ExecInv, TypeOK
<1>35. CASE StopAsk
  BY <1>35, <1>0 DEF StopAsk, WakeInv, ExecInv, TypeOK
<1>36. CASE StopReturn
  BY <1>36, <1>0 DEF StopReturn, WakeInv, ExecInv, TypeOK
<1>37. CASE TerminateMark
  BY <1>37, <1>0 DEF TerminateMark, WakeInv, ExecInv, TypeOK
<1>38. CASE TerminateAuxDone
  BY <1>38, <1>0 DEF TerminateAuxDone, WakeInv, ExecInv, TypeOK
<1>39. CASE TerminateCancel
  BY <1>39, <1>0 DEF TerminateCancel, WakeInv, ExecInv, TypeOK
<1>40. CASE TerminateReturn
  BY <1>40, <1>0 DEF TerminateReturn, WakeInv, ExecInv, TypeOK
<1>41. CASE Start
  BY <1>41, <1>0 DEF Start, SetRunning, WakeInv, ExecInv, TypeOK
<1>42. CASE Run
  BY <1>42, <1>0 DEF Run, SetRunning, WakeInv, ExecInv, TypeOK
<1>43. CASE Stop
  BY <1>43, <1>0 DEF Stop, WakeInv, ExecInv, TypeOK
<1>44. CASE Terminate
  BY <1>44, <1>0 DEF Terminate, WakeInv, ExecInv, TypeOK
<1>45. CASE UNCHANGED vars
  BY <1>45, <1>0 DEF vars, WakeInv, ExecInv, TypeOK
<1>46. QED
  BY <1>1, <1>2, <1>3, <1>4, <1>5, <1>6, <1>7, <1>8, <1>9, <1>10, <1>11, <1>12,
     <1>13, <1>14, <1>15, <1>16, <1>17, <1>18, <1>19, <1>20, <1>21, <1>22, <1>23, <1>24,
     <1>25, <1>26, <1>27, <1>28, <1>29, <1>30, <1>31, <1>32, <1>33, <1>34, <1>35, <1>36,
     <1>37, <1>38, <1>39, <1>40, <1>41, <1>42, <1>43, <1>44, <1>45
     DEF Next, JsStep, ApiStep, GoroutineStep, EntryStep, LoopStep, LifeStep

\* The loop never sleeps on work or on a stop request: whatever the interleaving of
\* appends, wakeups, runAux and Stop, there is a wakeup in the channel or a goroutine
\* about to send one.
THEOREM WakeupIsNeverLost == Spec => []NoLostWakeup
<1>1. Init => WakeInv
  BY DEF Init, WakeInv
<1>2. IInv /\ WakeInv /\ [Next]_vars => WakeInv'
  BY WakeStep
<1>3. IInv /\ WakeInv => NoLostWakeup
  BY DEF IInv, ExecInv, WakeInv, NoLostWakeup
<1>4. QED
  BY Invariance, <1>1, <1>2, <1>3, PTL DEF Spec

-----------------------------------------------------------------------------
(* Terminate.  What a job that is neither cancelled nor done depends on,   *)
(* before, while and after the loop is terminated.                         *)

\* Terminate works on a loop that does not run, and queues nothing more.
CloseInv ==
  /\ terminated => ~running
  /\ ctl \in {"termAux", "termCancel"} => terminated
  /\ terminated /\ ~(ctl = "termAux" /\ pc = "swap") => aux = <<>>

\* The timeouts and intervals that still have to end.
Unended == (started \ cancelled) \ Immediates

\* They are all in the table, where Terminate finds them.  The last entry of a
\* timeout follows its expiry, and that of an interval its cancellation.
AliveInv ==
  /\ stopChan \subseteq cancelled
  /\ \A j \in Unended : idx[j] # 0
  /\ \A t \in Timeouts : timer[t] = "armed" => t \in started \ cancelled
  /\ \A t \in Timeouts : Waits(E_("timeout", t)) => timer[t] = "done"
  /\ \A i \in Intervals : worker[i] = "exit" => i \in cancelled \/ terminated
  /\ \A i \in Intervals : Waits(E_("remove", i)) => i \in cancelled

CanEnd ==
  /\ \A t \in Unended \cap Timeouts : timer[t] \in {"armed", "fired"} \/ Waits(E_("timeout", t))
  /\ \A i \in Unended \cap Intervals : worker[i] = "run"

Quiet ==
  /\ Unended = {}
  /\ \A i \in Intervals : worker[i] \in {"none", "done"}

\* Until Terminate refuses jobs each of them can end, and when it is over there is
\* none left; in between, their goroutines may already be gone.
EndInv ==
  /\ ~terminated => CanEnd
  /\ terminated /\ ctl \notin {"termAux", "termCancel"} => Quiet

\* An entry says what it does and to which timer or task.
LEMMA EntryDistinct ==
  ASSUME NEW o, NEW d, NEW p, NEW f, E_(o, d) = E_(p, f)
  PROVE  o = p /\ d = f
BY DEF E_

\* removeJob leaves the other jobs in the table.
LEMMA RemoveOthers ==
  ASSUME jobs \in Seq(Jobs), idx \in [Jobs -> Nat], JobsIndexed,
         NEW j \in Jobs, RemoveJob(j)
  PROVE  \A i \in Jobs : i # j /\ idx[i] # 0 => idx'[i] # 0
<1>1. CASE idx[j] = 0
  BY <1>1 DEF RemoveJob
<1>2. CASE idx[j] # 0
  <2> DEFINE last == jobs[Len(jobs)]
  <2>1. last \in Jobs
    BY <1>2 DEF JobsIndexed
  <2>2. idx' = [idx EXCEPT ![last] = idx[j], ![j] = 0]
    BY <1>2 DEF RemoveJob
  <2> HIDE DEF last
  <2> QED BY <2>1, <2>2, <1>2
<1> QED BY <1>1, <1>2

\* What waits after an entry is queued, or refused ...
LEMMA WaitsAppend ==
  ASSUME TypeOK, NEW e \in Entry, batch' = batch,
         aux' = IF terminated THEN aux ELSE Append(aux, e)
  PROVE  /\ \A d \in Entry : Waits(d)' => Waits(d) \/ (~terminated /\ d = e)
         /\ \A d \in Entry : Waits(d) => Waits(d)'
         /\ ~terminated => Waits(e)'
<1>0. aux \in Seq(Entry)
  BY DEF TypeOK
<1>1. CASE terminated
  BY <1>1 DEF Waits, Queued, InBatch
<1>2. CASE ~terminated
  <2>1. /\ Len(aux) \in Nat /\ Len(aux') = Len(aux) + 1 /\ aux'[Len(aux) + 1] = e
        /\ \A k \in 1..Len(aux) : aux'[k] = aux[k]
    BY <1>0, <1>2, SeqFacts
  <2>2. \A d \in Entry : Queued(d)' <=> Queued(d) \/ d = e
    BY <2>1 DEF Queued
  <2> QED BY <2>2, <1>2 DEF Waits, InBatch
<1> QED BY <1>1, <1>2

\* ... after runAux takes the queue ...
LEMMA WaitsSwap ==
  ASSUME batch = <<>>, batch' = aux, aux' = <<>>, NEW d
  PROVE  Waits(d)' <=> Waits(d)
BY DEF Waits, Queued, InBatch

\* ... and after it takes the next entry.
LEMMA WaitsTake ==
  ASSUME TypeOK, NEW op, NEW j, TakeEntry(op, j)
  PROVE  /\ \A d : Waits(d)' => Waits(d)
         /\ \A d : Waits(d) => Waits(d)' \/ d = E_(op, j)
         /\ Waits(E_(op, j))
<1>0. batch \in Seq(Entry) /\ batch # <<>> /\ batch' = Tail(batch) /\ aux' = aux
      /\ Head(batch) = E_(op, j)
  BY DEF TypeOK, TakeEntry, queueVars
<1>1. /\ Len(batch) \in Nat /\ Len(batch) >= 1 /\ Len(batch') = Len(batch) - 1
      /\ batch[1] = E_(op, j)
      /\ \A k \in 1..(Len(batch) - 1) : batch'[k] = batch[k+1]
  BY <1>0
<1>2. ASSUME NEW d PROVE InBatch(d)' => InBatch(d)
  BY <1>1 DEF InBatch
<1>3. ASSUME NEW d, NEW k \in 1..Len(batch), batch[k] = d PROVE InBatch(d)' \/ d = E_(op, j)
  <2>1. CASE k = 1
    BY <2>1, <1>1, <1>3
  <2>2. CASE k # 1
    <3>1. k - 1 \in 1..Len(batch') /\ batch'[k-1] = d
      BY <2>2, <1>1, <1>3
    <3> QED BY <3>1 DEF InBatch
  <2> QED BY <2>1, <2>2
<1>4. InBatch(E_(op, j))
  BY <1>1 DEF InBatch
<1> QED BY <1>0, <1>2, <1>3, <1>4 DEF Waits, Queued, InBatch

\* Every step keeps a terminated loop still and its queue closed.
LEMMA CloseStep ==
  ASSUME IInv, CloseInv, [Next]_vars
  PROVE  CloseInv'
<1>0. TypeOK /\ ExecInv /\ CloseInv
  BY DEF IInv
<1> USE DEF tableVars, timerVars, queueVars, lifeVars, execVars, apiVars
<1>1. ASSUME NEW j \in Timeouts \cup Intervals, JsSchedule(j)
      PROVE  CloseInv'
  BY <1>1, <1>0 DEF JsSchedule, CloseInv, ExecInv, TypeOK
<1>2. ASSUME NEW j \in Timeouts \cup Intervals, JsClear(j)
      PROVE  CloseInv'
  BY <1>2, <1>0 DEF JsClear, CloseInv, ExecInv, TypeOK
<1>3. ASSUME NEW m \in Immediates, JsSetImmediate(m)
      PROVE  CloseInv'
  BY <1>3, <1>0 DEF JsSetImmediate, AddAuxJobOnLoop, CloseInv, ExecInv, TypeOK
<1>4. ASSUME NEW m \in Immediates, JsClearImmediate(m)
      PROVE  CloseInv'
  BY <1>4, <1>0 DEF JsClearImmediate, CloseInv, ExecInv, TypeOK
<1>5. ASSUME NEW j \in Jobs, SetJobRef(j)
      PROVE  CloseInv'
  BY <1>5, <1>0 DEF SetJobRef, CloseInv, ExecInv, TypeOK
<1>6. ASSUME NEW t \in Tasks, JsRunOnLoop(t)
      PROVE  CloseInv'
  BY <1>6, <1>0 DEF JsRunOnLoop, AddAuxJobOnLoop, CloseInv, ExecInv, TypeOK
<1>7. ASSUME NEW t \in Tasks, RunOnLoop(t)
      PROVE  CloseInv'
  BY <1>7, <1>0 DEF RunOnLoop, AddAuxJob, CloseInv, ExecInv, TypeOK
<1>8. ASSUME NEW j \in GoHandles, GoSchedule(j)
      PROVE  CloseInv'
  BY <1>8, <1>0 DEF GoSchedule, AddAuxJob, CloseInv, ExecInv, TypeOK
<1>9. ASSUME NEW j \in GoHandles, GoClear(j)
      PROVE  CloseInv'
  BY <1>9, <1>0 DEF GoClear, AddAuxJob, CloseInv, ExecInv, TypeOK
<1>10. CASE StopNoWait
  BY <1>10, <1>0 DEF StopNoWait, CloseInv, ExecInv, TypeOK
<1>11. ASSUME NEW e \in wakers, Wakeup(e)
      PROVE  CloseInv'
  BY <1>11, <1>0 DEF Wakeup, CloseInv, ExecInv, TypeOK
<1>12. ASSUME NEW t \in Timeouts, TimerFire(t)
      PROVE  CloseInv'
  BY <1>12, <1>0 DEF TimerFire, CloseInv, ExecInv, TypeOK
<1>13. ASSUME NEW t \in Timeouts, TimerEnqueue(t)
      PROVE  CloseInv'
  BY <1>13, <1>0 DEF TimerEnqueue, AddAuxJob, CloseInv, ExecInv, TypeOK
<1>14. ASSUME NEW i \in Intervals, WorkerTick(i)
      PROVE  CloseInv'
  BY <1>14, <1>0 DEF WorkerTick, AddAuxJob, CloseInv, ExecInv, TypeOK
<1>15. ASSUME NEW i \in Intervals, WorkerStop(i)
      PROVE  CloseInv'
  BY <1>15, <1>0 DEF WorkerStop, CloseInv, ExecInv, TypeOK
<1>16. ASSUME NEW i \in Intervals, WorkerExit(i)
      PROVE  CloseInv'
  BY <1>16, <1>0 DEF WorkerExit, AddAuxJob, CloseInv, ExecInv, TypeOK
<1>17. ASSUME NEW t \in Tasks, RunTask(t)
      PROVE  CloseInv'
  BY <1>17, <1>0 DEF RunTask, TakeEntry, CloseInv, ExecInv, TypeOK
<1>18. ASSUME NEW t \in Timeouts, DoTimeout(t)
      PROVE  CloseInv'
  BY <1>18, <1>0 DEF DoTimeout, TakeEntry, NoCallback, Callback, CloseInv, ExecInv, TypeOK
<1>19. ASSUME NEW i \in Intervals, DoInterval(i)
      PROVE  CloseInv'
  BY <1>19, <1>0 DEF DoInterval, TakeEntry, NoCallback, Callback, CloseInv, ExecInv, TypeOK
<1>20. ASSUME NEW i \in Intervals, DoRemove(i)
      PROVE  CloseInv'
  BY <1>20, <1>0 DEF DoRemove, TakeEntry, NoCallback, CloseInv, ExecInv, TypeOK
<1>21. ASSUME NEW m \in Immediates, DoImmediate(m)
      PROVE  CloseInv'
  BY <1>21, <1>0 DEF DoImmediate, TakeEntry, NoCallback, Callback, CloseInv, ExecInv, TypeOK
<1>22. ASSUME NEW j \in GoHandles, DoStart(j)
      PROVE  CloseInv'
  BY <1>22, <1>0 DEF DoStart, TakeEntry, NoCallback, CloseInv, ExecInv, TypeOK
<1>23. ASSUME NEW j \in GoHandles, DoClear(j)
      PROVE  CloseInv'
  BY <1>23, <1>0 DEF DoClear, TakeEntry, NoCallback, CloseInv, ExecInv, TypeOK
<1>24. CASE RunFnReturns
  BY <1>24, <1>0 DEF RunFnReturns, CloseInv, ExecInv, TypeOK
<1>25. CASE RunAuxSwap
  BY <1>25, <1>0 DEF RunAuxSwap, CloseInv, ExecInv, TypeOK
<1>26. CASE EndCallback
  BY <1>26, <1>0 DEF EndCallback, CloseInv, ExecInv, TypeOK
<1>27. CASE StartupDone
  BY <1>27, <1>0 DEF StartupDone, LoopHeader, LeaveLoop, CloseInv, ExecInv, TypeOK
<1>28. CASE SelectWakeup
  BY <1>28, <1>0 DEF SelectWakeup, CloseInv, ExecInv, TypeOK
<1>29. CASE SelectDone
  BY <1>29, <1>0 DEF SelectDone, LeaveLoop, CloseInv, ExecInv, TypeOK
<1>30. CASE WakeupDone
  BY <1>30, <1>0 DEF WakeupDone, LoopHeader, LeaveLoop, CloseInv, ExecInv, TypeOK
<1>31. CASE RunExit
  BY <1>31, <1>0 DEF RunExit, CloseInv, ExecInv, TypeOK
<1>32. CASE PanicInCallback
  BY <1>32, <1>0 DEF PanicInCallback, CloseInv, ExecInv, TypeOK
<1>33. CASE RunFnPanics
  BY <1>33, <1>0 DEF RunFnPanics, CloseInv, ExecInv, TypeOK
<1>34. CASE RunBroadcast
  BY <1>34, <1>0 DEF RunBroadcast, CloseInv, ExecInv, TypeOK
<1>35. CASE StopAsk
  BY <1>35, <1>0 DEF StopAsk, CloseInv, ExecInv, TypeOK
<1>36. CASE StopReturn
  BY <1>36, <1>0 DEF StopReturn, CloseInv, ExecInv, TypeOK
<1>37. CASE TerminateMark
  BY <1>37, <1>0 DEF TerminateMark, CloseInv, ExecInv, TypeOK
<1>38. CASE TerminateAuxDone
  BY <1>38, <1>0 DEF TerminateAuxDone, CloseInv, ExecInv, TypeOK
<1>39. CASE TerminateCancel
  BY <1>39, <1>0 DEF TerminateCancel, CloseInv, ExecInv, TypeOK
<1>40. CASE TerminateReturn
  BY <1>40, <1>0 DEF TerminateReturn, CloseInv, ExecInv, TypeOK
<1>41. CASE Start
  BY <1>41, <1>0 DEF Start, SetRunning, CloseInv, ExecInv, TypeOK
<1>42. CASE Run
  BY <1>42, <1>0 DEF Run, SetRunning, CloseInv, ExecInv, TypeOK
<1>43. CASE Stop
  BY <1>43, <1>0 DEF Stop, CloseInv, ExecInv, TypeOK
<1>44. CASE Terminate
  BY <1>44, <1>0 DEF Terminate, CloseInv, ExecInv, TypeOK
<1>45. CASE UNCHANGED vars
  BY <1>45, <1>0 DEF vars, CloseInv, ExecInv, TypeOK
<1>46. QED
  BY <1>1, <1>2, <1>3, <1>4, <1>5, <1>6, <1>7, <1>8, <1>9, <1>10, <1>11, <1>12,
     <1>13, <1>14, <1>15, <1>16, <1>17, <1>18, <1>19, <1>20, <1>21, <1>22, <1>23, <1>24,
     <1>25, <1>26, <1>27, <1>28, <1>29, <1>30, <1>31, <1>32, <1>33, <1>34, <1>35, <1>36,
     <1>37, <1>38, <1>39, <1>40, <1>41, <1>42, <1>43, <1>44, <1>45
     DEF Next, JsStep, ApiStep, GoroutineStep, EntryStep, LoopStep, LifeStep

\* Steps that concern no timeout and no interval.
LEMMA EndKept ==
  ASSUME AliveInv, EndInv, UNCHANGED <<idx, timer, worker, stopChan>>,
         terminated' = terminated,
         terminated /\ ctl' \notin {"termAux", "termCancel"} => ctl \notin {"termAux", "termCancel"},
         \A j \in Timeouts \cup Intervals :
           (j \in started' <=> j \in started) /\ (j \in cancelled' <=> j \in cancelled),
         started \subseteq Jobs, started' \subseteq Jobs, stopChan \subseteq Intervals,
         \A t \in Timeouts : Waits(E_("timeout", t))' <=> Waits(E_("timeout", t)),
         \A i \in Intervals : Waits(E_("remove", i))' => Waits(E_("remove", i))
  PROVE  AliveInv' /\ EndInv'
<1>1. Unended' = Unended /\ Unended \subseteq Timeouts \cup Intervals
  BY Constants DEF Unended, Jobs
<1>2. AliveInv'
  <2>1. stopChan' \subseteq cancelled'
    BY DEF AliveInv
  <2>2. \A t \in Timeouts : timer'[t] = "armed" => t \in started' \ cancelled'
    BY DEF AliveInv
  <2>3. \A i \in Intervals : worker'[i] = "exit" => i \in cancelled' \/ terminated'
    BY DEF AliveInv
  <2>4. \A i \in Intervals : Waits(E_("remove", i))' => i \in cancelled'
    BY DEF AliveInv
  <2> QED BY <2>1, <2>2, <2>3, <2>4, <1>1 DEF AliveInv
<1>3. EndInv'
  BY <1>1 DEF EndInv, CanEnd, Quiet
<1> QED BY <1>2, <1>3

\* The same for a step that also leaves the queue alone.
LEMMA EndSame ==
  ASSUME TypeOK, TypeOK', AliveInv, EndInv, UNCHANGED <<started, cancelled, idx, timer, worker, stopChan>>,
         UNCHANGED <<aux, batch, terminated>>,
         terminated /\ ctl' \notin {"termAux", "termCancel"} => ctl \notin {"termAux", "termCancel"}
  PROVE  AliveInv' /\ EndInv'
<1>1. \A d : Waits(d)' <=> Waits(d)
  BY DEF Waits, Queued, InBatch
<1>2. started \subseteq Jobs /\ stopChan \subseteq Intervals
  BY DEF TypeOK
<1> QED BY <1>1, <1>2, EndKept

\* The same for a step that queues another kind of entry ...
LEMMA EndAppend ==
  ASSUME TypeOK, TypeOK', AliveInv, EndInv, UNCHANGED <<idx, timer, worker, stopChan>>,
         NEW e \in Entry, batch' = batch, aux' = IF terminated THEN aux ELSE Append(aux, e),
         e.op \notin {"timeout", "remove"}, UNCHANGED <<terminated, ctl>>,
         \A j \in Timeouts \cup Intervals :
           (j \in started' <=> j \in started) /\ (j \in cancelled' <=> j \in cancelled)
  PROVE  AliveInv' /\ EndInv'
<1>1. \A t \in Timeouts : /\ E_("timeout", t) \in Entry /\ E_("timeout", t) # e
  BY Constants, EntryFacts
<1>2. \A i \in Intervals : E_("remove", i) \in Entry /\ E_("remove", i) # e
  BY Constants, EntryFacts
<1>3. \A t \in Timeouts : Waits(E_("timeout", t))' <=> Waits(E_("timeout", t))
  BY <1>1, WaitsAppend
<1>4. \A i \in Intervals : Waits(E_("remove", i))' => Waits(E_("remove", i))
  BY <1>2, WaitsAppend
<1>5. started \subseteq Jobs /\ started' \subseteq Jobs /\ stopChan \subseteq Intervals
  BY DEF TypeOK
<1> QED BY <1>3, <1>4, <1>5, EndKept

\* ... or takes one.
LEMMA EndTake ==
  ASSUME TypeOK, TypeOK', AliveInv, EndInv, UNCHANGED <<started, idx, timer, worker, stopChan>>,
         NEW op, NEW id, TakeEntry(op, id), op # "timeout",
         \A j \in Timeouts \cup Intervals : j \in cancelled' <=> j \in cancelled
  PROVE  AliveInv' /\ EndInv'
<1>1. \A t \in Timeouts : E_("timeout", t) # E_(op, id)
  BY EntryDistinct
<1>2. \A t \in Timeouts : Waits(E_("timeout", t))' <=> Waits(E_("timeout", t))
  BY <1>1, WaitsTake
<1>3. \A i \in Intervals : Waits(E_("remove", i))' => Waits(E_("remove", i))
  BY WaitsTake
<1>4. started \subseteq Jobs /\ stopChan \subseteq Intervals
  BY DEF TypeOK
<1>5. terminated' = terminated /\ ctl' = ctl
  BY DEF TakeEntry, queueVars, lifeVars
<1> QED BY <1>2, <1>3, <1>4, <1>5, EndKept

\* Scheduling a job: while Terminate runs the queue nothing is promised yet.
LEMMA EndStart ==
  ASSUME IInv, CloseInv, AliveInv, EndInv, NEW j \in Timeouts \cup Intervals,
         j \notin started, StartJob(j), pc \in {"fn", "aux", "cb"}, UNCHANGED <<terminated, ctl>>,
         ~Waits(E_("timeout", j)), ~Waits(E_("remove", j)),
         \A t \in Timeouts : Waits(E_("timeout", t))' <=> Waits(E_("timeout", t)),
         \A i \in Intervals : Waits(E_("remove", i))' => Waits(E_("remove", i))
  PROVE  AliveInv' /\ EndInv'
<1>0. /\ TypeOK /\ ExecInv /\ j \in Jobs /\ j \notin cancelled /\ j \notin Immediates
      /\ Len(jobs) \in Nat
  BY Constants DEF IInv, TypeOK, JobsInv
<1>1. Unended' = Unended \cup {j} /\ cancelled' = cancelled /\ started' = started \cup {j}
      /\ stopChan' = stopChan
  BY <1>0 DEF Unended, StartJob
<1>2. \A i \in Unended' : idx'[i] # 0
  BY <1>0, <1>1 DEF AliveInv, StartJob, TypeOK, Unended
<1>3. /\ \A t \in Timeouts : timer'[t] = IF t = j THEN "armed" ELSE timer[t]
      /\ \A i \in Intervals : worker'[i] = IF i = j THEN "run" ELSE worker[i]
  BY <1>0, Constants DEF StartJob, TypeOK
<1>4. AliveInv'
  <2>1. \A t \in Timeouts : timer'[t] = "armed" => t \in started' \ cancelled'
    BY <1>0, <1>1, <1>3 DEF AliveInv
  <2>2. \A t \in Timeouts : Waits(E_("timeout", t))' => timer'[t] = "done"
    BY <1>3 DEF AliveInv
  <2>3. \A i \in Intervals : worker'[i] = "exit" => i \in cancelled' \/ terminated'
    BY <1>1, <1>3 DEF AliveInv
  <2>4. /\ \A i \in Intervals : Waits(E_("remove", i))' => i \in cancelled'
        /\ stopChan' \subseteq cancelled'
    BY <1>1 DEF AliveInv
  <2> QED BY <2>1, <2>2, <2>3, <2>4, <1>2 DEF AliveInv
<1>5. EndInv'
  <2>1. terminated => ctl = "termAux"
    BY <1>0 DEF CloseInv, ExecInv
  <2>2. ASSUME ~terminated PROVE CanEnd'
    <3>1. \A t \in Unended' \cap Timeouts : timer'[t] \in {"armed", "fired"} \/ Waits(E_("timeout", t))'
      BY <2>2, <1>1, <1>3 DEF EndInv, CanEnd
    <3>2. \A i \in Unended' \cap Intervals : worker'[i] = "run"
      BY <2>2, <1>1, <1>3 DEF EndInv, CanEnd
    <3> QED BY <3>1, <3>2 DEF CanEnd
  <2> QED BY <2>1, <2>2 DEF EndInv
<1> QED BY <1>4, <1>5

\* A step that cancels a timeout or an interval, or finds it cancelled: the timer is
\* no longer armed, the other jobs keep what they depend on.
LEMMA EndCancel ==
  ASSUME TypeOK, AliveInv, EndInv, NEW j \in Timeouts \cup Intervals,
         started' = started, cancelled' = cancelled \cup {j}, j \in started,
         \A i \in Jobs : i # j /\ idx[i] # 0 => idx'[i] # 0,
         timer' = timer \/ (j \in Timeouts /\ timer' = [timer EXCEPT ![j] = "done"]),
         j \in Timeouts => timer'[j] # "armed",
         worker' = worker, stopChan' \subseteq stopChan \cup {j}, UNCHANGED <<terminated, ctl>>,
         \A t \in Timeouts : Waits(E_("timeout", t))' => Waits(E_("timeout", t)),
         \A t \in Timeouts : t # j /\ Waits(E_("timeout", t)) => Waits(E_("timeout", t))',
         \A i \in Intervals : Waits(E_("remove", i))' => Waits(E_("remove", i))
  PROVE  AliveInv' /\ EndInv'
<1>1. Unended' = Unended \ {j} /\ Unended \subseteq Jobs
  BY DEF Unended, TypeOK
<1>2. /\ \A t \in Timeouts : t # j => timer'[t] = timer[t]
      /\ \A t \in Timeouts : timer'[t] = timer[t] \/ timer'[t] = "done"
  BY DEF TypeOK
<1>3. AliveInv'
  <2>1. \A i \in Unended' : idx'[i] # 0
    BY <1>1 DEF AliveInv
  <2>2. \A t \in Timeouts : timer'[t] = "armed" => t \in started' \ cancelled'
    BY <1>2 DEF AliveInv
  <2>3. \A t \in Timeouts : Waits(E_("timeout", t))' => timer'[t] = "done"
    BY <1>2 DEF AliveInv
  <2>4. \A i \in Intervals : worker'[i] = "exit" => i \in cancelled' \/ terminated'
    BY DEF AliveInv
  <2>5. \A i \in Intervals : Waits(E_("remove", i))' => i \in cancelled'
    BY DEF AliveInv
  <2>6. stopChan' \subseteq cancelled'
    BY DEF AliveInv
  <2> QED BY <2>1, <2>2, <2>3, <2>4, <2>5, <2>6 DEF AliveInv
<1>4. EndInv'
  <2>1. ASSUME CanEnd PROVE CanEnd'
    <3>1. \A t \in Unended' \cap Timeouts : timer'[t] \in {"armed", "fired"} \/ Waits(E_("timeout", t))'
      BY <2>1, <1>1, <1>2 DEF CanEnd
    <3>2. \A i \in Unended' \cap Intervals : worker'[i] = "run"
      BY <2>1, <1>1 DEF CanEnd
    <3> QED BY <3>1, <3>2 DEF CanEnd
  <2>2. Quiet => Quiet'
    BY <1>1 DEF Quiet
  <2> QED BY <2>1, <2>2 DEF EndInv
<1> QED BY <1>3, <1>4

\* Clearing a job through its handle cancels it so.
LEMMA EndClear ==
  ASSUME IInv, AliveInv, EndInv, NEW j \in Timeouts \cup Intervals, j \in started, ClearJob(j),
         UNCHANGED <<terminated, ctl>>,
         \A t \in Timeouts : Waits(E_("timeout", t))' <=> Waits(E_("timeout", t)),
         \A i \in Intervals : Waits(E_("remove", i))' => Waits(E_("remove", i))
  PROVE  AliveInv' /\ EndInv'
<1>0. TypeOK /\ JobsIndexed /\ TableInv /\ j \in Jobs
  BY Constants DEF IInv, TableInv
<1>1. started' = started /\ cancelled' = cancelled \cup {j}
  BY <1>0, ClearJobStep
<1>2. \A i \in Jobs : i # j /\ idx[i] # 0 => idx'[i] # 0
  <2>1. RemoveJob(j) \/ UNCHANGED idx
    BY DEF ClearJob, ClearTimeout, ClearInterval, tableVars
  <2> QED BY <2>1, <1>0, RemoveOthers DEF TypeOK
<1>3. worker' = worker /\ stopChan' \subseteq stopChan \cup {j}
  BY DEF ClearJob, ClearTimeout, ClearInterval, timerVars
<1>4. /\ timer' = timer \/ (j \in Timeouts /\ timer' = [timer EXCEPT ![j] = "done"])
      /\ j \in Timeouts => timer'[j] # "armed"
  BY <1>0 DEF ClearJob, ClearTimeout, ClearInterval, timerVars, AliveInv, TypeOK
<1> QED BY <1>0, <1>1, <1>2, <1>3, <1>4, EndCancel

\* A start finds the loop as Terminate left it, or was never closed.
LEMMA EndReopen ==
  ASSUME AliveInv, EndInv, ctl = "idle", terminated' = FALSE,
         UNCHANGED <<started, cancelled, idx, timer, worker, stopChan, ctl, aux, batch>>
  PROVE  AliveInv' /\ EndInv'
<1>1. Unended' = Unended /\ \A d : Waits(d)' <=> Waits(d)
  BY DEF Unended, Waits, Queued, InBatch
<1>2. \A i \in Intervals : worker[i] = "exit" => i \in cancelled
  BY DEF AliveInv, EndInv, Quiet
<1>3. AliveInv'
  BY <1>1, <1>2 DEF AliveInv
<1>4. CanEnd'
  <2>1. CanEnd
    BY DEF EndInv, Quiet, CanEnd
  <2> QED BY <2>1, <1>1 DEF CanEnd
<1> QED BY <1>3, <1>4 DEF EndInv

\* Nothing waits for a job that was not scheduled.
LEMMA NotYet ==
  ASSUME TypeOK, QueueInv, NEW j \in Timeouts \cup Intervals, j \notin started
  PROVE  ~Waits(E_("timeout", j)) /\ ~Waits(E_("remove", j))
<1>1. \A op \in {"timeout", "remove"} : E_(op, j).op = op /\ E_(op, j).id = j
  BY Constants, EntryFacts
<1> QED BY <1>1 DEF Waits, Queued, InBatch, QueueInv, EntriesInv, EntryOK

\* Every step keeps what the jobs depend on.
LEMMA EndStep ==
  ASSUME IInv, CloseInv, AliveInv, EndInv, [Next]_vars
  PROVE  AliveInv' /\ EndInv'
<1>0. /\ IInv /\ TypeOK /\ TypeOK' /\ JobsIndexed /\ JobsInv /\ ExecInv /\ QueueInv
      /\ CloseInv /\ AliveInv /\ EndInv
  BY TableStep DEF IInv, TableInv
<1> USE DEF tableVars, timerVars, queueVars, lifeVars, execVars, apiVars
<1>1. ASSUME NEW j \in Timeouts \cup Intervals, JsSchedule(j)
      PROVE  AliveInv' /\ EndInv'
  <2>1. StartJob(j) /\ j \notin started /\ pc \in {"fn", "aux", "cb"}
        /\ UNCHANGED <<terminated, ctl, aux, batch>>
    BY <1>1 DEF JsSchedule, InCallback
  <2>2. \A d : Waits(d)' <=> Waits(d)
    BY <2>1 DEF Waits, Queued, InBatch
  <2> QED BY <2>1, <2>2, <1>0, NotYet, EndStart
<1>2. ASSUME NEW j \in Timeouts \cup Intervals, JsClear(j)
      PROVE  AliveInv' /\ EndInv'
  <2>1. ClearJob(j) /\ j \in started /\ UNCHANGED <<terminated, ctl, aux, batch>>
    BY <1>2 DEF JsClear
  <2>2. \A d : Waits(d)' <=> Waits(d)
    BY <2>1 DEF Waits, Queued, InBatch
  <2> QED BY <2>1, <2>2, <1>0, EndClear
<1>3. ASSUME NEW m \in Immediates, JsSetImmediate(m)
      PROVE  AliveInv' /\ EndInv'
  <2>1. E_("immediate", m) \in Entry /\ E_("immediate", m).op = "immediate"
    BY Constants, EntryFacts
  <2> QED BY <1>3, <2>1, <1>0, Constants, EndAppend DEF JsSetImmediate, AddAuxJobOnLoop
<1>4. ASSUME NEW m \in Immediates, JsClearImmediate(m)
      PROVE  AliveInv' /\ EndInv'
  <2>1. started \subseteq Jobs /\ stopChan \subseteq Intervals
    BY <1>0 DEF TypeOK
  <2>2. /\ UNCHANGED <<started, idx, timer, worker, stopChan, terminated, ctl, aux, batch>>
        /\ cancelled' = cancelled \cup {m}
    BY <1>4 DEF JsClearImmediate, Uncount
  <2>3. \A d : Waits(d)' <=> Waits(d)
    BY <2>2 DEF Waits, Queued, InBatch
  <2> QED BY <2>1, <2>2, <2>3, <1>0, Constants, EndKept
<1>5. ASSUME NEW j \in Jobs, SetJobRef(j)
      PROVE  AliveInv' /\ EndInv'
  BY <1>5, <1>0, EndSame DEF SetJobRef
<1>6. ASSUME NEW t \in Tasks, JsRunOnLoop(t)
      PROVE  AliveInv' /\ EndInv'
  <2>1. E_("task", t) \in Entry /\ E_("task", t).op = "task"
    BY Constants, EntryFacts
  <2> QED BY <1>6, <2>1, <1>0, Constants, EndAppend DEF JsRunOnLoop, AddAuxJobOnLoop
<1>7. ASSUME NEW t \in Tasks, RunOnLoop(t)
      PROVE  AliveInv' /\ EndInv'
  <2>1. E_("task", t) \in Entry /\ E_("task", t).op = "task"
    BY Constants, EntryFacts
  <2> QED BY <1>7, <2>1, <1>0, Constants, EndAppend DEF RunOnLoop, AddAuxJob
<1>8. ASSUME NEW j \in GoHandles, GoSchedule(j)
      PROVE  AliveInv' /\ EndInv'
  <2>1. E_("start", j) \in Entry /\ E_("start", j).op = "start"
    BY Constants, EntryFacts
  <2> QED BY <1>8, <2>1, <1>0, Constants, EndAppend DEF GoSchedule, AddAuxJob
<1>9. ASSUME NEW j \in GoHandles, GoClear(j)
      PROVE  AliveInv' /\ EndInv'
  <2>1. E_("clear", j) \in Entry /\ E_("clear", j).op = "clear"
    BY Constants, EntryFacts
  <2> QED BY <1>9, <2>1, <1>0, Constants, EndAppend DEF GoClear, AddAuxJob
<1>10. CASE StopNoWait
  BY <1>10, <1>0, EndSame DEF StopNoWait
<1>11. ASSUME NEW e \in wakers, Wakeup(e)
      PROVE  AliveInv' /\ EndInv'
  BY <1>11, <1>0, EndSame DEF Wakeup
<1>12. ASSUME NEW t \in Timeouts, TimerFire(t)
      PROVE  AliveInv' /\ EndInv'
  <2>1. /\ timer[t] = "armed" /\ \A u \in Timeouts : timer'[u] = IF u = t THEN "fired" ELSE timer[u]
        /\ UNCHANGED <<started, cancelled, idx, worker, stopChan, terminated, ctl, aux, batch>>
    BY <1>12, <1>0 DEF TimerFire, TypeOK
  <2>2. Unended' = Unended /\ \A d : Waits(d)' <=> Waits(d)
    BY <2>1 DEF Unended, Waits, Queued, InBatch
  <2>3. AliveInv'
    BY <2>1, <2>2, <1>0 DEF AliveInv
  <2>4. EndInv'
    BY <2>1, <2>2, <1>0 DEF EndInv, CanEnd, Quiet
  <2> QED BY <2>3, <2>4
<1>13. ASSUME NEW t \in Timeouts, TimerEnqueue(t)
      PROVE  AliveInv' /\ EndInv'
  <2>1. /\ timer[t] = "fired" /\ \A u \in Timeouts : timer'[u] = IF u = t THEN "done" ELSE timer[u]
        /\ UNCHANGED <<started, cancelled, idx, worker, stopChan, terminated, ctl, batch>>
        /\ aux' = IF terminated THEN aux ELSE Append(aux, E_("timeout", t))
    BY <1>13, <1>0 DEF TimerEnqueue, AddAuxJob, TypeOK
  <2>2. /\ \A u \in Timeouts : E_("timeout", u) \in Entry /\ (E_("timeout", u) = E_("timeout", t) => u = t)
        /\ \A i \in Intervals : E_("remove", i) \in Entry /\ E_("remove", i) # E_("timeout", t)
    BY Constants, EntryFacts
  <2>3. /\ \A u \in Timeouts : Waits(E_("timeout", u))' => Waits(E_("timeout", u)) \/ u = t
        /\ \A u \in Timeouts : Waits(E_("timeout", u)) => Waits(E_("timeout", u))'
        /\ ~terminated => Waits(E_("timeout", t))'
        /\ \A i \in Intervals : Waits(E_("remove", i))' => Waits(E_("remove", i))
    BY <2>1, <2>2, <1>0, WaitsAppend
  <2>4. Unended' = Unended
    BY <2>1 DEF Unended
  <2>5. AliveInv'
    BY <2>1, <2>3, <2>4, <1>0 DEF AliveInv
  <2>6. EndInv'
    BY <2>1, <2>3, <2>4, <1>0 DEF EndInv, CanEnd, Quiet
  <2> QED BY <2>5, <2>6
<1>14. ASSUME NEW i \in Intervals, WorkerTick(i)
      PROVE  AliveInv' /\ EndInv'
  <2>1. /\ worker[i] = "run" /\ \A l \in Intervals : worker'[l] = IF l = i THEN (IF terminated THEN "exit" ELSE "run") ELSE worker[l]
        /\ UNCHANGED <<started, cancelled, idx, timer, stopChan, terminated, ctl, batch>>
        /\ aux' = IF terminated THEN aux ELSE Append(aux, E_("interval", i))
    BY <1>14, <1>0 DEF WorkerTick, AddAuxJob, TypeOK
  <2>2. /\ \A u \in Timeouts : E_("timeout", u) \in Entry /\ E_("timeout", u) # E_("interval", i)
        /\ \A l \in Intervals : E_("remove", l) \in Entry /\ E_("remove", l) # E_("interval", i)
        /\ E_("interval", i) \in Entry
    BY Constants, EntryFacts
  <2>3. /\ \A u \in Timeouts : Waits(E_("timeout", u))' <=> Waits(E_("timeout", u))
        /\ \A l \in Intervals : Waits(E_("remove", l))' => Waits(E_("remove", l))
    BY <2>1, <2>2, <1>0, WaitsAppend
  <2>4. Unended' = Unended
    BY <2>1 DEF Unended
  <2>5. AliveInv'
    BY <2>1, <2>3, <2>4, <1>0 DEF AliveInv
  <2>6. EndInv'
    BY <2>1, <2>3, <2>4, <1>0 DEF EndInv, CanEnd, Quiet
  <2> QED BY <2>5, <2>6
<1>15. ASSUME NEW i \in Intervals, WorkerStop(i)
      PROVE  AliveInv' /\ EndInv'
  <2>1. /\ worker[i] = "run" /\ \A l \in Intervals : worker'[l] = IF l = i THEN "exit" ELSE worker[l]
        /\ UNCHANGED <<started, cancelled, idx, timer, stopChan, terminated, ctl, aux, batch>>
        /\ i \in stopChan
    BY <1>15, <1>0 DEF WorkerStop, TypeOK
  <2>2. Unended' = Unended /\ i \in cancelled /\ \A d : Waits(d)' <=> Waits(d)
    BY <2>1, <1>0 DEF Unended, AliveInv, Waits, Queued, InBatch
  <2>3. AliveInv'
    BY <2>1, <2>2, <1>0 DEF AliveInv
  <2>4. i \notin Unended
    BY <2>2 DEF Unended
  <2>5. EndInv'
    BY <2>1, <2>2, <2>4, <1>0 DEF EndInv, CanEnd, Quiet
  <2> QED BY <2>3, <2>5
<1>16. ASSUME NEW i \in Intervals, WorkerExit(i)
      PROVE  AliveInv' /\ EndInv'
  <2>1. /\ worker[i] = "exit" /\ \A l \in Intervals : worker'[l] = IF l = i THEN "done" ELSE worker[l]
        /\ UNCHANGED <<started, cancelled, idx, timer, stopChan, terminated, ctl, batch>>
        /\ aux' = IF terminated THEN aux ELSE Append(aux, E_("remove", i))
    BY <1>16, <1>0 DEF WorkerExit, AddAuxJob, TypeOK
  <2>2. /\ \A u \in Timeouts : E_("timeout", u) \in Entry /\ E_("timeout", u) # E_("remove", i)
        /\ \A l \in Intervals : E_("remove", l) \in Entry /\ (E_("remove", l) = E_("remove", i) => l = i)
    BY Constants, EntryFacts
  <2>3. /\ \A u \in Timeouts : Waits(E_("timeout", u))' <=> Waits(E_("timeout", u))
        /\ \A l \in Intervals : Waits(E_("remove", l))' => Waits(E_("remove", l)) \/ (l = i /\ ~terminated)
    BY <2>1, <2>2, <1>0, WaitsAppend
  <2>4. Unended' = Unended
    BY <2>1 DEF Unended
  <2>5. AliveInv'
    BY <2>1, <2>3, <2>4, <1>0 DEF AliveInv
  <2>6. EndInv'
    <3>1. ~terminated => i \notin Unended
      BY <2>1, <1>0 DEF AliveInv, Unended
    <3> QED BY <3>1, <2>1, <2>3, <2>4, <1>0 DEF EndInv, CanEnd, Quiet
  <2> QED BY <2>5, <2>6
<1>17. ASSUME NEW t \in Tasks, RunTask(t)
      PROVE  AliveInv' /\ EndInv'
  <2>1. TakeEntry("task", t) /\ UNCHANGED <<started, idx, timer, worker, stopChan>>
    BY <1>17 DEF RunTask
  <2>2. \A l \in Timeouts \cup Intervals : l \in cancelled' <=> l \in cancelled
    BY <1>17, Constants DEF RunTask
  <2> QED BY <2>1, <2>2, <1>0, EndTake
<1>18. ASSUME NEW t \in Timeouts, DoTimeout(t)
      PROVE  AliveInv' /\ EndInv'
  <2>1. /\ TakeEntry("timeout", t) /\ RemoveJob(t) /\ UNCHANGED <<started, timer, worker, stopChan>>
        /\ cancelled' = cancelled \cup {t}
    BY <1>18 DEF DoTimeout, Uncount
  <2>2. t \in Jobs /\ t \in started /\ UNCHANGED <<terminated, ctl>>
    BY <2>1, <1>0, HeadOK, Constants, EntryFacts DEF EntryOK, TakeEntry
  <2>3. \A i \in Jobs : i # t /\ idx[i] # 0 => idx'[i] # 0
    BY <2>1, <2>2, <1>0, RemoveOthers DEF TypeOK
  <2>4. timer'[t] # "armed"
    BY <2>1, <1>0, WaitsTake DEF AliveInv
  <2>5. \A u \in Timeouts : u # t /\ Waits(E_("timeout", u)) => Waits(E_("timeout", u))'
    BY <2>1, <1>0, WaitsTake, EntryDistinct
  <2>6. \A d : Waits(d)' => Waits(d)
    BY <2>1, <1>0, WaitsTake
  <2> QED BY <2>1, <2>2, <2>3, <2>4, <2>5, <2>6, <1>0, EndCancel
<1>19. ASSUME NEW i \in Intervals, DoInterval(i)
      PROVE  AliveInv' /\ EndInv'
  <2>1. TakeEntry("interval", i) /\ UNCHANGED <<started, idx, timer, worker, stopChan>>
    BY <1>19 DEF DoInterval
  <2>2. \A l \in Timeouts \cup Intervals : l \in cancelled' <=> l \in cancelled
    BY <1>19, Constants DEF DoInterval
  <2> QED BY <2>1, <2>2, <1>0, EndTake
<1>20. ASSUME NEW i \in Intervals, DoRemove(i)
      PROVE  AliveInv' /\ EndInv'
  <2>1. /\ TakeEntry("remove", i) /\ RemoveJob(i)
        /\ UNCHANGED <<started, cancelled, timer, worker, stopChan>>
    BY <1>20 DEF DoRemove
  <2>2. i \in Jobs /\ i \in started /\ UNCHANGED <<terminated, ctl>>
    BY <2>1, <1>0, HeadOK, Constants, EntryFacts DEF EntryOK, TakeEntry
  <2>3. \A l \in Jobs : l # i /\ idx[l] # 0 => idx'[l] # 0
    BY <2>1, <2>2, <1>0, RemoveOthers DEF TypeOK
  <2>4. cancelled' = cancelled \cup {i}
    BY <2>1, <1>0, WaitsTake DEF AliveInv
  <2>5. \A u \in Timeouts : Waits(E_("timeout", u)) => Waits(E_("timeout", u))'
    BY <2>1, <1>0, WaitsTake, EntryDistinct
  <2>6. \A d : Waits(d)' => Waits(d)
    BY <2>1, <1>0, WaitsTake
  <2> QED BY <2>1, <2>2, <2>3, <2>4, <2>5, <2>6, <1>0, Constants, EndCancel
<1>21. ASSUME NEW m \in Immediates, DoImmediate(m)
      PROVE  AliveInv' /\ EndInv'
  <2>1. TakeEntry("immediate", m) /\ UNCHANGED <<started, idx, timer, worker, stopChan>>
    BY <1>21 DEF DoImmediate
  <2>2. \A l \in Timeouts \cup Intervals : l \in cancelled' <=> l \in cancelled
    BY <1>21, Constants DEF DoImmediate, Uncount
  <2> QED BY <2>1, <2>2, <1>0, EndTake
<1>22. ASSUME NEW j \in GoHandles, DoStart(j)
      PROVE  AliveInv' /\ EndInv'
  <2>1. TakeEntry("start", j) /\ StartJob(j) /\ j \in Timeouts \cup Intervals
    BY <1>22, ParamAssumption DEF DoStart
  <2>2. j \notin started /\ pc \in {"fn", "aux", "cb"} /\ UNCHANGED <<terminated, ctl>>
    BY <2>1, <1>0, HeadOK, Constants, EntryFacts DEF EntryOK, TakeEntry
  <2>3. \A u \in Timeouts : Waits(E_("timeout", u)) => Waits(E_("timeout", u))'
    BY <2>1, <1>0, WaitsTake, EntryDistinct
  <2>4. \A d : Waits(d)' => Waits(d)
    BY <2>1, <1>0, WaitsTake
  <2> QED BY <2>1, <2>2, <2>3, <2>4, <1>0, NotYet, EndStart
<1>23. ASSUME NEW j \in GoHandles, DoClear(j)
      PROVE  AliveInv' /\ EndInv'
  <2>1. TakeEntry("clear", j) /\ ClearJob(j) /\ j \in Timeouts \cup Intervals
    BY <1>23, ParamAssumption DEF DoClear
  <2>2. j \in started /\ UNCHANGED <<terminated, ctl>>
    BY <2>1, <1>23, <1>0, ClearIsStarted DEF TakeEntry
  <2>3. \A u \in Timeouts : Waits(E_("timeout", u)) => Waits(E_("timeout", u))'
    BY <2>1, <1>0, WaitsTake, EntryDistinct
  <2>4. \A d : Waits(d)' => Waits(d)
    BY <2>1, <1>0, WaitsTake
  <2> QED BY <2>1, <2>2, <2>3, <2>4, <1>0, EndClear
<1>24. CASE RunFnReturns
  BY <1>24, <1>0, EndSame DEF RunFnReturns
<1>25. CASE RunAuxSwap
  <2>1. /\ pc = "swap" /\ batch' = aux /\ aux' = <<>>
        /\ UNCHANGED <<started, cancelled, idx, timer, worker, stopChan, terminated, ctl>>
    BY <1>25 DEF RunAuxSwap
  <2>2. batch = <<>> /\ started \subseteq Jobs /\ stopChan \subseteq Intervals
    BY <2>1, <1>0 DEF ExecInv, TypeOK
  <2>3. \A d : Waits(d)' <=> Waits(d)
    BY <2>1, <2>2, WaitsSwap
  <2> QED BY <2>1, <2>2, <2>3, <1>0, EndKept
<1>26. CASE EndCallback
  BY <1>26, <1>0, EndSame DEF EndCallback
<1>27. CASE StartupDone
  BY <1>27, <1>0, EndSame DEF StartupDone, LoopHeader, LeaveLoop
<1>28. CASE SelectWakeup
  BY <1>28, <1>0, EndSame DEF SelectWakeup
<1>29. CASE SelectDone
  BY <1>29, <1>0, EndSame DEF SelectDone, LeaveLoop
<1>30. CASE WakeupDone
  BY <1>30, <1>0, EndSame DEF WakeupDone, LoopHeader, LeaveLoop
<1>31. CASE RunExit
  BY <1>31, <1>0, EndSame DEF RunExit
<1>32. CASE PanicInCallback
  BY <1>32, <1>0, EndSame DEF PanicInCallback
<1>33. CASE RunFnPanics
  BY <1>33, <1>0, EndSame DEF RunFnPanics
<1>34. CASE RunBroadcast
  BY <1>34, <1>0, EndSame DEF RunBroadcast
<1>35. CASE StopAsk
  BY <1>35, <1>0, EndSame DEF StopAsk
<1>36. CASE StopReturn
  BY <1>36, <1>0, EndSame DEF StopReturn
<1>37. CASE TerminateMark
  <2>1. /\ terminated' /\ ctl' = "termAux"
        /\ UNCHANGED <<started, cancelled, idx, timer, worker, stopChan, aux, batch>>
    BY <1>37 DEF TerminateMark
  <2>2. Unended' = Unended /\ \A d : Waits(d)' <=> Waits(d)
    BY <2>1 DEF Unended, Waits, Queued, InBatch
  <2>3. AliveInv'
    BY <2>1, <2>2, <1>0 DEF AliveInv
  <2> QED BY <2>1, <2>3 DEF EndInv
<1>38. CASE TerminateAuxDone
  BY <1>38, <1>0, EndSame DEF TerminateAuxDone
<1>39. CASE TerminateCancel
  <2>1. PICK k \in 1..Len(jobs) :
          /\ jobs[k] \notin cancelled /\ Uncount(jobs[k]) /\ RemoveJob(jobs[k])
          /\ IF jobs[k] \in Timeouts
               THEN /\ timer' = [timer EXCEPT ![jobs[k]] = IF @ = "armed" THEN "done" ELSE @]
                    /\ UNCHANGED <<worker, stopChan>>
               ELSE stopChan' = stopChan \cup {jobs[k]} /\ UNCHANGED <<timer, worker>>
    BY <1>39 DEF TerminateCancel, Live
  <2> DEFINE j == jobs[k]
  <2>2. j \in Jobs /\ j \in started /\ j \in Timeouts \cup Intervals
    BY <1>0, Constants DEF TypeOK, JobsIndexed, JobsInv
  <2>3. UNCHANGED <<started, terminated, ctl, aux, batch>> /\ cancelled' = cancelled \cup {j}
    BY <1>39, <2>1 DEF TerminateCancel, Uncount
  <2>4. /\ timer' = timer \/ (j \in Timeouts /\ timer' = [timer EXCEPT ![j] = "done"])
        /\ j \in Timeouts => timer'[j] # "armed"
        /\ worker' = worker /\ stopChan' \subseteq stopChan \cup {j}
    <3> HIDE DEF j
    <3>1. CASE j \in Timeouts
      <4>1. timer' = [timer EXCEPT ![j] = IF timer[j] = "armed" THEN "done" ELSE timer[j]]
            /\ UNCHANGED <<worker, stopChan>>
        BY <2>1, <3>1 DEF j
      <4> QED BY <4>1, <3>1, <1>0 DEF TypeOK
    <3>2. CASE j \notin Timeouts
      BY <3>2, <2>1 DEF j
    <3> QED BY <3>1, <3>2
  <2>5. \A i \in Jobs : i # j /\ idx[i] # 0 => idx'[i] # 0
    BY <2>1, <2>2, <1>0, RemoveOthers DEF TypeOK
  <2>6. \A d : Waits(d)' <=> Waits(d)
    BY <2>3 DEF Waits, Queued, InBatch
  <2> HIDE DEF j
  <2> QED BY <2>2, <2>3, <2>4, <2>5, <2>6, <1>0, EndCancel
<1>40. CASE TerminateReturn
  <2>1. /\ ctl = "termCancel" /\ \A k \in 1..Len(jobs) : jobs[k] \in cancelled
        /\ \A i \in Intervals : worker[i] \in {"none", "done"}
        /\ UNCHANGED <<started, cancelled, idx, timer, worker, stopChan, terminated, aux, batch>>
    BY <1>40 DEF TerminateReturn, Live
  <2>2. terminated /\ Unended' = Unended /\ \A d : Waits(d)' <=> Waits(d)
    BY <2>1, <1>0 DEF CloseInv, Unended, Waits, Queued, InBatch
  <2>3. AliveInv'
    BY <2>1, <2>2, <1>0 DEF AliveInv
  <2>4. Unended = {}
    <3> SUFFICES ASSUME NEW j \in Unended PROVE FALSE
      OBVIOUS
    <3>1. j \in Jobs /\ j \notin cancelled /\ idx[j] # 0
      BY <1>0 DEF Unended, AliveInv, TypeOK
    <3>2. idx[j] \in 1..Len(jobs) /\ jobs[idx[j]] = j
      BY <3>1, <1>0 DEF JobsIndexed
    <3> QED BY <3>1, <3>2, <2>1
  <2> QED BY <2>1, <2>2, <2>3, <2>4 DEF EndInv, Quiet
<1>41. CASE Start
  <2>1. /\ ctl = "idle" /\ terminated' = FALSE
        /\ UNCHANGED <<started, cancelled, idx, timer, worker, stopChan, ctl, aux, batch>>
    BY <1>41 DEF Start, SetRunning
  <2> QED BY <2>1, <1>0, EndReopen
<1>42. CASE Run
  <2>1. /\ ctl = "idle" /\ terminated' = FALSE
        /\ UNCHANGED <<started, cancelled, idx, timer, worker, stopChan, ctl, aux, batch>>
    BY <1>42 DEF Run, SetRunning
  <2> QED BY <2>1, <1>0, EndReopen
<1>43. CASE Stop
  BY <1>43, <1>0, EndSame DEF Stop
<1>44. CASE Terminate
  BY <1>44, <1>0, EndSame DEF Terminate
<1>45. CASE UNCHANGED vars
  BY <1>45, <1>0, EndSame DEF vars
<1>46. QED
  BY <1>1, <1>2, <1>3, <1>4, <1>5, <1>6, <1>7, <1>8, <1>9, <1>10, <1>11, <1>12,
     <1>13, <1>14, <1>15, <1>16, <1>17, <1>18, <1>19, <1>20, <1>21, <1>22, <1>23, <1>24,
     <1>25, <1>26, <1>27, <1>28, <1>29, <1>30, <1>31, <1>32, <1>33, <1>34, <1>35, <1>36,
     <1>37, <1>38, <1>39, <1>40, <1>41, <1>42, <1>43, <1>44, <1>45
     DEF Next, JsStep, ApiStep, GoroutineStep, EntryStep, LoopStep, LifeStep

\* What Terminate and the count of jobs rest on, in every reachable state.
LEMMA Ends == Spec => [](CloseInv /\ AliveInv /\ EndInv)
<1>1. Init => CloseInv /\ AliveInv /\ EndInv
  <2> SUFFICES ASSUME Init PROVE CloseInv /\ AliveInv /\ EndInv
    OBVIOUS
  <2>1. \A d : ~Waits(d)
    BY DEF Init, Waits, Queued, InBatch
  <2>2. CloseInv
    BY DEF Init, CloseInv
  <2> QED BY <2>1, <2>2 DEF Init, AliveInv, EndInv, CanEnd, Quiet, Unended
<1>2. IInv /\ CloseInv /\ AliveInv /\ EndInv /\ [Next]_vars => CloseInv' /\ AliveInv' /\ EndInv'
  BY CloseStep, EndStep
<1>3. QED
  BY Invariance, <1>1, <1>2, PTL DEF Spec

\* A timeout or interval that keeps the loop alive can still end (an armed timer, an
\* expired one, a queued entry, a running goroutine), so Run does not wait for a job
\* that nobody will finish; Terminate's refusals never leak into the next start.
THEOREM CountedJobsCanEnd == Spec => []CountedJobCanEnd
<1>1. IInv /\ AliveInv /\ EndInv => CountedJobCanEnd
  <2> SUFFICES ASSUME IInv, AliveInv, EndInv, ~terminated
               PROVE  /\ \A t \in Counted \cap Timeouts :
                           timer[t] \in {"armed", "fired"} \/ Waits(E_("timeout", t))
                      /\ \A i \in Counted \cap Intervals : worker[i] = "run" /\ i \notin stopChan
    BY DEF CountedJobCanEnd
  <2>1. \A j \in Counted \cap (Timeouts \cup Intervals) : j \in Unended /\ j \notin cancelled
    BY Constants DEF Counted, Unended
  <2> QED BY <2>1 DEF EndInv, CanEnd, AliveInv
<1>2. QED
  BY Invariance, Ends, <1>1, PTL

\* After Terminate has returned, and until the next start, nothing is left of the
\* loop: no queued job, no armed timer, no interval goroutine, no counted timer.
THEOREM TerminateLeavesNothing == Spec => []TerminateIsClean
<1>1. IInv /\ CloseInv /\ AliveInv /\ EndInv => TerminateIsClean
  <2> SUFFICES ASSUME IInv, CloseInv, AliveInv, EndInv, terminated, ctl = "idle"
               PROVE  /\ aux = <<>> /\ batch = <<>>
                      /\ \A t \in Timeouts : timer[t] # "armed"
                      /\ \A i \in Intervals : worker[i] \in {"none", "done"}
                      /\ Counted \subseteq Immediates
    BY DEF TerminateIsClean
  <2>1. aux = <<>> /\ batch = <<>>
    BY DEF CloseInv, IInv, ExecInv
  <2>2. Unended = {} /\ \A i \in Intervals : worker[i] \in {"none", "done"}
    BY DEF EndInv, Quiet
  <2>3. \A t \in Timeouts : timer[t] # "armed"
    BY <2>2, Constants DEF AliveInv, Unended
  <2>4. Counted \subseteq Immediates
    BY <2>2 DEF Counted, Unended
  <2> QED BY <2>1, <2>2, <2>3, <2>4
<1>2. QED
  BY Invariance, Ends, <1>1, PTL

-----------------------------------------------------------------------------
(* The refinement of Scheduler.  What the queue steps do to the sequence   *)
(* of the functions in the queue.                                          *)

\* The functions of a queue are finitely many, and counted up to any position.
LEMMA TaskAtFinite ==
  ASSUME NEW q \in Seq(Entry)
  PROVE  /\ TaskAt(q) \subseteq 1..Len(q) /\ IsFiniteSet(TaskAt(q)) /\ Len(q) \in Nat
         /\ Cardinality(TaskAt(q)) \in Nat
         /\ \A k \in Int : Rank(q, k) \in Nat /\ Rank(q, k) <= Cardinality(TaskAt(q))
         /\ \A k \in Int : IsFiniteSet({m \in TaskAt(q) : m <= k})
<1>1. TaskAt(q) \in SUBSET (1..Len(q)) /\ Len(q) \in Nat
  BY DEF TaskAt
<1>2. IsFiniteSet(1..Len(q))
  BY <1>1, FS_Interval
<1>3. IsFiniteSet(TaskAt(q)) /\ Cardinality(TaskAt(q)) \in Nat
  BY <1>1, <1>2, FS_Subset, FS_CardinalityType
<1>4. ASSUME NEW k \in Int
      PROVE  /\ Rank(q, k) \in Nat /\ Rank(q, k) <= Cardinality(TaskAt(q))
             /\ IsFiniteSet({m \in TaskAt(q) : m <= k})
  <2> DEFINE T == {m \in TaskAt(q) : m <= k}
  <2>1. T \in SUBSET TaskAt(q)
    OBVIOUS
  <2>2. Rank(q, k) = Cardinality(T)
    BY DEF Rank
  <2> HIDE DEF T
  <2>3. IsFiniteSet(T) /\ Cardinality(T) <= Cardinality(TaskAt(q)) /\ Cardinality(T) \in Nat
    BY <2>1, <1>3, FS_Subset, FS_CardinalityType
  <2> QED BY <2>2, <2>3 DEF T
<1> QED BY <1>1, <1>3, <1>4

\* The n-th function depends on what has that rank.
LEMMA SameRank ==
  ASSUME NEW p, NEW q, NEW m, NEW n, OfRank(p, m) = OfRank(q, n)
  PROVE  NthTask(p, m) = NthTask(q, n)
BY DEF NthTask

LEMMA OneOfRank ==
  ASSUME NEW q, NEW n, NEW t, OfRank(q, n) = {t}
  PROVE  NthTask(q, n) = t
BY DEF NthTask

\* Counting is not disturbed by a shift of the positions.
LEMMA ShiftCount ==
  ASSUME NEW S \in SUBSET Nat, IsFiniteSet(S)
  PROVE  LET T == {k + 1 : k \in S} IN IsFiniteSet(T) /\ Cardinality(T) = Cardinality(S)
<1> DEFINE T == {k + 1 : k \in S}
           f == [k \in S |-> k + 1]
<1>1. f \in Bijection(S, T)
  <2>1. f \in [S -> T]
    OBVIOUS
  <2>2. \A a, b \in S : f[a] = f[b] => a = b
    OBVIOUS
  <2>3. \A t \in T : \E s \in S : f[s] = t
    OBVIOUS
  <2> HIDE DEF f, T
  <2> QED BY <2>1, <2>2, <2>3 DEF Bijection, Injection, Surjection, IsInjective
<1>2. ExistsBijection(S, T)
  BY <1>1 DEF ExistsBijection
<1> HIDE DEF T
<1>3. IsFiniteSet(T) /\ Cardinality(T) = Cardinality(S)
  BY <1>2, FS_Bijection
<1> QED BY <1>3 DEF T

\* A function queued behind the others becomes the last one; other entries change
\* nothing.
LEMMA TasksAppend ==
  ASSUME NEW q \in Seq(Entry), NEW e \in Entry
  PROVE  TasksOf(Append(q, e)) =
           IF e.op = "task" THEN Append(TasksOf(q), e.id) ELSE TasksOf(q)
<1> DEFINE r == Append(q, e)
           N == Cardinality(TaskAt(q))
           L == Len(q) + 1
<1>1. /\ r \in Seq(Entry) /\ Len(q) \in Nat /\ Len(r) = L /\ r[L] = e
      /\ \A k \in 1..Len(q) : r[k] = q[k]
  BY SeqFacts
<1>2. TaskAt(r) = IF e.op = "task" THEN TaskAt(q) \cup {L} ELSE TaskAt(q)
  BY <1>1 DEF TaskAt
<1>3. TaskAt(q) \subseteq 1..Len(q) /\ IsFiniteSet(TaskAt(q)) /\ N \in Nat
      /\ \A k \in 1..Len(q) : Rank(q, k) <= N /\ Rank(q, k) \in Nat
  BY TaskAtFinite
<1> HIDE DEF r
<1>4. \A k \in 1..Len(q) : Rank(r, k) = Rank(q, k)
  <2> SUFFICES ASSUME NEW k \in 1..Len(q) PROVE {m \in TaskAt(r) : m <= k} = {m \in TaskAt(q) : m <= k}
    BY DEF Rank
  <2>1. ~(L <= k)
    BY <1>1
  <2> QED BY <2>1, <1>2
<1>5. CASE e.op # "task"
  <2>1. TaskAt(r) = TaskAt(q)
    BY <1>2, <1>5
  <2>2. ASSUME NEW n PROVE OfRank(r, n) = OfRank(q, n)
    BY <2>1, <1>1, <1>3, <1>4 DEF OfRank, r
  <2>3. \A n : NthTask(r, n) = NthTask(q, n)
    BY <2>2, SameRank
  <2> QED BY <2>1, <2>3, <1>5 DEF TasksOf, r
<1>6. CASE e.op = "task"
  <2>1. TaskAt(r) = TaskAt(q) \cup {L} /\ L \notin TaskAt(q) /\ L \in Nat
    BY <1>1, <1>2, <1>3, <1>6
  <2>2. Cardinality(TaskAt(r)) = N + 1
    BY <2>1, <1>3, FS_AddElement
  <2>3. Rank(r, L) = N + 1
    <3>1. {m \in TaskAt(r) : m <= L} = TaskAt(r)
      BY <2>1, <1>3, <1>1
    <3> QED BY <3>1, <2>2 DEF Rank
  <2>4. ASSUME NEW n \in 1..N PROVE OfRank(r, n) = OfRank(q, n)
    <3>1. \A k : k \in TaskAt(r) /\ Rank(r, k) = n <=> k \in TaskAt(q) /\ Rank(q, k) = n
      BY <2>1, <2>3, <1>3, <1>4
    <3>2. \A k \in TaskAt(q) : r[k] = q[k]
      BY <1>1, <1>3 DEF r
    <3> QED BY <3>1, <3>2 DEF OfRank
  <2>5. OfRank(r, N + 1) = {e.id}
    <3>1. \A k : k \in TaskAt(r) /\ Rank(r, k) = N + 1 <=> k = L
      BY <2>1, <2>3, <1>3, <1>4
    <3>2. r[L] = e
      BY <1>1 DEF r
    <3> QED BY <3>1, <3>2 DEF OfRank
  <2>6. \A n \in 1..N : NthTask(r, n) = NthTask(q, n)
    BY <2>4, SameRank
  <2>7. NthTask(r, N + 1) = e.id
    BY <2>5, OneOfRank
  <2>8. TasksOf(r) = [n \in 1..(N+1) |-> IF n <= N THEN NthTask(q, n) ELSE e.id]
    <3>1. \A n \in 1..(N+1) : NthTask(r, n) = IF n <= N THEN NthTask(q, n) ELSE e.id
      BY <2>6, <2>7, <1>3
    <3> QED BY <3>1, <2>2 DEF TasksOf
  <2>9. Append(TasksOf(q), e.id) = [n \in 1..(N+1) |-> IF n <= N THEN NthTask(q, n) ELSE e.id]
    <3> DEFINE X == {NthTask(q, n) : n \in 1..N} \cup {e.id}
               s == TasksOf(q)
    <3>1. s = [n \in 1..N |-> NthTask(q, n)]
      BY DEF TasksOf
    <3>2. s \in Seq(X) /\ Len(s) = N
      BY <3>1, <1>3
    <3> HIDE DEF s, X, N
    <3>3. /\ Append(s, e.id) = [n \in 1..(Len(s)+1) |-> IF n = Len(s) + 1 THEN e.id ELSE s[n]]
      BY <3>2
    <3>4. \A n \in 1..(N+1) : (n = N + 1 <=> ~(n <= N)) /\ (n <= N => s[n] = NthTask(q, n))
      BY <3>1, <1>3
    <3> QED BY <3>2, <3>3, <3>4, <1>3 DEF s
  <2> QED BY <2>8, <2>9, <1>6 DEF r
<1> QED BY <1>5, <1>6

\* Taking the first entry takes the oldest function if it is one, and changes nothing
\* if it is not.
LEMMA TasksTail ==
  ASSUME NEW q \in Seq(Entry), q # <<>>
  PROVE  /\ Head(q).op # "task" => TasksOf(Tail(q)) = TasksOf(q)
         /\ Head(q).op = "task" => TasksOf(q) # <<>> /\ TasksOf(Tail(q)) = Tail(TasksOf(q))
<1> DEFINE r == Tail(q)
           N == Cardinality(TaskAt(r))
           up(S) == {k + 1 : k \in S}
<1>1. /\ r \in Seq(Entry) /\ Len(q) \in Nat /\ Len(q) >= 1 /\ Len(r) = Len(q) - 1 /\ Head(q) = q[1]
      /\ \A k \in 1..Len(r) : r[k] = q[k+1]
  OBVIOUS
<1> HIDE DEF r
<1>2. TaskAt(q) = IF Head(q).op = "task" THEN up(TaskAt(r)) \cup {1} ELSE up(TaskAt(r))
  <2>1. \A k : k \in TaskAt(q) /\ k # 1 <=> k \in up(TaskAt(r))
    <3>1. ASSUME NEW k \in TaskAt(q), k # 1 PROVE k \in up(TaskAt(r))
      <4>1. k \in 1..Len(q) /\ q[k].op = "task"
        BY DEF TaskAt
      <4>2. k - 1 \in 1..Len(r) /\ r[k-1] = q[k] /\ k = (k - 1) + 1
        BY <4>1, <3>1, <1>1
      <4>3. k - 1 \in TaskAt(r)
        BY <4>1, <4>2 DEF TaskAt
      <4> QED BY <4>2, <4>3
    <3>2. ASSUME NEW k \in TaskAt(r) PROVE k + 1 \in TaskAt(q) /\ k + 1 # 1
      BY <1>1 DEF TaskAt
    <3> QED BY <3>1, <3>2
  <2>2. 1 \in TaskAt(q) <=> Head(q).op = "task"
    BY <1>1 DEF TaskAt
  <2> QED BY <2>1, <2>2
<1>3. /\ TaskAt(r) \subseteq 1..Len(r) /\ IsFiniteSet(TaskAt(r)) /\ N \in Nat
      /\ \A k \in Int : Rank(r, k) \in Nat /\ Rank(r, k) <= N
      /\ \A k \in Int : IsFiniteSet({m \in TaskAt(r) : m <= k})
  BY <1>1, TaskAtFinite
<1>4. \A k \in TaskAt(r) : k \in Nat /\ k >= 1 /\ r[k] = q[k+1]
  <2> SUFFICES ASSUME NEW k \in TaskAt(r) PROVE k \in Nat /\ k >= 1 /\ r[k] = q[k+1]
    OBVIOUS
  <2>1. k \in 1..Len(r) /\ Len(r) \in Nat
    BY <1>1, <1>3
  <2> QED BY <2>1, <1>1
\* Positions move down by one, and ranks too if a function left.
<1>5. ASSUME NEW S \in SUBSET TaskAt(r), IsFiniteSet(S)
      PROVE  IsFiniteSet(up(S)) /\ Cardinality(up(S)) = Cardinality(S) /\ 1 \notin up(S)
  <2>1. S \in SUBSET Nat /\ 1 \notin up(S)
    BY <1>4
  <2> QED BY <2>1, <1>5, ShiftCount
<1>6. CASE Head(q).op # "task"
  <2>1. TaskAt(q) = up(TaskAt(r)) /\ Cardinality(TaskAt(q)) = N
    BY <1>2, <1>3, <1>5, <1>6
  <2>2. ASSUME NEW k \in TaskAt(r) PROVE Rank(q, k + 1) = Rank(r, k)
    <3> DEFINE T == {m \in TaskAt(r) : m <= k}
    <3>1. {m \in TaskAt(q) : m <= k + 1} = up(T)
      BY <2>1, <1>4
    <3>2. IsFiniteSet(T) /\ T \in SUBSET TaskAt(r)
      <4>1. k \in Int
        BY <1>4
      <4> QED BY <4>1, <1>3
    <3>3. Cardinality(up(T)) = Cardinality(T)
      BY <3>2, <1>5
    <3> QED BY <3>1, <3>3 DEF Rank
  <2>3. ASSUME NEW n PROVE OfRank(q, n) = OfRank(r, n)
    <3> HIDE DEF up
    <3>1. ASSUME NEW x \in OfRank(q, n) PROVE x \in OfRank(r, n)
      <4>1. PICK k \in TaskAt(q) : Rank(q, k) = n /\ x = q[k].id
        BY DEF OfRank
      <4>2. PICK m \in TaskAt(r) : k = m + 1
        BY <4>1, <2>1 DEF up
      <4>3. Rank(r, m) = n /\ r[m].id = x
        BY <4>1, <4>2, <2>2, <1>4
      <4> QED BY <4>3 DEF OfRank
    <3>2. ASSUME NEW x \in OfRank(r, n) PROVE x \in OfRank(q, n)
      <4>1. PICK m \in TaskAt(r) : Rank(r, m) = n /\ x = r[m].id
        BY DEF OfRank
      <4>2. m + 1 \in TaskAt(q) /\ Rank(q, m + 1) = n /\ x = q[m+1].id
        BY <4>1, <2>1, <2>2, <1>4 DEF up
      <4> QED BY <4>2 DEF OfRank
    <3> QED BY <3>1, <3>2
  <2>4. \A n : NthTask(q, n) = NthTask(r, n)
    BY <2>3, SameRank
  <2> QED BY <2>1, <2>4, <1>6 DEF TasksOf, r
<1>7. CASE Head(q).op = "task"
  <2>1. TaskAt(q) = up(TaskAt(r)) \cup {1}
    BY <1>2, <1>7
  <2>2. Cardinality(TaskAt(q)) = N + 1
    <3> HIDE DEF up
    <3>1. IsFiniteSet(up(TaskAt(r))) /\ Cardinality(up(TaskAt(r))) = N /\ 1 \notin up(TaskAt(r))
      BY <1>3, <1>5
    <3> QED BY <3>1, <2>1, FS_AddElement
  <2>3. ASSUME NEW k \in TaskAt(r) PROVE Rank(q, k + 1) = Rank(r, k) + 1
    <3> DEFINE T == {m \in TaskAt(r) : m <= k}
    <3>1. {m \in TaskAt(q) : m <= k + 1} = up(T) \cup {1}
      BY <2>1, <1>4
    <3>2. IsFiniteSet(T) /\ T \in SUBSET TaskAt(r)
      <4>1. k \in Int
        BY <1>4
      <4> QED BY <4>1, <1>3
    <3>3. Cardinality(T) = Rank(r, k)
      BY DEF Rank
    <3> HIDE DEF T, up
    <3>4. IsFiniteSet(up(T)) /\ Cardinality(up(T)) = Cardinality(T) /\ 1 \notin up(T)
      BY <3>2, <1>5
    <3>5. Cardinality(up(T) \cup {1}) = Cardinality(T) + 1
      BY <3>4, FS_AddElement
    <3> QED BY <3>1, <3>3, <3>5 DEF Rank
  <2>4. Rank(q, 1) = 1
    <3>1. {m \in TaskAt(q) : m <= 1} = {1}
      BY <2>1, <1>4
    <3> QED BY <3>1, FS_Singleton DEF Rank
  <2>5. ASSUME NEW n \in 1..N PROVE OfRank(q, n + 1) = OfRank(r, n)
    <3> HIDE DEF up
    <3>1. ASSUME NEW x \in OfRank(q, n + 1) PROVE x \in OfRank(r, n)
      <4>1. PICK k \in TaskAt(q) : Rank(q, k) = n + 1 /\ x = q[k].id
        BY DEF OfRank
      <4>2. k # 1
        BY <4>1, <2>4
      <4>3. PICK m \in TaskAt(r) : k = m + 1
        BY <4>1, <4>2, <2>1 DEF up
      <4>4. Rank(r, m) = n /\ r[m].id = x
        <5>1. Rank(r, m) + 1 = n + 1 /\ Rank(r, m) \in Nat
          BY <4>1, <4>3, <2>3, <1>3, <1>4
        <5>2. r[m].id = x
          BY <4>1, <4>3, <1>4
        <5> QED BY <5>1, <5>2
      <4> QED BY <4>4 DEF OfRank
    <3>2. ASSUME NEW x \in OfRank(r, n) PROVE x \in OfRank(q, n + 1)
      <4>1. PICK m \in TaskAt(r) : Rank(r, m) = n /\ x = r[m].id
        BY DEF OfRank
      <4>2. m + 1 \in TaskAt(q) /\ Rank(q, m + 1) = n + 1 /\ x = q[m+1].id
        BY <4>1, <2>1, <2>3, <1>4 DEF up
      <4> QED BY <4>2 DEF OfRank
    <3> QED BY <3>1, <3>2
  <2>6. \A n \in 1..N : NthTask(r, n) = NthTask(q, n + 1)
    BY <2>5, SameRank
  <2> DEFINE s == TasksOf(q)
             X == {NthTask(q, n) : n \in 1..(N+1)}
  <2>7. s = [n \in 1..(N+1) |-> NthTask(q, n)]
    BY <2>2 DEF TasksOf
  <2>8. s \in Seq(X) /\ Len(s) = N + 1 /\ s # <<>>
    <3>0. N \in Nat
      BY <1>3
    <3> HIDE DEF N
    <3>1. N + 1 \in Nat /\ N + 1 > 0
      BY <3>0
    <3>2. s \in [1..(N+1) -> X]
      BY <2>7
    <3> HIDE DEF s, X
    <3>3. s \in Seq(X) /\ Len(s) = N + 1
      BY <3>1, <3>2
    <3> QED BY <3>1, <3>3
  <2>9. TasksOf(r) = [n \in 1..N |-> NthTask(q, n + 1)]
    BY <2>6 DEF TasksOf
  <2> HIDE DEF s, X, N
  <2>10. Tail(s) = [n \in 1..N |-> s[n+1]]
    <3>1. /\ Tail(s) \in Seq(X) /\ Len(Tail(s)) = N
          /\ \A n \in 1..N : Tail(s)[n] = s[n+1]
      BY <2>8, <1>3
    <3>2. Tail(s) \in [1..N -> X]
      BY <3>1, LenProperties
    <3> QED BY <3>1, <3>2
  <2>11. \A n \in 1..N : s[n+1] = NthTask(q, n + 1)
    BY <2>7, <1>3
  <2>12. Tail(s) = TasksOf(r)
    BY <2>9, <2>10, <2>11
  <2> QED BY <2>8, <2>12, <1>7 DEF s, r
<1> QED BY <1>6, <1>7

LEMMA NoTasks == TasksOf(<<>>) = <<>>
<1>1. TaskAt(<<>>) = {}
  BY DEF TaskAt
<1>2. Cardinality(TaskAt(<<>>)) = 0
  BY <1>1, FS_EmptySet
<1> QED BY <1>2 DEF TasksOf

\* The queue as runAux sees it: the rest of the batch, then what came after.
LEMMA WholeQueue ==
  ASSUME NEW b \in Seq(Entry), NEW a \in Seq(Entry), NEW e \in Entry
  PROVE  /\ b \o a \in Seq(Entry) /\ <<>> \o a = a /\ a \o <<>> = a
         /\ b \o Append(a, e) = Append(b \o a, e)
         /\ b # <<>> => b \o a # <<>> /\ Head(b \o a) = Head(b) /\ Tail(b) \o a = Tail(b \o a)
<1>1. b \o a \in Seq(Entry) /\ <<>> \o a = a /\ a \o <<>> = a
  OBVIOUS
<1>2. b \o Append(a, e) = Append(b \o a, e)
  OBVIOUS
<1>3. b # <<>> => b \o a # <<>> /\ Head(b \o a) = Head(b)
  OBVIOUS
<1>4. b # <<>> => Tail(b) \o a = Tail(b \o a)
  OBVIOUS
<1> QED BY <1>1, <1>2, <1>3, <1>4

Pending == TasksOf(batch \o aux)
Submitted == {t \in Tasks : E_("task", t) \in asked}

\* What each kind of step is to the promise: nothing ...
LEMMA PromiseStutters ==
  ASSUME TasksOf(batch' \o aux') = TasksOf(batch \o aux) \/ (batch' \o aux') = (batch \o aux)
           \/ UNCHANGED <<batch, aux>>,
         \A t \in Tasks : E_("task", t) \in asked' <=> E_("task", t) \in asked,
         terminated' = terminated
  PROVE  [Promise!Next]_(Promise!vars)
<1>1. Pending' = Pending /\ Submitted' = Submitted
  BY DEF Pending, Submitted
<1>2. UNCHANGED Promise!vars
  BY <1>1 DEF Promise!vars, Pending, Submitted
<1> QED BY <1>2

\* ... nothing either when another entry is queued or taken ...
LEMMA PromiseOther ==
  ASSUME TypeOK, NEW e \in Entry, e.op # "task",
         batch' = batch, terminated' = terminated,
         aux' = IF terminated THEN aux ELSE Append(aux, e),
         asked' = asked \/ asked' = asked \cup {e}
  PROVE  [Promise!Next]_(Promise!vars)
<1>0. aux \in Seq(Entry) /\ batch \in Seq(Entry)
  BY DEF TypeOK
<1>1. TasksOf(batch' \o aux') = TasksOf(batch \o aux)
  <2>1. CASE terminated
    BY <2>1
  <2>2. CASE ~terminated
    <3>1. batch' \o aux' = Append(batch \o aux, e) /\ batch \o aux \in Seq(Entry)
      BY <2>2, <1>0, WholeQueue
    <3> QED BY <3>1, TasksAppend
  <2> QED BY <2>1, <2>2
<1>2. \A t \in Tasks : E_("task", t) # e
  BY EntryFacts
<1> QED BY <1>1, <1>2, PromiseStutters

LEMMA PromiseTake ==
  ASSUME TypeOK, NEW op, NEW j, TakeEntry(op, j), E_(op, j).op # "task"
  PROVE  [Promise!Next]_(Promise!vars)
<1>0. /\ aux \in Seq(Entry) /\ batch \in Seq(Entry) /\ batch # <<>> /\ Head(batch).op # "task"
      /\ batch' = Tail(batch) /\ UNCHANGED <<aux, terminated, asked>>
  BY DEF TypeOK, TakeEntry, queueVars, apiVars
<1>1. Head(batch) \in Entry
  BY <1>0, SeqFacts
<1>2. /\ batch \o aux \in Seq(Entry) /\ batch \o aux # <<>>
      /\ Head(batch \o aux) = Head(batch) /\ Tail(batch) \o aux = Tail(batch \o aux)
  BY <1>0, <1>1, WholeQueue
<1>3. TasksOf(batch' \o aux') = TasksOf(batch \o aux)
  BY <1>0, <1>2, TasksTail
<1> QED BY <1>0, <1>3, PromiseStutters

\* ... RunOnLoop accepts or refuses ...
LEMMA PromiseSubmit ==
  ASSUME TypeOK, NEW t \in Tasks, E_("task", t) \notin asked,
         batch' = batch, terminated' = terminated,
         aux' = IF terminated THEN aux ELSE Append(aux, E_("task", t)),
         asked' = asked \cup {E_("task", t)}
  PROVE  [Promise!Next]_(Promise!vars)
<1>0. /\ aux \in Seq(Entry) /\ batch \in Seq(Entry) /\ terminated \in BOOLEAN
      /\ E_("task", t) \in Entry /\ E_("task", t).op = "task" /\ E_("task", t).id = t
  BY EntryFacts DEF TypeOK
<1>1. Submitted' = Submitted \cup {t} /\ t \notin Submitted
  BY EntryDistinct DEF Submitted
<1>2. CASE terminated
  <2>1. Pending' = Pending
    BY <1>2 DEF Pending
  <2>2. Promise!Refuse(t)
    BY <2>1, <1>1, <1>2 DEF Promise!Refuse, Pending, Submitted
  <2> QED BY <2>2 DEF Promise!Next
<1>3. CASE ~terminated
  <2>1. batch' \o aux' = Append(batch \o aux, E_("task", t)) /\ batch \o aux \in Seq(Entry)
    BY <1>3, <1>0, WholeQueue
  <2>2. Pending' = Append(Pending, t)
    BY <2>1, <1>0, TasksAppend DEF Pending
  <2>3. Promise!Accept(t)
    BY <2>2, <1>1, <1>3 DEF Promise!Accept, Pending, Submitted
  <2> QED BY <2>3 DEF Promise!Next
<1> QED BY <1>2, <1>3

\* ... runAux calls the oldest function ...
LEMMA PromiseRun ==
  ASSUME TypeOK, NEW t \in Tasks, TakeEntry("task", t)
  PROVE  [Promise!Next]_(Promise!vars)
<1>0. /\ aux \in Seq(Entry) /\ batch \in Seq(Entry) /\ batch # <<>> /\ Head(batch).op = "task"
      /\ batch' = Tail(batch) /\ UNCHANGED <<aux, terminated, asked>>
  BY EntryFacts DEF TypeOK, TakeEntry, queueVars, apiVars
<1>1. Head(batch) \in Entry
  BY <1>0, SeqFacts
<1>2. /\ batch \o aux \in Seq(Entry) /\ batch \o aux # <<>>
      /\ Head(batch \o aux) = Head(batch) /\ Tail(batch) \o aux = Tail(batch \o aux)
  BY <1>0, <1>1, WholeQueue
<1>3. Pending # <<>> /\ Pending' = Tail(Pending) /\ Submitted' = Submitted
  BY <1>0, <1>2, TasksTail DEF Pending, Submitted
<1>4. Promise!RunNext
  BY <1>0, <1>3 DEF Promise!RunNext, Pending, Submitted
<1> QED BY <1>4 DEF Promise!Next

\* ... Terminate closes the scheduler ...
LEMMA PromiseClose ==
  ASSUME TypeOK, terminated' = TRUE, UNCHANGED <<aux, batch, asked>>
  PROVE  [Promise!Next]_(Promise!vars)
<1>0. Pending' = Pending /\ Submitted' = Submitted /\ terminated \in BOOLEAN
  BY DEF Pending, Submitted, TypeOK
<1>1. CASE terminated
  BY <1>0, <1>1, PromiseStutters
<1>2. CASE ~terminated
  <2>1. Promise!Close
    BY <1>0, <1>2 DEF Promise!Close, Pending, Submitted
  <2> QED BY <2>1 DEF Promise!Next
<1> QED BY <1>1, <1>2

\* ... and a start opens it again, when nothing is pending.
LEMMA PromiseReopen ==
  ASSUME TypeOK, ExecInv, CloseInv, ctl = "idle", ~running, terminated' = FALSE,
         UNCHANGED <<aux, batch, asked>>
  PROVE  [Promise!Next]_(Promise!vars)
<1>0. Pending' = Pending /\ Submitted' = Submitted /\ terminated \in BOOLEAN
  BY DEF Pending, Submitted, TypeOK
<1>1. CASE ~terminated
  BY <1>0, <1>1, PromiseStutters
<1>2. CASE terminated
  <2>1. aux = <<>> /\ batch = <<>>
    BY <1>2 DEF CloseInv, ExecInv
  <2>2. batch \o aux = <<>>
    BY <2>1
  <2>3. Pending = <<>>
    BY <2>2, NoTasks DEF Pending
  <2>4. Promise!Reopen
    BY <1>0, <1>2, <2>3 DEF Promise!Reopen, Pending, Submitted
  <2> QED BY <2>4 DEF Promise!Next
<1> QED BY <1>1, <1>2

\* Every step of the loop is a step of the scheduler or leaves it alone.
LEMMA PromiseStep ==
  ASSUME IInv, CloseInv, [Next]_vars
  PROVE  [Promise!Next]_(Promise!vars)
<1>0. TypeOK /\ ExecInv /\ CloseInv
  BY DEF IInv
<1> USE DEF tableVars, timerVars, queueVars, lifeVars, execVars, apiVars
<1>1. ASSUME NEW j \in Timeouts \cup Intervals, JsSchedule(j)
      PROVE  [Promise!Next]_(Promise!vars)
  BY <1>1, PromiseStutters DEF JsSchedule
<1>2. ASSUME NEW j \in Timeouts \cup Intervals, JsClear(j)
      PROVE  [Promise!Next]_(Promise!vars)
  BY <1>2, PromiseStutters DEF JsClear
<1>3. ASSUME NEW m \in Immediates, JsSetImmediate(m)
      PROVE  [Promise!Next]_(Promise!vars)
  <2>1. E_("immediate", m) \in Entry /\ E_("immediate", m).op = "immediate"
    BY Constants, EntryFacts
  <2>2. /\ batch' = batch /\ terminated' = terminated
        /\ aux' = IF terminated THEN aux ELSE Append(aux, E_("immediate", m))
        /\ asked' = asked \/ asked' = asked \cup {E_("immediate", m)}
    BY <1>3 DEF JsSetImmediate, AddAuxJobOnLoop
  <2> QED BY <2>1, <2>2, <1>0, PromiseOther
<1>4. ASSUME NEW m \in Immediates, JsClearImmediate(m)
      PROVE  [Promise!Next]_(Promise!vars)
  BY <1>4, PromiseStutters DEF JsClearImmediate
<1>5. ASSUME NEW j \in Jobs, SetJobRef(j)
      PROVE  [Promise!Next]_(Promise!vars)
  BY <1>5, PromiseStutters DEF SetJobRef
<1>6. ASSUME NEW t \in Tasks, JsRunOnLoop(t)
      PROVE  [Promise!Next]_(Promise!vars)
  <2>1. /\ batch' = batch /\ terminated' = terminated /\ E_("task", t) \notin asked
        /\ aux' = IF terminated THEN aux ELSE Append(aux, E_("task", t))
        /\ asked' = asked \cup {E_("task", t)}
    BY <1>6 DEF JsRunOnLoop, AddAuxJobOnLoop
  <2> QED BY <2>1, <1>0, PromiseSubmit
<1>7. ASSUME NEW t \in Tasks, RunOnLoop(t)
      PROVE  [Promise!Next]_(Promise!vars)
  <2>1. /\ batch' = batch /\ terminated' = terminated /\ E_("task", t) \notin asked
        /\ aux' = IF terminated THEN aux ELSE Append(aux, E_("task", t))
        /\ asked' = asked \cup {E_("task", t)}
    BY <1>7 DEF RunOnLoop, AddAuxJob
  <2> QED BY <2>1, <1>0, PromiseSubmit
<1>8. ASSUME NEW j \in GoHandles, GoSchedule(j)
      PROVE  [Promise!Next]_(Promise!vars)
  <2>1. E_("start", j) \in Entry /\ E_("start", j).op = "start"
    BY Constants, EntryFacts
  <2>2. /\ batch' = batch /\ terminated' = terminated
        /\ aux' = IF terminated THEN aux ELSE Append(aux, E_("start", j))
        /\ asked' = asked \/ asked' = asked \cup {E_("start", j)}
    BY <1>8 DEF GoSchedule, AddAuxJob
  <2> QED BY <2>1, <2>2, <1>0, PromiseOther
<1>9. ASSUME NEW j \in GoHandles, GoClear(j)
      PROVE  [Promise!Next]_(Promise!vars)
  <2>1. E_("clear", j) \in Entry /\ E_("clear", j).op = "clear"
    BY Constants, EntryFacts
  <2>2. /\ batch' = batch /\ terminated' = terminated
        /\ aux' = IF terminated THEN aux ELSE Append(aux, E_("clear", j))
        /\ asked' = asked \/ asked' = asked \cup {E_("clear", j)}
    BY <1>9 DEF GoClear, AddAuxJob
  <2> QED BY <2>1, <2>2, <1>0, PromiseOther
<1>10. CASE StopNoWait
  BY <1>10, PromiseStutters DEF StopNoWait
<1>11. ASSUME NEW e \in wakers, Wakeup(e)
      PROVE  [Promise!Next]_(Promise!vars)
  BY <1>11, PromiseStutters DEF Wakeup
<1>12. ASSUME NEW t \in Timeouts, TimerFire(t)
      PROVE  [Promise!Next]_(Promise!vars)
  BY <1>12, PromiseStutters DEF TimerFire
<1>13. ASSUME NEW t \in Timeouts, TimerEnqueue(t)
      PROVE  [Promise!Next]_(Promise!vars)
  <2>1. E_("timeout", t) \in Entry /\ E_("timeout", t).op = "timeout"
    BY Constants, EntryFacts
  <2>2. /\ batch' = batch /\ terminated' = terminated
        /\ aux' = IF terminated THEN aux ELSE Append(aux, E_("timeout", t))
        /\ asked' = asked \/ asked' = asked \cup {E_("timeout", t)}
    BY <1>13 DEF TimerEnqueue, AddAuxJob
  <2> QED BY <2>1, <2>2, <1>0, PromiseOther
<1>14. ASSUME NEW i \in Intervals, WorkerTick(i)
      PROVE  [Promise!Next]_(Promise!vars)
  <2>1. E_("interval", i) \in Entry /\ E_("interval", i).op = "interval"
    BY Constants, EntryFacts
  <2>2. /\ batch' = batch /\ terminated' = terminated
        /\ aux' = IF terminated THEN aux ELSE Append(aux, E_("interval", i))
        /\ asked' = asked \/ asked' = asked \cup {E_("interval", i)}
    BY <1>14 DEF WorkerTick, AddAuxJob
  <2> QED BY <2>1, <2>2, <1>0, PromiseOther
<1>15. ASSUME NEW i \in Intervals, WorkerStop(i)
      PROVE  [Promise!Next]_(Promise!vars)
  BY <1>15, PromiseStutters DEF WorkerStop
<1>16. ASSUME NEW i \in Intervals, WorkerExit(i)
      PROVE  [Promise!Next]_(Promise!vars)
  <2>1. E_("remove", i) \in Entry /\ E_("remove", i).op = "remove"
    BY Constants, EntryFacts
  <2>2. /\ batch' = batch /\ terminated' = terminated
        /\ aux' = IF terminated THEN aux ELSE Append(aux, E_("remove", i))
        /\ asked' = asked \/ asked' = asked \cup {E_("remove", i)}
    BY <1>16 DEF WorkerExit, AddAuxJob
  <2> QED BY <2>1, <2>2, <1>0, PromiseOther
<1>17. ASSUME NEW t \in Tasks, RunTask(t)
      PROVE  [Promise!Next]_(Promise!vars)
  <2>1. TakeEntry("task", t)
    BY <1>17 DEF RunTask
  <2> QED BY <2>1, <1>0, PromiseRun
<1>18. ASSUME NEW t \in Timeouts, DoTimeout(t)
      PROVE  [Promise!Next]_(Promise!vars)
  <2>1. TakeEntry("timeout", t) /\ E_("timeout", t).op = "timeout"
    BY <1>18, Constants, EntryFacts DEF DoTimeout
  <2> QED BY <2>1, <1>0, PromiseTake
<1>19. ASSUME NEW i \in Intervals, DoInterval(i)
      PROVE  [Promise!Next]_(Promise!vars)
  <2>1. TakeEntry("interval", i) /\ E_("interval", i).op = "interval"
    BY <1>19, Constants, EntryFacts DEF DoInterval
  <2> QED BY <2>1, <1>0, PromiseTake
<1>20. ASSUME NEW i \in Intervals, DoRemove(i)
      PROVE  [Promise!Next]_(Promise!vars)
  <2>1. TakeEntry("remove", i) /\ E_("remove", i).op = "remove"
    BY <1>20, Constants, EntryFacts DEF DoRemove
  <2> QED BY <2>1, <1>0, PromiseTake
<1>21. ASSUME NEW m \in Immediates, DoImmediate(m)
      PROVE  [Promise!Next]_(Promise!vars)
  <2>1. TakeEntry("immediate", m) /\ E_("immediate", m).op = "immediate"
    BY <1>21, Constants, EntryFacts DEF DoImmediate
  <2> QED BY <2>1, <1>0, PromiseTake
<1>22. ASSUME NEW j \in GoHandles, DoStart(j)
      PROVE  [Promise!Next]_(Promise!vars)
  <2>1. TakeEntry("start", j) /\ E_("start", j).op = "start"
    BY <1>22, Constants, EntryFacts DEF DoStart
  <2> QED BY <2>1, <1>0, PromiseTake
<1>23. ASSUME NEW j \in GoHandles, DoClear(j)
      PROVE  [Promise!Next]_(Promise!vars)
  <2>1. TakeEntry("clear", j) /\ E_("clear", j).op = "clear"
    BY <1>23, Constants, EntryFacts DEF DoClear
  <2> QED BY <2>1, <1>0, PromiseTake
<1>24. CASE RunFnReturns
  BY <1>24, PromiseStutters DEF RunFnReturns
<1>25. CASE RunAuxSwap
  <2>1. batch = <<>> /\ batch' = aux /\ aux' = <<>> /\ UNCHANGED <<terminated, asked>>
    BY <1>25, <1>0 DEF RunAuxSwap, ExecInv
  <2>2. batch' \o aux' = batch \o aux
    BY <2>1, <1>0 DEF TypeOK
  <2> QED BY <2>1, <2>2, PromiseStutters
<1>26. CASE EndCallback
  BY <1>26, PromiseStutters DEF EndCallback
<1>27. CASE StartupDone
  BY <1>27, PromiseStutters DEF StartupDone, LoopHeader, LeaveLoop
<1>28. CASE SelectWakeup
  BY <1>28, PromiseStutters DEF SelectWakeup
<1>29. CASE SelectDone
  BY <1>29, PromiseStutters DEF SelectDone, LeaveLoop
<1>30. CASE WakeupDone
  BY <1>30, PromiseStutters DEF WakeupDone, LoopHeader, LeaveLoop
<1>31. CASE RunExit
  BY <1>31, PromiseStutters DEF RunExit
<1>32. CASE PanicInCallback
  BY <1>32, PromiseStutters DEF PanicInCallback
<1>33. CASE RunFnPanics
  BY <1>33, PromiseStutters DEF RunFnPanics
<1>34. CASE RunBroadcast
  BY <1>34, PromiseStutters DEF RunBroadcast
<1>35. CASE StopAsk
  BY <1>35, PromiseStutters DEF StopAsk
<1>36. CASE StopReturn
  BY <1>36, PromiseStutters DEF StopReturn
<1>37. CASE TerminateMark
  <2>1. terminated' = TRUE /\ UNCHANGED <<aux, batch, asked>>
    BY <1>37 DEF TerminateMark
  <2> QED BY <2>1, <1>0, PromiseClose
<1>38. CASE TerminateAuxDone
  BY <1>38, PromiseStutters DEF TerminateAuxDone
<1>39. CASE TerminateCancel
  BY <1>39, PromiseStutters DEF TerminateCancel
<1>40. CASE TerminateReturn
  BY <1>40, PromiseStutters DEF TerminateReturn
<1>41. CASE Start
  <2>1. ctl = "idle" /\ ~running /\ terminated' = FALSE /\ UNCHANGED <<aux, batch, asked>>
    BY <1>41 DEF Start, SetRunning
  <2> QED BY <2>1, <1>0, PromiseReopen
<1>42. CASE Run
  <2>1. ctl = "idle" /\ ~running /\ terminated' = FALSE /\ UNCHANGED <<aux, batch, asked>>
    BY <1>42 DEF Run, SetRunning
  <2> QED BY <2>1, <1>0, PromiseReopen
<1>43. CASE Stop
  BY <1>43, PromiseStutters DEF Stop
<1>44. CASE Terminate
  BY <1>44, PromiseStutters DEF Terminate
<1>45. CASE UNCHANGED vars
  BY <1>45, PromiseStutters DEF vars
<1>46. QED
  BY <1>1, <1>2, <1>3, <1>4, <1>5, <1>6, <1>7, <1>8, <1>9, <1>10, <1>11, <1>12,
     <1>13, <1>14, <1>15, <1>16, <1>17, <1>18, <1>19, <1>20, <1>21, <1>22, <1>23, <1>24,
     <1>25, <1>26, <1>27, <1>28, <1>29, <1>30, <1>31, <1>32, <1>33, <1>34, <1>35, <1>36,
     <1>37, <1>38, <1>39, <1>40, <1>41, <1>42, <1>43, <1>44, <1>45
     DEF Next, JsStep, ApiStep, GoroutineStep, EntryStep, LoopStep, LifeStep

\* The event loop implements the scheduler the other modules are written against:
\* what RunOnLoop accepts runs once and in order, what it refuses never runs, and no
\* accepted function is left when a terminated loop starts again.
THEOREM LoopIsAScheduler == Spec => ImplementsScheduler
<1>1. Init => Promise!Init
  <2> SUFFICES ASSUME Init PROVE Promise!Init
    OBVIOUS
  <2>1. batch \o aux = <<>>
    BY DEF Init
  <2>2. Pending = <<>> /\ Submitted = {}
    BY <2>1, NoTasks DEF Init, Pending, Submitted
  <2> QED BY <2>2 DEF Init, Promise!Init, Pending, Submitted
<1>2. IInv /\ CloseInv /\ [Next]_vars => [Promise!Next]_(Promise!vars)
  BY PromiseStep
<1>3. QED
  BY Invariance, Ends, <1>1, <1>2, PTL DEF Spec, ImplementsScheduler, Promise!Spec
=============================================================================
