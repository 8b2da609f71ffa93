----------------------------- MODULE EventLoop -----------------------------
(***************************************************************************)
(* eventloop/eventloop.go: the loop that serializes every access to one    *)
(* goja runtime.  Goroutines that take part:                               *)
(*                                                                         *)
(*   - the loop goroutine (Run, Start, StartInForeground), which is also   *)
(*     where JavaScript callbacks execute and schedule more work;          *)
(*   - the goroutine that calls the lifecycle methods Start, Run, Stop and *)
(*     Terminate, one call at a time, as their comments require;           *)
(*   - any number of goroutines that call RunOnLoop, SetTimeout,           *)
(*     ClearTimeout, SetInterval, ClearInterval, RequireModule, StopNoWait;*)
(*   - one goroutine per expired timer and one per active interval.        *)
(*                                                                         *)
(* jobChan is never sent to in the program, so its select case and the     *)
(* drain at the end of Terminate never fire and have no counterpart here.  *)
(* Positions in `jobs` start at 1 (idx 0 stands for the code's -1).        *)
(***************************************************************************)
EXTENDS Integers, Sequences, FiniteSets

CONSTANTS
  Timeouts,     \* *Timer values, each started at most once
  Intervals,    \* *Interval values
  Immediates,   \* *Immediate values
  GoHandles,    \* the timeouts and intervals created through the Go API
  Tasks,        \* functions given to RunOnLoop
  Requires,     \* those of them that RequireModule submits
  MaxTicks,     \* bound: ticks of one interval waiting in auxJobs
  FnPanics      \* whether the function passed to Run may panic

Jobs == Timeouts \cup Intervals \cup Immediates

ASSUME JobsAssumption ==
  /\ IsFiniteSet(Jobs)
  /\ Timeouts \cap Intervals = {}
  /\ Immediates \cap (Timeouts \cup Intervals) = {}
ASSUME ParamAssumption ==
  /\ GoHandles \subseteq Timeouts \cup Intervals
  /\ Requires \subseteq Tasks
  /\ MaxTicks \in Nat
  /\ FnPanics \in BOOLEAN

VARIABLES
  \* The job table: touched only by the goroutine that owns the runtime.
  jobCount,     \* loop.jobCount
  jobs,         \* loop.jobs
  idx,          \* job.idx
  started,      \* jobs that were scheduled (counted in jobCount once)
  cancelled,    \* job.cancelled
  refed,        \* job.refed
  \* The goroutines behind timers and intervals.
  timer,        \* time.AfterFunc of a timeout
  worker,       \* goroutine of an interval
  stopChan,     \* intervals whose stopChan is closed
  \* The queue, shared under auxJobsLock, and the wakeup channel.
  aux,          \* loop.auxJobs
  terminated,   \* loop.terminated
  token,        \* wakeupChan holds its one element
  wakers,       \* addAuxJob calls between the append and the wakeup
  \* Lifecycle state, shared under stopLock (canRun is atomic).
  canRun, running, ctxDone,
  waiting,      \* the lifecycle caller sleeps in stopCond.Wait
  bcast,        \* run() has cleared running and not yet broadcast
  ctl,          \* where the lifecycle caller is
  \* The goroutine that owns the runtime.
  pc,           \* where it is
  inBackground, \* run's parameter
  caller,       \* which call of runAux is in progress
  batch,        \* the slice runAux is iterating over, the rest of it
  loading,      \* the RequireModule call whose load is executing
  \* Callers of the Go API.
  asked,        \* the API calls made so far
  reply         \* what RequireModule's caller has got

tableVars == <<jobCount, jobs, idx, started, cancelled, refed>>
timerVars == <<timer, worker, stopChan>>
queueVars == <<aux, terminated, token, wakers>>
lifeVars  == <<canRun, running, ctxDone, waiting, bcast, ctl>>
execVars  == <<pc, inBackground, caller, batch, loading>>
apiVars   == <<asked, reply>>
vars == <<tableVars, timerVars, queueVars, lifeVars, execVars, apiVars>>

\* A queued closure: what it does and to which timer or task.
Entry == [op : {"timeout", "start", "clear", "interval", "remove", "immediate", "task"},
          id : Jobs \cup Tasks]
E_(op, id) == [op |-> op, id |-> id]

Init ==
  /\ jobCount = 0 /\ jobs = <<>> /\ idx = [j \in Jobs |-> 0]
  /\ started = {} /\ cancelled = {} /\ refed = Jobs
  /\ timer = [t \in Timeouts |-> "none"]
  /\ worker = [i \in Intervals |-> "none"] /\ stopChan = {}
  /\ aux = <<>> /\ terminated = FALSE /\ token = FALSE /\ wakers = {}
  /\ canRun = FALSE /\ running = FALSE /\ ctxDone = FALSE
  /\ waiting = FALSE /\ bcast = FALSE /\ ctl = "idle"
  /\ pc = "off" /\ inBackground = FALSE /\ caller = "startup"
  /\ batch = <<>> /\ loading = {}
  /\ asked = {} /\ reply = [r \in Requires |-> "none"]

-----------------------------------------------------------------------------
(* The queue.                                                              *)

\* addAuxJob on the goroutine that owns the runtime: nobody else receives from
\* wakeupChan, so append and wakeup are one step.
AddAuxJobOnLoop(e) ==
  /\ aux' = IF terminated THEN aux ELSE Append(aux, e)
  /\ token' = (token \/ ~terminated)
  /\ UNCHANGED <<terminated, wakers>>

\* addAuxJob on any other goroutine: the wakeup comes after the unlock.
AddAuxJob(e) ==
  /\ aux' = IF terminated THEN aux ELSE Append(aux, e)
  /\ wakers' = IF terminated THEN wakers ELSE wakers \cup {e}
  /\ UNCHANGED <<terminated, token>>

\* Faulty variant: the wakeup is forgotten.
WakeupDropped(e) ==
  /\ e \in wakers
  /\ wakers' = wakers \ {e}
  /\ UNCHANGED <<tableVars, timerVars, aux, terminated, token, lifeVars, execVars, apiVars>>

\* The second half of addAuxJob: a send that never blocks.
Wakeup(e) ==
  /\ e \in wakers
  /\ wakers' = wakers \ {e}
  /\ token' = TRUE
  /\ UNCHANGED <<tableVars, timerVars, aux, terminated, lifeVars, execVars, apiVars>>

-----------------------------------------------------------------------------
(* The job table.  Swap-remove keeps `jobs` dense: the last job moves into *)
(* the hole.                                                               *)

\* schedule, SetTimeout and SetInterval: count the job, start its timer or its
\* goroutine, append it to the table.
StartJob(j) ==
  /\ jobCount' = jobCount + 1
  /\ started' = started \cup {j}
  /\ idx' = [idx EXCEPT ![j] = Len(jobs) + 1]
  /\ jobs' = Append(jobs, j)
  /\ IF j \in Timeouts
       THEN timer' = [timer EXCEPT ![j] = "armed"] /\ UNCHANGED <<worker, stopChan>>
       ELSE worker' = [worker EXCEPT ![j] = "run"] /\ UNCHANGED <<timer, stopChan>>
  /\ UNCHANGED <<cancelled, refed>>

\* Faulty variant: the job that moves into the hole keeps its old position.
RemoveJobNoReindex(j) ==
  LET hole == idx[j]
      last == jobs[Len(jobs)]
  IN  IF hole = 0
        THEN UNCHANGED <<jobs, idx>>
        ELSE /\ jobs' = SubSeq([jobs EXCEPT ![hole] = last], 1, Len(jobs) - 1)
             /\ idx' = [idx EXCEPT ![j] = 0]

RemoveJob(j) ==
  LET hole == idx[j]
      last == jobs[Len(jobs)]
  IN  IF hole = 0
        THEN UNCHANGED <<jobs, idx>>
        ELSE /\ jobs' = SubSeq([jobs EXCEPT ![hole] = last], 1, Len(jobs) - 1)
             /\ idx' = [idx EXCEPT ![last] = hole, ![j] = 0]

\* Mark a job cancelled, releasing the loop it keeps alive.
Uncount(j) ==
  /\ cancelled' = cancelled \cup {j}
  /\ jobCount' = IF j \in refed THEN jobCount - 1 ELSE jobCount

\* clearTimeout, and the cancellation of a timeout: timer.Stop reports whether
\* it prevented the timer from firing; if it did not, the entry doTimeout that is
\* on its way removes the job.
ClearTimeout(t) ==
  IF t \in cancelled
    THEN UNCHANGED <<tableVars, timerVars>>
    ELSE /\ Uncount(t)
         /\ IF timer[t] = "armed"
              THEN timer' = [timer EXCEPT ![t] = "done"] /\ RemoveJob(t)
              ELSE UNCHANGED <<timer, jobs, idx>>
         /\ UNCHANGED <<started, refed, worker, stopChan>>

ClearInterval(i) ==
  IF i \in cancelled
    THEN UNCHANGED <<tableVars, timerVars>>
    ELSE /\ Uncount(i)
         /\ stopChan' = stopChan \cup {i}
         /\ RemoveJob(i)
         /\ UNCHANGED <<started, refed, timer, worker>>

ClearJob(j) == IF j \in Timeouts THEN ClearTimeout(j) ELSE ClearInterval(j)

-----------------------------------------------------------------------------
(* What a callback may do while it executes on the runtime.  Timers and    *)
(* immediates are cleared and (un)referenced through handles, so only      *)
(* after they exist.                                                       *)

InCallback == pc \in {"fn", "cb"}

JsSchedule(j) ==
  /\ InCallback
  /\ j \in (Timeouts \cup Intervals) \ (GoHandles \cup started)
  /\ StartJob(j)
  /\ UNCHANGED <<queueVars, lifeVars, execVars, apiVars>>

JsSetImmediate(m) ==
  /\ InCallback
  /\ m \notin started
  /\ started' = started \cup {m}
  /\ jobCount' = jobCount + 1
  /\ AddAuxJobOnLoop(E_("immediate", m))
  /\ UNCHANGED <<jobs, idx, cancelled, refed, timerVars, lifeVars, execVars, apiVars>>

JsClear(j) ==
  /\ InCallback
  /\ j \in started \ (GoHandles \cup Immediates)
  /\ ClearJob(j)
  /\ UNCHANGED <<queueVars, lifeVars, execVars, apiVars>>

JsClearImmediate(m) ==
  /\ InCallback
  /\ m \in started \ cancelled
  /\ Uncount(m)
  /\ UNCHANGED <<jobs, idx, started, refed, timerVars, queueVars, lifeVars, execVars, apiVars>>

\* Faulty variant: a job that already ran or was cleared is counted again.
SetJobRefUnchecked(j) ==
  /\ InCallback
  /\ j \in started \ GoHandles
  /\ IF j \in refed
       THEN refed' = refed \ {j} /\ jobCount' = jobCount - 1
       ELSE refed' = refed \cup {j} /\ jobCount' = jobCount + 1
  /\ token' = TRUE
  /\ UNCHANGED <<jobs, idx, started, cancelled, timerVars, aux, terminated, wakers,
                 lifeVars, execVars, apiVars>>

\* ref() and unref() of a handle.
SetJobRef(j) ==
  /\ InCallback
  /\ j \in started \ (GoHandles \cup cancelled)
  /\ IF j \in refed
       THEN refed' = refed \ {j} /\ jobCount' = jobCount - 1
       ELSE refed' = refed \cup {j} /\ jobCount' = jobCount + 1
  /\ token' = TRUE
  /\ UNCHANGED <<jobs, idx, started, cancelled, timerVars, aux, terminated, wakers,
                 lifeVars, execVars, apiVars>>

\* RunOnLoop called from inside the loop.
JsRunOnLoop(t) ==
  /\ InCallback
  /\ t \in Tasks \ Requires
  /\ E_("task", t) \notin asked
  /\ asked' = asked \cup {E_("task", t)}
  /\ AddAuxJobOnLoop(E_("task", t))
  /\ UNCHANGED <<tableVars, timerVars, lifeVars, execVars, reply>>

\* The callback returns; for RequireModule's it has sent the result first.
EndCallback ==
  /\ pc = "cb"
  /\ pc' = "aux"
  /\ loading' = {}
  /\ reply' = [r \in Requires |-> IF r \in loading THEN "result" ELSE reply[r]]
  /\ UNCHANGED <<tableVars, timerVars, queueVars, lifeVars, inBackground, caller, batch, asked>>

\* The callback panics: safeExecute recovers and the loop goes on.
PanicInCallback ==
  /\ pc = "cb"
  /\ pc' = "aux"
  /\ loading' = {}
  /\ UNCHANGED <<tableVars, timerVars, queueVars, lifeVars, inBackground, caller, batch, apiVars>>

-----------------------------------------------------------------------------
(* Callers on other goroutines.                                            *)

\* RunOnLoop; RequireModule, which submits the load and waits for its result
\* unless the loop is terminated.
RunOnLoop(t) ==
  /\ E_("task", t) \notin asked
  /\ asked' = asked \cup {E_("task", t)}
  /\ AddAuxJob(E_("task", t))
  /\ reply' = [r \in Requires |-> IF r = t
                 THEN (IF terminated THEN "error" ELSE "waiting") ELSE reply[r]]
  /\ UNCHANGED <<tableVars, timerVars, lifeVars, execVars>>

\* SetTimeout and SetInterval of the Go API: the start itself is a queued job. A
\* refused call returns nil and changes nothing.
GoSchedule(j) ==
  /\ j \in GoHandles
  /\ ~terminated
  /\ E_("start", j) \notin asked
  /\ asked' = asked \cup {E_("start", j)}
  /\ AddAuxJob(E_("start", j))
  /\ UNCHANGED <<tableVars, timerVars, lifeVars, execVars, reply>>

\* ClearTimeout and ClearInterval of the Go API, on a handle SetTimeout or
\* SetInterval returned.
GoClear(j) ==
  /\ j \in GoHandles
  /\ E_("start", j) \in asked
  /\ E_("clear", j) \notin asked
  /\ asked' = asked \cup {E_("clear", j)}
  /\ AddAuxJob(E_("clear", j))
  /\ UNCHANGED <<tableVars, timerVars, lifeVars, execVars, reply>>

\* StopNoWait, from any goroutine, a callback included.
StopNoWait ==
  /\ running
  /\ canRun' = FALSE
  /\ token' = TRUE
  /\ UNCHANGED <<tableVars, timerVars, aux, terminated, wakers, running, ctxDone, waiting,
                 bcast, ctl, execVars, apiVars>>

\* The runtime's timer expires and starts a goroutine ...
TimerFire(t) ==
  /\ timer[t] = "armed"
  /\ timer' = [timer EXCEPT ![t] = "fired"]
  /\ UNCHANGED <<tableVars, worker, stopChan, queueVars, lifeVars, execVars, apiVars>>

\* ... that queues doTimeout; a refusal is ignored.
TimerEnqueue(t) ==
  /\ timer[t] = "fired"
  /\ timer' = [timer EXCEPT ![t] = "done"]
  /\ AddAuxJob(E_("timeout", t))
  /\ UNCHANGED <<tableVars, worker, stopChan, lifeVars, execVars, apiVars>>

\* An interval's goroutine: it selects between stopChan and the ticker, queues
\* doInterval on a tick, leaves when that is refused, and queues a last removeJob.
NotWaking(i) == E_("interval", i) \notin wakers

WorkerTick(i) ==
  /\ worker[i] = "run"
  /\ NotWaking(i)
  /\ Cardinality({k \in 1..Len(aux) : aux[k] = E_("interval", i)}) < MaxTicks
  /\ worker' = [worker EXCEPT ![i] = IF terminated THEN "exit" ELSE "run"]
  /\ AddAuxJob(E_("interval", i))
  /\ UNCHANGED <<tableVars, timer, stopChan, lifeVars, execVars, apiVars>>

WorkerStop(i) ==
  /\ worker[i] = "run"
  /\ NotWaking(i)
  /\ i \in stopChan
  /\ worker' = [worker EXCEPT ![i] = "exit"]
  /\ UNCHANGED <<tableVars, timer, stopChan, queueVars, lifeVars, execVars, apiVars>>

WorkerExit(i) ==
  /\ worker[i] = "exit"
  /\ worker' = [worker EXCEPT ![i] = "done"]
  /\ AddAuxJob(E_("remove", i))
  /\ UNCHANGED <<tableVars, timer, stopChan, lifeVars, execVars, apiVars>>

-----------------------------------------------------------------------------
(* runAux, on the goroutine that owns the runtime: take the whole queue,   *)
(* then run its entries in order.  safeExecute keeps a panic inside.       *)

RunAuxSwap ==
  /\ pc = "swap"
  /\ pc' = "aux"
  /\ batch' = aux
  /\ aux' = <<>>
  /\ UNCHANGED <<tableVars, timerVars, terminated, token, wakers, lifeVars,
                 inBackground, caller, loading, apiVars>>

\* Take the next entry of the batch, of the given kind.
TakeEntry(op, j) ==
  /\ pc = "aux"
  /\ batch # <<>>
  /\ Head(batch) = E_(op, j)
  /\ batch' = Tail(batch)
  /\ UNCHANGED <<queueVars, lifeVars, inBackground, caller, apiVars>>

\* The entry ends without calling back.
NoCallback == UNCHANGED <<pc, loading>>
Callback == pc' = "cb" /\ UNCHANGED loading

RunTask(t) ==
  /\ TakeEntry("task", t)
  /\ pc' = "cb"
  /\ loading' = {t} \cap Requires
  /\ UNCHANGED <<tableVars, timerVars>>

DoTimeout(t) ==
  /\ TakeEntry("timeout", t)
  /\ RemoveJob(t)
  /\ IF t \in cancelled
       THEN NoCallback /\ UNCHANGED <<cancelled, jobCount>>
       ELSE Callback /\ Uncount(t)
  /\ UNCHANGED <<started, refed, timerVars>>

DoInterval(i) ==
  /\ TakeEntry("interval", i)
  /\ IF i \in cancelled THEN NoCallback ELSE Callback
  /\ UNCHANGED <<tableVars, timerVars>>

DoImmediate(m) ==
  /\ TakeEntry("immediate", m)
  /\ IF m \in cancelled
       THEN NoCallback /\ UNCHANGED <<cancelled, jobCount>>
       ELSE Callback /\ Uncount(m)
  /\ UNCHANGED <<jobs, idx, started, refed, timerVars>>

\* The closures the Go API and the interval goroutine queue.
DoStart(j) == TakeEntry("start", j) /\ StartJob(j) /\ NoCallback
DoClear(j) == TakeEntry("clear", j) /\ ClearJob(j) /\ NoCallback
DoRemove(i) ==
  /\ TakeEntry("remove", i)
  /\ RemoveJob(i)
  /\ NoCallback
  /\ UNCHANGED <<jobCount, started, cancelled, refed, timerVars>>

-----------------------------------------------------------------------------
(* run(inBackground): the loop proper.                                     *)

\* Leave the for loop: the background hold on jobCount is given back.
LeaveLoop(count) ==
  /\ jobCount' = IF inBackground THEN count - 1 ELSE count
  /\ pc' = "exit"

\* The loop header, with the value jobCount has now.
LoopHeader(count) ==
  IF count > 0 THEN jobCount' = count /\ pc' = "select" ELSE LeaveLoop(count)

\* The runAux before the loop returns.
StartupDone ==
  /\ pc = "aux" /\ caller = "startup" /\ batch = <<>>
  /\ LoopHeader(IF inBackground THEN jobCount + 1 ELSE jobCount)
  /\ UNCHANGED <<jobs, idx, started, cancelled, refed, timerVars, queueVars, lifeVars,
                 inBackground, caller, batch, loading, apiVars>>

\* case <-loop.wakeupChan: runAux follows.
SelectWakeup ==
  /\ pc = "select"
  /\ token
  /\ token' = FALSE
  /\ pc' = "swap"
  /\ caller' = "select"
  /\ UNCHANGED <<tableVars, timerVars, aux, terminated, wakers, lifeVars,
                 inBackground, batch, loading, apiVars>>

\* case <-loop.ctx.Done().
SelectDone ==
  /\ pc = "select"
  /\ ctxDone
  /\ LeaveLoop(jobCount)
  /\ UNCHANGED <<jobs, idx, started, cancelled, refed, timerVars, queueVars, lifeVars,
                 inBackground, caller, batch, loading, apiVars>>

\* Faulty variant: the channel is drained after runAux instead of before.
WakeupDoneDrains ==
  /\ pc = "aux" /\ caller = "select" /\ batch = <<>>
  /\ IF canRun THEN LoopHeader(jobCount) ELSE LeaveLoop(jobCount)
  /\ token' = FALSE
  /\ UNCHANGED <<jobs, idx, started, cancelled, refed, timerVars, aux, terminated, wakers,
                 lifeVars, inBackground, caller, batch, loading, apiVars>>

\* The runAux of the wakeup case returns: stop if asked to, else loop.
WakeupDone ==
  /\ pc = "aux" /\ caller = "select" /\ batch = <<>>
  /\ IF canRun THEN LoopHeader(jobCount) ELSE LeaveLoop(jobCount)
  /\ UNCHANGED <<jobs, idx, started, cancelled, refed, timerVars, queueVars, lifeVars,
                 inBackground, caller, batch, loading, apiVars>>

\* Faulty variant: the waiters of Stop are not woken.
RunExitSilent ==
  /\ pc = "exit"
  /\ pc' = "off"
  /\ running' = FALSE
  /\ inBackground' = FALSE /\ caller' = "startup"
  /\ UNCHANGED <<tableVars, timerVars, queueVars, canRun, ctxDone, waiting, bcast, ctl,
                 batch, loading, apiVars>>

\* run's deferred function: running is cleared under stopLock ...
RunExit ==
  /\ pc = "exit"
  /\ pc' = "off"
  /\ running' = FALSE
  /\ bcast' = TRUE
  /\ inBackground' = FALSE /\ caller' = "startup"
  /\ UNCHANGED <<tableVars, timerVars, queueVars, canRun, ctxDone, waiting, ctl,
                 batch, loading, apiVars>>

\* ... and the waiters are woken after the unlock.
RunBroadcast ==
  /\ bcast
  /\ bcast' = FALSE
  /\ waiting' = FALSE
  /\ UNCHANGED <<tableVars, timerVars, queueVars, canRun, running, ctxDone, ctl,
                 execVars, apiVars>>

-----------------------------------------------------------------------------
(* The lifecycle calls.                                                    *)

\* setRunning; it panics without effect when the loop is running.
SetRunning ==
  /\ ctl = "idle"
  /\ ~running
  /\ ctxDone' = (ctxDone /\ ~terminated)
  /\ terminated' = FALSE
  /\ canRun' = TRUE
  /\ running' = TRUE
  /\ UNCHANGED <<tableVars, timerVars, aux, token, wakers, waiting, bcast, ctl,
                 batch, loading, apiVars>>

\* Start and StartInForeground: run(true), in a goroutine of its own or not.
Start ==
  /\ SetRunning
  /\ inBackground' = TRUE
  /\ pc' = "swap"
  /\ caller' = "startup"

\* Run: the function it is given is called first, outside run().
Run ==
  /\ SetRunning
  /\ inBackground' = FALSE
  /\ pc' = "fn"
  /\ caller' = "startup"

RunFnReturns ==
  /\ pc = "fn"
  /\ pc' = "swap"
  /\ UNCHANGED <<tableVars, timerVars, queueVars, lifeVars, inBackground, caller, batch,
                 loading, apiVars>>

\* Nothing recovers a panic of the function here: Run unwinds to its caller.
RunFnPanics ==
  /\ FnPanics
  /\ pc = "fn"
  /\ pc' = "off"
  /\ UNCHANGED <<tableVars, timerVars, queueVars, lifeVars, inBackground, caller, batch,
                 loading, apiVars>>

Stop ==
  /\ ctl = "idle"
  /\ ctl' = "stop"
  /\ UNCHANGED <<tableVars, timerVars, queueVars, canRun, running, ctxDone, waiting, bcast,
                 execVars, apiVars>>

\* The loop of Stop, which Terminate calls too: ask the running loop to stop and
\* sleep until a broadcast, then look again.
StopAsk ==
  /\ ctl \in {"stop", "termStop"}
  /\ ~waiting
  /\ running
  /\ canRun' = FALSE
  /\ token' = TRUE
  /\ waiting' = TRUE
  /\ UNCHANGED <<tableVars, timerVars, aux, terminated, wakers, running, ctxDone, bcast,
                 ctl, execVars, apiVars>>

StopReturn ==
  /\ ctl = "stop"
  /\ ~waiting
  /\ ~running
  /\ ctl' = "idle"
  /\ UNCHANGED <<tableVars, timerVars, queueVars, canRun, running, ctxDone, waiting, bcast,
                 execVars, apiVars>>

\* Terminate: cancel the context, then Stop ...
Terminate ==
  /\ ctl = "idle"
  /\ ctl' = "termStop"
  /\ ctxDone' = TRUE
  /\ UNCHANGED <<tableVars, timerVars, queueVars, canRun, running, waiting, bcast,
                 execVars, apiVars>>

\* Faulty variant: the queued jobs are not run.
TerminateMarkNoAux ==
  /\ ctl = "termStop"
  /\ ~waiting
  /\ ~running
  /\ ctl' = "termCancel"
  /\ terminated' = TRUE
  /\ UNCHANGED <<tableVars, timerVars, aux, token, wakers, canRun, running, ctxDone, waiting,
                 bcast, execVars, apiVars>>

\* ... then refuse new jobs and run the ones that are queued, here, on the
\* caller's goroutine ...
TerminateMark ==
  /\ ctl = "termStop"
  /\ ~waiting
  /\ ~running
  /\ ctl' = "termAux"
  /\ terminated' = TRUE
  /\ pc' = "swap"
  /\ caller' = "terminate"
  /\ UNCHANGED <<tableVars, timerVars, aux, token, wakers, canRun, running, ctxDone, waiting,
                 bcast, inBackground, batch, loading, apiVars>>

TerminateAuxDone ==
  /\ pc = "aux" /\ caller = "terminate" /\ batch = <<>>
  /\ pc' = "off" /\ caller' = "startup"
  /\ ctl' = "termCancel"
  /\ UNCHANGED <<tableVars, timerVars, queueVars, canRun, running, ctxDone, waiting, bcast,
                 inBackground, batch, loading, apiVars>>

\* ... then cancel the first job of the table that is not cancelled, until there
\* is none (a job that moves into the hole is looked at next) ...
Live(k) == jobs[k] \notin cancelled

TerminateCancel ==
  /\ ctl = "termCancel"
  /\ \E k \in 1..Len(jobs) :
       LET j == jobs[k] IN
       /\ Live(k) /\ \A m \in 1..(k-1) : ~Live(m)
       /\ Uncount(j)
       /\ RemoveJob(j)
       /\ IF j \in Timeouts
            THEN /\ timer' = [timer EXCEPT ![j] = IF @ = "armed" THEN "done" ELSE @]
                 /\ UNCHANGED <<worker, stopChan>>
            ELSE stopChan' = stopChan \cup {j} /\ UNCHANGED <<timer, worker>>
  /\ UNCHANGED <<started, refed, queueVars, lifeVars, execVars, apiVars>>

\* Faulty variants: return without waiting for the interval goroutines; return
\* without cancelling.
TerminateReturnNoWait ==
  /\ ctl = "termCancel"
  /\ \A k \in 1..Len(jobs) : ~Live(k)
  /\ ctl' = "idle"
  /\ UNCHANGED <<tableVars, timerVars, queueVars, canRun, running, ctxDone, waiting, bcast,
                 execVars, apiVars>>

TerminateReturnNoCancel ==
  /\ ctl = "termCancel"
  /\ ctl' = "idle"
  /\ UNCHANGED <<tableVars, timerVars, queueVars, canRun, running, ctxDone, waiting, bcast,
                 execVars, apiVars>>

\* ... and wait for the goroutines of the intervals.
TerminateReturn ==
  /\ ctl = "termCancel"
  /\ \A k \in 1..Len(jobs) : ~Live(k)
  /\ \A i \in Intervals : /\ worker[i] \in {"none", "done"}
                          /\ NotWaking(i) /\ E_("remove", i) \notin wakers
  /\ ctl' = "idle"
  /\ UNCHANGED <<tableVars, timerVars, queueVars, canRun, running, ctxDone, waiting, bcast,
                 execVars, apiVars>>

-----------------------------------------------------------------------------
JsStep ==
  \/ \E j \in Timeouts \cup Intervals : JsSchedule(j) \/ JsClear(j)
  \/ \E m \in Immediates : JsSetImmediate(m) \/ JsClearImmediate(m)
  \/ \E j \in Jobs : SetJobRef(j)
  \/ \E t \in Tasks : JsRunOnLoop(t)

ApiStep ==
  \/ \E t \in Tasks : RunOnLoop(t)
  \/ \E j \in GoHandles : GoSchedule(j) \/ GoClear(j)
  \/ StopNoWait

GoroutineStep ==
  \/ \E e \in wakers : Wakeup(e)
  \/ \E t \in Timeouts : TimerEnqueue(t)
  \/ \E i \in Intervals : WorkerStop(i) \/ WorkerExit(i)

EntryStep ==
  \/ \E t \in Tasks : RunTask(t)
  \/ \E t \in Timeouts : DoTimeout(t)
  \/ \E i \in Intervals : DoInterval(i) \/ DoRemove(i)
  \/ \E m \in Immediates : DoImmediate(m)
  \/ \E j \in GoHandles : DoStart(j) \/ DoClear(j)

LoopStep ==
  \/ RunFnReturns
  \/ RunAuxSwap
  \/ EntryStep
  \/ EndCallback
  \/ StartupDone
  \/ SelectWakeup
  \/ SelectDone
  \/ WakeupDone
  \/ RunExit

LifeStep == StopAsk \/ StopReturn \/ TerminateMark \/ TerminateAuxDone
            \/ TerminateCancel \/ TerminateReturn

Next ==
  \/ JsStep
  \/ ApiStep
  \/ GoroutineStep
  \/ \E t \in Timeouts : TimerFire(t)
  \/ \E i \in Intervals : WorkerTick(i)
  \/ LoopStep
  \/ PanicInCallback
  \/ RunFnPanics
  \/ RunBroadcast
  \/ LifeStep
  \/ Start \/ Run \/ Stop \/ Terminate

\* Every goroutine that has something to do runs eventually, and callbacks
\* return: that is all the Go scheduler and the program owe the loop. Calls
\* (JsStep, ApiStep, the lifecycle methods), expiry and ticks may never come.
Fairness ==
  /\ WF_vars(LoopStep)
  /\ WF_vars(RunBroadcast)
  /\ WF_vars(LifeStep)
  /\ \A t \in Timeouts : WF_vars(TimerEnqueue(t))
  /\ \A i \in Intervals : WF_vars(WorkerStop(i) \/ WorkerExit(i))
  /\ \A op \in {"timeout", "start", "clear", "interval", "remove", "task"}, j \in Jobs \cup Tasks :
       WF_vars(Wakeup(E_(op, j)))

Spec == Init /\ [][Next]_vars
FairSpec == Spec /\ Fairness

-----------------------------------------------------------------------------
(* Properties.                                                             *)

\* The types of all variables.
TypeOK ==
  /\ jobCount \in Int /\ jobs \in Seq(Jobs) /\ idx \in [Jobs -> Nat]
  /\ started \subseteq Jobs /\ cancelled \subseteq Jobs /\ refed \subseteq Jobs
  /\ timer \in [Timeouts -> {"none", "armed", "fired", "done"}]
  /\ worker \in [Intervals -> {"none", "run", "exit", "done"}]
  /\ stopChan \subseteq Intervals
  /\ aux \in Seq(Entry) /\ batch \in Seq(Entry) /\ wakers \subseteq Entry
  /\ terminated \in BOOLEAN /\ token \in BOOLEAN /\ canRun \in BOOLEAN
  /\ running \in BOOLEAN /\ ctxDone \in BOOLEAN /\ waiting \in BOOLEAN
  /\ bcast \in BOOLEAN /\ inBackground \in BOOLEAN
  /\ ctl \in {"idle", "stop", "termStop", "termAux", "termCancel"}
  /\ pc \in {"off", "fn", "swap", "aux", "cb", "select", "exit"}
  /\ caller \in {"startup", "select", "terminate"}
  /\ loading \subseteq Requires
  /\ asked \subseteq Entry
  /\ reply \in [Requires -> {"none", "waiting", "result", "error"}]

\* The table and the positions jobs remember agree, whatever order jobs are added,
\* fire, are cleared and are swap-removed in: removeJob never takes out another
\* job than the one it was asked to.
JobsIndexed ==
  /\ \A j \in Jobs : idx[j] # 0 => idx[j] \in 1..Len(jobs) /\ jobs[idx[j]] = j
  /\ \A k \in 1..Len(jobs) : idx[jobs[k]] = k

\* The jobs that keep the loop running: scheduled, neither cancelled nor done, and
\* referenced.
Counted == (started \ cancelled) \cap refed

\* run() holds one more count while it loops in the background.
Hold == inBackground /\ (pc = "select" \/ (pc \in {"swap", "aux", "cb"} /\ caller = "select"))

\* jobCount, the variable that decides when Run returns, is exactly the number of
\* jobs that keep the loop running (plus run's own hold): no interleaving of
\* expiry, clearing, (un)referencing and Terminate counts a job twice or never.
JobCountExact == jobCount = Cardinality(Counted) + (IF Hold THEN 1 ELSE 0)

\* While the loop sleeps in select with work in the queue, or asked to stop, a
\* wakeup is in the channel or on its way: no job and no stop request is missed.
NoLostWakeup ==
  (pc = "select" /\ (aux # <<>> \/ ~canRun)) => (token \/ wakers # {})

Queued(e) == \E k \in 1..Len(aux) : aux[k] = e
InBatch(e) == \E k \in 1..Len(batch) : batch[k] = e
Waits(e) == Queued(e) \/ InBatch(e)

\* A timeout or interval that keeps the loop running can still end: its timer is
\* armed, has fired, or its entry is queued; its goroutine runs. Terminate cancels
\* the ones whose goroutines it has refused before a restart can count on them.
CountedJobCanEnd ==
  ~terminated =>
    /\ \A t \in Counted \cap Timeouts :
         timer[t] \in {"armed", "fired"} \/ Waits(E_("timeout", t))
    /\ \A i \in Counted \cap Intervals : worker[i] = "run" /\ i \notin stopChan

\* "After it returns there are no active timers or goroutines associated with the
\* loop" (Terminate): from its return to the next start the queue is empty, every
\* accepted job has run, no timer is armed and no interval goroutine is left.
TerminateIsClean ==
  (terminated /\ ctl = "idle") =>
    /\ aux = <<>> /\ batch = <<>>
    /\ \A t \in Timeouts : timer[t] # "armed"
    /\ \A i \in Intervals : worker[i] \in {"none", "done"}
    /\ Counted \subseteq Immediates

\* The functions among the entries of a queue, oldest first: the n-th is the one at
\* the position up to which there are n of them.
TaskAt(q) == {k \in 1..Len(q) : q[k].op = "task"}
Rank(q, k) == Cardinality({m \in TaskAt(q) : m <= k})
OfRank(q, n) == {q[k].id : k \in {m \in TaskAt(q) : Rank(q, m) = n}}
NthTask(q, n) == CHOOSE t \in OfRank(q, n) : TRUE
TasksOf(q) == [n \in 1..Cardinality(TaskAt(q)) |-> NthTask(q, n)]

\* RunOnLoop keeps its promise (Scheduler): accepted functions run once, in order,
\* and none is left behind by a termination.
Promise == INSTANCE Scheduler WITH
  pending <- TasksOf(batch \o aux),
  submitted <- {t \in Tasks : E_("task", t) \in asked},
  open <- ~terminated
ImplementsScheduler == Promise!Spec

\* Stop and Terminate return.
LifecycleCallsReturn == (ctl # "idle") ~> (ctl = "idle")

\* A function RunOnLoop accepted runs, unless the loop stops first.
AcceptedTaskRuns ==
  \A t \in Tasks :
    (running /\ Waits(E_("task", t))) ~> (~running \/ ~Waits(E_("task", t)))

\* "[Run] waits until there are no more delayed jobs to run after which it stops the
\* loop and returns": when Run sleeps, some job can still come.
RunWaitsForAJob ==
  (pc = "select" /\ ~inBackground /\ wakers = {} /\ ~token) =>
    \E j \in Counted :
      IF j \in Immediates THEN Waits(E_("immediate", j)) ELSE idx[j] # 0
=============================================================================
