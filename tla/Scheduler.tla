----------------------------- MODULE Scheduler -----------------------------
(***************************************************************************)
(* What runtimehost.LoopScheduler.RunOnLoop promises the components that   *)
(* hand work back to the runtime (streams, fetch, fs, websocket, kv):      *)
(*                                                                         *)
(*   - a submitted function is accepted or refused on the spot, and it is  *)
(*     refused exactly when the scheduler is closed (terminated);          *)
(*   - accepted functions run one at a time, once, in submission order;    *)
(*   - closing does not lose work: everything accepted before the close    *)
(*     has run before the scheduler can be opened again.                   *)
(*                                                                         *)
(* EventLoop.tla is shown to implement it.                                 *)
(***************************************************************************)
EXTENDS Sequences

CONSTANT Tasks              \* the functions passed to RunOnLoop

VARIABLES pending,          \* accepted and not yet started, oldest first
          submitted,        \* the functions RunOnLoop was called with
          open              \* FALSE between Terminate and the next start

vars == <<pending, submitted, open>>

Init == pending = <<>> /\ submitted = {} /\ open = TRUE

\* RunOnLoop returned true: the function joins the end of the queue.
Accept(t) ==
  /\ open
  /\ t \notin submitted
  /\ pending' = Append(pending, t)
  /\ submitted' = submitted \cup {t}
  /\ UNCHANGED open

\* RunOnLoop returned false: the function will never run.
Refuse(t) ==
  /\ ~open
  /\ t \notin submitted
  /\ submitted' = submitted \cup {t}
  /\ UNCHANGED <<pending, open>>

\* The oldest accepted function is called. A closed scheduler still drains.
RunNext ==
  /\ pending # <<>>
  /\ pending' = Tail(pending)
  /\ UNCHANGED <<submitted, open>>

Close == open /\ open' = FALSE /\ UNCHANGED <<pending, submitted>>

Reopen ==
  /\ ~open
  /\ pending = <<>>
  /\ open' = TRUE
  /\ UNCHANGED <<pending, submitted>>

Next ==
  \/ \E t \in Tasks : Accept(t) \/ Refuse(t)
  \/ RunNext
  \/ Close
  \/ Reopen

Spec == Init /\ [][Next]_vars
=============================================================================
