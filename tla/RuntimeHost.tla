---------------------------- MODULE RuntimeHost ----------------------------
(***************************************************************************)
(* runtimehost/host.go: the private per-runtime table in which every       *)
(* module keeps its one exports object (GetOrCreate, Load, Store, Detach). *)
(* Goroutines call it concurrently; a factory runs without the lock and    *)
(* may itself ask for other keys, and it may panic.                        *)
(*                                                                         *)
(* A section under host.mu is one step.  A caller is a stack of calls, the *)
(* innermost first, because factories nest.  The value a factory makes is  *)
(* the number of its entry; 0 is nil.                                      *)
(***************************************************************************)
EXTENDS Naturals, Sequences

CONSTANTS Callers,     \* goroutines
          Keys,
          Uses,        \* <<k, l>>: the factory of k calls GetOrCreate for l
          MaxEntries   \* bound: with that many entries made, no more panics and detaches

ASSUME HostAssumption == Uses \subseteq Keys \X Keys /\ MaxEntries \in Nat

VARIABLES
  attached,   \* hosts holds a Host for the runtime
  table,      \* host.canonicalValues: the entry of a key, 0 if absent
  entries,    \* every entry ever made: its channel ready and its value
  stack,      \* the calls each goroutine is in
  panics,     \* goroutines that are unwinding a panic
  made,       \* how many factories of a key returned, for this host
  returned    \* the values handed out for a key, for this host

vars == <<attached, table, entries, stack, panics, made, returned>>

Init ==
  /\ attached = FALSE
  /\ table = [k \in Keys |-> 0]
  /\ entries = <<>>
  /\ stack = [c \in Callers |-> <<>>]
  /\ panics = {}
  /\ made = [k \in Keys |-> 0]
  /\ returned = [k \in Keys |-> {}]

Call(at, k, e) == [at |-> at, key |-> k, entry |-> e,
                   todo |-> {l \in Keys : <<k, l>> \in Uses}]
Push(c, call) == stack' = [stack EXCEPT ![c] = <<call>> \o @]
Top(c, call) == stack' = [stack EXCEPT ![c] = <<call>> \o Tail(@)]
Pop(c) == stack' = [stack EXCEPT ![c] = Tail(@)]

-----------------------------------------------------------------------------
\* GetOrCreate is called from outside: For creates the host if need be.
GetOrCreate(c, k) ==
  /\ stack[c] = <<>>
  /\ attached' = TRUE
  /\ Push(c, Call("lock", k, 0))
  /\ UNCHANGED <<table, entries, panics, made, returned>>

\* A factory calls GetOrCreate for a key it uses.
FactoryCalls(c) ==
  LET s == Head(stack[c]) IN
    /\ s.at = "factory"
    /\ \E l \in s.todo :
         stack' = [stack EXCEPT ![c] =
                     <<Call("lock", l, 0), [s EXCEPT !.todo = @ \ {l}]>> \o Tail(@)]
    /\ UNCHANGED <<attached, table, entries, panics, made, returned>>

\* Faulty variant: the entry is not entered in the table before the factory runs.
LockLate(c) ==
  LET s == Head(stack[c]) IN
    /\ s.at = "lock"
    /\ IF table[s.key] # 0
         THEN Top(c, Call("wait", s.key, table[s.key])) /\ UNCHANGED entries
         ELSE /\ entries' = Append(entries, [ready |-> FALSE, value |-> 0])
              /\ Top(c, Call("factory", s.key, Len(entries) + 1))
    /\ UNCHANGED <<attached, table, panics, made, returned>>

\* The section under the lock: wait for who came first, or become the maker.
Lock(c) ==
  LET s == Head(stack[c]) IN
    /\ s.at = "lock"
    /\ IF table[s.key] # 0
         THEN Top(c, Call("wait", s.key, table[s.key])) /\ UNCHANGED <<entries, table>>
         ELSE /\ entries' = Append(entries, [ready |-> FALSE, value |-> 0])
              /\ table' = [table EXCEPT ![s.key] = Len(entries) + 1]
              /\ Top(c, Call("factory", s.key, Len(entries) + 1))
    /\ UNCHANGED <<attached, panics, made, returned>>

\* <-entry.ready; return entry.value
Wait(c) ==
  LET s == Head(stack[c]) IN
    /\ s.at = "wait"
    /\ entries[s.entry].ready
    /\ returned' = [returned EXCEPT ![s.key] = @ \cup {entries[s.entry].value}]
    /\ Pop(c)
    /\ UNCHANGED <<attached, table, entries, panics, made>>

\* Faulty variant: the value is written after ready was closed and the lock released,
\* so that a waiter reads the entry too early.
FactoryReturnsEarly(c) ==
  LET s == Head(stack[c]) IN
    /\ s.at = "factory" /\ s.todo = {}
    /\ entries' = [entries EXCEPT ![s.entry] =
                     IF @.ready THEN [@ EXCEPT !.value = s.entry] ELSE [@ EXCEPT !.ready = TRUE]]
    /\ IF entries[s.entry].ready
         THEN /\ made' = [made EXCEPT ![s.key] = @ + 1]
              /\ returned' = [returned EXCEPT ![s.key] = @ \cup {s.entry}]
              /\ Pop(c)
         ELSE UNCHANGED <<made, returned, stack>>
    /\ UNCHANGED <<attached, table, panics>>

\* The factory returned: publish the value and wake the waiters.
FactoryReturns(c) ==
  LET s == Head(stack[c]) IN
    /\ s.at = "factory" /\ s.todo = {}
    /\ entries' = [entries EXCEPT ![s.entry] = [ready |-> TRUE, value |-> s.entry]]
    /\ made' = [made EXCEPT ![s.key] = @ + 1]
    /\ returned' = [returned EXCEPT ![s.key] = @ \cup {s.entry}]
    /\ Pop(c)
    /\ UNCHANGED <<attached, table, panics>>

\* The factory panics ...
FactoryPanics(c) ==
  /\ Head(stack[c]).at = "factory"
  /\ Len(entries) < MaxEntries
  /\ panics' = panics \cup {c}
  /\ UNCHANGED <<attached, table, entries, stack, made, returned>>

\* Faulty variant: ready is not closed for a failed factory.
UnwindSilent(c) ==
  LET s == Head(stack[c]) IN
    /\ table' = [table EXCEPT ![s.key] = 0]
    /\ Pop(c)
    /\ panics' = IF Len(stack[c]) = 1 THEN panics \ {c} ELSE panics
    /\ UNCHANGED <<attached, entries, made, returned>>

\* ... and the deferred function of every GetOrCreate on the stack removes its entry
\* and wakes its waiters.
Unwind(c) ==
  LET s == Head(stack[c]) IN
    /\ table' = [table EXCEPT ![s.key] = 0]
    /\ entries' = [entries EXCEPT ![s.entry].ready = TRUE]
    /\ Pop(c)
    /\ panics' = IF Len(stack[c]) = 1 THEN panics \ {c} ELSE panics
    /\ UNCHANGED <<attached, made, returned>>

\* Load waits for an entry that is there, ready or not.
Load(c, k) ==
  /\ stack[c] = <<>>
  /\ attached
  /\ table[k] # 0
  /\ Push(c, Call("wait", k, table[k]))
  /\ UNCHANGED <<attached, table, entries, panics, made, returned>>

\* Detach; its caller has to know that nothing is being initialized.
Detach ==
  /\ attached
  /\ Len(entries) < MaxEntries
  /\ \A c \in Callers : stack[c] = <<>>
  /\ attached' = FALSE
  /\ table' = [k \in Keys |-> 0]
  /\ made' = [k \in Keys |-> 0]
  /\ returned' = [k \in Keys |-> {}]
  /\ UNCHANGED <<entries, stack, panics>>

-----------------------------------------------------------------------------
Step(c) ==
  /\ stack[c] # <<>>
  /\ \/ c \notin panics /\ (Lock(c) \/ Wait(c) \/ FactoryReturns(c) \/ FactoryCalls(c))
     \/ c \in panics /\ Unwind(c)

Next ==
  \/ \E c \in Callers :
       \/ Step(c)
       \/ stack[c] # <<>> /\ c \notin panics /\ FactoryPanics(c)
       \/ \E k \in Keys : GetOrCreate(c, k) \/ Load(c, k)
  \/ Detach

\* Factories return or panic, and a goroutine that can continue does.
Fairness == \A c \in Callers : WF_vars(Step(c))

Spec == Init /\ [][Next]_vars
FairSpec == Spec /\ Fairness

-----------------------------------------------------------------------------
Frame == [at : {"lock", "wait", "factory"}, key : Keys, entry : Nat, todo : SUBSET Keys]

\* The types of all variables; who waits or makes has an entry.
TypeOK ==
  /\ attached \in BOOLEAN
  /\ entries \in Seq([ready : BOOLEAN, value : Nat])
  /\ table \in [Keys -> 0..Len(entries)]
  /\ stack \in [Callers -> Seq(Frame)]
  /\ \A c \in Callers : \A i \in 1..Len(stack[c]) :
       stack[c][i].at # "lock" => stack[c][i].entry \in 1..Len(entries)
  /\ panics \subseteq Callers
  /\ made \in [Keys -> Nat]
  /\ returned \in [Keys -> SUBSET Nat]

\* However the calls of a key interleave: at most one factory of it returns for one
\* host; whoever got a value got the one that everybody else gets from then on; and
\* nil is handed out only by waiting for a factory that panicked, never because a
\* waiter woke up before the value was there.
OneValuePerKey ==
  /\ \A k \in Keys :
       /\ made[k] <= 1
       /\ \A v \in returned[k] \ {0} :
            table[k] # 0 /\ entries[table[k]] = [ready |-> TRUE, value |-> v]
  /\ (\E k \in Keys : 0 \in returned[k]) =>
       \E i \in 1..Len(entries) :
         entries[i] = [ready |-> TRUE, value |-> 0] /\ \A k \in Keys : table[k] # i

\* Factories whose uses form no cycle never wait for each other in a circle: every
\* call returns, after a panic of the maker too.
CallsReturn == \A c \in Callers : (stack[c] # <<>>) ~> (stack[c] = <<>>)
=============================================================================
