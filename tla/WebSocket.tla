------------------------------ MODULE WebSocket ------------------------------
(***************************************************************************)
(* websocket/websocket.go: client connections.  Goroutines that take part: *)
(*                                                                         *)
(*   - the loop, where JavaScript constructs, sends and closes, and where  *)
(*     the events posted with RunOnLoop are delivered;                     *)
(*   - per connection, the goroutine of connect and then that of readPump; *)
(*   - the host's goroutine that calls CloseAll.                           *)
(*                                                                         *)
(* A section under one of the mutexes is one step, and so is the body of   *)
(* shutdownOnce.  The scheduler is the abstract one; the socket (a gorilla *)
(* Conn) and the peer behind it are external.                              *)
(***************************************************************************)
EXTENDS Naturals, Sequences, FiniteSets

CONSTANTS Conns,         \* the connections that may be made
          MaxMessages,   \* bound on the messages of one connection
          MaxSends       \* bound on the failing sends of one connection

ASSUME SocketAssumption ==
  /\ IsFiniteSet(Conns)
  /\ MaxMessages \in Nat /\ MaxSends \in Nat

\* WebSocketReadyState.
Connecting == 0
Open == 1
Closing == 2
Closed == 3

Closers == {"loop", "closeAll"}

VARIABLES
  readyState, closeFired,
  conn,          \* connections whose conn field is set
  done,          \* connections whose shutdownOnce has run: done is closed
  connections,   \* the manager's list; its order is left out
  dial,          \* per connection, where connect is
  pump,          \* per connection, where readPump is
  act,           \* per closer, the Send or closeInternal it is in
  todo,          \* what CloseAll has still to close
  code,          \* the code of the close event: "none", "local", "lost"
  lost,          \* connections that were open when a read failed
  \* external
  socket,        \* "none", "open", "closed"
  read,          \* messages read from the socket
  failed,        \* failed sends
  \* the scheduler
  pending, posted, open,
  got            \* the events delivered to JavaScript

flags == <<readyState, closeFired>>
sched == <<pending, posted, open>>
ext == <<socket, read, failed>>
ghosts == <<code, lost>>
vars == <<flags, conn, done, connections, dial, pump, act, todo, ghosts, ext, sched, got>>

Event == [n : Nat, conn : Conns, type : {"open", "error", "close", "message"}]

Sched == INSTANCE Scheduler WITH Tasks <- Event, pending <- pending, submitted <- posted, open <- open

Idle == [at |-> "idle"]
At(where, c) == [at |-> where, conn |-> c]

Init ==
  /\ readyState = [c \in Conns |-> Connecting] /\ closeFired = {} /\ conn = {}
  /\ done = {} /\ connections = {}
  /\ dial = [c \in Conns |-> "new"] /\ pump = [c \in Conns |-> "none"]
  /\ act = [a \in Closers |-> Idle] /\ todo = {}
  /\ code = [c \in Conns |-> "none"] /\ lost = {}
  /\ socket = [c \in Conns |-> "none"] /\ read = [c \in Conns |-> 0]
  /\ failed = [c \in Conns |-> 0]
  /\ Sched!Init /\ got = <<>>

LoopIdle == act["loop"] = Idle

\* dispatchEvent: the closure is queued, or lost if the loop is terminated.
DispatchEvent(c, type) ==
  LET e == [n |-> Cardinality(posted) + 1, conn |-> c, type |-> type]
  IN  Sched!Accept(e) \/ Sched!Refuse(e)

Dial(c, where) == dial' = [dial EXCEPT ![c] = where]
Pump(c, where) == pump' = [pump EXCEPT ![c] = where]
CloseSocket(c) == socket' = [socket EXCEPT ![c] = IF c \in conn THEN "closed" ELSE @]

\* webSocketCloseConnection: shutdownOnce.Do, with or without Unregister.
Shutdown(c, unregister) ==
  IF c \in done THEN UNCHANGED <<done, connections, socket>>
  ELSE /\ done' = done \cup {c}
       /\ connections' = IF unregister THEN connections \ {c} ELSE connections
       /\ CloseSocket(c)

-----------------------------------------------------------------------------
(* The constructor, connect.                                               *)

\* NewWebSocketConnection.
NewWebSocketConnection(c) ==
  /\ LoopIdle /\ dial[c] = "new"
  /\ connections' = connections \cup {c}
  /\ Dial(c, "dialing")
  /\ UNCHANGED <<flags, conn, done, pump, act, todo, ghosts, ext, sched, got>>

\* DialContext returns.
DialReturns(c) ==
  /\ dial[c] = "dialing"
  /\ \/ Dial(c, "failed") /\ UNCHANGED socket
     \/ Dial(c, "dialed") /\ socket' = [socket EXCEPT ![c] = "open"]
  /\ UNCHANGED <<flags, conn, done, connections, pump, act, todo, ghosts, read, failed, sched, got>>

DialFailed(c) ==
  /\ dial[c] = "failed"
  /\ readyState' = [readyState EXCEPT ![c] = Closed]
  /\ Dial(c, "error")
  /\ UNCHANGED <<closeFired, conn, done, connections, pump, act, todo, ghosts, ext, sched, got>>

DialError(c) ==
  /\ dial[c] = "error"
  /\ DispatchEvent(c, "error")
  /\ Dial(c, "shutdown")
  /\ UNCHANGED <<flags, conn, done, connections, pump, act, todo, ghosts, ext, got>>

DialShutdown(c) ==
  /\ dial[c] = "shutdown"
  /\ Shutdown(c, TRUE)
  /\ Dial(c, "done")
  /\ UNCHANGED <<flags, conn, pump, act, todo, ghosts, read, failed, sched, got>>

\* Faulty variant: the state becomes Open before conn is set.
OpenBeforeSetConn(c) ==
  /\ dial[c] = "dialed"
  /\ readyState' = [readyState EXCEPT ![c] = IF @ = Connecting THEN Open ELSE @]
  /\ Dial(c, "tryOpen")
  /\ UNCHANGED <<closeFired, conn, done, connections, pump, act, todo, ghosts, ext, sched, got>>

SetConn(c) ==
  /\ dial[c] = "dialed"
  /\ conn' = conn \cup {c}
  /\ Dial(c, "tryOpen")
  /\ UNCHANGED <<flags, done, connections, pump, act, todo, ghosts, ext, sched, got>>

\* Faulty variant: the read loop is started before the open event is posted.
TryOpenStartsPump(c) ==
  /\ dial[c] = "tryOpen" /\ readyState[c] = Connecting
  /\ readyState' = [readyState EXCEPT ![c] = Open]
  /\ Pump(c, "select")
  /\ Dial(c, "open")
  /\ UNCHANGED <<closeFired, conn, done, connections, act, todo, ghosts, ext, sched, got>>

\* tryOpen, and what follows if the connection was closed during the dial.
TryOpen(c) ==
  /\ dial[c] = "tryOpen"
  /\ \/ /\ readyState[c] = Connecting
        /\ readyState' = [readyState EXCEPT ![c] = Open]
        /\ Dial(c, "open")
     \/ /\ readyState[c] # Connecting
        /\ Dial(c, "abandon")
        /\ UNCHANGED readyState
  /\ UNCHANGED <<closeFired, conn, done, connections, pump, act, todo, ghosts, ext, sched, got>>

\* Faulty variant: the socket of an abandoned dial is left open.
AbandonKeepsSocket(c) ==
  /\ dial[c] = "abandon"
  /\ conn' = conn \ {c}
  /\ Dial(c, "done")
  /\ UNCHANGED <<flags, done, connections, pump, act, todo, ghosts, ext, sched, got>>

Abandon(c) ==
  /\ dial[c] = "abandon"
  /\ CloseSocket(c)
  /\ conn' = conn \ {c}
  /\ Dial(c, "done")
  /\ UNCHANGED <<flags, done, connections, pump, act, todo, ghosts, read, failed, sched, got>>

\* triggerOpen, then the goroutine of readPump.
TriggerOpen(c) ==
  /\ dial[c] = "open"
  /\ DispatchEvent(c, "open")
  /\ Pump(c, "select")
  /\ Dial(c, "done")
  /\ UNCHANGED <<flags, conn, done, connections, act, todo, ghosts, ext, got>>

-----------------------------------------------------------------------------
(* readPump.                                                               *)

PumpSelect(c) ==
  /\ pump[c] = "select"
  /\ Pump(c, IF c \in done THEN "shutdown" ELSE "read")
  /\ UNCHANGED <<flags, conn, done, connections, dial, act, todo, ghosts, ext, sched, got>>

\* ReadMessage returns a message, possibly one that was buffered before the close.
PumpMessage(c) ==
  /\ pump[c] = "read" /\ read[c] < MaxMessages
  /\ read' = [read EXCEPT ![c] = @ + 1]
  /\ Pump(c, "message")
  /\ UNCHANGED <<flags, conn, done, connections, dial, act, todo, ghosts, socket, failed, sched, got>>

TriggerMessage(c) ==
  /\ pump[c] = "message"
  /\ DispatchEvent(c, "message")
  /\ Pump(c, "select")
  /\ UNCHANGED <<flags, conn, done, connections, dial, act, todo, ghosts, ext, got>>

\* ReadMessage fails: the peer closed or vanished, or we closed the socket.
PumpFails(c) ==
  /\ pump[c] = "read"
  /\ lost' = IF readyState[c] = Open THEN lost \cup {c} ELSE lost
  /\ Pump(c, "state") \/ Pump(c, "error")
  /\ UNCHANGED <<flags, conn, done, connections, dial, act, todo, code, ext, sched, got>>

\* IsUnexpectedCloseError.
PumpError(c) ==
  /\ pump[c] = "error"
  /\ DispatchEvent(c, "error")
  /\ Pump(c, "state")
  /\ UNCHANGED <<flags, conn, done, connections, dial, act, todo, ghosts, ext, got>>

\* The passive close event, unless somebody is closing.
PumpState(c) ==
  /\ pump[c] = "state"
  /\ Pump(c, IF readyState[c] \in {Closing, Closed} THEN "shutdown" ELSE "trigger")
  /\ UNCHANGED <<flags, conn, done, connections, dial, act, todo, ghosts, ext, sched, got>>

\* triggerClose up to the unlock: the event is dispatched by who gets here first.
TriggerClose(c, how) ==
  /\ closeFired' = closeFired \cup {c}
  /\ readyState' = IF c \in closeFired THEN readyState ELSE [readyState EXCEPT ![c] = Closed]
  /\ code' = IF c \in closeFired THEN code ELSE [code EXCEPT ![c] = how]

\* Faulty variant: closeFired is not looked at.
PumpTriggerUnchecked(c) ==
  /\ pump[c] = "trigger"
  /\ TriggerClose(c, "lost")
  /\ Pump(c, "close")
  /\ UNCHANGED <<conn, done, connections, dial, act, todo, lost, ext, sched, got>>

PumpTrigger(c) ==
  /\ pump[c] = "trigger"
  /\ TriggerClose(c, "lost")
  /\ Pump(c, IF c \in closeFired THEN "shutdown" ELSE "close")
  /\ UNCHANGED <<conn, done, connections, dial, act, todo, lost, ext, sched, got>>

PumpClose(c) ==
  /\ pump[c] = "close"
  /\ DispatchEvent(c, "close")
  /\ Pump(c, "shutdown")
  /\ UNCHANGED <<flags, conn, done, connections, dial, act, todo, ghosts, ext, got>>

\* The deferred webSocketCloseConnection.
PumpShutdown(c) ==
  /\ pump[c] = "shutdown"
  /\ Shutdown(c, TRUE)
  /\ Pump(c, "done")
  /\ UNCHANGED <<flags, conn, dial, act, todo, ghosts, read, failed, sched, got>>

-----------------------------------------------------------------------------
(* close() on the loop, CloseAll on another goroutine.                     *)

\* startClosing.
StartClosing(a, c) ==
  IF readyState[c] \in {Closing, Closed} THEN UNCHANGED <<readyState, act>>
  ELSE /\ readyState' = [readyState EXCEPT ![c] = Closing]
       /\ act' = [act EXCEPT ![a] = At("frame", c)]

Close(c) ==
  /\ LoopIdle /\ dial[c] # "new"
  /\ StartClosing("loop", c)
  /\ UNCHANGED <<closeFired, conn, done, connections, dial, pump, todo, ghosts, ext, sched, got>>

CloseAll ==
  /\ act["closeAll"] = Idle /\ todo = {}
  /\ todo' = connections
  /\ connections' = {}
  /\ UNCHANGED <<flags, conn, done, dial, pump, act, ghosts, ext, sched, got>>

CloseNext ==
  /\ act["closeAll"] = Idle
  /\ \E c \in todo : todo' = todo \ {c} /\ StartClosing("closeAll", c)
  /\ UNCHANGED <<closeFired, conn, done, connections, dial, pump, ghosts, ext, sched, got>>

\* The close frame and the close of the socket, if there is one already.
CloseFrame(a) ==
  /\ act[a].at = "frame"
  /\ CloseSocket(act[a].conn)
  /\ act' = [act EXCEPT ![a].at = "trigger"]
  /\ UNCHANGED <<flags, conn, done, connections, dial, pump, todo, ghosts, read, failed, sched, got>>

CloseTrigger(a) ==
  /\ act[a].at = "trigger"
  /\ TriggerClose(act[a].conn, "local")
  /\ act' = [act EXCEPT ![a].at = IF act[a].conn \in closeFired THEN "shutdown" ELSE "close"]
  /\ UNCHANGED <<conn, done, connections, dial, pump, todo, lost, ext, sched, got>>

CloseEvent(a) ==
  /\ act[a].at = "close"
  /\ DispatchEvent(act[a].conn, "close")
  /\ act' = [act EXCEPT ![a].at = "shutdown"]
  /\ UNCHANGED <<flags, conn, done, connections, dial, pump, todo, ghosts, ext, got>>

CloseShutdown(a) ==
  /\ act[a].at = "shutdown"
  /\ Shutdown(act[a].conn, a = "loop")
  /\ act' = [act EXCEPT ![a] = Idle]
  /\ UNCHANGED <<flags, conn, dial, pump, todo, ghosts, read, failed, sched, got>>

-----------------------------------------------------------------------------
(* send() and the delivery of events, on the loop.                         *)

\* Send after its readyState check; a send on a connection that is not open is an
\* error event straight away.
Send(c) ==
  /\ LoopIdle /\ dial[c] # "new" /\ failed[c] < MaxSends
  /\ act' = [act EXCEPT !["loop"] = At(IF readyState[c] = Open THEN "send" ELSE "sendError", c)]
  /\ UNCHANGED <<flags, conn, done, connections, dial, pump, todo, ghosts, ext, sched, got>>

\* SetWriteDeadline and WriteMessage on what getConn returns; they fail if the
\* socket is closed, and may fail in any case.
SendWrite ==
  /\ act["loop"].at = "send"
  /\ \/ act' = [act EXCEPT !["loop"].at = "sendError"]
     \/ /\ socket[act["loop"].conn] = "open"
        /\ act' = [act EXCEPT !["loop"] = Idle]
  /\ UNCHANGED <<flags, conn, done, connections, dial, pump, todo, ghosts, ext, sched, got>>

SendError ==
  /\ act["loop"].at = "sendError"
  /\ DispatchEvent(act["loop"].conn, "error")
  /\ failed' = [failed EXCEPT ![act["loop"].conn] = @ + 1]
  /\ act' = [act EXCEPT !["loop"] = Idle]
  /\ UNCHANGED <<flags, conn, done, connections, dial, pump, todo, ghosts, socket, read, got>>

\* The closure of dispatchEvent: the handler, then the listeners.
Deliver ==
  /\ LoopIdle
  /\ Sched!RunNext
  /\ got' = Append(got, Head(pending))
  /\ UNCHANGED <<flags, conn, done, connections, dial, pump, act, todo, ghosts, ext>>

\* The host terminates the loop and starts it again.
SchedulerChanges ==
  /\ Sched!Close \/ Sched!Reopen
  /\ UNCHANGED <<flags, conn, done, connections, dial, pump, act, todo, ghosts, ext, got>>

-----------------------------------------------------------------------------
DialStep(c) == DialReturns(c) \/ DialFailed(c) \/ DialError(c) \/ DialShutdown(c)
                 \/ SetConn(c) \/ TryOpen(c) \/ Abandon(c) \/ TriggerOpen(c)
PumpStep(c) == PumpSelect(c) \/ TriggerMessage(c) \/ PumpError(c) \/ PumpState(c)
                 \/ PumpTrigger(c) \/ PumpClose(c) \/ PumpShutdown(c)
CloseStep(a) == CloseFrame(a) \/ CloseTrigger(a) \/ CloseEvent(a) \/ CloseShutdown(a)
JsStep(c) == NewWebSocketConnection(c) \/ Close(c) \/ Send(c)

Next ==
  \/ \E c \in Conns : JsStep(c) \/ DialStep(c) \/ PumpStep(c) \/ PumpMessage(c) \/ PumpFails(c)
  \/ \E a \in Closers : CloseStep(a)
  \/ CloseAll \/ CloseNext
  \/ SendWrite \/ SendError \/ Deliver \/ SchedulerChanges

\* Goroutines that are not blocked run; a dial ends (the dialer has a handshake
\* timeout) and a read on a closed socket fails. A read on an open socket may block
\* for ever, and nobody has to call anything.
Fairness ==
  /\ \A c \in Conns :
       /\ WF_vars(DialStep(c)) /\ WF_vars(PumpStep(c))
       /\ WF_vars(socket[c] = "closed" /\ PumpFails(c))
  /\ \A a \in Closers : WF_vars(CloseStep(a))
  /\ WF_vars(CloseNext) /\ WF_vars(SendWrite \/ SendError) /\ WF_vars(Deliver)

Spec == Init /\ [][Next]_vars
FairSpec == Spec /\ Fairness

-----------------------------------------------------------------------------
Ats == {"frame", "trigger", "close", "shutdown", "send", "sendError"}

\* The types of all variables; and a connection that is open or read from has its
\* conn set: neither Send nor readPump checks it for nil.
TypeOK ==
  /\ readyState \in [Conns -> Connecting..Closed]
  /\ closeFired \subseteq Conns /\ conn \subseteq Conns /\ done \subseteq Conns /\ lost \subseteq Conns
  /\ code \in [Conns -> {"none", "local", "lost"}]
  /\ dial \in [Conns -> {"new", "dialing", "failed", "error", "shutdown", "dialed", "tryOpen",
                         "abandon", "open", "done"}]
  /\ pump \in [Conns -> {"none", "select", "read", "message", "error", "state", "trigger",
                         "close", "shutdown", "done"}]
  /\ socket \in [Conns -> {"none", "open", "closed"}]
  /\ read \in [Conns -> 0..MaxMessages] /\ failed \in [Conns -> 0..MaxSends]
  /\ connections \subseteq Conns /\ todo \subseteq Conns
  /\ act \in [Closers -> {Idle} \cup [at : Ats, conn : Conns]]
  /\ \A c \in Conns : readyState[c] = Open \/ pump[c] # "none" => c \in conn
  /\ posted \subseteq Event /\ pending \in Seq(Event) /\ got \in Seq(Event) /\ open \in BOOLEAN

\* The events that were accepted by the loop, oldest first.
Accepted == got \o pending

\* JavaScript sees at most one close event per connection, however many of close(),
\* CloseAll and the read loop end it at the same time (closeFired).
CloseEventOnce ==
  \A j, k \in DOMAIN Accepted :
    /\ Accepted[j].type = "close" /\ Accepted[k].type = "close"
    /\ Accepted[j].conn = Accepted[k].conn
    => j = k

\* No open event follows a message: the read loop starts after the open event was
\* posted.
OpenBeforeMessages ==
  \A j, k \in DOMAIN Accepted :
    j < k /\ Accepted[j].type = "message" /\ Accepted[k].type = "open" =>
      Accepted[j].conn # Accepted[k].conn

\* A close event that says "connection lost" (1006) is about a connection whose read
\* failed while it was open: our own close never shows up as one.
LostMeansLost == \A c \in Conns : code[c] = "lost" => c \in lost

\* What JavaScript sees of a connection is an open event, messages and one close event,
\* which tells a lost connection from one that was closed.
EventsInOrder == CloseEventOnce /\ OpenBeforeMessages /\ LostMeansLost

\* readyState never goes back, whoever sets it.
ReadyStateForward == [][\A c \in Conns : readyState'[c] >= readyState[c]]_vars

\* A connection that is being closed, or whose read has failed, ends with its socket
\* closed, its read loop gone, not in the manager's list and with its close event
\* dispatched, for ever. A dial in progress at that time is no exception; only a
\* dial that fails by itself has no close event.
ClosedForGood ==
  \A c \in Conns :
    /\ (readyState[c] = Closing \/ c \in lost) ~> (c \in closeFired)
    /\ (readyState[c] >= Closing \/ c \in lost) ~>
         [](/\ socket[c] # "open" /\ c \in done /\ pump[c] \in {"none", "done"}
            /\ c \notin connections)
=============================================================================
