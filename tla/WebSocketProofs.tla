--------------------------- MODULE WebSocketProofs ---------------------------
(***************************************************************************)
(* Safety of WebSocket.tla for any set of connections and any number of    *)
(* messages and failing sends: its types, the single close event, open     *)
(* before messages, and what a lost connection means.                      *)
(***************************************************************************)
EXTENDS WebSocket, FiniteSetTheorems, TLAPS

\* The events of connection c of one type that the loop accepted.
Events(c, type) == {k \in DOMAIN Accepted : Accepted[k].conn = c /\ Accepted[k].type = type}

\* What the progress of connect says of the rest: the read loop starts last, and
\* only a connection that was opened has one.
DialInv ==
  \A c \in Conns :
    /\ dial[c] # "done" => pump[c] = "none"
    /\ dial[c] \notin {"open", "done"} => readyState[c] # Open
    /\ dial[c] \in {"tryOpen", "abandon", "open"} => c \in conn
    /\ dial[c] = "abandon" => readyState[c] \in {Closing, Closed}
    /\ dial[c] = "open" => readyState[c] # Connecting
    /\ pump[c] # "none" => readyState[c] # Connecting

\* Nothing is read before the open event was posted.
MessageInv ==
  \A c \in Conns :
    /\ dial[c] # "done" => Events(c, "message") = {}
    /\ \A j \in Events(c, "message"), k \in Events(c, "open") : ~(j < k)

\* A read that fails on a connection nobody is closing has marked it lost before the
\* read loop decides to report it.
LostInv ==
  \A c \in Conns :
    /\ pump[c] \in {"error", "state"} => c \in lost \/ readyState[c] \in {Closing, Closed}
    /\ pump[c] = "trigger" => c \in lost

\* A send that will fail is within the bound.
FailInv == \A c \in Conns :
  act["loop"] \in {At("send", c), At("sendError", c)} => failed[c] < MaxSends

\* closeFired is the right to dispatch the close event: one goroutine takes it, and
\* the event is dispatched once.
CloseInv ==
  \A c \in Conns :
    /\ \A j, k \in Events(c, "close") : j = k
    /\ c \notin closeFired => /\ Events(c, "close") = {}
                              /\ pump[c] # "close"
                              /\ \A a \in Closers : act[a] # At("close", c)
    /\ pump[c] = "close" => Events(c, "close") = {} /\ \A a \in Closers : act[a] # At("close", c)
    /\ \A a \in Closers : act[a] = At("close", c) =>
         Events(c, "close") = {} /\ \A b \in Closers \ {a} : act[b] # At("close", c)

IInv ==
  /\ TypeOK /\ IsFiniteSet(posted) /\ FailInv
  /\ DialInv /\ LostInv /\ LostMeansLost
  /\ CloseInv /\ MessageInv

-----------------------------------------------------------------------------
\* A dispatched event of type t is at the end of what the loop accepted, or refused.
LEMMA DispatchFacts ==
  ASSUME TypeOK, IsFiniteSet(posted), NEW c \in Conns,
         NEW t \in {"open", "error", "close", "message"},
         DispatchEvent(c, t), got' = got
  PROVE  /\ posted' \subseteq Event /\ pending' \in Seq(Event) /\ open' \in BOOLEAN
         /\ IsFiniteSet(posted')
         /\ \/ Accepted' = Accepted
            \/ \E e \in Event : e.conn = c /\ e.type = t /\ Accepted' = Append(Accepted, e)
<1> DEFINE e == [n |-> Cardinality(posted) + 1, conn |-> c, type |-> t]
<1>1. e \in Event
  BY FS_CardinalityType DEF Event
<1>2. got \in Seq(Event) /\ pending \in Seq(Event) /\ posted \subseteq Event /\ open \in BOOLEAN
  BY DEF TypeOK
<1>3. posted' = posted \cup {e} /\ open' = open
  BY DEF DispatchEvent, Sched!Accept, Sched!Refuse
<1>4. pending' = pending \/ pending' = Append(pending, e)
  BY DEF DispatchEvent, Sched!Accept, Sched!Refuse
<1>5. IsFiniteSet(posted')
  BY <1>3, FS_AddElement
<1> HIDE DEF e
<1>6. CASE pending' = pending
  BY <1>1, <1>2, <1>3, <1>5, <1>6 DEF Accepted
<1>7. CASE pending' = Append(pending, e)
  <2>1. got \o Append(pending, e) = Append(got \o pending, e)
    BY <1>1, <1>2
  <2>2. Accepted' = Append(Accepted, e)
    BY <2>1, <1>7 DEF Accepted
  <2>3. e.conn = c /\ e.type = t
    BY DEF e
  <2>4. pending' \in Seq(Event)
    BY <1>1, <1>2, <1>7
  <2> QED BY <2>2, <2>3, <2>4, <1>1, <1>2, <1>3, <1>5
<1> QED BY <1>4, <1>6, <1>7

\* Delivering an event does not change what was accepted.
LEMMA DeliverFacts ==
  ASSUME TypeOK, Deliver
  PROVE  /\ got' \in Seq(Event) /\ pending' \in Seq(Event)
         /\ posted' = posted /\ open' = open /\ Accepted' = Accepted
<1>1. got \in Seq(Event) /\ pending \in Seq(Event)
  BY DEF TypeOK
<1>2. /\ pending # <<>> /\ pending' = Tail(pending) /\ posted' = posted /\ open' = open
      /\ got' = Append(got, Head(pending))
  BY DEF Deliver, Sched!RunNext
<1>3. Append(got, Head(pending)) \o Tail(pending) = got \o pending
  BY <1>1, <1>2
<1>4. got' \in Seq(Event) /\ pending' \in Seq(Event)
  BY <1>1, <1>2
<1> QED BY <1>2, <1>3, <1>4 DEF Accepted

\* The events of a connection after a dispatch.
LEMMA EventsAppend ==
  ASSUME TypeOK, NEW e \in Event, Accepted' = Append(Accepted, e)
  PROVE  /\ Len(Accepted) \in Nat
         /\ Len(Accepted) + 1 \notin DOMAIN Accepted
         /\ \A c, t : Events(c, t)' =
              IF e.conn = c /\ e.type = t THEN Events(c, t) \cup {Len(Accepted) + 1} ELSE Events(c, t)
         /\ \A k \in DOMAIN Accepted : k < Len(Accepted) + 1 /\ k \in DOMAIN Accepted' /\ Accepted'[k] = Accepted[k]
         /\ \A k \in DOMAIN Accepted' : k = Len(Accepted) + 1 \/ k \in DOMAIN Accepted
         /\ Accepted'[Len(Accepted) + 1] = e
<1>1. Accepted \in Seq(Event)
  BY DEF TypeOK, Accepted
<1>2. DOMAIN Accepted = 1..Len(Accepted) /\ Len(Accepted) \in Nat
  BY <1>1
<1>3. /\ DOMAIN Accepted' = 1..(Len(Accepted) + 1)
      /\ Accepted'[Len(Accepted) + 1] = e
      /\ \A k \in 1..Len(Accepted) : Accepted'[k] = Accepted[k]
  BY <1>1
<1> HIDE DEF Accepted
<1>4. \A c, t : Events(c, t)' =
              IF e.conn = c /\ e.type = t THEN Events(c, t) \cup {Len(Accepted) + 1} ELSE Events(c, t)
  BY <1>2, <1>3 DEF Events
<1> QED BY <1>2, <1>3, <1>4

\* What a goroutine inside a close or a send does to act.
LEMMA ActFacts ==
  ASSUME TypeOK, NEW a \in Closers
  PROVE  /\ \A w \in Ats, c \in Conns : [act EXCEPT ![a] = At(w, c)] \in [Closers -> {Idle} \cup [at : Ats, conn : Conns]]
         /\ [act EXCEPT ![a] = Idle] \in [Closers -> {Idle} \cup [at : Ats, conn : Conns]]
         /\ act[a].at \in Ats =>
              /\ act[a].conn \in Conns
              /\ \A w \in Ats : /\ [act EXCEPT ![a].at = w] = [act EXCEPT ![a] = At(w, act[a].conn)]
                                /\ [act EXCEPT ![a].at = w] \in [Closers -> {Idle} \cup [at : Ats, conn : Conns]]
<1>1. act \in [Closers -> {Idle} \cup [at : Ats, conn : Conns]]
  BY DEF TypeOK
<1>2. \A w \in Ats, c \in Conns : At(w, c) \in [at : Ats, conn : Conns]
  BY DEF At
<1>3. ASSUME act[a].at \in Ats
      PROVE  /\ act[a].conn \in Conns
             /\ \A w \in Ats : [act[a] EXCEPT !.at = w] = At(w, act[a].conn)
  <2>1. act[a] # Idle
    BY <1>3 DEF Idle, Ats
  <2>2. act[a] \in [at : Ats, conn : Conns]
    BY <1>1, <2>1
  <2> QED BY <2>2 DEF At
<1>4. \A w \in Ats, c \in Conns : [act EXCEPT ![a] = At(w, c)] \in [Closers -> {Idle} \cup [at : Ats, conn : Conns]]
  BY <1>1, <1>2
<1>5. [act EXCEPT ![a] = Idle] \in [Closers -> {Idle} \cup [at : Ats, conn : Conns]]
  BY <1>1
<1>6. ASSUME act[a].at \in Ats, NEW w \in Ats
      PROVE  /\ [act EXCEPT ![a].at = w] = [act EXCEPT ![a] = At(w, act[a].conn)]
             /\ [act EXCEPT ![a].at = w] \in [Closers -> {Idle} \cup [at : Ats, conn : Conns]]
  BY <1>3, <1>4, <1>6
<1> QED BY <1>3, <1>4, <1>5, <1>6

\* shutdownOnce.
LEMMA ShutdownType ==
  ASSUME TypeOK, NEW c \in Conns, NEW u \in BOOLEAN, Shutdown(c, u)
  PROVE  /\ done' \subseteq Conns /\ connections' \subseteq Conns
         /\ socket' \in [Conns -> {"none", "open", "closed"}]
<1>1. CASE c \in done
  BY <1>1 DEF Shutdown, TypeOK
<1>2. CASE c \notin done
  <2>1. socket' \in [Conns -> {"none", "open", "closed"}]
    BY <1>2 DEF Shutdown, CloseSocket, TypeOK
  <2> QED BY <1>2, <2>1 DEF Shutdown, TypeOK
<1> QED BY <1>1, <1>2

\* startClosing.
LEMMA StartClosingType ==
  ASSUME TypeOK, NEW a \in Closers, NEW c \in Conns, StartClosing(a, c)
  PROVE  /\ readyState' \in [Conns -> Connecting..Closed]
         /\ \A d \in Conns : readyState'[d] = Open => readyState[d] = Open
         /\ act' \in [Closers -> {Idle} \cup [at : Ats, conn : Conns]]
<1>1. CASE readyState[c] \in {Closing, Closed}
  BY <1>1 DEF StartClosing, TypeOK
<1>2. CASE readyState[c] \notin {Closing, Closed}
  <2>1. readyState' = [readyState EXCEPT ![c] = Closing]
    BY <1>2 DEF StartClosing
  <2>2. act' = [act EXCEPT ![a] = At("frame", c)]
    BY <1>2 DEF StartClosing
  <2>3. "frame" \in Ats
    BY DEF Ats
  <2>4. act' \in [Closers -> {Idle} \cup [at : Ats, conn : Conns]]
    BY <2>2, <2>3, ActFacts
  <2>5. readyState \in [Conns -> 0..3]
    BY DEF TypeOK, Connecting, Closed
  <2> QED BY <2>1, <2>4, <2>5 DEF Connecting, Open, Closing, Closed
<1> QED BY <1>1, <1>2
-----------------------------------------------------------------------------
\* The types are preserved by every step.
LEMMA TypeStep ==
  ASSUME SocketAssumption, TypeOK, IsFiniteSet(posted), DialInv, FailInv, [Next]_vars
  PROVE  TypeOK' /\ IsFiniteSet(posted)'
<1> DEFINE Goal == TypeOK' /\ IsFiniteSet(posted)'
<1> USE SocketAssumption DEF SocketAssumption
<1>1. ASSUME NEW c \in Conns, NewWebSocketConnection(c) PROVE Goal
  BY <1>1 DEF NewWebSocketConnection, Dial, TypeOK, flags, sched, ext, ghosts, DialInv,
       Connecting, Open, Closing, Closed
<1>2. ASSUME NEW c \in Conns, Close(c) PROVE Goal
  BY <1>2, StartClosingType DEF Close, Closers, TypeOK, flags, sched, ext, ghosts
<1>3. ASSUME NEW c \in Conns, Send(c) PROVE Goal
  <2>1. act' \in [Closers -> {Idle} \cup [at : Ats, conn : Conns]]
    BY <1>3, ActFacts DEF Send, Ats, Closers
  <2> QED BY <1>3, <2>1 DEF Send, TypeOK, flags, sched, ext, ghosts
<1>4. ASSUME NEW c \in Conns, DialReturns(c) PROVE Goal
  <2>1. dial' \in [Conns -> {"new", "dialing", "failed", "error", "shutdown", "dialed", "tryOpen",
                         "abandon", "open", "done"}]
    <3>1. dial' = [dial EXCEPT ![c] = "failed"] \/ dial' = [dial EXCEPT ![c] = "dialed"]
      BY <1>4 DEF DialReturns, Dial
    <3> QED BY <3>1 DEF TypeOK
  <2>2. socket' \in [Conns -> {"none", "open", "closed"}]
    BY <1>4 DEF DialReturns, Dial, TypeOK
  <2> QED BY <2>1, <2>2, <1>4 DEF DialReturns, TypeOK, flags, sched, ext, ghosts
<1>5. ASSUME NEW c \in Conns, DialFailed(c) PROVE Goal
  BY <1>5 DEF DialFailed, Dial, TypeOK, flags, sched, ext, ghosts, DialInv, Connecting,
       Open, Closing, Closed
<1>6. ASSUME NEW c \in Conns, DialError(c) PROVE Goal
  <2>1. c \in Conns /\ DispatchEvent(c, "error") /\ got' = got
    BY <1>6 DEF DialError
  <2>2. act' \in [Closers -> {Idle} \cup [at : Ats, conn : Conns]]
    BY <1>6 DEF DialError, TypeOK
  <2>3. posted' \subseteq Event /\ pending' \in Seq(Event) /\ open' \in BOOLEAN /\ IsFiniteSet(posted')
    BY <2>1, DispatchFacts
  <2> QED BY <2>1, <2>2, <2>3, <1>6 DEF DialError, Dial, TypeOK, flags, sched, ext, ghosts
<1>7. ASSUME NEW c \in Conns, DialShutdown(c) PROVE Goal
  BY <1>7, ShutdownType DEF DialShutdown, Dial, TypeOK, flags, sched, ext, ghosts
<1>8. ASSUME NEW c \in Conns, SetConn(c) PROVE Goal
  BY <1>8 DEF SetConn, Dial, TypeOK, flags, sched, ext, ghosts, DialInv, Connecting,
       Open, Closing, Closed
<1>9. ASSUME NEW c \in Conns, TryOpen(c) PROVE Goal
  <2>1. CASE readyState[c] = Connecting
    <3>1. readyState' = [readyState EXCEPT ![c] = Open] /\ dial' = [dial EXCEPT ![c] = "open"]
      BY <2>1, <1>9 DEF TryOpen, Dial
    <3>2. c \in conn
      BY <1>9 DEF TryOpen, DialInv
    <3> QED BY <3>1, <3>2, <1>9 DEF TryOpen, TypeOK, flags, sched, ext, ghosts,
         Connecting, Open, Closing, Closed
  <2>2. CASE readyState[c] # Connecting
    <3>1. readyState' = readyState /\ dial' = [dial EXCEPT ![c] = "abandon"]
      BY <2>2, <1>9 DEF TryOpen, Dial
    <3> QED BY <3>1, <1>9 DEF TryOpen, TypeOK, flags, sched, ext, ghosts
  <2> QED BY <2>1, <2>2
<1>10. ASSUME NEW c \in Conns, Abandon(c) PROVE Goal
  BY <1>10 DEF Abandon, Dial, CloseSocket, TypeOK, flags, sched, ext, ghosts, DialInv,
       Connecting, Open, Closing, Closed
<1>11. ASSUME NEW c \in Conns, TriggerOpen(c) PROVE Goal
  <2>1. c \in Conns /\ DispatchEvent(c, "open") /\ got' = got
    BY <1>11 DEF TriggerOpen
  <2>2. act' \in [Closers -> {Idle} \cup [at : Ats, conn : Conns]]
    BY <1>11 DEF TriggerOpen, TypeOK
  <2>3. posted' \subseteq Event /\ pending' \in Seq(Event) /\ open' \in BOOLEAN /\ IsFiniteSet(posted')
    BY <2>1, DispatchFacts
  <2> QED BY <2>1, <2>2, <2>3, <1>11 DEF TriggerOpen, Dial, Pump, TypeOK, flags, sched,
       ext, ghosts, DialInv
<1>12. ASSUME NEW c \in Conns, PumpSelect(c) PROVE Goal
  BY <1>12 DEF PumpSelect, Pump, TypeOK, flags, sched, ext, ghosts, DialInv, Connecting,
       Open, Closing, Closed
<1>13. ASSUME NEW c \in Conns, TriggerMessage(c) PROVE Goal
  <2>1. c \in Conns /\ DispatchEvent(c, "message") /\ got' = got
    BY <1>13 DEF TriggerMessage
  <2>2. act' \in [Closers -> {Idle} \cup [at : Ats, conn : Conns]]
    BY <1>13 DEF TriggerMessage, TypeOK
  <2>3. posted' \subseteq Event /\ pending' \in Seq(Event) /\ open' \in BOOLEAN /\ IsFiniteSet(posted')
    BY <2>1, DispatchFacts
  <2> QED BY <2>1, <2>2, <2>3, <1>13 DEF TriggerMessage, Pump, TypeOK, flags, sched, ext,
       ghosts
<1>14. ASSUME NEW c \in Conns, PumpError(c) PROVE Goal
  <2>1. c \in Conns /\ DispatchEvent(c, "error") /\ got' = got
    BY <1>14 DEF PumpError
  <2>2. act' \in [Closers -> {Idle} \cup [at : Ats, conn : Conns]]
    BY <1>14 DEF PumpError, TypeOK
  <2>3. posted' \subseteq Event /\ pending' \in Seq(Event) /\ open' \in BOOLEAN /\ IsFiniteSet(posted')
    BY <2>1, DispatchFacts
  <2> QED BY <2>1, <2>2, <2>3, <1>14 DEF PumpError, Pump, TypeOK, flags, sched, ext, ghosts
<1>15. ASSUME NEW c \in Conns, PumpState(c) PROVE Goal
  BY <1>15 DEF PumpState, Pump, TypeOK, flags, sched, ext, ghosts, DialInv, Connecting,
       Open, Closing, Closed
<1>16. ASSUME NEW c \in Conns, PumpTrigger(c) PROVE Goal
  BY <1>16 DEF PumpTrigger, Pump, TriggerClose, TypeOK, flags, sched, ext, ghosts,
       DialInv, Connecting, Open, Closing, Closed
<1>17. ASSUME NEW c \in Conns, PumpClose(c) PROVE Goal
  <2>1. c \in Conns /\ DispatchEvent(c, "close") /\ got' = got
    BY <1>17 DEF PumpClose
  <2>2. act' \in [Closers -> {Idle} \cup [at : Ats, conn : Conns]]
    BY <1>17 DEF PumpClose, TypeOK
  <2>3. posted' \subseteq Event /\ pending' \in Seq(Event) /\ open' \in BOOLEAN /\ IsFiniteSet(posted')
    BY <2>1, DispatchFacts
  <2> QED BY <2>1, <2>2, <2>3, <1>17 DEF PumpClose, Pump, TypeOK, flags, sched, ext, ghosts
<1>18. ASSUME NEW c \in Conns, PumpShutdown(c) PROVE Goal
  BY <1>18, ShutdownType DEF PumpShutdown, Pump, TypeOK, flags, sched, ext, ghosts
<1>19. ASSUME NEW c \in Conns, PumpMessage(c) PROVE Goal
  BY <1>19 DEF PumpMessage, Pump, TypeOK, flags, sched, ext, ghosts, DialInv, Connecting,
       Open, Closing, Closed
<1>20. ASSUME NEW c \in Conns, PumpFails(c) PROVE Goal
  <2>1. lost' \subseteq Conns
    BY <1>20 DEF PumpFails, TypeOK
  <2>2. CASE Pump(c, "state")
    BY <1>20, <2>1, <2>2 DEF PumpFails, Pump, TypeOK, flags, sched, ext, ghosts
  <2>3. CASE Pump(c, "error")
    BY <1>20, <2>1, <2>3 DEF PumpFails, Pump, TypeOK, flags, sched, ext, ghosts
  <2> QED BY <1>20, <2>2, <2>3 DEF PumpFails
<1>21. ASSUME NEW a \in Closers, CloseFrame(a) PROVE Goal
  <2>1. act[a].conn \in Conns /\ act' \in [Closers -> {Idle} \cup [at : Ats, conn : Conns]]
    BY <1>21, ActFacts DEF CloseFrame, Ats
  <2> QED BY <1>21, <2>1 DEF CloseFrame, CloseSocket, TypeOK, flags, sched, ext, ghosts,
       Connecting, Open, Closing, Closed
<1>22. ASSUME NEW a \in Closers, CloseTrigger(a) PROVE Goal
  <2>1. act[a].conn \in Conns /\ act' \in [Closers -> {Idle} \cup [at : Ats, conn : Conns]]
    BY <1>22, ActFacts DEF CloseTrigger, Ats
  <2> QED BY <1>22, <2>1 DEF CloseTrigger, TriggerClose, TypeOK, flags, sched, ext,
       ghosts, Connecting, Open, Closing, Closed
<1>23. ASSUME NEW a \in Closers, CloseEvent(a) PROVE Goal
  <2>1. act[a].conn \in Conns /\ DispatchEvent(act[a].conn, "close") /\ got' = got
    BY <1>23, ActFacts DEF CloseEvent, Ats, Closers
  <2>2. act' \in [Closers -> {Idle} \cup [at : Ats, conn : Conns]]
    BY <1>23, ActFacts DEF CloseEvent, Ats, Closers
  <2>3. posted' \subseteq Event /\ pending' \in Seq(Event) /\ open' \in BOOLEAN /\ IsFiniteSet(posted')
    BY <2>1, DispatchFacts
  <2> QED BY <2>1, <2>2, <2>3, <1>23 DEF CloseEvent, TypeOK, flags, sched, ext, ghosts
<1>24. ASSUME NEW a \in Closers, CloseShutdown(a) PROVE Goal
  <2>1. act[a].conn \in Conns /\ (a = "loop") \in BOOLEAN /\ act' \in [Closers -> {Idle} \cup [at : Ats, conn : Conns]]
    BY <1>24, ActFacts DEF CloseShutdown, Ats
  <2>2. /\ done' \subseteq Conns /\ connections' \subseteq Conns
        /\ socket' \in [Conns -> {"none", "open", "closed"}]
    BY <1>24, <2>1, ShutdownType DEF CloseShutdown
  <2> QED BY <1>24, <2>1, <2>2 DEF CloseShutdown, TypeOK, flags, sched, ext, ghosts
<1>25. ASSUME CloseAll PROVE Goal
  BY <1>25 DEF CloseAll, TypeOK, flags, sched, ext, ghosts, DialInv, Connecting, Open,
       Closing, Closed
<1>26. ASSUME CloseNext PROVE Goal
  <2> PICK c \in todo : todo' = todo \ {c} /\ StartClosing("closeAll", c)
    BY <1>26 DEF CloseNext
  <2> QED BY <1>26, StartClosingType DEF CloseNext, Closers, TypeOK, flags, sched, ext,
       ghosts
<1>27. ASSUME SendWrite PROVE Goal
  <2>1. act' \in [Closers -> {Idle} \cup [at : Ats, conn : Conns]]
    BY <1>27, ActFacts DEF SendWrite, Ats, Closers
  <2> QED BY <2>1, <1>27 DEF SendWrite, TypeOK, flags, sched, ext, ghosts
<1>28. ASSUME SendError PROVE Goal
  <2>1. act["loop"].conn \in Conns /\ DispatchEvent(act["loop"].conn, "error") /\ got' = got
    BY <1>28, ActFacts DEF SendError, Ats, Closers
  <2>2. act' \in [Closers -> {Idle} \cup [at : Ats, conn : Conns]]
    BY <1>28, ActFacts DEF SendError, Ats, Closers
  <2>3. posted' \subseteq Event /\ pending' \in Seq(Event) /\ open' \in BOOLEAN /\ IsFiniteSet(posted')
    BY <2>1, DispatchFacts
  <2>4. failed' \in [Conns -> 0..MaxSends]
    <3>1. act["loop"] = At("sendError", act["loop"].conn)
      BY <1>28 DEF SendError, TypeOK, Closers, Idle, At
    <3>2. failed[act["loop"].conn] < MaxSends
      BY <2>1, <3>1 DEF FailInv
    <3> QED BY <2>1, <3>2, <1>28 DEF SendError, TypeOK
  <2> QED BY <2>1, <2>2, <2>3, <2>4, <1>28 DEF SendError, TypeOK, flags, sched, ext, ghosts
<1>29. ASSUME Deliver PROVE Goal
  BY <1>29, DeliverFacts DEF Deliver, TypeOK, flags, sched, ext, ghosts
<1>30. ASSUME SchedulerChanges PROVE Goal
  BY <1>30 DEF SchedulerChanges, Sched!Close, Sched!Reopen, TypeOK, flags, sched, ext,
       ghosts, DialInv, Connecting, Open, Closing, Closed
<1>31. ASSUME UNCHANGED vars PROVE Goal
  BY <1>31 DEF vars, TypeOK, flags, sched, ext, ghosts, DialInv, Connecting, Open,
       Closing, Closed
<1> QED BY <1>1, <1>2, <1>3, <1>4, <1>5, <1>6, <1>7, <1>8, <1>9, <1>10, <1>11, <1>12,
     <1>13, <1>14, <1>15, <1>16, <1>17, <1>18, <1>19, <1>20, <1>21, <1>22, <1>23, <1>24,
     <1>25, <1>26, <1>27, <1>28, <1>29, <1>30, <1>31 DEF Next, JsStep, DialStep,
     PumpStep, CloseStep

\* What dial, readyState and pump say of each other is preserved, and who is lost.
LEMMA FlagStep ==
  ASSUME TypeOK, DialInv, LostInv, LostMeansLost, [Next]_vars
  PROVE  DialInv' /\ LostInv' /\ LostMeansLost'
<1> DEFINE Goal == DialInv' /\ LostInv' /\ LostMeansLost'
<1>1. ASSUME NEW c \in Conns, NewWebSocketConnection(c) PROVE Goal
  BY <1>1 DEF NewWebSocketConnection, Dial, DialInv, LostInv, LostMeansLost, TypeOK,
       Connecting, Open, Closing, Closed, flags, sched, ext, ghosts
<1>2. ASSUME NEW c \in Conns, Close(c) PROVE Goal
  <2>1. CASE readyState[c] \in {Closing, Closed}
    BY <2>1, <1>2 DEF Close, StartClosing, DialInv, LostInv, LostMeansLost, TypeOK,
         Connecting, Open, Closing, Closed, flags, sched, ext, ghosts
  <2>2. CASE readyState[c] \notin {Closing, Closed}
    <3>1. readyState' = [readyState EXCEPT ![c] = Closing]
      BY <2>2, <1>2 DEF Close, StartClosing
    <3> QED BY <3>1, <1>2 DEF Close, DialInv, LostInv, LostMeansLost, TypeOK, Connecting,
         Open, Closing, Closed, flags, sched, ext, ghosts
  <2> QED BY <2>1, <2>2
<1>3. ASSUME NEW c \in Conns, Send(c) PROVE Goal
  BY <1>3 DEF Send, At, DialInv, LostInv, LostMeansLost, TypeOK, Connecting, Open,
       Closing, Closed, flags, sched, ext, ghosts
<1>4. ASSUME NEW c \in Conns, DialReturns(c) PROVE Goal
  BY <1>4 DEF DialReturns, Dial, DialInv, LostInv, LostMeansLost, TypeOK, Connecting,
       Open, Closing, Closed, flags, sched, ext, ghosts
<1>5. ASSUME NEW c \in Conns, DialFailed(c) PROVE Goal
  BY <1>5 DEF DialFailed, Dial, DialInv, LostInv, LostMeansLost, TypeOK, Connecting,
       Open, Closing, Closed, flags, sched, ext, ghosts
<1>6. ASSUME NEW c \in Conns, DialError(c) PROVE Goal
  BY <1>6 DEF DialError, Dial, DialInv, LostInv, LostMeansLost, TypeOK, Connecting, Open,
       Closing, Closed, flags, sched, ext, ghosts
<1>7. ASSUME NEW c \in Conns, DialShutdown(c) PROVE Goal
  BY <1>7 DEF DialShutdown, Dial, Shutdown, CloseSocket, DialInv, LostInv, LostMeansLost,
       TypeOK, Connecting, Open, Closing, Closed, flags, sched, ext, ghosts
<1>8. ASSUME NEW c \in Conns, SetConn(c) PROVE Goal
  BY <1>8 DEF SetConn, Dial, DialInv, LostInv, LostMeansLost, TypeOK, Connecting, Open,
       Closing, Closed, flags, sched, ext, ghosts
<1>9. ASSUME NEW c \in Conns, TryOpen(c) PROVE Goal
  <2>1. CASE readyState[c] = Connecting
    <3>1. readyState' = [readyState EXCEPT ![c] = Open] /\ dial' = [dial EXCEPT ![c] = "open"]
      BY <2>1, <1>9 DEF TryOpen, Dial
    <3> QED BY <3>1, <1>9 DEF TryOpen, DialInv, LostInv, LostMeansLost, TypeOK,
         Connecting, Open, Closing, Closed, flags, sched, ext, ghosts
  <2>2. CASE readyState[c] # Connecting
    BY <2>2, <1>9 DEF TryOpen, Dial, DialInv, LostInv, LostMeansLost, TypeOK, Connecting,
         Open, Closing, Closed, flags, sched, ext, ghosts
  <2> QED BY <2>1, <2>2
<1>10. ASSUME NEW c \in Conns, Abandon(c) PROVE Goal
  BY <1>10 DEF Abandon, Dial, CloseSocket, DialInv, LostInv, LostMeansLost, TypeOK,
       Connecting, Open, Closing, Closed, flags, sched, ext, ghosts
<1>11. ASSUME NEW c \in Conns, TriggerOpen(c) PROVE Goal
  BY <1>11 DEF TriggerOpen, Dial, Pump, DialInv, LostInv, LostMeansLost, TypeOK,
       Connecting, Open, Closing, Closed, flags, sched, ext, ghosts
<1>12. ASSUME NEW c \in Conns, PumpSelect(c) PROVE Goal
  BY <1>12 DEF PumpSelect, Pump, DialInv, LostInv, LostMeansLost, TypeOK, Connecting,
       Open, Closing, Closed, flags, sched, ext, ghosts
<1>13. ASSUME NEW c \in Conns, TriggerMessage(c) PROVE Goal
  BY <1>13 DEF TriggerMessage, Pump, DialInv, LostInv, LostMeansLost, TypeOK, Connecting,
       Open, Closing, Closed, flags, sched, ext, ghosts
<1>14. ASSUME NEW c \in Conns, PumpError(c) PROVE Goal
  BY <1>14 DEF PumpError, Pump, DialInv, LostInv, LostMeansLost, TypeOK, Connecting,
       Open, Closing, Closed, flags, sched, ext, ghosts
<1>15. ASSUME NEW c \in Conns, PumpState(c) PROVE Goal
  BY <1>15 DEF PumpState, Pump, DialInv, LostInv, LostMeansLost, TypeOK, Connecting,
       Open, Closing, Closed, flags, sched, ext, ghosts
<1>16. ASSUME NEW c \in Conns, PumpTrigger(c) PROVE Goal
  BY <1>16 DEF PumpTrigger, Pump, TriggerClose, DialInv, LostInv, LostMeansLost, TypeOK,
       Connecting, Open, Closing, Closed, flags, sched, ext, ghosts
<1>17. ASSUME NEW c \in Conns, PumpClose(c) PROVE Goal
  BY <1>17 DEF PumpClose, Pump, DialInv, LostInv, LostMeansLost, TypeOK, Connecting,
       Open, Closing, Closed, flags, sched, ext, ghosts
<1>18. ASSUME NEW c \in Conns, PumpShutdown(c) PROVE Goal
  BY <1>18 DEF PumpShutdown, Pump, Shutdown, CloseSocket, DialInv, LostInv,
       LostMeansLost, TypeOK, Connecting, Open, Closing, Closed, flags, sched, ext, ghosts
<1>19. ASSUME NEW c \in Conns, PumpMessage(c) PROVE Goal
  BY <1>19 DEF PumpMessage, Pump, DialInv, LostInv, LostMeansLost, TypeOK, Connecting,
       Open, Closing, Closed, flags, sched, ext, ghosts
<1>20. ASSUME NEW c \in Conns, PumpFails(c) PROVE Goal
  BY <1>20 DEF PumpFails, Pump, DialInv, LostInv, LostMeansLost, TypeOK, Connecting,
       Open, Closing, Closed, flags, sched, ext, ghosts
<1>21. ASSUME NEW a \in Closers, CloseFrame(a) PROVE Goal
  BY <1>21 DEF CloseFrame, CloseSocket, DialInv, LostInv, LostMeansLost, TypeOK,
       Connecting, Open, Closing, Closed, flags, sched, ext, ghosts
<1>22. ASSUME NEW a \in Closers, CloseTrigger(a) PROVE Goal
  BY <1>22 DEF CloseTrigger, TriggerClose, DialInv, LostInv, LostMeansLost, TypeOK,
       Connecting, Open, Closing, Closed, flags, sched, ext, ghosts
<1>23. ASSUME NEW a \in Closers, CloseEvent(a) PROVE Goal
  BY <1>23 DEF CloseEvent, DialInv, LostInv, LostMeansLost, TypeOK, Connecting, Open,
       Closing, Closed, flags, sched, ext, ghosts
<1>24. ASSUME NEW a \in Closers, CloseShutdown(a) PROVE Goal
  BY <1>24 DEF CloseShutdown, Shutdown, CloseSocket, DialInv, LostInv, LostMeansLost,
       TypeOK, Connecting, Open, Closing, Closed, flags, sched, ext, ghosts
<1>25. ASSUME CloseAll PROVE Goal
  BY <1>25 DEF CloseAll, DialInv, LostInv, LostMeansLost, TypeOK, Connecting, Open,
       Closing, Closed, flags, sched, ext, ghosts
<1>26. ASSUME CloseNext PROVE Goal
  <2> PICK c \in todo : todo' = todo \ {c} /\ StartClosing("closeAll", c)
    BY <1>26 DEF CloseNext
  <2> c \in Conns
    BY DEF TypeOK
  <2>1. CASE readyState[c] \in {Closing, Closed}
    BY <2>1, <1>26 DEF CloseNext, StartClosing, DialInv, LostInv, LostMeansLost, TypeOK,
         Connecting, Open, Closing, Closed, flags, sched, ext, ghosts
  <2>2. CASE readyState[c] \notin {Closing, Closed}
    <3>1. readyState' = [readyState EXCEPT ![c] = Closing]
      BY <2>2, <1>26 DEF CloseNext, StartClosing
    <3> QED BY <3>1, <1>26 DEF CloseNext, DialInv, LostInv, LostMeansLost, TypeOK,
         Connecting, Open, Closing, Closed, flags, sched, ext, ghosts
  <2> QED BY <2>1, <2>2
<1>27. ASSUME SendWrite PROVE Goal
  BY <1>27 DEF SendWrite, DialInv, LostInv, LostMeansLost, TypeOK, Connecting, Open,
       Closing, Closed, flags, sched, ext, ghosts
<1>28. ASSUME SendError PROVE Goal
  BY <1>28 DEF SendError, DialInv, LostInv, LostMeansLost, TypeOK, Connecting, Open,
       Closing, Closed, flags, sched, ext, ghosts
<1>29. ASSUME Deliver PROVE Goal
  BY <1>29 DEF Deliver, DialInv, LostInv, LostMeansLost, TypeOK, Connecting, Open,
       Closing, Closed, flags, sched, ext, ghosts
<1>30. ASSUME SchedulerChanges PROVE Goal
  BY <1>30 DEF SchedulerChanges, Sched!Close, Sched!Reopen, DialInv, LostInv,
       LostMeansLost, TypeOK, Connecting, Open, Closing, Closed, flags, sched, ext, ghosts
<1>31. ASSUME UNCHANGED vars PROVE Goal
  BY <1>31 DEF vars, DialInv, LostInv, LostMeansLost, TypeOK, Connecting, Open, Closing,
       Closed, flags, sched, ext, ghosts
<1> QED BY <1>1, <1>2, <1>3, <1>4, <1>5, <1>6, <1>7, <1>8, <1>9, <1>10, <1>11, <1>12,
     <1>13, <1>14, <1>15, <1>16, <1>17, <1>18, <1>19, <1>20, <1>21, <1>22, <1>23, <1>24,
     <1>25, <1>26, <1>27, <1>28, <1>29, <1>30, <1>31 DEF Next, JsStep, DialStep,
     PumpStep, CloseStep

\* What a dispatch does to the events the loop accepted: those of its connection and
\* type gain at most one, at the end, and the others do not move.
Dispatched(c, t) ==
  /\ \A d, u : d # c \/ u # t => Events(d, u)' = Events(d, u)
  /\ \/ Events(c, t)' = Events(c, t)
     \/ \E n \in Nat : /\ Events(c, t)' = Events(c, t) \cup {n}
                       /\ \A d, u : \A k \in Events(d, u) : k \in Nat /\ k < n

\* dispatchEvent appends its event, or the loop refuses it.
LEMMA DispatchEvents ==
  ASSUME TypeOK, IsFiniteSet(posted), NEW c \in Conns,
         NEW t \in {"open", "error", "close", "message"},
         DispatchEvent(c, t), got' = got
  PROVE  Dispatched(c, t)
<1> USE DEF Dispatched
<1>0. Accepted' = Accepted \/ \E e \in Event : e.conn = c /\ e.type = t /\ Accepted' = Append(Accepted, e)
  BY DispatchFacts
<1>1. CASE Accepted' = Accepted
  BY <1>1 DEF Events
<1>2. ASSUME NEW e \in Event, e.conn = c, e.type = t, Accepted' = Append(Accepted, e)
      PROVE  /\ \A d, u : d # c \/ u # t => Events(d, u)' = Events(d, u)
             /\ \E n \in Nat : /\ Events(c, t)' = Events(c, t) \cup {n}
                               /\ \A d, u : \A k \in Events(d, u) : k \in Nat /\ k < n
  <2>1. \A d, u : Events(d, u)' =
              IF e.conn = d /\ e.type = u THEN Events(d, u) \cup {Len(Accepted) + 1} ELSE Events(d, u)
    BY <1>2, EventsAppend
  <2>2. /\ Len(Accepted) + 1 \in Nat
        /\ \A k \in DOMAIN Accepted : k < Len(Accepted) + 1
    BY <1>2, EventsAppend
  <2>3. Accepted \in Seq(Event)
    BY DEF TypeOK, Accepted
  <2>4. \A k \in DOMAIN Accepted : k \in Nat
    BY <2>3
  <2>5. \A d, u : \A k \in Events(d, u) : k \in Nat /\ k < Len(Accepted) + 1
    BY <2>2, <2>4 DEF Events
  <2>6. Events(c, t)' = Events(c, t) \cup {Len(Accepted) + 1}
    BY <2>1, <1>2
  <2> QED BY <2>1, <2>2, <2>5, <2>6, <1>2
<1> QED BY <1>0, <1>1, <1>2

\* A failing send is counted once.
LEMMA FailStep ==
  ASSUME TypeOK, FailInv, [Next]_vars
  PROVE  FailInv'
<1> DEFINE Goal == FailInv'
<1>1. ASSUME NEW c \in Conns, NewWebSocketConnection(c) PROVE Goal
  BY <1>1 DEF NewWebSocketConnection, FailInv, ext
<1>2. ASSUME NEW c \in Conns, Close(c) PROVE Goal
  <2>1. act["loop"]' = act["loop"] \/ act["loop"]' = At("frame", c)
    BY <1>2 DEF Close, StartClosing, TypeOK, Closers
  <2> QED BY <2>1, <1>2 DEF Close, FailInv, At, ext
<1>3. ASSUME NEW c \in Conns, Send(c) PROVE Goal
  <2>1. act["loop"]' = At(IF readyState[c] = Open THEN "send" ELSE "sendError", c)
    BY <1>3 DEF Send, TypeOK, Closers
  <2>2. \A d \in Conns : act["loop"]' \in {At("send", d), At("sendError", d)} => d = c
    BY <2>1 DEF At
  <2> QED BY <1>3, <2>2 DEF Send, FailInv, ext
<1>4. ASSUME NEW c \in Conns, DialReturns(c) PROVE Goal
  BY <1>4 DEF DialReturns, FailInv, ext
<1>5. ASSUME NEW c \in Conns, DialFailed(c) PROVE Goal
  BY <1>5 DEF DialFailed, FailInv, ext
<1>6. ASSUME NEW c \in Conns, DialError(c) PROVE Goal
  BY <1>6 DEF DialError, FailInv, ext
<1>7. ASSUME NEW c \in Conns, DialShutdown(c) PROVE Goal
  BY <1>7 DEF DialShutdown, FailInv, ext
<1>8. ASSUME NEW c \in Conns, SetConn(c) PROVE Goal
  BY <1>8 DEF SetConn, FailInv, ext
<1>9. ASSUME NEW c \in Conns, TryOpen(c) PROVE Goal
  BY <1>9 DEF TryOpen, FailInv, ext
<1>10. ASSUME NEW c \in Conns, Abandon(c) PROVE Goal
  BY <1>10 DEF Abandon, FailInv, ext
<1>11. ASSUME NEW c \in Conns, TriggerOpen(c) PROVE Goal
  BY <1>11 DEF TriggerOpen, FailInv, ext
<1>12. ASSUME NEW c \in Conns, PumpSelect(c) PROVE Goal
  BY <1>12 DEF PumpSelect, FailInv, ext
<1>13. ASSUME NEW c \in Conns, TriggerMessage(c) PROVE Goal
  BY <1>13 DEF TriggerMessage, FailInv, ext
<1>14. ASSUME NEW c \in Conns, PumpError(c) PROVE Goal
  BY <1>14 DEF PumpError, FailInv, ext
<1>15. ASSUME NEW c \in Conns, PumpState(c) PROVE Goal
  BY <1>15 DEF PumpState, FailInv, ext
<1>16. ASSUME NEW c \in Conns, PumpTrigger(c) PROVE Goal
  BY <1>16 DEF PumpTrigger, FailInv, ext
<1>17. ASSUME NEW c \in Conns, PumpClose(c) PROVE Goal
  BY <1>17 DEF PumpClose, FailInv, ext
<1>18. ASSUME NEW c \in Conns, PumpShutdown(c) PROVE Goal
  BY <1>18 DEF PumpShutdown, FailInv, ext
<1>19. ASSUME NEW c \in Conns, PumpMessage(c) PROVE Goal
  BY <1>19 DEF PumpMessage, FailInv, ext
<1>20. ASSUME NEW c \in Conns, PumpFails(c) PROVE Goal
  BY <1>20 DEF PumpFails, FailInv, ext
<1>21. ASSUME NEW a \in Closers, CloseFrame(a) PROVE Goal
  <2>1. act["loop"]' = act["loop"] \/ act["loop"]'.at \notin {"send", "sendError"}
    BY <1>21 DEF CloseFrame, TypeOK, Closers, Idle
  <2> QED BY <2>1, <1>21 DEF CloseFrame, FailInv, At, ext
<1>22. ASSUME NEW a \in Closers, CloseTrigger(a) PROVE Goal
  <2>1. act["loop"]' = act["loop"] \/ act["loop"]'.at \notin {"send", "sendError"}
    BY <1>22 DEF CloseTrigger, TypeOK, Closers, Idle
  <2> QED BY <2>1, <1>22 DEF CloseTrigger, FailInv, At, ext
<1>23. ASSUME NEW a \in Closers, CloseEvent(a) PROVE Goal
  <2>1. act["loop"]' = act["loop"] \/ act["loop"]'.at \notin {"send", "sendError"}
    BY <1>23 DEF CloseEvent, TypeOK, Closers, Idle
  <2> QED BY <2>1, <1>23 DEF CloseEvent, FailInv, At, ext
<1>24. ASSUME NEW a \in Closers, CloseShutdown(a) PROVE Goal
  <2>1. act["loop"]' = act["loop"] \/ act["loop"]'.at \notin {"send", "sendError"}
    BY <1>24 DEF CloseShutdown, TypeOK, Closers, Idle
  <2> QED BY <2>1, <1>24 DEF CloseShutdown, FailInv, At, ext
<1>25. ASSUME CloseAll PROVE Goal
  BY <1>25 DEF CloseAll, FailInv, ext
<1>26. ASSUME CloseNext PROVE Goal
  <2>1. act["loop"]' = act["loop"]
    BY <1>26 DEF CloseNext, StartClosing, TypeOK, Closers
  <2> QED BY <2>1, <1>26 DEF CloseNext, FailInv, ext
<1>27. ASSUME SendWrite PROVE Goal
  <2>1. act["loop"].conn \in Conns /\ "send" \in Ats /\ "sendError" \in Ats
    BY <1>27, ActFacts DEF SendWrite, Closers, Ats
  <2>2. act["loop"] = At("send", act["loop"].conn)
    BY <1>27 DEF SendWrite, TypeOK, Idle, At, Closers
  <2>3. act["loop"]' = Idle \/ act["loop"]' = At("sendError", act["loop"].conn)
    BY <1>27, <2>2 DEF SendWrite, TypeOK, At, Closers
  <2>4. \A d \in Conns : act["loop"]' \in {At("send", d), At("sendError", d)} => d = act["loop"].conn
    BY <2>3 DEF At, Idle
  <2> QED BY <1>27, <2>1, <2>2, <2>4 DEF SendWrite, FailInv, ext
<1>28. ASSUME SendError PROVE Goal
  <2>1. act["loop"]' = Idle
    BY <1>28 DEF SendError, TypeOK, Closers
  <2> QED BY <2>1 DEF FailInv, At, Idle
<1>29. ASSUME Deliver PROVE Goal
  BY <1>29 DEF Deliver, FailInv, ext
<1>30. ASSUME SchedulerChanges PROVE Goal
  BY <1>30 DEF SchedulerChanges, FailInv, ext
<1>31. ASSUME UNCHANGED vars PROVE Goal
  BY <1>31 DEF vars, FailInv, ext
<1> QED BY <1>1, <1>2, <1>3, <1>4, <1>5, <1>6, <1>7, <1>8, <1>9, <1>10, <1>11, <1>12,
     <1>13, <1>14, <1>15, <1>16, <1>17, <1>18, <1>19, <1>20, <1>21, <1>22, <1>23, <1>24,
     <1>25, <1>26, <1>27, <1>28, <1>29, <1>30, <1>31 DEF Next, JsStep, DialStep,
     PumpStep, CloseStep

\* One goroutine gets the right to dispatch the close event, and uses it once.
LEMMA CloseInvStep ==
  ASSUME TypeOK, IsFiniteSet(posted), CloseInv, [Next]_vars
  PROVE  CloseInv'
<1> DEFINE Goal == CloseInv'
<1>1. ASSUME NEW c \in Conns, NewWebSocketConnection(c) PROVE Goal
  <2>1. Accepted' = Accepted
    BY <1>1 DEF NewWebSocketConnection, sched, Accepted
  <2>2. pump' = pump /\ act' = act /\ closeFired' = closeFired
    BY <1>1 DEF NewWebSocketConnection, flags
  <2> QED BY <2>1, <2>2 DEF CloseInv, Events
<1>2. ASSUME NEW c \in Conns, Close(c) PROVE Goal
  <2>1. Accepted' = Accepted
    BY <1>2 DEF Close, sched, Accepted
  <2>2. pump' = pump /\ closeFired' = closeFired
    BY <1>2 DEF Close, flags
  <2>3. \A b \in Closers, d \in Conns : act'[b] = At("close", d) => act[b] = At("close", d)
    <3>1. act' = act \/ act' = [act EXCEPT !["loop"] = At("frame", c)]
      BY <1>2 DEF Close, StartClosing
    <3>2. CASE act' = act
      BY <3>2
    <3>3. CASE act' = [act EXCEPT !["loop"] = At("frame", c)]
      BY <3>3 DEF At, TypeOK
    <3> QED BY <3>1, <3>2, <3>3
  <2> QED BY <2>1, <2>2, <2>3 DEF CloseInv, Events
<1>3. ASSUME NEW c \in Conns, Send(c) PROVE Goal
  <2>1. Accepted' = Accepted
    BY <1>3 DEF Send, sched, Accepted
  <2>2. pump' = pump /\ closeFired' = closeFired
    BY <1>3 DEF Send, flags
  <2>3. \A b \in Closers, d \in Conns : act'[b] = At("close", d) => act[b] = At("close", d)
    BY <1>3 DEF Send, At, Idle, TypeOK
  <2> QED BY <2>1, <2>2, <2>3 DEF CloseInv, Events
<1>4. ASSUME NEW c \in Conns, DialReturns(c) PROVE Goal
  <2>1. Accepted' = Accepted
    BY <1>4 DEF DialReturns, sched, Accepted
  <2>2. pump' = pump /\ act' = act /\ closeFired' = closeFired
    BY <1>4 DEF DialReturns, flags
  <2> QED BY <2>1, <2>2 DEF CloseInv, Events
<1>5. ASSUME NEW c \in Conns, DialFailed(c) PROVE Goal
  <2>1. Accepted' = Accepted
    BY <1>5 DEF DialFailed, sched, Accepted
  <2>2. pump' = pump /\ act' = act /\ closeFired' = closeFired
    BY <1>5 DEF DialFailed, flags
  <2> QED BY <2>1, <2>2 DEF CloseInv, Events
<1>6. ASSUME NEW c \in Conns, DialError(c) PROVE Goal
  <2>1. c \in Conns /\ DispatchEvent(c, "error") /\ got' = got
    BY <1>6 DEF DialError
  <2>2. Dispatched(c, "error")
    BY <2>1, DispatchEvents
  <2>3. \A d \in Conns : Events(d, "close")' = Events(d, "close")
    BY <2>1, <2>2 DEF Dispatched
  <2>4. closeFired' = closeFired /\ \A d \in Conns : pump'[d] = "close" => pump[d] = "close"
    BY <1>6 DEF DialError, Pump, TypeOK, flags
  <2>5. \A b \in Closers, d \in Conns : act'[b] = At("close", d) => act[b] = At("close", d)
    BY <1>6 DEF DialError, At, Idle, TypeOK
  <2> QED BY <2>3, <2>4, <2>5 DEF CloseInv
<1>7. ASSUME NEW c \in Conns, DialShutdown(c) PROVE Goal
  <2>1. Accepted' = Accepted
    BY <1>7 DEF DialShutdown, sched, Accepted
  <2>2. pump' = pump /\ act' = act /\ closeFired' = closeFired
    BY <1>7 DEF DialShutdown, flags
  <2> QED BY <2>1, <2>2 DEF CloseInv, Events
<1>8. ASSUME NEW c \in Conns, SetConn(c) PROVE Goal
  <2>1. Accepted' = Accepted
    BY <1>8 DEF SetConn, sched, Accepted
  <2>2. pump' = pump /\ act' = act /\ closeFired' = closeFired
    BY <1>8 DEF SetConn, flags
  <2> QED BY <2>1, <2>2 DEF CloseInv, Events
<1>9. ASSUME NEW c \in Conns, TryOpen(c) PROVE Goal
  <2>1. Accepted' = Accepted
    BY <1>9 DEF TryOpen, sched, Accepted
  <2>2. pump' = pump /\ act' = act /\ closeFired' = closeFired
    BY <1>9 DEF TryOpen, flags
  <2> QED BY <2>1, <2>2 DEF CloseInv, Events
<1>10. ASSUME NEW c \in Conns, Abandon(c) PROVE Goal
  <2>1. Accepted' = Accepted
    BY <1>10 DEF Abandon, sched, Accepted
  <2>2. pump' = pump /\ act' = act /\ closeFired' = closeFired
    BY <1>10 DEF Abandon, flags
  <2> QED BY <2>1, <2>2 DEF CloseInv, Events
<1>11. ASSUME NEW c \in Conns, TriggerOpen(c) PROVE Goal
  <2>1. c \in Conns /\ DispatchEvent(c, "open") /\ got' = got
    BY <1>11 DEF TriggerOpen
  <2>2. Dispatched(c, "open")
    BY <2>1, DispatchEvents
  <2>3. \A d \in Conns : Events(d, "close")' = Events(d, "close")
    BY <2>1, <2>2 DEF Dispatched
  <2>4. closeFired' = closeFired /\ \A d \in Conns : pump'[d] = "close" => pump[d] = "close"
    BY <1>11 DEF TriggerOpen, Pump, TypeOK, flags
  <2>5. \A b \in Closers, d \in Conns : act'[b] = At("close", d) => act[b] = At("close", d)
    BY <1>11 DEF TriggerOpen, At, Idle, TypeOK
  <2> QED BY <2>3, <2>4, <2>5 DEF CloseInv
<1>12. ASSUME NEW c \in Conns, PumpSelect(c) PROVE Goal
  <2>1. Accepted' = Accepted
    BY <1>12 DEF PumpSelect, sched, Accepted
  <2>2. act' = act /\ closeFired' = closeFired
    BY <1>12 DEF PumpSelect, flags
  <2>3. \A d \in Conns : pump'[d] = "close" => pump[d] = "close"
    BY <1>12 DEF PumpSelect, Pump, TypeOK
  <2> QED BY <2>1, <2>2, <2>3 DEF CloseInv, Events
<1>13. ASSUME NEW c \in Conns, TriggerMessage(c) PROVE Goal
  <2>1. c \in Conns /\ DispatchEvent(c, "message") /\ got' = got
    BY <1>13 DEF TriggerMessage
  <2>2. Dispatched(c, "message")
    BY <2>1, DispatchEvents
  <2>3. \A d \in Conns : Events(d, "close")' = Events(d, "close")
    BY <2>1, <2>2 DEF Dispatched
  <2>4. closeFired' = closeFired /\ \A d \in Conns : pump'[d] = "close" => pump[d] = "close"
    BY <1>13 DEF TriggerMessage, Pump, TypeOK, flags
  <2>5. \A b \in Closers, d \in Conns : act'[b] = At("close", d) => act[b] = At("close", d)
    BY <1>13 DEF TriggerMessage, At, Idle, TypeOK
  <2> QED BY <2>3, <2>4, <2>5 DEF CloseInv
<1>14. ASSUME NEW c \in Conns, PumpError(c) PROVE Goal
  <2>1. c \in Conns /\ DispatchEvent(c, "error") /\ got' = got
    BY <1>14 DEF PumpError
  <2>2. Dispatched(c, "error")
    BY <2>1, DispatchEvents
  <2>3. \A d \in Conns : Events(d, "close")' = Events(d, "close")
    BY <2>1, <2>2 DEF Dispatched
  <2>4. closeFired' = closeFired /\ \A d \in Conns : pump'[d] = "close" => pump[d] = "close"
    BY <1>14 DEF PumpError, Pump, TypeOK, flags
  <2>5. \A b \in Closers, d \in Conns : act'[b] = At("close", d) => act[b] = At("close", d)
    BY <1>14 DEF PumpError, At, Idle, TypeOK
  <2> QED BY <2>3, <2>4, <2>5 DEF CloseInv
<1>15. ASSUME NEW c \in Conns, PumpState(c) PROVE Goal
  <2>1. Accepted' = Accepted
    BY <1>15 DEF PumpState, sched, Accepted
  <2>2. act' = act /\ closeFired' = closeFired
    BY <1>15 DEF PumpState, flags
  <2>3. \A d \in Conns : pump'[d] = "close" => pump[d] = "close"
    BY <1>15 DEF PumpState, Pump, TypeOK
  <2> QED BY <2>1, <2>2, <2>3 DEF CloseInv, Events
<1>16. ASSUME NEW c \in Conns, PumpTrigger(c) PROVE Goal
  <2>1. Accepted' = Accepted
    BY <1>16 DEF PumpTrigger, sched, Accepted
  <2>2. act' = act /\ closeFired' = closeFired \cup {c}
    BY <1>16 DEF PumpTrigger, TriggerClose
  <2>3. \A d \in Conns : pump'[d] = "close" => pump[d] = "close" \/ (d = c /\ c \notin closeFired)
    <3>1. pump' = [pump EXCEPT ![c] = IF c \in closeFired THEN "shutdown" ELSE "close"]
      BY <1>16 DEF PumpTrigger, Pump
    <3>2. CASE c \in closeFired
      <4>1. pump' = [pump EXCEPT ![c] = "shutdown"]
        BY <3>1, <3>2
      <4>2. \A d \in Conns : pump'[d] = "close" => pump[d] = "close"
        BY <4>1 DEF TypeOK
      <4> QED BY <4>2
    <3>3. CASE c \notin closeFired
      BY <3>1, <3>3 DEF TypeOK
    <3> QED BY <3>2, <3>3
  <2> QED BY <2>1, <2>2, <2>3 DEF CloseInv, Events
<1>17. ASSUME NEW c \in Conns, PumpClose(c) PROVE Goal
  <2>1. c \in Conns /\ DispatchEvent(c, "close") /\ got' = got
    BY <1>17 DEF PumpClose
  <2>2. Dispatched(c, "close")
    BY <2>1, DispatchEvents
  <2>3. pump' = [pump EXCEPT ![c] = "shutdown"] /\ closeFired' = closeFired /\ act' = act /\ pump[c] = "close"
    BY <1>17 DEF PumpClose, Pump, flags
  <2>4. Events(c, "close") = {} /\ c \in closeFired /\ \A a \in Closers : act[a] # At("close", c)
    BY <2>3 DEF CloseInv
  <2>5. \A j, k \in Events(c, "close")' : j = k
    BY <2>1, <2>2, <2>4 DEF Dispatched
  <2>6. \A d \in Conns \ {c} : Events(d, "close")' = Events(d, "close")
    BY <2>1, <2>2 DEF Dispatched
  <2>7. pump'[c] = "shutdown" /\ \A d \in Conns \ {c} : pump'[d] = pump[d]
    BY <2>3 DEF TypeOK
  <2> QED BY <2>3, <2>4, <2>5, <2>6, <2>7 DEF CloseInv
<1>18. ASSUME NEW c \in Conns, PumpShutdown(c) PROVE Goal
  <2>1. Accepted' = Accepted
    BY <1>18 DEF PumpShutdown, sched, Accepted
  <2>2. act' = act /\ closeFired' = closeFired
    BY <1>18 DEF PumpShutdown, flags
  <2>3. \A d \in Conns : pump'[d] = "close" => pump[d] = "close"
    BY <1>18 DEF PumpShutdown, Pump, TypeOK
  <2> QED BY <2>1, <2>2, <2>3 DEF CloseInv, Events
<1>19. ASSUME NEW c \in Conns, PumpMessage(c) PROVE Goal
  <2>1. Accepted' = Accepted
    BY <1>19 DEF PumpMessage, sched, Accepted
  <2>2. act' = act /\ closeFired' = closeFired
    BY <1>19 DEF PumpMessage, flags
  <2>3. \A d \in Conns : pump'[d] = "close" => pump[d] = "close"
    BY <1>19 DEF PumpMessage, Pump, TypeOK
  <2> QED BY <2>1, <2>2, <2>3 DEF CloseInv, Events
<1>20. ASSUME NEW c \in Conns, PumpFails(c) PROVE Goal
  <2>1. Accepted' = Accepted
    BY <1>20 DEF PumpFails, sched, Accepted
  <2>2. act' = act /\ closeFired' = closeFired
    BY <1>20 DEF PumpFails, flags
  <2>3. \A d \in Conns : pump'[d] = "close" => pump[d] = "close"
    BY <1>20 DEF PumpFails, Pump, TypeOK
  <2> QED BY <2>1, <2>2, <2>3 DEF CloseInv, Events
<1>21. ASSUME NEW a \in Closers, CloseFrame(a) PROVE Goal
  <2>1. Accepted' = Accepted
    BY <1>21 DEF CloseFrame, sched, Accepted
  <2>2. pump' = pump /\ closeFired' = closeFired
    BY <1>21 DEF CloseFrame, flags
  <2>3. \A b \in Closers, d \in Conns : act'[b] = At("close", d) => act[b] = At("close", d)
    <3>1. act'[a].at # "close" /\ \A b \in Closers \ {a} : act'[b] = act[b]
      BY <1>21 DEF CloseFrame, TypeOK, Closers, Idle
    <3> QED BY <3>1 DEF At
  <2> QED BY <2>1, <2>2, <2>3 DEF CloseInv, Events
<1>22. ASSUME NEW a \in Closers, CloseTrigger(a) PROVE Goal
  <2>1. Accepted' = Accepted
    BY <1>22 DEF CloseTrigger, sched, Accepted
  <2>2. pump' = pump /\ closeFired' = closeFired \cup {act[a].conn} /\ act[a].conn \in Conns
    BY <1>22, ActFacts DEF CloseTrigger, TriggerClose, Ats
  <2>3. \A b \in Closers, d \in Conns : act'[b] = At("close", d) =>
          \/ act[b] = At("close", d) /\ b # a
          \/ b = a /\ d = act[a].conn /\ d \notin closeFired
    <3>1. act' = [act EXCEPT ![a] = At(IF act[a].conn \in closeFired THEN "shutdown" ELSE "close", act[a].conn)]
      BY <1>22, ActFacts DEF CloseTrigger, Ats
    <3> QED BY <3>1 DEF At, TypeOK
  <2> QED BY <2>1, <2>2, <2>3 DEF CloseInv, Events
<1>23. ASSUME NEW a \in Closers, CloseEvent(a) PROVE Goal
  <2>1. PICK x \in Conns : x = act[a].conn /\ DispatchEvent(x, "close") /\ got' = got
    BY <1>23, ActFacts DEF CloseEvent, Ats, Closers
  <2>2. Dispatched(x, "close")
    BY <2>1, DispatchEvents
  <2>3. act[a] = At("close", x)
    BY <1>23, <2>1 DEF CloseEvent, TypeOK, Idle, At
  <2>4. closeFired' = closeFired /\ pump' = pump /\ act' = [act EXCEPT ![a] = At("shutdown", x)]
    BY <1>23, <2>1, ActFacts DEF CloseEvent, flags, Ats
  <2>5. /\ Events(x, "close") = {} /\ x \in closeFired /\ pump[x] # "close" /\ x \in Conns
        /\ \A b \in Closers \ {a} : act[b] # At("close", x)
    BY <2>1, <2>3 DEF CloseInv
  <2>6. \A j, k \in Events(x, "close")' : j = k
    BY <2>1, <2>2, <2>5 DEF Dispatched
  <2>7. \A d \in Conns \ {x} : Events(d, "close")' = Events(d, "close")
    BY <2>1, <2>2 DEF Dispatched
  <2>8. \A b \in Closers, d \in Conns : act'[b] = At("close", d) => b # a /\ act[b] = At("close", d)
    BY <2>4 DEF TypeOK, At
  <2>9. \A b \in Closers : act'[b] # At("close", x)
    BY <2>5, <2>8
  <2> QED
    <3> SUFFICES ASSUME NEW d \in Conns
                 PROVE  /\ \A j, k \in Events(d, "close")' : j = k
                        /\ d \notin closeFired => /\ Events(d, "close")' = {}
                                                  /\ pump[d] # "close"
                                                  /\ \A b \in Closers : act'[b] # At("close", d)
                        /\ pump[d] = "close" => Events(d, "close")' = {} /\ \A b \in Closers : act'[b] # At("close", d)
                        /\ \A b \in Closers : act'[b] = At("close", d) =>
                             Events(d, "close")' = {} /\ \A e \in Closers \ {b} : act'[e] # At("close", d)
      BY <2>4 DEF CloseInv, At
    <3>1. CASE d = x
      BY <3>1, <2>5, <2>6, <2>9
    <3>2. CASE d # x
      BY <3>2, <2>7, <2>8 DEF CloseInv
    <3> QED BY <3>1, <3>2
<1>24. ASSUME NEW a \in Closers, CloseShutdown(a) PROVE Goal
  <2>1. Accepted' = Accepted
    BY <1>24 DEF CloseShutdown, sched, Accepted
  <2>2. pump' = pump /\ closeFired' = closeFired
    BY <1>24 DEF CloseShutdown, flags
  <2>3. \A b \in Closers, d \in Conns : act'[b] = At("close", d) => act[b] = At("close", d)
    BY <1>24 DEF CloseShutdown, At, Idle, TypeOK
  <2> QED BY <2>1, <2>2, <2>3 DEF CloseInv, Events
<1>25. ASSUME CloseAll PROVE Goal
  <2>1. Accepted' = Accepted
    BY <1>25 DEF CloseAll, sched, Accepted
  <2>2. pump' = pump /\ act' = act /\ closeFired' = closeFired
    BY <1>25 DEF CloseAll, flags
  <2> QED BY <2>1, <2>2 DEF CloseInv, Events
<1>26. ASSUME CloseNext PROVE Goal
  <2> PICK c \in todo : todo' = todo \ {c} /\ StartClosing("closeAll", c)
    BY <1>26 DEF CloseNext
  <2>1. Accepted' = Accepted
    BY <1>26 DEF CloseNext, sched, Accepted
  <2>2. pump' = pump /\ closeFired' = closeFired
    BY <1>26 DEF CloseNext, flags
  <2>3. \A b \in Closers, d \in Conns : act'[b] = At("close", d) => act[b] = At("close", d)
    <3>1. act' = act \/ act' = [act EXCEPT !["closeAll"] = At("frame", c)]
      BY <1>26 DEF CloseNext, StartClosing
    <3>2. CASE act' = act
      BY <3>2
    <3>3. CASE act' = [act EXCEPT !["closeAll"] = At("frame", c)]
      BY <3>3 DEF At, TypeOK
    <3> QED BY <3>1, <3>2, <3>3
  <2> QED BY <2>1, <2>2, <2>3 DEF CloseInv, Events
<1>27. ASSUME SendWrite PROVE Goal
  <2>1. Accepted' = Accepted
    BY <1>27 DEF SendWrite, sched, Accepted
  <2>2. pump' = pump /\ closeFired' = closeFired
    BY <1>27 DEF SendWrite, flags
  <2>3. \A b \in Closers, d \in Conns : act'[b] = At("close", d) => act[b] = At("close", d)
    <3>1. act'["loop"].at # "close" /\ \A b \in Closers \ {"loop"} : act'[b] = act[b]
      BY <1>27 DEF SendWrite, TypeOK, Closers, Idle
    <3> QED BY <3>1 DEF At
  <2> QED BY <2>1, <2>2, <2>3 DEF CloseInv, Events
<1>28. ASSUME SendError PROVE Goal
  <2>1. PICK x \in Conns : x = act["loop"].conn /\ DispatchEvent(x, "error") /\ got' = got
    BY <1>28, ActFacts DEF SendError, Ats, Closers
  <2>2. Dispatched(x, "error")
    BY <2>1, DispatchEvents
  <2>3. \A d \in Conns : Events(d, "close")' = Events(d, "close")
    BY <2>1, <2>2 DEF Dispatched
  <2>4. closeFired' = closeFired /\ \A d \in Conns : pump'[d] = "close" => pump[d] = "close"
    BY <1>28 DEF SendError, Pump, TypeOK, flags
  <2>5. \A b \in Closers, d \in Conns : act'[b] = At("close", d) => act[b] = At("close", d)
    BY <1>28 DEF SendError, At, Idle, TypeOK
  <2> QED BY <2>3, <2>4, <2>5 DEF CloseInv
<1>29. ASSUME Deliver PROVE Goal
  <2>1. Accepted' = Accepted
    BY <1>29, DeliverFacts
  <2>2. pump' = pump /\ act' = act /\ closeFired' = closeFired
    BY <1>29 DEF Deliver, flags
  <2> QED BY <2>1, <2>2 DEF CloseInv, Events
<1>30. ASSUME SchedulerChanges PROVE Goal
  <2>1. Accepted' = Accepted
    BY <1>30 DEF SchedulerChanges, sched, Sched!Close, Sched!Reopen, Accepted
  <2>2. pump' = pump /\ act' = act /\ closeFired' = closeFired
    BY <1>30 DEF SchedulerChanges, flags
  <2> QED BY <2>1, <2>2 DEF CloseInv, Events
<1>31. ASSUME UNCHANGED vars PROVE Goal
  <2>1. Accepted' = Accepted
    BY <1>31 DEF vars, sched, Accepted
  <2>2. pump' = pump /\ act' = act /\ closeFired' = closeFired
    BY <1>31 DEF vars, flags
  <2> QED BY <2>1, <2>2 DEF CloseInv, Events
<1> QED BY <1>1, <1>2, <1>3, <1>4, <1>5, <1>6, <1>7, <1>8, <1>9, <1>10, <1>11, <1>12,
     <1>13, <1>14, <1>15, <1>16, <1>17, <1>18, <1>19, <1>20, <1>21, <1>22, <1>23, <1>24,
     <1>25, <1>26, <1>27, <1>28, <1>29, <1>30, <1>31 DEF Next, JsStep, DialStep,
     PumpStep, CloseStep

\* The open event comes before the messages.
LEMMA MessageStep ==
  ASSUME TypeOK, IsFiniteSet(posted), DialInv, MessageInv, [Next]_vars
  PROVE  MessageInv'
<1> DEFINE Goal == MessageInv'
<1>1. ASSUME NEW c \in Conns, NewWebSocketConnection(c) PROVE Goal
  <2>1. Accepted' = Accepted
    BY <1>1 DEF NewWebSocketConnection, sched, Accepted
  <2>2. \A d \in Conns : dial'[d] # "done" => dial[d] # "done"
    BY <1>1 DEF NewWebSocketConnection, Dial, TypeOK
  <2> QED BY <2>1, <2>2 DEF MessageInv, Events
<1>2. ASSUME NEW c \in Conns, Close(c) PROVE Goal
  <2>1. Accepted' = Accepted
    BY <1>2 DEF Close, sched, Accepted
  <2>2. \A d \in Conns : dial'[d] # "done" => dial[d] # "done"
    BY <1>2 DEF Close, Dial, TypeOK
  <2> QED BY <2>1, <2>2 DEF MessageInv, Events
<1>3. ASSUME NEW c \in Conns, Send(c) PROVE Goal
  <2>1. Accepted' = Accepted
    BY <1>3 DEF Send, sched, Accepted
  <2>2. \A d \in Conns : dial'[d] # "done" => dial[d] # "done"
    BY <1>3 DEF Send, Dial, TypeOK
  <2> QED BY <2>1, <2>2 DEF MessageInv, Events
<1>4. ASSUME NEW c \in Conns, DialReturns(c) PROVE Goal
  <2>1. Accepted' = Accepted
    BY <1>4 DEF DialReturns, sched, Accepted
  <2>2. \A d \in Conns : dial'[d] # "done" => dial[d] # "done"
    BY <1>4 DEF DialReturns, Dial, TypeOK
  <2> QED BY <2>1, <2>2 DEF MessageInv, Events
<1>5. ASSUME NEW c \in Conns, DialFailed(c) PROVE Goal
  <2>1. Accepted' = Accepted
    BY <1>5 DEF DialFailed, sched, Accepted
  <2>2. \A d \in Conns : dial'[d] # "done" => dial[d] # "done"
    BY <1>5 DEF DialFailed, Dial, TypeOK
  <2> QED BY <2>1, <2>2 DEF MessageInv, Events
<1>6. ASSUME NEW c \in Conns, DialError(c) PROVE Goal
  <2>1. c \in Conns /\ DispatchEvent(c, "error") /\ got' = got
    BY <1>6 DEF DialError
  <2>2. Dispatched(c, "error")
    BY <2>1, DispatchEvents
  <2>3. \A d \in Conns : Events(d, "message")' = Events(d, "message") /\ Events(d, "open")' = Events(d, "open")
    BY <2>1, <2>2 DEF Dispatched
  <2>4. \A d \in Conns : dial'[d] # "done" => dial[d] # "done"
    BY <1>6 DEF DialError, Dial, TypeOK
  <2> QED BY <2>3, <2>4 DEF MessageInv
<1>7. ASSUME NEW c \in Conns, DialShutdown(c) PROVE Goal
  <2>1. Accepted' = Accepted
    BY <1>7 DEF DialShutdown, sched, Accepted
  <2>2. \A d \in Conns : dial'[d] # "done" => dial[d] # "done"
    BY <1>7 DEF DialShutdown, Dial, TypeOK
  <2> QED BY <2>1, <2>2 DEF MessageInv, Events
<1>8. ASSUME NEW c \in Conns, SetConn(c) PROVE Goal
  <2>1. Accepted' = Accepted
    BY <1>8 DEF SetConn, sched, Accepted
  <2>2. \A d \in Conns : dial'[d] # "done" => dial[d] # "done"
    BY <1>8 DEF SetConn, Dial, TypeOK
  <2> QED BY <2>1, <2>2 DEF MessageInv, Events
<1>9. ASSUME NEW c \in Conns, TryOpen(c) PROVE Goal
  <2>1. Accepted' = Accepted
    BY <1>9 DEF TryOpen, sched, Accepted
  <2>2. \A d \in Conns : dial'[d] # "done" => dial[d] # "done"
    BY <1>9 DEF TryOpen, Dial, TypeOK
  <2> QED BY <2>1, <2>2 DEF MessageInv, Events
<1>10. ASSUME NEW c \in Conns, Abandon(c) PROVE Goal
  <2>1. Accepted' = Accepted
    BY <1>10 DEF Abandon, sched, Accepted
  <2>2. \A d \in Conns : dial'[d] # "done" => dial[d] # "done"
    BY <1>10 DEF Abandon, Dial, TypeOK
  <2> QED BY <2>1, <2>2 DEF MessageInv, Events
<1>11. ASSUME NEW c \in Conns, TriggerOpen(c) PROVE Goal
  <2>1. c \in Conns /\ DispatchEvent(c, "open") /\ got' = got
    BY <1>11 DEF TriggerOpen
  <2>2. Dispatched(c, "open")
    BY <2>1, DispatchEvents
  <2>3. \A d \in Conns : Events(d, "message")' = Events(d, "message")
    BY <2>1, <2>2 DEF Dispatched
  <2>4. \A d \in Conns \ {c} : Events(d, "open")' = Events(d, "open")
    BY <2>1, <2>2 DEF Dispatched
  <2>5. Events(c, "message") = {} /\ \A d \in Conns : dial'[d] # "done" => dial[d] # "done"
    BY <1>11 DEF TriggerOpen, MessageInv, Dial, TypeOK
  <2> QED BY <2>3, <2>4, <2>5 DEF MessageInv
<1>12. ASSUME NEW c \in Conns, PumpSelect(c) PROVE Goal
  <2>1. Accepted' = Accepted
    BY <1>12 DEF PumpSelect, sched, Accepted
  <2>2. \A d \in Conns : dial'[d] # "done" => dial[d] # "done"
    BY <1>12 DEF PumpSelect, Dial, TypeOK
  <2> QED BY <2>1, <2>2 DEF MessageInv, Events
<1>13. ASSUME NEW c \in Conns, TriggerMessage(c) PROVE Goal
  <2>1. c \in Conns /\ DispatchEvent(c, "message") /\ got' = got
    BY <1>13 DEF TriggerMessage
  <2>2. Dispatched(c, "message")
    BY <2>1, DispatchEvents
  <2>3. \A d \in Conns : Events(d, "open")' = Events(d, "open")
    BY <2>1, <2>2 DEF Dispatched
  <2>4. \A d \in Conns \ {c} : Events(d, "message")' = Events(d, "message")
    BY <2>1, <2>2 DEF Dispatched
  <2>5. dial[c] = "done" /\ dial' = dial
    BY <1>13 DEF TriggerMessage, DialInv
  <2>6. \A j \in Events(c, "message")', k \in Events(c, "open") : ~(j < k)
    <3>1. CASE Events(c, "message")' = Events(c, "message")
      BY <2>1, <3>1 DEF MessageInv
    <3>2. ASSUME NEW n \in Nat, Events(c, "message")' = Events(c, "message") \cup {n},
                 \A d, u : \A k \in Events(d, u) : k \in Nat /\ k < n
          PROVE  \A j \in Events(c, "message")', k \in Events(c, "open") : ~(j < k)
      <4>1. \A k \in Events(c, "open") : k \in Nat /\ k < n
        BY <3>2
      <4> QED BY <2>1, <3>2, <4>1 DEF MessageInv
    <3> QED BY <2>1, <2>2, <3>1, <3>2 DEF Dispatched
  <2> QED BY <2>3, <2>4, <2>5, <2>6 DEF MessageInv
<1>14. ASSUME NEW c \in Conns, PumpError(c) PROVE Goal
  <2>1. c \in Conns /\ DispatchEvent(c, "error") /\ got' = got
    BY <1>14 DEF PumpError
  <2>2. Dispatched(c, "error")
    BY <2>1, DispatchEvents
  <2>3. \A d \in Conns : Events(d, "message")' = Events(d, "message") /\ Events(d, "open")' = Events(d, "open")
    BY <2>1, <2>2 DEF Dispatched
  <2>4. \A d \in Conns : dial'[d] # "done" => dial[d] # "done"
    BY <1>14 DEF PumpError, Dial, TypeOK
  <2> QED BY <2>3, <2>4 DEF MessageInv
<1>15. ASSUME NEW c \in Conns, PumpState(c) PROVE Goal
  <2>1. Accepted' = Accepted
    BY <1>15 DEF PumpState, sched, Accepted
  <2>2. \A d \in Conns : dial'[d] # "done" => dial[d] # "done"
    BY <1>15 DEF PumpState, Dial, TypeOK
  <2> QED BY <2>1, <2>2 DEF MessageInv, Events
<1>16. ASSUME NEW c \in Conns, PumpTrigger(c) PROVE Goal
  <2>1. Accepted' = Accepted
    BY <1>16 DEF PumpTrigger, sched, Accepted
  <2>2. \A d \in Conns : dial'[d] # "done" => dial[d] # "done"
    BY <1>16 DEF PumpTrigger, Dial, TypeOK
  <2> QED BY <2>1, <2>2 DEF MessageInv, Events
<1>17. ASSUME NEW c \in Conns, PumpClose(c) PROVE Goal
  <2>1. c \in Conns /\ DispatchEvent(c, "close") /\ got' = got
    BY <1>17 DEF PumpClose
  <2>2. Dispatched(c, "close")
    BY <2>1, DispatchEvents
  <2>3. \A d \in Conns : Events(d, "message")' = Events(d, "message") /\ Events(d, "open")' = Events(d, "open")
    BY <2>1, <2>2 DEF Dispatched
  <2>4. \A d \in Conns : dial'[d] # "done" => dial[d] # "done"
    BY <1>17 DEF PumpClose, Dial, TypeOK
  <2> QED BY <2>3, <2>4 DEF MessageInv
<1>18. ASSUME NEW c \in Conns, PumpShutdown(c) PROVE Goal
  <2>1. Accepted' = Accepted
    BY <1>18 DEF PumpShutdown, sched, Accepted
  <2>2. \A d \in Conns : dial'[d] # "done" => dial[d] # "done"
    BY <1>18 DEF PumpShutdown, Dial, TypeOK
  <2> QED BY <2>1, <2>2 DEF MessageInv, Events
<1>19. ASSUME NEW c \in Conns, PumpMessage(c) PROVE Goal
  <2>1. Accepted' = Accepted
    BY <1>19 DEF PumpMessage, sched, Accepted
  <2>2. \A d \in Conns : dial'[d] # "done" => dial[d] # "done"
    BY <1>19 DEF PumpMessage, Dial, TypeOK
  <2> QED BY <2>1, <2>2 DEF MessageInv, Events
<1>20. ASSUME NEW c \in Conns, PumpFails(c) PROVE Goal
  <2>1. Accepted' = Accepted
    BY <1>20 DEF PumpFails, sched, Accepted
  <2>2. \A d \in Conns : dial'[d] # "done" => dial[d] # "done"
    BY <1>20 DEF PumpFails, Dial, TypeOK
  <2> QED BY <2>1, <2>2 DEF MessageInv, Events
<1>21. ASSUME NEW a \in Closers, CloseFrame(a) PROVE Goal
  <2>1. Accepted' = Accepted
    BY <1>21 DEF CloseFrame, sched, Accepted
  <2>2. \A d \in Conns : dial'[d] # "done" => dial[d] # "done"
    BY <1>21 DEF CloseFrame, Dial, TypeOK
  <2> QED BY <2>1, <2>2 DEF MessageInv, Events
<1>22. ASSUME NEW a \in Closers, CloseTrigger(a) PROVE Goal
  <2>1. Accepted' = Accepted
    BY <1>22 DEF CloseTrigger, sched, Accepted
  <2>2. \A d \in Conns : dial'[d] # "done" => dial[d] # "done"
    BY <1>22 DEF CloseTrigger, Dial, TypeOK
  <2> QED BY <2>1, <2>2 DEF MessageInv, Events
<1>23. ASSUME NEW a \in Closers, CloseEvent(a) PROVE Goal
  <2>1. PICK x \in Conns : x = act[a].conn /\ DispatchEvent(x, "close") /\ got' = got
    BY <1>23, ActFacts DEF CloseEvent, Ats, Closers
  <2>2. Dispatched(x, "close")
    BY <2>1, DispatchEvents
  <2>3. \A d \in Conns : Events(d, "message")' = Events(d, "message") /\ Events(d, "open")' = Events(d, "open")
    BY <2>1, <2>2 DEF Dispatched
  <2>4. \A d \in Conns : dial'[d] # "done" => dial[d] # "done"
    BY <1>23 DEF CloseEvent, Dial, TypeOK
  <2> QED BY <2>3, <2>4 DEF MessageInv
<1>24. ASSUME NEW a \in Closers, CloseShutdown(a) PROVE Goal
  <2>1. Accepted' = Accepted
    BY <1>24 DEF CloseShutdown, sched, Accepted
  <2>2. \A d \in Conns : dial'[d] # "done" => dial[d] # "done"
    BY <1>24 DEF CloseShutdown, Dial, TypeOK
  <2> QED BY <2>1, <2>2 DEF MessageInv, Events
<1>25. ASSUME CloseAll PROVE Goal
  <2>1. Accepted' = Accepted
    BY <1>25 DEF CloseAll, sched, Accepted
  <2>2. \A d \in Conns : dial'[d] # "done" => dial[d] # "done"
    BY <1>25 DEF CloseAll, Dial, TypeOK
  <2> QED BY <2>1, <2>2 DEF MessageInv, Events
<1>26. ASSUME CloseNext PROVE Goal
  <2>1. Accepted' = Accepted
    BY <1>26 DEF CloseNext, sched, Accepted
  <2>2. \A d \in Conns : dial'[d] # "done" => dial[d] # "done"
    BY <1>26 DEF CloseNext, Dial, TypeOK
  <2> QED BY <2>1, <2>2 DEF MessageInv, Events
<1>27. ASSUME SendWrite PROVE Goal
  <2>1. Accepted' = Accepted
    BY <1>27 DEF SendWrite, sched, Accepted
  <2>2. \A d \in Conns : dial'[d] # "done" => dial[d] # "done"
    BY <1>27 DEF SendWrite, Dial, TypeOK
  <2> QED BY <2>1, <2>2 DEF MessageInv, Events
<1>28. ASSUME SendError PROVE Goal
  <2>1. PICK x \in Conns : x = act["loop"].conn /\ DispatchEvent(x, "error") /\ got' = got
    BY <1>28, ActFacts DEF SendError, Ats, Closers
  <2>2. Dispatched(x, "error")
    BY <2>1, DispatchEvents
  <2>3. \A d \in Conns : Events(d, "message")' = Events(d, "message") /\ Events(d, "open")' = Events(d, "open")
    BY <2>1, <2>2 DEF Dispatched
  <2>4. \A d \in Conns : dial'[d] # "done" => dial[d] # "done"
    BY <1>28 DEF SendError, Dial, TypeOK
  <2> QED BY <2>3, <2>4 DEF MessageInv
<1>29. ASSUME Deliver PROVE Goal
  <2>1. Accepted' = Accepted
    BY <1>29, DeliverFacts
  <2>2. \A d \in Conns : dial'[d] # "done" => dial[d] # "done"
    BY <1>29 DEF Deliver, Dial, TypeOK
  <2> QED BY <2>1, <2>2 DEF MessageInv, Events
<1>30. ASSUME SchedulerChanges PROVE Goal
  <2>1. Accepted' = Accepted
    BY <1>30 DEF SchedulerChanges, sched, Sched!Close, Sched!Reopen, Accepted
  <2>2. \A d \in Conns : dial'[d] # "done" => dial[d] # "done"
    BY <1>30 DEF SchedulerChanges, Dial, TypeOK
  <2> QED BY <2>1, <2>2 DEF MessageInv, Events
<1>31. ASSUME UNCHANGED vars PROVE Goal
  <2>1. Accepted' = Accepted
    BY <1>31 DEF vars, sched, Accepted
  <2>2. \A d \in Conns : dial'[d] # "done" => dial[d] # "done"
    BY <1>31 DEF vars, Dial, TypeOK
  <2> QED BY <2>1, <2>2 DEF MessageInv, Events
<1> QED BY <1>1, <1>2, <1>3, <1>4, <1>5, <1>6, <1>7, <1>8, <1>9, <1>10, <1>11, <1>12,
     <1>13, <1>14, <1>15, <1>16, <1>17, <1>18, <1>19, <1>20, <1>21, <1>22, <1>23, <1>24,
     <1>25, <1>26, <1>27, <1>28, <1>29, <1>30, <1>31 DEF Next, JsStep, DialStep,
     PumpStep, CloseStep

-----------------------------------------------------------------------------
\* Nothing has happened to any connection in the initial state.
LEMMA InitIInv ==
  ASSUME SocketAssumption, Init
  PROVE  IInv
<1> USE DEF Init, Sched!Init
<1>1. got = <<>> /\ pending = <<>> /\ posted = {} /\ open = TRUE
  OBVIOUS
<1>2. Accepted = <<>>
  BY <1>1 DEF Accepted
<1>3. \A c, t : Events(c, t) = {}
  BY <1>2 DEF Events
<1>4. TypeOK
  BY SocketAssumption, <1>1 DEF SocketAssumption, TypeOK, Connecting, Open, Closing,
       Closed, Closers, Ats, Idle
<1>5. IsFiniteSet(posted)
  BY <1>1, FS_EmptySet
<1>6. DialInv /\ LostInv /\ LostMeansLost
  BY DEF DialInv, LostInv, LostMeansLost, Connecting, Open, Closing, Closed
<1>7. FailInv /\ CloseInv /\ MessageInv
  BY <1>3 DEF FailInv, CloseInv, MessageInv, At, Idle, Closers
<1> QED BY <1>4, <1>5, <1>6, <1>7 DEF IInv

\* The inductive invariant.
THEOREM Inductive ==
  ASSUME SocketAssumption
  PROVE  Spec => []IInv
<1>1. Init => IInv
  BY SocketAssumption, InitIInv
<1>2. IInv /\ [Next]_vars => IInv'
  BY SocketAssumption, TypeStep, FlagStep, FailStep, CloseInvStep, MessageStep DEF IInv
<1> QED BY <1>1, <1>2, PTL DEF Spec

\* Open connections and read loops have their conn, for any set of connections:
\* connect sets it before tryOpen, and clears it only when the dial is abandoned.
THEOREM TypeCorrect ==
  ASSUME SocketAssumption
  PROVE  Spec => []TypeOK
<1>1. IInv => TypeOK
  BY DEF IInv
<1> QED BY <1>1, Inductive, PTL

\* close(), CloseAll and the read loop dispatch one close event between them.
THEOREM CloseOnce ==
  ASSUME SocketAssumption
  PROVE  Spec => []CloseEventOnce
<1>1. IInv => CloseEventOnce
  <2> SUFFICES ASSUME IInv, NEW j \in DOMAIN Accepted, NEW k \in DOMAIN Accepted,
                      Accepted[j].type = "close", Accepted[k].type = "close",
                      Accepted[j].conn = Accepted[k].conn
               PROVE  j = k
    BY DEF CloseEventOnce
  <2>1. Accepted \in Seq(Event)
    BY DEF IInv, TypeOK, Accepted
  <2>2. Accepted[j] \in Event
    BY <2>1
  <2>3. Accepted[j].conn \in Conns
    BY <2>2 DEF Event
  <2>4. j \in Events(Accepted[j].conn, "close") /\ k \in Events(Accepted[j].conn, "close")
    BY DEF Events
  <2> QED BY <2>3, <2>4 DEF IInv, CloseInv
<1> QED BY <1>1, Inductive, PTL

\* No open event follows a message of the same connection.
THEOREM OpenFirst ==
  ASSUME SocketAssumption
  PROVE  Spec => []OpenBeforeMessages
<1>1. IInv => OpenBeforeMessages
  <2> SUFFICES ASSUME IInv, NEW j \in DOMAIN Accepted, NEW k \in DOMAIN Accepted, j < k,
                      Accepted[j].type = "message", Accepted[k].type = "open",
                      Accepted[j].conn = Accepted[k].conn
               PROVE  FALSE
    BY DEF OpenBeforeMessages
  <2>1. Accepted \in Seq(Event)
    BY DEF IInv, TypeOK, Accepted
  <2>2. Accepted[j] \in Event
    BY <2>1
  <2>3. Accepted[j].conn \in Conns
    BY <2>2 DEF Event
  <2>4. j \in Events(Accepted[j].conn, "message") /\ k \in Events(Accepted[j].conn, "open")
    BY DEF Events
  <2> QED BY <2>3, <2>4 DEF IInv, MessageInv
<1> QED BY <1>1, Inductive, PTL

\* Only a connection whose read failed while it was open is reported as lost.
THEOREM LostIsLost ==
  ASSUME SocketAssumption
  PROVE  Spec => []LostMeansLost
<1>1. IInv => LostMeansLost
  BY DEF IInv
<1> QED BY <1>1, Inductive, PTL

\* The three together: an open event, messages, and one close event that is right.
THEOREM EventsAreInOrder ==
  ASSUME SocketAssumption
  PROVE  Spec => []EventsInOrder
<1>1. CloseEventOnce /\ OpenBeforeMessages /\ LostMeansLost => EventsInOrder
  BY DEF EventsInOrder
<1> QED BY <1>1, CloseOnce, OpenFirst, LostIsLost, PTL

\* readyState only advances: each of its writers looks at it under stateMu, or
\* writes Closed.
THEOREM Forward ==
  ASSUME SocketAssumption
  PROVE  Spec => ReadyStateForward
<1> DEFINE Fwd == \A c \in Conns : readyState'[c] >= readyState[c]
<1>1. ASSUME IInv, [Next]_vars PROVE Fwd \/ UNCHANGED vars
  <2>1. readyState \in [Conns -> 0..3]
    BY <1>1 DEF IInv, TypeOK, Connecting, Closed
  <2>2. ASSUME readyState' = readyState PROVE Fwd
    BY <2>1, <2>2
  <2>3. ASSUME NEW c, readyState[c] = Connecting, readyState' = [readyState EXCEPT ![c] = Open] PROVE Fwd
    BY <2>1, <2>3 DEF Connecting, Open
  <2>4. ASSUME NEW c, readyState[c] \notin {Closing, Closed}, readyState' = [readyState EXCEPT ![c] = Closing] PROVE Fwd
    BY <2>1, <2>4 DEF Closing, Closed
  <2>5. ASSUME NEW c, readyState' = [readyState EXCEPT ![c] = Closed] PROVE Fwd
    BY <2>1, <2>5 DEF Closed
  <2> HIDE DEF Fwd
  <2>6. ASSUME NEW c \in Conns, DialFailed(c) PROVE Fwd
    BY <2>5, <2>6 DEF DialFailed
  <2>7. ASSUME NEW c \in Conns, TryOpen(c) PROVE Fwd
    <3>1. \/ readyState[c] = Connecting /\ readyState' = [readyState EXCEPT ![c] = Open]
          \/ readyState' = readyState
      BY <2>7 DEF TryOpen
    <3> QED BY <3>1, <2>2, <2>3
  <2>8. ASSUME NEW c \in Conns, PumpTrigger(c) PROVE Fwd
    <3>1. readyState' = readyState \/ readyState' = [readyState EXCEPT ![c] = Closed]
      BY <2>8 DEF PumpTrigger, TriggerClose
    <3> QED BY <3>1, <2>2, <2>5
  <2>9. ASSUME NEW a \in Closers, CloseTrigger(a) PROVE Fwd
    <3> DEFINE c == act[a].conn
    <3>1. readyState' = readyState \/ readyState' = [readyState EXCEPT ![c] = Closed]
      BY <2>9 DEF CloseTrigger, TriggerClose
    <3> HIDE DEF c
    <3> QED BY <3>1, <2>2, <2>5
  <2>10. ASSUME NEW c \in Conns, Close(c) PROVE Fwd
    <3>1. \/ readyState' = readyState
          \/ readyState[c] \notin {Closing, Closed} /\ readyState' = [readyState EXCEPT ![c] = Closing]
      BY <2>10 DEF Close, StartClosing
    <3> QED BY <3>1, <2>2, <2>4
  <2>11. ASSUME CloseNext PROVE Fwd
    <3>1. PICK c \in todo : StartClosing("closeAll", c)
      BY <2>11 DEF CloseNext
    <3>2. \/ readyState' = readyState
          \/ readyState[c] \notin {Closing, Closed} /\ readyState' = [readyState EXCEPT ![c] = Closing]
      BY <3>1 DEF StartClosing
    <3> QED BY <3>2, <2>2, <2>4
  <2>12. CASE Next
    <3>1. \/ readyState' = readyState
          \/ \E c \in Conns : DialFailed(c) \/ TryOpen(c) \/ PumpTrigger(c) \/ Close(c)
          \/ \E a \in Closers : CloseTrigger(a)
          \/ CloseNext
      BY <2>12 DEF Next, JsStep, DialStep, PumpStep, CloseStep, flags,
           NewWebSocketConnection, Send, DialReturns, DialError, DialShutdown, SetConn, Abandon,
           TriggerOpen, PumpSelect, TriggerMessage, PumpError, PumpState, PumpClose, PumpShutdown,
           PumpMessage, PumpFails, CloseFrame, CloseEvent, CloseShutdown, CloseAll, SendWrite,
           SendError, Deliver, SchedulerChanges
    <3> QED BY <3>1, <2>2, <2>6, <2>7, <2>8, <2>9, <2>10, <2>11
  <2> QED BY <2>12, <1>1
<1> QED
  <2>1. IInv /\ [Next]_vars => [Fwd]_vars
    BY <1>1
  <2> QED BY <2>1, Inductive, PTL DEF Spec, ReadyStateForward
=============================================================================
