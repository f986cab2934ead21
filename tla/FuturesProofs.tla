--------------------------- MODULE FuturesProofs ---------------------------
(***************************************************************************)
(* The asynchronous binding, for any number of connections, streams and    *)
(* tasks, and whatever calls the tasks make: the types of State, the       *)
(* wake-ups that suspended calls depend on, and that what the group        *)
(* announces is handed out once.                                           *)
(***************************************************************************)
EXTENDS Futures, SequenceTheorems, FiniteSetTheorems, TLAPS

-----------------------------------------------------------------------------
(* The invariant about types, in three parts. *)

StateTypes ==
    /\ accept \in Task \cup {NoTask}
    /\ entries \subseteq Token
    /\ wakers \in [Call -> Task \cup {NoTask}]
    /\ \A c \in Call : wakers[c] # NoTask => c.token \in entries /\ c \in Calls[wakers[c]]
    /\ incoming_conns \in Seq(Token)
    /\ established_conns \subseteq Token
    /\ incoming_streams \in [Token -> Seq(Stream)]

(* A task in a call makes one of its calls; only those that ask the group  *)
(* leave the mutex.                                                        *)
CallsMade ==
    \A t \in Task :
        /\ task[t].pc = "idle" => task[t].call = NoCall
        /\ task[t].pc # "idle" => task[t].call \in Calls[t]
        /\ task[t].pc \in {"asking", "answered"} => task[t].call \in Asking

TaskTypes ==
    /\ shutdown \subseteq Token \X Stream
    /\ dropped \subseteq Token /\ taken \subseteq Token
    /\ handed \in [Token -> Seq(Stream)]
    /\ task \in [Task -> TaskState]
    /\ CallsMade

(* The events that the group raises. *)
Shaped(es) ==
    \A e \in es :
        /\ e \in Event
        /\ e.kind \in {"Connected", "Accept", "Closed"} => e.stream_id = 0
        /\ e.kind = "StreamAccept" => e.stream_id \in Stream

GroupTypes ==
    /\ quic \in [Token -> Conn]
    /\ Shaped(events)

RunnerTypes ==
    /\ runner \in {"poll", "polled", "ended"}
    /\ Shaped(batch)
    /\ runner = "poll" => batch = {}

TypeInv == StateTypes /\ TaskTypes /\ GroupTypes /\ RunnerTypes /\ stops \in BOOLEAN

(* It gives the types that are checked. *)
LEMMA TypeInvGivesTypeOK == ASSUME TypeInv PROVE TypeOK
  BY DEF TypeInv, StateTypes, TaskTypes, GroupTypes, RunnerTypes, Shaped, TypeOK

-----------------------------------------------------------------------------
(* Calls and events. *)

(* What a task calls has a token, and an event is made of its parts. *)
LEMMA CallTypes ==
    /\ \A t \in Task : Calls[t] \subseteq Call
    /\ Asking \subseteq Call /\ Call \subseteq Event
    /\ \A e \in Event : e.token \in Token /\ e = event(e.kind, e.token, e.stream_id)
    /\ \A e \in Call : e.kind \in {"Connected", "StreamAccept", "Accept"} \cup Opening => e.stream_id = 0
    /\ \A e \in Call : e.kind \in Opening \cup Streaming => e \in Asking
    /\ \A e \in Asking : e.kind \in Opening \cup Streaming
  <1>1. \A t \in Task : Calls[t] \subseteq Call
    BY CallAssumption
  <1>2. Asking \subseteq Call /\ Call \subseteq Event
    BY DEF Asking, Call
  <1>3. \A e \in Event : e.token \in Token /\ e = event(e.kind, e.token, e.stream_id)
    BY DEF Event, event
  <1>4. \A e \in Call : e.kind \in {"Connected", "StreamAccept", "Accept"} \cup Opening => e.stream_id = 0
    BY DEF Call, Asking, Opening, Streaming
  <1>5. \A e \in Call : e.kind \in Opening \cup Streaming => e \in Asking
    BY DEF Call, Opening, Streaming
  <1>6. \A e \in Asking : e.kind \in Opening \cup Streaming
    BY DEF Asking
  <1> QED
    BY <1>1, <1>2, <1>3, <1>4, <1>5, <1>6

(* The events by their names. *)
LEMMA EventTypes ==
    ASSUME NEW k \in Token, NEW s \in Stream
    PROVE  /\ \A kind \in {"Connected", "Accept", "Closed"} :
                 /\ event(kind, k, 0) \in Event
                 /\ Shaped({event(kind, k, 0)})
           /\ event("StreamAccept", k, s) \in Event /\ Shaped({event("StreamAccept", k, s)})
           /\ event("StreamAccept", k, 0) \in Event
           /\ event("StreamSend", k, s) \in Asking /\ event("StreamRecv", k, s) \in Asking
  BY StreamAssumption DEF event, Event, Shaped, Asking, Streaming, Opening

-----------------------------------------------------------------------------
(* Waking. *)

(* Tasks that are woken keep their places. *)
LEMMA WokenKeeps ==
    ASSUME task \in [Task -> TaskState], NEW ts
    PROVE  LET w == Woken(ts)
           IN  /\ w \in [Task -> TaskState]
               /\ \A t \in Task : /\ w[t].call = task[t].call /\ w[t].pc = task[t].pc
                                  /\ task[t].woken => w[t].woken
                                  /\ t \in ts /\ task[t].pc \notin {"idle", "panic"} => w[t].woken
  <1> DEFINE w == Woken(ts)
  <1>1. ASSUME NEW t \in Task
        PROVE  /\ w[t] \in TaskState
               /\ w[t].call = task[t].call /\ w[t].pc = task[t].pc
               /\ task[t].woken => w[t].woken
               /\ t \in ts /\ task[t].pc \notin {"idle", "panic"} => w[t].woken
    <2>0. task[t] \in TaskState
      OBVIOUS
    <2>1. CASE t \in ts /\ task[t].pc \notin {"idle", "panic"}
      <3>1. w[t] = [task[t] EXCEPT !.woken = TRUE]
        BY <2>1 DEF Woken
      <3>2. /\ w[t] \in TaskState /\ w[t].woken = TRUE
            /\ w[t].call = task[t].call /\ w[t].pc = task[t].pc
        BY <2>0, <3>1 DEF TaskState
      <3> QED
        BY <3>2, Zenon
    <2>2. CASE ~(t \in ts /\ task[t].pc \notin {"idle", "panic"})
      <3>1. w[t] = task[t]
        BY <2>2 DEF Woken
      <3> QED
        BY <2>0, <2>2, <3>1, Zenon
    <2> QED
      BY <2>1, <2>2
  <1>2. w = [t \in Task |-> w[t]]
    BY DEF Woken
  <1> HIDE DEF w
  <1>3. w \in [Task -> TaskState]
    BY <1>1, <1>2
  <1> QED
    BY <1>1, <1>3 DEF w

(* A waker that is removed is called. *)
LEMMA ClearedKeeps ==
    ASSUME StateTypes, NEW calls
    PROVE  /\ Cleared(calls) \in [Call -> Task \cup {NoTask}]
           /\ \A c \in Call : Cleared(calls)[c] = IF c \in calls THEN NoTask ELSE wakers[c]
           /\ \A c \in Call : c \in calls /\ wakers[c] # NoTask => wakers[c] \in Holding(calls)
  BY DEF StateTypes, Cleared, Holding

(* Types are kept where wakers are removed, and entries with their wakers. *)
LEMMA ClearingTypes ==
    ASSUME StateTypes, NEW calls, NEW gone, wakers' = Cleared(calls), entries' = entries \ gone,
           \A c \in Call : c.token \in gone => c \in calls
    PROVE  /\ entries' \subseteq Token
           /\ wakers' \in [Call -> Task \cup {NoTask}]
           /\ \A c \in Call : wakers'[c] # NoTask => c.token \in entries' /\ c \in Calls[wakers'[c]]
  <1>1. /\ wakers' \in [Call -> Task \cup {NoTask}]
        /\ \A c \in Call : wakers'[c] = IF c \in calls THEN NoTask ELSE wakers[c]
    BY ClearedKeeps
  <1>2. entries' \subseteq Token
    BY DEF StateTypes
  <1>3. ASSUME NEW c \in Call, wakers'[c] # NoTask
        PROVE  c.token \in entries' /\ c \in Calls[wakers'[c]]
    <2>1. c \notin calls /\ wakers'[c] = wakers[c]
      BY <1>1, <1>3
    <2> QED
      BY <1>3, <2>1 DEF StateTypes
  <1> QED
    BY <1>1, <1>2, <1>3

(* The same, where every entry stays. *)
LEMMA ClearedTypes ==
    ASSUME StateTypes, NEW calls, wakers' = Cleared(calls), entries' = entries
    PROVE  /\ entries' \subseteq Token
           /\ wakers' \in [Call -> Task \cup {NoTask}]
           /\ \A c \in Call : wakers'[c] # NoTask => c.token \in entries' /\ c \in Calls[wakers'[c]]
  <1> DEFINE none == {}
  <1>1. entries' = entries \ none /\ \A c \in Call : c.token \in none => c \in calls
    OBVIOUS
  <1> HIDE DEF none
  <1> QED
    BY <1>1, ClearingTypes

(* ... and calls are where tasks are woken. *)
LEMMA WokenTypes ==
    ASSUME TaskTypes, NEW ts, task' = Woken(ts)
    PROVE  task' \in [Task -> TaskState] /\ CallsMade'
  <1>1. /\ task' \in [Task -> TaskState]
        /\ \A t \in Task : task'[t].call = task[t].call /\ task'[t].pc = task[t].pc
    BY WokenKeeps DEF TaskTypes
  <1> QED
    BY <1>1 DEF TaskTypes, CallsMade

-----------------------------------------------------------------------------
(* The group. *)

(* What a connection may have become while it was locked: whoever holds it *)
(* leaves the marks, and what was announced, to the unlock.                *)
Moved(k, c) ==
    LET q == quic[k]
    IN  /\ c \in Conn
        /\ c.is_server = q.is_server /\ c.announced = q.announced /\ c.lowat = q.lowat /\ q.owed \subseteq c.owed
        /\ c.state = q.state \/ c.state = "closed" \/ (q.state = "new" /\ c.state = "open")
        /\ Fresh(k, c) # {} => q.state = "open" /\ c.state = "open"
        /\ \A r \in c.owed : r \in q.owed \/ r.call.token = k

(* What an unlock announces: the connection, and the streams that are new. *)
News(k, c) == {s \in Fresh(k, c) : Unseen(c, s)}

Greets(k, c) == quic[k].state = "new" /\ c.state = "open"

Greeting(k, c) == event(IF c.is_server THEN "Accept" ELSE "Connected", k, 0)

(* A send that is not in time for the capacity: its stream is reported     *)
(* later, when the capacity reaches its length.                            *)
LEMMA MarkEffect ==
    ASSUME NEW c \in Conn, NEW failed, NEW mark \in [Stream -> Length \cup {1}], stream_writable(c, failed, mark),
           NEW s \in Stream
    PROVE  /\ mark[s] \in Nat \ {0} /\ c.cap[s] \in Nat /\ c.lowat[s] \in Nat \ {0}
           /\ (\A r \in c.owed : ~(r.call.kind = "StreamSend" /\ r.call.stream_id = s)) => mark[s] = c.lowat[s]
           /\ \A r \in c.owed : r.call.kind = "StreamSend" /\ r.call.stream_id = s =>
                 s \in failed \/ r.len <= c.cap[s] \/ c.cap[s] < mark[s]
  <1>0. /\ \A n \in Length : n \in Nat \ {0}
        /\ \A n \in 0 .. MaxCap : n \in Nat
    BY BoundAssumption
  <1>1. mark[s] \in Nat \ {0} /\ c.cap[s] \in Nat /\ c.lowat[s] \in Nat \ {0}
    <2>1. c.cap[s] \in 0 .. MaxCap /\ c.lowat[s] \in Length \cup {1} /\ mark[s] \in Length \cup {1}
      BY DEF Conn
    <2>2. \A n \in Length \cup {1} : n \in Nat \ {0}
      BY <1>0
    <2> QED
      BY <1>0, <2>1, <2>2
  <1>2. IF s \in failed \/ Short(c, s) = {} THEN mark[s] = c.lowat[s] ELSE mark[s] \in Short(c, s)
    BY DEF stream_writable
  <1>3. ASSUME \A r \in c.owed : ~(r.call.kind = "StreamSend" /\ r.call.stream_id = s)
        PROVE  mark[s] = c.lowat[s]
    BY <1>2, <1>3 DEF Short
  <1>4. ASSUME NEW r \in c.owed, r.call.kind = "StreamSend", r.call.stream_id = s, s \notin failed, ~(r.len <= c.cap[s])
        PROVE  c.cap[s] < mark[s]
    <2>1. r.len \in Nat
      <3>1. r.len \in Length \cup {0}
        BY DEF Conn, Refused
      <3> QED
        BY <1>0, <3>1
    <2>2. r.len > c.cap[s]
      BY <1>1, <1>4, <2>1
    <2>3. r.len \in Short(c, s)
      BY <1>4, <2>2 DEF Short
    <2>4. mark[s] \in Short(c, s)
      BY <1>2, <1>4, <2>3
    <2>5. \A n \in Short(c, s) : n > c.cap[s]
      BY DEF Short
    <2> QED
      BY <1>1, <2>4, <2>5
  <1> QED
    BY <1>1, <1>3, <1>4

(* An unlock: what becomes of the connection. *)
LEMMA UnlockConn ==
    ASSUME quic \in [Token -> Conn], NEW k \in Token, NEW c, Moved(k, c), NEW mark \in [Stream -> Length \cup {1}],
           quic' = [quic EXCEPT ![k] = Settled(k, c, mark)]
    PROVE  /\ quic' \in [Token -> Conn]
           /\ \A j \in Token : j # k => quic'[j] = quic[j]
           /\ quic'[k].state = c.state /\ quic'[k].is_server = c.is_server /\ quic'[k].busy = FALSE
           /\ quic'[k].open = c.open /\ quic'[k].readable = c.readable /\ quic'[k].cap = c.cap /\ quic'[k].lowat = mark
           /\ quic'[k].owed = {r \in c.owed : r.call.kind \in Opening \ c.open}
           /\ quic'[k].announced = quic[k].announced \cup News(k, c)
  <1> DEFINE d == Settled(k, c, mark)
             fresh == Fresh(k, c)
  <1>1. c \in Conn /\ fresh \subseteq Stream /\ c.announced = quic[k].announced
    BY DEF Moved, Conn, Fresh
  <1>2. /\ d.state = c.state /\ d.is_server = c.is_server /\ d.busy = FALSE
        /\ d.open = c.open /\ d.readable = c.readable /\ d.cap = c.cap /\ d.lowat = mark
        /\ d.owed = {r \in c.owed : r.call.kind \in Opening \ c.open}
        /\ d.announced = c.announced \cup News(k, c)
    BY <1>1 DEF Settled, Conn, News
  <1>3. d \in Conn
    <2>1. c.announced \cup {s \in fresh : Unseen(c, s)} \in SUBSET Stream
      BY <1>1 DEF Conn
    <2>2. {r \in c.owed : r.call.kind \in Opening \ c.open} \in SUBSET Refused
      BY <1>1 DEF Conn
    <2> DEFINE a == c.announced \cup {s \in fresh : Unseen(c, s)}
               o == {r \in c.owed : r.call.kind \in Opening \ c.open}
    <2>3. d = [c EXCEPT !.busy = FALSE, !.lowat = mark, !.owed = o, !.announced = a]
      BY DEF Settled
    <2> HIDE DEF a, o, d
    <2> QED
      BY <1>1, <2>1, <2>2, <2>3 DEF Conn, a, o
  <1> HIDE DEF d
  <1>4. /\ quic' \in [Token -> Conn] /\ quic'[k] = d
        /\ \A j \in Token : j # k => quic'[j] = quic[j]
    BY <1>3 DEF d
  <1> QED
    BY <1>1, <1>2, <1>4

(* An unlock: what stays, what is raised, and nothing else. *)
LEMMA UnlockEffect ==
    ASSUME quic \in [Token -> Conn], NEW k \in Token, NEW c, Moved(k, c), Unlocks(k, c)
    PROVE  /\ quic' \in [Token -> Conn]
           /\ \A j \in Token : j # k => quic'[j] = quic[j]
           /\ quic'[k].state = c.state /\ quic'[k].is_server = c.is_server /\ quic'[k].busy = FALSE
           /\ quic'[k].open = c.open /\ quic'[k].readable = c.readable /\ quic'[k].cap = c.cap
           /\ quic'[k].owed = {r \in c.owed : r.call.kind \in Opening \ c.open}
           /\ quic'[k].announced = quic[k].announced \cup News(k, c)
           /\ events \subseteq events'
           /\ \A r \in c.owed : r.call.kind \in c.open \/ r.call.kind = "StreamRecv" => r.call \in events'
           /\ \A r \in c.owed : r.call.kind = "StreamSend" =>
                 r.call \in events' \/ quic'[k].cap[r.call.stream_id] < quic'[k].lowat[r.call.stream_id]
           /\ \A s \in Stream : (\A r \in c.owed : ~(r.call.kind = "StreamSend" /\ r.call.stream_id = s)) =>
                 /\ quic'[k].lowat[s] = quic[k].lowat[s]
                 /\ quic[k].cap[s] < quic[k].lowat[s] /\ quic[k].lowat[s] <= c.cap[s] => event("StreamSend", k, s) \in events'
           /\ \A s \in Fresh(k, c) : s \in quic[k].announced => event("StreamRecv", k, s) \in events'
           /\ \A s \in News(k, c) : event("StreamAccept", k, s) \in events'
           /\ Greets(k, c) => Greeting(k, c) \in events'
           /\ c.state = "closed" => event("Closed", k, 0) \in events'
           /\ \A e \in events' : \/ e \in events \/ e \in Asking
                                 \/ e \in {event("StreamAccept", k, s) : s \in News(k, c)}
                                 \/ e = Greeting(k, c) /\ Greets(k, c)
                                 \/ e = event("Closed", k, 0) /\ c.state = "closed"
  <1>0. PICK failed \in SUBSET {r.call.stream_id : r \in {o \in c.owed : o.call.kind = "StreamSend"}},
             mark \in [Stream -> Length \cup {1}] :
           /\ stream_writable(c, failed, mark)
           /\ quic' = [quic EXCEPT ![k] = Settled(k, c, mark)]
           /\ events' = ((events \cup handle_retry_events(c, failed))
                            \cup handle_stream_state_changed(k, c, mark)) \cup handle_state_changed(k, c)
    BY DEF Unlocks
  <1>1. /\ quic' \in [Token -> Conn]
        /\ \A j \in Token : j # k => quic'[j] = quic[j]
        /\ quic'[k].state = c.state /\ quic'[k].is_server = c.is_server /\ quic'[k].busy = FALSE
        /\ quic'[k].open = c.open /\ quic'[k].readable = c.readable /\ quic'[k].cap = c.cap /\ quic'[k].lowat = mark
        /\ quic'[k].owed = {r \in c.owed : r.call.kind \in Opening \ c.open}
        /\ quic'[k].announced = quic[k].announced \cup News(k, c)
    BY <1>0, UnlockConn
  <1>2. /\ c \in Conn /\ c.lowat = quic[k].lowat /\ c.announced = quic[k].announced
        /\ quic[k] \in Conn /\ Fresh(k, c) \subseteq Stream
    BY DEF Moved, Conn, Fresh
  <1> DEFINE retried == handle_retry_events(c, failed)
             streams == handle_stream_state_changed(k, c, mark)
             states  == handle_state_changed(k, c)
  <1>3. /\ \A r \in c.owed : r.call.kind \in c.open \/ r.call.kind = "StreamRecv" => r.call \in retried
        /\ \A r \in c.owed : r.call.kind = "StreamSend" /\ (r.len <= c.cap[r.call.stream_id] \/ r.call.stream_id \in failed) => r.call \in retried
        /\ retried \subseteq {r.call : r \in c.owed}
    BY DEF handle_retry_events
  <1>4. /\ \A s \in Stream : quic[k].cap[s] < mark[s] /\ mark[s] <= c.cap[s] => event("StreamSend", k, s) \in streams
        /\ \A s \in Fresh(k, c) : event(IF Unseen(c, s) THEN "StreamAccept" ELSE "StreamRecv", k, s) \in streams
        /\ \A e \in streams : \/ \E s \in Stream : e = event("StreamSend", k, s)
                              \/ \E s \in Fresh(k, c) : e = event(IF Unseen(c, s) THEN "StreamAccept" ELSE "StreamRecv", k, s)
    BY DEF handle_stream_state_changed, Writable
  <1>5. /\ Greets(k, c) => Greeting(k, c) \in states
        /\ c.state = "closed" => event("Closed", k, 0) \in states
        /\ \A e \in states : \/ e = Greeting(k, c) /\ Greets(k, c)
                             \/ e = event("Closed", k, 0) /\ c.state = "closed"
    BY DEF handle_state_changed, Greets, Greeting
  <1>6. events' = ((events \cup retried) \cup streams) \cup states
    BY <1>0
  <1> HIDE DEF retried, streams, states
  <1>7. c.owed \subseteq Refused /\ \A r \in Refused : r.call \in Asking
    BY <1>2 DEF Conn, Refused
  <1>8. ASSUME NEW r \in c.owed, r.call.kind = "StreamSend"
        PROVE  r.call \in events' \/ quic'[k].cap[r.call.stream_id] < quic'[k].lowat[r.call.stream_id]
    <2> DEFINE s == r.call.stream_id
    <2>1. s \in Stream
      BY <1>7, <1>8 DEF Asking, Opening, Streaming, Event
    <2>2. s \in failed \/ r.len <= c.cap[s] \/ c.cap[s] < mark[s]
      BY <1>0, <1>2, <1>8, <2>1, MarkEffect
    <2> QED
      BY <1>1, <1>3, <1>6, <1>8, <2>2
  <1>9. ASSUME NEW s \in Stream, \A r \in c.owed : ~(r.call.kind = "StreamSend" /\ r.call.stream_id = s)
        PROVE  /\ quic'[k].lowat[s] = quic[k].lowat[s]
               /\ quic[k].cap[s] < quic[k].lowat[s] /\ quic[k].lowat[s] <= c.cap[s] => event("StreamSend", k, s) \in events'
    <2>1. mark[s] = quic[k].lowat[s]
      BY <1>0, <1>2, <1>9, MarkEffect
    <2> QED
      BY <1>1, <1>4, <1>6, <2>1
  <1>10. ASSUME NEW s \in Fresh(k, c)
         PROVE  /\ s \in quic[k].announced => event("StreamRecv", k, s) \in events'
                /\ s \in News(k, c) => event("StreamAccept", k, s) \in events'
    <2>1. s \in Stream /\ s \in Nat
      BY <1>2, StreamAssumption
    <2>2. s \in quic[k].announced => ~Unseen(c, s)
      BY <1>2, <2>1 DEF Unseen
    <2>3. event(IF Unseen(c, s) THEN "StreamAccept" ELSE "StreamRecv", k, s) \in events'
      BY <1>4, <1>6
    <2> QED
      BY <2>2, <2>3 DEF News
  <1>11. ASSUME NEW e \in events'
         PROVE  \/ e \in events \/ e \in Asking
                \/ e \in {event("StreamAccept", k, s) : s \in News(k, c)}
                \/ e = Greeting(k, c) /\ Greets(k, c)
                \/ e = event("Closed", k, 0) /\ c.state = "closed"
    <2>1. CASE e \in retried
      BY <1>3, <1>7, <2>1
    <2>2. CASE \E s \in Stream : e = event("StreamSend", k, s)
      BY <2>2, EventTypes
    <2>3. CASE \E s \in Fresh(k, c) : e = event(IF Unseen(c, s) THEN "StreamAccept" ELSE "StreamRecv", k, s)
      <3>1. PICK s \in Fresh(k, c) : e = event(IF Unseen(c, s) THEN "StreamAccept" ELSE "StreamRecv", k, s)
        BY <2>3
      <3>2. CASE Unseen(c, s)
        BY <3>1, <3>2 DEF News
      <3>3. CASE ~Unseen(c, s)
        BY <1>2, <3>1, <3>3, EventTypes
      <3> QED
        BY <3>2, <3>3
    <2> QED
      BY <1>4, <1>5, <1>6, <2>1, <2>2, <2>3
  <1>12. \A s \in News(k, c) : s \in Fresh(k, c)
    BY DEF News
  <1> QED
    BY <1>1, <1>3, <1>5, <1>6, <1>8, <1>9, <1>10, <1>11, <1>12

(* Types are kept by an unlock. *)
LEMMA UnlockTypes ==
    ASSUME GroupTypes, NEW k \in Token, NEW c, Moved(k, c), Unlocks(k, c)
    PROVE  GroupTypes'
  <1>1. quic' \in [Token -> Conn]
    BY UnlockEffect DEF GroupTypes
  <1>2. \A e \in Asking : e \in Event /\ e.kind \notin {"Connected", "Accept", "Closed", "StreamAccept"}
    BY CallTypes DEF Opening, Streaming
  <1>3. \A e \in events' : \/ e \in events \/ e \in Asking
                           \/ e \in {event("StreamAccept", k, s) : s \in News(k, c)}
                           \/ e = Greeting(k, c) \/ e = event("Closed", k, 0)
    BY UnlockEffect DEF GroupTypes
  <1>4. News(k, c) \subseteq Stream
    BY DEF News, Fresh, Moved, Conn
  <1>5. Shaped(events')
    <2> SUFFICES ASSUME NEW e \in events'
                 PROVE  /\ e \in Event
                        /\ e.kind \in {"Connected", "Accept", "Closed"} => e.stream_id = 0
                        /\ e.kind = "StreamAccept" => e.stream_id \in Stream
      BY DEF Shaped
    <2>1. CASE e \in events
      BY <2>1 DEF GroupTypes, Shaped
    <2>2. CASE e \in Asking
      BY <2>2, <1>2
    <2>3. CASE e \in {event("StreamAccept", k, s) : s \in News(k, c)}
      BY <1>4, <2>3 DEF event, Event
    <2>4. CASE e = Greeting(k, c) \/ e = event("Closed", k, 0)
      BY <2>4 DEF Greeting, event, Event
    <2> QED
      BY <1>3, <2>1, <2>2, <2>3, <2>4
  <1> QED
    BY <1>1, <1>5 DEF GroupTypes

(* What a thread or a call may make of a connection. *)
LEMMA MovedCases ==
    ASSUME quic \in [Token -> Conn], NEW k \in Token
    PROVE  LET q == quic[k]
           IN  /\ Moved(k, q)
               /\ Moved(k, Closed(q))
               /\ q.state = "new" => Moved(k, [q EXCEPT !.state = "open"])
               /\ \A o \in Opening : Moved(k, [q EXCEPT !.open = q.open \cup {o}])
               /\ \A s \in Stream : q.state = "open" => Moved(k, [q EXCEPT !.readable = q.readable \cup {s}])
               /\ \A s \in Stream : Moved(k, [q EXCEPT !.readable = q.readable \ {s}])
               /\ \A s \in Stream, n \in 0 .. MaxCap : Moved(k, [q EXCEPT !.cap[s] = n])
               /\ \A r \in Refused : r.call.token = k => Moved(k, [q EXCEPT !.owed = q.owed \cup {r}])
               /\ \A o, i : Moved(k, [q EXCEPT !.open = q.open \ {o}, !.readable = q.readable \ {i}])
  <1> DEFINE q == quic[k]
  <1>0. q \in Conn
    OBVIOUS
  <1>1. ASSUME NEW c \in Conn, c.is_server = q.is_server, c.announced = q.announced, c.lowat = q.lowat, q.owed = c.owed,
               c.state = q.state \/ c.state = "closed" \/ (q.state = "new" /\ c.state = "open"),
               c.readable \subseteq q.readable
        PROVE  Moved(k, c)
    BY <1>1 DEF Moved, Fresh
  <1>2. Moved(k, q)
    BY <1>0, <1>1
  <1>3. Moved(k, Closed(q))
    <2> DEFINE c == Closed(q)
               zero == [s \in Stream |-> 0]
    <2>1. zero \in [Stream -> 0 .. MaxCap]
      BY BoundAssumption
    <2>2. c = [q EXCEPT !.state = "closed", !.open = {}, !.readable = {}, !.cap = zero]
      BY DEF Closed
    <2> HIDE DEF zero, c
    <2>3. /\ c \in Conn /\ c.is_server = q.is_server /\ c.announced = q.announced /\ c.lowat = q.lowat
          /\ c.owed = q.owed /\ c.state = "closed" /\ c.readable = {}
      BY <1>0, <2>1, <2>2 DEF Conn
    <2> QED
      BY <1>1, <2>3 DEF c
  <1>4. ASSUME q.state = "new" PROVE Moved(k, [q EXCEPT !.state = "open"])
    BY <1>0, <1>4 DEF Moved, Fresh, Conn
  <1>5. ASSUME NEW o \in Opening PROVE Moved(k, [q EXCEPT !.open = q.open \cup {o}])
    BY <1>0 DEF Moved, Fresh, Conn
  <1>6. ASSUME NEW s \in Stream, q.state = "open" PROVE Moved(k, [q EXCEPT !.readable = q.readable \cup {s}])
    BY <1>0, <1>6 DEF Moved, Fresh, Conn
  <1>7. ASSUME NEW s \in Stream PROVE Moved(k, [q EXCEPT !.readable = q.readable \ {s}])
    BY <1>0 DEF Moved, Fresh, Conn
  <1>8. ASSUME NEW s \in Stream, NEW n \in 0 .. MaxCap PROVE Moved(k, [q EXCEPT !.cap[s] = n])
    <2> DEFINE cap == [q.cap EXCEPT ![s] = n]
    <2>1. cap \in [Stream -> 0 .. MaxCap]
      BY <1>0 DEF Conn
    <2>2. [q EXCEPT !.cap[s] = n] = [q EXCEPT !.cap = cap]
      BY <1>0 DEF Conn
    <2> HIDE DEF cap
    <2>3. Moved(k, [q EXCEPT !.cap = cap])
      BY <1>0, <2>1 DEF Moved, Fresh, Conn
    <2> QED
      BY <2>2, <2>3
  <1>9. ASSUME NEW r \in Refused, r.call.token = k PROVE Moved(k, [q EXCEPT !.owed = q.owed \cup {r}])
    BY <1>0, <1>9 DEF Moved, Fresh, Conn
  <1>10. ASSUME NEW o, NEW i PROVE Moved(k, [q EXCEPT !.open = q.open \ {o}, !.readable = q.readable \ {i}])
    BY <1>0 DEF Moved, Fresh, Conn
  <1> QED
    BY <1>2, <1>3, <1>4, <1>5, <1>6, <1>7, <1>8, <1>9, <1>10

(* Whatever the other side does to a connection ends in an unlock that reports it. *)
LEMMA ServeUnlocks ==
    ASSUME GroupTypes, NEW k \in Token, Serve(k)
    PROVE  \E c : Moved(k, c) /\ Unlocks(k, c)
  <1> DEFINE q == quic[k]
  <1>0. quic \in [Token -> Conn] /\ q.announced \subseteq Stream
    BY DEF GroupTypes, Conn
  <1>1. \/ Unlocks(k, q)
        \/ q.state = "new" /\ Unlocks(k, [q EXCEPT !.state = "open"])
        \/ \E o \in Opening : Unlocks(k, [q EXCEPT !.open = q.open \cup {o}])
        \/ q.state = "open" /\ \E s \in Stream : Unlocks(k, [q EXCEPT !.readable = q.readable \cup {s}])
        \/ \E s \in Stream, n \in 0 .. MaxCap : Unlocks(k, [q EXCEPT !.cap[s] = n])
        \/ Unlocks(k, Closed(q))
    BY <1>0 DEF Serve
  <1>2. CASE Unlocks(k, q)
    BY <1>0, <1>2, MovedCases
  <1>3. CASE q.state = "new" /\ Unlocks(k, [q EXCEPT !.state = "open"])
    BY <1>0, <1>3, MovedCases
  <1>4. CASE \E o \in Opening : Unlocks(k, [q EXCEPT !.open = q.open \cup {o}])
    <2>1. PICK o \in Opening : Unlocks(k, [q EXCEPT !.open = q.open \cup {o}])
      BY <1>4
    <2> QED
      BY <1>0, <2>1, MovedCases
  <1>5. CASE q.state = "open" /\ \E s \in Stream : Unlocks(k, [q EXCEPT !.readable = q.readable \cup {s}])
    <2>1. PICK s \in Stream : Unlocks(k, [q EXCEPT !.readable = q.readable \cup {s}])
      BY <1>5
    <2> QED
      BY <1>0, <1>5, <2>1, MovedCases
  <1>6. CASE \E s \in Stream, n \in 0 .. MaxCap : Unlocks(k, [q EXCEPT !.cap[s] = n])
    <2>1. PICK s \in Stream, n \in 0 .. MaxCap : Unlocks(k, [q EXCEPT !.cap[s] = n])
      BY <1>6
    <2> QED
      BY <1>0, <2>1, MovedCases
  <1>7. CASE Unlocks(k, Closed(q))
    BY <1>0, <1>7, MovedCases
  <1> QED
    BY <1>1, <1>2, <1>3, <1>4, <1>5, <1>6, <1>7

(* So does shutdown, and the drop of a connection, unless the connection   *)
(* is gone or locked.                                                      *)
Touched(k) == UNCHANGED groupVars \/ (Present(quic[k]) /\ \E c : Moved(k, c) /\ Unlocks(k, c))

LEMMA TouchUnlocks ==
    ASSUME GroupTypes, NEW k \in Token, DropConn(k) \/ \E s \in Stream : Shutdown(k, s)
    PROVE  Touched(k)
  <1> DEFINE q == quic[k]
             end == IF q.state = "new" THEN {Closed(q)} ELSE {}
  <1>0. quic \in [Token -> Conn]
    BY DEF GroupTypes
  <1>1. ASSUME NEW cs, Touch(k, cs), \A c \in cs : Moved(k, c)
        PROVE  Touched(k)
    BY <1>1 DEF Touch, Touched
  <1>2. CASE DropConn(k)
    <2> DEFINE cs == {q} \cup end
    <2>1. Touch(k, cs)
      BY <1>2 DEF DropConn
    <2>2. \A c \in cs : Moved(k, c)
      BY <1>0, MovedCases
    <2> HIDE DEF cs
    <2> QED
      BY <1>1, <2>1, <2>2
  <1>3. CASE \E s \in Stream : Shutdown(k, s)
    <2>0. PICK s \in Stream : Shutdown(k, s)
      BY <1>3
    <2> DEFINE cs == {q, [q EXCEPT !.readable = q.readable \ {s}]}
    <2>1. Touch(k, cs)
      BY <2>0 DEF Shutdown
    <2>2. \A c \in cs : Moved(k, c)
      BY <1>0, MovedCases
    <2> HIDE DEF cs
    <2> QED
      BY <1>1, <2>1, <2>2
  <1> QED
    BY <1>2, <1>3

(* A connection that nobody has used. *)
LEMMA NewConnType ==
    /\ NewConn \in Conn
    /\ NewConn.state = "none" /\ NewConn.busy = FALSE /\ NewConn.announced = {} /\ NewConn.owed = {}
  <1> DEFINE zero == [s \in Stream |-> 0]
             one == [s \in Stream |-> 1]
  <1>1. zero \in [Stream -> 0 .. MaxCap] /\ one \in [Stream -> Length \cup {1}]
    BY BoundAssumption
  <1>2. NewConn = [state |-> "none", is_server |-> FALSE, busy |-> FALSE, open |-> {}, readable |-> {},
                   cap |-> zero, lowat |-> one, owed |-> {}, announced |-> {}]
    BY DEF NewConn
  <1> HIDE DEF zero, one
  <1> QED
    BY <1>1, <1>2 DEF Conn

(* What remains of a connection that was removed. *)
LEMMA RemoveEffect ==
    ASSUME quic \in [Token -> Conn], NEW k \in Token, Remove(k)
    PROVE  /\ quic' \in [Token -> Conn]
           /\ \A j \in Token : j # k => quic'[j] = quic[j]
           /\ quic'[k].state = "gone" /\ quic'[k].busy = FALSE /\ quic'[k].owed = {}
           /\ quic'[k].announced = quic[k].announced
  <1> DEFINE d == [NewConn EXCEPT !.state = "gone", !.is_server = quic[k].is_server, !.announced = quic[k].announced]
  <1>1. /\ d \in Conn /\ d.state = "gone" /\ d.busy = FALSE /\ d.owed = {}
        /\ d.announced = quic[k].announced
    BY NewConnType DEF Conn
  <1>2. quic' = [quic EXCEPT ![k] = d]
    BY DEF Remove
  <1> HIDE DEF d
  <1> QED
    BY <1>1, <1>2

(* The steps of the group alone, as far as types go. *)
LEMMA GroupStepTypes ==
    ASSUME TypeInv, NEW k \in Token, Register(k) \/ Lock(k) \/ Serve(k) \/ Remove(k)
    PROVE  GroupTypes' /\ UNCHANGED <<stateVars, taskVars, runner, batch, stops>>
  <1>0. GroupTypes /\ quic[k] \in Conn /\ quic \in [Token -> Conn]
    BY DEF TypeInv, GroupTypes
  <1>1. CASE Register(k)
    <2>1. PICK s \in BOOLEAN : quic' = [quic EXCEPT ![k].state = "new", ![k].is_server = s]
      BY <1>1 DEF Register
    <2>2. [quic[k] EXCEPT !.state = "new", !.is_server = s] \in Conn
      BY <1>0 DEF Conn
    <2>3. quic' \in [Token -> Conn]
      BY <1>0, <2>1, <2>2
    <2> QED
      BY <1>1, <2>3, <1>0 DEF Register, GroupTypes, Shaped
  <1>2. CASE Lock(k)
    <2>1. [quic[k] EXCEPT !.busy = TRUE] \in Conn
      BY <1>0 DEF Conn
    <2>2. quic' \in [Token -> Conn]
      BY <1>0, <1>2, <2>1 DEF Lock
    <2> QED
      BY <1>2, <2>2, <1>0 DEF Lock, GroupTypes, Shaped
  <1>3. CASE Remove(k)
    <2>2. quic' \in [Token -> Conn]
      BY <1>0, <1>3, RemoveEffect
    <2> QED
      BY <1>3, <2>2, <1>0 DEF Remove, GroupTypes, Shaped
  <1>4. CASE Serve(k)
    <2>1. UNCHANGED <<stateVars, taskVars, runner, batch, stops>>
      BY <1>4 DEF Serve
    <2>2. PICK c : Moved(k, c) /\ Unlocks(k, c)
      BY <1>0, <1>4, ServeUnlocks
    <2> QED
      BY <1>0, <2>1, <2>2, UnlockTypes
  <1> QED
    BY <1>1, <1>2, <1>3, <1>4

-----------------------------------------------------------------------------
(* Queues. *)

(* An order of a finite set is a sequence of its elements, each once. *)
LEMMA OrderOf ==
    ASSUME NEW S, IsFiniteSet(S), NEW q \in Orders(S)
    PROVE  /\ q \in Seq(S) /\ Distinct(q) /\ Range_(q) = S
           /\ S = {} => q = <<>>
  <1> DEFINE n == Cardinality(S)
             N == 1 .. n
  <1>1. n \in Nat
    BY FS_CardinalityType
  <1>2. q \in [N -> S] /\ \A x \in S : \E i \in N : q[i] = x
    BY DEF Orders
  <1>3. IsFiniteSet(N) /\ Cardinality(N) = n
    <2>1. 1 \in Int /\ n \in Int
      BY <1>1
    <2> HIDE DEF n
    <2>2. IsFiniteSet(N) /\ Cardinality(N) = IF 1 > n THEN 0 ELSE n - 1 + 1
      BY <2>1, FS_Interval
    <2> HIDE DEF N
    <2> QED
      BY <1>1, <2>2
  <1>4. q \in Surjection(N, S)
    BY <1>2 DEF Surjection
  <1> HIDE DEF N, n
  <1>5. Cardinality(S) = Cardinality(N)
    BY <1>3 DEF n
  <1>6. q \in Injection(N, S)
    BY <1>3, <1>4, <1>5, FS_Surjection
  <1>7. Distinct(q)
    BY <1>2, <1>6 DEF Injection, IsInjective, Distinct
  <1>8. Range_(q) = S
    BY <1>2 DEF Range_
  <1>9. q \in Seq(S)
    BY <1>1, <1>2 DEF N
  <1>10. ASSUME S = {} PROVE q = <<>>
    <2>1. n = 0
      BY <1>10, FS_EmptySet DEF n
    <2>2. q \in [1 .. 0 -> S]
      BY <1>2, <2>1 DEF N
    <2> QED
      BY <2>2
  <1> QED
    BY <1>7, <1>8, <1>9, <1>10

(* Queues of things of one kind. *)
LEMMA Joined ==
    ASSUME NEW S, NEW a \in Seq(S), NEW b \in Seq(S)
    PROVE  /\ a \o b \in Seq(S)
           /\ Range_(a \o b) = Range_(a) \cup Range_(b)
           /\ Distinct(a \o b) <=> Distinct(a) /\ Distinct(b) /\ Range_(a) \cap Range_(b) = {}
  <1> DEFINE c == a \o b
             m == Len(a)
             n == Len(b)
  <1>1. m \in Nat /\ n \in Nat /\ DOMAIN a = 1 .. m /\ DOMAIN b = 1 .. n
    OBVIOUS
  <1>2. /\ c \in Seq(S) /\ Len(c) = m + n
        /\ \A i \in 1 .. m + n : c[i] = IF i <= m THEN a[i] ELSE b[i - m]
    BY ConcatProperties
  <1> HIDE DEF c, m, n
  <1>3. DOMAIN c = 1 .. m + n
    BY <1>2
  <1>4. \A i \in 1 .. m : i \in 1 .. m + n /\ c[i] = a[i]
    BY <1>1, <1>2
  <1>5. \A j \in 1 .. n : m + j \in 1 .. m + n /\ c[m + j] = b[j]
    <2> SUFFICES ASSUME NEW j \in 1 .. n PROVE m + j \in 1 .. m + n /\ c[m + j] = b[j]
      OBVIOUS
    <2> DEFINE i == m + j
    <2>1. i \in 1 .. m + n /\ ~(i <= m) /\ i - m = j
      BY <1>1
    <2> HIDE DEF i
    <2>2. c[i] = b[i - m]
      BY <2>1, <1>2
    <2> QED
      BY <2>1, <2>2 DEF i
  <1>6. \A i \in 1 .. m + n : i \in 1 .. m \/ (\E j \in 1 .. n : i = m + j)
    <2> SUFFICES ASSUME NEW i \in 1 .. m + n, i \notin 1 .. m PROVE \E j \in 1 .. n : i = m + j
      OBVIOUS
    <2>1. i - m \in 1 .. n /\ i = m + (i - m)
      BY <1>1
    <2> QED
      BY <2>1
  <1>7. Range_(c) = Range_(a) \cup Range_(b)
    BY <1>1, <1>3, <1>4, <1>5, <1>6, SMTT(30) DEF Range_
  <1>8. ASSUME Distinct(c) PROVE Distinct(a) /\ Distinct(b) /\ Range_(a) \cap Range_(b) = {}
    <2>1. Distinct(a)
      BY <1>1, <1>3, <1>4, <1>8 DEF Distinct
    <2>2. Distinct(b)
      <3> SUFFICES ASSUME NEW i \in 1 .. n, NEW j \in 1 .. n, b[i] = b[j] PROVE i = j
        BY <1>1 DEF Distinct
      <3>1. m + i = m + j
        BY <1>3, <1>5, <1>8 DEF Distinct
      <3> QED
        BY <1>1, <3>1
    <2>3. Range_(a) \cap Range_(b) = {}
      <3> SUFFICES ASSUME NEW i \in 1 .. m, NEW j \in 1 .. n, a[i] = b[j] PROVE FALSE
        BY <1>1 DEF Range_
      <3>1. i = m + j
        BY <1>3, <1>4, <1>5, <1>8 DEF Distinct
      <3> QED
        BY <1>1, <3>1
    <2> QED
      BY <2>1, <2>2, <2>3
  <1>9. ASSUME Distinct(a), Distinct(b), Range_(a) \cap Range_(b) = {} PROVE Distinct(c)
    <2> SUFFICES ASSUME NEW i \in 1 .. m + n, NEW j \in 1 .. m + n, c[i] = c[j] PROVE i = j
      BY <1>3 DEF Distinct
    <2>1. CASE i \in 1 .. m /\ j \in 1 .. m
      BY <1>1, <1>4, <1>9, <2>1 DEF Distinct
    <2>2. CASE i \notin 1 .. m /\ j \notin 1 .. m
      <3>1. PICK x \in 1 .. n : i = m + x
        BY <1>6, <2>2
      <3>2. PICK y \in 1 .. n : j = m + y
        BY <1>6, <2>2
      <3>3. b[x] = b[y]
        BY <1>5, <3>1, <3>2
      <3>4. x = y
        BY <1>1, <1>9, <3>3 DEF Distinct
      <3> QED
        BY <3>1, <3>2, <3>4
    <2>3. ASSUME NEW x \in 1 .. m, NEW y \in 1 .. n, a[x] = b[y] PROVE FALSE
      BY <1>1, <1>9, <2>3 DEF Range_
    <2>4. CASE i \in 1 .. m /\ j \notin 1 .. m
      <3>1. PICK y \in 1 .. n : j = m + y
        BY <1>6, <2>4
      <3> QED
        BY <1>4, <1>5, <2>3, <2>4, <3>1
    <2>5. CASE i \notin 1 .. m /\ j \in 1 .. m
      <3>1. PICK x \in 1 .. n : i = m + x
        BY <1>6, <2>5
      <3> QED
        BY <1>4, <1>5, <2>3, <2>5, <3>1
    <2> QED
      BY <2>1, <2>2, <2>4, <2>5
  <1> QED
    BY <1>2, <1>7, <1>8, <1>9 DEF c

(* The first of a queue leaves it. *)
LEMMA Popped ==
    ASSUME NEW S, NEW a \in Seq(S), a # <<>>
    PROVE  /\ Head(a) \in S /\ Tail(a) \in Seq(S)
           /\ Range_(a) = {Head(a)} \cup Range_(Tail(a))
           /\ Distinct(a) => Distinct(Tail(a)) /\ Head(a) \notin Range_(Tail(a))
           /\ \A b \in Seq(S) : Append(b, Head(a)) \o Tail(a) = b \o a
  <1> DEFINE h == <<Head(a)>>
             r == Tail(a)
  <1>1. Head(a) \in S /\ r \in Seq(S) /\ h \in Seq(S)
    BY HeadTailProperties
  <1>2. a = h \o r
    OBVIOUS
  <1>3. /\ Range_(a) = Range_(h) \cup Range_(r)
        /\ Distinct(a) <=> Distinct(h) /\ Distinct(r) /\ Range_(h) \cap Range_(r) = {}
    <2> HIDE DEF h, r
    <2> QED
      BY <1>1, <1>2, Joined
  <1>4. Range_(h) = {Head(a)}
    <2>1. DOMAIN h = {1} /\ h[1] = Head(a)
      OBVIOUS
    <2> HIDE DEF h
    <2> QED
      BY <2>1 DEF Range_
  <1>5. ASSUME NEW b \in Seq(S) PROVE Append(b, Head(a)) \o r = b \o a
    <2>1. Append(b, Head(a)) = b \o h
      BY <1>1
    <2>2. (b \o h) \o r = b \o (h \o r)
      <3> HIDE DEF h, r
      <3> QED
        BY <1>1, ConcatAssociative
    <2> QED
      BY <1>2, <2>1, <2>2
  <1> QED
    BY <1>1, <1>3, <1>4, <1>5

(* Of a queue the last are left. *)
LEMMA Remaining ==
    ASSUME NEW S, NEW a \in Seq(S), NEW n \in Nat, n <= Len(a)
    PROVE  LET r == SubSeq(a, n + 1, Len(a))
           IN  /\ r \in Seq(S) /\ Range_(r) \subseteq Range_(a)
               /\ Distinct(a) => Distinct(r)
               /\ a = <<>> => r = <<>>
  <1> DEFINE m == Len(a)
             r == SubSeq(a, n + 1, m)
  <1>1. m \in Nat /\ DOMAIN a = 1 .. m /\ \A i \in 1 .. m : a[i] \in S
    OBVIOUS
  <1>2. n + 1 \in Int /\ m \in Int /\ \A i \in n + 1 .. m : a[i] \in S
    BY <1>1
  <1> HIDE DEF m
  <1>3. /\ r \in Seq(S) /\ Len(r) = (IF n + 1 <= m THEN m - (n + 1) + 1 ELSE 0)
        /\ \A i \in 1 .. m - (n + 1) + 1 : r[i] = a[n + 1 + i - 1]
    BY <1>2, SubSeqProperties
  <1> HIDE DEF r
  <1>4. n <= m
    BY DEF m
  <1>5. Len(r) = m - n
    BY <1>1, <1>3, <1>4
  <1>6. \A i \in 1 .. m - n : r[i] = a[n + i] /\ n + i \in 1 .. m
    <2> SUFFICES ASSUME NEW i \in 1 .. m - n PROVE r[i] = a[n + i] /\ n + i \in 1 .. m
      OBVIOUS
    <2>1. i \in 1 .. m - (n + 1) + 1 /\ n + 1 + i - 1 = n + i /\ n + i \in 1 .. m
      BY <1>1, <1>4
    <2> QED
      BY <2>1, <1>3
  <1>7. DOMAIN r = 1 .. m - n
    BY <1>3, <1>5
  <1>8. Range_(r) \subseteq Range_(a)
    BY <1>1, <1>6, <1>7 DEF Range_
  <1>9. ASSUME Distinct(a) PROVE Distinct(r)
    <2> SUFFICES ASSUME NEW i \in 1 .. m - n, NEW j \in 1 .. m - n, r[i] = r[j] PROVE i = j
      BY <1>7 DEF Distinct
    <2>1. n + i = n + j
      BY <1>1, <1>6, <1>9 DEF Distinct
    <2> QED
      BY <2>1, <1>1
  <1>10. ASSUME a = <<>> PROVE r = <<>>
    <2>1. m = 0
      BY <1>10 DEF m
    <2>2. Len(r) = 0
      BY <2>1, <1>4, <1>5
    <2> QED
      BY <2>2, <1>3
  <1> QED
    BY <1>3, <1>8, <1>9, <1>10 DEF r, m

(* The tokens of a batch, and the stream ids of a connection in it. *)
Arriving == {e.token : e \in Sent("Accept")}
Opened(k) == {e.stream_id : e \in {f \in Sent("StreamAccept") : f.token = k}}

(* They are finite. *)
LEMMA BatchFinite ==
    ASSUME RunnerTypes, NEW k \in Token
    PROVE  /\ Arriving \in SUBSET Token /\ IsFiniteSet(Arriving)
           /\ Opened(k) \in SUBSET Stream /\ IsFiniteSet(Opened(k))
  <1>1. Arriving \in SUBSET Token
    BY DEF RunnerTypes, Shaped, Arriving, Sent, Event
  <1>2. Opened(k) \in SUBSET Stream
    BY DEF RunnerTypes, Shaped, Opened, Sent
  <1> QED
    BY <1>1, <1>2, FiniteAssumption, FS_Subset

(* What dispatching makes of the queue of inbound connections. *)
LEMMA AcceptQueue ==
    ASSUME RunnerTypes, on_accept
    PROVE  \E q \in Seq(Token) :
              /\ Distinct(q) /\ Range_(q) = Arriving /\ (Arriving = {} => q = <<>>)
              /\ incoming_conns' = incoming_conns \o q
  <1>1. PICK q \in Orders(Arriving) : incoming_conns' = incoming_conns \o q
    BY DEF on_accept, Arriving
  <1>2. Arriving \subseteq Token /\ IsFiniteSet(Arriving)
    <2>1. CASE Token = {}
      <3>1. Arriving = {}
        BY <2>1 DEF RunnerTypes, Shaped, Arriving, Sent, Event
      <3> QED
        BY <3>1, FS_EmptySet
    <2>2. CASE Token # {}
      BY <2>2, BatchFinite
    <2> QED
      BY <2>1, <2>2
  <1>3. q \in Seq(Arriving) /\ Distinct(q) /\ Range_(q) = Arriving /\ (Arriving = {} => q = <<>>)
    BY <1>2, OrderOf
  <1>4. q \in Seq(Token)
    BY <1>2, <1>3, SeqMonotonic
  <1> QED
    BY <1>1, <1>3, <1>4

(* ... and of the queues of streams. *)
LEMMA StreamQueues ==
    ASSUME RunnerTypes, incoming_streams \in [Token -> Seq(Stream)], on_stream_accept
    PROVE  /\ incoming_streams' \in [Token -> Seq(Stream)]
           /\ \A k \in Token : \E q \in Seq(Stream) :
                 /\ Distinct(q) /\ Range_(q) \subseteq Opened(k)
                 /\ k \notin Closing => Range_(q) = Opened(k)
                 /\ Opened(k) = {} => q = <<>>
                 /\ incoming_streams'[k] = IF k \in Closing THEN q ELSE incoming_streams[k] \o q
  <1>1. PICK q \in [Token -> UNION {Orders(S) : S \in SUBSET Stream}], n \in [Token -> 0 .. Cardinality(Stream)] :
           /\ \A k \in Token : q[k] \in Orders(Opened(k))
           /\ \A k \in Token : n[k] <= Len(q[k])
           /\ incoming_streams' = [k \in Token |-> IF k \in Closing THEN SubSeq(q[k], n[k] + 1, Len(q[k]))
                                                                  ELSE incoming_streams[k] \o q[k]]
    BY DEF on_stream_accept, Opened
  <1>2. ASSUME NEW k \in Token
        PROVE  \E r \in Seq(Stream) :
                 /\ Distinct(r) /\ Range_(r) \subseteq Opened(k)
                 /\ k \notin Closing => Range_(r) = Opened(k)
                 /\ Opened(k) = {} => r = <<>>
                 /\ incoming_streams'[k] = IF k \in Closing THEN r ELSE incoming_streams[k] \o r
    <2>1. Opened(k) \in SUBSET Stream /\ IsFiniteSet(Opened(k))
      BY BatchFinite
    <2>2. /\ q[k] \in Seq(Opened(k)) /\ Distinct(q[k]) /\ Range_(q[k]) = Opened(k)
          /\ Opened(k) = {} => q[k] = <<>>
      BY <1>1, <2>1, OrderOf
    <2>3. q[k] \in Seq(Stream)
      BY <2>1, <2>2, SeqMonotonic
    <2>4. CASE k \notin Closing
      <3>1. incoming_streams'[k] = incoming_streams[k] \o q[k]
        BY <1>1, <2>4
      <3> QED
        BY <2>2, <2>3, <2>4, <3>1
    <2>5. CASE k \in Closing
      <3> DEFINE r == SubSeq(q[k], n[k] + 1, Len(q[k]))
      <3>1. n[k] \in Nat /\ n[k] <= Len(q[k])
        <4>1. Cardinality(Stream) \in Nat
          BY FiniteAssumption, FS_CardinalityType
        <4>2. n[k] \in 0 .. Cardinality(Stream)
          BY <1>1
        <4> QED
          BY <4>1, <4>2, <1>1
      <3>2. incoming_streams'[k] = r
        BY <1>1, <2>5
      <3>3. /\ r \in Seq(Stream) /\ Range_(r) \subseteq Range_(q[k])
            /\ Distinct(q[k]) => Distinct(r)
            /\ q[k] = <<>> => r = <<>>
        BY <2>3, <3>1, Remaining
      <3> HIDE DEF r
      <3> QED
        BY <2>2, <2>5, <3>2, <3>3
    <2> QED
      BY <2>4, <2>5
  <1>3. ASSUME NEW k \in Token PROVE incoming_streams'[k] \in Seq(Stream)
    <2>1. PICK r \in Seq(Stream) : incoming_streams'[k] = IF k \in Closing THEN r ELSE incoming_streams[k] \o r
      BY <1>2
    <2>2. incoming_streams[k] \in Seq(Stream)
      OBVIOUS
    <2>3. incoming_streams[k] \o r \in Seq(Stream)
      BY <2>2, ConcatProperties
    <2> QED
      BY <2>1, <2>3
  <1>4. incoming_streams' = [k \in Token |-> incoming_streams'[k]]
    BY <1>1
  <1>5. incoming_streams' \in [Token -> Seq(Stream)]
    BY <1>3, <1>4
  <1> QED
    BY <1>2, <1>5

-----------------------------------------------------------------------------
(* Types are kept by every step. *)

(* A task moves. *)
LEMMA MoveTypes ==
    ASSUME TaskTypes, NEW t \in Task, NEW new \in TaskState, task' = [task EXCEPT ![t] = new],
           new.pc = "idle" => new.call = NoCall,
           new.pc # "idle" => new.call \in Calls[t],
           new.pc \in {"asking", "answered"} => new.call \in Asking
    PROVE  task' \in [Task -> TaskState] /\ CallsMade'
  <1>1. task' \in [Task -> TaskState] /\ task'[t] = new /\ \A u \in Task : u # t => task'[u] = task[u]
    BY DEF TaskTypes
  <1> QED
    BY <1>1 DEF TaskTypes, CallsMade

(* A call returns, is suspended, or is about to ask. *)
LEMMA ReturnTypes ==
    ASSUME TaskTypes, NEW t \in Task, Returns(t)
    PROVE  task' \in [Task -> TaskState] /\ CallsMade'
  <1>1. Idle \in TaskState /\ Idle.pc = "idle" /\ Idle.call = NoCall
    BY DEF Idle, TaskState
  <1> QED
    BY <1>1, MoveTypes DEF Returns

(* A call that asks, suspends or panics at its first poll keeps the types of the tasks. *)
LEMMA GoTypes ==
    ASSUME TaskTypes, NEW t \in Task, NEW e \in Calls[t], NEW pc \in {"asking", "pending", "panic"},
           pc = "asking" => e \in Asking, Goes(t, e, pc)
    PROVE  task' \in [Task -> TaskState] /\ CallsMade'
  <1> DEFINE new == [call |-> e, pc |-> pc, woken |-> FALSE]
  <1>1. new \in TaskState /\ new.pc = pc /\ new.call = e
    BY CallTypes DEF TaskState
  <1>2. task' = [task EXCEPT ![t] = new]
    BY DEF Goes
  <1> HIDE DEF new
  <1> QED
    BY <1>1, <1>2, MoveTypes

(* So does a call that goes on from its question to the group. *)
LEMMA ProceedTypes ==
    ASSUME TaskTypes, NEW t \in Task, task[t].pc = "asking", NEW pc \in {"pending", "answered"}, Proceeds(t, pc)
    PROVE  task' \in [Task -> TaskState] /\ CallsMade'
  <1> DEFINE new == [task[t] EXCEPT !.pc = pc]
  <1>0. task[t] \in TaskState /\ task[t].call \in Asking /\ task[t].call \in Calls[t]
    BY DEF TaskTypes, CallsMade
  <1>1. new \in TaskState /\ new.pc = pc /\ new.call = task[t].call
    BY <1>0 DEF TaskState
  <1>2. task' = [task EXCEPT ![t] = new]
    BY DEF Proceeds
  <1> HIDE DEF new
  <1> QED
    BY <1>0, <1>1, <1>2, MoveTypes

(* A waker is stored. *)
LEMMA StoreTypes ==
    ASSUME StateTypes, NEW t \in Task, NEW e \in Calls[t], Store(t, e)
    PROVE  /\ entries' \subseteq Token
           /\ wakers' \in [Call -> Task \cup {NoTask}]
           /\ \A c \in Call : wakers'[c] # NoTask => c.token \in entries' /\ c \in Calls[wakers'[c]]
           /\ e.token \in entries' /\ wakers'[e] = t
           /\ \A c \in Call : c # e => wakers'[c] = wakers[c]
           /\ entries \subseteq entries'
  <1>1. e \in Call /\ e.token \in Token
    BY CallTypes
  <1>2. entries' = entries \cup {e.token} /\ wakers' = [wakers EXCEPT ![e] = t]
    BY DEF Store
  <1>3. /\ wakers' \in [Call -> Task \cup {NoTask}] /\ wakers'[e] = t
        /\ \A c \in Call : c # e => wakers'[c] = wakers[c]
    BY <1>1, <1>2 DEF StateTypes
  <1>4. entries' \subseteq Token /\ e.token \in entries' /\ entries \subseteq entries'
    BY <1>1, <1>2 DEF StateTypes
  <1>5. \A c \in Call : wakers'[c] # NoTask => c.token \in entries' /\ c \in Calls[wakers'[c]]
    BY <1>3, <1>4 DEF StateTypes
  <1> QED
    BY <1>3, <1>4, <1>5

(* The polls of the futures *)
LEMMA PollTypes ==
    ASSUME TypeInv, NEW t \in Task, NEW e \in Calls[t], PollCall(t, e)
    PROVE  TypeInv'
  <1>0. StateTypes /\ TaskTypes /\ GroupTypes /\ RunnerTypes
    BY DEF TypeInv
  <1>1. UNCHANGED <<shutdown, dropped, groupVars, runner, batch, stops>>
    BY DEF PollCall
  <1>2. GroupTypes' /\ RunnerTypes' /\ stops' \in BOOLEAN
    BY <1>0, <1>1 DEF groupVars, GroupTypes, RunnerTypes, Shaped, TypeInv
  <1>3. e.token \in Token
    BY CallTypes
  <1>4. CASE is_established(t, e)
    <2>1. established_conns' \subseteq Token /\ UNCHANGED <<accept, incoming_conns, incoming_streams, taken, handed>>
      BY <1>0, <1>4 DEF is_established, StateTypes
    <2>2. CASE Returns(t) /\ UNCHANGED <<entries, wakers>>
      <3>1. task' \in [Task -> TaskState] /\ CallsMade'
        BY <1>0, <2>2, ReturnTypes
      <3> QED
        BY <1>0, <1>1, <1>2, <2>1, <2>2, <3>1 DEF TypeInv, StateTypes, TaskTypes
    <2>3. CASE Store(t, e) /\ Goes(t, e, "pending")
      <3>1. task' \in [Task -> TaskState] /\ CallsMade'
        BY <1>0, <2>3, GoTypes
      <3>2. /\ entries' \subseteq Token
            /\ wakers' \in [Call -> Task \cup {NoTask}]
            /\ \A c \in Call : wakers'[c] # NoTask => c.token \in entries' /\ c \in Calls[wakers'[c]]
        BY <1>0, <2>3, StoreTypes
      <3> QED
        BY <1>0, <1>1, <1>2, <2>1, <3>1, <3>2 DEF TypeInv, StateTypes, TaskTypes
    <2> QED
      BY <1>4, <2>2, <2>3 DEF is_established
  <1>5. CASE accept_stream(t, e)
    <2>1. UNCHANGED <<accept, incoming_conns, established_conns, taken>>
      BY <1>5 DEF accept_stream
    <2>2. CASE /\ incoming_streams[e.token] # <<>>
               /\ incoming_streams' = [incoming_streams EXCEPT ![e.token] = Tail(incoming_streams[e.token])]
               /\ handed' = [handed EXCEPT ![e.token] = Append(handed[e.token], Head(incoming_streams[e.token]))]
               /\ Returns(t) /\ UNCHANGED <<entries, wakers>>
      <3>1. task' \in [Task -> TaskState] /\ CallsMade'
        BY <1>0, <2>2, ReturnTypes
      <3>2. incoming_streams[e.token] \in Seq(Stream) /\ handed[e.token] \in Seq(Stream)
        BY <1>0, <1>3 DEF StateTypes, TaskTypes
      <3>3. Head(incoming_streams[e.token]) \in Stream /\ Tail(incoming_streams[e.token]) \in Seq(Stream)
        BY <2>2, <3>2, Popped
      <3>4. Append(handed[e.token], Head(incoming_streams[e.token])) \in Seq(Stream)
        BY <3>2, <3>3
      <3>5. incoming_streams' \in [Token -> Seq(Stream)] /\ handed' \in [Token -> Seq(Stream)]
        BY <1>0, <1>3, <2>2, <3>3, <3>4 DEF StateTypes, TaskTypes
      <3> QED
        BY <1>0, <1>1, <1>2, <2>1, <2>2, <3>1, <3>5 DEF TypeInv, StateTypes, TaskTypes
    <2>3. CASE Store(t, e) /\ Goes(t, e, "pending") /\ UNCHANGED <<incoming_streams, handed>>
      <3>1. task' \in [Task -> TaskState] /\ CallsMade'
        BY <1>0, <2>3, GoTypes
      <3>2. /\ entries' \subseteq Token
            /\ wakers' \in [Call -> Task \cup {NoTask}]
            /\ \A c \in Call : wakers'[c] # NoTask => c.token \in entries' /\ c \in Calls[wakers'[c]]
        BY <1>0, <2>3, StoreTypes
      <3> QED
        BY <1>0, <1>1, <1>2, <2>1, <2>3, <3>1, <3>2 DEF TypeInv, StateTypes, TaskTypes
    <2> QED
      BY <1>5, <2>2, <2>3 DEF accept_stream
  <1>6. CASE accept_conn(t, e)
    <2>1. UNCHANGED <<entries, wakers, established_conns, incoming_streams, handed>>
      BY <1>6 DEF accept_conn
    <2>2. CASE /\ incoming_conns # <<>> /\ incoming_conns' = Tail(incoming_conns)
               /\ taken' = taken \cup {Head(incoming_conns)} /\ Returns(t) /\ UNCHANGED accept
      <3>1. task' \in [Task -> TaskState] /\ CallsMade'
        BY <1>0, <2>2, ReturnTypes
      <3>2. Head(incoming_conns) \in Token /\ Tail(incoming_conns) \in Seq(Token)
        BY <1>0, <2>2, Popped DEF StateTypes
      <3> QED
        BY <1>0, <1>1, <1>2, <2>1, <2>2, <3>1, <3>2 DEF TypeInv, StateTypes, TaskTypes
    <2>3. CASE accept' = t /\ Goes(t, e, "pending") /\ UNCHANGED <<incoming_conns, taken>>
      <3>1. task' \in [Task -> TaskState] /\ CallsMade'
        BY <1>0, <2>3, GoTypes
      <3> QED
        BY <1>0, <1>1, <1>2, <2>1, <2>3, <3>1 DEF TypeInv, StateTypes, TaskTypes
    <2> QED
      BY <1>6, <2>2, <2>3 DEF accept_conn
  <1>7. CASE ask(t, e)
    <2>1. UNCHANGED <<accept, incoming_conns, established_conns, incoming_streams, taken, handed>> /\ e \in Asking
      BY <1>7 DEF ask
    <2>2. CASE Returns(t) /\ UNCHANGED <<entries, wakers>>
      <3>1. task' \in [Task -> TaskState] /\ CallsMade'
        BY <1>0, <2>2, ReturnTypes
      <3> QED
        BY <1>0, <1>1, <1>2, <2>1, <2>2, <3>1 DEF TypeInv, StateTypes, TaskTypes
    <2>3. CASE Store(t, e) /\ Goes(t, e, "asking")
      <3>1. task' \in [Task -> TaskState] /\ CallsMade'
        BY <1>0, <2>1, <2>3, GoTypes
      <3>2. /\ entries' \subseteq Token
            /\ wakers' \in [Call -> Task \cup {NoTask}]
            /\ \A c \in Call : wakers'[c] # NoTask => c.token \in entries' /\ c \in Calls[wakers'[c]]
        BY <1>0, <2>3, StoreTypes
      <3> QED
        BY <1>0, <1>1, <1>2, <2>1, <3>1, <3>2 DEF TypeInv, StateTypes, TaskTypes
    <2> QED
      BY <1>7, <2>2, <2>3 DEF ask
  <1> QED
    BY <1>4, <1>5, <1>6, <1>7 DEF PollCall

(* Types are kept where the connection is touched. *)
LEMMA TouchTypes ==
    ASSUME GroupTypes, NEW k \in Token, Touched(k)
    PROVE  GroupTypes'
  <1>1. CASE \E c : Moved(k, c) /\ Unlocks(k, c)
    BY <1>1, UnlockTypes
  <1>2. CASE UNCHANGED groupVars
    BY <1>2 DEF groupVars, GroupTypes, Shaped
  <1> QED
    BY <1>1, <1>2 DEF Touched

(* The call is kept for the next unlock. *)
Owed(c, e) == \E r \in c.owed : r.call = e

(* What a send leaves of the capacity, and what an open or a recv leaves. *)
LEMMA UsedMoves ==
    ASSUME quic \in [Token -> Conn], NEW k \in Token, NEW e \in Asking, NEW len \in Nat, NEW d \in Used(quic[k], e, len)
    PROVE  Moved(k, d) /\ d.state = quic[k].state
  <1> DEFINE q == quic[k]
             s == e.stream_id
  <1>0. q \in Conn
    OBVIOUS
  <1>1. CASE e.kind = "StreamSend"
    <2> DEFINE n == Rest(q.cap[s], len)
    <2>1. s \in Stream
      BY <1>1 DEF Asking, Opening, Streaming, Event
    <2>2. q.cap[s] \in 0 .. MaxCap
      BY <1>0, <2>1 DEF Conn
    <2>3. n \in 0 .. MaxCap
      BY <2>2, BoundAssumption DEF Rest
    <2>4. d = [q EXCEPT !.cap[s] = n]
      BY <1>1 DEF Used
    <2> HIDE DEF n, s
    <2>5. d.state = q.state
      BY <1>0, <2>4 DEF Conn
    <2>6. Moved(k, [q EXCEPT !.cap[s] = n])
      BY <2>1, <2>3, MovedCases
    <2> QED
      BY <2>4, <2>5, <2>6
  <1>2. CASE e.kind # "StreamSend"
    <2>1. d = q \/ d = [q EXCEPT !.open = q.open \ {e.kind}, !.readable = q.readable \ {s}]
      BY <1>2 DEF Used
    <2>2. d.state = q.state
      BY <1>0, <2>1 DEF Conn
    <2> DEFINE rest == [q EXCEPT !.open = q.open \ {e.kind}, !.readable = q.readable \ {s}]
    <2>3. Moved(k, q) /\ Moved(k, rest)
      BY MovedCases
    <2>4. d = q \/ d = rest
      BY <2>1
    <2> HIDE DEF q, rest
    <2>5. Moved(k, d)
      BY <2>3, <2>4
    <2> QED
      BY <2>2, <2>5 DEF q
  <1> QED
    BY <1>1, <1>2

(* A call of the group: it does not find the connection; it is kept for    *)
(* the thread that holds it; or it is made, and unlocks the connection.    *)
LEMMA AskCases ==
    ASSUME TypeInv, NEW t \in Task, Ask(t)
    PROVE  LET e == CallOf(t)
               k == e.token
               q == quic[k]
           IN  /\ e \in Asking /\ e \in Calls[t] /\ k \in Token /\ q \in Conn /\ task[t].pc = "asking"
               /\ UNCHANGED <<stateVars, shutdown, dropped, taken, handed, runner, batch, stops>>
               /\ \/ Returns(t) /\ UNCHANGED groupVars
                  \/ /\ Present(q) /\ q.busy /\ Proceeds(t, "pending") /\ UNCHANGED events
                     /\ \E r \in Refused : r.call = e /\ quic' = [quic EXCEPT ![k] = [q EXCEPT !.owed = q.owed \cup {r}]]
                  \/ /\ Present(q)
                     /\ \E c : /\ Moved(k, c) /\ c.state = q.state /\ Unlocks(k, c)
                               /\ \/ Returns(t) \/ Proceeds(t, "answered")
                                  \/ /\ Proceeds(t, "pending") /\ (e.kind \in Opening => Owed(c, e))
                                     /\ c.state = "closed" \/ ~Answers(c, e)
  <1> DEFINE e == CallOf(t)
             k == e.token
             q == quic[k]
             kept(len) == [call |-> e, len |-> len]
             later(len) == [q EXCEPT !.owed = q.owed \cup {kept(len)}]
  <1>1. task[t].pc = "asking" /\ UNCHANGED <<stateVars, shutdown, dropped, taken, handed, runner, batch, stops>>
    BY DEF Ask
  <1>2. e \in Asking /\ e \in Calls[t]
    BY <1>1 DEF TypeInv, TaskTypes, CallsMade, CallOf
  <1>3. k \in Token
    BY <1>2, CallTypes
  <1>4. q \in Conn /\ quic \in [Token -> Conn]
    BY <1>3 DEF TypeInv, GroupTypes
  <1>5. PICK len \in (IF e.kind = "StreamSend" THEN Length ELSE {0}) :
              \/ /\ ~Present(q)
                 /\ Returns(t)
                 /\ UNCHANGED groupVars
              \/ /\ Present(q) /\ q.busy
                 /\ Proceeds(t, "pending")
                 /\ quic' = [quic EXCEPT ![k] = later(len)]
                 /\ UNCHANGED events
              \/ /\ Present(q) /\ ~q.busy /\ (Answers(q, e) \/ q.state = "closed")
                 /\ Proceeds(t, "answered")
                 /\ \E d \in Used(q, e, len) : Unlocks(k, d)
              \/ /\ Present(q) /\ ~q.busy /\ (~Answers(q, e) \/ q.state = "closed")
                 /\ Proceeds(t, "pending") \/ (e.kind \in Opening /\ Proceeds(t, "answered"))
                 /\ Unlocks(k, IF e.kind \in Opening THEN later(len) ELSE q)
              \/ /\ Present(q) /\ ~q.busy
                 /\ Returns(t)
                 /\ Unlocks(k, q)
    BY DEF Ask
  <1> DEFINE r == kept(len)
             l == later(len)
  <1>6. len \in Length \cup {0} /\ len \in Nat
    BY BoundAssumption
  <1> HIDE DEF e, k, q
  <1>7. r \in Refused /\ r.call = e
    BY <1>2, <1>6 DEF Refused
  <1>8. l = [q EXCEPT !.owed = q.owed \cup {r}]
    OBVIOUS
  <1> HIDE DEF r, l
  <1>9. /\ Moved(k, l) /\ l.state = q.state /\ Owed(l, e)
        /\ Answers(l, e) = Answers(q, e)
    <2>1. Moved(k, l)
      BY <1>3, <1>4, <1>7, <1>8, MovedCases DEF q, k
    <2>2. l.state = q.state /\ l.open = q.open /\ l.readable = q.readable /\ l.cap = q.cap /\ r \in l.owed
      BY <1>4, <1>8 DEF Conn
    <2> QED
      BY <1>7, <2>1, <2>2 DEF Owed, Answers
  <1>10. Moved(k, q)
    BY <1>3, <1>4, MovedCases DEF q
  <1> DEFINE Waiting_(c) == /\ Moved(k, c) /\ c.state = q.state /\ Unlocks(k, c)
                            /\ \/ Returns(t) \/ Proceeds(t, "answered")
                               \/ /\ Proceeds(t, "pending") /\ (e.kind \in Opening => Owed(c, e))
                                  /\ c.state = "closed" \/ ~Answers(c, e)
  <1>11. \/ Returns(t) /\ UNCHANGED groupVars
         \/ Present(q) /\ q.busy /\ Proceeds(t, "pending") /\ UNCHANGED events /\ quic' = [quic EXCEPT ![k] = l]
         \/ Present(q) /\ \E c : Waiting_(c)
    <2>1. CASE Returns(t) /\ UNCHANGED groupVars
      BY <2>1
    <2>2. CASE Present(q) /\ q.busy /\ Proceeds(t, "pending") /\ UNCHANGED events /\ quic' = [quic EXCEPT ![k] = l]
      BY <2>2
    <2>3. CASE Present(q) /\ Proceeds(t, "answered") /\ \E d \in Used(q, e, len) : Unlocks(k, d)
      <3>1. PICK d \in Used(q, e, len) : Unlocks(k, d)
        BY <2>3
      <3>2. Moved(k, d) /\ d.state = q.state
        BY <1>2, <1>3, <1>4, <1>6, UsedMoves DEF q
      <3>3. Waiting_(d)
        BY <2>3, <3>1, <3>2
      <3> QED
        BY <2>3, <3>3
    <2>4. CASE /\ Present(q) /\ (~Answers(q, e) \/ q.state = "closed")
               /\ Proceeds(t, "pending") \/ Proceeds(t, "answered")
               /\ Unlocks(k, IF e.kind \in Opening THEN l ELSE q)
      <3>1. CASE e.kind \in Opening
        <4>1. Waiting_(l)
          BY <1>9, <2>4, <3>1
        <4> QED
          BY <2>4, <4>1
      <3>2. CASE e.kind \notin Opening
        <4>1. Waiting_(q)
          BY <1>10, <2>4, <3>2
        <4> QED
          BY <2>4, <4>1
      <3> QED
        BY <3>1, <3>2
    <2>5. CASE Present(q) /\ Returns(t) /\ Unlocks(k, q)
      <3>1. Waiting_(q)
        BY <1>10, <2>5
      <3> QED
        BY <2>5, <3>1
    <2> QED
      BY <1>5, <2>1, <2>2, <2>3, <2>4, <2>5 DEF l
  <1>12. \/ Returns(t) /\ UNCHANGED groupVars
         \/ /\ Present(q) /\ q.busy /\ Proceeds(t, "pending") /\ UNCHANGED events
            /\ \E o \in Refused : o.call = e /\ quic' = [quic EXCEPT ![k] = [q EXCEPT !.owed = q.owed \cup {o}]]
         \/ Present(q) /\ \E c : Waiting_(c)
    BY <1>7, <1>8, <1>11
  <1> QED
    BY <1>1, <1>2, <1>3, <1>4, <1>12 DEF e, k, q

(* The question to the group keeps every type. *)
LEMMA AskTypes ==
    ASSUME TypeInv, NEW t \in Task, Ask(t)
    PROVE  TypeInv'
  <1> DEFINE e == CallOf(t)
             k == e.token
             q == quic[k]
  <1>1. /\ e \in Asking /\ k \in Token /\ q \in Conn /\ task[t].pc = "asking"
        /\ UNCHANGED <<stateVars, shutdown, dropped, taken, handed, runner, batch, stops>>
    BY AskCases
  <1>2. StateTypes' /\ RunnerTypes' /\ stops' \in BOOLEAN
    BY <1>1 DEF TypeInv, StateTypes, RunnerTypes, Shaped, stateVars
  <1>3. Returns(t) \/ Proceeds(t, "pending") \/ Proceeds(t, "answered")
    BY AskCases
  <1>4. task' \in [Task -> TaskState] /\ CallsMade'
    BY <1>1, <1>3, ReturnTypes, ProceedTypes DEF TypeInv
  <1>5. TaskTypes'
    BY <1>1, <1>4 DEF TypeInv, TaskTypes
  <1>6. \/ UNCHANGED groupVars
        \/ (\E r \in Refused : quic' = [quic EXCEPT ![k] = [q EXCEPT !.owed = q.owed \cup {r}]]) /\ UNCHANGED events
        \/ \E c : Moved(k, c) /\ Unlocks(k, c)
    BY AskCases
  <1>8. GroupTypes'
    <2>1. CASE UNCHANGED groupVars
      BY <2>1 DEF TypeInv, GroupTypes, groupVars, Shaped
    <2>2. CASE (\E r \in Refused : quic' = [quic EXCEPT ![k] = [q EXCEPT !.owed = q.owed \cup {r}]]) /\ UNCHANGED events
      <3>0. PICK r \in Refused : quic' = [quic EXCEPT ![k] = [q EXCEPT !.owed = q.owed \cup {r}]]
        BY <2>2
      <3>1. [q EXCEPT !.owed = q.owed \cup {r}] \in Conn
        BY <1>1 DEF Conn
      <3>2. quic' \in [Token -> Conn]
        BY <1>1, <3>0, <3>1 DEF TypeInv, GroupTypes
      <3> QED
        BY <2>2, <3>2 DEF TypeInv, GroupTypes, Shaped
    <2>3. CASE \E c : Moved(k, c) /\ Unlocks(k, c)
      BY <1>1, <2>3, UnlockTypes DEF TypeInv
    <2> QED
      BY <1>6, <2>1, <2>2, <2>3
  <1> QED
    BY <1>2, <1>5, <1>8 DEF TypeInv

(* The waker of a call that was answered is removed. *)
LEMMA AnsweredTypes ==
    ASSUME TypeInv, NEW t \in Task, Answered(t)
    PROVE  TypeInv'
  <1> DEFINE e == CallOf(t)
  <1>1. /\ task[t].pc = "answered"
        /\ UNCHANGED <<accept, entries, incoming_conns, established_conns, incoming_streams,
                       shutdown, dropped, taken, handed, groupVars, runner, batch, stops>>
    BY DEF Answered
  <1>2. e \in Calls[t]
    BY <1>1 DEF TypeInv, TaskTypes, CallsMade, CallOf
  <1>3. GroupTypes' /\ RunnerTypes' /\ stops' \in BOOLEAN
    BY <1>1 DEF TypeInv, groupVars, GroupTypes, RunnerTypes, Shaped
  <1>4. CASE wakers' = Cleared({e}) /\ Returns(t)
    <2>1. task' \in [Task -> TaskState] /\ CallsMade'
      BY <1>4, ReturnTypes DEF TypeInv
    <2>3. /\ entries' \subseteq Token
          /\ wakers' \in [Call -> Task \cup {NoTask}]
          /\ \A c \in Call : wakers'[c] # NoTask => c.token \in entries' /\ c \in Calls[wakers'[c]]
      BY <1>1, <1>4, ClearedTypes DEF TypeInv
    <2> QED
      BY <1>1, <1>3, <2>1, <2>3 DEF TypeInv, StateTypes, TaskTypes
  <1>5. CASE Goes(t, e, "panic") /\ UNCHANGED wakers
    <2>1. task' \in [Task -> TaskState] /\ CallsMade'
      BY <1>2, <1>5, GoTypes DEF TypeInv
    <2> QED
      BY <1>1, <1>3, <1>5, <2>1 DEF TypeInv, StateTypes, TaskTypes
  <1> QED
    BY <1>4, <1>5 DEF Answered

(* QuicStream::shutdown *)
LEMMA ShutdownTypes ==
    ASSUME TypeInv, NEW k \in Token, NEW s \in Stream, Shutdown(k, s)
    PROVE  TypeInv'
  <1> DEFINE calls == {event("StreamSend", k, s), event("StreamRecv", k, s)}
  <1>1. /\ shutdown' = shutdown \cup {<<k, s>>} /\ wakers' = Cleared(calls) /\ task' = Woken(Holding(calls))
        /\ UNCHANGED <<accept, entries, incoming_conns, established_conns, incoming_streams,
                       dropped, taken, handed, runner, batch, stops>>
    BY DEF Shutdown, wake
  <1> HIDE DEF calls
  <1>2. task' \in [Task -> TaskState] /\ CallsMade'
    BY <1>1, WokenTypes DEF TypeInv
  <1>4. /\ entries' \subseteq Token
        /\ wakers' \in [Call -> Task \cup {NoTask}]
        /\ \A c \in Call : wakers'[c] # NoTask => c.token \in entries' /\ c \in Calls[wakers'[c]]
    BY <1>1, ClearedTypes DEF TypeInv
  <1>5. GroupTypes'
    BY TouchUnlocks, TouchTypes DEF TypeInv
  <1>6. shutdown' \subseteq Token \X Stream
    BY <1>1 DEF TypeInv, TaskTypes
  <1> QED
    BY <1>1, <1>2, <1>4, <1>5, <1>6 DEF TypeInv, StateTypes, TaskTypes, RunnerTypes, Shaped

(* stop *)
LEMMA StopTypes ==
    ASSUME TypeInv, StopAll
    PROVE  StateTypes' /\ task' \in [Task -> TaskState] /\ CallsMade' /\ stops' \in BOOLEAN
  <1>1. /\ accept' = NoTask /\ entries' = entries \ entries /\ wakers' = Cleared(Call)
        /\ task' = Woken(Holding(Call) \cup {accept}) /\ stops' = TRUE
        /\ UNCHANGED <<incoming_conns, established_conns, incoming_streams>>
    BY DEF StopAll
  <1>2. task' \in [Task -> TaskState] /\ CallsMade'
    BY <1>1, WokenTypes DEF TypeInv
  <1>3. \A c \in Call : c.token \in entries => c \in Call
    OBVIOUS
  <1>4. /\ entries' \subseteq Token
        /\ wakers' \in [Call -> Task \cup {NoTask}]
        /\ \A c \in Call : wakers'[c] # NoTask => c.token \in entries' /\ c \in Calls[wakers'[c]]
    BY <1>1, <1>3, ClearingTypes DEF TypeInv
  <1>5. stops' \in BOOLEAN
    BY <1>1
  <1> QED
    BY <1>1, <1>2, <1>4, <1>5 DEF TypeInv, StateTypes

(* The end of the run loop, and the drop of a connection, keep every type. *)
LEMMA StoppingTypes ==
    ASSUME TypeInv, Stop \/ \E k \in Token : DropConn(k)
    PROVE  TypeInv'
  <1>1. CASE Stop
    <2>1. StopAll /\ UNCHANGED <<shutdown, dropped, taken, handed, groupVars, runner, batch>>
      BY <1>1 DEF Stop
    <2>2. StateTypes' /\ task' \in [Task -> TaskState] /\ CallsMade' /\ stops' \in BOOLEAN
      BY <2>1, StopTypes
    <2> QED
      BY <2>1, <2>2 DEF TypeInv, TaskTypes, GroupTypes, RunnerTypes, groupVars, Shaped
  <1>2. ASSUME NEW k \in Token, DropConn(k)
        PROVE  TypeInv'
    <2>1. /\ dropped' = dropped \cup {k}
          /\ UNCHANGED <<stateVars, task, stops>> \/ StopAll
          /\ UNCHANGED <<shutdown, taken, handed, runner, batch>>
      BY <1>2 DEF DropConn
    <2>2. StateTypes' /\ task' \in [Task -> TaskState] /\ CallsMade' /\ stops' \in BOOLEAN
      <3>1. CASE UNCHANGED <<stateVars, task, stops>>
        BY <3>1 DEF TypeInv, StateTypes, TaskTypes, CallsMade, stateVars
      <3>2. CASE StopAll
        BY <3>2, StopTypes
      <3> QED
        BY <2>1, <3>1, <3>2
    <2>3. GroupTypes'
      BY <1>2, TouchUnlocks, TouchTypes DEF TypeInv
    <2>4. dropped' \subseteq Token
      BY <2>1 DEF TypeInv, TaskTypes
    <2> QED
      BY <2>1, <2>2, <2>3, <2>4 DEF TypeInv, TaskTypes, RunnerTypes, Shaped
  <1> QED
    BY <1>1, <1>2

(* The background thread *)
LEMMA RunnerStepTypes ==
    ASSUME TypeInv, RunPoll \/ Dispatch
    PROVE  TypeInv'
  <1>1. CASE RunPoll
    <2>1. /\ runner' = "polled" /\ batch' = events /\ events' = {}
          /\ UNCHANGED <<stateVars, taskVars, quic, stops>>
      BY <1>1 DEF RunPoll
    <2> QED
      BY <2>1 DEF TypeInv, StateTypes, TaskTypes, CallsMade, GroupTypes, RunnerTypes, Shaped, stateVars, taskVars
  <1>2. CASE Dispatch
    <2>1. /\ batch' = {} /\ on_connected /\ on_accept /\ on_stream_accept
          /\ entries' = entries \ Closing /\ wakers' = Cleared(Reached)
          /\ runner' \in {"ended", "poll"}
          /\ UNCHANGED <<shutdown, dropped, taken, handed, groupVars, stops>>
      BY <1>2 DEF Dispatch, Kept
    <2>2. PICK ts : task' = Woken(ts)
      BY <1>2 DEF Dispatch
    <2>3. task' \in [Task -> TaskState] /\ CallsMade'
      BY <2>2, WokenTypes DEF TypeInv
    <2>4. \A c \in Call : c.token \in Closing => c \in Reached
      BY DEF Reached, Of
    <2>5. /\ entries' \subseteq Token
          /\ wakers' \in [Call -> Task \cup {NoTask}]
          /\ \A c \in Call : wakers'[c] # NoTask => c.token \in entries' /\ c \in Calls[wakers'[c]]
      BY <2>1, <2>4, ClearingTypes DEF TypeInv
    <2>6. incoming_conns' \in Seq(Token)
      <3>1. PICK q \in Seq(Token) : incoming_conns' = incoming_conns \o q
        BY <2>1, AcceptQueue DEF TypeInv
      <3> QED
        BY <3>1, ConcatProperties DEF TypeInv, StateTypes
    <2>7. incoming_streams' \in [Token -> Seq(Stream)]
      BY <2>1, StreamQueues DEF TypeInv, StateTypes
    <2>8. established_conns' \subseteq Token
      BY <2>1 DEF on_connected, TypeInv, StateTypes, RunnerTypes, Shaped, Sent, Event
    <2>9. accept' \in Task \cup {NoTask}
      BY <2>1 DEF on_accept, TypeInv, StateTypes
    <2>10. StateTypes'
      BY <2>5, <2>6, <2>7, <2>8, <2>9 DEF StateTypes
    <2>11. TaskTypes' /\ GroupTypes' /\ stops' \in BOOLEAN
      BY <2>1, <2>3 DEF TypeInv, TaskTypes, GroupTypes, groupVars, Shaped
    <2>12. RunnerTypes'
      BY <2>1 DEF RunnerTypes, Shaped
    <2> QED
      BY <2>10, <2>11, <2>12 DEF TypeInv
  <1> QED
    BY <1>1, <1>2

(* A task that starts or resumes polls one of its calls. *)
LEMMA PolledCall ==
    ASSUME TypeInv, NEW t \in Task, (\E e \in Call : Start(t, e)) \/ Resume(t)
    PROVE  \E e \in Calls[t] : PollCall(t, e) /\ task[t].pc \in {"idle", "pending"}
  <1>1. CASE Resume(t)
    BY <1>1 DEF Resume, CallOf, TypeInv, TaskTypes, CallsMade
  <1>2. CASE \E e \in Call : Start(t, e)
    BY <1>2 DEF Start
  <1> QED
    BY <1>1, <1>2

(* Every step keeps types. *)
LEMMA TypeStep ==
    ASSUME TypeInv, [Next]_vars
    PROVE  TypeInv'
  <1>1. ASSUME NEW t \in Task, (\E e \in Call : Start(t, e)) \/ Resume(t) \/ Ask(t) \/ Answered(t)
        PROVE  TypeInv'
    BY <1>1, PolledCall, PollTypes, AskTypes, AnsweredTypes
  <1>2. ASSUME NEW k \in Token, Register(k) \/ Lock(k) \/ Serve(k) \/ Remove(k)
        PROVE  TypeInv'
    <2>1. GroupTypes' /\ UNCHANGED <<stateVars, taskVars, runner, batch, stops>>
      BY <1>2, GroupStepTypes
    <2> QED
      BY <2>1 DEF TypeInv, StateTypes, TaskTypes, CallsMade, RunnerTypes, Shaped, stateVars, taskVars
  <1>3. ASSUME NEW k \in Token, NEW s \in Stream, Shutdown(k, s)
        PROVE  TypeInv'
    BY <1>3, ShutdownTypes
  <1>4. CASE Stop \/ (\E k \in Token : DropConn(k)) \/ RunPoll \/ Dispatch
    BY <1>4, StoppingTypes, RunnerStepTypes
  <1>5. CASE UNCHANGED vars
    BY <1>5 DEF TypeInv, StateTypes, TaskTypes, CallsMade, GroupTypes, RunnerTypes, Shaped,
                vars, stateVars, taskVars, groupVars
  <1> QED
    BY <1>1, <1>2, <1>3, <1>4, <1>5 DEF Next

(* Types at the start. *)
LEMMA TypeStart == ASSUME Init PROVE TypeInv
  <1>1. incoming_conns = <<>> /\ incoming_streams = [k \in Token |-> <<>>] /\ handed = [k \in Token |-> <<>>]
    BY DEF Init
  <1>2. StateTypes
    <2>1. incoming_conns \in Seq(Token) /\ incoming_streams \in [Token -> Seq(Stream)]
      BY <1>1
    <2> QED
      BY <2>1 DEF Init, StateTypes
  <1>3. TaskTypes
    <2>1. handed \in [Token -> Seq(Stream)]
      BY <1>1
    <2>2. Idle \in TaskState /\ Idle.pc = "idle" /\ Idle.call = NoCall
      BY DEF Idle, TaskState
    <2>3. task \in [Task -> TaskState] /\ CallsMade
      BY <2>2 DEF Init, CallsMade
    <2> QED
      BY <2>1, <2>3 DEF Init, TaskTypes
  <1>4. quic \in [Token -> Conn]
    BY NewConnType DEF Init
  <1>5. GroupTypes /\ RunnerTypes
    BY <1>4 DEF Init, GroupTypes, RunnerTypes, Shaped
  <1>6. stops \in BOOLEAN
    BY DEF Init
  <1> QED
    BY <1>2, <1>3, <1>5, <1>6 DEF TypeInv

(* Types are kept: in particular a waker is stored in an entry of its      *)
(* connection, under an event that its task waits for (State.wakers).      *)
THEOREM TypeCorrect == Spec => []TypeOK
  BY TypeStart, TypeStep, TypeInvGivesTypeOK, PTL DEF Spec

-----------------------------------------------------------------------------
(* The invariant about what is handed out: each thing the group announces  *)
(* is at one place, among the events, in the batch, in a queue or with the *)
(* caller.                                                                 *)

(* An inbound connection, ... *)
ConnOnce(k) ==
    LET a == event("Accept", k, 0)
        c == quic[k]
        given == k \in Range_(incoming_conns) \/ k \in taken
    IN  /\ c.state \in {"none", "new"} => a \notin Coming /\ ~given
        /\ ~(a \in events /\ a \in batch)
        /\ a \in Coming => ~given
        /\ c.is_server /\ c.state = "open" => a \in Coming \/ given

(* ... a stream of the peer, whose queue Closed discards *)
StreamOnce(k, s) ==
    LET a == event("StreamAccept", k, s)
        c == quic[k]
        given == s \in Range_(handed[k] \o incoming_streams[k])
    IN  /\ s \in c.announced => c.state \notin {"none", "new"}
        /\ s \notin c.announced => a \notin Coming /\ ~given
        /\ ~(a \in events /\ a \in batch)
        /\ a \in Coming => ~given
        /\ s \in c.announced /\ c.state = "open" => a \in Coming \/ given

EndSeen(k) == event("Closed", k, 0) \in Coming => quic[k].state \in {"closed", "gone"}

ConnsOnce == Distinct(incoming_conns) /\ Range_(incoming_conns) \cap taken = {}

StreamsOnce == \A k \in Token : Distinct(handed[k] \o incoming_streams[k])

HandInv ==
    /\ ConnsOnce /\ StreamsOnce
    /\ \A k \in Token : ConnOnce(k) /\ EndSeen(k) /\ \A s \in Stream : StreamOnce(k, s)

(* The invariant of queues gives the property about what is handed out. *)
LEMMA HandGives == ASSUME TypeInv, HandInv PROVE HandedOutOnce
  <1>1. \A k \in Token : quic[k].announced \subseteq Stream
    BY DEF TypeInv, GroupTypes, Conn
  <1> QED
    BY <1>1 DEF HandInv, ConnsOnce, StreamsOnce, ConnOnce, StreamOnce, HandedOutOnce

(* Nothing is queued at the start. *)
LEMMA HandStart == ASSUME Init PROVE HandInv
  <1>1. /\ incoming_conns = <<>> /\ taken = {} /\ Coming = {} /\ events = {}
        /\ \A k \in Token : quic[k].state = "none" /\ quic[k].announced = {} /\ handed[k] = <<>> /\ incoming_streams[k] = <<>>
    BY NewConnType DEF Init, Coming
  <1>2. <<>> \o <<>> = <<>> /\ Distinct(<<>>) /\ Range_(<<>>) = {}
    BY DEF Distinct, Range_
  <1> QED
    BY <1>1, <1>2 DEF HandInv, ConnsOnce, StreamsOnce, ConnOnce, StreamOnce, EndSeen

(* What the invariant is about. *)
handVars == <<quic, events, batch, incoming_conns, incoming_streams, taken, handed>>

(* The invariant of queues is about the variables of handVars. *)
LEMMA HandStays == ASSUME HandInv, UNCHANGED handVars PROVE HandInv'
  BY DEF handVars, HandInv, ConnsOnce, StreamsOnce, ConnOnce, StreamOnce, EndSeen, Coming

(* What is new was not announced. *)
LEMMA NewsIsNew ==
    ASSUME NEW k \in Token, NEW c, Moved(k, c)
    PROVE  News(k, c) \subseteq Stream /\ News(k, c) \cap quic[k].announced = {}
  <1>1. c.announced = quic[k].announced /\ News(k, c) \subseteq Stream
    BY DEF Moved, News, Fresh, Conn
  <1>2. ASSUME NEW s \in News(k, c), s \in c.announced PROVE FALSE
    <2>1. s \in Nat
      BY <1>1, StreamAssumption
    <2>2. s < s
      BY <1>2 DEF News, Unseen
    <2> QED
      BY <2>1, <2>2
  <1> QED
    BY <1>1, <1>2

(* The events of each kind after an unlock *)
LEMMA UnlockAnnounced ==
    ASSUME TypeInv, NEW k \in Token, NEW c, Moved(k, c), Unlocks(k, c),
           NEW x \in Event, x.kind \in {"Accept", "StreamAccept", "Closed"}
    PROVE  x \in events' <=> \/ x \in events
                             \/ x \in {event("StreamAccept", k, s) : s \in News(k, c)}
                             \/ x = Greeting(k, c) /\ Greets(k, c)
                             \/ x = event("Closed", k, 0) /\ c.state = "closed"
  <1>1. x \notin Asking
    BY CallTypes DEF Opening, Streaming
  <1>2. /\ events \subseteq events'
        /\ \A s \in News(k, c) : event("StreamAccept", k, s) \in events'
        /\ Greets(k, c) => Greeting(k, c) \in events'
        /\ c.state = "closed" => event("Closed", k, 0) \in events'
        /\ \A e \in events' : \/ e \in events \/ e \in Asking
                              \/ e \in {event("StreamAccept", k, s) : s \in News(k, c)}
                              \/ e = Greeting(k, c) /\ Greets(k, c)
                              \/ e = event("Closed", k, 0) /\ c.state = "closed"
    BY UnlockEffect DEF TypeInv, GroupTypes
  <1> QED
    BY <1>1, <1>2

(* An unlock announces a connection, or a stream, that was not announced before. *)
LEMMA HandUnlocks ==
    ASSUME TypeInv, HandInv, NEW k \in Token, NEW c, Moved(k, c), Unlocks(k, c),
           UNCHANGED <<batch, incoming_conns, incoming_streams, taken, handed>>
    PROVE  HandInv'
  <1> DEFINE q == quic[k]
             news == News(k, c)
  <1>0. /\ quic'[k].state = c.state /\ quic'[k].is_server = c.is_server /\ quic'[k].announced = q.announced \cup news
        /\ \A j \in Token : j # k => quic'[j] = quic[j]
    BY UnlockEffect DEF TypeInv, GroupTypes
  <1>1. /\ news \subseteq Stream /\ news \cap q.announced = {}
        /\ c.is_server = q.is_server
        /\ c.state = q.state \/ c.state = "closed" \/ (q.state = "new" /\ c.state = "open")
        /\ news # {} => q.state = "open" /\ c.state = "open"
    BY NewsIsNew DEF Moved, News
  <1>2. Coming = events \cup batch /\ Coming' = events' \cup batch
    BY DEF Coming
  <1>3. ASSUME NEW j \in Token
        PROVE  /\ event("Accept", j, 0) \in events' <=>
                     event("Accept", j, 0) \in events \/ (j = k /\ q.state = "new" /\ c.state = "open" /\ c.is_server)
               /\ event("Closed", j, 0) \in events' => event("Closed", j, 0) \in events \/ (j = k /\ c.state = "closed")
    <2> DEFINE a == event("Accept", j, 0)
               b == event("Closed", j, 0)
               es == {event("StreamAccept", k, s) : s \in News(k, c)}
    <2>1. a \in Event /\ a.kind = "Accept" /\ b \in Event /\ b.kind = "Closed"
      BY DEF event, Event
    <2>2. a \notin es /\ b \notin es /\ a # event("Closed", k, 0) /\ (b = event("Closed", k, 0) => j = k)
      BY DEF event
    <2>3. (a = Greeting(k, c) <=> j = k /\ c.is_server) /\ b # Greeting(k, c)
      BY DEF Greeting, event
    <2>4. /\ a \in events' <=> \/ a \in events \/ a \in es
                               \/ a = Greeting(k, c) /\ Greets(k, c)
                               \/ a = event("Closed", k, 0) /\ c.state = "closed"
          /\ b \in events' <=> \/ b \in events \/ b \in es
                               \/ b = Greeting(k, c) /\ Greets(k, c)
                               \/ b = event("Closed", k, 0) /\ c.state = "closed"
      BY <2>1, UnlockAnnounced
    <2> HIDE DEF a, b, es
    <2>5. /\ a \in events' <=> a \in events \/ (j = k /\ q.state = "new" /\ c.state = "open" /\ c.is_server)
          /\ b \in events' => b \in events \/ (j = k /\ c.state = "closed")
      BY <2>2, <2>3, <2>4 DEF Greets
    <2> QED
      BY <2>5 DEF a, b
  <1>4. ASSUME NEW j \in Token, NEW s \in Stream
        PROVE  event("StreamAccept", j, s) \in events' <=> event("StreamAccept", j, s) \in events \/ (j = k /\ s \in news)
    <2> DEFINE a == event("StreamAccept", j, s)
               es == {event("StreamAccept", k, i) : i \in News(k, c)}
    <2>1. a \in Event /\ a.kind = "StreamAccept"
      BY EventTypes DEF event
    <2>2. (a \in es <=> j = k /\ s \in news) /\ a # event("Closed", k, 0)
      BY DEF event
    <2>3. a # Greeting(k, c)
      BY DEF Greeting, event
    <2>4. a \in events' <=> \/ a \in events \/ a \in es
                            \/ a = Greeting(k, c) /\ Greets(k, c)
                            \/ a = event("Closed", k, 0) /\ c.state = "closed"
      BY <2>1, UnlockAnnounced
    <2> HIDE DEF a, es
    <2>5. a \in events' <=> a \in events \/ (j = k /\ s \in news)
      BY <2>2, <2>3, <2>4
    <2> QED
      BY <2>5 DEF a
  <1> HIDE DEF news
  <1>5. ASSUME NEW j \in Token
        PROVE  ConnOnce(j)'
    <2> DEFINE a == event("Accept", j, 0)
               given == j \in Range_(incoming_conns) \/ j \in taken
    <2>1. a \in events' <=> a \in events \/ (j = k /\ q.state = "new" /\ c.state = "open" /\ c.is_server)
      BY <1>3
    <2>2. ConnOnce(j)
      BY DEF HandInv
    <2>3. CASE j # k
      BY <1>0, <1>2, <2>1, <2>2, <2>3 DEF ConnOnce
    <2>4. CASE j = k
      <3>1. /\ q.state \in {"none", "new"} => a \notin Coming /\ ~given
            /\ ~(a \in events /\ a \in batch)
            /\ a \in Coming => ~given
            /\ q.is_server /\ q.state = "open" => a \in Coming \/ given
        BY <2>2, <2>4 DEF ConnOnce
      <3> HIDE DEF given, a, q
      <3>2. /\ c.state \in {"none", "new"} => a \notin Coming' /\ ~given
            /\ ~(a \in events' /\ a \in batch)
            /\ a \in Coming' => ~given
            /\ c.is_server /\ c.state = "open" => a \in Coming' \/ given
        BY <1>1, <1>2, <2>1, <2>4, <3>1
      <3> QED
        BY <1>0, <2>4, <3>2 DEF ConnOnce, a, given
    <2> QED
      BY <2>3, <2>4
  <1>6. ASSUME NEW j \in Token
        PROVE  EndSeen(j)'
    <2>1. EndSeen(j)
      BY DEF HandInv
    <2> QED
      BY <1>0, <1>1, <1>2, <1>3, <2>1 DEF EndSeen
  <1>7. ASSUME NEW j \in Token, NEW s \in Stream
        PROVE  StreamOnce(j, s)'
    <2> DEFINE a == event("StreamAccept", j, s)
               given == s \in Range_(handed[j] \o incoming_streams[j])
    <2>1. a \in events' <=> a \in events \/ (j = k /\ s \in news)
      BY <1>4
    <2>2. StreamOnce(j, s)
      BY DEF HandInv
    <2>3. CASE j # k
      BY <1>0, <1>2, <2>1, <2>2, <2>3 DEF StreamOnce
    <2>4. CASE j = k
      <3>1. /\ s \in q.announced => q.state \notin {"none", "new"}
            /\ s \notin q.announced => a \notin Coming /\ ~given
            /\ ~(a \in events /\ a \in batch)
            /\ a \in Coming => ~given
            /\ s \in q.announced /\ q.state = "open" => a \in Coming \/ given
        BY <2>2, <2>4 DEF StreamOnce
      <3> DEFINE ann == q.announced \cup news
      <3>2. s \in ann <=> s \in q.announced \/ s \in news
        OBVIOUS
      <3> HIDE DEF given, a, q, ann
      <3>3. /\ s \in ann => c.state \notin {"none", "new"}
            /\ s \notin ann => a \notin Coming' /\ ~given
            /\ ~(a \in events' /\ a \in batch)
            /\ a \in Coming' => ~given
            /\ s \in ann /\ c.state = "open" => a \in Coming' \/ given
        BY <1>1, <1>2, <2>1, <2>4, <3>1, <3>2
      <3> QED
        BY <1>0, <2>4, <3>3 DEF StreamOnce, a, given, ann, q
    <2> QED
      BY <2>3, <2>4
  <1> QED
    BY <1>5, <1>6, <1>7 DEF HandInv, ConnsOnce, StreamsOnce

(* A connection changes, and announces nothing. *)
LEMMA HandConn ==
    ASSUME TypeInv, HandInv, NEW k \in Token, UNCHANGED <<events, batch, incoming_conns, incoming_streams, taken, handed>>,
           \A j \in Token : j # k => quic'[j] = quic[j],
           quic'[k].announced = quic[k].announced,
           \/ quic'[k].state = quic[k].state /\ quic'[k].is_server = quic[k].is_server
           \/ quic[k].state = "none" /\ quic'[k].state = "new"
           \/ quic'[k].state = "gone"
    PROVE  HandInv'
  <1>1. Coming' = Coming
    BY DEF Coming
  <1>2. ASSUME NEW j \in Token PROVE ConnOnce(j)' /\ EndSeen(j)'
    <2>1. ConnOnce(j) /\ EndSeen(j)
      BY DEF HandInv
    <2>2. CASE j # k
      BY <1>1, <2>1, <2>2 DEF ConnOnce, EndSeen
    <2>3. CASE j = k
      BY <1>1, <2>1, <2>3 DEF ConnOnce, EndSeen
    <2> QED
      BY <2>2, <2>3
  <1>3. ASSUME NEW j \in Token, NEW s \in Stream PROVE StreamOnce(j, s)'
    <2>1. StreamOnce(j, s)
      BY DEF HandInv
    <2>2. CASE j # k
      BY <1>1, <2>1, <2>2 DEF StreamOnce
    <2>3. CASE j = k
      BY <1>1, <2>1, <2>3 DEF StreamOnce
    <2> QED
      BY <2>2, <2>3
  <1> QED
    BY <1>2, <1>3 DEF HandInv, ConnsOnce, StreamsOnce

(* An unlock without news announces nothing. *)
LEMMA HandTouch ==
    ASSUME TypeInv, HandInv, NEW k \in Token, Touched(k),
           UNCHANGED <<batch, incoming_conns, incoming_streams, taken, handed>>
    PROVE  HandInv'
  <1>1. CASE \E c : Moved(k, c) /\ Unlocks(k, c)
    BY <1>1, HandUnlocks
  <1>2. CASE UNCHANGED groupVars
    BY <1>2, HandStays DEF groupVars, handVars
  <1> QED
    BY <1>1, <1>2 DEF Touched

(* The steps of the group *)
LEMMA HandGroup ==
    ASSUME TypeInv, HandInv, NEW k \in Token, Register(k) \/ Lock(k) \/ Serve(k) \/ Remove(k)
    PROVE  HandInv'
  <1>0. /\ quic \in [Token -> Conn] /\ quic[k] \in Conn
        /\ UNCHANGED <<batch, incoming_conns, incoming_streams, taken, handed>>
    BY GroupStepTypes DEF TypeInv, GroupTypes, stateVars, taskVars
  <1>1. CASE Register(k)
    <2>1. PICK s \in BOOLEAN : quic' = [quic EXCEPT ![k].state = "new", ![k].is_server = s]
      BY <1>1 DEF Register
    <2>2. /\ \A j \in Token : j # k => quic'[j] = quic[j]
          /\ quic'[k].announced = quic[k].announced /\ quic'[k].state = "new"
      BY <1>0, <2>1 DEF Conn
    <2>3. quic[k].state = "none" /\ UNCHANGED events
      BY <1>1 DEF Register
    <2> QED
      BY <1>0, <2>2, <2>3, HandConn
  <1>2. CASE Lock(k)
    <2>1. quic' = [quic EXCEPT ![k].busy = TRUE] /\ UNCHANGED events
      BY <1>2 DEF Lock
    <2>2. /\ \A j \in Token : j # k => quic'[j] = quic[j]
          /\ quic'[k].announced = quic[k].announced /\ quic'[k].state = quic[k].state
          /\ quic'[k].is_server = quic[k].is_server
      BY <1>0, <2>1 DEF Conn
    <2> QED
      BY <1>0, <2>1, <2>2, HandConn
  <1>3. CASE Remove(k)
    <2>1. UNCHANGED events
      BY <1>3 DEF Remove
    <2>2. /\ \A j \in Token : j # k => quic'[j] = quic[j]
          /\ quic'[k].announced = quic[k].announced /\ quic'[k].state = "gone"
      BY <1>0, <1>3, RemoveEffect
    <2> QED
      BY <1>0, <2>1, <2>2, HandConn
  <1>4. CASE Serve(k)
    <2>1. PICK c : Moved(k, c) /\ Unlocks(k, c)
      BY <1>4, ServeUnlocks DEF TypeInv
    <2> QED
      BY <1>0, <2>1, HandUnlocks
  <1> QED
    BY <1>1, <1>2, <1>3, <1>4

(* A question to the group announces nothing twice. *)
LEMMA HandAsk ==
    ASSUME TypeInv, HandInv, NEW t \in Task, Ask(t)
    PROVE  HandInv'
  <1> DEFINE e == CallOf(t)
             k == e.token
             q == quic[k]
  <1>1. /\ k \in Token /\ q \in Conn /\ quic \in [Token -> Conn]
        /\ UNCHANGED <<batch, incoming_conns, incoming_streams, taken, handed>>
    BY AskCases DEF TypeInv, GroupTypes, stateVars
  <1>2. \/ UNCHANGED groupVars
        \/ (\E r \in Refused : quic' = [quic EXCEPT ![k] = [q EXCEPT !.owed = q.owed \cup {r}]]) /\ UNCHANGED events
        \/ \E c : Moved(k, c) /\ Unlocks(k, c)
    BY AskCases
  <1>3. CASE UNCHANGED groupVars
    BY <1>1, <1>3, HandStays DEF groupVars, handVars
  <1>4. CASE (\E r \in Refused : quic' = [quic EXCEPT ![k] = [q EXCEPT !.owed = q.owed \cup {r}]]) /\ UNCHANGED events
    <2>0. PICK r \in Refused : quic' = [quic EXCEPT ![k] = [q EXCEPT !.owed = q.owed \cup {r}]]
      BY <1>4
    <2>1. /\ \A j \in Token : j # k => quic'[j] = quic[j]
          /\ quic'[k].announced = q.announced /\ quic'[k].state = q.state /\ quic'[k].is_server = q.is_server
      BY <1>1, <2>0 DEF Conn
    <2> QED
      BY <1>1, <1>4, <2>1, HandConn
  <1>5. CASE \E c : Moved(k, c) /\ Unlocks(k, c)
    BY <1>1, <1>5, HandUnlocks
  <1> QED
    BY <1>2, <1>3, <1>4, <1>5

(* accept of the listener, and of a connection, hand out the first of a    *)
(* queue.                                                                  *)
LEMMA HandPoll ==
    ASSUME TypeInv, HandInv, NEW t \in Task, NEW e \in Calls[t], PollCall(t, e)
    PROVE  HandInv'
  <1>0. /\ UNCHANGED <<quic, events, batch>> /\ e.token \in Token
        /\ incoming_conns \in Seq(Token) /\ incoming_streams \in [Token -> Seq(Stream)] /\ handed \in [Token -> Seq(Stream)]
    BY CallTypes DEF PollCall, groupVars, TypeInv, StateTypes, TaskTypes
  <1>1. \/ UNCHANGED <<incoming_conns, incoming_streams, taken, handed>>
        \/ /\ incoming_conns # <<>> /\ incoming_conns' = Tail(incoming_conns) /\ taken' = taken \cup {Head(incoming_conns)}
           /\ UNCHANGED <<incoming_streams, handed>>
        \/ /\ incoming_streams[e.token] # <<>>
           /\ incoming_streams' = [incoming_streams EXCEPT ![e.token] = Tail(incoming_streams[e.token])]
           /\ handed' = [handed EXCEPT ![e.token] = Append(handed[e.token], Head(incoming_streams[e.token]))]
           /\ UNCHANGED <<incoming_conns, taken>>
    BY DEF PollCall, is_established, accept_stream, accept_conn, ask
  <1>2. Coming' = Coming
    BY <1>0 DEF Coming
  <1>3. CASE UNCHANGED <<incoming_conns, incoming_streams, taken, handed>>
    BY <1>0, <1>3, HandStays DEF handVars
  <1>4. CASE /\ incoming_conns # <<>> /\ incoming_conns' = Tail(incoming_conns) /\ taken' = taken \cup {Head(incoming_conns)}
             /\ UNCHANGED <<incoming_streams, handed>>
    <2>1. /\ Range_(incoming_conns) = {Head(incoming_conns)} \cup Range_(incoming_conns')
          /\ Distinct(incoming_conns) => Distinct(incoming_conns') /\ Head(incoming_conns) \notin Range_(incoming_conns')
      BY <1>0, <1>4, Popped
    <2>2. \A k \in Token : k \in Range_(incoming_conns') \/ k \in taken' <=> k \in Range_(incoming_conns) \/ k \in taken
      BY <1>4, <2>1
    <2>3. ConnsOnce'
      BY <1>4, <2>1 DEF HandInv, ConnsOnce
    <2>4. \A k \in Token : ConnOnce(k)'
      BY <1>0, <1>2, <2>2 DEF HandInv, ConnOnce
    <2> QED
      BY <1>0, <1>2, <1>4, <2>3, <2>4 DEF HandInv, StreamsOnce, StreamOnce, EndSeen
  <1>5. CASE /\ incoming_streams[e.token] # <<>>
             /\ incoming_streams' = [incoming_streams EXCEPT ![e.token] = Tail(incoming_streams[e.token])]
             /\ handed' = [handed EXCEPT ![e.token] = Append(handed[e.token], Head(incoming_streams[e.token]))]
             /\ UNCHANGED <<incoming_conns, taken>>
    <2>1. ASSUME NEW k \in Token
          PROVE  handed'[k] \o incoming_streams'[k] = handed[k] \o incoming_streams[k]
      <3>1. CASE k # e.token
        BY <1>0, <1>5, <3>1
      <3>2. CASE k = e.token
        <4>1. incoming_streams[k] \in Seq(Stream) /\ incoming_streams[k] # <<>> /\ handed[k] \in Seq(Stream)
          BY <1>0, <1>5, <3>2
        <4>2. Append(handed[k], Head(incoming_streams[k])) \o Tail(incoming_streams[k]) = handed[k] \o incoming_streams[k]
          BY <4>1, Popped
        <4>3. handed'[k] = Append(handed[k], Head(incoming_streams[k])) /\ incoming_streams'[k] = Tail(incoming_streams[k])
          BY <1>0, <1>5, <3>2
        <4> QED
          BY <4>2, <4>3
      <3> QED
        BY <3>1, <3>2
    <2>2. StreamsOnce'
      BY <2>1 DEF HandInv, StreamsOnce
    <2>3. \A k \in Token : \A s \in Stream : StreamOnce(k, s)'
      BY <1>0, <1>2, <2>1 DEF HandInv, StreamOnce
    <2> QED
      BY <1>0, <1>2, <1>5, <2>2, <2>3 DEF HandInv, ConnsOnce, ConnOnce, EndSeen
  <1> QED
    BY <1>1, <1>3, <1>4, <1>5


(* Taking the events leaves them announced. *)
LEMMA HandRunPoll ==
    ASSUME TypeInv, HandInv, RunPoll
    PROVE  HandInv'
  <1>1. /\ batch = {} /\ batch' = events /\ events' = {}
        /\ UNCHANGED <<quic, incoming_conns, incoming_streams, taken, handed>>
    BY DEF RunPoll, TypeInv, RunnerTypes, stateVars, taskVars
  <1>2. Coming' = Coming
    BY <1>1 DEF Coming
  <1> QED
    BY <1>1, <1>2 DEF HandInv, ConnsOnce, StreamsOnce, ConnOnce, StreamOnce, EndSeen

(* The things that a batch announces *)
LEMMA BatchAnnounces ==
    ASSUME RunnerTypes, NEW k \in Token, NEW s \in Stream
    PROVE  /\ k \in Arriving <=> event("Accept", k, 0) \in batch
           /\ s \in Opened(k) <=> event("StreamAccept", k, s) \in batch
           /\ k \in Closing <=> event("Closed", k, 0) \in batch
  <1>1. ASSUME NEW e \in batch
        PROVE  /\ e \in Event /\ e = event(e.kind, e.token, e.stream_id)
               /\ e.kind \in {"Accept", "Closed"} => e.stream_id = 0
    BY CallTypes DEF RunnerTypes, Shaped
  <1>2. /\ event("Accept", k, 0).token = k /\ event("Accept", k, 0).kind = "Accept"
        /\ event("Closed", k, 0).token = k /\ event("Closed", k, 0).kind = "Closed"
        /\ event("StreamAccept", k, s).token = k /\ event("StreamAccept", k, s).kind = "StreamAccept"
        /\ event("StreamAccept", k, s).stream_id = s
    BY DEF event
  <1>3. k \in Arriving <=> event("Accept", k, 0) \in batch
    BY <1>1, <1>2 DEF Arriving, Sent
  <1>4. s \in Opened(k) <=> event("StreamAccept", k, s) \in batch
    BY <1>1, <1>2 DEF Opened, Sent
  <1>5. k \in Closing <=> event("Closed", k, 0) \in batch
    BY <1>1, <1>2 DEF Closing, Sent
  <1> QED
    BY <1>3, <1>4, <1>5

(* The run loop queues a connection that no one was given (on_accept). *)
LEMMA HandConnsDispatched ==
    ASSUME TypeInv, HandInv, Dispatch
    PROVE  ConnsOnce' /\ \A k \in Token : ConnOnce(k)'
  <1>0. RunnerTypes /\ incoming_conns \in Seq(Token)
    BY DEF TypeInv, StateTypes
  <1>1. batch' = {} /\ on_accept /\ UNCHANGED <<taken, quic, events>>
    BY DEF Dispatch, groupVars
  <1>2. PICK q \in Seq(Token) : Distinct(q) /\ Range_(q) = Arriving /\ incoming_conns' = incoming_conns \o q
    BY <1>0, <1>1, AcceptQueue
  <1>3. /\ Range_(incoming_conns') = Range_(incoming_conns) \cup Arriving
        /\ Distinct(incoming_conns') <=> Distinct(incoming_conns) /\ Range_(incoming_conns) \cap Arriving = {}
    BY <1>0, <1>2, Joined
  <1>4. Coming = events \cup batch /\ Coming' = events
    BY <1>1 DEF Coming
  <1>5. Arriving \subseteq Token
    BY <1>0 DEF RunnerTypes, Shaped, Arriving, Sent, Event
  <1>6. ASSUME NEW k \in Token
        PROVE  k \in Arriving <=> event("Accept", k, 0) \in batch
    <2>1. ASSUME NEW e \in batch
          PROVE  /\ e \in Event /\ e = event(e.kind, e.token, e.stream_id)
                 /\ e.kind = "Accept" => e.stream_id = 0
      BY <1>0, CallTypes DEF RunnerTypes, Shaped
    <2>2. event("Accept", k, 0).token = k /\ event("Accept", k, 0).kind = "Accept"
      BY DEF event
    <2> QED
      BY <2>1, <2>2 DEF Arriving, Sent
  <1>7. ASSUME NEW k \in Arriving PROVE k \notin Range_(incoming_conns) /\ k \notin taken
    BY <1>4, <1>5, <1>6 DEF HandInv, ConnOnce
  <1>8. ConnsOnce'
    BY <1>1, <1>3, <1>7 DEF HandInv, ConnsOnce
  <1>9. ASSUME NEW k \in Token PROVE ConnOnce(k)'
    <2>1. ConnOnce(k)
      BY DEF HandInv
    <2> QED
      BY <1>1, <1>3, <1>4, <1>6, <2>1 DEF ConnOnce
  <1> QED
    BY <1>8, <1>9

(* The run loop queues a stream that no one was given (on_stream_accept). *)
LEMMA HandStreamsDispatched ==
    ASSUME TypeInv, HandInv, Dispatch, NEW k \in Token
    PROVE  Distinct(handed[k] \o incoming_streams[k])' /\ \A s \in Stream : StreamOnce(k, s)'
  <1>0. RunnerTypes /\ incoming_streams \in [Token -> Seq(Stream)] /\ handed[k] \in Seq(Stream)
    BY DEF TypeInv, StateTypes, TaskTypes
  <1>1. batch' = {} /\ on_stream_accept /\ UNCHANGED <<handed, quic, events>>
    BY DEF Dispatch, groupVars
  <1>2. PICK q \in Seq(Stream) :
           /\ Distinct(q) /\ Range_(q) \subseteq Opened(k)
           /\ k \notin Closing => Range_(q) = Opened(k)
           /\ incoming_streams'[k] = IF k \in Closing THEN q ELSE incoming_streams[k] \o q
    BY <1>0, <1>1, StreamQueues
  <1>3. Coming = events \cup batch /\ Coming' = events
    BY <1>1 DEF Coming
  <1>4. Opened(k) \subseteq Stream
    BY <1>0, BatchFinite
  <1> DEFINE h == handed[k]
             i == incoming_streams[k]
             given == Range_(h \o i)
  <1>5. ASSUME NEW s \in Opened(k) PROVE s \notin given
    BY <1>0, <1>3, <1>4, BatchAnnounces DEF HandInv, StreamOnce
  <1>6. Distinct(h \o i)
    BY DEF HandInv, StreamsOnce
  <1>7. h \in Seq(Stream) /\ i \in Seq(Stream)
    BY <1>0
  <1> HIDE DEF h, i, given
  <1>8. /\ given = Range_(h) \cup Range_(i)
        /\ Distinct(h) /\ Distinct(i) /\ Range_(h) \cap Range_(i) = {}
    BY <1>6, <1>7, Joined DEF given
  <1>9. CASE k \in Closing
    <2>1. /\ Range_(h \o q) = Range_(h) \cup Range_(q)
          /\ Distinct(h \o q)
      BY <1>2, <1>5, <1>7, <1>8, Joined
    <2>2. handed'[k] \o incoming_streams'[k] = h \o q
      BY <1>1, <1>2, <1>9 DEF h
    <2>3. quic[k].state # "open"
      <3>1. event("Closed", k, 0) \in Coming
        <4>1. PICK e \in batch : e.kind = "Closed" /\ e.token = k
          BY <1>9 DEF Closing, Sent
        <4>2. e = event("Closed", k, 0)
          BY <1>0, <4>1, CallTypes DEF RunnerTypes, Shaped
        <4> QED
          BY <1>3, <4>2
      <3> QED
        BY <3>1 DEF HandInv, EndSeen
    <2>4. ASSUME NEW s \in Stream PROVE StreamOnce(k, s)'
      <3>1. StreamOnce(k, s)
        BY DEF HandInv
      <3>2. s \in Opened(k) <=> event("StreamAccept", k, s) \in batch
        BY <1>0, BatchAnnounces
      <3>3. s \in Range_(h \o q) => s \in given \/ s \in Opened(k)
        BY <1>2, <1>8, <2>1
      <3> QED
        BY <1>1, <1>3, <2>2, <2>3, <3>1, <3>2, <3>3 DEF StreamOnce, given, h, i
    <2> QED
      BY <2>1, <2>2, <2>4
  <1>10. CASE k \notin Closing
    <2>1. /\ Range_(i \o q) = Range_(i) \cup Range_(q) /\ i \o q \in Seq(Stream)
          /\ Distinct(i \o q)
      BY <1>2, <1>5, <1>7, <1>8, Joined
    <2>2. /\ Range_(h \o (i \o q)) = Range_(h) \cup Range_(i \o q)
          /\ Distinct(h \o (i \o q)) <=> Distinct(h) /\ Distinct(i \o q) /\ Range_(h) \cap Range_(i \o q) = {}
      BY <1>7, <2>1, Joined
    <2>3. /\ Range_(h \o (i \o q)) = given \cup Opened(k)
          /\ Distinct(h \o (i \o q))
      BY <1>2, <1>5, <1>8, <1>10, <2>1, <2>2
    <2>4. handed'[k] \o incoming_streams'[k] = h \o (i \o q)
      BY <1>1, <1>2, <1>10 DEF h, i
    <2>5. ASSUME NEW s \in Stream PROVE StreamOnce(k, s)'
      <3>1. StreamOnce(k, s)
        BY DEF HandInv
      <3>2. s \in Opened(k) <=> event("StreamAccept", k, s) \in batch
        BY <1>0, BatchAnnounces
      <3> QED
        BY <1>1, <1>3, <2>3, <2>4, <3>1, <3>2 DEF StreamOnce, given, h, i
    <2> QED
      BY <2>3, <2>4, <2>5
  <1> QED
    BY <1>9, <1>10

(* Every step keeps the invariant of queues. *)
LEMMA HandStep ==
    ASSUME TypeInv, HandInv, [Next]_vars
    PROVE  HandInv'
  <1>1. ASSUME NEW t \in Task, (\E e \in Call : Start(t, e)) \/ Resume(t) \/ Ask(t)
        PROVE  HandInv'
    BY <1>1, PolledCall, HandPoll, HandAsk
  <1>2. ASSUME NEW k \in Token, Register(k) \/ Lock(k) \/ Serve(k) \/ Remove(k)
        PROVE  HandInv'
    BY <1>2, HandGroup
  <1>3. ASSUME NEW k \in Token, DropConn(k) \/ \E s \in Stream : Shutdown(k, s)
        PROVE  HandInv'
    <2>1. Touched(k)
      BY <1>3, TouchUnlocks DEF TypeInv
    <2>2. UNCHANGED <<batch, incoming_conns, incoming_streams, taken, handed>>
      BY <1>3 DEF DropConn, StopAll, Shutdown, stateVars
    <2> QED
      BY <2>1, <2>2, HandTouch
  <1>4. ASSUME Stop \/ (\E t \in Task : Answered(t)) \/ UNCHANGED vars
        PROVE  HandInv'
    <2>1. UNCHANGED handVars
      BY <1>4 DEF Stop, StopAll, Answered, vars, stateVars, taskVars, groupVars, handVars
    <2> QED
      BY <2>1, HandStays
  <1>5. CASE RunPoll
    BY <1>5, HandRunPoll
  <1>6. CASE Dispatch
    <2>1. ASSUME NEW k \in Token PROVE EndSeen(k)'
      BY <1>6 DEF Dispatch, groupVars, HandInv, EndSeen, Coming
    <2>2. StreamsOnce'
      BY <1>6, HandStreamsDispatched DEF StreamsOnce
    <2> QED
      BY <1>6, <2>1, <2>2, HandConnsDispatched, HandStreamsDispatched DEF HandInv
  <1> QED
    BY <1>1, <1>2, <1>3, <1>4, <1>5, <1>6 DEF Next

(* What the group announces is handed out once (on_accept,                 *)
(* on_stream_accept, and the two accepts): no inbound connection is queued *)
(* or returned twice and none is lost between the group, the batch and the *)
(* queue; nor is a stream of a connection that is not closed, although     *)
(* on_closed discards the queue of a connection whose streams may be in    *)
(* the same batch.                                                         *)
THEOREM HandedOutOnceHolds == Spec => []HandedOutOnce
  <1>1. Init => TypeInv /\ HandInv
    BY TypeStart, HandStart
  <1>2. TypeInv /\ HandInv /\ [Next]_vars => TypeInv' /\ HandInv'
    BY TypeStep, HandStep
  <1>3. TypeInv /\ HandInv => HandedOutOnce
    BY HandGives
  <1> QED
    BY <1>1, <1>2, <1>3, PTL DEF Spec
-----------------------------------------------------------------------------
(* The invariant about waiting. *)

(* A task whose waker has not been called since it was stored. *)
Waiting(t) == task[t].pc \in {"asking", "answered", "pending"} /\ ~task[t].woken

(* Its waker is where the event will look for it. *)
Slot(t, e) ==
    /\ e.kind # "Accept" => e.token \in entries /\ wakers[e] = t
    /\ e.kind = "Accept" => accept = t

(* Its stream was not shut down. *)
NotShut(e) == e.kind \in Streaming => <<e.token, e.stream_id>> \notin shutdown

(* What State would hand out has not come. *)
Quiet(e) ==
    /\ e.kind = "Accept" => incoming_conns = <<>>
    /\ e.kind = "StreamAccept" => incoming_streams[e.token] = <<>>
    /\ e.kind = "Connected" => e.token \notin established_conns

(* The group owes an event: for what it has told of, for an open that it   *)
(* refused, and for the end of the connection.  An operation that was      *)
(* refused waits for the unlock.                                           *)
Promise(e) ==
    e \in Asking =>
        LET c == quic[e.token]
        IN  /\ e.kind \in Opening \/ Due(c, e) => Owed(c, e) \/ e \in Coming \/ c.state \in {"closed", "gone"}
            /\ c.state \in {"closed", "gone"} => c.busy \/ event("Closed", e.token, 0) \in Coming

WaitOf(t) ==
    /\ Waiting(t) => Slot(t, CallOf(t)) /\ NotShut(CallOf(t))
    /\ Waits(t) => Quiet(CallOf(t)) /\ Promise(CallOf(t))

WaitInv == \A t \in Task : WaitOf(t)

(* Only a connection that is there is locked.  The refused operations are  *)
(* its own, and only an open is refused by one that is not locked.         *)
LockOf(k) ==
    LET c == quic[k]
    IN  /\ c.busy => Present(c)
        /\ \A r \in c.owed : r.call.token = k
        /\ ~c.busy => \A r \in c.owed : r.call.kind \in Opening \ c.open

LockInv == \A k \in Token : LockOf(k)

(* The stream of a send or recv was handed out, ... *)
Held(e) == e.kind \in Streaming => e.stream_id \in Range_(handed[e.token])

HeldInv == \A t \in Task : task[t].pc # "idle" => Held(CallOf(t))

(* ... so it was announced: what becomes readable later is no new stream. *)
Known(e) == e.kind \in Streaming => e.stream_id \in quic[e.token].announced

(* What was handed out was announced. *)
LEMMA HeldIsKnown ==
    ASSUME TypeInv, HandInv, NEW e \in Asking, Held(e)
    PROVE  Known(e)
  <1> SUFFICES ASSUME e.kind \in Streaming PROVE e.stream_id \in quic[e.token].announced
    BY DEF Known
  <1> DEFINE k == e.token
             s == e.stream_id
             h == handed[k]
             i == incoming_streams[k]
  <1>1. k \in Token /\ s \in Stream
    BY CallTypes DEF Asking, Opening, Streaming, Event
  <1>2. h \in Seq(Stream) /\ i \in Seq(Stream)
    BY <1>1 DEF TypeInv, StateTypes, TaskTypes
  <1>3. s \in Range_(h)
    BY DEF Held
  <1>4. StreamOnce(k, s)
    BY <1>1 DEF HandInv
  <1> HIDE DEF k, s, h, i
  <1>5. s \in Range_(h \o i)
    BY <1>2, <1>3, Joined
  <1>6. s \in quic[k].announced
    BY <1>4, <1>5 DEF StreamOnce, h, i
  <1> QED
    BY <1>6 DEF k, s

(* A task that waits has made one of its calls. *)
LEMMA WaitingCall ==
    ASSUME TypeInv, NEW t \in Task, Waiting(t)
    PROVE  CallOf(t) \in Calls[t] /\ CallOf(t) \in Call /\ CallOf(t).token \in Token
  BY CallTypes DEF TypeInv, TaskTypes, CallsMade, Waiting, CallOf

(* A suspended task is one that waits. *)
LEMMA WaitsIsWaiting == ASSUME NEW t \in Task, Waits(t) PROVE Waiting(t)
  BY DEF Waits, Waiting

(* The stream that a suspended task waits for was announced. *)
LEMMA WaitsKnown ==
    ASSUME TypeInv, HandInv, HeldInv, NEW t \in Task, Waits(t), CallOf(t) \in Asking
    PROVE  Known(CallOf(t))
  <1>1. Held(CallOf(t))
    BY DEF HeldInv, Waits
  <1> QED
    BY <1>1, HeldIsKnown

(* A task that waits after others were woken waited before. *)
LEMMA WokenWaits ==
    ASSUME TypeInv, NEW ts, task' = Woken(ts), NEW u \in Task
    PROVE  /\ CallOf(u)' = CallOf(u)
           /\ Waiting(u)' => Waiting(u) /\ u \notin ts
           /\ Waits(u)' => Waits(u)
  <1>1. /\ task'[u].call = task[u].call /\ task'[u].pc = task[u].pc
        /\ task[u].woken => task'[u].woken
        /\ u \in ts /\ task[u].pc \notin {"idle", "panic"} => task'[u].woken
    BY WokenKeeps DEF TypeInv, TaskTypes
  <1> QED
    BY <1>1 DEF CallOf, Waiting, Waits

(* Where a task moves, the others stay. *)
LEMMA MovedWaits ==
    ASSUME TypeInv, NEW t \in Task, NEW new, task' = [task EXCEPT ![t] = new], NEW u \in Task, u # t
    PROVE  /\ CallOf(u)' = CallOf(u)
           /\ Waiting(u)' => Waiting(u)
           /\ Waits(u)' => Waits(u)
  <1>1. task'[u] = task[u]
    BY DEF TypeInv, TaskTypes
  <1> QED
    BY <1>1 DEF CallOf, Waiting, Waits

(* Capacities and marks are numbers. *)
LEMMA CapTypes ==
    ASSUME NEW c \in Conn, NEW s \in Stream
    PROVE  c.cap[s] \in Nat /\ c.lowat[s] \in Nat \ {0}
  <1>1. c.cap[s] \in 0 .. MaxCap /\ c.lowat[s] \in Length \cup {1}
    BY DEF Conn
  <1>2. \A n \in Length : n \in Nat \ {0}
    BY BoundAssumption
  <1>3. \A n \in 0 .. MaxCap : n \in Nat
    BY BoundAssumption
  <1> QED
    BY <1>1, <1>2, <1>3

(* What is owed to a call that is unchanged is still owed: an unlock       *)
(* raises what was refused, or leaves it where the next one finds it; what *)
(* it does not tell of has been told, or is below the mark.                *)
LEMMA UnlockPromise ==
    ASSUME TypeInv, LockInv, NEW k \in Token, NEW c, Moved(k, c), Unlocks(k, c), batch' = batch, Present(quic[k]),
           NEW e \in Asking, Known(e), Promise(e)
    PROVE  Promise(e)'
  <1> DEFINE q == quic[k]
             d == quic'[k]
             s == e.stream_id
  <1>0. quic \in [Token -> Conn] /\ e.token \in Token /\ e.kind \in Opening \cup Streaming /\ e = event(e.kind, e.token, s)
    BY CallTypes DEF TypeInv, GroupTypes
  <1>1. quic \in [Token -> Conn]
    BY <1>0
  <1>2. /\ quic' \in [Token -> Conn]
        /\ \A j \in Token : j # k => quic'[j] = quic[j]
        /\ d.state = c.state /\ d.open = c.open /\ d.readable = c.readable /\ d.cap = c.cap
        /\ d.owed = {r \in c.owed : r.call.kind \in Opening \ c.open}
    <2>1. quic' \in [Token -> Conn] /\ \A j \in Token : j # k => quic'[j] = quic[j]
      BY <1>1, UnlockEffect
    <2>2. d.state = c.state /\ d.open = c.open /\ d.readable = c.readable /\ d.cap = c.cap
      BY <1>1, UnlockEffect
    <2>3. d.owed = {r \in c.owed : r.call.kind \in Opening \ c.open}
      BY <1>1, UnlockEffect
    <2> QED
      BY <2>1, <2>2, <2>3
  <1>3. events \subseteq events' /\ (c.state = "closed" => event("Closed", k, 0) \in events')
    BY <1>0, UnlockEffect
  <1>4. /\ \A r \in c.owed : r.call.kind \in c.open \/ r.call.kind = "StreamRecv" => r.call \in events'
        /\ \A i \in Fresh(k, c) : i \in q.announced => event("StreamRecv", k, i) \in events'
    BY <1>0, UnlockEffect
  <1>5. ASSUME NEW r \in c.owed, r.call.kind = "StreamSend"
        PROVE  r.call \in events' \/ d.cap[r.call.stream_id] < d.lowat[r.call.stream_id]
    BY <1>0, <1>5, UnlockEffect
  <1>6. ASSUME NEW i \in Stream, \A r \in c.owed : ~(r.call.kind = "StreamSend" /\ r.call.stream_id = i)
        PROVE  /\ d.lowat[i] = q.lowat[i]
               /\ q.cap[i] < q.lowat[i] /\ q.lowat[i] <= c.cap[i] => event("StreamSend", k, i) \in events'
    BY <1>0, <1>6, UnlockEffect
  <1>7. Coming \subseteq Coming' /\ events' \subseteq Coming'
    BY <1>3 DEF Coming
  <1>8. CASE e.token # k
    BY <1>0, <1>2, <1>7, <1>8 DEF Promise
  <1>9. CASE e.token = k
    <2>1. /\ q.owed \subseteq c.owed /\ \A r \in c.owed : r \in q.owed \/ r.call.token = k
          /\ q.state = "closed" => c.state = "closed"
          /\ c.state \notin {"none", "gone"} /\ q.state \notin {"none", "gone"} /\ c \in Conn
      BY DEF Moved, Present
    <2>2. \A r \in c.owed : r.call \in Asking /\ r.call.token = k
      BY <2>1 DEF LockInv, LockOf, Conn, Refused
    <2>3. c.state = "closed" => event("Closed", k, 0) \in Coming'
      BY <1>7, <1>3
    <2>4. Owed(q, e) => Owed(c, e)
      BY <2>1 DEF Owed
    <2>5. e.kind \in Opening \/ Due(q, e) => Owed(q, e) \/ e \in Coming \/ q.state = "closed"
      BY <1>9, <2>1 DEF Promise
    <2>6. ASSUME c.state # "closed", e.kind \in Opening
          PROVE  Owed(d, e) \/ e \in Coming'
      <3>1. Owed(c, e) \/ e \in Coming
        BY <2>1, <2>4, <2>5, <2>6
      <3>2. CASE Owed(c, e)
        <4>1. PICK r \in c.owed : r.call = e
          BY <3>2 DEF Owed
        <4>2. CASE e.kind \in c.open
          BY <1>7, <1>4, <4>1, <4>2
        <4>3. CASE e.kind \notin c.open
          BY <1>2, <2>6, <4>1, <4>3 DEF Owed
        <4> QED
          BY <4>2, <4>3
      <3> QED
        BY <1>7, <3>1, <3>2
    <2>7. ASSUME c.state # "closed", e.kind = "StreamRecv", s \in d.readable
          PROVE  e \in Coming'
      <3>1. CASE s \in q.readable
        <4>1. Owed(c, e) \/ e \in Coming
          BY <2>1, <2>4, <2>5, <2>7, <3>1 DEF Due
        <4>2. Owed(c, e) => e \in events'
          BY <1>4, <2>7 DEF Owed
        <4> QED
          BY <1>7, <4>1, <4>2
      <3>2. CASE s \notin q.readable
        <4>1. s \in q.announced
          BY <1>9, <2>7 DEF Known, Streaming
        <4>2. s \in Fresh(k, c)
          BY <1>2, <2>7, <3>2 DEF Fresh
        <4> QED
          BY <1>0, <1>7, <1>9, <1>4, <2>7, <4>1, <4>2
      <3> QED
        BY <3>1, <3>2
    <2>8. ASSUME c.state # "closed", e.kind = "StreamSend", d.cap[s] >= d.lowat[s]
          PROVE  e \in Coming'
      <3>0. /\ s \in Stream /\ q \in Conn /\ d \in Conn
            /\ q.cap[s] \in Nat /\ q.lowat[s] \in Nat /\ d.cap[s] \in Nat /\ d.lowat[s] \in Nat
        <4>1. s \in Stream /\ q \in Conn /\ d \in Conn
          BY <1>0, <1>2, <2>8 DEF Asking, Opening, Streaming, Event
        <4>2. \A x \in Conn : x.cap[s] \in Nat /\ x.lowat[s] \in Nat
          BY <4>1, CapTypes
        <4> QED
          BY <4>1, <4>2
      <3>1. CASE Owed(c, e)
        <4>1. PICK r \in c.owed : r.call = e
          BY <3>1 DEF Owed
        <4>2. e \in events' \/ d.cap[s] < d.lowat[s]
          BY <1>5, <2>8, <4>1
        <4> HIDE DEF d
        <4> QED
          BY <1>7, <2>8, <3>0, <4>2
      <3>2. CASE ~Owed(c, e)
        <4>1. \A r \in c.owed : ~(r.call.kind = "StreamSend" /\ r.call.stream_id = s)
          <5> SUFFICES ASSUME NEW r \in c.owed, r.call.kind = "StreamSend", r.call.stream_id = s PROVE FALSE
            OBVIOUS
          <5>1. r.call = event("StreamSend", k, s)
            BY <2>2, CallTypes
          <5> QED
            BY <1>0, <1>9, <2>8, <3>2, <5>1 DEF Owed
        <4>2. /\ d.lowat[s] = q.lowat[s] /\ d.cap[s] = c.cap[s]
              /\ q.cap[s] < q.lowat[s] /\ q.lowat[s] <= c.cap[s] => event("StreamSend", k, s) \in events'
          BY <1>2, <1>6, <3>0, <4>1
        <4>3. CASE q.cap[s] < q.lowat[s]
          <5>1. q.lowat[s] <= c.cap[s]
            BY <2>8, <3>0, <4>2
          <5> QED
            BY <1>0, <1>7, <1>9, <2>8, <4>2, <4>3, <5>1
        <4>4. CASE q.cap[s] >= q.lowat[s]
          <5>1. Due(q, e)
            BY <2>8, <4>4 DEF Due
          <5> QED
            BY <1>7, <2>1, <2>4, <2>5, <2>8, <3>2, <5>1
        <4> QED
          BY <3>0, <4>3, <4>4
      <3> QED
        BY <3>1, <3>2
    <2>9. ASSUME c.state # "closed", e.kind \in Opening \/ Due(d, e)
          PROVE  Owed(d, e) \/ e \in Coming'
      <3>1. e.kind \in d.open => e.kind \in Opening
        BY <1>2, <2>1 DEF Conn
      <3> QED
        BY <2>6, <2>7, <2>8, <2>9, <3>1 DEF Due
    <2> HIDE DEF d
    <2>10. /\ e.kind \in Opening \/ Due(d, e) => Owed(d, e) \/ e \in Coming' \/ d.state \in {"closed", "gone"}
           /\ d.state \in {"closed", "gone"} => event("Closed", k, 0) \in Coming'
      BY <1>2, <2>1, <2>3, <2>9
    <2> QED
      BY <1>9, <2>10 DEF Promise, d
  <1> QED
    BY <1>8, <1>9

(* An unlock, or none at all, keeps what a waiting call is promised. *)
LEMMA TouchPromise ==
    ASSUME TypeInv, LockInv, NEW k \in Token, Touched(k), batch' = batch, NEW e, e \in Asking => Known(e), Promise(e)
    PROVE  Promise(e)'
  <1>0. CASE e \notin Asking
    BY <1>0 DEF Promise
  <1>1. CASE e \in Asking /\ Present(quic[k]) /\ \E c : Moved(k, c) /\ Unlocks(k, c)
    BY <1>1, UnlockPromise
  <1>2. CASE UNCHANGED groupVars
    BY <1>2 DEF groupVars, Promise, Coming
  <1> QED
    BY <1>0, <1>1, <1>2 DEF Touched

(* The steps of the group alone *)
LEMMA GroupPromise ==
    ASSUME TypeInv, LockInv, NEW k \in Token, Register(k) \/ Lock(k) \/ Serve(k) \/ Remove(k),
           NEW e, e \in Asking => Known(e), Promise(e)
    PROVE  Promise(e)'
  <1> SUFFICES ASSUME e \in Asking PROVE Promise(e)'
    BY DEF Promise
  <1>0. quic \in [Token -> Conn] /\ quic[k] \in Conn /\ e.token \in Token
    BY CallTypes DEF TypeInv, GroupTypes
  <1>1. CASE Register(k)
    <2>1. /\ quic[k].state = "none" /\ UNCHANGED <<events, batch>>
          /\ \E s \in BOOLEAN : quic' = [quic EXCEPT ![k].state = "new", ![k].is_server = s]
      BY <1>1 DEF Register
    <2>2. /\ \A j \in Token : j # k => quic'[j] = quic[j]
          /\ quic'[k].state = "new" /\ quic'[k].owed = quic[k].owed /\ quic'[k].open = quic[k].open /\ quic'[k].readable = quic[k].readable
          /\ quic'[k].cap = quic[k].cap /\ quic'[k].lowat = quic[k].lowat
      BY <1>0, <2>1 DEF Conn
    <2> QED
      BY <1>0, <2>1, <2>2 DEF Promise, Coming, Due, Owed
  <1>2. CASE Lock(k)
    <2>1. quic' = [quic EXCEPT ![k].busy = TRUE] /\ UNCHANGED <<events, batch>>
      BY <1>2 DEF Lock
    <2>2. /\ \A j \in Token : j # k => quic'[j] = quic[j]
          /\ quic'[k].state = quic[k].state /\ quic'[k].busy = TRUE
          /\ quic'[k].owed = quic[k].owed /\ quic'[k].open = quic[k].open /\ quic'[k].readable = quic[k].readable
          /\ quic'[k].cap = quic[k].cap /\ quic'[k].lowat = quic[k].lowat
      BY <1>0, <2>1 DEF Conn
    <2> QED
      BY <1>0, <2>1, <2>2 DEF Promise, Coming, Due, Owed
  <1>3. CASE Remove(k)
    <2>1. /\ quic[k].state = "closed" /\ ~quic[k].busy
          /\ UNCHANGED <<events, batch>>
      BY <1>3 DEF Remove
    <2>2. /\ \A j \in Token : j # k => quic'[j] = quic[j]
          /\ quic'[k].state = "gone"
      BY <1>0, <1>3, RemoveEffect
    <2> QED
      BY <1>0, <2>1, <2>2 DEF Promise, Coming
  <1>4. CASE Serve(k)
    <2>1. PICK c : Moved(k, c) /\ Unlocks(k, c)
      BY <1>4, ServeUnlocks DEF TypeInv
    <2>2. batch' = batch /\ Present(quic[k])
      BY <1>0, <1>4 DEF Serve, LockInv, LockOf
    <2> QED
      BY <2>1, <2>2, UnlockPromise
  <1> QED
    BY <1>1, <1>2, <1>3, <1>4

(* The steps of the group below the futures keep the invariant of waiting tasks. *)
LEMMA GroupWaits ==
    ASSUME TypeInv, HandInv, HeldInv, LockInv, WaitInv, NEW k \in Token, Register(k) \/ Lock(k) \/ Serve(k) \/ Remove(k)
    PROVE  WaitInv'
  <1>1. UNCHANGED <<stateVars, taskVars>>
    BY GroupStepTypes
  <1> SUFFICES ASSUME NEW t \in Task PROVE WaitOf(t)'
    BY DEF WaitInv
  <1>2. Waits(t) /\ Promise(CallOf(t)) => Promise(CallOf(t))'
    <2> SUFFICES ASSUME Waits(t), Promise(CallOf(t)) PROVE Promise(CallOf(t))'
      OBVIOUS
    <2>1. PICK e : e = CallOf(t)
      OBVIOUS
    <2>2. CallOf(t)' = e
      BY <1>1, <2>1 DEF taskVars, CallOf
    <2>3. e \in Asking => Known(e)
      BY <2>1, WaitsKnown
    <2>4. Promise(e)'
      BY <2>1, <2>3, GroupPromise
    <2> QED
      BY <2>2, <2>4 DEF Promise
  <1> QED
    BY <1>1, <1>2 DEF WaitInv, WaitOf, Waiting, Waits, Slot, NotShut, Quiet, CallOf, stateVars, taskVars


(* The lock, through an unlock *)
LEMMA LockUnlocks ==
    ASSUME TypeInv, LockInv, NEW k \in Token, NEW c, Moved(k, c), Unlocks(k, c)
    PROVE  LockInv'
  <1>1. /\ quic'[k].busy = FALSE /\ \A j \in Token : j # k => quic'[j] = quic[j]
        /\ quic'[k].owed = {r \in c.owed : r.call.kind \in Opening \ c.open} /\ quic'[k].open = c.open
    BY UnlockEffect DEF TypeInv, GroupTypes
  <1>2. \A r \in c.owed : r.call.token = k
    BY DEF Moved, LockInv, LockOf
  <1> SUFFICES ASSUME NEW j \in Token PROVE LockOf(j)'
    BY DEF LockInv
  <1>3. CASE j # k
    BY <1>1, <1>3 DEF LockInv, LockOf
  <1>4. CASE j = k
    BY <1>1, <1>2, <1>4 DEF LockOf
  <1> QED
    BY <1>3, <1>4

(* Where one connection changes *)
LEMMA LockChange ==
    ASSUME LockInv, NEW k \in Token, \A j \in Token : j # k => quic'[j] = quic[j], LockOf(k)'
    PROVE  LockInv'
  <1> SUFFICES ASSUME NEW j \in Token PROVE LockOf(j)'
    BY DEF LockInv
  <1>1. CASE j # k
    BY <1>1 DEF LockInv, LockOf
  <1> QED
    BY <1>1

(* Every step keeps a locked connection present, and its refused           *)
(* operations its own.                                                     *)
LEMMA LockStep ==
    ASSUME TypeInv, LockInv, [Next]_vars
    PROVE  LockInv'
  <1>0. quic \in [Token -> Conn]
    BY DEF TypeInv, GroupTypes
  <1>1. ASSUME NEW k \in Token, Register(k)
        PROVE  LockInv'
    <2>1. PICK s \in BOOLEAN : quic' = [quic EXCEPT ![k].state = "new", ![k].is_server = s]
      BY <1>1 DEF Register
    <2>2. /\ quic'[k].state = "new" /\ \A j \in Token : j # k => quic'[j] = quic[j]
          /\ quic'[k].busy = quic[k].busy /\ quic'[k].owed = quic[k].owed /\ quic'[k].open = quic[k].open
      BY <1>0, <2>1 DEF Conn
    <2>3. LockOf(k)'
      BY <2>2 DEF LockInv, LockOf, Present
    <2> QED
      BY <2>2, <2>3, LockChange
  <1>2. ASSUME NEW k \in Token, Lock(k)
        PROVE  LockInv'
    <2>1. /\ Present(quic[k]) /\ quic'[k].state = quic[k].state /\ quic'[k].busy = TRUE /\ quic'[k].owed = quic[k].owed
          /\ \A j \in Token : j # k => quic'[j] = quic[j]
      BY <1>0, <1>2 DEF Lock, Conn
    <2>2. LockOf(k)'
      BY <2>1 DEF LockInv, LockOf, Present
    <2> QED
      BY <2>1, <2>2, LockChange
  <1>3. ASSUME NEW k \in Token, Serve(k)
        PROVE  LockInv'
    <2>1. PICK c : Moved(k, c) /\ Unlocks(k, c)
      BY <1>3, ServeUnlocks DEF TypeInv
    <2> QED
      BY <2>1, LockUnlocks
  <1>4. ASSUME NEW k \in Token, Remove(k)
        PROVE  LockInv'
    <2>1. /\ quic'[k].busy = FALSE /\ quic'[k].owed = {}
          /\ \A j \in Token : j # k => quic'[j] = quic[j]
      BY <1>0, <1>4, RemoveEffect
    <2>2. LockOf(k)'
      BY <2>1 DEF LockOf
    <2> QED
      BY <2>1, <2>2, LockChange
  <1>5. ASSUME NEW k \in Token, DropConn(k) \/ \E s \in Stream : Shutdown(k, s)
        PROVE  LockInv'
    <2>1. Touched(k)
      BY <1>5, TouchUnlocks DEF TypeInv
    <2>2. CASE UNCHANGED groupVars
      BY <2>2 DEF groupVars, LockInv, LockOf
    <2> QED
      BY <2>1, <2>2, LockUnlocks DEF Touched
  <1>6. ASSUME NEW t \in Task, Ask(t)
        PROVE  LockInv'
    <2> DEFINE e == CallOf(t)
               k == e.token
               q == quic[k]
    <2>1. k \in Token /\ q \in Conn
      BY <1>6, AskCases
    <2>2. \/ UNCHANGED groupVars
          \/ Present(q) /\ q.busy /\ \E r \in Refused : r.call = e /\ quic' = [quic EXCEPT ![k] = [q EXCEPT !.owed = q.owed \cup {r}]]
          \/ \E c : Moved(k, c) /\ Unlocks(k, c)
      BY <1>6, AskCases
    <2>3. CASE UNCHANGED groupVars
      BY <2>3 DEF groupVars, LockInv, LockOf
    <2>4. CASE Present(q) /\ q.busy /\ \E r \in Refused : r.call = e /\ quic' = [quic EXCEPT ![k] = [q EXCEPT !.owed = q.owed \cup {r}]]
      <3>0. PICK r \in Refused : r.call = e /\ quic' = [quic EXCEPT ![k] = [q EXCEPT !.owed = q.owed \cup {r}]]
        BY <2>4
      <3>1. /\ quic'[k].state = q.state /\ quic'[k].busy = q.busy /\ quic'[k].owed = q.owed \cup {r}
            /\ \A j \in Token : j # k => quic'[j] = quic[j]
        BY <1>0, <2>1, <3>0 DEF Conn
      <3>2. r.call.token = k
        BY <3>0
      <3>3. PICK j \in Token : j = k
        BY <2>1
      <3>4. LockOf(j)'
        BY <2>1, <2>4, <3>1, <3>2, <3>3 DEF LockInv, LockOf, Present
      <3> HIDE DEF k
      <3> QED
        BY <2>1, <3>1, <3>3, <3>4, LockChange
    <2>5. CASE \E c : Moved(k, c) /\ Unlocks(k, c)
      BY <2>1, <2>5, LockUnlocks
    <2> QED
      BY <2>2, <2>3, <2>4, <2>5
  <1>7. ASSUME quic' = quic
        PROVE  LockInv'
    BY <1>7 DEF LockInv, LockOf
  <1>8. ASSUME NEW t \in Task, (\E e \in Call : Start(t, e)) \/ Resume(t) \/ Answered(t)
        PROVE  quic' = quic
    BY <1>8 DEF Start, Resume, PollCall, Answered, groupVars
  <1>9. ASSUME Stop \/ RunPoll \/ Dispatch \/ UNCHANGED vars
        PROVE  quic' = quic
    BY <1>9 DEF Stop, RunPoll, Dispatch, groupVars, vars
  <1> QED
    BY <1>1, <1>2, <1>3, <1>4, <1>5, <1>6, <1>7, <1>8, <1>9 DEF Next

(* A task that goes on keeps its call. *)
LEMMA Proceeded ==
    ASSUME TypeInv, NEW t \in Task, NEW pc, Proceeds(t, pc)
    PROVE  /\ CallOf(t)' = CallOf(t)
           /\ Waiting(t)' => ~task[t].woken
           /\ Waits(t)' => pc = "pending"
  <1>1. task[t] \in TaskState /\ task'[t] = [task[t] EXCEPT !.pc = pc]
    BY DEF Proceeds, TypeInv, TaskTypes
  <1>2. task'[t].call = task[t].call /\ task'[t].pc = pc /\ task'[t].woken = task[t].woken
    BY <1>1 DEF TaskState
  <1> QED
    BY <1>2 DEF CallOf, Waiting, Waits

(* A call in progress is one that was, or one of a stream that was handed  *)
(* out when it was made.                                                   *)
LEMMA CallsKept ==
    ASSUME TypeInv, [Next]_vars, NEW u \in Task, task'[u].pc # "idle"
    PROVE  \/ task[u].pc # "idle" /\ CallOf(u)' = CallOf(u)
           \/ Has(CallOf(u)')
  <1>0. task \in [Task -> TaskState]
    BY DEF TypeInv, TaskTypes
  <1> DEFINE Keeps == task[u].pc # "idle" /\ CallOf(u)' = CallOf(u)
  <1>1. ASSUME NEW t \in Task, NEW new, task' = [task EXCEPT ![t] = new], t # u PROVE Keeps
    BY <1>0, <1>1 DEF CallOf
  <1>2. ASSUME NEW ts, task' = Woken(ts) PROVE Keeps
    <2>1. task'[u].call = task[u].call /\ task'[u].pc = task[u].pc
      BY <1>0, <1>2, WokenKeeps
    <2> QED
      BY <2>1 DEF CallOf
  <1>3. ASSUME task' = task PROVE Keeps
    BY <1>3 DEF CallOf
  <1>4. ASSUME NEW t \in Task, NEW e, PollCall(t, e)
        PROVE  \E new : task' = [task EXCEPT ![t] = new] /\ (new.pc # "idle" => new.call = e)
    <2>1. Returns(t) \/ \E pc : Goes(t, e, pc)
      BY <1>4 DEF PollCall, is_established, accept_stream, accept_conn, ask
    <2>2. CASE Returns(t)
      <3>1. Idle.pc = "idle"
        BY DEF Idle
      <3> QED
        BY <2>2, <3>1 DEF Returns
    <2>3. CASE \E pc : Goes(t, e, pc)
      <3>1. PICK pc : Goes(t, e, pc)
        BY <2>3
      <3> DEFINE new == [call |-> e, pc |-> pc, woken |-> FALSE]
      <3>2. task' = [task EXCEPT ![t] = new] /\ new.call = e
        BY <3>1 DEF Goes
      <3> HIDE DEF new
      <3> QED
        BY <3>2
    <2> QED
      BY <2>1, <2>2, <2>3
  <1>5. ASSUME NEW t \in Task, (\E e \in Call : Start(t, e)) \/ Resume(t)
        PROVE  Keeps \/ Has(CallOf(u)')
    <2>1. PICK e : PollCall(t, e) /\ (Has(e) \/ (e = CallOf(t) /\ task[t].pc = "pending"))
      BY <1>5 DEF Start, Resume
    <2>2. PICK new : task' = [task EXCEPT ![t] = new] /\ (new.pc # "idle" => new.call = e)
      BY <1>4, <2>1
    <2>3. CASE t = u
      <3>1. CallOf(u)' = e
        BY <1>0, <2>2, <2>3 DEF CallOf
      <3> QED
        BY <2>1, <2>3, <3>1
    <2> QED
      BY <1>1, <2>2, <2>3
  <1>6. ASSUME NEW t \in Task, Ask(t) \/ Answered(t)
        PROVE  Keeps
    <2>1. task[t].pc \in {"asking", "answered"}
      BY <1>6 DEF Ask, Answered
    <2>2. Returns(t) \/ (\E pc : Proceeds(t, pc)) \/ Goes(t, CallOf(t), "panic")
      BY <1>6 DEF Ask, Answered
    <2>3. CASE t # u
      BY <1>1, <2>2, <2>3 DEF Returns, Proceeds, Goes
    <2>4. CASE t = u
      <3>1. CASE Returns(t)
        BY <1>0, <2>4, <3>1 DEF Returns, Idle
      <3>2. CASE \E pc : Proceeds(t, pc)
        BY <2>1, <2>4, <3>2, Proceeded
      <3>3. CASE Goes(t, CallOf(t), "panic")
        BY <1>0, <2>1, <2>4, <3>3 DEF Goes, CallOf
      <3> QED
        BY <2>2, <3>1, <3>2, <3>3
    <2> QED
      BY <2>3, <2>4
  <1>7. ASSUME (\E k \in Token, s \in Stream : Shutdown(k, s)) \/ Stop \/ (\E k \in Token : DropConn(k)) \/ Dispatch
        PROVE  Keeps
    <2>1. task' = task \/ \E ts : task' = Woken(ts)
      BY <1>7 DEF Shutdown, wake, Stop, StopAll, DropConn, Dispatch
    <2> QED
      BY <1>2, <1>3, <2>1
  <1>8. ASSUME (\E k \in Token : Register(k) \/ Lock(k) \/ Serve(k) \/ Remove(k)) \/ RunPoll \/ UNCHANGED vars
        PROVE  Keeps
    BY <1>3, <1>8 DEF Register, Lock, Serve, Remove, RunPoll, taskVars, vars
  <1> QED
    BY <1>5, <1>6, <1>7, <1>8 DEF Next

(* The streams handed out are kept. *)
LEMMA HandedGrows ==
    ASSUME TypeInv, [Next]_vars, NEW k \in Token
    PROVE  Range_(handed[k]) \subseteq Range_(handed'[k])
  <1>0. handed \in [Token -> Seq(Stream)] /\ incoming_streams \in [Token -> Seq(Stream)]
    BY DEF TypeInv, StateTypes, TaskTypes
  <1>1. ASSUME NEW t \in Task, NEW e \in Call, PollCall(t, e)
        PROVE  handed' = handed \/ \E j \in Token, s \in Stream : handed' = [handed EXCEPT ![j] = Append(handed[j], s)]
    <2>1. e.token \in Token
      BY CallTypes
    <2>2. CASE is_established(t, e) \/ accept_conn(t, e) \/ ask(t, e)
      BY <2>2 DEF is_established, accept_conn, ask
    <2>3. CASE accept_stream(t, e)
      <3>1. CASE handed' = handed
        BY <3>1
      <3>2. CASE /\ incoming_streams[e.token] # <<>>
                 /\ handed' = [handed EXCEPT ![e.token] = Append(handed[e.token], Head(incoming_streams[e.token]))]
        <4>1. Head(incoming_streams[e.token]) \in Stream
          BY <1>0, <2>1, <3>2
        <4> QED
          BY <2>1, <3>2, <4>1
      <3> QED
        BY <2>3, <3>1, <3>2 DEF accept_stream
    <2> QED
      BY <1>1, <2>2, <2>3 DEF PollCall
  <1>2. ASSUME NEW t \in Task, (\E e \in Call : Start(t, e)) \/ Resume(t)
        PROVE  handed' = handed \/ \E j \in Token, s \in Stream : handed' = [handed EXCEPT ![j] = Append(handed[j], s)]
    <2>1. \E e \in Calls[t] : PollCall(t, e)
      BY <1>2, PolledCall
    <2>2. Calls[t] \subseteq Call
      BY CallTypes
    <2> QED
      BY <1>1, <2>1, <2>2
  <1>3. \/ handed' = handed
        \/ \E j \in Token, s \in Stream : handed' = [handed EXCEPT ![j] = Append(handed[j], s)]
    BY <1>2 DEF Next, Ask, Answered, Shutdown, Stop, DropConn, Dispatch, Register, Lock, Serve, Remove, RunPoll, taskVars, vars
  <1>4. CASE \E j \in Token, s \in Stream : handed' = [handed EXCEPT ![j] = Append(handed[j], s)]
    <2>1. PICK j \in Token, s \in Stream : handed' = [handed EXCEPT ![j] = Append(handed[j], s)]
      BY <1>4
    <2>2. CASE j = k
      <3>1. handed[k] \in Seq(Stream) /\ handed'[k] = Append(handed[k], s)
        BY <1>0, <2>1, <2>2
      <3>2. ASSUME NEW i \in DOMAIN handed[k] PROVE i \in DOMAIN handed'[k] /\ handed'[k][i] = handed[k][i]
        BY <3>1
      <3> QED
        BY <3>2 DEF Range_
    <2>3. CASE j # k
      BY <1>0, <2>1, <2>3
    <2> QED
      BY <2>2, <2>3
  <1> QED
    BY <1>3, <1>4

(* Every step keeps the streams of the calls in progress handed out. *)
LEMMA HeldStep ==
    ASSUME TypeInv, HeldInv, [Next]_vars
    PROVE  HeldInv'
  <1> SUFFICES ASSUME NEW t \in Task, task'[t].pc # "idle" PROVE Held(CallOf(t))'
    BY DEF HeldInv
  <1>1. PICK e : e = CallOf(t)'
    OBVIOUS
  <1>2. Held(e) /\ e \in Call
    <2>1. e \in Call
      BY <1>1, TypeStep, CallTypes DEF TypeInv, TaskTypes, CallsMade, CallOf
    <2>2. CASE task[t].pc # "idle" /\ e = CallOf(t)
      BY <2>1, <2>2 DEF HeldInv
    <2>3. CASE Has(e)
      BY <2>1, <2>3, CallTypes DEF Has, Held, Range_, Opening, Streaming
    <2> QED
      BY <1>1, <2>1, <2>2, <2>3, CallsKept
  <1>3. e.token \in Token
    BY <1>2, CallTypes
  <1>4. Held(e)'
    BY <1>2, <1>3, HandedGrows DEF Held
  <1> QED
    BY <1>1, <1>4 DEF Held

-----------------------------------------------------------------------------
(* Waiting, by the call that a task waits for. *)

(* A task waits as it should when ... *)
LEMMA WaitFrom ==
    ASSUME NEW u \in Task, NEW e, CallOf(u)' = e,
           Waiting(u)' => Slot(u, e)' /\ NotShut(e)',
           Waits(u)' => Quiet(e)' /\ Promise(e)'
    PROVE  WaitOf(u)'
  BY DEF WaitOf, Slot, NotShut, Quiet, Promise, Due, Owed

(* ... as it did. *)
LEMMA WaitWas ==
    ASSUME WaitInv, NEW u \in Task
    PROVE  /\ Waiting(u) => Slot(u, CallOf(u)) /\ NotShut(CallOf(u))
           /\ Waits(u) => Quiet(CallOf(u)) /\ Promise(CallOf(u))
  BY DEF WaitInv, WaitOf

(* Two tasks that wait do not share a slot. *)
LEMMA SlotsApart ==
    ASSUME OneTaskPerCall, NEW t \in Task, NEW u \in Task, t # u, NEW c \in Calls[t], NEW d \in Calls[u]
    PROVE  c # d /\ ~(c.kind = "Accept" /\ d.kind = "Accept")
  BY DEF OneTaskPerCall

(* A step that only lets a task move, and answers or suspends it. *)
LEMMA Stays ==
    ASSUME NEW e, Promise(e), quic' = quic, events' = events, batch' = batch
    PROVE  Promise(e)'
  BY DEF Promise, Coming


-----------------------------------------------------------------------------
(* Waiting, through the polls of the futures *)

(* A poll returns, or stores the waker and finds nothing to return. *)
LEMMA PollCases ==
    ASSUME TypeInv, NEW t \in Task, NEW e \in Calls[t], PollCall(t, e)
    PROVE  /\ UNCHANGED <<shutdown, dropped, groupVars, runner, batch, stops>>
           /\ incoming_conns = <<>> => incoming_conns' = <<>>
           /\ \A k \in Token : incoming_streams[k] = <<>> => incoming_streams'[k] = <<>>
           /\ established_conns' \subseteq established_conns
           /\ \/ Returns(t) /\ UNCHANGED <<accept, entries, wakers>>
              \/ /\ e.kind # "Accept" /\ Store(t, e) /\ UNCHANGED accept /\ NotShut(e) /\ Quiet(e)
                 /\ UNCHANGED <<incoming_conns, incoming_streams, established_conns>>
                 /\ Goes(t, e, "asking") \/ (e \notin Asking /\ Goes(t, e, "pending"))
              \/ /\ e.kind = "Accept" /\ accept' = t /\ Goes(t, e, "pending") /\ Quiet(e)
                 /\ UNCHANGED <<entries, wakers, incoming_conns, incoming_streams, established_conns>>
  <1>1. UNCHANGED <<shutdown, dropped, groupVars, runner, batch, stops>>
    BY DEF PollCall
  <1>2. /\ e \in Call /\ e.token \in Token
        /\ e.kind \in {"Connected", "StreamAccept", "Accept"} => e \notin Asking /\ e.kind \notin Streaming
        /\ e \in Asking => e.kind \in Opening \cup Streaming
    BY CallTypes DEF Opening, Streaming
  <1>3. incoming_streams \in [Token -> Seq(Stream)]
    BY DEF TypeInv, StateTypes
  <1>4. CASE is_established(t, e)
    BY <1>1, <1>2, <1>4 DEF is_established, NotShut, Quiet
  <1>5. CASE accept_stream(t, e)
    <2>1. /\ e.kind = "StreamAccept"
          /\ UNCHANGED <<accept, incoming_conns, established_conns, taken>>
      BY <1>5 DEF accept_stream
    <2>2. \A k \in Token : incoming_streams[k] = <<>> => incoming_streams'[k] = <<>>
      BY <1>2, <1>3, <1>5 DEF accept_stream
    <2>3. \/ Returns(t) /\ UNCHANGED <<entries, wakers>>
          \/ Store(t, e) /\ Goes(t, e, "pending") /\ incoming_streams[e.token] = <<>> /\ UNCHANGED incoming_streams
      BY <1>5 DEF accept_stream
    <2> QED
      BY <1>1, <1>2, <2>1, <2>2, <2>3 DEF NotShut, Quiet
  <1>6. CASE accept_conn(t, e)
    BY <1>1, <1>2, <1>6 DEF accept_conn, NotShut, Quiet
  <1>7. CASE ask(t, e)
    BY <1>1, <1>2, <1>7 DEF ask, NotShut, Quiet, Opening, Streaming
  <1> QED
    BY <1>4, <1>5, <1>6, <1>7 DEF PollCall

(* A task that goes to a place waits there. *)
LEMMA GoneTo ==
    ASSUME TypeInv, NEW t \in Task, NEW e, NEW pc, Goes(t, e, pc)
    PROVE  CallOf(t)' = e /\ (Waits(t)' => pc = "pending")
  <1>1. task'[t] = [call |-> e, pc |-> pc, woken |-> FALSE]
    BY DEF Goes, TypeInv, TaskTypes
  <1> QED
    BY <1>1 DEF CallOf, Waits

(* A task whose call has returned does not wait. *)
LEMMA Returned ==
    ASSUME TypeInv, NEW t \in Task, Returns(t)
    PROVE  ~Waiting(t)' /\ ~Waits(t)'
  <1>1. task'[t] = Idle
    BY DEF Returns, TypeInv, TaskTypes
  <1> QED
    BY <1>1 DEF Waiting, Waits, Idle

(* A poll stores its waker before it suspends, after it saw nothing to return. *)
LEMMA PollWaits ==
    ASSUME TypeInv, WaitInv, OneTaskPerCall, NEW t \in Task, NEW e \in Calls[t], PollCall(t, e)
    PROVE  WaitInv'
  <1>1. /\ UNCHANGED <<shutdown, quic, events, batch>>
        /\ incoming_conns = <<>> => incoming_conns' = <<>>
        /\ \A k \in Token : incoming_streams[k] = <<>> => incoming_streams'[k] = <<>>
        /\ established_conns' \subseteq established_conns
    BY PollCases DEF groupVars
  <1>2. \/ Returns(t) /\ UNCHANGED <<accept, entries, wakers>>
        \/ /\ e.kind # "Accept" /\ Store(t, e) /\ UNCHANGED accept /\ NotShut(e) /\ Quiet(e)
           /\ UNCHANGED <<incoming_conns, incoming_streams, established_conns>>
           /\ Goes(t, e, "asking") \/ (e \notin Asking /\ Goes(t, e, "pending"))
        \/ /\ e.kind = "Accept" /\ accept' = t /\ Goes(t, e, "pending") /\ Quiet(e)
           /\ UNCHANGED <<entries, wakers, incoming_conns, incoming_streams, established_conns>>
    BY PollCases
  <1>3. e \in Call
    BY CallTypes
  <1>4. ASSUME NEW u \in Task, u # t
        PROVE  WaitOf(u)'
    <2>1. /\ CallOf(u)' = CallOf(u)
          /\ Waiting(u)' => Waiting(u)
          /\ Waits(u)' => Waits(u)
      BY <1>2, <1>4, MovedWaits DEF Returns, Goes
    <2>2. PICK d : d = CallOf(u)
      OBVIOUS
    <2>3. ASSUME Waiting(u)
          PROVE  /\ d \in Call /\ d.token \in Token /\ d # e /\ ~(d.kind = "Accept" /\ e.kind = "Accept")
                 /\ Slot(u, d) /\ NotShut(d)
      <3>1. d \in Calls[u] /\ d \in Call /\ d.token \in Token
        BY <2>2, <2>3, WaitingCall
      <3>2. d # e /\ ~(d.kind = "Accept" /\ e.kind = "Accept")
        BY <1>4, <3>1, SlotsApart
      <3> QED
        BY <2>2, <2>3, <3>1, <3>2, WaitWas
    <2>4. ASSUME Waiting(u) PROVE Slot(u, d)' /\ NotShut(d)'
      <3>1. NotShut(d)'
        BY <1>1, <2>3, <2>4 DEF NotShut
      <3>2. CASE UNCHANGED <<accept, entries, wakers>>
        BY <2>3, <2>4, <3>1, <3>2 DEF Slot
      <3>3. CASE UNCHANGED accept /\ Store(t, e)
        <4>1. wakers'[d] = wakers[d] /\ entries \subseteq entries'
          BY <2>3, <2>4, <3>3, StoreTypes DEF TypeInv
        <4> QED
          BY <2>3, <2>4, <3>1, <3>3, <4>1 DEF Slot
      <3>4. CASE e.kind = "Accept" /\ UNCHANGED <<entries, wakers>>
        BY <2>3, <2>4, <3>1, <3>4 DEF Slot
      <3> QED
        BY <1>2, <3>1, <3>2, <3>3, <3>4
    <2>5. ASSUME Waits(u) PROVE Quiet(d)' /\ Promise(d)'
      <3>1. Quiet(d) /\ Promise(d) /\ d.token \in Token
        BY <2>2, <2>3, <2>5, WaitWas, WaitsIsWaiting
      <3>2. Promise(d)'
        BY <1>1, <3>1, Stays
      <3> QED
        BY <1>1, <3>1, <3>2 DEF Quiet
    <2> QED
      BY <2>1, <2>2, <2>4, <2>5, WaitFrom
  <1>5. WaitOf(t)'
    <2>1. CASE Returns(t)
      BY <2>1, Returned DEF WaitOf
    <2>2. CASE /\ e.kind # "Accept" /\ Store(t, e) /\ UNCHANGED accept /\ NotShut(e) /\ Quiet(e)
               /\ UNCHANGED <<incoming_conns, incoming_streams, established_conns>>
               /\ Goes(t, e, "asking") \/ (e \notin Asking /\ Goes(t, e, "pending"))
      <3>1. Slot(t, e)'
        BY <2>2, StoreTypes DEF TypeInv, Slot
      <3>2. NotShut(e)' /\ Quiet(e)'
        BY <1>1, <2>2 DEF NotShut, Quiet
      <3>3. CallOf(t)' = e /\ (Waits(t)' => e \notin Asking)
        BY <2>2, GoneTo
      <3>4. Waits(t)' => Promise(e)'
        BY <3>3 DEF Promise
      <3> QED
        BY <3>1, <3>2, <3>3, <3>4, WaitFrom
    <2>3. CASE /\ e.kind = "Accept" /\ accept' = t /\ Goes(t, e, "pending") /\ Quiet(e)
               /\ UNCHANGED <<entries, wakers, incoming_conns, incoming_streams, established_conns>>
      <3>1. Slot(t, e)'
        BY <2>3 DEF Slot
      <3>2. NotShut(e)' /\ Quiet(e)'
        BY <1>1, <2>3 DEF NotShut, Quiet, Streaming
      <3>3. CallOf(t)' = e
        BY <2>3, GoneTo
      <3>4. Promise(e)'
        BY <2>3, CallTypes DEF Promise, Opening, Streaming
      <3> QED
        BY <3>1, <3>2, <3>3, <3>4, WaitFrom
    <2> QED
      BY <1>2, <2>1, <2>2, <2>3
  <1> QED
    BY <1>4, <1>5 DEF WaitInv


-----------------------------------------------------------------------------
(* Waiting, through the other steps of the tasks *)

(* What the group owes to other calls, when it is asked *)
LEMMA AskPromise ==
    ASSUME TypeInv, LockInv, NEW t \in Task, Ask(t), NEW d, d \in Asking => Known(d), Promise(d)
    PROVE  Promise(d)'
  <1> SUFFICES ASSUME d \in Asking PROVE Promise(d)'
    BY DEF Promise
  <1>0. quic \in [Token -> Conn] /\ d.token \in Token
    BY CallTypes DEF TypeInv, GroupTypes
  <1> DEFINE e == CallOf(t)
             k == e.token
             q == quic[k]
  <1>1. k \in Token /\ q \in Conn /\ batch' = batch
    BY AskCases
  <1>2. \/ UNCHANGED groupVars
        \/ (\E r \in Refused : quic' = [quic EXCEPT ![k] = [q EXCEPT !.owed = q.owed \cup {r}]]) /\ UNCHANGED events
        \/ Present(q) /\ \E c : Moved(k, c) /\ Unlocks(k, c)
    BY AskCases
  <1>3. CASE UNCHANGED groupVars
    BY <1>1, <1>3, Stays DEF groupVars
  <1>4. CASE (\E r \in Refused : quic' = [quic EXCEPT ![k] = [q EXCEPT !.owed = q.owed \cup {r}]]) /\ UNCHANGED events
    <2>0. PICK r \in Refused : quic' = [quic EXCEPT ![k] = [q EXCEPT !.owed = q.owed \cup {r}]]
      BY <1>4
    <2>1. /\ quic'[k].state = q.state /\ quic'[k].busy = q.busy /\ quic'[k].open = q.open /\ quic'[k].readable = q.readable
          /\ quic'[k].cap = q.cap /\ quic'[k].lowat = q.lowat /\ q.owed \subseteq quic'[k].owed
          /\ \A j \in Token : j # k => quic'[j] = quic[j]
      BY <1>0, <1>1, <2>0 DEF Conn
    <2>2. Coming' = Coming
      BY <1>1, <1>4 DEF Coming
    <2> HIDE DEF k
    <2>3. CASE d.token = k
      BY <2>1, <2>2, <2>3 DEF Promise, Due, Owed
    <2>4. CASE d.token # k
      BY <1>0, <2>1, <2>2, <2>4 DEF Promise
    <2> QED
      BY <2>3, <2>4
  <1>5. CASE Present(q) /\ \E c : Moved(k, c) /\ Unlocks(k, c)
    BY <1>1, <1>5, UnlockPromise
  <1> QED
    BY <1>2, <1>3, <1>4, <1>5

(* ... and to the call that it refuses: it is kept for the next unlock, or *)
(* what it asks for is not there when the connection is unlocked.          *)
LEMMA RefusedPromise ==
    ASSUME TypeInv, NEW t \in Task, Ask(t), Proceeds(t, "pending"), NEW e, e = CallOf(t)
    PROVE  Waits(t)' => Promise(e)'
  <1> DEFINE k == e.token
             q == quic[k]
             d == quic'[k]
  <1>1. /\ e \in Asking /\ k \in Token /\ q \in Conn /\ task[t].pc = "asking" /\ batch' = batch
        /\ quic \in [Token -> Conn]
    BY AskCases DEF TypeInv, GroupTypes
  <1>2. \/ Returns(t)
        \/ /\ q.busy /\ UNCHANGED events
           /\ \E r \in Refused : r.call = e /\ quic' = [quic EXCEPT ![k] = [q EXCEPT !.owed = q.owed \cup {r}]]
        \/ /\ Present(q)
           /\ \E c : /\ Moved(k, c) /\ c.state = q.state /\ Unlocks(k, c)
                     /\ \/ Returns(t) \/ Proceeds(t, "answered")
                        \/ /\ Proceeds(t, "pending") /\ (e.kind \in Opening => Owed(c, e))
                           /\ c.state = "closed" \/ ~Answers(c, e)
    BY AskCases
  <1>3. ASSUME Returns(t) \/ Proceeds(t, "answered") PROVE ~Waits(t)'
    BY <1>3, Returned, Proceeded
  <1>4. CASE /\ q.busy
             /\ \E r \in Refused : r.call = e /\ quic' = [quic EXCEPT ![k] = [q EXCEPT !.owed = q.owed \cup {r}]]
    <2>0. PICK r \in Refused : r.call = e /\ quic' = [quic EXCEPT ![k] = [q EXCEPT !.owed = q.owed \cup {r}]]
      BY <1>4
    <2>1. d.busy = q.busy /\ r \in d.owed
      BY <1>1, <2>0 DEF Conn
    <2>2. Owed(d, e)
      BY <2>0, <2>1 DEF Owed
    <2> QED
      BY <1>4, <2>1, <2>2 DEF Promise
  <1>5. CASE /\ Present(q)
             /\ \E c : /\ Moved(k, c) /\ c.state = q.state /\ Unlocks(k, c) /\ (e.kind \in Opening => Owed(c, e))
                       /\ c.state = "closed" \/ ~Answers(c, e)
    <2>1. PICK c : /\ Moved(k, c) /\ c.state = q.state /\ Unlocks(k, c) /\ (e.kind \in Opening => Owed(c, e))
                   /\ c.state = "closed" \/ ~Answers(c, e)
      BY <1>5
    <2>2. /\ quic' \in [Token -> Conn]
          /\ d.state = c.state /\ d.open = c.open /\ d.readable = c.readable /\ d.cap = c.cap
          /\ d.owed = {r \in c.owed : r.call.kind \in Opening \ c.open}
          /\ \A r \in c.owed : r.call.kind \in c.open \/ r.call.kind = "StreamRecv" => r.call \in events'
          /\ c.state = "closed" => event("Closed", k, 0) \in events'
      BY <1>1, <2>1, UnlockEffect
    <2>3. events' \subseteq Coming'
      BY DEF Coming
    <2>4. ASSUME e.kind \in Opening PROVE Owed(d, e) \/ e \in events'
      <3>1. PICK r \in c.owed : r.call = e
        BY <2>1, <2>4 DEF Owed
      <3> QED
        BY <2>2, <2>4, <3>1 DEF Owed
    <2>5. ASSUME e.kind \notin Opening, c.state # "closed" PROVE ~Due(d, e)
      <3>1. e.kind \notin d.open
        BY <1>1, <2>2, <2>5 DEF Conn
      <3>2. e.kind = "StreamRecv" => e.stream_id \notin d.readable
        BY <2>1, <2>2, <2>5 DEF Answers
      <3>3. ASSUME e.kind = "StreamSend" PROVE ~(d.cap[e.stream_id] >= d.lowat[e.stream_id])
        <4>1. e.stream_id \in Stream
          BY <1>1, <3>3 DEF Asking, Opening, Streaming, Event
        <4>2. d.cap[e.stream_id] \in Nat /\ d.lowat[e.stream_id] \in Nat \ {0}
          BY <1>1, <2>2, <4>1, CapTypes
        <4>3. ~(d.cap[e.stream_id] > 0)
          BY <2>1, <2>2, <2>5, <3>3 DEF Answers
        <4> HIDE DEF d
        <4> QED
          BY <4>2, <4>3
      <3> QED
        BY <3>1, <3>2, <3>3 DEF Due
    <2>6. c.state \in {"new", "open", "closed"}
      BY <1>5, <2>1 DEF Present
    <2> QED
      BY <2>2, <2>3, <2>4, <2>5, <2>6 DEF Promise
  <1> QED
    BY <1>2, <1>3, <1>4, <1>5

(* A question to the group that ends with would-block leaves what will wake its task. *)
LEMMA AskWaits ==
    ASSUME TypeInv, HandInv, HeldInv, LockInv, WaitInv, OneTaskPerCall, NEW t \in Task, Ask(t)
    PROVE  WaitInv'
  <1>1. /\ CallOf(t) \in Asking /\ CallOf(t) \in Calls[t] /\ task[t].pc = "asking"
        /\ UNCHANGED <<stateVars, shutdown>>
    BY AskCases
  <1>2. Returns(t) \/ Proceeds(t, "pending") \/ Proceeds(t, "answered")
    BY AskCases
  <1>3. ASSUME NEW d PROVE NotShut(d) => NotShut(d)'
    BY <1>1 DEF NotShut
  <1>4. ASSUME NEW d PROVE Quiet(d) => Quiet(d)'
    BY <1>1 DEF Quiet, stateVars
  <1>5. ASSUME NEW u \in Task, NEW d PROVE Slot(u, d) => Slot(u, d)'
    BY <1>1 DEF Slot, stateVars
  <1>6. ASSUME NEW u \in Task, u # t
        PROVE  WaitOf(u)'
    <2>1. /\ CallOf(u)' = CallOf(u)
          /\ Waiting(u)' => Waiting(u)
          /\ Waits(u)' => Waits(u)
      BY <1>2, <1>6, MovedWaits DEF Returns, Proceeds
    <2>2. PICK d : d = CallOf(u)
      OBVIOUS
    <2>3. Waiting(u) => Slot(u, d) /\ NotShut(d)
      BY <2>2, WaitWas
    <2>4. ASSUME Waits(u) PROVE Quiet(d) /\ Promise(d)'
      <3>1. Quiet(d) /\ Promise(d)
        BY <2>2, <2>4, WaitWas
      <3>2. d \in Asking => Known(d)
        BY <2>2, <2>4, WaitsKnown
      <3> QED
        BY <3>1, <3>2, AskPromise
    <2> QED
      BY <1>3, <1>4, <1>5, <2>1, <2>2, <2>3, <2>4, WaitFrom
  <1>7. WaitOf(t)'
    <2>1. CASE Returns(t)
      BY <2>1, Returned DEF WaitOf
    <2>2. CASE Proceeds(t, "pending") \/ Proceeds(t, "answered")
      <3>1. PICK e : e = CallOf(t)
        OBVIOUS
      <3>2. /\ CallOf(t)' = e
            /\ Waiting(t)' => ~task[t].woken
        BY <2>2, <3>1, Proceeded
      <3>3. Waiting(t)' => Waiting(t)
        BY <1>1, <3>2 DEF Waiting
      <3>4. Waiting(t)' => Slot(t, e)' /\ NotShut(e)'
        BY <1>3, <1>5, <3>1, <3>3, WaitWas
      <3>5. Quiet(e)'
        BY <1>1, <3>1, CallTypes DEF Quiet, Opening, Streaming
      <3>6. Waits(t)' => Promise(e)'
        <4>1. CASE Proceeds(t, "answered")
          BY <4>1, Proceeded
        <4>2. CASE Proceeds(t, "pending")
          BY <3>1, <4>2, RefusedPromise
        <4> QED
          BY <2>2, <4>1, <4>2
      <3> QED
        BY <3>2, <3>4, <3>5, <3>6, WaitFrom
    <2> QED
      BY <1>2, <2>1, <2>2
  <1> QED
    BY <1>6, <1>7 DEF WaitInv

(* The waker of a call that was answered *)
LEMMA AnsweredWaits ==
    ASSUME TypeInv, WaitInv, OneTaskPerCall, NEW t \in Task, Answered(t)
    PROVE  WaitInv'
  <1> DEFINE e == CallOf(t)
  <1>1. /\ task[t].pc = "answered"
        /\ UNCHANGED <<accept, entries, incoming_conns, established_conns, incoming_streams,
                       shutdown, quic, events, batch>>
        /\ (wakers' = Cleared({e}) /\ Returns(t)) \/ (UNCHANGED wakers /\ Goes(t, e, "panic"))
    BY DEF Answered, groupVars
  <1>2. e \in Calls[t] /\ e \in Call
    BY <1>1, CallTypes DEF TypeInv, TaskTypes, CallsMade, CallOf
  <1>3. \A d \in Call : d # e => wakers'[d] = wakers[d]
    <2>1. CASE wakers' = Cleared({e})
      BY <2>1, ClearedKeeps DEF TypeInv
    <2> QED
      BY <1>1, <2>1
  <1>4. ASSUME NEW u \in Task, u # t
        PROVE  WaitOf(u)'
    <2>1. /\ CallOf(u)' = CallOf(u)
          /\ Waiting(u)' => Waiting(u)
          /\ Waits(u)' => Waits(u)
      BY <1>1, <1>4, MovedWaits DEF Returns, Goes
    <2>2. PICK d : d = CallOf(u)
      OBVIOUS
    <2>3. ASSUME Waiting(u) PROVE Slot(u, d)' /\ NotShut(d)'
      <3>1. Slot(u, d) /\ NotShut(d) /\ d \in Calls[u] /\ d \in Call
        BY <2>2, <2>3, WaitWas, WaitingCall
      <3>2. d # e
        BY <1>2, <1>4, <3>1, SlotsApart
      <3>3. wakers'[d] = wakers[d]
        BY <1>3, <3>1, <3>2
      <3> QED
        BY <1>1, <3>1, <3>3 DEF Slot, NotShut
    <2>4. ASSUME Waits(u) PROVE Quiet(d)' /\ Promise(d)'
      <3>1. Quiet(d) /\ Promise(d)
        BY <2>2, <2>4, WaitWas
      <3> QED
        BY <1>1, <3>1, Stays DEF Quiet
    <2> QED
      BY <2>1, <2>2, <2>3, <2>4, WaitFrom
  <1>5. ~Waiting(t)' /\ ~Waits(t)'
    <2>1. CASE Returns(t)
      BY <2>1, Returned
    <2>2. CASE Goes(t, e, "panic")
      <3>1. task'[t] = [call |-> e, pc |-> "panic", woken |-> FALSE]
        BY <2>2 DEF Goes, TypeInv, TaskTypes
      <3> QED
        BY <3>1 DEF Waiting, Waits
    <2> QED
      BY <1>1, <2>1, <2>2
  <1> QED
    BY <1>4, <1>5 DEF WaitInv, WaitOf


-----------------------------------------------------------------------------
(* Waiting, through shutdown and stop *)

(* A task whose waker is taken is woken, so that it does not wait. *)
LEMMA TakenWaits ==
    ASSUME TypeInv, WaitInv, NEW calls, NEW ts, wakers' = Cleared(calls), Holding(calls) \subseteq ts,
           task' = Woken(ts), NEW u \in Task, Waiting(u)'
    PROVE  /\ Waiting(u) /\ u \notin ts
           /\ CallOf(u).kind # "Accept" => CallOf(u) \notin calls /\ wakers'[CallOf(u)] = wakers[CallOf(u)]
  <1>1. Waiting(u) /\ u \notin ts
    BY WokenWaits
  <1> SUFFICES ASSUME CallOf(u).kind # "Accept"
               PROVE  CallOf(u) \notin calls /\ wakers'[CallOf(u)] = wakers[CallOf(u)]
    BY <1>1
  <1>2. CallOf(u) \in Call /\ wakers[CallOf(u)] = u
    BY <1>1, WaitingCall, WaitWas DEF Slot
  <1>3. u # NoTask
    BY NoTaskAssumption
  <1>4. CallOf(u) \notin calls
    BY <1>1, <1>2, <1>3, ClearedKeeps DEF TypeInv
  <1> QED
    BY <1>2, <1>4, ClearedKeeps DEF TypeInv

(* A shutdown wakes the readers and writers of its stream, and forgets no other task. *)
LEMMA ShutdownWaits ==
    ASSUME TypeInv, HandInv, HeldInv, LockInv, WaitInv, NEW k \in Token, NEW s \in Stream, Shutdown(k, s)
    PROVE  WaitInv'
  <1> DEFINE calls == {event("StreamSend", k, s), event("StreamRecv", k, s)}
             ts == Holding(calls)
  <1>1. /\ shutdown' = shutdown \cup {<<k, s>>} /\ wakers' = Cleared(calls) /\ task' = Woken(ts)
        /\ UNCHANGED <<accept, entries, incoming_conns, established_conns, incoming_streams, batch>>
    BY DEF Shutdown, wake
  <1>2. ASSUME NEW d \in Call, d.kind \in Streaming, d \notin calls
        PROVE  <<d.token, d.stream_id>> # <<k, s>>
    <2>1. d = event(d.kind, d.token, d.stream_id)
      BY CallTypes
    <2> QED
      BY <1>2, <2>1 DEF Streaming
  <1>3. ts \subseteq ts
    OBVIOUS
  <1> HIDE DEF calls, ts
  <1> SUFFICES ASSUME NEW u \in Task PROVE WaitOf(u)'
    BY DEF WaitInv
  <1>4. PICK d : d = CallOf(u)
    OBVIOUS
  <1>5. CallOf(u)' = d /\ (Waits(u)' => Waits(u))
    BY <1>1, <1>4, WokenWaits
  <1>6. ASSUME Waiting(u)' PROVE Slot(u, d)' /\ NotShut(d)'
    <2>1. /\ Waiting(u)
          /\ d.kind # "Accept" => d \notin calls /\ wakers'[d] = wakers[d]
      BY <1>1, <1>3, <1>4, <1>6, TakenWaits DEF ts
    <2>2. Slot(u, d) /\ NotShut(d) /\ d \in Call
      BY <1>4, <2>1, WaitWas, WaitingCall
    <2>3. Slot(u, d)'
      BY <1>1, <2>1, <2>2 DEF Slot
    <2>4. d.kind \in Streaming => d.kind # "Accept"
      BY DEF Streaming
    <2>5. NotShut(d)'
      BY <1>1, <1>2, <2>1, <2>2, <2>4 DEF NotShut
    <2> QED
      BY <2>3, <2>5
  <1>7. ASSUME Waits(u) PROVE Quiet(d)' /\ Promise(d)'
    <2>1. Quiet(d) /\ Promise(d) /\ (d \in Asking => Known(d))
      BY <1>4, <1>7, WaitWas, WaitsKnown
    <2>2. Touched(k)
      BY TouchUnlocks DEF TypeInv
    <2> QED
      BY <1>1, <2>1, <2>2, TouchPromise DEF Quiet
  <1> QED
    BY <1>5, <1>6, <1>7, WaitFrom

(* Nobody waits after stop has woken everybody. *)
LEMMA StopWaits ==
    ASSUME TypeInv, WaitInv, StopAll
    PROVE  WaitInv'
  <1> DEFINE ts == Holding(Call) \cup {accept}
  <1>1. wakers' = Cleared(Call) /\ task' = Woken(ts) /\ Holding(Call) \subseteq ts /\ accept \in ts
    BY DEF StopAll
  <1> HIDE DEF ts
  <1>2. ASSUME NEW u \in Task, Waiting(u)' PROVE FALSE
    <2>1. /\ Waiting(u) /\ u \notin ts
          /\ CallOf(u).kind # "Accept" => CallOf(u) \notin Call
      BY <1>1, <1>2, TakenWaits
    <2>2. CallOf(u) \in Call /\ Slot(u, CallOf(u))
      BY <2>1, WaitingCall, WaitWas
    <2> QED
      BY <1>1, <2>1, <2>2 DEF Slot
  <1>3. ASSUME NEW u \in Task PROVE ~Waiting(u)' /\ ~Waits(u)'
    BY <1>2 DEF Waiting, Waits
  <1> QED
    BY <1>3 DEF WaitInv, WaitOf

(* The end of the run loop, and the drop of a connection, forget no task. *)
LEMMA StoppingWaits ==
    ASSUME TypeInv, HandInv, HeldInv, LockInv, WaitInv, Stop \/ \E k \in Token : DropConn(k)
    PROVE  WaitInv'
  <1>1. CASE StopAll
    BY <1>1, StopWaits
  <1>2. ASSUME NEW k \in Token, Touched(k), UNCHANGED <<stateVars, task, shutdown, batch>>
        PROVE  WaitInv'
    <2> SUFFICES ASSUME NEW u \in Task PROVE WaitOf(u)'
      BY DEF WaitInv
    <2>1. PICK d : d = CallOf(u)
      OBVIOUS
    <2>2. CallOf(u)' = d /\ (Waits(u)' => Waits(u)) /\ (Waiting(u)' => Waiting(u))
      BY <1>2, <2>1 DEF CallOf, Waits, Waiting
    <2>3. ASSUME Waiting(u) PROVE Slot(u, d)' /\ NotShut(d)'
      <3>1. Slot(u, d) /\ NotShut(d)
        BY <2>1, <2>3, WaitWas
      <3> QED
        BY <1>2, <3>1 DEF Slot, NotShut, stateVars
    <2>4. ASSUME Waits(u) PROVE Quiet(d)' /\ Promise(d)'
      <3>1. Quiet(d) /\ Promise(d) /\ (d \in Asking => Known(d))
        BY <2>1, <2>4, WaitWas, WaitsKnown
      <3> QED
        BY <1>2, <3>1, TouchPromise DEF Quiet, stateVars
    <2> QED
      BY <2>2, <2>3, <2>4, WaitFrom
  <1>3. ASSUME NEW k \in Token, DropConn(k) PROVE WaitInv'
    <2>1. Touched(k)
      BY <1>3, TouchUnlocks DEF TypeInv
    <2> QED
      BY <1>1, <1>2, <1>3, <2>1 DEF DropConn
  <1> QED
    BY <1>1, <1>3 DEF Stop

-----------------------------------------------------------------------------
(* Waiting, through the background thread *)

(* Events are taken from the group when the last batch was dispatched. *)
LEMMA RunPollWaits ==
    ASSUME TypeInv, WaitInv, RunPoll
    PROVE  WaitInv'
  <1>1. /\ runner = "poll" /\ batch' = events /\ events' = {}
        /\ UNCHANGED <<stateVars, task, shutdown, quic>>
    BY DEF RunPoll, taskVars
  <1>2. Coming' = Coming
    BY <1>1 DEF Coming, TypeInv, RunnerTypes
  <1> QED
    BY <1>1, <1>2 DEF WaitInv, WaitOf, Waiting, Waits, Slot, NotShut, Quiet, Promise, Due, Owed, CallOf, stateVars

(* Who waits after a batch was dispatched was not in it. *)
LEMMA DispatchWaits ==
    ASSUME TypeInv, WaitInv, Dispatch
    PROVE  WaitInv'
  <1> DEFINE ts == Holding(Reached) \cup (IF Sent("Accept") = {} THEN {} ELSE {accept})
  <1>0. StateTypes /\ TaskTypes /\ GroupTypes /\ RunnerTypes
    BY DEF TypeInv
  <1>1. /\ batch' = {} /\ on_connected /\ on_accept /\ on_stream_accept
        /\ entries' = entries \ Closing /\ wakers' = Cleared(Reached) /\ task' = Woken(ts)
        /\ UNCHANGED <<shutdown, quic, events>>
    BY DEF Dispatch, Kept, groupVars
  <1>2. Holding(Reached) \subseteq ts /\ (Sent("Accept") # {} => accept \in ts)
    OBVIOUS
  <1> HIDE DEF ts
  <1> SUFFICES ASSUME NEW u \in Task PROVE WaitOf(u)'
    BY DEF WaitInv
  <1>3. PICK d : d = CallOf(u)
    OBVIOUS
  <1>4. CallOf(u)' = d /\ (Waits(u)' => Waits(u) /\ Waiting(u)')
    BY <1>1, <1>3, WokenWaits DEF Waits, Waiting
  <1>5. ASSUME Waiting(u)'
        PROVE  /\ d \in Call /\ d.token \in Token /\ Slot(u, d) /\ NotShut(d)
               /\ d.kind # "Accept" => d \notin Reached /\ wakers'[d] = wakers[d]
               /\ d.kind = "Accept" => Sent("Accept") = {}
    <2>1. /\ Waiting(u) /\ u \notin ts
          /\ d.kind # "Accept" => d \notin Reached /\ wakers'[d] = wakers[d]
      BY <1>1, <1>2, <1>3, <1>5, TakenWaits
    <2>2. d \in Call /\ d.token \in Token /\ Slot(u, d) /\ NotShut(d)
      BY <1>3, <2>1, WaitingCall, WaitWas
    <2> QED
      BY <1>2, <2>1, <2>2 DEF Slot
  <1>6. ASSUME Waiting(u)' PROVE Slot(u, d)' /\ NotShut(d)'
    <2>1. d.kind # "Accept" => d.token \notin Closing
      BY <1>5, <1>6 DEF Reached, Of
    <2>2. d.kind = "Accept" => accept' = accept
      BY <1>1, <1>5, <1>6 DEF on_accept
    <2> QED
      BY <1>1, <1>5, <1>6, <2>1, <2>2 DEF Slot, NotShut
  <1>7. ASSUME Waits(u)' PROVE Quiet(d)'
    <2>0. /\ d \in Call /\ d.token \in Token
          /\ d.kind # "Accept" => d \notin Reached
          /\ d.kind = "Accept" => Sent("Accept") = {}
          /\ Quiet(d)
      BY <1>3, <1>4, <1>5, <1>7, WaitWas
    <2>1. ASSUME d.kind = "Accept" PROVE incoming_conns' = <<>>
      <3>1. Arriving = {}
        BY <2>0, <2>1 DEF Arriving
      <3>2. PICK q \in Seq(Token) : (Arriving = {} => q = <<>>) /\ incoming_conns' = incoming_conns \o q
        BY <1>0, <1>1, AcceptQueue
      <3>3. incoming_conns = <<>> /\ q = <<>>
        BY <2>0, <2>1, <3>1, <3>2 DEF Quiet
      <3> QED
        BY <3>2, <3>3
    <2>2. ASSUME d.kind = "StreamAccept" PROVE incoming_streams'[d.token] = <<>>
      <3>0. d \notin Reached /\ d = event("StreamAccept", d.token, 0)
        BY <2>0, <2>2, CallTypes
      <3>1. Opened(d.token) = {}
        BY <3>0 DEF Opened, Reached
      <3>2. d.token \notin Closing
        BY <2>0, <3>0 DEF Reached, Of
      <3>3. PICK q \in Seq(Stream) : /\ Opened(d.token) = {} => q = <<>>
                                     /\ incoming_streams'[d.token] = IF d.token \in Closing THEN q ELSE incoming_streams[d.token] \o q
        BY <1>0, <1>1, <2>0, StreamQueues DEF StateTypes
      <3>4. incoming_streams[d.token] = <<>> /\ q = <<>> /\ incoming_streams'[d.token] = incoming_streams[d.token] \o q
        BY <2>0, <2>2, <3>1, <3>2, <3>3 DEF Quiet
      <3> QED
        BY <3>4
    <2>3. ASSUME d.kind = "Connected" PROVE d.token \notin established_conns'
      <3>0. d \notin Reached /\ d = event("Connected", d.token, 0)
        BY <2>0, <2>3, CallTypes
      <3>1. ASSUME NEW e \in Sent("Connected") PROVE e.token # d.token
        <4>1. e \in batch /\ e \in Event /\ e.kind = "Connected" /\ e.stream_id = 0
          BY <1>0 DEF Sent, RunnerTypes, Shaped
        <4>2. e = event("Connected", e.token, 0)
          BY <4>1, CallTypes
        <4> QED
          BY <2>0, <3>0, <4>1, <4>2 DEF Reached
      <3>2. d.token \notin established_conns
        BY <2>0, <2>3 DEF Quiet
      <3> QED
        BY <1>1, <3>1, <3>2 DEF on_connected
    <2> QED
      BY <2>1, <2>2, <2>3 DEF Quiet
  <1>8. ASSUME Waits(u)' PROVE Promise(d)'
    <2> SUFFICES ASSUME d \in Asking PROVE Promise(d)'
      BY DEF Promise
    <2>0. d.kind # "Accept" /\ d \in Call /\ d.token \in Token
      BY CallTypes DEF Opening, Streaming
    <2>1. d \notin Reached /\ Promise(d)
      BY <1>3, <1>4, <1>5, <1>8, <2>0, WaitWas
    <2>2. d \notin batch /\ d.token \notin Closing
      BY <2>0, <2>1 DEF Reached, Of
    <2>3. event("Closed", d.token, 0) \notin batch
      BY <2>2 DEF Closing, Sent, event
    <2>4. Coming' = events /\ Coming = events \cup batch
      BY <1>1 DEF Coming
    <2> QED
      BY <1>1, <2>1, <2>2, <2>3, <2>4 DEF Promise, Due, Owed
  <1> QED
    BY <1>4, <1>6, <1>7, <1>8, WaitFrom


-----------------------------------------------------------------------------
(* What the invariant gives. *)

(* No task waits at the start. *)
LEMMA WaitStart == ASSUME Init PROVE HeldInv /\ LockInv /\ WaitInv
  <1>1. \A k \in Token : quic[k].busy = FALSE /\ quic[k].owed = {}
    BY NewConnType DEF Init
  <1>2. \A t \in Task : task[t].pc = "idle"
    BY DEF Init, Idle
  <1> QED
    BY <1>1, <1>2 DEF HeldInv, LockInv, LockOf, WaitInv, WaitOf, Waiting, Waits

(* Every step keeps the invariant of waiting tasks. *)
LEMMA WaitStep ==
    ASSUME TypeInv, HandInv, HeldInv, LockInv, WaitInv, OneTaskPerCall, [Next]_vars
    PROVE  WaitInv'
  <1>1. ASSUME NEW t \in Task, (\E e \in Call : Start(t, e)) \/ Resume(t) \/ Ask(t) \/ Answered(t)
        PROVE  WaitInv'
    BY <1>1, PolledCall, PollWaits, AskWaits, AnsweredWaits
  <1>2. ASSUME NEW k \in Token, Register(k) \/ Lock(k) \/ Serve(k) \/ Remove(k)
        PROVE  WaitInv'
    BY <1>2, GroupWaits
  <1>3. ASSUME NEW k \in Token, NEW s \in Stream, Shutdown(k, s)
        PROVE  WaitInv'
    BY <1>3, ShutdownWaits
  <1>4. CASE Stop \/ (\E k \in Token : DropConn(k)) \/ RunPoll \/ Dispatch
    BY <1>4, StoppingWaits, RunPollWaits, DispatchWaits
  <1>5. CASE UNCHANGED vars
    BY <1>5 DEF WaitInv, WaitOf, Waiting, Waits, Slot, NotShut, Quiet, Promise, Due, Owed, CallOf, Coming,
                vars, stateVars, taskVars, groupVars
  <1> QED
    BY <1>1, <1>2, <1>3, <1>4, <1>5 DEF Next

(* The invariant of waiting tasks gives the four properties about them. *)
LEMMA WaitGives ==
    ASSUME TypeInv, LockInv, WaitInv
    PROVE  NoLostWakeup /\ ClosedReleases /\ ShutdownReleases /\ EntryKept
  <1>1. ASSUME NEW t \in Task, Waits(t)
        PROVE  /\ Slot(t, CallOf(t)) /\ NotShut(CallOf(t)) /\ Quiet(CallOf(t)) /\ Promise(CallOf(t))
    BY <1>1, WaitWas, WaitsIsWaiting
  <1>2. NoLostWakeup
    <2>1. ASSUME NEW t \in Task, Waits(t), CallOf(t) \in Asking, Due(quic[CallOf(t).token], CallOf(t))
          PROVE  CallOf(t) \in Coming \/ quic[CallOf(t).token].busy \/ quic[CallOf(t).token].state \in {"closed", "gone"}
      <3> DEFINE e == CallOf(t)
                 c == quic[e.token]
      <3>1. e.token \in Token
        BY <2>1, CallTypes
      <3>2. Owed(c, e) \/ e \in Coming \/ c.state \in {"closed", "gone"}
        BY <1>1, <2>1 DEF Promise
      <3>3. Owed(c, e) /\ ~c.busy => e.kind \in Opening /\ e.kind \notin c.open
        BY <3>1 DEF Owed, LockInv, LockOf
      <3>4. e.kind \in Opening => e.kind \in c.open
        BY <2>1 DEF Due, Opening
      <3> QED
        BY <3>2, <3>3, <3>4
    <2> QED
      BY <1>1, <2>1 DEF NoLostWakeup, Slot, Quiet
  <1>3. ClosedReleases
    BY <1>1 DEF ClosedReleases, Promise
  <1>4. ShutdownReleases
    BY <1>1 DEF ShutdownReleases, NotShut
  <1>5. EntryKept
    <2>1. ASSUME NEW t \in Task, task[t].pc \in {"asking", "answered"}, ~task[t].woken
          PROVE  CallOf(t).token \in entries /\ wakers[CallOf(t)] = t
      <3>1. CallOf(t).kind # "Accept"
        BY <2>1, CallTypes DEF TypeInv, TaskTypes, CallsMade, CallOf, Opening, Streaming
      <3>2. Waiting(t)
        BY <2>1 DEF Waiting
      <3> QED
        BY <3>1, <3>2, WaitWas DEF Slot
    <2> QED
      BY <2>1 DEF EntryKept
  <1> QED
    BY <1>2, <1>3, <1>4, <1>5

(* The inductive invariant, which holds where each event has one waiter. *)
LEMMA WaitHolds == Spec => [](TypeInv /\ HandInv /\ HeldInv /\ LockInv /\ (OneTaskPerCall => WaitInv))
  <1> DEFINE Inv == TypeInv /\ HandInv /\ HeldInv /\ LockInv /\ (OneTaskPerCall => WaitInv)
  <1>1. Init => Inv
    BY TypeStart, HandStart, WaitStart
  <1>2. Inv /\ [Next]_vars => Inv'
    <2> SUFFICES ASSUME TypeInv, HandInv, HeldInv, LockInv, OneTaskPerCall => WaitInv, [Next]_vars
                 PROVE  TypeInv' /\ HandInv' /\ HeldInv' /\ LockInv' /\ (OneTaskPerCall' => WaitInv')
      OBVIOUS
    <2>1. OneTaskPerCall' <=> OneTaskPerCall
      BY DEF OneTaskPerCall
    <2> QED
      BY <2>1, TypeStep, HandStep, HeldStep, LockStep, WaitStep
  <1> QED
    BY <1>1, <1>2, PTL DEF Spec

(* No wake-up is lost (State::wake, on_connected, on_accept,               *)
(* on_stream_accept, the polls that store a waker, and unlock with         *)
(* handle_retry_events, handle_stream_state_changed and handle_accept):    *)
(* whatever calls the tasks make, if no two of them wait for the same      *)
(* event, then a suspended task's waker is stored where its event will     *)
(* look for it, nothing that it waits for has already been handed to       *)
(* State, and what the group tells of is told: the event is on the way, or *)
(* whoever holds the connection will raise it.  open, send and recv store  *)
(* the waker before they ask the group; were it the other way round, the   *)
(* event could be dispatched in between.  A stream is reported once, so    *)
(* that a report lost would not be repeated.                               *)
THEOREM NoLostWakeupHolds == Spec => []NoLostWakeup
  <1>1. TypeInv /\ LockInv /\ (OneTaskPerCall => WaitInv) => NoLostWakeup
    <2>1. CASE OneTaskPerCall
      BY <2>1, WaitGives
    <2>2. CASE ~OneTaskPerCall
      BY <2>2 DEF NoLostWakeup
    <2> QED
      BY <2>1, <2>2
  <1> QED
    BY <1>1, WaitHolds, PTL

(* A call on a connection that is closed is not forgotten (on_closed): the *)
(* event that wakes it is on the way or its connection is locked by who    *)
(* will raise it.                                                          *)
THEOREM ClosedReleasesHolds == Spec => []ClosedReleases
  <1>1. TypeInv /\ LockInv /\ (OneTaskPerCall => WaitInv) => ClosedReleases
    <2>1. CASE OneTaskPerCall
      BY <2>1, WaitGives
    <2>2. CASE ~OneTaskPerCall
      BY <2>2 DEF ClosedReleases
    <2> QED
      BY <2>1, <2>2
  <1> QED
    BY <1>1, WaitHolds, PTL

(* After QuicStream::shutdown no send or recv of the stream is suspended:  *)
(* those that were are woken, and a later one returns at once.             *)
THEOREM ShutdownReleasesHolds == Spec => []ShutdownReleases
  <1>1. TypeInv /\ LockInv /\ (OneTaskPerCall => WaitInv) => ShutdownReleases
    <2>1. CASE OneTaskPerCall
      BY <2>1, WaitGives
    <2>2. CASE ~OneTaskPerCall
      BY <2>2 DEF ShutdownReleases
    <2> QED
      BY <2>1, <2>2
  <1> QED
    BY <1>1, WaitHolds, PTL

(* The entry that send, recv and open unwrap after the group has answered  *)
(* is there, with the task's waker, unless the task was woken meanwhile.   *)
THEOREM EntryKeptHolds == Spec => []EntryKept
  <1>1. TypeInv /\ LockInv /\ (OneTaskPerCall => WaitInv) => EntryKept
    <2>1. CASE OneTaskPerCall
      BY <2>1, WaitGives
    <2>2. CASE ~OneTaskPerCall
      BY <2>2 DEF EntryKept
    <2> QED
      BY <2>1, <2>2
  <1> QED
    BY <1>1, WaitHolds, PTL


=============================================================================
