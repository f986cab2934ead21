------------------------------ MODULE Futures ------------------------------
(***************************************************************************)
(* The asynchronous binding of a group (futures/src/lib.rs).  A background *)
(* thread polls the group for events and hands them to the tasks that wait *)
(* for them through State, which one mutex protects.  is_established and   *)
(* the two accepts look at State alone.  open, send and recv store their   *)
(* waker in State, leave the mutex, ask the group, and enter the mutex     *)
(* again when the group has answered Ok: three steps of the model.  The    *)
(* background thread takes the events in one step and handles them, under  *)
(* the mutex, in another.                                                  *)
(*                                                                         *)
(* A task makes one call after another.  Of the group (the type parameter  *)
(* Q) the model has what decides when a suspended task is told to go on:   *)
(* the lock of a connection, the refused operations that unlock replays,   *)
(* what stream_readable_next and stream_writable_next report once, and     *)
(* the events that are raised.                                             *)
(***************************************************************************)
EXTENDS Api, Sequences, FiniteSets

CONSTANTS
    Token,          \* connections, each is registered once
    Stream,         \* the ids of the peer's streams
    Task,           \* tasks
    NoTask,         \* an empty waker slot
    Calls,          \* the calls that each task makes, named by the events they wait for
    NoCall,         \* no call is in progress
    MayStop,        \* whether stop is called
    Length,         \* the lengths of the buffers to send
    MaxCap,         \* bound: what a stream takes at a time
    MaxConns        \* bound: the connections that are registered

Event == [token : Token, kind : {"Connected", "Accept", "Closed", "StreamOpenBidi", "StreamOpenUni",
                                 "StreamAccept", "StreamSend", "StreamRecv"}, stream_id : Stream \cup {0}]

event(kind, token, stream_id) == [token |-> token, kind |-> kind, stream_id |-> stream_id]

Opening == {"StreamOpenBidi", "StreamOpenUni"}

Streaming == {"StreamSend", "StreamRecv"}

(* The calls that ask the group, and all calls.  Accept is the listener's. *)
Asking == {e \in Event : (e.kind \in Opening /\ e.stream_id = 0) \/ (e.kind \in Streaming /\ e.stream_id # 0)}

Call == Asking \cup {e \in Event : e.kind \in {"Connected", "StreamAccept", "Accept"} /\ e.stream_id = 0}

ASSUME CallAssumption == Calls \in [Task -> SUBSET Call] /\ NoCall \notin Call
ASSUME StreamAssumption == Stream \subseteq Nat \ {0}
ASSUME FiniteAssumption == IsFiniteSet(Token) /\ IsFiniteSet(Stream)
ASSUME NoTaskAssumption == NoTask \notin Task
ASSUME MayStopAssumption == MayStop \in BOOLEAN
ASSUME BoundAssumption == Length \subseteq Nat \ {0} /\ MaxCap \in Nat /\ MaxConns \in Nat

VARIABLES
    accept,             \* State.accept
    entries,            \* the tokens that have an entry in State.wakers
    wakers,             \* State.wakers, by call; NoTask where there is none
    incoming_conns,     \* State.incoming_conns
    established_conns,  \* State.established_conns
    incoming_streams,   \* State.incoming_streams, empty where there is no entry
    shutdown,           \* QuicStream.shutdown: the streams <<token, id>> shut down
    task,               \* the call of each task, where it is in it, whether it was woken
    runner,             \* where the background thread is
    batch,              \* the events it has taken from the group
    quic,               \* the connections of the group
    events,             \* the readiness events of the group
    dropped,            \* connections whose QuicConn was dropped
    stops,              \* history: stop was called
    taken,              \* history: the connections that the listener has returned
    handed              \* history: the streams that accept has returned

stateVars == <<accept, entries, wakers, incoming_conns, established_conns, incoming_streams>>

taskVars == <<shutdown, task, dropped, taken, handed>>

groupVars == <<quic, events>>

vars == <<stateVars, taskVars, groupVars, runner, batch, stops>>

-----------------------------------------------------------------------------
(* Tasks.  pc is the place in the call:                                    *)
(*   idle      no call in progress                                         *)
(*   asking    waker stored, about to ask the group                        *)
(*   answered  the group said Ok, about to remove the waker                *)
(*   pending   suspended; polled again once it is woken                    *)
(*   panic     stopped at the unwrap of a missing entry                    *)

TaskState == [call : Call \cup {NoCall}, pc : {"idle", "asking", "answered", "pending", "panic"}, woken : BOOLEAN]

(* State.stopped is false at first, and nothing sets it. *)
stopped == FALSE

Idle == [call |-> NoCall, pc |-> "idle", woken |-> FALSE]

CallOf(t) == task[t].call

Returns(t) == task' = [task EXCEPT ![t] = Idle]

Goes(t, e, pc) == task' = [task EXCEPT ![t] = [call |-> e, pc |-> pc, woken |-> FALSE]]

(* A call that is woken before it is suspended will be polled again. *)
Proceeds(t, pc) == task' = [task EXCEPT ![t].pc = pc]

Woken(ts) == [t \in Task |-> IF t \in ts /\ task[t].pc \notin {"idle", "panic"} THEN [task[t] EXCEPT !.woken = TRUE] ELSE task[t]]

Holding(calls) == {wakers[c] : c \in calls} \ {NoTask}

Cleared(calls) == [c \in Call |-> IF c \in calls THEN NoTask ELSE wakers[c]]

Of(token) == {c \in Call : c.token = token}

(* Faulty: the waker is stored for another event of the connection. *)
Store_WrongKey(t, e) ==
    /\ entries' = entries \cup {e.token}
    /\ wakers' = [wakers EXCEPT ![event("Connected", e.token, 0)] = t]

(* cx.waker().clone() is stored for the task's call. *)
Store(t, e) ==
    /\ entries' = entries \cup {e.token}
    /\ wakers' = [wakers EXCEPT ![e] = t]

(* wake: the waker of a call is removed and called; the entry stays. *)
wake(calls) ==
    /\ wakers' = Cleared(calls)
    /\ task' = Woken(Holding(calls))

-----------------------------------------------------------------------------
(* The group: a connection, and what unlock does.                          *)
(*                                                                         *)
(* busy: a thread holds the connection.  open: the kinds of stream that    *)
(* the peer lets us open.  readable: the streams that stream_recv answers. *)
(* cap: what stream_send takes of a stream now; lowat: the capacity from   *)
(* which stream_writable_next reports it.  owed is reties, the operations  *)
(* that were refused, with the length of the buffer (0 where there is      *)
(* none).  announced: the streams that StreamAccept was raised for; the    *)
(* highest of each direction is remote_stream_bidi_seen or _uni_seen.      *)

Refused == [call : Asking, len : Length \cup {0}]

Conn == [state : {"none", "new", "open", "closed", "gone"}, is_server : BOOLEAN, busy : BOOLEAN,
         open : SUBSET Opening, readable : SUBSET Stream, cap : [Stream -> 0 .. MaxCap],
         lowat : [Stream -> Length \cup {1}], owed : SUBSET Refused, announced : SUBSET Stream]

NewConn == [state |-> "none", is_server |-> FALSE, busy |-> FALSE, open |-> {}, readable |-> {},
            cap |-> [s \in Stream |-> 0], lowat |-> [s \in Stream |-> 1], owed |-> {}, announced |-> {}]

(* Credit or capacity that nobody ever asks for is left out. *)
Wanted == (UNION {Calls[t] : t \in Task}) \cap Asking

Present(c) == c.state \in {"new", "open", "closed"}

(* Of a connection that is closed only this is looked at. *)
Closed(c) == [c EXCEPT !.state = "closed", !.open = {}, !.readable = {}, !.cap = [s \in Stream |-> 0]]

(* conn.stream_writable(id, len), for a refused send: it is true, or sets  *)
(* the mark to len, of the last one if several were refused.  It fails for *)
(* a stream that is gone.                                                  *)
Short(c, s) == {r.len : r \in {o \in c.owed : o.call.kind = "StreamSend" /\ o.call.stream_id = s /\ o.len > c.cap[s]}}

stream_writable(c, failed, mark) ==
    \A s \in Stream : IF s \in failed \/ Short(c, s) = {} THEN mark[s] = c.lowat[s] ELSE mark[s] \in Short(c, s)

(* Faulty: a send that just fits is not told. *)
handle_retry_events_Strict(c, failed) ==
    {r.call : r \in {o \in c.owed :
        \/ o.call.kind \in c.open
        \/ o.call.kind = "StreamRecv"
        \/ o.call.kind = "StreamSend" /\ (o.len < c.cap[o.call.stream_id] \/ o.call.stream_id \in failed)}}

(* The refused operations that are told to go on. *)
handle_retry_events(c, failed) ==
    {r.call : r \in {o \in c.owed :
        \/ o.call.kind \in c.open
        \/ o.call.kind = "StreamRecv"
        \/ o.call.kind = "StreamSend" /\ (o.len <= c.cap[o.call.stream_id] \/ o.call.stream_id \in failed)}}

(* What happened while the connection was locked, quic[k] being the        *)
(* connection when it was: streams reached their mark, or became readable. *)
Writable(k, c, mark) == {s \in Stream : quic[k].cap[s] < mark[s] /\ mark[s] <= c.cap[s]}

Fresh(k, c) == c.readable \ quic[k].readable

(* handle_accept: a stream is new when its id is above all seen so far. *)
Unseen(c, s) == \A r \in c.announced : is_bidi(r) = is_bidi(s) => r < s

handle_stream_state_changed(k, c, mark) ==
    {event("StreamSend", k, s) : s \in Writable(k, c, mark)}
    \cup {event(IF Unseen(c, s) THEN "StreamAccept" ELSE "StreamRecv", k, s) : s \in Fresh(k, c)}

handle_state_changed(k, c) ==
    (IF quic[k].state = "new" /\ c.state = "open"
     THEN {event(IF c.is_server THEN "Accept" ELSE "Connected", k, 0)} ELSE {})
    \cup (IF c.state = "closed" THEN {event("Closed", k, 0)} ELSE {})

Settled(k, c, mark) ==
    [c EXCEPT !.busy = FALSE,
              !.lowat = mark,
              !.owed = {r \in @ : r.call.kind \in Opening \ c.open},
              !.announced = @ \cup {s \in Fresh(k, c) : Unseen(c, s)}]

(* unlock: the connection k, locked as quic[k], is unlocked as c. *)
Unlocks(k, c) ==
    \E failed \in SUBSET {r.call.stream_id : r \in {o \in c.owed : o.call.kind = "StreamSend"}}, mark \in [Stream -> Length \cup {1}] :
        /\ stream_writable(c, failed, mark)
        /\ quic' = [quic EXCEPT ![k] = Settled(k, c, mark)]
        /\ events' = events \cup handle_retry_events(c, failed)
                            \cup handle_stream_state_changed(k, c, mark) \cup handle_state_changed(k, c)

(* A call of the group whose result is not looked at; one that is refused  *)
(* is replayed by Serve, which covers what it does.                        *)
Touch(k, cs) ==
    IF Present(quic[k]) /\ ~quic[k].busy THEN \E c \in cs : Unlocks(k, c) ELSE UNCHANGED groupVars

(* A connection is registered, by create or by the acceptor. *)
Register(k) ==
    /\ quic[k].state = "none" /\ Cardinality({j \in Token : quic[j].state # "none"}) < MaxConns
    /\ \E s \in BOOLEAN : quic' = [quic EXCEPT ![k].state = "new", ![k].is_server = s]
    /\ UNCHANGED <<stateVars, taskVars, runner, batch, stops, events>>

(* A thread locks the connection to receive or send a packet, ... *)
Lock(k) ==
    /\ Present(quic[k]) /\ ~quic[k].busy
    /\ quic' = [quic EXCEPT ![k].busy = TRUE]
    /\ UNCHANGED <<stateVars, taskVars, runner, batch, stops, events>>

(* ... and unlocks it: the handshake may be complete, the peer may let us  *)
(* open a stream, a stream may have become readable, its capacity may have *)
(* changed (by the peer's window, or by what other streams sent), the      *)
(* connection may be closed.  Several of these at once are as many steps.  *)
Serve(k) ==
    LET c == quic[k]
    IN  /\ c.busy
        /\ \/ Unlocks(k, c)
           \/ c.state = "new" /\ Unlocks(k, [c EXCEPT !.state = "open"])
           \/ /\ c.state = "open"
              /\ \E o \in Opening : event(o, k, 0) \in Wanted /\ Unlocks(k, [c EXCEPT !.open = @ \cup {o}])
           \/ /\ c.state = "open"
              /\ \E s \in Stream \ c.readable : Unlocks(k, [c EXCEPT !.readable = @ \cup {s}])
           \/ /\ c.state = "open"
              /\ \E s \in c.announced, n \in 0 .. MaxCap :
                    event("StreamSend", k, s) \in Wanted /\ Unlocks(k, [c EXCEPT !.cap[s] = n])
           \/ Unlocks(k, Closed(c))
        /\ UNCHANGED <<stateVars, taskVars, runner, batch, stops>>

(* Whoever unlocked a closed connection removes it from the group. *)
Remove(k) ==
    /\ quic[k].state = "closed" /\ ~quic[k].busy
    /\ quic' = [quic EXCEPT ![k] = [NewConn EXCEPT !.state = "gone", !.is_server = quic[k].is_server,
                                                   !.announced = quic[k].announced]]
    /\ UNCHANGED <<stateVars, taskVars, runner, batch, stops, events>>

-----------------------------------------------------------------------------
(* The polls of the futures.  Each but is_established begins with a test   *)
(* of stopped.                                                             *)

is_established(t, e) ==
    LET k == e.token
    IN  /\ e.kind = "Connected"
        /\ \/ /\ k \in established_conns
              /\ established_conns' = established_conns \ {k}
              /\ Returns(t)
              /\ UNCHANGED <<entries, wakers>>
           \/ /\ k \notin established_conns
              /\ Store(t, e)
              /\ Goes(t, e, "pending")
              /\ UNCHANGED established_conns
        /\ UNCHANGED <<accept, incoming_conns, incoming_streams, taken, handed>>

(* Faulty: the stream stays in the queue. *)
accept_stream_Peek(t, e) ==
    LET k == e.token
    IN  /\ e.kind = "StreamAccept"
        /\ \/ /\ ~stopped /\ incoming_streams[k] # <<>>
              /\ handed' = [handed EXCEPT ![k] = Append(@, Head(incoming_streams[k]))]
              /\ Returns(t)
              /\ UNCHANGED <<entries, wakers>>
           \/ /\ ~stopped /\ incoming_streams[k] = <<>>
              /\ Store(t, e)
              /\ Goes(t, e, "pending")
              /\ UNCHANGED handed
        /\ UNCHANGED <<accept, incoming_conns, established_conns, incoming_streams, taken>>

accept_stream(t, e) ==
    LET k == e.token
    IN  /\ e.kind = "StreamAccept"
        /\ \/ /\ ~stopped /\ incoming_streams[k] # <<>>
              /\ incoming_streams' = [incoming_streams EXCEPT ![k] = Tail(@)]
              /\ handed' = [handed EXCEPT ![k] = Append(@, Head(incoming_streams[k]))]
              /\ Returns(t)
              /\ UNCHANGED <<entries, wakers>>
           \/ /\ ~stopped /\ incoming_streams[k] = <<>>
              /\ Store(t, e)
              /\ Goes(t, e, "pending")
              /\ UNCHANGED <<incoming_streams, handed>>
        /\ UNCHANGED <<accept, incoming_conns, established_conns, taken>>

accept_conn(t, e) ==
    /\ e.kind = "Accept"
    /\ \/ /\ ~stopped /\ incoming_conns # <<>>
          /\ incoming_conns' = Tail(incoming_conns)
          /\ taken' = taken \cup {Head(incoming_conns)}
          /\ Returns(t)
          /\ UNCHANGED accept
       \/ /\ ~stopped /\ incoming_conns = <<>>
          /\ accept' = t
          /\ Goes(t, e, "pending")
          /\ UNCHANGED <<incoming_conns, taken>>
    /\ UNCHANGED <<entries, wakers, established_conns, incoming_streams, handed>>

(* open, send and recv, up to the call of the group *)
ask(t, e) ==
    LET over == e.kind \in Streaming /\ <<e.token, e.stream_id>> \in shutdown
    IN  /\ e \in Asking
        /\ \/ /\ ~stopped /\ over
              /\ Returns(t)
              /\ UNCHANGED <<entries, wakers>>
           \/ /\ ~stopped /\ ~over
              /\ Store(t, e)
              /\ Goes(t, e, "asking")
        /\ UNCHANGED <<accept, incoming_conns, established_conns, incoming_streams, taken, handed>>

(* A task calls on what it has: a listener, a connection that it created   *)
(* or took from the listener and did not drop, a stream that accept has    *)
(* returned.  (Streams opened here are not told apart from those.)         *)
Has(e) ==
    LET k == e.token
    IN  \/ e.kind = "Accept"
        \/ /\ e.kind \in Opening \cup {"Connected", "StreamAccept"}
           /\ quic[k].state # "none" /\ k \notin dropped
           /\ quic[k].is_server => k \in taken
        \/ e.kind \in Streaming /\ \E i \in DOMAIN handed[k] : handed[k][i] = e.stream_id

PollCall(t, e) ==
    /\ is_established(t, e) \/ accept_stream(t, e) \/ accept_conn(t, e) \/ ask(t, e)
    /\ UNCHANGED <<shutdown, dropped, groupVars, runner, batch, stops>>

Start(t, e) == task[t].pc = "idle" /\ e \in Calls[t] /\ Has(e) /\ PollCall(t, e)

Resume(t) == task[t].pc = "pending" /\ task[t].woken /\ PollCall(t, CallOf(t))

(* What the group answers to a call when the connection is free: whether   *)
(* it succeeds, and the connection then.  A send takes what fits; an open  *)
(* or a recv may leave something or nothing.                               *)
Answers(c, e) ==
    \/ e.kind \in c.open
    \/ e.kind = "StreamRecv" /\ e.stream_id \in c.readable
    \/ e.kind = "StreamSend" /\ c.cap[e.stream_id] > 0

Rest(cap, len) == IF len < cap THEN cap - len ELSE 0

Used(c, e, len) ==
    IF e.kind = "StreamSend" THEN {[c EXCEPT !.cap[e.stream_id] = Rest(@, len)]}
    ELSE {c, [c EXCEPT !.open = @ \ {e.kind}, !.readable = @ \ {e.stream_id}]}

(* The group answers open, send or recv: NotFound; Busy, and the call is   *)
(* kept for the thread that holds the connection; or the call is made, it  *)
(* succeeds, is to be retried, or fails.  A non-blocking open that would   *)
(* have to wait succeeds with no stream.  What a closed connection answers *)
(* is not tracked.                                                         *)
Ask(t) ==
    LET e == CallOf(t)
        k == e.token
        c == quic[k]
        later(len) == [c EXCEPT !.owed = @ \cup {[call |-> e, len |-> len]}]
    IN  /\ task[t].pc = "asking"
        /\ \E len \in IF e.kind = "StreamSend" THEN Length ELSE {0} :
              \/ /\ ~Present(c)
                 /\ Returns(t)
                 /\ UNCHANGED groupVars
              \/ /\ Present(c) /\ c.busy
                 /\ Proceeds(t, "pending")
                 /\ quic' = [quic EXCEPT ![k] = later(len)]
                 /\ UNCHANGED events
              \/ /\ Present(c) /\ ~c.busy /\ (Answers(c, e) \/ c.state = "closed")
                 /\ Proceeds(t, "answered")
                 /\ \E d \in Used(c, e, len) : Unlocks(k, d)
              \/ /\ Present(c) /\ ~c.busy /\ (~Answers(c, e) \/ c.state = "closed")
                 /\ Proceeds(t, "pending") \/ (e.kind \in Opening /\ Proceeds(t, "answered"))
                 /\ Unlocks(k, IF e.kind \in Opening THEN later(len) ELSE c)
              \/ /\ Present(c) /\ ~c.busy
                 /\ Returns(t)
                 /\ Unlocks(k, c)
        /\ UNCHANGED <<stateVars, shutdown, dropped, taken, handed, runner, batch, stops>>

(* The waker is not needed: it is removed from the connection's entry,     *)
(* which is unwrapped although the mutex was released meanwhile.           *)
Answered(t) ==
    LET e == CallOf(t)
    IN  /\ task[t].pc = "answered"
        /\ \/ /\ e.token \in entries
              /\ wakers' = Cleared({e})
              /\ Returns(t)
           \/ /\ e.token \notin entries
              /\ Goes(t, e, "panic")
              /\ UNCHANGED wakers
        /\ UNCHANGED <<accept, entries, incoming_conns, established_conns, incoming_streams,
                       shutdown, dropped, taken, handed, groupVars, runner, batch, stops>>

(* Faulty: only the send is woken. *)
Shutdown_SendOnly(k, s) ==
    /\ \E i \in DOMAIN handed[k] : handed[k][i] = s
    /\ shutdown' = shutdown \cup {<<k, s>>}
    /\ wake({event("StreamSend", k, s)})
    /\ Touch(k, {quic[k], [quic[k] EXCEPT !.readable = @ \ {s}]})
    /\ UNCHANGED <<accept, entries, incoming_conns, established_conns, incoming_streams,
                   dropped, taken, handed, runner, batch, stops>>

(* QuicStream::shutdown, by poll_close or by drop: the flag is set and the *)
(* waiting calls of the stream are woken; then, outside the mutex, the     *)
(* group is told (a telling that comes later has the effect of Lock and    *)
(* Serve).                                                                 *)
Shutdown(k, s) ==
    /\ \E i \in DOMAIN handed[k] : handed[k][i] = s
    /\ shutdown' = shutdown \cup {<<k, s>>}
    /\ wake({event("StreamSend", k, s), event("StreamRecv", k, s)})
    /\ Touch(k, {quic[k], [quic[k] EXCEPT !.readable = @ \ {s}]})
    /\ UNCHANGED <<accept, entries, incoming_conns, established_conns, incoming_streams,
                   dropped, taken, handed, runner, batch, stops>>

-----------------------------------------------------------------------------
(* stop: every waker is taken and called. *)
StopAll ==
    /\ accept' = NoTask
    /\ entries' = {}
    /\ wakers' = Cleared(Call)
    /\ task' = Woken(Holding(Call) \cup {accept})
    /\ stops' = TRUE
    /\ UNCHANGED <<incoming_conns, established_conns, incoming_streams>>

Stop ==
    /\ MayStop
    /\ StopAll
    /\ UNCHANGED <<shutdown, dropped, taken, handed, groupVars, runner, batch>>

(* A QuicConn is dropped, no call on it being in progress: the group is    *)
(* told to close the connection, which will be closed later, or at once    *)
(* when it has processed no packet.  One that owns its group stops it.     *)
DropConn(k) ==
    /\ quic[k].state # "none" /\ k \notin dropped
    /\ quic[k].is_server => k \in taken
    /\ \A t \in Task : task[t].pc # "panic" =>
          ~(CallOf(t) \in Call /\ CallOf(t).token = k /\ CallOf(t).kind \in Opening \cup {"Connected", "StreamAccept"})
    /\ dropped' = dropped \cup {k}
    /\ Touch(k, {quic[k]} \cup (IF quic[k].state = "new" THEN {Closed(quic[k])} ELSE {}))
    /\ \/ UNCHANGED <<stateVars, task, stops>>
       \/ MayStop /\ StopAll
    /\ UNCHANGED <<shutdown, taken, handed, runner, batch>>

-----------------------------------------------------------------------------
(* run_once, in the background thread: the events are taken from the       *)
(* group, whose poll blocks until there are some, ...                      *)
RunPoll ==
    /\ runner = "poll" /\ events # {}
    /\ runner' = "polled"
    /\ batch' = events
    /\ events' = {}
    /\ UNCHANGED <<stateVars, taskVars, quic, stops>>

(* ... and handled under the mutex, in the order of the batch.  The order  *)
(* matters to the queues: which connection or stream comes first, and      *)
(* which streams were queued when Closed removed the queue.                *)
Orders(S) == {q \in [1 .. Cardinality(S) -> S] : \A x \in S : \E i \in DOMAIN q : q[i] = x}

Sent(kind) == {e \in batch : e.kind = kind}

Closing == {e.token : e \in Sent("Closed")}

(* Faulty: Closed discards the wakers. *)
Reached_NotClosed == (batch \cap Call) \cup {event("StreamAccept", e.token, 0) : e \in Sent("StreamAccept")}

(* wake and on_closed: the calls whose wakers are called *)
Reached == (batch \cap Call) \cup {event("StreamAccept", e.token, 0) : e \in Sent("StreamAccept")}
           \cup UNION {Of(k) : k \in Closing}

(* Faulty: wake drops the entry of the connection with the waker. *)
Kept_Woken == entries \ {c.token : c \in Reached}

(* The connections that keep their entry. *)
Kept == entries \ Closing

on_connected == established_conns' = established_conns \cup {e.token : e \in Sent("Connected")}

on_accept ==
    /\ \E q \in Orders({e.token : e \in Sent("Accept")}) : incoming_conns' = incoming_conns \o q
    /\ accept' = IF Sent("Accept") = {} THEN accept ELSE NoTask

on_stream_accept ==
    \E q \in [Token -> UNION {Orders(S) : S \in SUBSET Stream}], n \in [Token -> 0 .. Cardinality(Stream)] :
        /\ \A k \in Token : q[k] \in Orders({e.stream_id : e \in {f \in Sent("StreamAccept") : f.token = k}})
        /\ \A k \in Token : n[k] <= Len(q[k])
        /\ incoming_streams' = [k \in Token |-> IF k \in Closing THEN SubSeq(q[k], n[k] + 1, Len(q[k]))
                                                              ELSE incoming_streams[k] \o q[k]]

Dispatch ==
    /\ runner = "polled"
    /\ batch' = {}
    /\ on_connected /\ on_accept /\ on_stream_accept
    /\ entries' = Kept
    /\ wakers' = Cleared(Reached)
    /\ task' = Woken(Holding(Reached) \cup (IF Sent("Accept") = {} THEN {} ELSE {accept}))
    /\ runner' = IF stopped /\ \A k \in Token : ~Present(quic[k]) THEN "ended" ELSE "poll"
    /\ UNCHANGED <<shutdown, dropped, taken, handed, groupVars, stops>>

-----------------------------------------------------------------------------
Init ==
    /\ accept = NoTask
    /\ entries = {}
    /\ wakers = [c \in Call |-> NoTask]
    /\ incoming_conns = <<>>
    /\ established_conns = {}
    /\ incoming_streams = [k \in Token |-> <<>>]
    /\ shutdown = {} /\ dropped = {} /\ taken = {}
    /\ handed = [k \in Token |-> <<>>]
    /\ task = [t \in Task |-> Idle]
    /\ runner = "poll"
    /\ batch = {}
    /\ quic = [k \in Token |-> NewConn]
    /\ events = {}
    /\ stops = FALSE

Next ==
    \/ \E t \in Task : (\E e \in Call : Start(t, e)) \/ Resume(t) \/ Ask(t) \/ Answered(t)
    \/ \E k \in Token, s \in Stream : Shutdown(k, s)
    \/ \E k \in Token : Register(k) \/ Lock(k) \/ Serve(k) \/ Remove(k) \/ DropConn(k)
    \/ Stop
    \/ RunPoll \/ Dispatch

Spec == Init /\ [][Next]_vars

(* The background thread goes on; a task that was woken is polled and goes *)
(* on; a guard is dropped; who unlocked a closed connection removes it     *)
(* whatever others do with it meanwhile.  Nobody has to start a call.      *)
Fairness ==
    /\ WF_vars(RunPoll \/ Dispatch)
    /\ \A t \in Task : WF_vars(Resume(t) \/ Ask(t) \/ Answered(t))
    /\ \A k \in Token : WF_vars(Serve(k)) /\ SF_vars(Remove(k))

FairSpec == Spec /\ Fairness

-----------------------------------------------------------------------------
(* Properties. *)

(* Every variable has its type; a waker is stored in an entry, and under   *)
(* an event that its task waits for.                                       *)
TypeOK ==
    /\ accept \in Task \cup {NoTask}
    /\ entries \subseteq Token
    /\ wakers \in [Call -> Task \cup {NoTask}]
    /\ \A c \in Call : wakers[c] # NoTask => c.token \in entries /\ c \in Calls[wakers[c]]
    /\ incoming_conns \in Seq(Token)
    /\ established_conns \subseteq Token
    /\ incoming_streams \in [Token -> Seq(Stream)]
    /\ shutdown \subseteq Token \X Stream
    /\ dropped \subseteq Token /\ taken \subseteq Token
    /\ handed \in [Token -> Seq(Stream)]
    /\ task \in [Task -> TaskState]
    /\ runner \in {"poll", "polled", "ended"}
    /\ batch \subseteq Event /\ events \subseteq Event
    /\ quic \in [Token -> Conn]
    /\ stops \in BOOLEAN

Waits(t) == task[t].pc = "pending" /\ ~task[t].woken

Coming == events \cup batch

(* At most one task waits for each event, and one for inbound connections; *)
(* State has one slot for each.                                            *)
OneTaskPerCall ==
    \A t, u \in Task : t # u =>
        \A c \in Calls[t], d \in Calls[u] : c # d /\ ~(c.kind = "Accept" /\ d.kind = "Accept")

(* What the group tells of.  A send is told of from the mark on, although  *)
(* the group would take a part of its buffer before.                       *)
Due(c, e) ==
    \/ e.kind \in c.open
    \/ e.kind = "StreamRecv" /\ e.stream_id \in c.readable
    \/ e.kind = "StreamSend" /\ c.cap[e.stream_id] >= c.lowat[e.stream_id]

(* The waker of a suspended task is stored, and what the task waits for    *)
(* has not come already: an inbound connection or stream is not queued,    *)
(* the connection is not marked as established; and where the peer's       *)
(* credit, data or capacity has come that the call is told of, its event   *)
(* is on the way, or the thread that holds the connection will raise it.   *)
(* open, send and recv leave the mutex between storing the waker and       *)
(* asking the group; that they do it in this order, and that each stream   *)
(* is reported once, is what this depends on.                              *)
NoLostWakeup ==
    OneTaskPerCall => \A t \in Task : Waits(t) =>
        LET e == CallOf(t)
            c == quic[e.token]
        IN  /\ e.kind = "Accept" => accept = t /\ incoming_conns = <<>>
            /\ e.kind # "Accept" => e.token \in entries /\ wakers[e] = t
            /\ e.kind = "StreamAccept" => incoming_streams[e.token] = <<>>
            /\ e.kind = "Connected" => e.token \notin established_conns
            /\ e \in Asking /\ Due(c, e) => e \in Coming \/ c.busy \/ c.state \in {"closed", "gone"}

(* open, send and recv are not left suspended on a connection that is      *)
(* closed: its Closed event is on the way, or the thread that holds it     *)
(* will raise it.                                                          *)
ClosedReleases ==
    OneTaskPerCall => \A t \in Task : Waits(t) /\ CallOf(t) \in Asking =>
        LET c == quic[CallOf(t).token]
        IN  c.state \in {"closed", "gone"} => c.busy \/ event("Closed", CallOf(t).token, 0) \in Coming

(* After shutdown no send or recv of the stream stays suspended. *)
ShutdownReleases ==
    OneTaskPerCall => \A t \in Task : Waits(t) /\ CallOf(t).kind \in Streaming =>
        <<CallOf(t).token, CallOf(t).stream_id>> \notin shutdown

(* The unwrap after the group has answered fails only where the entry was  *)
(* swept away by Closed or by stop, and then the task was woken with it: a *)
(* waker is not lost with its entry.                                       *)
EntryKept ==
    OneTaskPerCall => \A t \in Task : task[t].pc \in {"asking", "answered"} /\ ~task[t].woken =>
        CallOf(t).token \in entries /\ wakers[CallOf(t)] = t

Range_(q) == {q[i] : i \in DOMAIN q}

Distinct(q) == \A i, j \in DOMAIN q : q[i] = q[j] => i = j

(* What the group announces is handed out once: an established inbound     *)
(* connection is announced, queued or returned by the listener; so is each *)
(* stream of a connection that is not closed.                              *)
HandedOutOnce ==
    /\ Distinct(incoming_conns) /\ Range_(incoming_conns) \cap taken = {}
    /\ \A k \in Token :
          /\ quic[k].is_server /\ quic[k].state = "open" =>
                event("Accept", k, 0) \in Coming \/ k \in Range_(incoming_conns) \/ k \in taken
          /\ Distinct(handed[k] \o incoming_streams[k])
          /\ quic[k].state = "open" =>
                \A s \in quic[k].announced :
                    event("StreamAccept", k, s) \in Coming \/ s \in Range_(handed[k] \o incoming_streams[k])

-----------------------------------------------------------------------------
(* A statement of the documentation that the code does not keep. *)

(* "Stop this group, and cancel any running background thread": once stop  *)
(* was called and the last connection is gone, the background thread ends. *)
StopEnds == (stops /\ \A k \in Token : quic[k].state = "gone") ~> runner = "ended"
=============================================================================
