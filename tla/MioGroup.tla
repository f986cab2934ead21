------------------------------ MODULE MioGroup ------------------------------
(***************************************************************************)
(* The group that owns UDP sockets (mio/src/group.rs): one thread runs     *)
(* poll, which sends what connections have to send, sleeps in mio, and     *)
(* feeds arriving packets to connections; application threads call the     *)
(* poll group underneath and then wake the sleeper.                        *)
(*                                                                         *)
(* The poll group is seen through its results.  A call on a connection is  *)
(* one step, except that an application's stream_send or stream_recv keeps *)
(* the connection locked for a while (module Group has the other           *)
(* interleavings).  What quiche answers is chosen freely: when its timer   *)
(* and its pacer fire, whether the connection is now closed, and which     *)
(* events other than Send it raises, of which "App" stands for any the     *)
(* application waits for.  A refused operation is replayed as one of them, *)
(* or as a Recv event, which poll drops (on_quic_recv) and which is left   *)
(* out; only a refused close is remembered.  A call that is answered       *)
(* NotFound is left out.  One of the group's sockets is modelled.          *)
(***************************************************************************)
EXTENDS TimedReadiness, QuicSocket

CONSTANTS
    Token,          \* the connections
    App,            \* the application's threads
    IsServer,       \* whether the group has an acceptor
    Delays,         \* bound: how far ahead quiche sets its timers
    MaxPackets,     \* bound: the packets handed to the socket
    MaxInbox        \* bound: the packets that wait in the kernel

ASSUME TokenAssumption == Token # {}

VARIABLES
    now,            \* the clock
    conns,          \* the connections in the group
    rd,             \* its readiness events
    sock,           \* the socket's sending side
    inbox,          \* the kernel's receive queue, as tokens of the addressees
    edges,          \* what mio::Poll has to report
    loop,           \* the thread that runs poll
    app,            \* where each application thread is
    accepted,       \* history: the packets that send_to took
    own,            \* history: what poll itself inserted since it asked for events
    late            \* history: poll sleeps for a release time that had passed

vars == <<now, conns, rd, sock, inbox, edges, loop, app, accepted, own, late>>

-----------------------------------------------------------------------------
Edge == {"waker", "readable", "writable"}

Kind == {"Send", "App", "Closed"}

Event == [token : Token, kind : Kind]

E(t, kinds) == {[token |-> t, kind |-> k] : k \in kinds}

(* refused: an application's close found it locked.  timer and release:    *)
(* quiche's next timeout and the pacer's release time.                     *)
Conn == [locked : BOOLEAN, refused : BOOLEAN, closed : BOOLEAN,
         timer : Instant \cup {Never}, release : Instant \cup {Never}]

NewConn == [locked |-> FALSE, refused |-> FALSE, closed |-> FALSE, timer |-> Never, release |-> Never]

Future == {Never} \cup ({now + d : d \in Delays} \cap Instant)

(* Where the thread of poll is:                                            *)
(*   call    with its caller          sleep   in mio's poll                *)
(*   poll    about to ask the group   events  handling what mio reported   *)
(*   handle  handling events          reply   answering a received packet  *)
(*   failed  an I/O error was returned, and the caller gave up             *)
Loop == [pc : {"call", "poll", "handle", "sleep", "events", "reply", "failed"},
         todo : SUBSET Event, deadline : Instant \cup {Never}, ready : SUBSET Edge,
         token : Token]

(* An application thread is outside, or holds a connection's guard, or is  *)
(* about to call the waker, or ended in a panic.                           *)
AppAt == [pc : {"idle", "held", "wake", "panic"}, token : Token]

AnyToken == CHOOSE t \in Token : TRUE

With(f, k, v) == [j \in DOMAIN f \cup {k} |-> IF j = k THEN v ELSE f[j]]

-----------------------------------------------------------------------------
(* The poll group's calls.  A result is what they leave: [cs, rd]. *)

(* The connection's unlock: quiche's news become events, the Send event is *)
(* set; the caller removes a closed connection.                            *)
unlock(t, c, raised, send_done, reaps) ==
    LET delay == delay_send(c.timer, c.release, now, send_done)
        send == IF send_done /\ delay = Never THEN remove(rd, E(t, {"Send"}))
                                              ELSE insert(rd, E(t, {"Send"}), delay)
        closed == IF c.closed THEN {"Closed"} ELSE {}
        left == [c EXCEPT !.locked = FALSE, !.refused = FALSE]
    IN  [cs |-> IF c.closed /\ reaps THEN Drop(conns, {t}) ELSE With(conns, t, left),
         rd |-> insert(send, E(t, raised \cup closed), Never)]

Unchanged == [cs |-> conns, rd |-> rd]

(* A close, or another operation, finds the connection locked. *)
Refuse(t) == {[cs |-> [conns EXCEPT ![t].refused = TRUE], rd |-> rd], Unchanged}

(* What a quiche call other than send may leave. *)
Touched(c) == {[c EXCEPT !.timer = i] : i \in Future}

MayClose(cs) == cs \cup {[c EXCEPT !.closed = TRUE, !.timer = Never] : c \in cs}

(* A refused close is made by the unlock. *)
Replayed(c) == IF c.refused THEN MayClose(Touched(c)) ELSE Touched(c)

Free(t) == t \in DOMAIN conns /\ ~conns[t].locked

(* A token for a new connection.  One that a guard outlived comes again    *)
(* only after 2^32 others (module Group has the wrap).                     *)
Fresh(t) == t \notin DOMAIN conns /\ \A a \in App : app[a].pc = "held" => app[a].token # t

Becomes(r) == conns' = r.cs /\ rd' = r.rd

(* send: the pacer may refuse, on_timeout may close the connection, and    *)
(* then there is a packet, or Done, or an error.                           *)
Timed(c) == IF c.timer # Never /\ c.timer <= now THEN MayClose(Touched(c)) ELSE {c}

Sends(t) ==
    LET c == conns[t]
        open == {d \in Timed(c) : ~d.closed}
        paced == UNION {{[d EXCEPT !.release = i] : i \in Future} : d \in UNION {Touched(e) : e \in open}}
    IN  IF release_time(c.release, now) THEN {[g |-> unlock(t, c, {}, FALSE, TRUE), packet |-> FALSE]}
        ELSE {[g |-> unlock(t, d, {}, FALSE, TRUE), packet |-> TRUE] : d \in paced}
             \cup {[g |-> unlock(t, d, {}, TRUE, TRUE), packet |-> FALSE] : d \in Timed(c)}
             \cup {[g |-> unlock(t, d, {}, FALSE, TRUE), packet |-> FALSE] : d \in open}

SendResults(t) ==
    IF Free(t) THEN Sends(t)
    ELSE {[g |-> Unchanged, packet |-> FALSE]}

-----------------------------------------------------------------------------
(* The application's threads. *)

(* register and connect *)
Register(a, t) ==
    /\ app[a].pc = "idle"
    /\ Fresh(t)
    /\ \E i \in Future : Becomes(unlock(t, [NewConn EXCEPT !.timer = i], {}, FALSE, FALSE))
    /\ app' = [app EXCEPT ![a] = [pc |-> "wake", token |-> t]]
    /\ UNCHANGED <<now, sock, inbox, edges, loop, accepted, own, late>>

(* deregister does not look at the lock. *)
Deregister(a, t) ==
    /\ app[a].pc = "idle"
    /\ t \in DOMAIN conns
    /\ conns' = Drop(conns, {t})
    /\ app' = [app EXCEPT ![a] = [pc |-> "wake", token |-> t]]
    /\ UNCHANGED <<now, rd, sock, inbox, edges, loop, accepted, own, late>>

(* close, stream_open, stream_shutdown: within one critical section.  The  *)
(* unlock's answer is not looked at, so a connection closed at once stays. *)
LockedCalls(t) ==
    IF Free(t) THEN UNION {{unlock(t, c, r, FALSE, FALSE) : c \in MayClose(Touched(conns[t]))} : r \in {{}, {"App"}}}
    ELSE Refuse(t)

CallLocked(a, t) ==
    /\ app[a].pc = "idle"
    /\ t \in DOMAIN conns
    /\ \E r \in LockedCalls(t) : Becomes(r)
    /\ app' = [app EXCEPT ![a] = [pc |-> "wake", token |-> t]]
    /\ UNCHANGED <<now, sock, inbox, edges, loop, accepted, own, late>>

(* stream_send, stream_recv: the guard is taken, and dropped later. *)
CallGuarded(a, t) ==
    /\ app[a].pc = "idle"
    /\ t \in DOMAIN conns
    /\ conns' = IF Free(t) THEN [conns EXCEPT ![t].locked = TRUE] ELSE conns
    /\ app' = [app EXCEPT ![a] = [pc |-> IF Free(t) THEN "held" ELSE "wake", token |-> t]]
    /\ UNCHANGED <<now, rd, sock, inbox, edges, loop, accepted, own, late>>

(* Faulty: the waker is called only where a guard was not needed. *)
GuardDrop_NoWake(a) ==
    LET t == app[a].token
    IN  /\ app[a].pc = "held"
        /\ t \in DOMAIN conns
        /\ \E c \in Replayed(conns[t]), r \in {{}, {"App"}} : Becomes(unlock(t, c, r, FALSE, TRUE))
        /\ app' = [app EXCEPT ![a].pc = "idle"]
        /\ UNCHANGED <<now, sock, inbox, edges, loop, accepted, own, late>>

(* The guard's unlock, which does not find a connection that was           *)
(* deregistered meanwhile (expect("Unlock.")).                             *)
GuardDrop(a) ==
    LET t == app[a].token
    IN  /\ app[a].pc = "held"
        /\ \/ /\ t \in DOMAIN conns
              /\ \E c \in Replayed(conns[t]), r \in {{}, {"App"}} : Becomes(unlock(t, c, r, FALSE, TRUE))
              /\ app' = [app EXCEPT ![a].pc = "wake"]
           \/ /\ t \notin DOMAIN conns
              /\ app' = [app EXCEPT ![a].pc = "panic"]
              /\ UNCHANGED <<conns, rd>>
        /\ UNCHANGED <<now, sock, inbox, edges, loop, accepted, own, late>>

(* self.waker.wake(), the last thing every operation does. *)
Wake(a) ==
    /\ app[a].pc = "wake"
    /\ edges' = edges \cup {"waker"}
    /\ app' = [app EXCEPT ![a] = [pc |-> "idle", token |-> AnyToken]]
    /\ UNCHANGED <<now, conns, rd, sock, inbox, loop, accepted, own, late>>

-----------------------------------------------------------------------------
(* poll *)

Goto(pc) == loop' = [loop EXCEPT !.pc = pc]

Call ==
    /\ loop.pc = "call"
    /\ Goto("poll")
    /\ UNCHANGED <<now, conns, rd, sock, inbox, edges, app, accepted, own, late>>

Poll ==
    /\ loop.pc = "poll"
    /\ loop' = [loop EXCEPT !.pc = "handle", !.deadline = next_release_time(rd, now),
                            !.todo = polled(rd, now)]
    /\ rd' = poll(rd, now)
    /\ own' = {}
    /\ UNCHANGED <<now, conns, sock, inbox, edges, app, accepted, late>>

(* A packet is handed to the socket; IsFull loses it, an I/O error ends poll. *)
Hand(packet, next) ==
    \/ /\ ~packet
       /\ loop' = next
       /\ UNCHANGED <<sock, accepted>>
    \/ /\ packet
       /\ Len(accepted) < MaxPackets
       /\ \E r \in send_to(sock, Len(accepted) + 1) :
             /\ sock' = r.s
             /\ accepted' = IF r.took THEN Append(accepted, Len(accepted) + 1) ELSE accepted
             /\ loop' = IF r.res = "IO" THEN [next EXCEPT !.pc = "failed"] ELSE next

(* Where an event is in a readiness set. *)
Place(r, e) == IF e \in r.events THEN "ready" ELSE IF e \in DOMAIN r.delayed THEN "delayed" ELSE "none"

on_quic_send(e) ==
    /\ loop.pc = "handle"
    /\ e \in loop.todo
    /\ e.kind = "Send"
    /\ \E r \in SendResults(e.token) :
          /\ Becomes(r.g)
          /\ own' = own \cup {f \in Event : Place(r.g.rd, f) \notin {Place(rd, f), "none"}}
          /\ Hand(r.packet, [loop EXCEPT !.todo = @ \ {e}])
    /\ UNCHANGED <<now, inbox, edges, app, late>>

Handled == loop.pc = "handle" /\ \A e \in loop.todo : e.kind # "Send"

Return ==
    /\ Handled
    /\ loop.todo # {}
    /\ loop' = [loop EXCEPT !.pc = "call", !.todo = {}, !.deadline = Never]
    /\ UNCHANGED <<now, conns, rd, sock, inbox, edges, app, accepted, own, late>>

(* mio_poll_once: the release time found before the Send events were       *)
(* handled becomes a timeout; one that has passed is none.                 *)
checked_duration_since(deadline) == IF deadline # Never /\ deadline >= now THEN deadline ELSE Never

Sleep ==
    /\ Handled
    /\ loop.todo = {}
    /\ loop' = [loop EXCEPT !.pc = "sleep", !.deadline = checked_duration_since(@)]
    /\ late' = (loop.deadline # Never /\ loop.deadline < now)
    /\ UNCHANGED <<now, conns, rd, sock, inbox, edges, app, accepted, own>>

WakeUp ==
    /\ loop.pc = "sleep"
    /\ edges # {} \/ (loop.deadline # Never /\ now >= loop.deadline)
    /\ loop' = [loop EXCEPT !.pc = "events", !.ready = edges \ {"waker"}, !.deadline = Never]
    /\ edges' = {}
    /\ late' = FALSE
    /\ UNCHANGED <<now, conns, rd, sock, inbox, app, accepted, own>>

(* on_udp_recv reads until the socket would block. *)
Received(r, next) ==
    /\ Becomes(r)
    /\ inbox' = Tail(inbox)
    /\ loop' = [loop EXCEPT !.pc = next, !.token = IF next = "reply" THEN Head(inbox) ELSE @]

(* One packet.  A locked connection refuses it and is waited for (park).   *)
(* With an acceptor there may be something to send at once.                *)
RecvPacket(t) ==
    \/ /\ Free(t)
       /\ \E c \in MayClose(Touched(conns[t])), r \in {{}, {"App"}} :
             Received(unlock(t, c, r, FALSE, TRUE), IF IsServer THEN "reply" ELSE "events")
       /\ UNCHANGED <<sock, accepted>>
    \/ /\ t \notin DOMAIN conns
       /\ Received(Unchanged, "events")
       /\ UNCHANGED <<sock, accepted>>
    \/ /\ Fresh(t)
       /\ IsServer
       /\ \E i \in Future : Received(unlock(t, [NewConn EXCEPT !.timer = i], {}, FALSE, TRUE), "reply")
       /\ UNCHANGED <<sock, accepted>>
    \/ /\ t \notin DOMAIN conns
       /\ IsServer
       /\ inbox' = Tail(inbox)
       /\ Hand(TRUE, loop)
       /\ UNCHANGED <<conns, rd>>

on_udp_recv ==
    /\ loop.pc = "events"
    /\ "readable" \in loop.ready
    /\ \/ /\ inbox = <<>>
          /\ loop' = [loop EXCEPT !.ready = @ \ {"readable"}]
          /\ UNCHANGED <<conns, rd, sock, inbox, accepted>>
       \/ /\ inbox # <<>>
          /\ RecvPacket(Head(inbox))
       \/ /\ inbox # <<>>
          /\ Goto("failed")
          /\ inbox' = Tail(inbox)
          /\ UNCHANGED <<conns, rd, sock, accepted>>
    /\ UNCHANGED <<now, edges, app, own, late>>

(* The send that ends recv_with_acceptor. *)
Reply ==
    /\ loop.pc = "reply"
    /\ \E r \in SendResults(loop.token) :
          /\ Becomes(r.g)
          /\ Hand(r.packet, [loop EXCEPT !.pc = "events", !.token = AnyToken])
    /\ UNCHANGED <<now, inbox, edges, app, own, late>>

on_udp_send ==
    /\ loop.pc = "events"
    /\ "readable" \notin loop.ready
    /\ "writable" \in loop.ready
    /\ \E r \in flush(sock) :
          /\ sock' = r.s
          /\ loop' = [loop EXCEPT !.ready = {}, !.pc = IF r.res = "IO" THEN "failed" ELSE "events"]
    /\ UNCHANGED <<now, conns, rd, inbox, edges, app, accepted, own, late>>

Again ==
    /\ loop.pc = "events"
    /\ loop.ready = {}
    /\ Goto("poll")
    /\ UNCHANGED <<now, conns, rd, sock, inbox, edges, app, accepted, own, late>>

-----------------------------------------------------------------------------
(* Time, the kernel and the network. *)

Tick ==
    /\ now < MaxTime
    /\ now' = now + 1
    /\ UNCHANGED <<conns, rd, sock, inbox, edges, loop, app, accepted, own, late>>

Arrive(t) ==
    /\ Len(inbox) < MaxInbox
    /\ inbox' = Append(inbox, t)
    /\ edges' = edges \cup {"readable"}
    /\ UNCHANGED <<now, conns, rd, sock, loop, app, accepted, own, late>>

Unblock ==
    /\ sock.blocked
    /\ sock' = [sock EXCEPT !.blocked = FALSE]
    /\ edges' = edges \cup {"writable"}
    /\ UNCHANGED <<now, conns, rd, inbox, loop, app, accepted, own, late>>

-----------------------------------------------------------------------------
(* bind; a socket that is registered is reported writable. *)
Init ==
    /\ now = 0
    /\ conns = [t \in {} |-> NewConn]
    /\ rd = empty_readiness
    /\ sock = new_socket
    /\ inbox = <<>>
    /\ edges = {"writable"}
    /\ loop = [pc |-> "call", todo |-> {}, deadline |-> Never, ready |-> {}, token |-> AnyToken]
    /\ app = [a \in App |-> [pc |-> "idle", token |-> AnyToken]]
    /\ accepted = <<>>
    /\ own = {}
    /\ late = FALSE

LoopStep ==
    \/ Call \/ Poll \/ Return \/ Sleep \/ WakeUp \/ Again
    \/ \E e \in loop.todo : on_quic_send(e)
    \/ on_udp_recv \/ Reply \/ on_udp_send

AppStep(a) ==
    \/ \E t \in Token : Register(a, t) \/ Deregister(a, t) \/ CallLocked(a, t) \/ CallGuarded(a, t)
    \/ GuardDrop(a) \/ Wake(a)

Next ==
    \/ LoopStep
    \/ \E a \in App : AppStep(a)
    \/ Tick \/ Unblock
    \/ \E t \in Token : Arrive(t)

Spec == Init /\ [][Next]_vars

(* The thread of poll and the clock run, and no application thread stays   *)
(* inside a call.  Nothing is owed by the peer or by the application.      *)
FairSpec ==
    /\ Spec
    /\ WF_vars(LoopStep)
    /\ WF_vars(Tick)
    /\ \A a \in App : WF_vars(GuardDrop(a) \/ Wake(a))

-----------------------------------------------------------------------------
(* Properties. *)

(* The types; an event is ready or delayed, never both (readiness.rs). *)
TypeOK ==
    /\ now \in Instant
    /\ DOMAIN conns \subseteq Token /\ \A t \in DOMAIN conns : conns[t] \in Conn
    /\ rd.events \subseteq Event
    /\ DOMAIN rd.delayed \subseteq Event \ rd.events
    /\ \A e \in DOMAIN rd.delayed : rd.delayed[e] \in Instant
    /\ sock.blocked \in BOOLEAN
    /\ edges \subseteq Edge
    /\ loop \in Loop
    /\ app \in [App -> AppAt]
    /\ own \subseteq Event
    /\ late \in BOOLEAN

(* send_to and flush (udp.rs) keep the order of the packets and lose none  *)
(* that was accepted, and the queue stays within its limit (the assertion  *)
(* after push_back), however often the kernel blocks or fails.             *)
SendFifo ==
    /\ sock.wire \o sock.sending = accepted
    /\ Len(sock.sending) <= Limit

(* mio reports edges, so what is left undone must still be reported: a     *)
(* packet waits in the queue only while the kernel blocks or a writable    *)
(* event is on its way (on_udp_send), and one waits in the kernel only     *)
(* while a readable event is (on_udp_recv).  An error ends this.           *)
EdgesServed ==
    loop.pc # "failed" =>
        /\ sock.sending # <<>> => sock.blocked \/ "writable" \in edges \cup loop.ready
        /\ inbox # <<>> => "readable" \in edges \cup loop.ready

Asleep == loop.pc = "sleep" /\ edges = {} /\ \A a \in App : app[a].pc # "wake"

(* No event of an application's operation, and none that a packet raised,  *)
(* is slept on (the waker.wake() at the end of each operation): asleep     *)
(* with nothing to wake it, poll has missed only what it raised itself     *)
(* while it handled Send events.                                           *)
NoLostWakeup == Asleep => rd.events \subseteq own

(* Asleep, poll is woken at the latest when a delayed event is due, except *)
(* for those it inserted itself since it computed the timeout, and except  *)
(* when the instant it computed had passed before it slept.                *)
TimelySleep ==
    Asleep /\ ~late =>
        \A e \in DOMAIN rd.delayed \ own : loop.deadline # Never /\ loop.deadline <= rd.delayed[e]

-----------------------------------------------------------------------------
Ready(e) == e \in rd.events

(* "Waits for readiness events" (poll): a connection's Closed event, once  *)
(* it is ready, is handed out unless poll fails.                           *)
ClosedReturned ==
    \A e \in Event : e.kind = "Closed" => (Ready(e) ~> ~Ready(e) \/ loop.pc = "failed")
=============================================================================
