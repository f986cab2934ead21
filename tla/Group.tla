------------------------------- MODULE Group -------------------------------
(***************************************************************************)
(* A group of QUIC connections shared by threads (poll/src/group.rs).      *)
(*                                                                         *)
(* Two locks protect the group: a mutex around State (token_next, conns,   *)
(* readiness, unparkers) and a read-write lock around the scids table.  A  *)
(* step of the model is one critical section, or one call of quiche made   *)
(* outside the mutex under a connection's try-lock.  close, stream_open    *)
(* and stream_shutdown run under the mutex throughout; recv, send,         *)
(* stream_send and stream_recv lock a connection, leave the mutex, call    *)
(* quiche, and enter the mutex again when the guard is dropped;            *)
(* deregister leaves the mutex between its two tables.                     *)
(*                                                                         *)
(* Where the code panics the thread stops.  A call that is answered        *)
(* NotFound at once changes nothing and is left out.                       *)
(***************************************************************************)
EXTENDS QuicConn, FiniteSets

CONSTANTS
    Thread,         \* threads that call the group
    Receiver,       \* those that receive packets, and may park
    Ops,            \* the operations that are called, to divide the state space
    ServerScid,     \* the ids of connections that a client opens to us
    NoScid,         \* no connection id
    TokenModulus,   \* token_next wraps here (2^32 in the code)
    MaxStreams,     \* bound: local streams opened of each direction
    Readable,       \* bound: the streams that a packet may make readable
    Writable,       \* bound: the streams that a packet may make writable
    MayRehash       \* whether conns.insert may move the stored connections

ASSUME ReceiverAssumption == Receiver \subseteq Thread
ASSUME ScidAssumption == ServerScid \subseteq Scid /\ NoScid \notin Scid
ASSUME TokenAssumption == TokenModulus \in Nat \ {0} /\ Token = 0 .. TokenModulus - 1
ASSUME MaxStreamsAssumption == MaxStreams \in Nat
ASSUME DeliveryAssumption == Readable \subseteq StreamId /\ Writable \subseteq StreamId
ASSUME MayRehashAssumption == MayRehash \in BOOLEAN

VARIABLES
    token_next,     \* State.token_next
    conns,          \* State.conns, a function on the tokens in use
    rd,             \* State.readiness
    unparkers,      \* State.unparkers, from tokens to the thread to unpark
    scids,          \* Group.scids, from connection ids to tokens
    th,             \* where each thread is in its call, and its LockContext
    handed,         \* history: tokens whose Send event was polled and not yet acted on
    dangling        \* history: threads whose guard outlived the place it points to

vars == <<token_next, conns, rd, unparkers, scids, th, handed, dangling>>

-----------------------------------------------------------------------------
(* Threads.  pc is the place in the call:                                  *)
(*   idle    outside the group                                             *)
(*   lookup  recv, about to look the packet's connection id up             *)
(*   looked  recv, token found, about to enter the mutex                   *)
(*   parked  recv, refused, waiting to be unparked                         *)
(*   accept  recv_with_acceptor, no connection, about to ask the acceptor  *)
(*   held    guard held, quiche not yet called                             *)
(*   done    guard held, quiche has answered                               *)
(*   reap    guard dropped on a closed connection, about to deregister it  *)
(*   dereg   connection removed, its id not yet                            *)
(*   reply   recv_with_acceptor, about to send                             *)
(*   panic   stopped by a failed assertion                                 *)
(* next says what follows a recv: it returns, or the acceptor's caller     *)
(* replies; fresh is a reply on a connection it has just registered.       *)

Pc == {"idle", "lookup", "looked", "parked", "accept", "held", "done", "reap",
       "dereg", "reply", "panic"}

GuardedOp == {"Send", "Recv", "StreamSend", "StreamRecv"}

LockedOp == {"Close", "StreamClose", "StreamOpenBidi", "StreamOpenUni"}

Next_ == {"return", "reply", "fresh"}

Context == [pc : Pc, op : GuardedOp \cup {"None"}, token : Token, id : StreamId \cup {0},
            scid : Scid \cup {NoScid}, lock_count : 0 .. LockCountModulus - 1,
            send_done : BOOLEAN, next : Next_]

Idle == [pc |-> "idle", op |-> "None", token |-> 0, id |-> 0, scid |-> NoScid,
         lock_count |-> 0, send_done |-> FALSE, next |-> "return"]

Panic == [Idle EXCEPT !.pc = "panic"]

(* What a thread does when the recv or the deregister it called is over. *)
Returned(k) ==
    IF k.next = "return" THEN Idle ELSE [Idle EXCEPT !.pc = "reply", !.token = k.token]

Guarding(k) == k.pc \in {"held", "done"}

Holders(t) == {p \in Thread : Guarding(th[p]) /\ th[p].token = t}

(* No guard has outlived the connection it points to.  deregister does not *)
(* look at the lock, so this is an assumption of some of the properties;   *)
(* the code does not ensure it (NoDanglingGuard).                          *)
Sound == dangling = {}

(* A thread calls the group.  Once a guard dangles no further call starts: *)
(* the calls in progress show how it ends.                                 *)
Starts(p) == th[p].pc = "idle" /\ Sound

(* The lock an operation takes; send takes the one of recv. *)
LockOf(op, id) == IF op = "Send" THEN Loc("Recv", 0) ELSE Loc(op, id)

(* Functions with one pair more, or one key less. *)
With(f, k, v) == [j \in DOMAIN f \cup {k} |-> IF j = k THEN v ELSE f[j]]

Without(f, k) == [j \in DOMAIN f \ {k} |-> f[j]]

-----------------------------------------------------------------------------
(* register: the next free token, the connection id, then the connection,  *)
(* which is locked and unlocked once for its first events.                 *)

(* Faulty: the next token is taken even if it is in use. *)
FreeToken_InUse(t) == t = token_next

FreeToken(t) ==
    /\ t \in Token \ DOMAIN conns
    /\ \A d \in Token \ DOMAIN conns : (t - token_next) % TokenModulus <= (d - token_next) % TokenModulus

Register(p, scid, is_server, k) ==
    \E t \in Token :
        /\ FreeToken(t)
        /\ token_next' = (t + 1) % TokenModulus
        /\ scids' = With(scids, scid, t)
        /\ IF scid \in DOMAIN scids
           THEN /\ th' = [th EXCEPT ![p] = Panic]
                /\ UNCHANGED <<conns, rd, dangling>>
           ELSE LET c == lock(new(t, scid, is_server), ReadLock)
                IN  \E x \in Choice(c), moved \in {FALSE, MayRehash} :
                       LET s == unlock([c |-> c, rd |-> rd], x, FALSE)
                       IN  /\ conns' = With(conns, t, s.c)
                           /\ rd' = s.rd
                           /\ dangling' = dangling \cup (IF moved THEN {q \in Thread : Guarding(th[q])} ELSE {})
                           /\ th' = [th EXCEPT ![p] = [k EXCEPT !.token = t]]
        /\ UNCHANGED <<unparkers, handed>>

(* connect: the id is random, hence a new one. *)
Connect(p) ==
    /\ Starts(p)
    /\ "Connect" \in Ops
    /\ \E s \in Scid \ (ServerScid \cup DOMAIN scids) :
          /\ \A q \in Thread : th[q].scid # s
          /\ Register(p, s, FALSE, Idle)

(* deregister, first half: the connection leaves the table, whoever holds it. *)
RemoveConn(p, t, next) ==
    /\ t \in DOMAIN conns
    /\ conns' = Without(conns, t)
    /\ dangling' = dangling \cup Holders(t)
    /\ th' = [th EXCEPT ![p] = [Idle EXCEPT !.pc = "dereg", !.token = t,
                                            !.scid = conns[t].scid, !.next = next]]
    /\ UNCHANGED <<token_next, rd, unparkers, scids, handed>>

Deregister(p, t) ==
    /\ Starts(p)
    /\ "Deregister" \in Ops
    /\ RemoveConn(p, t, "return")

(* The deregister that unlock calls, its NotFound ignored. *)
Reap(p) ==
    /\ th[p].pc = "reap"
    /\ \/ RemoveConn(p, th[p].token, th[p].next)
       \/ /\ th[p].token \notin DOMAIN conns
          /\ th' = [th EXCEPT ![p] = Returned(th[p])]
          /\ UNCHANGED <<token_next, conns, rd, unparkers, scids, handed, dangling>>

(* Faulty: the connection id is left behind. *)
RemoveScid_Leak(p) ==
    /\ th[p].pc = "dereg"
    /\ th' = [th EXCEPT ![p] = Returned(th[p])]
    /\ UNCHANGED <<token_next, conns, rd, unparkers, scids, handed, dangling>>

(* deregister, second half, outside the mutex. *)
RemoveScid(p) ==
    LET k == th[p]
        found == k.scid \in DOMAIN scids /\ scids[k.scid] = k.token
    IN  /\ k.pc = "dereg"
        /\ scids' = Without(scids, k.scid)
        /\ th' = [th EXCEPT ![p] = IF found THEN Returned(k) ELSE Panic]
        /\ UNCHANGED <<token_next, conns, rd, unparkers, handed, dangling>>

-----------------------------------------------------------------------------
(* Operations that hold the mutex from their first line to their last.     *)
(* The result of their unlock, whether the connection is closed, is not    *)
(* looked at.                                                              *)

(* The quiche call of op: what c may be when it returns. *)
Closings(c) == {[c EXCEPT !.q = quiche_close(@, o)] : o \in CloseOutcome(c.q)}

StreamClosings(c, id) ==
    {[c EXCEPT !.q = stream_close_prv(@, id, c.is_server, stop, fin)] : stop \in StopOutcome, fin \in BOOLEAN}

StreamOpenings(c, kind) ==
    IF HasCredit(c.q, kind) THEN {stream_open_prv(c, kind, ok) : ok \in BOOLEAN}
                            ELSE {[c EXCEPT !.reties = @ \cup {Loc(kind, 0)}]}

LockedCall(c, op, id) ==
    CASE op = "Close"       -> Closings(c)
      [] op = "StreamClose" -> StreamClosings(c, id)
      [] OTHER              -> StreamOpenings(c, op)

CallLocked(t, op, id) ==
    /\ op \in Ops \cap LockedOp
    /\ t \in DOMAIN conns
    /\ op = "StreamOpenBidi" => conns[t].local_stream_bidi_next < 4 * MaxStreams
    /\ op = "StreamOpenUni" => conns[t].local_stream_uni_next < 4 * MaxStreams
    /\ IF Lockable(conns[t], Loc(op, id))
       THEN \E c \in LockedCall(lock(conns[t], Loc(op, id)), op, id) :
               \E x \in Choice(c) :
                  LET s == unlock([c |-> c, rd |-> rd], x, FALSE)
                  IN  /\ conns' = [conns EXCEPT ![t] = s.c]
                      /\ rd' = s.rd
       ELSE /\ conns' = [conns EXCEPT ![t] = refuse(@, Loc(op, id))]
            /\ UNCHANGED rd
    /\ UNCHANGED <<token_next, unparkers, scids, th, handed, dangling>>

Close(p, t) == Starts(p) /\ CallLocked(t, "Close", 0)

StreamShutdown(p, t, id) == Starts(p) /\ CallLocked(t, "StreamClose", id)

StreamOpen(p, t, kind) == Starts(p) /\ CallLocked(t, kind, 0)

(* poll hands every ready event to its caller. *)
Poll(p) ==
    /\ Starts(p)
    /\ "Poll" \in Ops
    /\ \E due \in SUBSET rd.delayed :
          /\ rd' = poll(rd, due)
          /\ handed' = handed \cup {e.token : e \in {f \in polled(rd, due) : f.kind = "Send"}}
    /\ UNCHANGED <<token_next, conns, unparkers, scids, th, dangling>>

-----------------------------------------------------------------------------
(* Operations that call quiche under a connection guard. *)

(* The lock! macro: a guard, or the refusal that the holder will replay. *)
TryLock(p, t, op, id, next, refused) ==
    LET loc == LockOf(op, id)
    IN  IF Lockable(conns[t], loc)
        THEN /\ conns' = [conns EXCEPT ![t] = lock(@, loc)]
             /\ th' = [th EXCEPT ![p] = [Idle EXCEPT !.pc = "held", !.op = op, !.token = t, !.id = id,
                                             !.lock_count = conns[t].lock_count, !.next = next]]
        ELSE /\ conns' = [conns EXCEPT ![t] = refuse(@, loc)]
             /\ th' = [th EXCEPT ![p] = refused]

(* send, stream_send, stream_recv *)
CallGuarded(p, t, op, id) ==
    /\ Starts(p)
    /\ op \in Ops \cap {"Send", "StreamSend", "StreamRecv"}
    /\ t \in DOMAIN conns
    /\ TryLock(p, t, op, id, "return", Idle)
    /\ handed' = IF op = "Send" THEN handed \ {t} ELSE handed
    /\ UNCHANGED <<token_next, rd, unparkers, scids, dangling>>

(* recv_with_connection_id, first half: the token of a connection id.      *)
(* NotFound brings recv_with_acceptor to the acceptor.                     *)
Lookup(p, scid, next) ==
    /\ th' = [th EXCEPT ![p] =
                IF scid \in DOMAIN scids
                THEN [Idle EXCEPT !.pc = "looked", !.token = scids[scid], !.scid = scid, !.next = next]
                ELSE IF next = "reply" THEN [Idle EXCEPT !.pc = "accept", !.scid = scid] ELSE Idle]
    /\ UNCHANGED <<token_next, conns, rd, unparkers, scids, handed, dangling>>

(* A packet arrives for scid, dispatched with an acceptor or without. *)
Recv(p, scid) ==
    /\ Starts(p)
    /\ p \in Receiver
    /\ \/ "Recv" \in Ops /\ scid \in DOMAIN scids /\ Lookup(p, scid, "return")
       \/ "Accept" \in Ops /\ scid \in ServerScid /\ Lookup(p, scid, "reply")

LookupAgain(p) == th[p].pc = "lookup" /\ Lookup(p, th[p].scid, th[p].next)

(* recv_with_connection_id, second half.  A refused caller that gave an    *)
(* unparker parks until the guard is dropped; one that has just registered *)
(* the connection takes a refusal for impossible.                          *)
RecvLock(p) ==
    LET k == th[p]
        t == k.token
        park == t \in DOMAIN conns /\ k.next # "fresh" /\ ~Lockable(conns[t], Loc("Recv", 0))
    IN  /\ k.pc = "looked"
        /\ \/ /\ t \notin DOMAIN conns
              /\ th' = [th EXCEPT ![p] = IF k.next = "reply" THEN [Idle EXCEPT !.pc = "accept", !.scid = k.scid]
                                                             ELSE Idle]
              /\ UNCHANGED <<conns, unparkers>>
           \/ /\ t \in DOMAIN conns
              /\ ~park
              /\ TryLock(p, t, "Recv", 0, k.next, Panic)
              /\ UNCHANGED unparkers
           \/ /\ park
              /\ TryLock(p, t, "Recv", 0, k.next, [k EXCEPT !.pc = "parked"])
              /\ unparkers' = With(unparkers, t, p)
           \/ /\ park
              /\ k.next = "return"
              /\ TryLock(p, t, "Recv", 0, k.next, Idle)
              /\ UNCHANGED unparkers
        /\ UNCHANGED <<token_next, rd, scids, handed, dangling>>

(* acceptor.handshake: a reply packet or an error ends the call, otherwise *)
(* the new connection is registered under the packet's id.                 *)
Accept(p) ==
    /\ th[p].pc = "accept"
    /\ \/ Register(p, th[p].scid, TRUE, [Idle EXCEPT !.pc = "lookup", !.scid = th[p].scid, !.next = "fresh"])
       \/ /\ th' = [th EXCEPT ![p] = Idle]
          /\ UNCHANGED <<token_next, conns, rd, unparkers, scids, handed, dangling>>

(* The send that follows in recv_with_acceptor; Busy and NotFound end the call. *)
Reply(p) ==
    LET t == th[p].token
    IN  /\ th[p].pc = "reply"
        /\ \/ /\ t \in DOMAIN conns
              /\ TryLock(p, t, "Send", 0, "return", Idle)
           \/ /\ t \notin DOMAIN conns
              /\ th' = [th EXCEPT ![p] = Idle]
              /\ UNCHANGED conns
        /\ handed' = handed \ {t}
        /\ UNCHANGED <<token_next, rd, unparkers, scids, dangling>>

-----------------------------------------------------------------------------
(* The quiche calls made outside the mutex.  A result is the wrapped       *)
(* connection afterwards, whether send found nothing to send, and whether  *)
(* the call failed.                                                        *)

Result(q, send_done, ok) == [q |-> q, send_done |-> send_done, ok |-> ok]

Later(b) == {b, TRUE}

(* recv: a packet may complete the handshake, grant streams, make streams  *)
(* readable or writable, ask for an answer, end the connection.            *)
RecvResults(q) ==
    {Result([established |-> e, closing |-> q.closing \/ z, closed |-> z, data |-> d /\ ~z,
             left_bidi |-> b, left_uni |-> u, readable |-> q.readable \cup r,
             writable |-> q.writable \cup w], FALSE, ok) :
        e \in Later(q.established), z \in Later(q.closed), d \in Later(q.data), ok \in BOOLEAN,
        b \in q.left_bidi .. MaxCredit, u \in q.left_uni .. MaxCredit,
        r \in SUBSET Readable, w \in SUBSET Writable}

(* send: held back by the pacer; or on_timeout, which may close the        *)
(* connection, and then a packet, Done (nothing to send, or no room in the *)
(* congestion window for it), or an error.                                 *)
SendResults(q) ==
    LET timed == {[q EXCEPT !.closed = z, !.data = @ /\ ~z, !.established = e] :
                     z \in Later(q.closed), e \in Later(q.established)}
    IN  {Result(q, FALSE, FALSE)}
        \cup {Result([r EXCEPT !.data = d], FALSE, TRUE) : r \in {o \in timed : ~o.closed}, d \in BOOLEAN}
        \cup {Result([r EXCEPT !.data = FALSE], TRUE, FALSE) : r \in timed}
        \cup {Result(r, FALSE, FALSE) : r \in timed}

(* stream_send and stream_recv: both may leave something to send. *)
StreamResults(q) ==
    {Result([q EXCEPT !.data = d], FALSE, ok) : d \in (IF q.closed THEN {FALSE} ELSE Later(q.data)), ok \in BOOLEAN}

Results(op, q) ==
    CASE op = "Recv" -> RecvResults(q)
      [] op = "Send" -> SendResults(q)
      [] OTHER       -> StreamResults(q)

(* The call through the guard's reference.  When the connection is no      *)
(* longer where the reference points, whatever is written is lost.         *)
Perform(p) ==
    LET k == th[p]
        Done(r) == [k EXCEPT !.pc = "done", !.send_done = r.send_done,
                             !.next = IF r.ok THEN @ ELSE "return"]
    IN  /\ k.pc = "held"
        /\ \/ /\ p \notin dangling
              /\ k.token \in DOMAIN conns
              /\ \E r \in Results(k.op, conns[k.token].q) :
                    /\ conns' = [conns EXCEPT ![k.token].q = r.q]
                    /\ th' = [th EXCEPT ![p] = Done(r)]
           \/ /\ p \in dangling
              /\ th' = [th EXCEPT ![p] = [k EXCEPT !.pc = "done", !.next = "return"]]
              /\ UNCHANGED conns
        /\ UNCHANGED <<token_next, rd, unparkers, scids, handed, dangling>>

(* Faulty: the unparker is removed and not used. *)
Unpark_Forgets(t) == th

(* Group::unlock, run by the guard's drop: wake who is parked, then unlock *)
(* the connection, and see to its removal if it is closed.                 *)
Unpark(t) == [p \in Thread |->
    IF t \in DOMAIN unparkers /\ unparkers[t] = p /\ th[p].pc = "parked"
    THEN [th[p] EXCEPT !.pc = "lookup"] ELSE th[p]]

GuardDrop(p) ==
    LET k == th[p]
        t == k.token
        sane == t \in DOMAIN conns /\ conns[t].locker # None /\ conns[t].lock_count = k.lock_count
    IN  /\ k.pc = "done"
        /\ unparkers' = Without(unparkers, t)
        /\ \/ /\ sane
              /\ \E x \in Choice(conns[t]) :
                    LET s == unlock([c |-> conns[t], rd |-> rd], x, k.send_done)
                    IN  /\ conns' = [conns EXCEPT ![t] = s.c]
                        /\ rd' = s.rd
                        /\ th' = [Unpark(t) EXCEPT ![p] =
                                     IF s.c.q.closed
                                     THEN [Idle EXCEPT !.pc = "reap", !.token = t, !.next = k.next]
                                     ELSE Returned(k)]
           \/ /\ ~sane
              /\ th' = [Unpark(t) EXCEPT ![p] = Panic]
              /\ UNCHANGED <<conns, rd>>
        /\ UNCHANGED <<token_next, scids, handed, dangling>>

-----------------------------------------------------------------------------
Init ==
    /\ token_next = 0
    /\ conns = [t \in {} |-> t]
    /\ rd = empty_readiness
    /\ unparkers = [t \in {} |-> t]
    /\ scids = [s \in {} |-> s]
    /\ th = [p \in Thread |-> Idle]
    /\ handed = {}
    /\ dangling = {}

Next ==
    \E p \in Thread :
        \/ Connect(p) \/ Poll(p)
        \/ \E t \in Token : Deregister(p, t) \/ Close(p, t)
        \/ \E t \in Token, id \in StreamId : StreamShutdown(p, t, id)
        \/ \E t \in Token, kind \in {"StreamOpenBidi", "StreamOpenUni"} : StreamOpen(p, t, kind)
        \/ \E t \in Token : CallGuarded(p, t, "Send", 0)
        \/ \E t \in Token, id \in StreamId, op \in {"StreamSend", "StreamRecv"} : CallGuarded(p, t, op, id)
        \/ \E s \in Scid : Recv(p, s)
        \/ LookupAgain(p) \/ RecvLock(p) \/ Accept(p) \/ Reply(p)
        \/ Perform(p) \/ GuardDrop(p) \/ Reap(p) \/ RemoveScid(p)

Spec == Init /\ [][Next]_vars

(* No thread keeps a guard for good: the one quiche call made under it     *)
(* returns, and the guard is dropped at the end of the caller's scope.     *)
Fairness == \A p \in Thread : []<>(~Guarding(th[p]))

FairSpec == Spec /\ Fairness

-----------------------------------------------------------------------------
(* Properties. *)

TypeOK ==
    /\ token_next \in Token
    /\ DOMAIN conns \subseteq Token /\ \A t \in DOMAIN conns : conns[t] \in Conn
    /\ rd \in Readiness
    /\ DOMAIN unparkers \subseteq Token /\ \A t \in DOMAIN unparkers : unparkers[t] \in Thread
    /\ DOMAIN scids \subseteq Scid /\ \A s \in DOMAIN scids : scids[s] \in Token
    /\ th \in [Thread -> Context]
    /\ handed \subseteq Token
    /\ dangling \subseteq Thread

(* The try-lock (conn.rs, try_lock_prv and unlock) gives the wrapped       *)
(* connection to one thread at a time: a locked connection has exactly one *)
(* guard, of the kind recorded and with the current lock_count, an         *)
(* unlocked one has none.  Hence the two assertions of unlock and the      *)
(* expect in Group::unlock hold when a guard is dropped.                   *)
GuardExclusive ==
    Sound =>
        /\ \A p \in Thread : Guarding(th[p]) =>
              /\ th[p].token \in DOMAIN conns
              /\ conns[th[p].token].locker = LockOf(th[p].op, th[p].id)
              /\ conns[th[p].token].lock_count = th[p].lock_count
        /\ \A p, q \in Thread :
              Guarding(th[p]) /\ Guarding(th[q]) /\ th[p].token = th[q].token => p = q
        /\ \A t \in DOMAIN conns : conns[t].locker # None => Holders(t) # {}

(* Every operation refused with Busy is replayed by the time the           *)
(* connection is unlocked (handle_retry_events); what is kept is a         *)
(* stream_open for which the peer has not granted a stream, so that no     *)
(* credit arrives without its StreamOpen event.                            *)
NoStrandedRetry ==
    \A t \in DOMAIN conns : conns[t].locker = None =>
        \A loc \in conns[t].reties :
            loc.kind \in {"StreamOpenBidi", "StreamOpenUni"} /\ ~HasCredit(conns[t].q, loc.kind)

SendPending(t) ==
    \/ t \in handed
    \/ \E e \in pending(rd) : e.kind = "Send" /\ e.token = t

(* A closed connection does not stay in the group for good: its remover is *)
(* on the way, or a guard is out whose drop will see that it is closed, or *)
(* a Send event leads to such a guard.  (close discards the result of its  *)
(* unlock, so a connection it closes at once depends on that event.)       *)
ClosedIsReaped ==
    Sound => \A t \in DOMAIN conns : conns[t].q.closed =>
        \/ Holders(t) # {}
        \/ \E p \in Thread : th[p].pc = "reap" /\ th[p].token = t
        \/ SendPending(t)

(* The two tables agree although they have two locks: each connection is   *)
(* found under its id, and an id that leads to no connection is one whose  *)
(* deregister is half done.                                                *)
ScidsAgree ==
    (\A p \in Thread : th[p].pc # "panic") =>
        /\ \A t \in DOMAIN conns : conns[t].scid \in DOMAIN scids /\ scids[conns[t].scid] = t
        /\ \A s \in DOMAIN scids :
              \/ scids[s] \in DOMAIN conns /\ conns[scids[s]].scid = s
              \/ \E p \in Thread : th[p].pc = "dereg" /\ th[p].scid = s /\ th[p].token = scids[s]

(* What there is to send is announced: an unlocked connection with data    *)
(* has a Send event that is pending or was handed out and not yet acted on *)
(* (handle_send), except data created by a replay after a send found none. *)
DataAnnouncedUnlessReplayed ==
    Sound => \A t \in DOMAIN conns :
        conns[t].locker = None /\ conns[t].q.data /\ ~conns[t].replayed => SendPending(t)

(* A parked receiver (recv_with_connection_id) is owed a wake-up: its      *)
(* unparker is registered and a guard on the connection is still out.      *)
ParkedIsOwed ==
    \A p \in Thread : th[p].pc = "parked" =>
        /\ th[p].token \in DOMAIN unparkers /\ unparkers[th[p].token] = p
        /\ Holders(th[p].token) # {}

(* A stream is announced by StreamAccept at most once in the life of its   *)
(* connection (handle_accept compares ids with the highest one seen).      *)
AcceptOnce ==
    [][\A e \in rd'.events \ rd.events :
          e.kind = "StreamAccept" /\ e.token \in DOMAIN conns => e.stream_id \notin conns[e.token].accepted]_vars

(* A parked receiver is woken, because guards are dropped. *)
ParkedResumes == \A p \in Thread : th[p].pc = "parked" ~> th[p].pc # "parked"

-----------------------------------------------------------------------------
(* Statements of the code's comments that the code does not keep. *)

(* "safety: state is protected by previous level locker": a guard's        *)
(* reference stays good while the guard is held.                           *)
NoDanglingGuard == Sound

(* "Readiness for new inbound stream": each stream that the peer opened    *)
(* and quiche reported is announced by StreamAccept.                       *)
InboundAccepted == \A t \in DOMAIN conns : conns[t].inbound \subseteq conns[t].accepted
=============================================================================
