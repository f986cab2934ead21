------------------------------ MODULE QuicConn ------------------------------
(***************************************************************************)
(* One connection of a group (`QuicConn`, poll/src/conn.rs): the try-lock  *)
(* that hands the wrapped `quiche::Connection` to one caller at a time,    *)
(* the operations refused meanwhile (`reties`), and the work `unlock` does *)
(* when a caller is finished: replay what was refused, then turn what      *)
(* quiche reports into readiness events.                                   *)
(*                                                                         *)
(* A connection is a record and every method a function of it, since each  *)
(* of them runs under the group's mutex.  The wrapped connection is the    *)
(* field q, which only holds what the methods ask it.  What quiche answers *)
(* is a record x of choices, an argument of the methods that ask.          *)
(*                                                                         *)
(* A method that raises events maps a pair [c |-> connection, rd |->       *)
(* readiness] to such a pair.                                              *)
(***************************************************************************)
EXTENDS Api, ReadySet

CONSTANTS
    Token,              \* the values of a connection token
    Scid,               \* source connection ids
    StreamId,           \* the stream ids that occur
    LockCountModulus,   \* lock_count is counted modulo this (2^64 in the code)
    MaxCredit           \* bound: the streams a peer lets us open at a time

ASSUME StreamIdAssumption == StreamId \subseteq Nat
ASSUME LockCountAssumption == LockCountModulus \in Nat \ {0}
ASSUME MaxCreditAssumption == MaxCredit \in Nat

-----------------------------------------------------------------------------
(* Types. *)

Event == [token : Token, kind : EventKind, is_server : BOOLEAN,
          is_error : BOOLEAN, stream_id : StreamId \cup {0}]

(* The code's LocKind without the payload a replay only passes on.         *)
LocKinds == {"None", "Send", "Recv", "Close", "StreamOpenBidi", "StreamOpenUni",
             "StreamSend", "StreamRecv", "StreamClose", "ReadLock"}

LocKind == [kind : LocKinds, id : StreamId \cup {0}]

Loc(kind, id) == [kind |-> kind, id |-> id]

None == Loc("None", 0)

ReadLock == Loc("ReadLock", 0)

need_retry(loc) == loc.kind \notin {"Send", "None"}

(* What is asked of quiche::Connection.  data: it has something to send at *)
(* once.  left_*: the streams the peer still lets us open.  readable and   *)
(* writable: what stream_readable_next and stream_writable_next will yield. *)
Quiche == [established : BOOLEAN, closing : BOOLEAN, closed : BOOLEAN,
           data : BOOLEAN, left_bidi : 0 .. MaxCredit, left_uni : 0 .. MaxCredit,
           readable : SUBSET StreamId, writable : SUBSET StreamId]

(* -1 stands for None.  The last three fields record history the code does *)
(* not keep: the remote streams quiche ever reported readable, those of    *)
(* them announced by StreamAccept, and whether the data now waiting was    *)
(* created by the replay of a refused call in the unlock of a send that    *)
(* had found nothing to send.                                              *)
Conn == [token : Token, scid : Scid, is_server : BOOLEAN,
         local_stream_bidi_next : Nat, local_stream_uni_next : Nat,
         remote_stream_bidi_seen : StreamId \cup {-1},
         remote_stream_uni_seen : StreamId \cup {-1},
         locker : LocKind, reties : SUBSET LocKind,
         lock_count : 0 .. LockCountModulus - 1, read_lock_count : Nat,
         established : BOOLEAN, q : Quiche,
         inbound : SUBSET StreamId, accepted : SUBSET StreamId, replayed : BOOLEAN]

Readiness == [events : SUBSET Event, delayed : SUBSET Event]

-----------------------------------------------------------------------------
(* Construction and locking. *)

(* A client has its first flight to send, a server has nothing before it   *)
(* received; the peer grants no stream before the handshake.               *)
NewQuiche(is_server) ==
    [established |-> FALSE, closing |-> FALSE, closed |-> FALSE, data |-> ~is_server,
     left_bidi |-> 0, left_uni |-> 0, readable |-> {}, writable |-> {}]

new(token, scid, is_server) ==
    [token |-> token, scid |-> scid, is_server |-> is_server,
     local_stream_bidi_next |-> IF is_server THEN 1 ELSE 0,
     local_stream_uni_next |-> IF is_server THEN 3 ELSE 2,
     remote_stream_bidi_seen |-> -1, remote_stream_uni_seen |-> -1,
     locker |-> None, reties |-> {}, lock_count |-> 0, read_lock_count |-> 0,
     established |-> NewQuiche(is_server).established, q |-> NewQuiche(is_server),
     inbound |-> {}, accepted |-> {}, replayed |-> FALSE]

(* Faulty: two holders of the same kind share the lock. *)
Lockable_SameKind(c, loc) == c.locker = None \/ c.locker = loc

(* try_lock_prv: refused while someone else holds the lock, unless both are readers. *)
Lockable(c, loc) == c.locker = None \/ (c.locker = ReadLock /\ loc = ReadLock)

lock(c, loc) ==
    IF loc = ReadLock
    THEN [c EXCEPT !.locker = loc, !.read_lock_count = @ + 1]
    ELSE [c EXCEPT !.locker = loc]

(* A refused operation is kept for the holder's unlock to replay. *)
refuse(c, loc) == [c EXCEPT !.reties = IF need_retry(loc) THEN @ \cup {loc} ELSE @]

(* Faulty: the count of readers drops whoever unlocks. *)
release_Underflow(c) ==
    LET last == c.locker # ReadLock \/ c.read_lock_count = 1
    IN  [c EXCEPT !.read_lock_count = @ - 1,
                  !.lock_count = IF last THEN (@ + 1) % LockCountModulus ELSE @,
                  !.locker = IF last THEN None ELSE @]

(* The first half of unlock: the lock itself. *)
release(c) ==
    LET last == c.locker # ReadLock \/ c.read_lock_count = 1
    IN  [c EXCEPT !.read_lock_count = IF c.locker = ReadLock THEN @ - 1 ELSE @,
                  !.lock_count = IF last THEN (@ + 1) % LockCountModulus ELSE @,
                  !.locker = IF last THEN None ELSE @]

-----------------------------------------------------------------------------
(* What the wrapped connection does when it is asked to close, or to shut a *)
(* stream down.                                                            *)

(* quiche::Connection::close: Done when it is closing already, closed at   *)
(* once when it never processed a packet, otherwise a CONNECTION_CLOSE     *)
(* frame is waiting to be sent.                                            *)
CloseOutcome(q) == IF q.closing \/ q.closed THEN {"Done"} ELSE {"Ok", "Closed", "Err"}

quiche_close(q, outcome) ==
    CASE outcome = "Ok"     -> [q EXCEPT !.closing = TRUE, !.data = TRUE]
      [] outcome = "Closed" -> [q EXCEPT !.closing = TRUE, !.closed = TRUE, !.data = FALSE]
      [] OTHER              -> q

(* stop: the stream has finished, or STOP_SENDING was created, or the call *)
(* failed, in which case the send side is left alone; fin: the empty write *)
(* with the FIN bit was accepted.                                          *)
StopOutcome == {"finished", "Ok", "Err"}

stream_close_prv(q, id, is_server, stop, fin) ==
    LET reads  == is_bidi(id) \/ ~is_local(id, is_server)
        writes == is_bidi(id) \/ is_local(id, is_server)
    IN  [q EXCEPT !.data = \/ @
                           \/ ~q.closed /\ reads /\ stop = "Ok"
                           \/ ~q.closed /\ writes /\ ~(reads /\ stop = "Err") /\ fin]

(* stream_open_prv: no credit is Retry; otherwise an id is used up, even if *)
(* creating the stream then fails.                                         *)
HasCredit(q, kind) == IF kind = "StreamOpenBidi" THEN q.left_bidi > 0 ELSE q.left_uni > 0

stream_open_prv(c, kind, ok) ==
    LET used == IF ok THEN 1 ELSE 0
    IN  IF kind = "StreamOpenBidi"
        THEN [c EXCEPT !.local_stream_bidi_next = @ + 4, !.q.left_bidi = @ - used]
        ELSE [c EXCEPT !.local_stream_uni_next = @ + 4, !.q.left_uni = @ - used]

-----------------------------------------------------------------------------
(* The second half of unlock: replay, then report. *)

event(c, kind, id, err) ==
    [token |-> c.token, kind |-> kind, is_server |-> c.is_server,
     is_error |-> err, stream_id |-> id]

RetryIds(c, kind) == {loc.id : loc \in {r \in c.reties : r.kind = kind}}

(* The remote streams about to be reported that are beyond every one seen. *)
remote_stream_seen(c, id) ==
    IF is_bidi(id) THEN c.remote_stream_bidi_seen ELSE c.remote_stream_uni_seen

Inbound(c) == {i \in c.q.readable : ~is_local(i, c.is_server)}

(* Faulty: the highest stream seen counts as new. *)
Unseen_OffByOne(c, bidi) == {i \in Inbound(c) : is_bidi(i) = bidi /\ i >= remote_stream_seen(c, i)}

Unseen(c, bidi) == {i \in Inbound(c) : is_bidi(i) = bidi /\ i > remote_stream_seen(c, i)}

(* stream_readable_next may yield the streams in any order, and those that *)
(* exceed all before them are accepted: whatever the order, that is a set  *)
(* of unseen streams with the highest of each direction among them.        *)
Highest(i, S) == i \in S /\ \A j \in S : j <= i

AcceptOrder(c, first) ==
    \A bidi \in BOOLEAN : Unseen(c, bidi) # {} => \E i \in first : Highest(i, Unseen(c, bidi))

seen_after(c, first, bidi, seen) ==
    IF Unseen(c, bidi) = {} THEN seen
    ELSE CHOOSE i \in first : Highest(i, Unseen(c, bidi))

(* The answers of quiche to one unlock of c: the outcome of a replayed     *)
(* close or stream shutdown, the refused senders whose stream is writable  *)
(* or gone, the order of the inbound streams, and which timers are armed.  *)
Choice(c) ==
    LET closing  == Loc("Close", 0) \in c.reties
        shutting == RetryIds(c, "StreamClose") # {}
    IN  {x \in [close : IF closing THEN CloseOutcome(c.q) ELSE {"Done"},
                stop : IF shutting THEN StopOutcome ELSE {"finished"},
                fin : IF shutting THEN BOOLEAN ELSE {FALSE},
                writable : SUBSET RetryIds(c, "StreamSend"),
                failed : SUBSET RetryIds(c, "StreamSend"),
                first : SUBSET (Unseen(c, TRUE) \cup Unseen(c, FALSE)),
                release_time : BOOLEAN, timeout : BOOLEAN] :
           x.writable \cap x.failed = {} /\ AcceptOrder(c, x.first)}

handle_retry_events(s, x) ==
    LET c == s.c
        opens == {k \in {"StreamOpenBidi", "StreamOpenUni"} : Loc(k, 0) \in c.reties}
        q1 == IF Loc("Close", 0) \in c.reties THEN quiche_close(c.q, x.close) ELSE c.q
        q2 == [q1 EXCEPT !.data = @ \/ \E i \in RetryIds(c, "StreamClose") :
                   stream_close_prv(q1, i, c.is_server, x.stop, x.fin).data]
        ready == {event(c, k, 0, FALSE) : k \in {o \in opens : HasCredit(c.q, o)}}
                 \cup {event(c, k, 0, FALSE) : k \in {l \in {"Recv", "ReadLock"} : Loc(l, 0) \in c.reties}}
                 \cup {event(c, "StreamRecv", i, FALSE) : i \in RetryIds(c, "StreamRecv")}
                 \cup {event(c, "StreamSend", i, FALSE) : i \in x.writable}
                 \cup {event(c, "StreamSend", i, TRUE) : i \in x.failed}
                 \cup (IF x.close = "Err" THEN {event(c, "Closed", 0, TRUE)} ELSE {})
    IN  [c  |-> [c EXCEPT !.q = q2, !.replayed = q2.data /\ ~c.q.data,
                          !.reties = {Loc(k, 0) : k \in {o \in opens : ~HasCredit(c.q, o)}}],
         rd |-> insert(s.rd, ready, FALSE)]

(* Drains both of quiche's queues; handle_accept, for the inbound streams, *)
(* tells a new stream from one it has seen by its id alone.                *)
handle_stream_state_changed(s, x) ==
    LET c == s.c
        recv == {i \in c.q.readable : i \notin x.first}
    IN  [c  |-> [c EXCEPT !.q.readable = {}, !.q.writable = {},
                          !.remote_stream_bidi_seen = seen_after(c, x.first, TRUE, @),
                          !.remote_stream_uni_seen = seen_after(c, x.first, FALSE, @),
                          !.inbound = @ \cup Inbound(c),
                          !.accepted = @ \cup x.first],
         rd |-> insert(s.rd, {event(c, "StreamSend", i, FALSE) : i \in c.q.writable}
                             \cup {event(c, "StreamRecv", i, FALSE) : i \in recv}
                             \cup {event(c, "StreamAccept", i, FALSE) : i \in x.first}, FALSE)]

(* delay_send: after a completed send the next timer of any kind, before   *)
(* that only the pacer holds a packet back.                                *)
delay_send(x, send_done) == IF send_done THEN x.timeout \/ x.release_time ELSE x.release_time

(* Faulty: an unlock without delay removes the event whether or not a send was done. *)
handle_send_Drops(s, x, send_done) ==
    LET send == {event(s.c, "Send", 0, FALSE)}
        delay == delay_send(x, send_done)
    IN  [c  |-> [s.c EXCEPT !.replayed = @ /\ send_done],
         rd |-> IF ~delay THEN remove(s.rd, send) ELSE insert(s.rd, send, delay)]

(* Faulty: a closed connection is taken to need no Send event. *)
handle_send_SkipsClosed(s, x, send_done) ==
    LET send == {event(s.c, "Send", 0, FALSE)}
        delay == delay_send(x, send_done)
    IN  [c  |-> [s.c EXCEPT !.replayed = @ /\ send_done],
         rd |-> IF s.c.q.closed \/ (send_done /\ ~delay) THEN remove(s.rd, send) ELSE insert(s.rd, send, delay)]

handle_send(s, x, send_done) ==
    LET send == {event(s.c, "Send", 0, FALSE)}
        delay == delay_send(x, send_done)
    IN  [c  |-> [s.c EXCEPT !.replayed = @ /\ send_done],
         rd |-> IF send_done /\ ~delay THEN remove(s.rd, send) ELSE insert(s.rd, send, delay)]

handle_state_changed(s) ==
    LET c == s.c
        done == ~c.established /\ c.q.established
        kind == IF c.is_server THEN "Accept" ELSE "Connected"
    IN  [c  |-> [c EXCEPT !.established = @ \/ done],
         rd |-> insert(s.rd, (IF done THEN {event(c, kind, 0, FALSE)} ELSE {})
                             \cup (IF c.q.closed THEN {event(c, "Closed", 0, FALSE)} ELSE {}), FALSE)]

(* Faulty: nothing is replayed. *)
unlock_NoRetry(s, x, send_done) ==
    handle_state_changed(
        handle_send(
            handle_stream_state_changed([s EXCEPT !.c = release(@)], x), x, send_done))

(* unlock, after its assertions; the caller looks at c.q.closed for its result. *)
unlock(s, x, send_done) ==
    handle_state_changed(
        handle_send(
            handle_stream_state_changed(
                handle_retry_events([s EXCEPT !.c = release(@)], x), x), x, send_done))
=============================================================================
