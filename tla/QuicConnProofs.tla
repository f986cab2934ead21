--------------------------- MODULE QuicConnProofs ---------------------------
(***************************************************************************)
(* What the methods of a connection preserve, for every connection, every  *)
(* readiness set and every answer of quiche: lemmas for GroupProofs.       *)
(***************************************************************************)
EXTENDS QuicConn, TLAPS

(* The state unlock works on: a connection and the group's readiness. *)
ConnRd == [c : Conn, rd : Readiness]

(* A connection starts out well typed (QuicConn::new). *)
LEMMA NewType ==
    ASSUME NEW t \in Token, NEW s \in Scid, NEW b \in BOOLEAN
    PROVE  new(t, s, b) \in Conn
  BY StreamIdAssumption, LockCountAssumption, MaxCreditAssumption
     DEF new, NewQuiche, Conn, Quiche, LocKind, LocKinds, None, Loc

(* Taking the lock keeps a connection well typed (try_lock_prv). *)
LEMMA LockType ==
    ASSUME NEW c \in Conn, NEW loc \in LocKind
    PROVE  lock(c, loc) \in Conn
  <1>1. c.read_lock_count + 1 \in Nat
    BY DEF Conn
  <1>2. CASE loc = ReadLock
    <2>1. lock(c, loc) = [c EXCEPT !.locker = loc, !.read_lock_count = c.read_lock_count + 1]
      BY <1>2 DEF lock
    <2> HIDE DEF ReadLock
    <2> QED BY <1>1, <2>1 DEF Conn
  <1>3. CASE loc # ReadLock
    BY <1>3 DEF lock, Conn
  <1> QED
    BY <1>2, <1>3

(* So does being refused it. *)
LEMMA RefuseType ==
    ASSUME NEW c \in Conn, NEW loc \in LocKind
    PROVE  refuse(c, loc) \in Conn
  BY DEF refuse, Conn

(* So does giving it up, as long as a reader is counted as one (unlock). *)
LEMMA ReleaseType ==
    ASSUME NEW c \in Conn, c.locker = ReadLock => c.read_lock_count > 0
    PROVE  release(c) \in Conn
  <1>1. None \in LocKind
    BY DEF None, Loc, LocKind, LocKinds
  <1> DEFINE last == c.locker # ReadLock \/ c.read_lock_count = 1
             r == IF c.locker = ReadLock THEN c.read_lock_count - 1 ELSE c.read_lock_count
             n == IF last THEN (c.lock_count + 1) % LockCountModulus ELSE c.lock_count
             l == IF last THEN None ELSE c.locker
  <1>2. c.locker \in LocKind /\ c.read_lock_count \in Nat /\ c.lock_count \in 0 .. LockCountModulus - 1
    BY DEF Conn
  <1>3. r \in Nat
    BY <1>2
  <1>4. n \in 0 .. LockCountModulus - 1
    BY <1>2, LockCountAssumption
  <1>5. l \in LocKind
    BY <1>1, <1>2
  <1>6. release(c) = [c EXCEPT !.read_lock_count = r, !.lock_count = n, !.locker = l]
    BY DEF release
  <1> HIDE DEF last, r, n, l
  <1> QED
    BY <1>3, <1>4, <1>5, <1>6 DEF Conn

(* The events that a connection raises are events. *)
LEMMA EventType ==
    ASSUME NEW c \in Conn, NEW k \in EventKind, NEW i \in StreamId \cup {0}, NEW e \in BOOLEAN
    PROVE  event(c, k, i, e) \in Event
  BY DEF event, Event, Conn

(* Readiness::insert and remove keep the readiness set well typed. *)
LEMMA InsertType ==
    ASSUME NEW r \in Readiness, NEW es \in SUBSET Event, NEW d \in BOOLEAN
    PROVE  insert(r, es, d) \in Readiness /\ remove(r, es) \in Readiness
  BY DEF insert, remove, Readiness

(* Closing keeps the wrapped connection well typed, whatever the outcome. *)
LEMMA QuicheCloseType ==
    ASSUME NEW q \in Quiche, NEW o
    PROVE  quiche_close(q, o) \in Quiche
  BY DEF quiche_close, Quiche

(* So does shutting a stream down (stream_close_prv). *)
LEMMA StreamCloseType ==
    ASSUME NEW q \in Quiche, NEW i, NEW b, NEW stop, NEW fin \in BOOLEAN
    PROVE  stream_close_prv(q, i, b, stop, fin) \in Quiche
  BY DEF stream_close_prv, Quiche

(* With credit left, opening a stream takes no more than there is (stream_open_prv). *)
LEMMA StreamOpenType ==
    ASSUME NEW c \in Conn, NEW k \in {"StreamOpenBidi", "StreamOpenUni"}, NEW ok \in BOOLEAN,
           HasCredit(c.q, k)
    PROVE  stream_open_prv(c, k, ok) \in Conn
  <1> DEFINE used == IF ok THEN 1 ELSE 0
             b == c.q.left_bidi - used
             u == c.q.left_uni - used
  <1>1. c.q \in Quiche
    BY DEF Conn
  <1>2. c.local_stream_bidi_next + 4 \in Nat /\ c.local_stream_uni_next + 4 \in Nat
    BY DEF Conn
  <1>3. CASE k = "StreamOpenBidi"
    <2>1. c.q.left_bidi \in 0 .. MaxCredit /\ c.q.left_bidi > 0
      BY <1>1, <1>3 DEF HasCredit, Quiche
    <2>2. b \in 0 .. MaxCredit
      BY <2>1, MaxCreditAssumption
    <2>3. stream_open_prv(c, k, ok) =
             [c EXCEPT !.local_stream_bidi_next = c.local_stream_bidi_next + 4, !.q.left_bidi = b]
      BY <1>3 DEF stream_open_prv
    <2> HIDE DEF b
    <2>4. [c.q EXCEPT !.left_bidi = b] \in Quiche
      BY <1>1, <2>2 DEF Quiche
    <2> QED
      BY <1>2, <2>3, <2>4 DEF Conn
  <1>4. CASE k = "StreamOpenUni"
    <2>1. c.q.left_uni \in 0 .. MaxCredit /\ c.q.left_uni > 0
      BY <1>1, <1>4 DEF HasCredit, Quiche
    <2>2. u \in 0 .. MaxCredit
      BY <2>1, MaxCreditAssumption
    <2>3. stream_open_prv(c, k, ok) =
             [c EXCEPT !.local_stream_uni_next = c.local_stream_uni_next + 4, !.q.left_uni = u]
      BY <1>4 DEF stream_open_prv
    <2> HIDE DEF u
    <2>4. [c.q EXCEPT !.left_uni = u] \in Quiche
      BY <1>1, <2>2 DEF Quiche
    <2> QED
      BY <1>2, <2>3, <2>4 DEF Conn
  <1> QED
    BY <1>3, <1>4

-----------------------------------------------------------------------------
(* What the answers of quiche are, whatever the connection. *)
Answer(x) ==
    /\ x.fin \in BOOLEAN /\ x.release_time \in BOOLEAN /\ x.timeout \in BOOLEAN
    /\ x.writable \subseteq StreamId \cup {0} /\ x.failed \subseteq StreamId \cup {0}
    /\ x.first \subseteq StreamId

(* The streams of refused operations are stream ids. *)
LEMMA RetryIdsType ==
    ASSUME NEW c \in Conn, NEW k
    PROVE  RetryIds(c, k) \subseteq StreamId \cup {0}
  BY DEF RetryIds, Conn, LocKind

(* The inbound streams are among those quiche reports. *)
LEMMA UnseenType ==
    ASSUME NEW c \in Conn, NEW b
    PROVE  Unseen(c, b) \subseteq StreamId /\ Inbound(c) \subseteq StreamId
  BY DEF Unseen, Inbound, Conn, Quiche

(* What quiche may answer to an unlock has the expected types. *)
LEMMA ChoiceType ==
    ASSUME NEW c \in Conn, NEW x \in Choice(c)
    PROVE  Answer(x) /\ AcceptOrder(c, x.first)
  <1>1. /\ RetryIds(c, "StreamSend") \subseteq StreamId \cup {0}
        /\ Unseen(c, TRUE) \cup Unseen(c, FALSE) \subseteq StreamId
    BY RetryIdsType, UnseenType
  <1>2. x.first \in SUBSET (Unseen(c, TRUE) \cup Unseen(c, FALSE)) /\ AcceptOrder(c, x.first)
    BY DEF Choice
  <1>3. x.fin \in BOOLEAN /\ x.release_time \in BOOLEAN /\ x.timeout \in BOOLEAN
    BY DEF Choice
  <1>4. x.writable \in SUBSET RetryIds(c, "StreamSend") /\ x.failed \in SUBSET RetryIds(c, "StreamSend")
    BY DEF Choice
  <1> QED
    BY <1>1, <1>2, <1>3, <1>4 DEF Answer

(* The replay of refused operations keeps types (handle_retry_events). *)
LEMMA RetryType ==
    ASSUME NEW s \in ConnRd, NEW x, Answer(x)
    PROVE  handle_retry_events(s, x) \in ConnRd
  <1> DEFINE c == s.c
             opens == {k \in {"StreamOpenBidi", "StreamOpenUni"} : Loc(k, 0) \in c.reties}
             q1 == IF Loc("Close", 0) \in c.reties THEN quiche_close(c.q, x.close) ELSE c.q
             more == \E i \in RetryIds(c, "StreamClose") :
                        stream_close_prv(q1, i, c.is_server, x.stop, x.fin).data
             q2 == [q1 EXCEPT !.data = q1.data \/ more]
             ready == {event(c, k, 0, FALSE) : k \in {o \in opens : HasCredit(c.q, o)}}
                      \cup {event(c, k, 0, FALSE) : k \in {l \in {"Recv", "ReadLock"} : Loc(l, 0) \in c.reties}}
                      \cup {event(c, "StreamRecv", i, FALSE) : i \in RetryIds(c, "StreamRecv")}
                      \cup {event(c, "StreamSend", i, FALSE) : i \in x.writable}
                      \cup {event(c, "StreamSend", i, TRUE) : i \in x.failed}
                      \cup (IF x.close = "Err" THEN {event(c, "Closed", 0, TRUE)} ELSE {})
             kept == {Loc(k, 0) : k \in {o \in opens : ~HasCredit(c.q, o)}}
             c2 == [c EXCEPT !.q = q2, !.replayed = q2.data /\ ~c.q.data, !.reties = kept]
             rd2 == insert(s.rd, ready, FALSE)
  <1>1. c \in Conn /\ s.rd \in Readiness /\ c.q \in Quiche
    BY DEF ConnRd, Conn
  <1>2. q2 \in Quiche
    <2>1. q1 \in Quiche
      BY <1>1, QuicheCloseType
    <2> HIDE DEF q1, more
    <2>2. (q1.data \/ more) \in BOOLEAN
      OBVIOUS
    <2> QED
      BY <2>1, <2>2 DEF Quiche
  <1>3. ready \subseteq Event
    <2>1. {"StreamOpenBidi", "StreamOpenUni", "Recv", "ReadLock", "StreamRecv", "StreamSend", "Closed"} \subseteq EventKind
      BY DEF EventKind
    <2>2. RetryIds(c, "StreamRecv") \subseteq StreamId \cup {0}
      BY <1>1, RetryIdsType
    <2>3. \A k \in {"StreamOpenBidi", "StreamOpenUni", "Recv", "ReadLock", "StreamRecv", "StreamSend", "Closed"},
             i \in StreamId \cup {0}, b \in BOOLEAN : event(c, k, i, b) \in Event
      BY <1>1, <2>1, EventType
    <2> HIDE DEF c
    <2>4. {event(c, k, 0, FALSE) : k \in {o \in opens : HasCredit(c.q, o)}} \subseteq Event
      BY <2>3
    <2>5. {event(c, k, 0, FALSE) : k \in {l \in {"Recv", "ReadLock"} : Loc(l, 0) \in c.reties}} \subseteq Event
      BY <2>3
    <2>6. {event(c, "StreamRecv", i, FALSE) : i \in RetryIds(c, "StreamRecv")} \subseteq Event
      BY <2>2, <2>3
    <2>7. /\ {event(c, "StreamSend", i, FALSE) : i \in x.writable} \subseteq Event
          /\ {event(c, "StreamSend", i, TRUE) : i \in x.failed} \subseteq Event
      BY <2>3 DEF Answer
    <2>8. event(c, "Closed", 0, TRUE) \in Event
      BY <2>3
    <2> QED
      BY <2>4, <2>5, <2>6, <2>7, <2>8
  <1>4. kept \subseteq LocKind
    <2>1. \A k \in {"StreamOpenBidi", "StreamOpenUni"} : Loc(k, 0) \in LocKind
      BY DEF LocKind, LocKinds, Loc
    <2> QED
      BY <2>1
  <1>5. (q2.data /\ ~c.q.data) \in BOOLEAN
    OBVIOUS
  <1>6. handle_retry_events(s, x) =
           [c |-> c2, rd |-> rd2]
    BY DEF handle_retry_events
  <1>7. rd2 \in Readiness
    BY <1>1, <1>3, InsertType
  <1> HIDE DEF c, opens, q1, q2, more, ready, kept
  <1>8. c2 \in Conn
    BY <1>1, <1>2, <1>4, <1>5 DEF Conn
  <1> HIDE DEF c2, rd2
  <1> QED
    BY <1>6, <1>7, <1>8 DEF ConnRd

(* So does the report of readable and writable streams (handle_stream_state_changed). *)
LEMMA StreamStateType ==
    ASSUME NEW s \in ConnRd, NEW x, Answer(x), AcceptOrder(s.c, x.first)
    PROVE  handle_stream_state_changed(s, x) \in ConnRd
  <1> DEFINE c == s.c
             recv == {i \in c.q.readable : i \notin x.first}
             ready == {event(c, "StreamSend", i, FALSE) : i \in c.q.writable}
                      \cup {event(c, "StreamRecv", i, FALSE) : i \in recv}
                      \cup {event(c, "StreamAccept", i, FALSE) : i \in x.first}
             sb == seen_after(c, x.first, TRUE, c.remote_stream_bidi_seen)
             su == seen_after(c, x.first, FALSE, c.remote_stream_uni_seen)
             ib == c.inbound \cup Inbound(c)
             ac == c.accepted \cup x.first
             c2 == [c EXCEPT !.q.readable = {}, !.q.writable = {}, !.remote_stream_bidi_seen = sb,
                             !.remote_stream_uni_seen = su, !.inbound = ib, !.accepted = ac]
             rd2 == insert(s.rd, ready, FALSE)
  <1>1. c \in Conn /\ s.rd \in Readiness /\ c.q \in Quiche
    BY DEF ConnRd, Conn
  <1>2. sb \in StreamId \cup {-1} /\ su \in StreamId \cup {-1}
    <2>1. c.remote_stream_bidi_seen \in StreamId \cup {-1} /\ c.remote_stream_uni_seen \in StreamId \cup {-1}
      BY <1>1 DEF Conn
    <2> QED
      BY <2>1 DEF seen_after, AcceptOrder, Answer
  <1>3. ib \subseteq StreamId /\ ac \subseteq StreamId
    BY <1>1, UnseenType DEF Conn, Answer
  <1>4. ready \subseteq Event
    <2>1. {"StreamSend", "StreamRecv", "StreamAccept"} \subseteq EventKind
      BY DEF EventKind
    <2>2. c.q.writable \subseteq StreamId /\ recv \subseteq StreamId
      BY <1>1 DEF Quiche
    <2> HIDE DEF c, recv
    <2> QED
      BY <1>1, <2>1, <2>2, EventType DEF Answer
  <1>5. rd2 \in Readiness
    BY <1>1, <1>4, InsertType
  <1>6. [c.q EXCEPT !.readable = {}, !.writable = {}] \in Quiche
    BY <1>1 DEF Quiche
  <1>7. handle_stream_state_changed(s, x) =
           [c |-> c2, rd |-> rd2]
    BY DEF handle_stream_state_changed
  <1> HIDE DEF c, ready, sb, su, ib, ac
  <1>8. c2 \in Conn
    BY <1>1, <1>2, <1>3, <1>6 DEF Conn
  <1> HIDE DEF c2, rd2
  <1> QED
    BY <1>5, <1>7, <1>8 DEF ConnRd

(* So does the report of what there is to send (handle_send). *)
LEMMA SendType ==
    ASSUME NEW s \in ConnRd, NEW x, Answer(x), NEW sd \in BOOLEAN
    PROVE  handle_send(s, x, sd) \in ConnRd
  <1> DEFINE send == {event(s.c, "Send", 0, FALSE)}
             delay == delay_send(x, sd)
             c2 == [s.c EXCEPT !.replayed = s.c.replayed /\ sd]
             rd2 == IF sd /\ ~delay THEN remove(s.rd, send) ELSE insert(s.rd, send, delay)
  <1>1. s.c \in Conn /\ s.rd \in Readiness
    BY DEF ConnRd
  <1>2. send \subseteq Event
    BY <1>1, EventType DEF EventKind
  <1>3. delay \in BOOLEAN
    BY DEF delay_send, Answer
  <1>4. rd2 \in Readiness
    BY <1>1, <1>2, <1>3, InsertType
  <1>5. c2 \in Conn
    BY <1>1 DEF Conn
  <1>6. handle_send(s, x, sd) = [c |-> c2, rd |-> rd2]
    BY DEF handle_send
  <1> HIDE DEF c2, rd2
  <1> QED
    BY <1>4, <1>5, <1>6 DEF ConnRd

(* So does the report of the handshake and the end (handle_state_changed). *)
LEMMA StateType ==
    ASSUME NEW s \in ConnRd
    PROVE  handle_state_changed(s) \in ConnRd
  <1> DEFINE c == s.c
             done == ~c.established /\ c.q.established
             kind == IF c.is_server THEN "Accept" ELSE "Connected"
             c2 == [c EXCEPT !.established = c.established \/ done]
             es == (IF done THEN {event(c, kind, 0, FALSE)} ELSE {})
                   \cup (IF c.q.closed THEN {event(c, "Closed", 0, FALSE)} ELSE {})
             rd2 == insert(s.rd, es, FALSE)
  <1>1. c \in Conn /\ s.rd \in Readiness
    BY DEF ConnRd
  <1>2. es \subseteq Event
    <2>1. kind \in EventKind /\ "Closed" \in EventKind
      BY DEF EventKind
    <2> HIDE DEF c, kind
    <2>2. event(c, kind, 0, FALSE) \in Event /\ event(c, "Closed", 0, FALSE) \in Event
      BY <1>1, <2>1, EventType
    <2> QED
      BY <2>2
  <1>3. rd2 \in Readiness
    BY <1>1, <1>2, InsertType
  <1>4. c2 \in Conn
    BY <1>1 DEF Conn
  <1>5. handle_state_changed(s) = [c |-> c2, rd |-> rd2]
    BY DEF handle_state_changed
  <1> HIDE DEF c2, rd2, es
  <1> QED
    BY <1>3, <1>4, <1>5 DEF ConnRd

-----------------------------------------------------------------------------
(* What the parts of unlock leave alone. *)

Same(c, d) ==
    /\ d.token = c.token /\ d.scid = c.scid /\ d.is_server = c.is_server
    /\ d.q.left_bidi = c.q.left_bidi /\ d.q.left_uni = c.q.left_uni

(* Giving up the lock changes the lock and nothing else. *)
LEMMA ReleaseFrame ==
    ASSUME NEW c \in Conn
    PROVE  /\ Same(c, release(c))
           /\ release(c).q = c.q /\ release(c).reties = c.reties
           /\ release(c).remote_stream_bidi_seen = c.remote_stream_bidi_seen
           /\ release(c).remote_stream_uni_seen = c.remote_stream_uni_seen
           /\ (c.locker = ReadLock => c.read_lock_count = 1) => release(c).locker = None
           /\ (c.locker # ReadLock) => release(c).read_lock_count = c.read_lock_count
  BY DEF release, Conn, Same

(* A close changes neither the streams granted nor those to be reported. *)
LEMMA QuicheCloseFrame ==
    ASSUME NEW q \in Quiche, NEW o
    PROVE  /\ quiche_close(q, o).left_bidi = q.left_bidi /\ quiche_close(q, o).left_uni = q.left_uni
           /\ quiche_close(q, o).readable = q.readable
  BY DEF quiche_close, Quiche

(* The replay keeps only stream_open, and only for want of credit. *)
LEMMA RetryFrame ==
    ASSUME NEW s \in ConnRd, NEW x, Answer(x), NEW d, d = handle_retry_events(s, x).c
    PROVE  /\ Same(s.c, d) /\ d.locker = s.c.locker /\ d.q.readable = s.c.q.readable
           /\ d.remote_stream_bidi_seen = s.c.remote_stream_bidi_seen
           /\ d.remote_stream_uni_seen = s.c.remote_stream_uni_seen
           /\ \A loc \in d.reties : /\ loc.kind \in {"StreamOpenBidi", "StreamOpenUni"}
                                    /\ ~HasCredit(s.c.q, loc.kind)
  <1> DEFINE c == s.c
             opens == {k \in {"StreamOpenBidi", "StreamOpenUni"} : Loc(k, 0) \in c.reties}
             q1 == IF Loc("Close", 0) \in c.reties THEN quiche_close(c.q, x.close) ELSE c.q
             more == \E i \in RetryIds(c, "StreamClose") :
                        stream_close_prv(q1, i, c.is_server, x.stop, x.fin).data
             q2 == [q1 EXCEPT !.data = q1.data \/ more]
             b == q2.data /\ ~c.q.data
             kept == {Loc(k, 0) : k \in {o \in opens : ~HasCredit(c.q, o)}}
  <1>1. c \in Conn /\ c.q \in Quiche
    BY DEF ConnRd, Conn
  <1>2. d = [c EXCEPT !.q = q2, !.replayed = b, !.reties = kept]
    BY DEF handle_retry_events
  <1>3. /\ q1 \in Quiche /\ q1.readable = c.q.readable
        /\ q1.left_bidi = c.q.left_bidi /\ q1.left_uni = c.q.left_uni
    BY <1>1, QuicheCloseType, QuicheCloseFrame
  <1>4. \A loc \in kept : loc.kind \in {"StreamOpenBidi", "StreamOpenUni"} /\ ~HasCredit(c.q, loc.kind)
    <2>1. \A k \in {"StreamOpenBidi", "StreamOpenUni"} : Loc(k, 0).kind = k
      BY DEF Loc
    <2> HIDE DEF c
    <2>2. SUFFICES ASSUME NEW loc \in kept
                   PROVE  loc.kind \in {"StreamOpenBidi", "StreamOpenUni"} /\ ~HasCredit(c.q, loc.kind)
      OBVIOUS
    <2>3. PICK k \in {"StreamOpenBidi", "StreamOpenUni"} : loc = Loc(k, 0) /\ ~HasCredit(c.q, k)
      OBVIOUS
    <2>4. loc.kind = k
      BY <2>1, <2>3
    <2> QED
      BY <2>3, <2>4
  <1> HIDE DEF q1, more, kept, b
  <1>5. q2.readable = c.q.readable /\ q2.left_bidi = c.q.left_bidi /\ q2.left_uni = c.q.left_uni
    BY <1>3 DEF Quiche
  <1> HIDE DEF q2, c
  <1> QED
    <2>1. /\ d.q = q2 /\ d.reties = kept /\ d.token = c.token /\ d.scid = c.scid
          /\ d.is_server = c.is_server /\ d.locker = c.locker
          /\ d.remote_stream_bidi_seen = c.remote_stream_bidi_seen
          /\ d.remote_stream_uni_seen = c.remote_stream_uni_seen
      BY <1>1, <1>2 DEF Conn
    <2> QED
      BY <1>4, <1>5, <2>1 DEF Same, c

(* Reporting streams changes neither the lock nor what was refused. *)
LEMMA StreamStateFrame ==
    ASSUME NEW s \in ConnRd, NEW x, NEW d, d = handle_stream_state_changed(s, x).c
    PROVE  Same(s.c, d) /\ d.locker = s.c.locker /\ d.reties = s.c.reties
  <1> DEFINE c == s.c
             sb == seen_after(c, x.first, TRUE, c.remote_stream_bidi_seen)
             su == seen_after(c, x.first, FALSE, c.remote_stream_uni_seen)
             ib == c.inbound \cup Inbound(c)
             ac == c.accepted \cup x.first
  <1>1. c \in Conn /\ c.q \in Quiche
    BY DEF ConnRd, Conn
  <1>2. d = [c EXCEPT !.q.readable = {}, !.q.writable = {}, !.remote_stream_bidi_seen = sb,
                      !.remote_stream_uni_seen = su, !.inbound = ib, !.accepted = ac]
    BY DEF handle_stream_state_changed
  <1> HIDE DEF c, sb, su, ib, ac
  <1>3. /\ d.token = c.token /\ d.scid = c.scid /\ d.is_server = c.is_server
        /\ d.locker = c.locker /\ d.reties = c.reties
    BY <1>1, <1>2 DEF Conn
  <1>4. d.q = [c.q EXCEPT !.readable = {}, !.writable = {}]
    BY <1>1, <1>2 DEF Conn
  <1>5. d.q.left_bidi = c.q.left_bidi /\ d.q.left_uni = c.q.left_uni
    BY <1>1, <1>4 DEF Quiche
  <1> QED
    BY <1>3, <1>5 DEF Same, c

(* Nor does handle_send. *)
LEMMA SendFrame ==
    ASSUME NEW s \in ConnRd, NEW x, NEW sd, NEW d, d = handle_send(s, x, sd).c
    PROVE  Same(s.c, d) /\ d.locker = s.c.locker /\ d.reties = s.c.reties /\ d.q = s.c.q
  BY DEF handle_send, ConnRd, Conn, Same

(* Nor does handle_state_changed. *)
LEMMA StateFrame ==
    ASSUME NEW s \in ConnRd, NEW d, d = handle_state_changed(s).c
    PROVE  Same(s.c, d) /\ d.locker = s.c.locker /\ d.reties = s.c.reties /\ d.q = s.c.q
  BY DEF handle_state_changed, ConnRd, Conn, Same

(* An unlock leaves the connection unlocked, and keeps of what was refused *)
(* only stream_open for want of credit.                                    *)
LEMMA UnlockResult ==
    ASSUME NEW c \in Conn, NEW r \in Readiness, NEW x \in Choice(c), NEW sd \in BOOLEAN,
           c.locker = ReadLock => c.read_lock_count = 1
    PROVE  LET s == unlock([c |-> c, rd |-> r], x, sd)
           IN  /\ s.c \in Conn /\ s.rd \in Readiness
               /\ Same(c, s.c) /\ s.c.locker = None
               /\ \A loc \in s.c.reties : /\ loc.kind \in {"StreamOpenBidi", "StreamOpenUni"}
                                           /\ ~HasCredit(s.c.q, loc.kind)
  <1> DEFINE s0 == [c |-> release(c), rd |-> r]
             s1 == handle_retry_events(s0, x)
             s2 == handle_stream_state_changed(s1, x)
             s3 == handle_send(s2, x, sd)
             s4 == handle_state_changed(s3)
  <1>1. Answer(x) /\ AcceptOrder(c, x.first)
    BY ChoiceType
  <1>2. unlock([c |-> c, rd |-> r], x, sd) = s4
    BY DEF unlock
  <1>3. s0 \in ConnRd /\ s0.c = release(c)
    BY ReleaseType DEF ConnRd, Conn
  <1>4. /\ Same(c, s0.c) /\ s0.c.q = c.q /\ s0.c.locker = None
        /\ s0.c.remote_stream_bidi_seen = c.remote_stream_bidi_seen
        /\ s0.c.remote_stream_uni_seen = c.remote_stream_uni_seen
    BY <1>3, ReleaseFrame
  <1> HIDE DEF s0
  <1>5. s1 \in ConnRd
    BY <1>1, <1>3, RetryType
  <1>6. /\ Same(s0.c, s1.c) /\ s1.c.locker = s0.c.locker /\ s1.c.q.readable = s0.c.q.readable
        /\ s1.c.remote_stream_bidi_seen = s0.c.remote_stream_bidi_seen
        /\ s1.c.remote_stream_uni_seen = s0.c.remote_stream_uni_seen
        /\ \A loc \in s1.c.reties : /\ loc.kind \in {"StreamOpenBidi", "StreamOpenUni"}
                                    /\ ~HasCredit(s0.c.q, loc.kind)
    BY <1>1, <1>3, RetryFrame
  <1> HIDE DEF s1
  <1>7. AcceptOrder(s1.c, x.first)
    BY <1>1, <1>4, <1>6 DEF AcceptOrder, Unseen, Inbound, remote_stream_seen, Highest, Same
  <1>8. s2 \in ConnRd
    BY <1>1, <1>5, <1>7, StreamStateType
  <1>9. Same(s1.c, s2.c) /\ s2.c.locker = s1.c.locker /\ s2.c.reties = s1.c.reties
    BY <1>5, StreamStateFrame
  <1> HIDE DEF s2
  <1>10. s3 \in ConnRd
    BY <1>1, <1>8, SendType
  <1>11. Same(s2.c, s3.c) /\ s3.c.locker = s2.c.locker /\ s3.c.reties = s2.c.reties
    BY <1>8, SendFrame
  <1> HIDE DEF s3
  <1>12. s4 \in ConnRd
    BY <1>10, StateType
  <1>13. Same(s3.c, s4.c) /\ s4.c.locker = s3.c.locker /\ s4.c.reties = s3.c.reties
    BY <1>10, StateFrame
  <1> HIDE DEF s4
  <1> QED
    <2>1. s4.c \in Conn /\ s4.rd \in Readiness
      BY <1>12 DEF ConnRd
    <2>2. Same(c, s4.c) /\ s4.c.locker = None
      BY <1>4, <1>6, <1>9, <1>11, <1>13 DEF Same
    <2>3. \A loc \in s4.c.reties : /\ loc.kind \in {"StreamOpenBidi", "StreamOpenUni"}
                                   /\ ~HasCredit(s4.c.q, loc.kind)
      BY <1>4, <1>6, <1>9, <1>11, <1>13 DEF Same, HasCredit
    <2> QED
      BY <1>2, <2>1, <2>2, <2>3
=============================================================================
