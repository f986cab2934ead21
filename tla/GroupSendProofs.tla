-------------------------- MODULE GroupSendProofs --------------------------
(***************************************************************************)
(* What a connection has to send is announced, and a closed connection is  *)
(* removed, for any number of threads, tokens and connections: a Send      *)
(* event, or a guard whose drop looks at the connection, is never lost.    *)
(* The last part is about the other announcement that must be right, the   *)
(* StreamAccept event: it comes once for a stream.                         *)
(***************************************************************************)
EXTENDS GroupTableProofs

-----------------------------------------------------------------------------
(* What unlock does to the readiness set. *)

(* Inserting events adds them to what is pending, whether or not they are  *)
(* delayed; removing them takes away nothing else (Readiness).             *)
LEMMA PendingAfter ==
    ASSUME NEW r, NEW es, NEW delay
    PROVE  /\ pending(insert(r, es, delay)) = pending(r) \cup es
           /\ pending(remove(r, es)) = pending(r) \ es
  BY DEF pending, insert, remove

(* Hence an insertion loses nothing. *)
LEMMA InsertGrows ==
    ASSUME NEW r, NEW d, \E es : d = insert(r, es, FALSE)
    PROVE  pending(r) \subseteq pending(d)
  <1>1. PICK es : d = insert(r, es, FALSE)
    OBVIOUS
  <1>2. pending(d) = pending(r) \cup es
    BY <1>1, PendingAfter
  <1> QED
    BY <1>2

(* The replay only adds events, and notes the data it created. *)
LEMMA RetrySend ==
    ASSUME NEW s \in ConnRd, NEW x, NEW d, d = handle_retry_events(s, x)
    PROVE  /\ pending(s.rd) \subseteq pending(d.rd)
           /\ d.c.replayed = (d.c.q.data /\ ~s.c.q.data)
  <1> DEFINE c == s.c
             opens == {k \in {"StreamOpenBidi", "StreamOpenUni"} : Loc(k, 0) \in c.reties}
             q1 == IF Loc("Close", 0) \in c.reties THEN quiche_close(c.q, x.close) ELSE c.q
             more == \E i \in RetryIds(c, "StreamClose") :
                        stream_close_prv(q1, i, c.is_server, x.stop, x.fin).data
             q2 == [q1 EXCEPT !.data = q1.data \/ more]
             b == q2.data /\ ~c.q.data
             kept == {Loc(k, 0) : k \in {o \in opens : ~HasCredit(c.q, o)}}
  <1>1. c \in Conn
    BY DEF ConnRd
  <1>2. d.c = [c EXCEPT !.q = q2, !.replayed = b, !.reties = kept] /\ \E es : d.rd = insert(s.rd, es, FALSE)
    BY DEF handle_retry_events
  <1> HIDE DEF q2, kept, opens
  <1>3. d.c.q = q2 /\ d.c.replayed = b
    <2> HIDE DEF b
    <2> QED
      BY <1>1, <1>2 DEF Conn
  <1>4. d.c.replayed = (d.c.q.data /\ ~s.c.q.data)
    BY <1>3, Zenon DEF b
  <1> QED
    BY <1>2, <1>4, InsertGrows

(* The report of streams only adds events and leaves the data alone. *)
LEMMA StreamStateSend ==
    ASSUME NEW s \in ConnRd, NEW x, NEW d, d = handle_stream_state_changed(s, x)
    PROVE  /\ pending(s.rd) \subseteq pending(d.rd)
           /\ d.c.replayed = s.c.replayed /\ d.c.q.data = s.c.q.data
  <1> DEFINE c == s.c
             sb == seen_after(c, x.first, TRUE, c.remote_stream_bidi_seen)
             su == seen_after(c, x.first, FALSE, c.remote_stream_uni_seen)
             ib == c.inbound \cup Inbound(c)
             ac == c.accepted \cup x.first
  <1>1. c \in Conn /\ c.q \in Quiche
    BY DEF ConnRd, Conn
  <1>2. /\ d.c = [c EXCEPT !.q.readable = {}, !.q.writable = {}, !.remote_stream_bidi_seen = sb,
                           !.remote_stream_uni_seen = su, !.inbound = ib, !.accepted = ac]
        /\ \E es : d.rd = insert(s.rd, es, FALSE)
    BY DEF handle_stream_state_changed
  <1> HIDE DEF c, sb, su, ib, ac
  <1>3. d.c.replayed = c.replayed /\ d.c.q = [c.q EXCEPT !.readable = {}, !.writable = {}]
    BY <1>1, <1>2 DEF Conn
  <1>4. d.c.q.data = c.q.data
    BY <1>1, <1>3 DEF Quiche
  <1> QED
    BY <1>2, <1>3, <1>4, InsertGrows DEF c

(* handle_send announces that there may be something to send, unless the   *)
(* send that is over found nothing and no timer is armed; it never touches *)
(* the events of another connection.                                       *)
LEMMA SendSend ==
    ASSUME NEW s \in ConnRd, NEW x, NEW sd \in BOOLEAN, NEW d, d = handle_send(s, x, sd)
    PROVE  /\ \A e \in pending(s.rd) : e.token # s.c.token => e \in pending(d.rd)
           /\ ~sd => \E e \in pending(d.rd) : e.kind = "Send" /\ e.token = s.c.token
           /\ d.c.q = s.c.q /\ d.c.replayed = (s.c.replayed /\ sd)
  <1> DEFINE e0 == event(s.c, "Send", 0, FALSE)
             send == {e0}
             delay == delay_send(x, sd)
  <1>1. e0.kind = "Send" /\ e0.token = s.c.token
    BY DEF event
  <1> HIDE DEF e0, delay
  <1>2. /\ d.c = [s.c EXCEPT !.replayed = s.c.replayed /\ sd]
        /\ d.rd = IF sd /\ ~delay THEN remove(s.rd, send) ELSE insert(s.rd, send, delay)
    BY DEF handle_send, e0, delay
  <1>3. d.c.q = s.c.q /\ d.c.replayed = (s.c.replayed /\ sd)
    BY <1>2 DEF ConnRd, Conn
  <1>4. pending(d.rd) = pending(s.rd) \cup send \/ (sd /\ pending(d.rd) = pending(s.rd) \ send)
    <2>1. CASE sd /\ ~delay
      <3>1. d.rd = remove(s.rd, send)
        BY <1>2, <2>1
      <3> QED
        BY <2>1, <3>1, PendingAfter
    <2>2. CASE ~(sd /\ ~delay)
      <3>1. d.rd = insert(s.rd, send, delay)
        BY <1>2, <2>2
      <3> QED
        BY <3>1, PendingAfter
    <2> QED
      BY <2>1, <2>2
  <1>5. \A e \in pending(s.rd) : e.token # s.c.token => e \in pending(d.rd)
    BY <1>1, <1>4
  <1>6. ~sd => \E e \in pending(d.rd) : e.kind = "Send" /\ e.token = s.c.token
    BY <1>1, <1>4
  <1> QED
    BY <1>3, <1>5, <1>6

(* handle_state_changed only adds events and leaves the data alone. *)
LEMMA StateSend ==
    ASSUME NEW s \in ConnRd, NEW d, d = handle_state_changed(s)
    PROVE  /\ pending(s.rd) \subseteq pending(d.rd)
           /\ d.c.replayed = s.c.replayed /\ d.c.q = s.c.q
  <1> DEFINE b == s.c.established \/ (~s.c.established /\ s.c.q.established)
  <1>1. d.c = [s.c EXCEPT !.established = b] /\ \E es : d.rd = insert(s.rd, es, FALSE)
    BY DEF handle_state_changed
  <1> HIDE DEF b
  <1>2. d.c.replayed = s.c.replayed /\ d.c.q = s.c.q
    BY <1>1 DEF ConnRd, Conn
  <1> QED
    BY <1>1, <1>2, InsertGrows

(* unlock keeps the events of other connections; it announces its own      *)
(* connection unless a send has just found nothing to send, and then the   *)
(* data the connection may have was created by the replay.                 *)
LEMMA UnlockSend ==
    ASSUME NEW c \in Conn, NEW r \in Readiness, NEW x \in Choice(c), NEW sd \in BOOLEAN,
           c.locker = ReadLock => c.read_lock_count = 1
    PROVE  LET s == unlock([c |-> c, rd |-> r], x, sd)
           IN  /\ \A e \in pending(r) : e.token # c.token => e \in pending(s.rd)
               /\ ~sd => \E e \in pending(s.rd) : e.kind = "Send" /\ e.token = c.token
               /\ sd /\ ~c.q.data /\ s.c.q.data => s.c.replayed
  <1> DEFINE s0 == [c |-> release(c), rd |-> r]
             s1 == handle_retry_events(s0, x)
             s2 == handle_stream_state_changed(s1, x)
             s3 == handle_send(s2, x, sd)
             s4 == handle_state_changed(s3)
  <1>1. Answer(x) /\ AcceptOrder(c, x.first)
    BY ChoiceType
  <1>2. unlock([c |-> c, rd |-> r], x, sd) = s4
    BY DEF unlock
  <1>3. s0 \in ConnRd /\ s0.c = release(c) /\ s0.rd = r
    BY ReleaseType DEF ConnRd, Conn
  <1>4. /\ Same(c, s0.c) /\ s0.c.q = c.q
        /\ s0.c.remote_stream_bidi_seen = c.remote_stream_bidi_seen
        /\ s0.c.remote_stream_uni_seen = c.remote_stream_uni_seen
    BY <1>3, ReleaseFrame
  <1> HIDE DEF s0
  <1>5. s1 \in ConnRd
    BY <1>1, <1>3, RetryType
  <1>6. /\ Same(s0.c, s1.c) /\ s1.c.q.readable = s0.c.q.readable
        /\ s1.c.remote_stream_bidi_seen = s0.c.remote_stream_bidi_seen
        /\ s1.c.remote_stream_uni_seen = s0.c.remote_stream_uni_seen
    BY <1>1, <1>3, RetryFrame
  <1>7. pending(s0.rd) \subseteq pending(s1.rd) /\ s1.c.replayed = (s1.c.q.data /\ ~s0.c.q.data)
    BY <1>3, RetrySend
  <1> HIDE DEF s1
  <1>8. AcceptOrder(s1.c, x.first)
    BY <1>1, <1>4, <1>6 DEF AcceptOrder, Unseen, Inbound, remote_stream_seen, Highest, Same
  <1>9. s2 \in ConnRd /\ Same(s1.c, s2.c)
    BY <1>1, <1>5, <1>8, StreamStateType, StreamStateFrame
  <1>10. /\ pending(s1.rd) \subseteq pending(s2.rd)
         /\ s2.c.replayed = s1.c.replayed /\ s2.c.q.data = s1.c.q.data
    BY <1>5, StreamStateSend
  <1> HIDE DEF s2
  <1>11. s3 \in ConnRd
    BY <1>1, <1>9, SendType
  <1>12. /\ \A e \in pending(s2.rd) : e.token # s2.c.token => e \in pending(s3.rd)
         /\ ~sd => \E e \in pending(s3.rd) : e.kind = "Send" /\ e.token = s2.c.token
         /\ s3.c.q = s2.c.q /\ s3.c.replayed = (s2.c.replayed /\ sd)
    BY <1>9, SendSend
  <1> HIDE DEF s3
  <1>13. pending(s3.rd) \subseteq pending(s4.rd) /\ s4.c.replayed = s3.c.replayed /\ s4.c.q = s3.c.q
    BY <1>11, StateSend
  <1> HIDE DEF s4
  <1>14. s2.c.token = c.token
    BY <1>4, <1>6, <1>9 DEF Same
  <1>15. \A e \in pending(r) : e.token # c.token => e \in pending(s4.rd)
    BY <1>3, <1>7, <1>10, <1>12, <1>13, <1>14
  <1>16. ~sd => \E e \in pending(s4.rd) : e.kind = "Send" /\ e.token = c.token
    BY <1>12, <1>13, <1>14
  <1>17. sd /\ ~c.q.data /\ s4.c.q.data => s4.c.replayed
    BY <1>4, <1>7, <1>10, <1>12, <1>13
  <1> QED
    BY <1>2, <1>15, <1>16, <1>17

-----------------------------------------------------------------------------
(* The invariant, as long as no guard dangles.  A send that found nothing  *)
(* leaves its connection without data until its guard is dropped: the      *)
(* guard keeps everyone else out.  That is why the Send event may then be  *)
(* removed.                                                                *)

Reaping(t) == \E p \in Thread : th[p].pc = "reap" /\ th[p].token = t

SentNothing ==
    \A p \in Thread : th[p].pc = "done" /\ th[p].send_done => ~conns[th[p].token].q.data

Reaped(t) == conns[t].q.closed => Holders(t) # {} \/ Reaping(t) \/ SendPending(t)

Announced(t) ==
    conns[t].locker = None /\ conns[t].q.data /\ ~conns[t].replayed => SendPending(t)

SendInv == Sound => SentNothing /\ \A t \in DOMAIN conns : Reaped(t) /\ Announced(t)

(* A connection that a step leaves alone, with its Send event and its remover. *)
Calm(t) ==
    /\ t \in DOMAIN conns /\ conns'[t] = conns[t]
    /\ SendPending(t) => SendPending(t)'
    /\ Reaping(t) => Reaping(t)'

(* A locked connection has a guard. *)
LEMMA LockedHeld ==
    ASSUME Core, NEW t \in DOMAIN conns, conns[t].locker # None
    PROVE  Holders(t) # {}
  BY DEF Core, GuardInv, Held, Holders

(* The guard of a call that is in progress keeps its connection locked. *)
LEMMA GuardLocks ==
    ASSUME Core, Sound, NEW q \in Thread, Guarding(th[q])
    PROVE  th[q].token \in DOMAIN conns /\ conns[th[q].token].locker # None
  <1>1. Matches(th[q]) /\ th[q].op \in GuardedOp /\ th[q].id \in StreamId \cup {0}
    BY DEF Core, GuardInv, Context
  <1> QED
    BY <1>1, LockOfType DEF Matches

(* Each connection after a step is locked, or its Send event is pending,   *)
(* or the step leaves it alone.                                            *)
LEMMA TokensStep ==
    ASSUME Core, Core', SendInv, Sound, NEW t \in DOMAIN conns',
           conns'[t].locker # None \/ SendPending(t)' \/ Calm(t)
    PROVE  Reaped(t)' /\ Announced(t)'
  <1>1. CASE conns'[t].locker # None
    <2>1. Holders(t)' # {}
      BY <1>1 DEF Core, GuardInv, Held, Holders
    <2> QED
      BY <1>1, <2>1 DEF Reaped, Announced
  <1>2. CASE SendPending(t)'
    BY <1>2 DEF Reaped, Announced
  <1>3. CASE Calm(t) /\ conns'[t].locker = None
    <2>1. t \in DOMAIN conns /\ conns'[t] = conns[t] /\ t \in Token
      BY <1>3 DEF Calm, Core
    <2>2. Reaped(t) /\ Announced(t)
      BY <2>1 DEF SendInv
    <2>3. Holders(t) = {}
      BY <1>3, <2>1, FreeUnheld DEF Holders
    <2>4. Reaped(t)'
      BY <1>3, <2>1, <2>2, <2>3 DEF Reaped, Calm
    <2>5. Announced(t)'
      BY <1>3, <2>1, <2>2 DEF Announced, Calm
    <2> QED
      BY <2>4, <2>5
  <1> QED
    BY <1>1, <1>2, <1>3

(* A step at which no quiche call is made under a guard and none is dropped. *)
LEMMA SendStep ==
    ASSUME Core, Core', SendInv, dangling \subseteq dangling',
           Sound' => \A u \in DOMAIN conns : conns[u].locker # None =>
                        u \in DOMAIN conns' /\ conns'[u].q = conns[u].q,
           \A q \in Thread : th'[q].pc = "done" => th'[q] = th[q],
           \A t \in DOMAIN conns' : conns'[t].locker # None \/ SendPending(t)' \/ Calm(t)
    PROVE  SendInv'
  <1> SUFFICES ASSUME Sound'
               PROVE  SentNothing' /\ \A t \in DOMAIN conns' : Reaped(t)' /\ Announced(t)'
    BY DEF SendInv
  <1>1. Sound
    BY DEF Sound
  <1>2. ASSUME NEW q \in Thread, th'[q].pc = "done", th'[q].send_done
        PROVE  ~conns'[th'[q].token].q.data
    <2>1. th'[q] = th[q] /\ Guarding(th[q])
      BY <1>2 DEF Guarding
    <2>2. th[q].token \in DOMAIN conns /\ conns[th[q].token].locker # None
      BY <1>1, <2>1, GuardLocks
    <2>3. ~conns[th[q].token].q.data
      BY <1>1, <1>2, <2>1 DEF SendInv, SentNothing
    <2>4. conns'[th[q].token].q = conns[th[q].token].q
      BY <2>2
    <2> QED
      BY <2>1, <2>3, <2>4
  <1>3. SentNothing'
    BY <1>2 DEF SentNothing
  <1>4. \A t \in DOMAIN conns' : Reaped(t)' /\ Announced(t)'
    BY <1>1, TokensStep
  <1> QED
    BY <1>3, <1>4

(* One thread moves on, from neither a guard nor a removal, and not to done. *)
LEMMA MoveKeeps ==
    ASSUME th \in [Thread -> Context], NEW p \in Thread, NEW v, th' = [th EXCEPT ![p] = v],
           th[p].pc # "reap", v.pc # "done"
    PROVE  /\ \A q \in Thread : th'[q].pc = "done" => th'[q] = th[q]
           /\ \A t : Reaping(t) => Reaping(t)'
  BY DEF Reaping

(* Nothing about connections and events changes. *)
LEMMA IdleSend ==
    ASSUME Core, Core', SendInv, UNCHANGED <<conns, rd, handed, dangling>>,
           \A q \in Thread : th'[q].pc = "done" => th'[q] = th[q],
           \A t \in DOMAIN conns : Reaping(t) => Reaping(t)'
    PROVE  SendInv'
  <1>1. \A t \in DOMAIN conns' : Calm(t)
    BY DEF Calm, SendPending
  <1> QED
    BY <1>1, SendStep

-----------------------------------------------------------------------------
(* One lemma per action. *)

(* Locking and being refused leave the wrapped connection alone. *)
LEMMA LockQuiche ==
    ASSUME NEW c \in Conn, NEW loc \in LocKind
    PROVE  lock(c, loc).q = c.q /\ refuse(c, loc).q = c.q
  BY DEF lock, refuse, Conn

(* A Send event of another connection is still pending after an unlock. *)
LEMMA OtherPending ==
    ASSUME NEW t, NEW u, u # t, handed' = handed,
           \A e \in pending(rd) : e.token # t => e \in pending(rd')
    PROVE  SendPending(u) => SendPending(u)'
  BY DEF SendPending

(* A guard is asked for: given or refused, the connection is locked.  So   *)
(* the handed-out Send event of that connection is no longer needed.       *)
LEMMA TryLockSend ==
    ASSUME Core, Core', SendInv, NEW p \in Thread, NEW t \in DOMAIN conns, NEW op \in GuardedOp,
           NEW id \in StreamId \cup {0}, NEW next \in Next_, NEW refused,
           th[p].pc # "reap", refused.pc # "done",
           TryLock(p, t, op, id, next, refused), handed' \in {handed, handed \ {t}}, UNCHANGED <<rd, dangling>>
    PROVE  SendInv'
  <1> DEFINE loc == LockOf(op, id)
  <1>1. loc \in LocKind /\ loc # None /\ conns[t] \in Conn /\ th \in [Thread -> Context]
    BY LockOfType DEF Core
  <1>2. \E c, v : /\ conns' = [conns EXCEPT ![t] = c] /\ c.q = conns[t].q /\ c.locker # None
                  /\ th' = [th EXCEPT ![p] = v] /\ v.pc # "done"
    <2>1. CASE Lockable(conns[t], loc)
      <3>1. /\ conns' = [conns EXCEPT ![t] = lock(conns[t], loc)]
            /\ th' = [th EXCEPT ![p] = Taken(t, op, id, next)]
        BY <2>1 DEF TryLock, Taken
      <3>2. Taken(t, op, id, next).pc = "held"
        BY TakenType
      <3>3. lock(conns[t], loc).q = conns[t].q /\ lock(conns[t], loc).locker # None
        BY <1>1, LockQuiche, LockFrame
      <3> QED
        BY <3>1, <3>2, <3>3
    <2>2. CASE ~Lockable(conns[t], loc)
      <3>1. conns' = [conns EXCEPT ![t] = refuse(conns[t], loc)] /\ th' = [th EXCEPT ![p] = refused]
        BY <2>2 DEF TryLock
      <3>2. conns[t].locker # None
        BY <2>2, LockableFree
      <3>3. refuse(conns[t], loc).q = conns[t].q /\ refuse(conns[t], loc).locker # None
        BY <1>1, <3>2, LockQuiche, RefuseFrame
      <3> QED
        BY <3>1, <3>3
    <2> QED
      BY <2>1, <2>2
  <1>3. PICK c, v : /\ conns' = [conns EXCEPT ![t] = c] /\ c.q = conns[t].q /\ c.locker # None
                    /\ th' = [th EXCEPT ![p] = v] /\ v.pc # "done"
    BY <1>2
  <1>4. /\ DOMAIN conns' = DOMAIN conns /\ conns'[t] = c
        /\ \A u \in DOMAIN conns : u # t => conns'[u] = conns[u]
    BY <1>3
  <1>5. \A u \in DOMAIN conns : conns'[u].q = conns[u].q
    BY <1>3, <1>4
  <1>6. /\ \A q \in Thread : th'[q].pc = "done" => th'[q] = th[q]
        /\ \A u : Reaping(u) => Reaping(u)'
    BY <1>1, <1>3, MoveKeeps
  <1>7. \A u : u # t /\ SendPending(u) => SendPending(u)'
    BY DEF SendPending
  <1>8. \A u \in DOMAIN conns' : conns'[u].locker # None \/ Calm(u)
    BY <1>3, <1>4, <1>6, <1>7 DEF Calm
  <1>9. dangling \subseteq dangling'
    OBVIOUS
  <1> QED
    BY <1>4, <1>5, <1>6, <1>8, <1>9, SendStep

(* close, stream_open and stream_shutdown: if they get the lock, their     *)
(* unlock announces the connection, whatever it has become.                *)
LEMMA CallLockedSend ==
    ASSUME IInv, IInv', TableInv, SendInv, NEW t \in Token, NEW op \in LockedOp,
           NEW id \in StreamId \cup {0}, CallLocked(t, op, id)
    PROVE  SendInv'
  <1> DEFINE loc == Loc(op, id)
  <1>1. Core /\ Core' /\ rd \in Readiness
    BY Parts DEF RestOK, IInv, Core, TypeOK
  <1>2. t \in DOMAIN conns /\ UNCHANGED <<th, handed, dangling>>
    BY DEF CallLocked
  <1>3. conns[t] \in Conn /\ conns[t].token = t
    BY <1>1, <1>2 DEF Core, TableInv, TokensAgree
  <1>4. loc \in LocKind /\ loc # ReadLock
    BY LocType
  <1>5. \A u : Reaping(u) => Reaping(u)'
    BY <1>2 DEF Reaping
  <1>6. CASE Lockable(conns[t], loc)
    <2> DEFINE l == lock(conns[t], loc)
    <2>0. PICK c \in LockedCall(l, op, id) : \E x \in Choice(c) :
             LET s == unlock([c |-> c, rd |-> rd], x, FALSE)
             IN  conns' = [conns EXCEPT ![t] = s.c] /\ rd' = s.rd
      BY <1>6 DEF CallLocked
    <2>1. PICK x \in Choice(c) :
             LET s == unlock([c |-> c, rd |-> rd], x, FALSE)
             IN  conns' = [conns EXCEPT ![t] = s.c] /\ rd' = s.rd
      BY <2>0
    <2> DEFINE s == unlock([c |-> c, rd |-> rd], x, FALSE)
    <2>2. l \in Conn /\ l.locker = loc /\ l.token = t
      BY <1>3, <1>4, LockType, LockFrame, LockIds
    <2> HIDE DEF l
    <2>3. c \in Conn /\ c.locker # ReadLock /\ c.token = t
      BY <1>4, <2>2, LockedCallType, LockedCallIds
    <2>4. /\ \A e \in pending(rd) : e.token # t => e \in pending(s.rd)
          /\ \E e \in pending(s.rd) : e.kind = "Send" /\ e.token = t
      BY <1>1, <2>3, UnlockSend
    <2>5. conns' = [conns EXCEPT ![t] = s.c] /\ rd' = s.rd
      BY <2>1
    <2> HIDE DEF s
    <2>6. SendPending(t)' /\ \A u : u # t /\ SendPending(u) => SendPending(u)'
      BY <1>2, <2>4, <2>5, OtherPending DEF SendPending
    <2>7. DOMAIN conns' = DOMAIN conns /\ \A u \in DOMAIN conns : u # t => conns'[u] = conns[u]
      BY <1>2, <2>5
    <2>8. conns[t].locker = None
      BY <1>1, <1>2, <1>6, LockableFree
    <2>9. \A u \in DOMAIN conns' : SendPending(u)' \/ Calm(u)
      BY <1>5, <2>6, <2>7 DEF Calm
    <2> QED
      BY <1>1, <1>2, <2>7, <2>8, <2>9, SendStep
  <1>7. CASE ~Lockable(conns[t], loc)
    <2> DEFINE r == refuse(conns[t], loc)
    <2>1. conns' = [conns EXCEPT ![t] = r] /\ rd' = rd
      BY <1>7 DEF CallLocked
    <2>2. conns[t].locker # None
      BY <1>1, <1>2, <1>7, LockableFree
    <2>3. r.q = conns[t].q /\ r.locker # None
      BY <1>3, <1>4, <2>2, LockQuiche, RefuseFrame
    <2> HIDE DEF r
    <2>4. /\ DOMAIN conns' = DOMAIN conns /\ conns'[t] = r
          /\ \A u \in DOMAIN conns : u # t => conns'[u] = conns[u]
      BY <1>2, <2>1
    <2>5. \A u : SendPending(u) => SendPending(u)'
      BY <1>2, <2>1 DEF SendPending
    <2>6. \A u \in DOMAIN conns' : conns'[u].locker # None \/ Calm(u)
      BY <1>5, <2>3, <2>4, <2>5 DEF Calm
    <2>7. \A u \in DOMAIN conns : conns'[u].q = conns[u].q
      BY <2>3, <2>4
    <2> QED
      BY <1>1, <1>2, <2>4, <2>6, <2>7, SendStep
  <1> QED
    BY <1>6, <1>7

(* poll: a Send event that leaves the set was handed to the caller. *)
LEMMA PollSend ==
    ASSUME Core, Core', SendInv, NEW p \in Thread, Poll(p)
    PROVE  SendInv'
  <1>1. UNCHANGED <<conns, th, dangling>>
    BY DEF Poll
  <1>2. PICK due \in SUBSET rd.delayed :
           /\ rd' = poll(rd, due)
           /\ handed' = handed \cup {e.token : e \in {f \in polled(rd, due) : f.kind = "Send"}}
    BY DEF Poll
  <1>3. ASSUME NEW t, SendPending(t)
        PROVE  SendPending(t)'
    <2>1. CASE t \in handed
      BY <1>2, <2>1 DEF SendPending
    <2>2. ASSUME NEW e \in pending(rd), e.kind = "Send", e.token = t
          PROVE  SendPending(t)'
      <3>1. CASE e \in polled(rd, due)
        BY <1>2, <2>2, <3>1 DEF SendPending
      <3>2. CASE e \notin polled(rd, due)
        <4>1. e \in pending(poll(rd, due))
          BY <2>2, <3>2 DEF pending, poll, polled
        <4> QED
          BY <1>2, <2>2, <4>1 DEF SendPending
      <3> QED
        BY <3>1, <3>2
    <2> QED
      BY <1>3, <2>1, <2>2 DEF SendPending
  <1>4. \A t \in DOMAIN conns' : Calm(t)
    BY <1>1, <1>3 DEF Calm, Reaping
  <1> QED
    BY <1>1, <1>4, SendStep

(* register: the unlock of the new connection announces it. *)
LEMMA RegisterSend ==
    ASSUME IInv, IInv', SendInv, NEW p \in Thread, NEW scid \in Scid, NEW b \in BOOLEAN, NEW k \in Context,
           th[p].pc # "reap", k.pc # "done", Register(p, scid, b, k)
    PROVE  SendInv'
  <1> DEFINE C(t) == lock(new(t, scid, b), ReadLock)
             S(t, x) == unlock([c |-> C(t), rd |-> rd], x, FALSE)
             v(t) == [k EXCEPT !.token = t]
  <1>1. Core /\ Core' /\ rd \in Readiness /\ th \in [Thread -> Context]
    BY Parts DEF RestOK, IInv, Core, TypeOK
  <1>2. PICK t \in Token :
           /\ FreeToken(t)
           /\ IF scid \in DOMAIN scids
              THEN th' = [th EXCEPT ![p] = Panic] /\ UNCHANGED <<conns, rd, dangling>>
              ELSE \E x \in Choice(C(t)) : /\ conns' = With(conns, t, S(t, x).c) /\ rd' = S(t, x).rd
                                           /\ th' = [th EXCEPT ![p] = v(t)]
                                           /\ dangling \subseteq dangling'
           /\ handed' = handed
    BY DEF Register
  <1>3. CASE scid \in DOMAIN scids
    <2>1. th' = [th EXCEPT ![p] = Panic] /\ UNCHANGED <<conns, rd, dangling>> /\ Panic.pc # "done"
      BY <1>2, <1>3 DEF Panic, Idle
    <2>2. /\ \A q \in Thread : th'[q].pc = "done" => th'[q] = th[q]
          /\ \A u : Reaping(u) => Reaping(u)'
      BY <1>1, <2>1, MoveKeeps
    <2> QED
      BY <1>1, <1>2, <2>1, <2>2, IdleSend
  <1>4. CASE scid \notin DOMAIN scids
    <2>1. PICK x \in Choice(C(t)) : /\ conns' = With(conns, t, S(t, x).c) /\ rd' = S(t, x).rd
                                    /\ th' = [th EXCEPT ![p] = v(t)] /\ dangling \subseteq dangling'
      BY <1>2, <1>4
    <2>2. C(t) \in Conn /\ C(t).locker = ReadLock /\ C(t).read_lock_count = 1
      BY NewReader
    <2>3. C(t).token = t
      <3>1. new(t, scid, b) \in Conn /\ new(t, scid, b).token = t
        BY NewType DEF new
      <3>2. ReadLock \in LocKind
        BY DEF ReadLock, Loc, LocKind, LocKinds
      <3> QED
        BY <3>1, <3>2, LockIds
    <2> HIDE DEF C
    <2>4. /\ \A e \in pending(rd) : e.token # t => e \in pending(S(t, x).rd)
          /\ \E e \in pending(S(t, x).rd) : e.kind = "Send" /\ e.token = t
      <3>1. /\ \A e \in pending(rd) : e.token # C(t).token => e \in pending(S(t, x).rd)
            /\ \E e \in pending(S(t, x).rd) : e.kind = "Send" /\ e.token = C(t).token
        BY <1>1, <2>2, UnlockSend
      <3> HIDE DEF S
      <3> QED
        BY <2>3, <3>1
    <2> HIDE DEF S
    <2>5. SendPending(t)' /\ \A u : u # t /\ SendPending(u) => SendPending(u)'
      BY <1>2, <2>1, <2>4, OtherPending DEF SendPending
    <2>6. t \notin DOMAIN conns
      BY <1>2 DEF FreeToken
    <2>7. DOMAIN conns' = DOMAIN conns \cup {t} /\ \A u \in DOMAIN conns : conns'[u] = conns[u]
      BY <2>1, <2>6 DEF With
    <2>8. v(t).pc # "done"
      BY DEF Context
    <2> HIDE DEF v
    <2>9. /\ \A q \in Thread : th'[q].pc = "done" => th'[q] = th[q]
          /\ \A u : Reaping(u) => Reaping(u)'
      BY <1>1, <2>1, <2>8, MoveKeeps
    <2>10. \A u \in DOMAIN conns' : SendPending(u)' \/ Calm(u)
      BY <2>5, <2>7, <2>9 DEF Calm
    <2>11. \A u \in DOMAIN conns : u \in DOMAIN conns' /\ conns'[u].q = conns[u].q
      BY <2>7
    <2> QED
      BY <1>1, <2>1, <2>9, <2>10, <2>11, SendStep
  <1> QED
    BY <1>3, <1>4

(* deregister: a connection that is removed needs no event any more. *)
LEMMA RemoveConnSend ==
    ASSUME Core, Core', SendInv, NEW p \in Thread, NEW t, NEW next,
           th[p].pc = "reap" => th[p].token = t, RemoveConn(p, t, next)
    PROVE  SendInv'
  <1> DEFINE v == [Idle EXCEPT !.pc = "dereg", !.token = t, !.scid = conns[t].scid, !.next = next]
  <1>1. /\ t \in DOMAIN conns /\ conns' = Without(conns, t) /\ dangling' = dangling \cup Holders(t)
        /\ th' = [th EXCEPT ![p] = v] /\ UNCHANGED <<rd, handed>> /\ th \in [Thread -> Context]
    BY DEF RemoveConn, Core
  <1>2. v.pc = "dereg"
    BY DEF Idle
  <1> HIDE DEF v
  <1>3. th'[p] = v /\ \A q \in Thread : q # p => th'[q] = th[q]
    BY <1>1
  <1>4. DOMAIN conns' = DOMAIN conns \ {t} /\ \A u \in DOMAIN conns' : conns'[u] = conns[u]
    BY <1>1 DEF Without
  <1>5. \A u \in DOMAIN conns' : Calm(u)
    <2>1. \A u \in DOMAIN conns' : Reaping(u) => Reaping(u)'
      BY <1>3, <1>4 DEF Reaping
    <2> QED
      BY <1>1, <1>4, <2>1 DEF Calm, SendPending
  <1>6. Sound' => conns[t].locker = None
    <2>1. Sound' => Holders(t) = {}
      BY <1>1 DEF Sound
    <2> QED
      BY <1>1, <2>1, LockedHeld
  <1>7. Sound' => \A u \in DOMAIN conns : conns[u].locker # None => u \in DOMAIN conns' /\ conns'[u].q = conns[u].q
    BY <1>4, <1>6
  <1>8. \A q \in Thread : th'[q].pc = "done" => th'[q] = th[q]
    BY <1>2, <1>3
  <1> QED
    BY <1>1, <1>5, <1>7, <1>8, SendStep

(* The deregister that Group::unlock calls for a closed connection. *)
LEMMA ReapSend ==
    ASSUME IInv, IInv', SendInv, NEW p \in Thread, Reap(p)
    PROVE  SendInv'
  <1>1. Core /\ Core' /\ th \in [Thread -> Context] /\ th[p] \in Context
    BY Parts DEF IInv, Core, TypeOK
  <1>2. CASE RemoveConn(p, th[p].token, th[p].next)
    BY <1>1, <1>2, RemoveConnSend
  <1>3. CASE /\ th[p].token \notin DOMAIN conns /\ th' = [th EXCEPT ![p] = Returned(th[p])]
             /\ UNCHANGED <<conns, rd, handed, dangling>>
    <2>1. Returned(th[p]).pc # "done"
      BY <1>1, ContextType
    <2>2. th'[p].pc # "done" /\ \A q \in Thread : q # p => th'[q] = th[q]
      BY <1>1, <1>3, <2>1
    <2>3. \A t \in DOMAIN conns : Reaping(t) => Reaping(t)'
      BY <1>3, <2>2 DEF Reaping
    <2> QED
      BY <1>1, <1>3, <2>2, <2>3, IdleSend
  <1> QED
    BY <1>2, <1>3 DEF Reap

(* A thread that neither holds a guard nor removes a connection moves on. *)
LEMMA MoveSend ==
    ASSUME IInv, IInv', SendInv, NEW p \in Thread, NEW v, th' = [th EXCEPT ![p] = v],
           th[p].pc # "reap", v.pc # "done", UNCHANGED <<conns, rd, handed, dangling>>
    PROVE  SendInv'
  <1>1. Core /\ Core' /\ th \in [Thread -> Context]
    BY Parts DEF IInv, Core, TypeOK
  <1>2. /\ \A q \in Thread : th'[q].pc = "done" => th'[q] = th[q]
        /\ \A t : Reaping(t) => Reaping(t)'
    BY <1>1, MoveKeeps
  <1> QED
    BY <1>1, <1>2, IdleSend

(* recv_with_connection_id up to the token. *)
LEMMA LookupSend ==
    ASSUME IInv, IInv', SendInv, NEW p \in Thread, NEW scid, NEW next, th[p].pc # "reap", Lookup(p, scid, next)
    PROVE  SendInv'
  <1> DEFINE A == [Idle EXCEPT !.pc = "looked", !.token = scids[scid], !.scid = scid, !.next = next]
             B == [Idle EXCEPT !.pc = "accept", !.scid = scid]
  <1>1. PICK v \in {Idle, A, B} : th' = [th EXCEPT ![p] = v]
    BY DEF Lookup
  <1>2. A.pc = "looked" /\ B.pc = "accept" /\ Idle.pc = "idle"
    BY DEF Idle
  <1>3. v.pc # "done"
    BY <1>1, <1>2
  <1> QED
    BY <1>1, <1>3, MoveSend DEF Lookup

(* recv_with_connection_id from the token on. *)
LEMMA RecvLockSend ==
    ASSUME IInv, IInv', SendInv, NEW p \in Thread, RecvLock(p)
    PROVE  SendInv'
  <1> DEFINE k == th[p]
             t == k.token
  <1>1. Core /\ Core' /\ th \in [Thread -> Context]
    BY Parts DEF IInv, Core, TypeOK
  <1>2. k \in Context /\ k.pc = "looked" /\ k.next \in Next_ /\ UNCHANGED <<rd, handed, dangling>>
    BY <1>1 DEF RecvLock, Context
  <1>3. "Recv" \in GuardedOp /\ 0 \in StreamId \cup {0}
    BY DEF GuardedOp
  <1>4. CASE /\ UNCHANGED conns
             /\ th' = [th EXCEPT ![p] = IF k.next = "reply" THEN [Idle EXCEPT !.pc = "accept", !.scid = k.scid]
                                                            ELSE Idle]
    <2>1. PICK v \in {Idle, [Idle EXCEPT !.pc = "accept", !.scid = k.scid]} : th' = [th EXCEPT ![p] = v]
      BY <1>4
    <2>2. [Idle EXCEPT !.pc = "accept", !.scid = k.scid].pc = "accept" /\ Idle.pc = "idle"
      BY DEF Idle
    <2>3. v.pc # "done"
      BY <2>1, <2>2
    <2> QED
      BY <1>2, <1>4, <2>1, <2>3, MoveSend
  <1>5. ASSUME t \in DOMAIN conns, NEW r \in {Idle, Panic, [k EXCEPT !.pc = "parked"]},
               TryLock(p, t, "Recv", 0, k.next, r)
        PROVE  SendInv'
    <2>1. r.pc # "done"
      BY <1>2 DEF Idle, Panic, Context
    <2> QED
      BY <1>1, <1>2, <1>3, <1>5, <2>1, TryLockSend
  <1> QED
    BY <1>4, <1>5 DEF RecvLock

(* recv_with_acceptor sends after it received. *)
LEMMA ReplySend ==
    ASSUME IInv, IInv', SendInv, NEW p \in Thread, Reply(p)
    PROVE  SendInv'
  <1> DEFINE t == th[p].token
  <1>1. /\ Core /\ Core' /\ th \in [Thread -> Context] /\ "return" \in Next_ /\ "Send" \in GuardedOp
        /\ 0 \in StreamId \cup {0} /\ Idle.pc # "done"
    BY Parts DEF IInv, Core, TypeOK, Next_, GuardedOp, Idle
  <1>2. UNCHANGED <<rd, dangling>> /\ th[p].pc # "reap" /\ handed' = handed \ {t}
    BY DEF Reply
  <1>3. CASE t \in DOMAIN conns /\ TryLock(p, t, "Send", 0, "return", Idle)
    BY <1>1, <1>2, <1>3, TryLockSend
  <1>4. CASE t \notin DOMAIN conns /\ th' = [th EXCEPT ![p] = Idle] /\ UNCHANGED conns
    <2>1. /\ \A q \in Thread : th'[q].pc = "done" => th'[q] = th[q]
          /\ \A u : Reaping(u) => Reaping(u)'
      BY <1>1, <1>2, <1>4, MoveKeeps
    <2>2. \A u \in DOMAIN conns' : Calm(u)
      BY <1>2, <1>4, <2>1 DEF Calm, SendPending
    <2> QED
      BY <1>1, <1>2, <1>4, <2>1, <2>2, SendStep
  <1> QED
    BY <1>3, <1>4 DEF Reply

(* A send that reports that it is done leaves nothing to send. *)
LEMMA DoneSent ==
    ASSUME NEW op \in GuardedOp, NEW q \in Quiche, NEW r \in Results(op, q), r.send_done
    PROVE  r.q.data = FALSE
  <1>1. CASE op = "Recv"
    <2> DEFINE F(e, z, y, ok, b, u, rs, ws) ==
                 Result([established |-> e, closing |-> q.closing \/ z, closed |-> z, data |-> y /\ ~z,
                         left_bidi |-> b, left_uni |-> u, readable |-> q.readable \cup rs,
                         writable |-> q.writable \cup ws], FALSE, ok)
    <2>1. Results(op, q) =
             {F(e, z, y, ok, b, u, rs, ws) :
                e \in Later(q.established), z \in Later(q.closed), y \in Later(q.data), ok \in BOOLEAN,
                b \in q.left_bidi .. MaxCredit, u \in q.left_uni .. MaxCredit,
                rs \in SUBSET Readable, ws \in SUBSET Writable}
      BY <1>1 DEF Results, RecvResults
    <2>2. \A e, z, y, ok, b, u, rs, ws : F(e, z, y, ok, b, u, rs, ws).send_done = FALSE
      BY DEF Result
    <2> HIDE DEF F
    <2> QED
      BY <2>1, <2>2
  <1>2. CASE op = "Send"
    <2> DEFINE T(z, e) == [q EXCEPT !.closed = z, !.data = q.data /\ ~z, !.established = e]
               timed == {T(z, e) : z \in Later(q.closed), e \in Later(q.established)}
               open == {o \in timed : ~o.closed}
               Set(v, y) == [v EXCEPT !.data = y]
               A == {Result(Set(v, y), FALSE, TRUE) : v \in open, y \in BOOLEAN}
               B == {Result(Set(v, FALSE), TRUE, FALSE) : v \in timed}
               C == {Result(v, FALSE, FALSE) : v \in timed}
    <2>0. r \in SendResults(q)
      BY <1>2 DEF Results
    <2>1. SendResults(q) = {Result(q, FALSE, FALSE)} \cup A \cup B \cup C
      BY DEF SendResults
    <2>2. \A z \in Later(q.closed), e \in Later(q.established) : T(z, e) \in Quiche
      BY DEF Later, Quiche
    <2> HIDE DEF T
    <2>3. timed \subseteq Quiche
      BY <2>2
    <2> HIDE DEF timed, open
    <2>4. \A v, sd, ok : Result(v, sd, ok).send_done = sd /\ Result(v, sd, ok).q = v
      BY DEF Result
    <2>5. \A v \in timed : Set(v, FALSE).data = FALSE
      BY <2>3 DEF Quiche
    <2> HIDE DEF Set
    <2>6. r \notin A
      <3> DEFINE G(v, y) == Result(Set(v, y), FALSE, TRUE)
      <3>1. \A v, y : G(v, y).send_done = FALSE
        BY <2>4
      <3>2. A = {G(v, y) : v \in open, y \in BOOLEAN}
        OBVIOUS
      <3> HIDE DEF G, A
      <3> QED
        BY <3>1, <3>2
    <2>7. r \notin C /\ r # Result(q, FALSE, FALSE)
      <3> DEFINE G(v) == Result(v, FALSE, FALSE)
      <3>1. \A v : G(v).send_done = FALSE
        BY <2>4
      <3>2. C = {G(v) : v \in timed} /\ G(q) = Result(q, FALSE, FALSE)
        OBVIOUS
      <3> HIDE DEF G, C
      <3> QED
        BY <3>1, <3>2
    <2>8. r \in B
      <3> HIDE DEF A, B, C
      <3> QED
        BY <2>0, <2>1, <2>6, <2>7
    <2>9. PICK v \in timed : r = Result(Set(v, FALSE), TRUE, FALSE)
      BY <2>8
    <2>10. r.q = Set(v, FALSE)
      BY <2>9 DEF Result
    <2> QED
      BY <2>5, <2>9, <2>10
  <1>3. CASE op \notin {"Recv", "Send"}
    <2> DEFINE F(y, ok) == Result([q EXCEPT !.data = y], FALSE, ok)
               D == IF q.closed THEN {FALSE} ELSE Later(q.data)
    <2>0. r \in StreamResults(q)
      BY <1>3 DEF Results
    <2>1. StreamResults(q) = {F(y, ok) : y \in D, ok \in BOOLEAN}
      BY DEF StreamResults
    <2>2. \A y, ok : F(y, ok).send_done = FALSE
      BY DEF Result
    <2> HIDE DEF F, D
    <2> QED
      BY <2>0, <2>1, <2>2
  <1> QED
    BY <1>1, <1>2, <1>3

(* The quiche call under a guard: the connection is locked throughout. *)
LEMMA PerformSend ==
    ASSUME IInv, IInv', SendInv, NEW p \in Thread, Perform(p)
    PROVE  SendInv'
  <1> DEFINE k == th[p]
             t == k.token
  <1>1. Core /\ Core' /\ th \in [Thread -> Context]
    BY Parts DEF IInv, Core, TypeOK
  <1>2. k \in Context /\ k.pc = "held" /\ Guarding(k) /\ UNCHANGED <<rd, handed, dangling>>
    BY <1>1 DEF Perform, Guarding
  <1> SUFFICES ASSUME Sound'
               PROVE  SentNothing' /\ \A u \in DOMAIN conns' : Reaped(u)' /\ Announced(u)'
    BY DEF SendInv
  <1>3. Sound /\ p \notin dangling
    BY <1>2 DEF Sound
  <1>4. PICK r \in Results(k.op, conns[t].q) :
           /\ conns' = [conns EXCEPT ![t].q = r.q]
           /\ th' = [th EXCEPT ![p] = [k EXCEPT !.pc = "done", !.send_done = r.send_done,
                                                !.next = IF r.ok THEN k.next ELSE "return"]]
    BY <1>3 DEF Perform
  <1>5. t \in DOMAIN conns /\ conns[t].locker # None /\ conns[t] \in Conn /\ conns[t].q \in Quiche
    BY <1>1, <1>2, <1>3, GuardLocks DEF Core, Conn
  <1>6. k.op \in GuardedOp
    BY <1>1, <1>2 DEF Core, GuardInv
  <1> DEFINE v == [k EXCEPT !.pc = "done", !.send_done = r.send_done, !.next = IF r.ok THEN k.next ELSE "return"]
             c == [conns[t] EXCEPT !.q = r.q]
  <1>7. v.pc = "done" /\ v.send_done = r.send_done /\ v.token = t
    BY <1>2 DEF Context
  <1>8. c.q = r.q /\ c.locker # None
    BY <1>5 DEF Conn
  <1>9. th' = [th EXCEPT ![p] = v] /\ conns' = [conns EXCEPT ![t] = c]
    BY <1>4, <1>5
  <1> HIDE DEF v, c
  <1>10. th'[p] = v /\ \A q \in Thread : q # p => th'[q] = th[q]
    BY <1>1, <1>9
  <1>11. /\ DOMAIN conns' = DOMAIN conns /\ conns'[t] = c
         /\ \A u \in DOMAIN conns : u # t => conns'[u] = conns[u]
    BY <1>5, <1>9
  <1>12. ASSUME NEW q \in Thread, th'[q].pc = "done", th'[q].send_done
         PROVE  ~conns'[th'[q].token].q.data
    <2>1. CASE q = p
      <3>1. r.send_done /\ th'[q].token = t
        BY <1>7, <1>10, <1>12, <2>1
      <3>2. r.q.data = FALSE
        BY <1>5, <1>6, <3>1, DoneSent
      <3> QED
        BY <1>8, <1>11, <3>1, <3>2
    <2>2. CASE q # p
      <3>1. th'[q] = th[q] /\ Guarding(th[q])
        BY <1>10, <1>12, <2>2 DEF Guarding
      <3>2. th[q].token # t /\ th[q].token \in DOMAIN conns
        BY <1>1, <1>2, <1>3, <2>2, <3>1, GuardLocks DEF Core, GuardInv
      <3>3. ~conns[th[q].token].q.data
        BY <1>3, <1>12, <3>1 DEF SendInv, SentNothing
      <3> QED
        BY <1>11, <3>1, <3>2, <3>3
    <2> QED
      BY <2>1, <2>2
  <1>13. \A u : Reaping(u) => Reaping(u)'
    BY <1>2, <1>10 DEF Reaping
  <1>14. \A u : SendPending(u) => SendPending(u)'
    BY <1>2 DEF SendPending
  <1>15. \A u \in DOMAIN conns' : conns'[u].locker # None \/ Calm(u)
    BY <1>8, <1>11, <1>13, <1>14 DEF Calm
  <1>16. \A u \in DOMAIN conns' : Reaped(u)' /\ Announced(u)'
    BY <1>1, <1>3, <1>15, TokensStep
  <1> QED
    BY <1>12, <1>16 DEF SentNothing

(* Group::unlock.  A closed connection gets its remover; an open one is    *)
(* announced, unless a send found nothing: then what there is to send was  *)
(* created by the replay.                                                  *)
LEMMA GuardDropSend ==
    ASSUME IInv, IInv', TableInv, SendInv, NEW p \in Thread, GuardDrop(p)
    PROVE  SendInv'
  <1> DEFINE k == th[p]
  <1>0. PICK t : t = k.token
    OBVIOUS
  <1>1. Core /\ Core' /\ rd \in Readiness /\ th \in [Thread -> Context]
    BY Parts DEF RestOK, IInv, Core, TypeOK
  <1>2. k \in Context /\ k.pc = "done" /\ Guarding(k) /\ UNCHANGED <<handed, dangling>>
    BY <1>1 DEF GuardDrop, Guarding
  <1> SUFFICES ASSUME Sound'
               PROVE  SentNothing' /\ \A u \in DOMAIN conns' : Reaped(u)' /\ Announced(u)'
    BY DEF SendInv
  <1>3. Sound
    BY <1>2 DEF Sound
  <1>4. t \in DOMAIN conns /\ conns[t].locker # None /\ conns[t].lock_count = k.lock_count
    BY <1>0, <1>1, <1>2, <1>3, GuardLocks DEF Core, GuardInv, Matches
  <1>5. PICK x \in Choice(conns[t]) :
           LET s == unlock([c |-> conns[t], rd |-> rd], x, k.send_done)
           IN  /\ conns' = [conns EXCEPT ![t] = s.c] /\ rd' = s.rd
               /\ th' = [Unpark(t) EXCEPT ![p] =
                            IF s.c.q.closed
                            THEN [Idle EXCEPT !.pc = "reap", !.token = t, !.next = k.next]
                            ELSE Returned(k)]
    BY <1>0, <1>4 DEF GuardDrop
  <1> DEFINE s == unlock([c |-> conns[t], rd |-> rd], x, k.send_done)
             reap == [Idle EXCEPT !.pc = "reap", !.token = t, !.next = k.next]
             v == IF s.c.q.closed THEN reap ELSE Returned(k)
  <1>6. conns[t] \in Conn /\ conns[t].locker # ReadLock /\ k.send_done \in BOOLEAN /\ conns[t].token = t
    BY <1>1, <1>2, <1>4 DEF Core, NoReader, Context, TableInv, TokensAgree
  <1>7. /\ \A e \in pending(rd) : e.token # conns[t].token => e \in pending(s.rd)
        /\ ~k.send_done => \E e \in pending(s.rd) : e.kind = "Send" /\ e.token = conns[t].token
        /\ k.send_done /\ ~conns[t].q.data /\ s.c.q.data => s.c.replayed
    BY <1>1, <1>6, UnlockSend
  <1>8. conns' = [conns EXCEPT ![t] = s.c] /\ rd' = s.rd /\ th' = [Unpark(t) EXCEPT ![p] = v]
    BY <1>5
  <1>9. reap.pc = "reap" /\ reap.token = t /\ Returned(k).pc \in {"idle", "reply"}
    BY <1>2, ContextType DEF Idle
  <1> HIDE DEF s, reap
  <1>10. v.pc # "done" /\ (s.c.q.closed => v.pc = "reap" /\ v.token = t)
    BY <1>9
  <1> HIDE DEF v
  <1>11. th'[p] = v /\ \A q \in Thread : q # p /\ th[q].pc # "parked" => th'[q] = th[q]
    <2> DEFINE woken(q) == t \in DOMAIN unparkers /\ unparkers[t] = q /\ th[q].pc = "parked"
               w(q) == [th[q] EXCEPT !.pc = "lookup"]
    <2> HIDE DEF w
    <2>1. Unpark(t) = [q \in Thread |-> IF woken(q) THEN w(q) ELSE th[q]]
      BY DEF Unpark, w
    <2> QED
      BY <1>8, <2>1
  <1>12. \A q \in Thread : th'[q].pc = "done" => q # p /\ th'[q] = th[q]
    <2>1. \A q \in Thread : q # p /\ th[q].pc = "parked" => th'[q].pc \in {"parked", "lookup"}
      <3> DEFINE woken(q) == t \in DOMAIN unparkers /\ unparkers[t] = q /\ th[q].pc = "parked"
                 w(q) == [th[q] EXCEPT !.pc = "lookup"]
      <3>1. \A q \in Thread : w(q).pc = "lookup"
        BY <1>1 DEF Context
      <3> HIDE DEF w
      <3>2. Unpark(t) = [q \in Thread |-> IF woken(q) THEN w(q) ELSE th[q]]
        BY DEF Unpark, w
      <3> QED
        BY <1>8, <3>1, <3>2
    <2> QED
      BY <1>10, <1>11, <2>1
  <1>13. /\ DOMAIN conns' = DOMAIN conns /\ conns'[t] = s.c
         /\ \A u \in DOMAIN conns : u # t => conns'[u] = conns[u]
    BY <1>4, <1>8
  <1>14. ASSUME NEW q \in Thread, th'[q].pc = "done", th'[q].send_done
         PROVE  ~conns'[th'[q].token].q.data
    <2>1. q # p /\ th'[q] = th[q] /\ Guarding(th[q])
      BY <1>12, <1>14 DEF Guarding
    <2>2. th[q].token # t /\ th[q].token \in DOMAIN conns
      BY <1>0, <1>1, <1>2, <1>3, <2>1, GuardLocks DEF Core, GuardInv
    <2>3. ~conns[th[q].token].q.data
      BY <1>3, <1>14, <2>1 DEF SendInv, SentNothing
    <2> QED
      BY <1>13, <2>1, <2>2, <2>3
  <1>15. Reaped(t)' /\ Announced(t)'
    <2>1. Reaped(t)'
      BY <1>10, <1>11, <1>13 DEF Reaped, Reaping
    <2>2. CASE k.send_done
      <3>1. ~conns[t].q.data
        BY <1>0, <1>2, <1>3, <2>2 DEF SendInv, SentNothing
      <3>2. s.c.q.data => s.c.replayed
        BY <1>7, <2>2, <3>1
      <3> QED
        BY <1>13, <2>1, <3>2 DEF Announced
    <2>3. CASE ~k.send_done
      <3>1. SendPending(t)'
        BY <1>6, <1>7, <1>8, <2>3 DEF SendPending
      <3> QED
        BY <2>1, <3>1 DEF Announced
    <2> QED
      BY <2>2, <2>3
  <1>16. ASSUME NEW u \in DOMAIN conns', u # t
         PROVE  Reaped(u)' /\ Announced(u)'
    <2>1. u \in DOMAIN conns /\ conns'[u] = conns[u]
      BY <1>13, <1>16
    <2>2. SendPending(u) => SendPending(u)'
      BY <1>2, <1>6, <1>7, <1>8, <1>16, OtherPending
    <2>3. Reaping(u) => Reaping(u)'
      BY <1>2, <1>11 DEF Reaping
    <2> QED
      BY <1>1, <1>3, <2>1, <2>2, <2>3, TokensStep DEF Calm
  <1> QED
    BY <1>14, <1>15, <1>16 DEF SentNothing

-----------------------------------------------------------------------------
(* A new group has no connection. *)
LEMMA InitSend == Init => SendInv
  <1> SUFFICES ASSUME Init PROVE SendInv
    OBVIOUS
  <1>1. DOMAIN conns = {} /\ \A p \in Thread : th[p].pc = "idle"
    BY DEF Init, Idle
  <1> QED
    BY <1>1 DEF SendInv, SentNothing

(* Every step of every thread keeps the announcements. *)
LEMMA NextSend == IInv /\ IInv' /\ TableInv /\ SendInv /\ Next => SendInv'
  <1> SUFFICES ASSUME IInv, IInv', TableInv, SendInv, NEW p \in Thread,
                      \/ Connect(p) \/ Poll(p)
                      \/ \E t \in Token : Deregister(p, t) \/ Close(p, t)
                      \/ \E t \in Token, id \in StreamId : StreamShutdown(p, t, id)
                      \/ \E t \in Token, kind \in {"StreamOpenBidi", "StreamOpenUni"} : StreamOpen(p, t, kind)
                      \/ \E t \in Token : CallGuarded(p, t, "Send", 0)
                      \/ \E t \in Token, id \in StreamId, op \in {"StreamSend", "StreamRecv"} :
                            CallGuarded(p, t, op, id)
                      \/ \E s \in Scid : Recv(p, s)
                      \/ LookupAgain(p) \/ RecvLock(p) \/ Accept(p) \/ Reply(p)
                      \/ Perform(p) \/ GuardDrop(p) \/ Reap(p) \/ RemoveScid(p)
               PROVE  SendInv'
    BY DEF Next
  <1>0. Core /\ Core' /\ th \in [Thread -> Context] /\ th[p] \in Context
    BY Parts DEF IInv, Core, TypeOK
  <1>1. CASE Connect(p)
    <2>1. th[p].pc # "reap" /\ \E s \in Scid : Register(p, s, FALSE, Idle)
      BY <1>1 DEF Connect, Starts
    <2>2. Idle \in Context /\ Idle.pc # "done"
      BY IdleMoves DEF Idle
    <2> QED
      BY <2>1, <2>2, RegisterSend
  <1>2. CASE Poll(p)
    BY <1>0, <1>2, PollSend
  <1>3. ASSUME NEW t \in Token, Deregister(p, t)
        PROVE  SendInv'
    BY <1>0, <1>3, RemoveConnSend DEF Deregister, Starts
  <1>4. ASSUME NEW t \in Token, Close(p, t)
        PROVE  SendInv'
    BY <1>4, CallLockedSend DEF Close, LockedOp
  <1>5. ASSUME NEW t \in Token, NEW id \in StreamId, StreamShutdown(p, t, id)
        PROVE  SendInv'
    BY <1>5, CallLockedSend DEF StreamShutdown, LockedOp
  <1>6. ASSUME NEW t \in Token, NEW kind \in {"StreamOpenBidi", "StreamOpenUni"}, StreamOpen(p, t, kind)
        PROVE  SendInv'
    BY <1>6, CallLockedSend DEF StreamOpen, LockedOp
  <1>7. ASSUME NEW t \in Token, NEW op \in GuardedOp, NEW id \in StreamId \cup {0}, CallGuarded(p, t, op, id)
        PROVE  SendInv'
    <2>1. /\ t \in DOMAIN conns /\ TryLock(p, t, op, id, "return", Idle) /\ th[p].pc # "reap"
          /\ UNCHANGED <<rd, dangling>> /\ handed' \in {handed, handed \ {t}}
      BY <1>7 DEF CallGuarded, Starts
    <2>2. "return" \in Next_ /\ Idle.pc # "done"
      BY DEF Next_, Idle
    <2> QED
      BY <1>0, <2>1, <2>2, TryLockSend
  <1>8. {"Send", "StreamSend", "StreamRecv"} \subseteq GuardedOp
    BY DEF GuardedOp
  <1>9. ASSUME NEW s \in Scid, Recv(p, s)
        PROVE  SendInv'
    <2>1. th[p].pc # "reap" /\ \E next : Lookup(p, s, next)
      BY <1>9 DEF Recv, Starts
    <2> QED
      BY <2>1, LookupSend
  <1>10. CASE LookupAgain(p)
    BY <1>10, LookupSend DEF LookupAgain
  <1>11. CASE Accept(p)
    <2> DEFINE k == [Idle EXCEPT !.pc = "lookup", !.scid = th[p].scid, !.next = "fresh"]
    <2>1. th[p].pc = "accept" /\ th[p].scid \in Scid
      BY <1>11 DEF Accept, IInv, ParkInv, Receiving
    <2>2. CASE Register(p, th[p].scid, TRUE, k)
      <3>1. k \in Context /\ k.pc # "done"
        BY <2>1, IdleMoves DEF Context, Pc, Next_
      <3> HIDE DEF k
      <3> QED
        BY <2>1, <2>2, <3>1, RegisterSend
    <2>3. CASE th' = [th EXCEPT ![p] = Idle] /\ UNCHANGED <<conns, rd, handed, dangling>>
      <3>1. Idle.pc # "done"
        BY DEF Idle
      <3> QED
        BY <2>1, <2>3, <3>1, MoveSend
    <2> QED
      BY <1>11, <2>2, <2>3 DEF Accept
  <1>12. CASE RemoveScid(p)
    <2>1. PICK v \in {Returned(th[p]), Panic} : th' = [th EXCEPT ![p] = v]
      BY <1>12 DEF RemoveScid
    <2>2. v.pc # "done"
      BY <1>0, <2>1, ContextType DEF Panic, Idle
    <2> QED
      BY <1>12, <2>1, <2>2, MoveSend DEF RemoveScid
  <1> QED
    BY <1>1, <1>2, <1>3, <1>4, <1>5, <1>6, <1>7, <1>8, <1>9, <1>10, <1>11, <1>12,
       RecvLockSend, ReplySend, PerformSend, GuardDropSend, ReapSend

(* SendInv is about the variables of the group. *)
LEMMA StutterSend == SendInv /\ UNCHANGED vars => SendInv'
  BY DEF SendInv, SentNothing, Reaped, Reaping, Announced, SendPending, Holders, Sound, vars

(* Announcements and removals hold in every behaviour of the group. *)
THEOREM Announcements == Spec => []SendInv
  BY InitSend, NextSend, StutterSend, Tables, Invariance, PTL DEF Spec

(* As long as no guard has been left dangling, a closed connection has its *)
(* remover on the way, a guard out, or a Send event pending that leads to  *)
(* a guard (Group::unlock and the result of QuicConn::unlock).             *)
THEOREM ClosedIsReapedHolds == Spec => []ClosedIsReaped
  <1>1. SendInv => ClosedIsReaped
    BY DEF SendInv, Reaped, Reaping, ClosedIsReaped
  <1> QED
    BY <1>1, Announcements, PTL

(* As long as no guard has been left dangling, an unlocked connection with *)
(* data has its Send event pending or handed out, except for data that a   *)
(* replay created in the unlock of a send that found none (handle_send).   *)
THEOREM DataAnnouncedHolds == Spec => []DataAnnouncedUnlessReplayed
  <1>1. SendInv => DataAnnouncedUnlessReplayed
    BY DEF SendInv, Announced, DataAnnouncedUnlessReplayed
  <1> QED
    BY <1>1, Announcements, PTL


-----------------------------------------------------------------------------
(* Streams are announced once.  handle_accept compares the id of a stream  *)
(* with the highest one seen in its direction, so every stream announced   *)
(* must lie at or below it.                                                *)

Counted(c) == \A i \in c.accepted : i <= remote_stream_seen(c, i)

CountInv == \A t \in DOMAIN conns : Counted(conns[t])

(* The step announces no stream that was announced before. *)
FirstTime ==
    \A e \in rd'.events \ rd.events :
        e.kind = "StreamAccept" /\ e.token \in DOMAIN conns => e.stream_id \notin conns[e.token].accepted

(* The same streams are announced, and the same seen. *)
Alike(c, d) ==
    /\ d.accepted = c.accepted
    /\ d.remote_stream_bidi_seen = c.remote_stream_bidi_seen
    /\ d.remote_stream_uni_seen = c.remote_stream_uni_seen

(* No stream is announced on the way from one readiness set to another. *)
NoAccept(r, d) == \A e \in d.events \ r.events : e.kind # "StreamAccept"

(* What was announced stays counted where neither it nor the marks change. *)
LEMMA AlikeCounted ==
    ASSUME NEW c, NEW d, Alike(c, d), Counted(c)
    PROVE  Counted(d)
  BY DEF Alike, Counted, remote_stream_seen

(* The highest of the unseen streams is above all announced before and now. *)
LEMMA MarkRises ==
    ASSUME NEW seen \in Int, NEW U, \A i \in U : i \in Int, NEW old, \A i \in old : i \in Int, NEW n,
           \A i \in U : i > seen, \A i \in old : i <= seen,
           (n = seen /\ U = {}) \/ Highest(n, U)
    PROVE  \A i \in old \cup U : i <= n
  <1>1. CASE n = seen /\ U = {}
    BY <1>1
  <1>2. CASE Highest(n, U)
    <2>1. n \in Int /\ n > seen /\ \A i \in U : i <= n
      BY <1>2 DEF Highest
    <2>2. \A i \in old : i <= n
      BY <2>1
    <2> QED
      BY <2>1, <2>2
  <1> QED
    BY <1>1, <1>2

(* Stream ids and marks are integers. *)
LEMMA SeenType ==
    ASSUME NEW c \in Conn
    PROVE  /\ c.remote_stream_bidi_seen \in Int /\ c.remote_stream_uni_seen \in Int
           /\ \A i \in c.accepted : i \in Int
           /\ \A i \in StreamId : i \in Int
           /\ \A i : remote_stream_seen(c, i) \in Int
  <1>1. -1 \in Int /\ \A i \in StreamId : i \in Int
    BY StreamIdAssumption
  <1>2. /\ c.remote_stream_bidi_seen \in StreamId \cup {-1} /\ c.remote_stream_uni_seen \in StreamId \cup {-1}
        /\ c.accepted \subseteq StreamId
    BY DEF Conn
  <1>3. c.remote_stream_bidi_seen \in Int /\ c.remote_stream_uni_seen \in Int
    BY <1>1, <1>2
  <1> QED
    BY <1>1, <1>2, <1>3 DEF remote_stream_seen

(* The replay announces no stream. *)
LEMMA RetryAccept ==
    ASSUME NEW s \in ConnRd, NEW x, NEW d, d = handle_retry_events(s, x)
    PROVE  Alike(s.c, d.c) /\ NoAccept(s.rd, d.rd)
  <1> DEFINE c == s.c
             opens == {k \in {"StreamOpenBidi", "StreamOpenUni"} : Loc(k, 0) \in c.reties}
             q1 == IF Loc("Close", 0) \in c.reties THEN quiche_close(c.q, x.close) ELSE c.q
             more == \E i \in RetryIds(c, "StreamClose") :
                        stream_close_prv(q1, i, c.is_server, x.stop, x.fin).data
             q2 == [q1 EXCEPT !.data = q1.data \/ more]
             b == q2.data /\ ~c.q.data
             A == {event(c, k, 0, FALSE) : k \in {o \in opens : HasCredit(c.q, o)}}
             B == {event(c, k, 0, FALSE) : k \in {l \in {"Recv", "ReadLock"} : Loc(l, 0) \in c.reties}}
             C == {event(c, "StreamRecv", i, FALSE) : i \in RetryIds(c, "StreamRecv")}
             D == {event(c, "StreamSend", i, FALSE) : i \in x.writable}
             E == {event(c, "StreamSend", i, TRUE) : i \in x.failed}
             F == IF x.close = "Err" THEN {event(c, "Closed", 0, TRUE)} ELSE {}
             kept == {Loc(k, 0) : k \in {o \in opens : ~HasCredit(c.q, o)}}
  <1>1. c \in Conn
    BY DEF ConnRd
  <1>2. /\ d.c = [c EXCEPT !.q = q2, !.replayed = b, !.reties = kept]
        /\ d.rd = insert(s.rd, A \cup B \cup C \cup D \cup E \cup F, FALSE)
    BY DEF handle_retry_events
  <1>3. \A e \in A \cup B \cup C \cup D \cup E \cup F : e.kind # "StreamAccept"
    <2>1. \A k, i : \A v \in BOOLEAN : event(c, k, i, v).kind = k
      BY DEF event
    <2> HIDE DEF c
    <2>2. \A e \in A : e.kind # "StreamAccept"
      BY <2>1
    <2>3. \A e \in B : e.kind # "StreamAccept"
      BY <2>1
    <2>4. \A e \in C : e.kind = "StreamRecv"
      <3> DEFINE G(i) == event(c, "StreamRecv", i, FALSE)
      <3>1. \A i : G(i).kind = "StreamRecv"
        BY DEF event
      <3>2. C = {G(i) : i \in RetryIds(c, "StreamRecv")}
        OBVIOUS
      <3> HIDE DEF G, C
      <3> QED
        BY <3>1, <3>2
    <2>5. \A e \in D : e.kind = "StreamSend"
      <3> DEFINE G(i) == event(c, "StreamSend", i, FALSE)
      <3>1. \A i : G(i).kind = "StreamSend"
        BY DEF event
      <3>2. D = {G(i) : i \in x.writable}
        OBVIOUS
      <3> HIDE DEF G, D
      <3> QED
        BY <3>1, <3>2
    <2>6. \A e \in E : e.kind = "StreamSend"
      <3> DEFINE G(i) == event(c, "StreamSend", i, TRUE)
      <3>1. \A i : G(i).kind = "StreamSend"
        BY DEF event
      <3>2. E = {G(i) : i \in x.failed}
        OBVIOUS
      <3> HIDE DEF G, E
      <3> QED
        BY <3>1, <3>2
    <2>7. \A e \in F : e.kind # "StreamAccept"
      BY <2>1
    <2> HIDE DEF A, B, C, D, E, F
    <2> QED
      BY <2>2, <2>3, <2>4, <2>5, <2>6, <2>7
  <1> HIDE DEF q2, kept, opens, b, A, B, C, D, E, F
  <1>4. Alike(c, d.c)
    BY <1>1, <1>2 DEF Conn, Alike
  <1>5. d.rd.events \ s.rd.events \subseteq A \cup B \cup C \cup D \cup E \cup F
    BY <1>2 DEF insert
  <1> QED
    BY <1>3, <1>4, <1>5 DEF NoAccept

(* The report of streams announces streams beyond those seen, and counts them. *)
LEMMA StreamStateAccept ==
    ASSUME NEW s \in ConnRd, NEW x, NEW d, d = handle_stream_state_changed(s, x), Counted(s.c),
           x.first \subseteq Unseen(s.c, TRUE) \cup Unseen(s.c, FALSE), AcceptOrder(s.c, x.first)
    PROVE  /\ Counted(d.c)
           /\ \A e \in d.rd.events \ s.rd.events : e.kind = "StreamAccept" =>
                 e.token = s.c.token /\ e.stream_id \notin s.c.accepted
  <1> DEFINE c == s.c
             recv == {i \in c.q.readable : i \notin x.first}
             A == {event(c, "StreamSend", i, FALSE) : i \in c.q.writable}
             B == {event(c, "StreamRecv", i, FALSE) : i \in recv}
             C == {event(c, "StreamAccept", i, FALSE) : i \in x.first}
             sb == seen_after(c, x.first, TRUE, c.remote_stream_bidi_seen)
             su == seen_after(c, x.first, FALSE, c.remote_stream_uni_seen)
             ib == c.inbound \cup Inbound(c)
             ac == c.accepted \cup x.first
  <1>1. /\ c \in Conn /\ c.q \in Quiche
        /\ c.remote_stream_bidi_seen \in StreamId \cup {-1} /\ c.remote_stream_uni_seen \in StreamId \cup {-1}
        /\ c.accepted \subseteq StreamId
    BY DEF ConnRd, Conn
  <1>2. /\ d.c = [c EXCEPT !.q.readable = {}, !.q.writable = {}, !.remote_stream_bidi_seen = sb,
                           !.remote_stream_uni_seen = su, !.inbound = ib, !.accepted = ac]
        /\ d.rd = insert(s.rd, A \cup B \cup C, FALSE)
    BY DEF handle_stream_state_changed
  <1>3. \A b \in BOOLEAN : \A i \in Unseen(c, b) : i \in StreamId /\ is_bidi(i) = b /\ i > remote_stream_seen(c, i)
    BY <1>1, UnseenType DEF Unseen
  <1>4. \A i \in x.first : i \in StreamId /\ i \in Unseen(c, is_bidi(i)) /\ i > remote_stream_seen(c, i)
    BY <1>3
  <1>5. ASSUME NEW b \in BOOLEAN, NEW seen \in Int,
               \A i \in c.accepted \cup x.first : is_bidi(i) = b => remote_stream_seen(c, i) = seen
        PROVE  \A i \in ac : is_bidi(i) = b => i <= seen_after(c, x.first, b, seen)
    <2> DEFINE n == seen_after(c, x.first, b, seen)
               U == Unseen(c, b)
               old == {i \in c.accepted : is_bidi(i) = b}
    <2>1. (\A i \in U : i \in Int) /\ \A i \in old : i \in Int
      BY <1>1, UnseenType, SeenType
    <2>2. \A i \in old : i <= seen
      BY <1>5 DEF Counted
    <2>3. \A i \in x.first : is_bidi(i) = b => i \in U
      BY <1>4, Zenon
    <2>4. (n = seen /\ U = {}) \/ (n \in x.first /\ Highest(n, U))
      <3>1. U # {} => \E i \in x.first : Highest(i, U)
        BY DEF AcceptOrder
      <3> QED
        BY <3>1 DEF seen_after
    <2> HIDE DEF n
    <2>5. \A i \in U : i > seen
      <3>1. CASE U = {}
        BY <3>1
      <3>2. CASE U # {}
        <4> USE <3>2
        <4>1. n \in x.first /\ n \in U
          BY <2>4 DEF Highest
        <4>2. \A i \in U : is_bidi(i) = b /\ i > remote_stream_seen(c, i)
          BY <1>3, Zenon
        <4>3. \A i \in U : remote_stream_seen(c, i) = remote_stream_seen(c, n)
          BY <4>1, <4>2 DEF remote_stream_seen
        <4>4. remote_stream_seen(c, n) = seen
          BY <1>5, <4>1, <4>2
        <4> QED
          BY <4>2, <4>3, <4>4
      <3> QED
        BY <3>1, <3>2
    <2>6. \A i \in old \cup U : i <= n
      <3> HIDE DEF old, U
      <3> QED
        BY <2>1, <2>2, <2>4, <2>5, MarkRises
    <2>7. \A i \in ac : is_bidi(i) = b => i \in old \cup U
      BY <2>3
    <2> QED
      BY <2>6, <2>7 DEF n
  <1>6. \A i \in ac : i <= IF is_bidi(i) THEN sb ELSE su
    <2>0. c.remote_stream_bidi_seen \in Int /\ c.remote_stream_uni_seen \in Int
      BY <1>1, SeenType
    <2>1. \A i : is_bidi(i) \in BOOLEAN
      BY DEF is_bidi
    <2>2. \A i \in ac : is_bidi(i) = TRUE => i <= sb
      <3>1. \A i : is_bidi(i) = TRUE => remote_stream_seen(c, i) = c.remote_stream_bidi_seen
        BY DEF remote_stream_seen
      <3> QED
        BY <1>5, <2>0, <3>1
    <2>3. \A i \in ac : is_bidi(i) = FALSE => i <= su
      <3>1. \A i : is_bidi(i) = FALSE => remote_stream_seen(c, i) = c.remote_stream_uni_seen
        BY DEF remote_stream_seen
      <3> QED
        BY <1>5, <2>0, <3>1
    <2> HIDE DEF sb, su, ac
    <2> QED
      BY <2>1, <2>2, <2>3
  <1>7. \A e \in A \cup B \cup C : e.kind = "StreamAccept" => e.token = c.token /\ e.stream_id \in x.first
    <2> HIDE DEF c, recv
    <2>2. \A e \in A : e.kind = "StreamSend"
      <3> DEFINE G(i) == event(c, "StreamSend", i, FALSE)
      <3>1. \A i : G(i).kind = "StreamSend"
        BY DEF event
      <3>2. A = {G(i) : i \in c.q.writable}
        OBVIOUS
      <3> HIDE DEF G, A
      <3> QED
        BY <3>1, <3>2
    <2>3. \A e \in B : e.kind = "StreamRecv"
      <3> DEFINE G(i) == event(c, "StreamRecv", i, FALSE)
      <3>1. \A i : G(i).kind = "StreamRecv"
        BY DEF event
      <3>2. B = {G(i) : i \in recv}
        OBVIOUS
      <3> HIDE DEF G, B
      <3> QED
        BY <3>1, <3>2
    <2>4. \A e \in C : e.token = c.token /\ e.stream_id \in x.first
      <3> DEFINE G(i) == event(c, "StreamAccept", i, FALSE)
      <3>1. \A i : G(i).token = c.token /\ G(i).stream_id = i
        BY DEF event
      <3>2. C = {G(i) : i \in x.first}
        OBVIOUS
      <3> HIDE DEF G, C
      <3> QED
        BY <3>1, <3>2
    <2> HIDE DEF A, B, C
    <2> QED
      BY <2>2, <2>3, <2>4
  <1> HIDE DEF sb, su, ib, ac, A, B, C
  <1>8. d.c.accepted = ac /\ d.c.remote_stream_bidi_seen = sb /\ d.c.remote_stream_uni_seen = su
    <2> HIDE DEF c
    <2> QED
      BY <1>1, <1>2 DEF Conn
  <1>9. Counted(d.c)
    BY <1>6, <1>8 DEF Counted, remote_stream_seen
  <1>10. \A i \in x.first : i \notin c.accepted
    <2>3. \A i \in x.first : i \in Int /\ remote_stream_seen(c, i) \in Int
      BY <1>1, <1>4, SeenType
    <2> QED
      BY <1>4, <2>3 DEF Counted
  <1>11. d.rd.events \ s.rd.events \subseteq A \cup B \cup C
    BY <1>2 DEF insert
  <1> QED
    BY <1>7, <1>9, <1>10, <1>11

(* handle_send and handle_state_changed announce no stream. *)
LEMMA SendAccept ==
    ASSUME NEW s \in ConnRd, NEW x, NEW sd \in BOOLEAN, NEW d, d = handle_send(s, x, sd)
    PROVE  Alike(s.c, d.c) /\ NoAccept(s.rd, d.rd)
  <1> DEFINE send == {event(s.c, "Send", 0, FALSE)}
             delay == delay_send(x, sd)
  <1>1. \A e \in send : e.kind # "StreamAccept"
    BY DEF event
  <1> HIDE DEF send, delay
  <1>3. /\ d.c = [s.c EXCEPT !.replayed = s.c.replayed /\ sd]
        /\ d.rd = IF sd /\ ~delay THEN remove(s.rd, send) ELSE insert(s.rd, send, delay)
    BY DEF handle_send, send, delay
  <1>4. Alike(s.c, d.c)
    BY <1>3 DEF ConnRd, Conn, Alike
  <1>5. d.rd.events \ s.rd.events \subseteq send
    BY <1>3 DEF insert, remove
  <1> QED
    BY <1>1, <1>4, <1>5 DEF NoAccept

(* The report of the handshake and the end announces no stream. *)
LEMMA StateAccept ==
    ASSUME NEW s \in ConnRd, NEW d, d = handle_state_changed(s)
    PROVE  Alike(s.c, d.c) /\ NoAccept(s.rd, d.rd)
  <1> DEFINE c == s.c
             done == ~c.established /\ c.q.established
             kind == IF c.is_server THEN "Accept" ELSE "Connected"
             b == c.established \/ done
             es == (IF done THEN {event(c, kind, 0, FALSE)} ELSE {})
                   \cup (IF c.q.closed THEN {event(c, "Closed", 0, FALSE)} ELSE {})
  <1>1. d.c = [c EXCEPT !.established = b] /\ d.rd = insert(s.rd, es, FALSE)
    BY DEF handle_state_changed
  <1>2. \A e \in es : e.kind # "StreamAccept"
    BY DEF event
  <1> HIDE DEF b, es
  <1>3. Alike(c, d.c)
    BY <1>1 DEF ConnRd, Conn, Alike
  <1>4. d.rd.events \ s.rd.events \subseteq es
    BY <1>1 DEF insert
  <1> QED
    BY <1>2, <1>3, <1>4 DEF NoAccept

(* unlock announces streams of its own connection that were not announced  *)
(* before, and counts them.                                                *)
LEMMA UnlockAccept ==
    ASSUME NEW c \in Conn, NEW r \in Readiness, NEW x \in Choice(c), NEW sd \in BOOLEAN, Counted(c),
           c.locker = ReadLock => c.read_lock_count = 1
    PROVE  LET s == unlock([c |-> c, rd |-> r], x, sd)
           IN  /\ Counted(s.c)
               /\ \A e \in s.rd.events \ r.events : e.kind = "StreamAccept" =>
                     e.token = c.token /\ e.stream_id \notin c.accepted
  <1> DEFINE s0 == [c |-> release(c), rd |-> r]
             s1 == handle_retry_events(s0, x)
             s2 == handle_stream_state_changed(s1, x)
             s3 == handle_send(s2, x, sd)
             s4 == handle_state_changed(s3)
  <1>1. Answer(x) /\ AcceptOrder(c, x.first) /\ x.first \subseteq Unseen(c, TRUE) \cup Unseen(c, FALSE)
    BY ChoiceType DEF Choice
  <1>2. unlock([c |-> c, rd |-> r], x, sd) = s4
    BY DEF unlock
  <1>3. s0 \in ConnRd /\ s0.c = release(c) /\ s0.rd = r
    BY ReleaseType DEF ConnRd, Conn
  <1>4. Same(c, s0.c) /\ s0.c.q = c.q /\ Alike(c, s0.c)
    <2>1. release(c).accepted = c.accepted
      BY DEF release, Conn
    <2> QED
      BY <1>3, <2>1, ReleaseFrame DEF Alike
  <1> HIDE DEF s0
  <1>5. s1 \in ConnRd
    BY <1>1, <1>3, RetryType
  <1>6. Same(s0.c, s1.c) /\ s1.c.q.readable = s0.c.q.readable
    BY <1>1, <1>3, RetryFrame
  <1>7. Alike(s0.c, s1.c) /\ NoAccept(s0.rd, s1.rd)
    BY <1>3, RetryAccept
  <1> HIDE DEF s1
  <1>8. \A b \in BOOLEAN : Unseen(s1.c, b) = Unseen(c, b)
    BY <1>4, <1>6, <1>7 DEF Unseen, Inbound, remote_stream_seen, Same, Alike
  <1>9. AcceptOrder(s1.c, x.first) /\ x.first \subseteq Unseen(s1.c, TRUE) \cup Unseen(s1.c, FALSE)
    <2>1. AcceptOrder(s1.c, x.first)
      BY <1>1, <1>8, Zenon DEF AcceptOrder
    <2> QED
      BY <1>1, <1>8, <2>1
  <1>10. Counted(s1.c) /\ s1.c.token = c.token /\ s1.c.accepted = c.accepted
    BY <1>4, <1>6, <1>7, AlikeCounted DEF Alike, Same
  <1>11. s2 \in ConnRd
    BY <1>1, <1>5, <1>9, StreamStateType
  <1>12. /\ Counted(s2.c)
         /\ \A e \in s2.rd.events \ s1.rd.events : e.kind = "StreamAccept" =>
               e.token = s1.c.token /\ e.stream_id \notin s1.c.accepted
    BY <1>5, <1>9, <1>10, StreamStateAccept
  <1> HIDE DEF s2
  <1>13. s3 \in ConnRd
    BY <1>1, <1>11, SendType
  <1>14. Alike(s2.c, s3.c) /\ NoAccept(s2.rd, s3.rd)
    BY <1>1, <1>11, SendAccept
  <1> HIDE DEF s3
  <1>15. Alike(s3.c, s4.c) /\ NoAccept(s3.rd, s4.rd)
    BY <1>13, StateAccept
  <1> HIDE DEF s4
  <1>16. Counted(s4.c)
    BY <1>12, <1>14, <1>15, AlikeCounted
  <1>17. \A e \in s4.rd.events \ r.events : e.kind = "StreamAccept" =>
            e.token = c.token /\ e.stream_id \notin c.accepted
    BY <1>3, <1>7, <1>10, <1>12, <1>14, <1>15 DEF NoAccept
  <1> QED
    BY <1>2, <1>16, <1>17


(* A step that announces no stream and leaves what was announced alone. *)
LEMMA QuietAccept ==
    ASSUME CountInv, rd'.events \subseteq rd.events,
           \A u \in DOMAIN conns' : u \in DOMAIN conns /\ Alike(conns[u], conns'[u])
    PROVE  CountInv' /\ FirstTime
  <1>1. \A u \in DOMAIN conns' : Counted(conns'[u])
    BY AlikeCounted DEF CountInv
  <1> QED
    BY <1>1 DEF CountInv, FirstTime

(* A step that unlocks a connection, which may be a new one. *)
LEMMA UnlockingAccept ==
    ASSUME CountInv, rd \in Readiness, NEW t, NEW c \in Conn, c.token = t, Counted(c),
           c.locker = ReadLock => c.read_lock_count = 1, NEW x \in Choice(c), NEW sd \in BOOLEAN,
           t \in DOMAIN conns => c.accepted = conns[t].accepted,
           rd' = unlock([c |-> c, rd |-> rd], x, sd).rd,
           conns'[t] = unlock([c |-> c, rd |-> rd], x, sd).c,
           \A u \in DOMAIN conns' : u # t => u \in DOMAIN conns /\ conns'[u] = conns[u]
    PROVE  CountInv' /\ FirstTime
  <1> DEFINE s == unlock([c |-> c, rd |-> rd], x, sd)
  <1>1. /\ Counted(s.c)
        /\ \A e \in s.rd.events \ rd.events : e.kind = "StreamAccept" =>
              e.token = c.token /\ e.stream_id \notin c.accepted
    BY UnlockAccept
  <1>2. rd' = s.rd /\ conns'[t] = s.c
    OBVIOUS
  <1> HIDE DEF s
  <1>3. \A u \in DOMAIN conns' : Counted(conns'[u])
    BY <1>1, <1>2 DEF CountInv
  <1>4. FirstTime
    BY <1>1, <1>2 DEF FirstTime
  <1> QED
    BY <1>3, <1>4 DEF CountInv

(* Locking, being refused, and the quiche call of a locked operation leave *)
(* alone what was announced.                                               *)
LEMMA LockAlike ==
    ASSUME NEW c \in Conn, NEW loc \in LocKind
    PROVE  Alike(c, lock(c, loc)) /\ Alike(c, refuse(c, loc))
  BY DEF lock, refuse, Conn, Alike

(* So does the quiche call of close, stream_open or stream_shutdown. *)
LEMMA LockedCallAlike ==
    ASSUME NEW c \in Conn, NEW op \in LockedOp, NEW id \in StreamId \cup {0},
           NEW d \in LockedCall(c, op, id)
    PROVE  Alike(c, d)
  <1>1. CASE op = "Close"
    <2> DEFINE F(o) == [c EXCEPT !.q = quiche_close(c.q, o)]
    <2>1. LockedCall(c, op, id) = {F(o) : o \in CloseOutcome(c.q)}
      BY <1>1 DEF LockedCall, Closings
    <2>2. \A o : Alike(c, F(o))
      BY DEF Conn, Alike
    <2> HIDE DEF F
    <2> QED
      BY <2>1, <2>2
  <1>2. CASE op = "StreamClose"
    <2> DEFINE F(stop, fin) == [c EXCEPT !.q = stream_close_prv(c.q, id, c.is_server, stop, fin)]
    <2>1. LockedCall(c, op, id) = {F(stop, fin) : stop \in StopOutcome, fin \in BOOLEAN}
      BY <1>2 DEF LockedCall, StreamClosings
    <2>2. \A stop, fin : Alike(c, F(stop, fin))
      BY DEF Conn, Alike
    <2> HIDE DEF F
    <2> QED
      BY <2>1, <2>2
  <1>3. CASE op \notin {"Close", "StreamClose"} /\ HasCredit(c.q, op)
    <2>1. PICK ok \in BOOLEAN : d = stream_open_prv(c, op, ok)
      BY <1>3 DEF LockedCall, StreamOpenings
    <2> QED
      BY <2>1 DEF stream_open_prv, Conn, Alike
  <1>4. CASE op \notin {"Close", "StreamClose"} /\ ~HasCredit(c.q, op)
    <2>1. d = [c EXCEPT !.reties = c.reties \cup {Loc(op, 0)}]
      BY <1>4 DEF LockedCall, StreamOpenings
    <2> QED
      BY <2>1 DEF Conn, Alike
  <1> QED
    BY <1>1, <1>2, <1>3, <1>4

(* A guard is asked for, and given or refused. *)
LEMMA TryLockAccept ==
    ASSUME IInv, CountInv, NEW p, NEW t \in DOMAIN conns, NEW op \in GuardedOp,
           NEW id \in StreamId \cup {0}, NEW next, NEW refused,
           TryLock(p, t, op, id, next, refused), rd' = rd
    PROVE  CountInv' /\ FirstTime
  <1> DEFINE loc == LockOf(op, id)
  <1>1. loc \in LocKind /\ conns[t] \in Conn
    BY LockOfType DEF IInv, TypeOK
  <1>2. \E c : conns' = [conns EXCEPT ![t] = c] /\ Alike(conns[t], c)
    BY <1>1, LockAlike DEF TryLock
  <1>3. PICK c : conns' = [conns EXCEPT ![t] = c] /\ Alike(conns[t], c)
    BY <1>2
  <1>4. \A u \in DOMAIN conns' : u \in DOMAIN conns /\ Alike(conns[u], conns'[u])
    BY <1>3 DEF Alike
  <1> QED
    BY <1>4, QuietAccept

(* close, stream_open and stream_shutdown. *)
LEMMA CallLockedAccept ==
    ASSUME IInv, TableInv, CountInv, NEW t \in Token, NEW op \in LockedOp,
           NEW id \in StreamId \cup {0}, CallLocked(t, op, id)
    PROVE  CountInv' /\ FirstTime
  <1> DEFINE loc == Loc(op, id)
  <1>1. /\ t \in DOMAIN conns /\ conns[t] \in Conn /\ rd \in Readiness
        /\ conns[t].token = t /\ Counted(conns[t])
    BY DEF CallLocked, IInv, TypeOK, TableInv, TokensAgree, CountInv
  <1>2. loc \in LocKind /\ loc # ReadLock
    BY LocType
  <1>3. CASE Lockable(conns[t], loc)
    <2> DEFINE l == lock(conns[t], loc)
    <2>1. PICK c \in LockedCall(l, op, id) : \E x \in Choice(c) :
             LET s == unlock([c |-> c, rd |-> rd], x, FALSE)
             IN  conns' = [conns EXCEPT ![t] = s.c] /\ rd' = s.rd
      BY <1>3 DEF CallLocked
    <2>2. PICK x \in Choice(c) :
             LET s == unlock([c |-> c, rd |-> rd], x, FALSE)
             IN  conns' = [conns EXCEPT ![t] = s.c] /\ rd' = s.rd
      BY <2>1
    <2> DEFINE s == unlock([c |-> c, rd |-> rd], x, FALSE)
    <2>3. l \in Conn /\ l.locker = loc /\ l.token = t /\ Alike(conns[t], l)
      BY <1>1, <1>2, LockType, LockFrame, LockIds, LockAlike
    <2> HIDE DEF l
    <2>4. c \in Conn /\ c.locker # ReadLock /\ c.token = t /\ Alike(l, c)
      BY <1>2, <2>3, LockedCallType, LockedCallIds, LockedCallAlike
    <2>5. c.accepted = conns[t].accepted /\ Counted(c)
      BY <1>1, <2>3, <2>4, AlikeCounted DEF Alike
    <2>6. /\ rd' = s.rd /\ conns'[t] = s.c
          /\ \A u \in DOMAIN conns' : u # t => u \in DOMAIN conns /\ conns'[u] = conns[u]
      <3> HIDE DEF s
      <3>1. conns' = [conns EXCEPT ![t] = s.c] /\ rd' = s.rd
        BY <2>2 DEF s
      <3> QED
        BY <1>1, <3>1
    <2> QED
      BY <1>1, <2>4, <2>5, <2>6, UnlockingAccept
  <1>4. CASE ~Lockable(conns[t], loc)
    <2>1. conns' = [conns EXCEPT ![t] = refuse(conns[t], loc)] /\ rd' = rd
      BY <1>4 DEF CallLocked
    <2>2. Alike(conns[t], refuse(conns[t], loc))
      BY <1>1, <1>2, LockAlike
    <2>3. \A u \in DOMAIN conns' : u \in DOMAIN conns /\ Alike(conns[u], conns'[u])
      BY <2>1, <2>2 DEF Alike
    <2> QED
      BY <2>1, <2>3, QuietAccept
  <1> QED
    BY <1>3, <1>4

(* register: a new connection has announced nothing, and its token is free. *)
LEMMA RegisterAccept ==
    ASSUME IInv, CountInv, NEW p, NEW scid \in Scid, NEW b \in BOOLEAN, NEW k, Register(p, scid, b, k)
    PROVE  CountInv' /\ FirstTime
  <1> DEFINE C(t) == lock(new(t, scid, b), ReadLock)
             S(t, x) == unlock([c |-> C(t), rd |-> rd], x, FALSE)
  <1>1. rd \in Readiness
    BY DEF IInv, TypeOK
  <1>2. PICK t \in Token :
           /\ FreeToken(t)
           /\ \/ UNCHANGED <<conns, rd>>
              \/ \E x \in Choice(C(t)) : conns' = With(conns, t, S(t, x).c) /\ rd' = S(t, x).rd
    BY DEF Register
  <1>3. CASE UNCHANGED <<conns, rd>>
    BY <1>3, QuietAccept DEF Alike
  <1>4. ASSUME NEW x \in Choice(C(t)), conns' = With(conns, t, S(t, x).c), rd' = S(t, x).rd
        PROVE  CountInv' /\ FirstTime
    <2>1. C(t) \in Conn /\ C(t).locker = ReadLock /\ C(t).read_lock_count = 1
      BY NewReader
    <2>2. C(t).token = t /\ C(t).accepted = {}
      <3>1. new(t, scid, b) \in Conn /\ new(t, scid, b).token = t /\ new(t, scid, b).accepted = {}
        BY NewType DEF new
      <3>2. ReadLock \in LocKind
        BY DEF ReadLock, Loc, LocKind, LocKinds
      <3> QED
        BY <3>1, <3>2, LockIds, LockAlike DEF Alike
    <2> HIDE DEF C
    <2>3. Counted(C(t))
      BY <2>2 DEF Counted
    <2>4. t \notin DOMAIN conns
      BY <1>2 DEF FreeToken
    <2>5. conns'[t] = S(t, x).c /\ \A u \in DOMAIN conns' : u # t => u \in DOMAIN conns /\ conns'[u] = conns[u]
      <3> HIDE DEF S
      <3> QED
        BY <1>4 DEF With
    <2> QED
      BY <1>1, <1>4, <2>1, <2>2, <2>3, <2>4, <2>5, UnlockingAccept
  <1> QED
    BY <1>2, <1>3, <1>4

(* The guard is dropped (Group::unlock). *)
LEMMA GuardDropAccept ==
    ASSUME IInv, TableInv, CountInv, NEW p \in Thread, GuardDrop(p)
    PROVE  CountInv' /\ FirstTime
  <1>1. rd \in Readiness /\ th[p] \in Context
    BY DEF IInv, TypeOK
  <1>2. PICK t : t = th[p].token
    OBVIOUS
  <1>3. PICK sd \in BOOLEAN : sd = th[p].send_done
    BY <1>1 DEF Context
  <1>4. \/ UNCHANGED <<conns, rd>>
        \/ /\ t \in DOMAIN conns
           /\ \E x \in Choice(conns[t]) :
                 LET s == unlock([c |-> conns[t], rd |-> rd], x, sd)
                 IN  conns' = [conns EXCEPT ![t] = s.c] /\ rd' = s.rd
    BY <1>2, <1>3 DEF GuardDrop
  <1>5. CASE UNCHANGED <<conns, rd>>
    BY <1>5, QuietAccept DEF Alike
  <1>6. ASSUME t \in DOMAIN conns, NEW x \in Choice(conns[t]),
               LET s == unlock([c |-> conns[t], rd |-> rd], x, sd)
               IN  conns' = [conns EXCEPT ![t] = s.c] /\ rd' = s.rd
        PROVE  CountInv' /\ FirstTime
    <2> DEFINE s == unlock([c |-> conns[t], rd |-> rd], x, sd)
    <2>1. /\ conns[t] \in Conn /\ conns[t].locker # ReadLock /\ conns[t].token = t /\ Counted(conns[t])
      BY <1>6, Parts DEF Core, NoReader, TableInv, TokensAgree, CountInv
    <2>2. /\ rd' = s.rd /\ conns'[t] = s.c
          /\ \A u \in DOMAIN conns' : u # t => u \in DOMAIN conns /\ conns'[u] = conns[u]
      <3> HIDE DEF s
      <3>1. conns' = [conns EXCEPT ![t] = s.c] /\ rd' = s.rd
        BY <1>6 DEF s
      <3> QED
        BY <1>6, <3>1
    <2> QED
      BY <1>1, <2>1, <2>2, UnlockingAccept
  <1> QED
    BY <1>4, <1>5, <1>6

(* The quiche call under a guard announces nothing; unlock will. *)
LEMMA PerformAccept ==
    ASSUME IInv, CountInv, NEW p \in Thread, Perform(p)
    PROVE  CountInv' /\ FirstTime
  <1>1. rd' = rd
    BY DEF Perform
  <1>2. CASE conns' = conns
    BY <1>1, <1>2, QuietAccept DEF Alike
  <1>3. ASSUME NEW t, t \in DOMAIN conns, NEW q, conns' = [conns EXCEPT ![t].q = q]
        PROVE  CountInv' /\ FirstTime
    <2> DEFINE c == [conns[t] EXCEPT !.q = q]
    <2>1. Alike(conns[t], c)
      BY <1>3 DEF IInv, TypeOK, Conn, Alike
    <2>2. conns' = [conns EXCEPT ![t] = c]
      BY <1>3
    <2> HIDE DEF c
    <2>3. \A u \in DOMAIN conns' : u \in DOMAIN conns /\ Alike(conns[u], conns'[u])
      BY <2>1, <2>2 DEF Alike
    <2> QED
      BY <1>1, <2>3, QuietAccept
  <1> QED
    BY <1>2, <1>3 DEF Perform

(* Every step keeps the count, and announces streams for the first time. *)
LEMMA NextAccept == IInv /\ TableInv /\ CountInv /\ Next => CountInv' /\ FirstTime
  <1> SUFFICES ASSUME IInv, TableInv, CountInv, NEW p \in Thread,
                      \/ Connect(p) \/ Poll(p)
                      \/ \E t \in Token : Deregister(p, t) \/ Close(p, t)
                      \/ \E t \in Token, id \in StreamId : StreamShutdown(p, t, id)
                      \/ \E t \in Token, kind \in {"StreamOpenBidi", "StreamOpenUni"} : StreamOpen(p, t, kind)
                      \/ \E t \in Token : CallGuarded(p, t, "Send", 0)
                      \/ \E t \in Token, id \in StreamId, op \in {"StreamSend", "StreamRecv"} :
                            CallGuarded(p, t, op, id)
                      \/ \E s \in Scid : Recv(p, s)
                      \/ LookupAgain(p) \/ RecvLock(p) \/ Accept(p) \/ Reply(p)
                      \/ Perform(p) \/ GuardDrop(p) \/ Reap(p) \/ RemoveScid(p)
               PROVE  CountInv' /\ FirstTime
    BY DEF Next
  <1>1. UNCHANGED <<conns, rd>> => CountInv' /\ FirstTime
    BY QuietAccept DEF Alike
  <1>2. ASSUME NEW t, NEW next, RemoveConn(p, t, next)
        PROVE  CountInv' /\ FirstTime
    <2>1. rd' = rd /\ \A u \in DOMAIN conns' : u \in DOMAIN conns /\ conns'[u] = conns[u]
      BY <1>2 DEF RemoveConn, Without
    <2> QED
      BY <2>1, QuietAccept DEF Alike
  <1>3. CASE Connect(p)
    <2>1. \E s \in Scid : Register(p, s, FALSE, Idle)
      BY <1>3 DEF Connect
    <2> QED
      BY <2>1, RegisterAccept
  <1>4. CASE Poll(p)
    <2>1. rd'.events = {} /\ conns' = conns
      BY <1>4 DEF Poll, poll
    <2> QED
      BY <2>1, QuietAccept DEF Alike
  <1>5. ASSUME NEW t \in Token, Deregister(p, t) \/ Close(p, t)
        PROVE  CountInv' /\ FirstTime
    <2>1. CASE Deregister(p, t)
      BY <1>2, <2>1 DEF Deregister
    <2>2. CASE Close(p, t)
      BY <2>2, CallLockedAccept DEF Close, LockedOp
    <2> QED
      BY <1>5, <2>1, <2>2
  <1>6. ASSUME NEW t \in Token, NEW id \in StreamId, StreamShutdown(p, t, id)
        PROVE  CountInv' /\ FirstTime
    BY <1>6, CallLockedAccept DEF StreamShutdown, LockedOp
  <1>7. ASSUME NEW t \in Token, NEW kind \in {"StreamOpenBidi", "StreamOpenUni"}, StreamOpen(p, t, kind)
        PROVE  CountInv' /\ FirstTime
    BY <1>7, CallLockedAccept DEF StreamOpen, LockedOp
  <1>8. ASSUME NEW t \in Token, NEW op \in GuardedOp, NEW id \in StreamId \cup {0}, CallGuarded(p, t, op, id)
        PROVE  CountInv' /\ FirstTime
    BY <1>8, TryLockAccept DEF CallGuarded
  <1>9. {"Send", "Recv", "StreamSend", "StreamRecv"} \subseteq GuardedOp
    BY DEF GuardedOp
  <1>10. ASSUME NEW s, NEW next, Lookup(p, s, next)
         PROVE  CountInv' /\ FirstTime
    BY <1>1, <1>10 DEF Lookup
  <1>11. CASE RecvLock(p)
    <2>1. PICK t : t = th[p].token
      OBVIOUS
    <2>2. \/ UNCHANGED <<conns, rd>>
          \/ t \in DOMAIN conns /\ rd' = rd /\ \E next, refused : TryLock(p, t, "Recv", 0, next, refused)
      BY <1>11, <2>1 DEF RecvLock
    <2> QED
      BY <1>1, <1>9, <2>2, TryLockAccept
  <1>12. CASE Accept(p)
    <2>1. th[p].scid \in Scid
      BY <1>12 DEF Accept, IInv, ParkInv, Receiving
    <2>2. UNCHANGED <<conns, rd>> \/ \E k : Register(p, th[p].scid, TRUE, k)
      BY <1>12 DEF Accept
    <2> QED
      BY <1>1, <2>1, <2>2, RegisterAccept
  <1>13. CASE Reply(p)
    <2>1. PICK t : t = th[p].token
      OBVIOUS
    <2>2. \/ UNCHANGED <<conns, rd>>
          \/ t \in DOMAIN conns /\ rd' = rd /\ \E next, refused : TryLock(p, t, "Send", 0, next, refused)
      BY <1>13, <2>1 DEF Reply
    <2> QED
      BY <1>1, <1>9, <2>2, TryLockAccept
  <1>14. CASE Reap(p)
    <2>1. UNCHANGED <<conns, rd>> \/ \E t, next : RemoveConn(p, t, next)
      BY <1>14 DEF Reap
    <2> QED
      BY <1>1, <1>2, <2>1
  <1>15. CASE RemoveScid(p)
    BY <1>1, <1>15 DEF RemoveScid
  <1>16. CASE LookupAgain(p) \/ \E s \in Scid : Recv(p, s)
    BY <1>10, <1>16 DEF LookupAgain, Recv
  <1> QED
    BY <1>3, <1>4, <1>5, <1>6, <1>7, <1>8, <1>9, <1>11, <1>12, <1>13, <1>14, <1>15, <1>16,
       PerformAccept, GuardDropAccept

(* In every behaviour of the group each stream announced lies at or below  *)
(* the mark of its direction (remote_stream_bidi_seen and its twin).       *)
THEOREM Counts == Spec => []CountInv
  <1>1. Init => CountInv
    BY DEF Init, CountInv
  <1>2. CountInv /\ UNCHANGED vars => CountInv'
    BY DEF CountInv, Counted, vars
  <1> QED
    BY <1>1, <1>2, NextAccept, Tables, Invariance, PTL DEF Spec

(* No step announces a stream by StreamAccept that its connection has      *)
(* announced before (handle_accept), whatever the order in which quiche    *)
(* reports streams, and with any number of connections, even after a guard *)
(* was left dangling.                                                      *)
THEOREM AcceptOnceHolds == Spec => AcceptOnce
  <1>1. IInv /\ TableInv /\ CountInv /\ [Next]_vars => [FirstTime]_vars
    BY NextAccept
  <1> QED
    BY <1>1, Counts, Tables, Invariance, PTL DEF Spec, AcceptOnce, FirstTime
=============================================================================
