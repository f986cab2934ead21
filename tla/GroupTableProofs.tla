-------------------------- MODULE GroupTableProofs --------------------------
(***************************************************************************)
(* The two tables of the group, conns and scids, agree although each has   *)
(* its own lock, for any number of threads, tokens and connections.        *)
(***************************************************************************)
EXTENDS GroupProofs

(* A connection is stored under its own token.  The other half needs that  *)
(* no assertion has failed: each connection is found under its id, an id   *)
(* without a connection belongs to a deregister that is half done, and     *)
(* what such a deregister is about to remove is its own: the id still      *)
(* leads to its token, no connection has taken it over, and no second      *)
(* deregister is about to remove it.                                       *)
TokensAgree == \A t \in DOMAIN conns : conns[t].token = t

NoPanic == \A p \in Thread : th[p].pc # "panic"

Filed == \A t \in DOMAIN conns : conns[t].scid \in DOMAIN scids /\ scids[conns[t].scid] = t

HalfDone(s) == \E p \in Thread : th[p].pc = "dereg" /\ th[p].scid = s /\ th[p].token = scids[s]

Led == \A s \in DOMAIN scids : (scids[s] \in DOMAIN conns /\ conns[scids[s]].scid = s) \/ HalfDone(s)

Owned == \A p \in Thread : th[p].pc = "dereg" =>
            /\ th[p].scid \in DOMAIN scids /\ scids[th[p].scid] = th[p].token
            /\ \A t \in DOMAIN conns : conns[t].scid # th[p].scid
            /\ \A q \in Thread : th[q].pc = "dereg" /\ th[q].scid = th[p].scid => q = p

TableInv == TokensAgree /\ (NoPanic => Filed /\ Led /\ Owned)

-----------------------------------------------------------------------------
(* Steps that leave the tables alone. *)

SameIds ==
    /\ DOMAIN conns' = DOMAIN conns
    /\ \A t \in DOMAIN conns : conns'[t].token = conns[t].token /\ conns'[t].scid = conns[t].scid

SameDereg ==
    \A q \in Thread : /\ th[q].pc \in {"dereg", "panic"} => th'[q] = th[q]
                      /\ th'[q].pc = "dereg" => th[q].pc = "dereg"

(* Connections keep their ids, no deregister starts or ends. *)
LEMMA TableFrame ==
    ASSUME TableInv, SameIds, SameDereg, scids' = scids
    PROVE  TableInv'
  <1>1. TokensAgree'
    BY DEF TableInv, TokensAgree, SameIds
  <1>2. NoPanic' => NoPanic
    BY DEF NoPanic, SameDereg
  <1>3. ASSUME NoPanic'
        PROVE  Filed' /\ Led' /\ Owned'
    <2>1. Filed /\ Led /\ Owned
      BY <1>2, <1>3 DEF TableInv
    <2>2. Filed'
      BY <2>1 DEF Filed, SameIds
    <2>3. ASSUME NEW s \in DOMAIN scids'
          PROVE  (scids'[s] \in DOMAIN conns' /\ conns'[scids'[s]].scid = s) \/ HalfDone(s)'
      <3>1. CASE scids[s] \in DOMAIN conns /\ conns[scids[s]].scid = s
        BY <3>1 DEF SameIds
      <3>2. CASE HalfDone(s)
        BY <3>2 DEF HalfDone, SameDereg
      <3> QED
        BY <2>1, <3>1, <3>2 DEF Led
    <2>4. Led'
      BY <2>3 DEF Led
    <2>5. \A q \in Thread : th'[q].pc = "dereg" => th[q].pc = "dereg" /\ th'[q] = th[q]
      BY DEF SameDereg
    <2>6. Owned'
      BY <2>1, <2>5 DEF Owned, SameIds
    <2> QED
      BY <2>2, <2>4, <2>6
  <1> QED
    BY <1>1, <1>3 DEF TableInv

(* One thread moves, neither from nor to a half-done deregister. *)
LEMMA MoveDereg ==
    ASSUME th \in [Thread -> Context], NEW p \in Thread, NEW v, th' = [th EXCEPT ![p] = v],
           th[p].pc \notin {"dereg", "panic"}, v.pc # "dereg"
    PROVE  SameDereg
  BY DEF SameDereg

(* One connection is replaced by another version of itself. *)
LEMMA UpdateIds ==
    ASSUME NEW t \in DOMAIN conns, NEW c, conns' = [conns EXCEPT ![t] = c],
           c.token = conns[t].token, c.scid = conns[t].scid
    PROVE  SameIds
  BY DEF SameIds

(* Locking and being refused change no id (try_lock_prv). *)
LEMMA LockIds ==
    ASSUME NEW c \in Conn, NEW loc \in LocKind
    PROVE  /\ lock(c, loc).token = c.token /\ lock(c, loc).scid = c.scid
           /\ refuse(c, loc).token = c.token /\ refuse(c, loc).scid = c.scid
  BY DEF lock, refuse, Conn

(* Nor does the quiche call of close, stream_open or stream_shutdown. *)
LEMMA LockedCallIds ==
    ASSUME NEW c \in Conn, NEW op \in LockedOp, NEW id \in StreamId \cup {0},
           NEW d \in LockedCall(c, op, id)
    PROVE  d.token = c.token /\ d.scid = c.scid
  <1>1. CASE op = "Close"
    <2> DEFINE F(o) == [c EXCEPT !.q = quiche_close(c.q, o)]
    <2>1. LockedCall(c, op, id) = {F(o) : o \in CloseOutcome(c.q)}
      BY <1>1 DEF LockedCall, Closings
    <2>2. \A o : F(o).token = c.token /\ F(o).scid = c.scid
      BY DEF Conn
    <2> HIDE DEF F
    <2> QED
      BY <2>1, <2>2
  <1>2. CASE op = "StreamClose"
    <2> DEFINE F(stop, fin) == [c EXCEPT !.q = stream_close_prv(c.q, id, c.is_server, stop, fin)]
    <2>1. LockedCall(c, op, id) = {F(stop, fin) : stop \in StopOutcome, fin \in BOOLEAN}
      BY <1>2 DEF LockedCall, StreamClosings
    <2>2. \A stop, fin : F(stop, fin).token = c.token /\ F(stop, fin).scid = c.scid
      BY DEF Conn
    <2> HIDE DEF F
    <2> QED
      BY <2>1, <2>2
  <1>3. CASE op \notin {"Close", "StreamClose"} /\ HasCredit(c.q, op)
    <2>1. PICK ok \in BOOLEAN : d = stream_open_prv(c, op, ok)
      BY <1>3 DEF LockedCall, StreamOpenings
    <2> QED
      BY <2>1 DEF stream_open_prv, Conn
  <1>4. CASE op \notin {"Close", "StreamClose"} /\ ~HasCredit(c.q, op)
    <2>1. d = [c EXCEPT !.reties = c.reties \cup {Loc(op, 0)}]
      BY <1>4 DEF LockedCall, StreamOpenings
    <2> QED
      BY <2>1 DEF Conn
  <1> QED
    BY <1>1, <1>2, <1>3, <1>4

(* A guard is asked for and given or refused (the lock! macro). *)
LEMMA TryLockIds ==
    ASSUME Core, NEW p \in Thread, NEW t \in DOMAIN conns, NEW op \in GuardedOp,
           NEW id \in StreamId \cup {0}, NEW next \in Next_, NEW refused,
           th[p].pc \notin {"dereg", "panic"}, refused.pc # "dereg",
           TryLock(p, t, op, id, next, refused)
    PROVE  SameIds /\ SameDereg
  <1> DEFINE loc == LockOf(op, id)
  <1>1. loc \in LocKind /\ conns[t] \in Conn /\ th \in [Thread -> Context]
    BY LockOfType DEF Core
  <1>2. CASE Lockable(conns[t], loc)
    <2>1. /\ conns' = [conns EXCEPT ![t] = lock(conns[t], loc)]
          /\ th' = [th EXCEPT ![p] = Taken(t, op, id, next)]
      BY <1>2 DEF TryLock, Taken
    <2>2. Taken(t, op, id, next).pc = "held"
      BY TakenType
    <2> QED
      BY <1>1, <2>1, <2>2, LockIds, UpdateIds, MoveDereg
  <1>3. CASE ~Lockable(conns[t], loc)
    <2>1. conns' = [conns EXCEPT ![t] = refuse(conns[t], loc)] /\ th' = [th EXCEPT ![p] = refused]
      BY <1>3 DEF TryLock
    <2> QED
      BY <1>1, <2>1, LockIds, UpdateIds, MoveDereg
  <1> QED
    BY <1>2, <1>3

-----------------------------------------------------------------------------
(* One lemma per action. *)

(* close, stream_open and stream_shutdown. *)
LEMMA CallLockedTable ==
    ASSUME IInv, TableInv, NEW t \in Token, NEW op \in LockedOp,
           NEW id \in StreamId \cup {0}, CallLocked(t, op, id)
    PROVE  TableInv'
  <1> DEFINE loc == Loc(op, id)
  <1>1. Core /\ rd \in Readiness
    BY Parts DEF RestOK
  <1>2. t \in DOMAIN conns /\ UNCHANGED <<scids, th>>
    BY DEF CallLocked
  <1>3. conns[t] \in Conn /\ th \in [Thread -> Context]
    BY <1>1, <1>2 DEF Core
  <1>4. loc \in LocKind /\ loc # ReadLock
    BY LocType
  <1>5. CASE Lockable(conns[t], loc)
    <2> DEFINE l == lock(conns[t], loc)
    <2>0. PICK c \in LockedCall(l, op, id) : \E x \in Choice(c) :
             LET s == unlock([c |-> c, rd |-> rd], x, FALSE)
             IN  conns' = [conns EXCEPT ![t] = s.c] /\ rd' = s.rd
      BY <1>5 DEF CallLocked
    <2>1. PICK x \in Choice(c) : conns' = [conns EXCEPT ![t] = unlock([c |-> c, rd |-> rd], x, FALSE).c]
      BY <2>0
    <2>2. l \in Conn /\ l.locker = loc /\ l.token = conns[t].token /\ l.scid = conns[t].scid
      BY <1>3, <1>4, LockType, LockFrame, LockIds
    <2> HIDE DEF l
    <2>3. c \in Conn /\ c.locker # ReadLock /\ c.token = l.token /\ c.scid = l.scid
      BY <1>4, <2>2, LockedCallType, LockedCallIds
    <2>4. Same(c, unlock([c |-> c, rd |-> rd], x, FALSE).c)
      BY <1>1, <2>3, UnlockResult
    <2>5. SameIds
      BY <1>2, <2>1, <2>2, <2>3, <2>4, UpdateIds DEF Same
    <2> QED
      BY <1>2, <2>5, TableFrame DEF SameDereg
  <1>6. CASE ~Lockable(conns[t], loc)
    <2>1. conns' = [conns EXCEPT ![t] = refuse(conns[t], loc)]
      BY <1>6 DEF CallLocked
    <2>2. SameIds
      BY <1>2, <1>3, <1>4, <2>1, LockIds, UpdateIds
    <2> QED
      BY <1>2, <2>2, TableFrame DEF SameDereg
  <1> QED
    BY <1>5, <1>6

(* send, stream_send and stream_recv up to the guard. *)
LEMMA CallGuardedTable ==
    ASSUME IInv, TableInv, NEW p \in Thread, NEW t \in Token, NEW op \in GuardedOp,
           NEW id \in StreamId \cup {0}, CallGuarded(p, t, op, id)
    PROVE  TableInv'
  <1>1. Core /\ "return" \in Next_ /\ Idle.pc # "dereg"
    BY Parts DEF Next_, Idle
  <1>2. /\ t \in DOMAIN conns /\ TryLock(p, t, op, id, "return", Idle) /\ scids' = scids
        /\ th[p].pc \notin {"dereg", "panic"}
    BY DEF CallGuarded, Starts
  <1>3. SameIds /\ SameDereg
    BY <1>1, <1>2, TryLockIds
  <1> QED
    BY <1>2, <1>3, TableFrame

(* recv_with_connection_id up to the token. *)
LEMMA LookupTable ==
    ASSUME IInv, TableInv, NEW p \in Thread, NEW scid, NEW next,
           th[p].pc \notin {"dereg", "panic"}, Lookup(p, scid, next)
    PROVE  TableInv'
  <1> DEFINE A == [Idle EXCEPT !.pc = "looked", !.token = scids[scid], !.scid = scid, !.next = next]
             B == [Idle EXCEPT !.pc = "accept", !.scid = scid]
  <1>1. th \in [Thread -> Context]
    BY DEF IInv, TypeOK
  <1>2. PICK v \in {Idle, A, B} : th' = [th EXCEPT ![p] = v]
    BY DEF Lookup
  <1>3. v.pc # "dereg"
    <2>1. A.pc = "looked" /\ B.pc = "accept" /\ Idle.pc = "idle"
      BY DEF Idle
    <2> QED
      BY <1>2, <2>1
  <1>4. SameDereg
    BY <1>1, <1>2, <1>3, MoveDereg
  <1>5. SameIds /\ scids' = scids
    BY DEF SameIds, Lookup
  <1> QED
    BY <1>4, <1>5, TableFrame

(* recv_with_connection_id from the token on. *)
LEMMA RecvLockTable ==
    ASSUME IInv, TableInv, NEW p \in Thread, RecvLock(p)
    PROVE  TableInv'
  <1> DEFINE k == th[p]
             t == k.token
  <1>1. Core /\ th \in [Thread -> Context]
    BY Parts DEF Core
  <1>2. k \in Context /\ k.pc = "looked" /\ k.next \in Next_ /\ scids' = scids
    BY <1>1 DEF RecvLock, Context
  <1>3. "Recv" \in GuardedOp /\ 0 \in StreamId \cup {0}
    BY DEF GuardedOp
  <1>4. CASE /\ UNCHANGED conns
             /\ th' = [th EXCEPT ![p] = IF k.next = "reply" THEN [Idle EXCEPT !.pc = "accept", !.scid = k.scid]
                                                            ELSE Idle]
    <2>1. PICK v \in {Idle, [Idle EXCEPT !.pc = "accept", !.scid = k.scid]} : th' = [th EXCEPT ![p] = v]
      BY <1>4
    <2>2. v.pc # "dereg"
      <3>1. [Idle EXCEPT !.pc = "accept", !.scid = k.scid].pc = "accept" /\ Idle.pc = "idle"
        BY DEF Idle
      <3> QED
        BY <2>1, <3>1
    <2>3. SameDereg /\ SameIds
      BY <1>1, <1>2, <1>4, <2>1, <2>2, MoveDereg DEF SameIds
    <2> QED
      BY <1>2, <2>3, TableFrame
  <1>5. ASSUME t \in DOMAIN conns, NEW r \in {Idle, Panic, [k EXCEPT !.pc = "parked"]},
               TryLock(p, t, "Recv", 0, k.next, r)
        PROVE  TableInv'
    <2>1. r.pc # "dereg"
      BY <1>2 DEF Idle, Panic, Context
    <2>2. SameIds /\ SameDereg
      BY <1>1, <1>2, <1>3, <1>5, <2>1, TryLockIds
    <2> QED
      BY <1>2, <2>2, TableFrame
  <1> QED
    BY <1>4, <1>5 DEF RecvLock

(* recv_with_acceptor sends after it received. *)
LEMMA ReplyTable ==
    ASSUME IInv, TableInv, NEW p \in Thread, Reply(p)
    PROVE  TableInv'
  <1> DEFINE t == th[p].token
  <1>1. /\ Core /\ th \in [Thread -> Context] /\ "return" \in Next_ /\ "Send" \in GuardedOp
        /\ 0 \in StreamId \cup {0} /\ Idle.pc # "dereg"
    BY Parts DEF Core, Next_, GuardedOp, Idle
  <1>2. scids' = scids /\ th[p].pc \notin {"dereg", "panic"}
    BY DEF Reply
  <1>3. CASE t \in DOMAIN conns /\ TryLock(p, t, "Send", 0, "return", Idle)
    <2>1. SameIds /\ SameDereg
      BY <1>1, <1>2, <1>3, TryLockIds
    <2> QED
      BY <1>2, <2>1, TableFrame
  <1>4. CASE th' = [th EXCEPT ![p] = Idle] /\ UNCHANGED conns
    <2>1. SameIds /\ SameDereg
      BY <1>1, <1>2, <1>4, MoveDereg DEF SameIds
    <2> QED
      BY <1>2, <2>1, TableFrame
  <1> QED
    BY <1>3, <1>4 DEF Reply

(* The quiche call under a guard. *)
LEMMA PerformTable ==
    ASSUME IInv, TableInv, NEW p \in Thread, Perform(p)
    PROVE  TableInv'
  <1> DEFINE k == th[p]
             t == k.token
  <1>1. th \in [Thread -> Context] /\ \A u \in DOMAIN conns : conns[u] \in Conn
    BY DEF IInv, TypeOK
  <1>2. k \in Context /\ k.pc = "held" /\ scids' = scids
    BY <1>1 DEF Perform
  <1>3. PICK v : th' = [th EXCEPT ![p] = v] /\ v.pc = "done"
    <2> DEFINE D(sd, n) == [k EXCEPT !.pc = "done", !.send_done = sd, !.next = n]
               E == [k EXCEPT !.pc = "done", !.next = "return"]
    <2>1. (\A sd, n : D(sd, n).pc = "done") /\ E.pc = "done"
      BY <1>2 DEF Context
    <2>2. \/ th' = [th EXCEPT ![p] = E]
          \/ \E r : th' = [th EXCEPT ![p] = D(r.send_done, IF r.ok THEN k.next ELSE "return")]
      BY DEF Perform
    <2> HIDE DEF D, E
    <2> QED
      BY <2>1, <2>2
  <1>4. SameDereg
    BY <1>1, <1>2, <1>3, MoveDereg
  <1>5. SameIds
    <2>1. CASE UNCHANGED conns
      BY <2>1 DEF SameIds
    <2>2. CASE t \in DOMAIN conns /\ \E r \in Results(k.op, conns[t].q) : conns' = [conns EXCEPT ![t].q = r.q]
      <3>1. PICK r \in Results(k.op, conns[t].q) : conns' = [conns EXCEPT ![t].q = r.q]
        BY <2>2
      <3> DEFINE c == [conns[t] EXCEPT !.q = r.q]
      <3>2. conns' = [conns EXCEPT ![t] = c]
        BY <2>2, <3>1
      <3>3. c.token = conns[t].token /\ c.scid = conns[t].scid
        BY <1>1, <2>2 DEF Conn
      <3> HIDE DEF c
      <3> QED
        BY <2>2, <3>2, <3>3, UpdateIds
    <2> QED
      BY <2>1, <2>2 DEF Perform
  <1> QED
    BY <1>2, <1>4, <1>5, TableFrame

(* Group::unlock. *)
LEMMA GuardDropTable ==
    ASSUME IInv, TableInv, NEW p \in Thread, GuardDrop(p)
    PROVE  TableInv'
  <1> DEFINE k == th[p]
             t == k.token
  <1>1. Core /\ rd \in Readiness /\ th \in [Thread -> Context]
    BY Parts DEF RestOK, Core
  <1>2. k \in Context /\ k.pc = "done" /\ scids' = scids
    BY <1>1 DEF GuardDrop
  <1>3. ASSUME NEW v, v.pc # "dereg", th' = [Unpark(t) EXCEPT ![p] = v]
        PROVE  SameDereg
    <2> DEFINE woken(q) == t \in DOMAIN unparkers /\ unparkers[t] = q /\ th[q].pc = "parked"
               w(q) == [th[q] EXCEPT !.pc = "lookup"]
    <2>1. \A q \in Thread : w(q).pc = "lookup"
      BY <1>1 DEF Context
    <2> HIDE DEF w
    <2>2. Unpark(t) = [q \in Thread |-> IF woken(q) THEN w(q) ELSE th[q]]
      BY DEF Unpark, w
    <2>3. th'[p] = v /\ \A q \in Thread : q # p => th'[q] = IF woken(q) THEN w(q) ELSE th[q]
      BY <1>3, <2>2
    <2> QED
      BY <1>2, <1>3, <2>1, <2>3 DEF SameDereg
  <1>4. CASE /\ t \in DOMAIN conns
             /\ \E x \in Choice(conns[t]) :
                LET s == unlock([c |-> conns[t], rd |-> rd], x, k.send_done)
                IN  /\ conns' = [conns EXCEPT ![t] = s.c]
                    /\ th' = [Unpark(t) EXCEPT ![p] =
                                 IF s.c.q.closed
                                 THEN [Idle EXCEPT !.pc = "reap", !.token = t, !.next = k.next]
                                 ELSE Returned(k)]
    <2>1. PICK x \in Choice(conns[t]) :
                LET s == unlock([c |-> conns[t], rd |-> rd], x, k.send_done)
                IN  /\ conns' = [conns EXCEPT ![t] = s.c]
                    /\ th' = [Unpark(t) EXCEPT ![p] =
                                 IF s.c.q.closed
                                 THEN [Idle EXCEPT !.pc = "reap", !.token = t, !.next = k.next]
                                 ELSE Returned(k)]
      BY <1>4
    <2> DEFINE s == unlock([c |-> conns[t], rd |-> rd], x, k.send_done)
    <2>2. conns[t] \in Conn /\ conns[t].locker # ReadLock /\ k.send_done \in BOOLEAN
      BY <1>1, <1>2, <1>4 DEF Core, NoReader, Context
    <2>3. Same(conns[t], s.c)
      BY <1>1, <2>2, UnlockResult
    <2>4. conns' = [conns EXCEPT ![t] = s.c]
      BY <2>1
    <2> HIDE DEF s
    <2>5. SameIds
      BY <1>4, <2>3, <2>4, UpdateIds DEF Same
    <2>6. PICK v \in {[Idle EXCEPT !.pc = "reap", !.token = t, !.next = k.next], Returned(k)} :
             th' = [Unpark(t) EXCEPT ![p] = v]
      BY <2>1
    <2>7. v.pc # "dereg"
      BY <1>2, <2>6, ContextType DEF Idle
    <2> QED
      BY <1>2, <1>3, <2>5, <2>6, <2>7, TableFrame
  <1>5. CASE th' = [Unpark(t) EXCEPT ![p] = Panic] /\ UNCHANGED <<conns, rd>>
    <2>1. SameDereg
      BY <1>3, <1>5 DEF Panic, Idle
    <2> QED
      BY <1>2, <1>5, <2>1, TableFrame DEF SameIds
  <1> QED
    BY <1>4, <1>5 DEF GuardDrop

(* register files the new connection under an id that was not in use: the  *)
(* id of another one stops the thread.                                     *)
LEMMA RegisterTable ==
    ASSUME IInv, TableInv, NEW p \in Thread, NEW scid \in Scid, NEW b \in BOOLEAN, NEW k \in Context,
           th[p].pc \notin {"dereg", "panic"}, k.pc # "dereg", Register(p, scid, b, k)
    PROVE  TableInv'
  <1> DEFINE C(t) == lock(new(t, scid, b), ReadLock)
             S(t, x) == unlock([c |-> C(t), rd |-> rd], x, FALSE)
             v(t) == [k EXCEPT !.token = t]
  <1>1. Core /\ rd \in Readiness /\ th \in [Thread -> Context]
    BY Parts DEF RestOK, Core
  <1>2. PICK t \in Token :
           /\ FreeToken(t)
           /\ scids' = With(scids, scid, t)
           /\ IF scid \in DOMAIN scids
              THEN th' = [th EXCEPT ![p] = Panic] /\ UNCHANGED conns
              ELSE \E x \in Choice(C(t)) : conns' = With(conns, t, S(t, x).c) /\ th' = [th EXCEPT ![p] = v(t)]
    BY DEF Register
  <1>3. CASE scid \in DOMAIN scids
    <2>1. th'[p].pc = "panic" /\ conns' = conns
      BY <1>1, <1>2, <1>3 DEF Panic, Idle
    <2> QED
      BY <2>1 DEF TableInv, TokensAgree, NoPanic
  <1>4. CASE scid \notin DOMAIN scids
    <2>1. PICK x \in Choice(C(t)) : conns' = With(conns, t, S(t, x).c) /\ th' = [th EXCEPT ![p] = v(t)]
      BY <1>2, <1>4
    <2>2. C(t) \in Conn /\ C(t).locker = ReadLock /\ C(t).read_lock_count = 1
      BY NewReader
    <2>3. C(t).token = t /\ C(t).scid = scid
      <3>1. new(t, scid, b) \in Conn /\ new(t, scid, b).token = t /\ new(t, scid, b).scid = scid
        BY NewType DEF new
      <3>2. ReadLock \in LocKind
        BY DEF ReadLock, Loc, LocKind, LocKinds
      <3> QED
        BY <3>1, <3>2, LockIds
    <2> HIDE DEF C
    <2>4. Same(C(t), S(t, x).c)
      BY <1>1, <2>2, UnlockResult
    <2> DEFINE c == S(t, x).c
    <2>5. c.token = t /\ c.scid = scid /\ conns' = With(conns, t, c)
      BY <2>1, <2>3, <2>4 DEF Same
    <2> HIDE DEF S, c
    <2>6. t \notin DOMAIN conns
      BY <1>2 DEF FreeToken
    <2>7. /\ DOMAIN conns' = DOMAIN conns \cup {t} /\ conns'[t] = c
          /\ \A u \in DOMAIN conns : conns'[u] = conns[u]
      BY <2>5, <2>6 DEF With
    <2>8. /\ DOMAIN scids' = DOMAIN scids \cup {scid} /\ scids'[scid] = t
          /\ \A s \in DOMAIN scids : s # scid /\ scids'[s] = scids[s]
      BY <1>2, <1>4 DEF With
    <2>9. v(t).pc # "dereg"
      BY DEF Context
    <2> HIDE DEF v
    <2>10. SameDereg
      BY <1>1, <2>1, <2>9, MoveDereg
    <2>11. TokensAgree'
      BY <2>5, <2>7 DEF TableInv, TokensAgree
    <2>12. ASSUME NoPanic'
           PROVE  Filed' /\ Led' /\ Owned'
      <3>1. Filed /\ Led /\ Owned
        BY <2>10, <2>12 DEF TableInv, NoPanic, SameDereg
      <3>2. Filed'
        BY <2>5, <2>7, <2>8, <3>1 DEF Filed
      <3>3. ASSUME NEW s \in DOMAIN scids'
            PROVE  (scids'[s] \in DOMAIN conns' /\ conns'[scids'[s]].scid = s) \/ HalfDone(s)'
        <4>1. CASE s = scid
          BY <2>5, <2>7, <2>8, <4>1
        <4>2. CASE s # scid /\ scids[s] \in DOMAIN conns /\ conns[scids[s]].scid = s
          BY <2>7, <2>8, <3>3, <4>2
        <4>3. CASE s # scid /\ HalfDone(s)
          BY <2>8, <2>10, <3>3, <4>3 DEF HalfDone, SameDereg
        <4> QED
          BY <2>8, <3>1, <3>3, <4>1, <4>2, <4>3 DEF Led
      <3>4. \A q \in Thread : th'[q].pc = "dereg" => th[q].pc = "dereg" /\ th'[q] = th[q]
        BY <2>10 DEF SameDereg
      <3>5. Owned'
        BY <2>5, <2>7, <2>8, <3>1, <3>4 DEF Owned
      <3> QED
        BY <3>2, <3>3, <3>5 DEF Led
    <2> QED
      BY <2>11, <2>12 DEF TableInv
  <1> QED
    BY <1>3, <1>4

(* The first half of deregister: the id stays behind and is the remover's. *)
LEMMA RemoveConnTable ==
    ASSUME IInv, TableInv, NEW p \in Thread, NEW t, NEW next, th[p].pc \notin {"dereg", "panic"},
           RemoveConn(p, t, next)
    PROVE  TableInv'
  <1> DEFINE v == [Idle EXCEPT !.pc = "dereg", !.token = t, !.scid = conns[t].scid, !.next = next]
  <1>1. th \in [Thread -> Context]
    BY DEF IInv, TypeOK
  <1>2. t \in DOMAIN conns /\ conns' = Without(conns, t) /\ th' = [th EXCEPT ![p] = v] /\ scids' = scids
    BY DEF RemoveConn
  <1>3. v.pc = "dereg" /\ v.token = t /\ v.scid = conns[t].scid
    BY DEF Idle
  <1> HIDE DEF v
  <1>4. DOMAIN conns' = DOMAIN conns \ {t} /\ \A u \in DOMAIN conns' : conns'[u] = conns[u]
    BY <1>2 DEF Without
  <1>5. th'[p] = v /\ \A q \in Thread : q # p => th'[q] = th[q]
    BY <1>1, <1>2
  <1>6. TokensAgree'
    BY <1>4 DEF TableInv, TokensAgree
  <1>7. ASSUME NoPanic'
        PROVE  Filed' /\ Led' /\ Owned'
    <2>1. NoPanic
      BY <1>5, <1>7 DEF NoPanic
    <2>2. Filed /\ Led /\ Owned
      BY <2>1 DEF TableInv
    <2>3. Filed'
      BY <1>2, <1>4, <2>2 DEF Filed
    <2>4. ASSUME NEW s \in DOMAIN scids'
          PROVE  (scids'[s] \in DOMAIN conns' /\ conns'[scids'[s]].scid = s) \/ HalfDone(s)'
      <3>1. CASE scids[s] \in DOMAIN conns /\ conns[scids[s]].scid = s /\ scids[s] # t
        BY <1>2, <1>4, <3>1
      <3>2. CASE scids[s] = t /\ conns[t].scid = s
        BY <1>2, <1>3, <1>5, <3>2 DEF HalfDone
      <3>3. CASE HalfDone(s)
        BY <1>2, <1>5, <3>3 DEF HalfDone
      <3> QED
        BY <1>2, <2>2, <3>1, <3>2, <3>3 DEF Led
    <2>5. ASSUME NEW q \in Thread, th'[q].pc = "dereg"
          PROVE  /\ th'[q].scid \in DOMAIN scids' /\ scids'[th'[q].scid] = th'[q].token
                 /\ \A u \in DOMAIN conns' : conns'[u].scid # th'[q].scid
                 /\ \A r \in Thread : th'[r].pc = "dereg" /\ th'[r].scid = th'[q].scid => r = q
      <3>1. \A r \in Thread : r # p /\ th[r].pc = "dereg" => th[r].scid # conns[t].scid
        BY <1>2, <2>2 DEF Owned
      <3>2. \A u \in DOMAIN conns' : conns'[u].scid # conns[t].scid
        BY <1>2, <1>4, <2>2 DEF Filed
      <3>3. CASE q = p
        BY <1>2, <1>3, <1>5, <2>2, <3>1, <3>2, <3>3 DEF Filed
      <3>4. CASE q # p
        BY <1>2, <1>3, <1>4, <1>5, <2>2, <2>5, <3>1, <3>4 DEF Owned
      <3> QED
        BY <3>3, <3>4
    <2> QED
      BY <2>3, <2>4, <2>5 DEF Led, Owned
  <1> QED
    BY <1>6, <1>7 DEF TableInv

(* The second half of deregister: its id is there, and leads to its token. *)
LEMMA RemoveScidTable ==
    ASSUME IInv, TableInv, NEW p \in Thread, RemoveScid(p)
    PROVE  TableInv'
  <1> DEFINE k == th[p]
  <1>1. th \in [Thread -> Context] /\ k \in Context
    BY DEF IInv, TypeOK
  <1>2. /\ k.pc = "dereg" /\ scids' = Without(scids, k.scid) /\ conns' = conns
        /\ \E v \in {Returned(k), Panic} : th' = [th EXCEPT ![p] = v]
    BY DEF RemoveScid
  <1>3. PICK v \in {Returned(k), Panic} : th' = [th EXCEPT ![p] = v]
    BY <1>2
  <1>4. v.pc # "dereg"
    BY <1>1, <1>3, ContextType DEF Panic, Idle
  <1>5. th'[p] = v /\ \A q \in Thread : q # p => th'[q] = th[q]
    BY <1>1, <1>3
  <1>6. DOMAIN scids' = DOMAIN scids \ {k.scid} /\ \A s \in DOMAIN scids' : scids'[s] = scids[s]
    BY <1>2 DEF Without
  <1>7. TokensAgree'
    BY <1>2 DEF TableInv, TokensAgree
  <1>8. ASSUME NoPanic'
        PROVE  Filed' /\ Led' /\ Owned'
    <2>1. NoPanic
      BY <1>2, <1>5, <1>8 DEF NoPanic
    <2>2. Filed /\ Led /\ Owned
      BY <2>1 DEF TableInv
    <2>3. Filed'
      BY <1>2, <1>6, <2>2 DEF Filed, Owned
    <2>4. ASSUME NEW s \in DOMAIN scids'
          PROVE  (scids'[s] \in DOMAIN conns' /\ conns'[scids'[s]].scid = s) \/ HalfDone(s)'
      <3>1. s \in DOMAIN scids /\ s # k.scid /\ scids'[s] = scids[s]
        BY <1>6
      <3>2. CASE HalfDone(s)
        BY <1>5, <3>1, <3>2 DEF HalfDone
      <3> QED
        BY <1>2, <2>2, <3>1, <3>2 DEF Led
    <2>5. ASSUME NEW q \in Thread, th'[q].pc = "dereg"
          PROVE  /\ th'[q].scid \in DOMAIN scids' /\ scids'[th'[q].scid] = th'[q].token
                 /\ \A u \in DOMAIN conns' : conns'[u].scid # th'[q].scid
                 /\ \A r \in Thread : th'[r].pc = "dereg" /\ th'[r].scid = th'[q].scid => r = q
      <3>1. q # p /\ th'[q] = th[q] /\ th[q].scid # k.scid
        BY <1>2, <1>4, <1>5, <2>2, <2>5 DEF Owned
      <3> QED
        BY <1>2, <1>4, <1>5, <1>6, <2>2, <2>5, <3>1 DEF Owned
    <2> QED
      BY <2>3, <2>4, <2>5 DEF Led, Owned
  <1> QED
    BY <1>7, <1>8 DEF TableInv

-----------------------------------------------------------------------------
(* The tables of a new group are empty. *)
LEMMA InitTable == Init => TableInv
  <1> SUFFICES ASSUME Init PROVE TableInv
    OBVIOUS
  <1>1. DOMAIN conns = {} /\ DOMAIN scids = {} /\ \A p \in Thread : th[p].pc = "idle"
    BY DEF Init, Idle
  <1> QED
    BY <1>1 DEF TableInv, TokensAgree, Filed, Led, Owned

(* Every step of every thread keeps the tables in agreement. *)
LEMMA NextTable == IInv /\ TableInv /\ Next => TableInv'
  <1> SUFFICES ASSUME IInv, TableInv, NEW p \in Thread,
                      \/ Connect(p) \/ Poll(p)
                      \/ \E t \in Token : Deregister(p, t) \/ Close(p, t)
                      \/ \E t \in Token, id \in StreamId : StreamShutdown(p, t, id)
                      \/ \E t \in Token, kind \in {"StreamOpenBidi", "StreamOpenUni"} : StreamOpen(p, t, kind)
                      \/ \E t \in Token : CallGuarded(p, t, "Send", 0)
                      \/ \E t \in Token, id \in StreamId, op \in {"StreamSend", "StreamRecv"} :
                            CallGuarded(p, t, op, id)
                      \/ \E s \in Scid : Recv(p, s)
                      \/ LookupAgain(p) \/ RecvLock(p) \/ Accept(p) \/ Reply(p)
                      \/ Perform(p) \/ GuardDrop(p) \/ Reap(p) \/ RemoveScid(p)
               PROVE  TableInv'
    BY DEF Next
  <1>0. th \in [Thread -> Context] /\ th[p] \in Context
    BY DEF IInv, TypeOK
  <1>1. CASE Connect(p)
    <2>1. th[p].pc \notin {"dereg", "panic"} /\ \E s \in Scid : Register(p, s, FALSE, Idle)
      BY <1>1 DEF Connect, Starts
    <2>2. Idle \in Context /\ Idle.pc # "dereg"
      BY IdleMoves DEF Idle
    <2> QED
      BY <2>1, <2>2, RegisterTable
  <1>2. CASE Poll(p)
    BY <1>2, TableFrame DEF Poll, SameIds, SameDereg
  <1>3. ASSUME NEW t \in Token, Deregister(p, t)
        PROVE  TableInv'
    BY <1>3, RemoveConnTable DEF Deregister, Starts
  <1>4. ASSUME NEW t \in Token, Close(p, t)
        PROVE  TableInv'
    BY <1>4, CallLockedTable DEF Close, LockedOp
  <1>5. ASSUME NEW t \in Token, NEW id \in StreamId, StreamShutdown(p, t, id)
        PROVE  TableInv'
    BY <1>5, CallLockedTable DEF StreamShutdown, LockedOp
  <1>6. ASSUME NEW t \in Token, NEW kind \in {"StreamOpenBidi", "StreamOpenUni"}, StreamOpen(p, t, kind)
        PROVE  TableInv'
    BY <1>6, CallLockedTable DEF StreamOpen, LockedOp
  <1>7. ASSUME NEW t \in Token, CallGuarded(p, t, "Send", 0)
        PROVE  TableInv'
    BY <1>7, CallGuardedTable DEF GuardedOp
  <1>8. ASSUME NEW t \in Token, NEW id \in StreamId, NEW op \in {"StreamSend", "StreamRecv"},
               CallGuarded(p, t, op, id)
        PROVE  TableInv'
    BY <1>8, CallGuardedTable DEF GuardedOp
  <1>9. ASSUME NEW s \in Scid, Recv(p, s)
        PROVE  TableInv'
    <2>1. th[p].pc \notin {"dereg", "panic"} /\ \E next : Lookup(p, s, next)
      BY <1>9 DEF Recv, Starts
    <2> QED
      BY <2>1, LookupTable
  <1>10. CASE LookupAgain(p)
    BY <1>10, LookupTable DEF LookupAgain
  <1>11. CASE Accept(p)
    <2> DEFINE k == [Idle EXCEPT !.pc = "lookup", !.scid = th[p].scid, !.next = "fresh"]
    <2>1. th[p].pc = "accept" /\ th[p].scid \in Scid
      BY <1>11 DEF Accept, IInv, ParkInv, Receiving
    <2>2. CASE Register(p, th[p].scid, TRUE, k)
      <3>1. k \in Context /\ k.pc # "dereg"
        BY <2>1, IdleMoves DEF Context, Pc, Next_
      <3> HIDE DEF k
      <3> QED
        BY <2>1, <2>2, <3>1, RegisterTable
    <2>3. CASE th' = [th EXCEPT ![p] = Idle] /\ UNCHANGED <<conns, scids>>
      <3>1. Idle.pc # "dereg"
        BY DEF Idle
      <3>2. SameDereg
        BY <1>0, <2>1, <2>3, <3>1, MoveDereg
      <3> QED
        BY <2>3, <3>2, TableFrame DEF SameIds
    <2> QED
      BY <1>11, <2>2, <2>3 DEF Accept
  <1>12. CASE Reap(p)
    <2>1. th[p].pc = "reap"
      BY <1>12 DEF Reap
    <2>2. CASE RemoveConn(p, th[p].token, th[p].next)
      BY <2>1, <2>2, RemoveConnTable
    <2>3. CASE th' = [th EXCEPT ![p] = Returned(th[p])] /\ UNCHANGED <<conns, scids>>
      <3>1. Returned(th[p]).pc # "dereg"
        BY <1>0, ContextType
      <3>2. SameDereg
        BY <1>0, <2>1, <2>3, <3>1, MoveDereg
      <3> QED
        BY <2>3, <3>2, TableFrame DEF SameIds
    <2> QED
      BY <1>12, <2>2, <2>3 DEF Reap
  <1> QED
    BY <1>1, <1>2, <1>3, <1>4, <1>5, <1>6, <1>7, <1>8, <1>9, <1>10, <1>11, <1>12,
       RecvLockTable, ReplyTable, PerformTable, GuardDropTable, RemoveScidTable

(* TableInv is about the variables of the group. *)
LEMMA StutterTable == TableInv /\ UNCHANGED vars => TableInv'
  BY DEF TableInv, TokensAgree, NoPanic, Filed, Led, HalfDone, Owned, vars

(* The tables agree in every behaviour of the group. *)
THEOREM Tables == Spec => []TableInv
  BY InitTable, NextTable, StutterTable, Invariance, PTL DEF Spec

(* Until an assertion fails, each connection is found under its id, and an *)
(* id that leads to no connection is one whose deregister is half done,    *)
(* although conns and scids are protected by different locks (register and *)
(* deregister of group.rs).                                                *)
THEOREM ScidsAgreeHolds == Spec => []ScidsAgree
  <1>1. TableInv => ScidsAgree
    BY DEF TableInv, NoPanic, Filed, Led, HalfDone, ScidsAgree
  <1> QED
    BY <1>1, Tables, PTL
=============================================================================
