---------------------------- MODULE GroupProofs ----------------------------
(***************************************************************************)
(* The group, for any number of threads, tokens, connections and streams:  *)
(* its types, the exclusiveness of guards, the replay of refused calls,    *)
(* and the wake-up owed to a parked receiver.                              *)
(***************************************************************************)
EXTENDS Group, QuicConnProofs

-----------------------------------------------------------------------------
(* Types of what the actions put together. *)

(* Tokens start at zero. *)
LEMMA TokenZero == 0 \in Token
  BY TokenAssumption

(* token_next wraps to a token (register). *)
LEMMA TokenNextType ==
    ASSUME NEW t \in Token
    PROVE  (t + 1) % TokenModulus \in Token
  BY TokenAssumption

(* Where a thread may be when it has no call in progress, and what a call returns to. *)
LEMMA ContextType ==
    /\ Idle \in Context /\ Panic \in Context
    /\ ~Guarding(Idle) /\ ~Guarding(Panic)
    /\ \A k \in Context : Returned(k) \in Context /\ Returned(k).pc \in {"idle", "reply"}
  <1>1. 0 \in 0 .. LockCountModulus - 1
    BY LockCountAssumption
  <1>2. Idle \in Context
    BY <1>1, TokenZero DEF Idle, Context, Pc, Next_
  <1>3. Panic \in Context
    BY <1>2 DEF Panic, Context, Pc
  <1>4. ASSUME NEW k \in Context
        PROVE  Returned(k) \in Context /\ Returned(k).pc \in {"idle", "reply"}
    <2>1. k.token \in Token
      BY DEF Context
    <2>2. [Idle EXCEPT !.pc = "reply", !.token = k.token] \in Context
      BY <1>2, <2>1 DEF Context, Pc
    <2>3. Idle.pc = "idle" /\ [Idle EXCEPT !.pc = "reply", !.token = k.token].pc = "reply"
      BY DEF Idle
    <2> QED
      BY <1>2, <2>2, <2>3 DEF Returned
  <1> QED
    BY <1>2, <1>3, <1>4 DEF Guarding, Idle, Panic

(* A guarded operation takes a lock, and never the lock of a reader. *)
LEMMA LockOfType ==
    ASSUME NEW op \in GuardedOp, NEW id \in StreamId \cup {0}
    PROVE  LockOf(op, id) \in LocKind /\ LockOf(op, id) # None /\ LockOf(op, id) # ReadLock
  BY DEF LockOf, GuardedOp, LocKind, LocKinds, Loc, None, ReadLock

(* The same for the operations that run under the mutex. *)
LEMMA LocType ==
    ASSUME NEW op \in LockedOp, NEW id \in StreamId \cup {0}
    PROVE  Loc(op, id) \in LocKind /\ Loc(op, id) # None /\ Loc(op, id) # ReadLock
  BY DEF LockedOp, LocKind, LocKinds, Loc, None, ReadLock

(* Locking records the kind and leaves the rest of a connection alone. *)
LEMMA LockFrame ==
    ASSUME NEW c \in Conn, NEW loc \in LocKind
    PROVE  lock(c, loc).locker = loc /\ lock(c, loc).lock_count = c.lock_count
  BY DEF lock, Conn

(* A refusal leaves the lock alone. *)
LEMMA RefuseFrame ==
    ASSUME NEW c \in Conn, NEW loc \in LocKind
    PROVE  refuse(c, loc).locker = c.locker /\ refuse(c, loc).lock_count = c.lock_count
  BY DEF refuse, Conn

(* The quiche call of close, stream_open or stream_shutdown keeps the lock and the types. *)
LEMMA LockedCallType ==
    ASSUME NEW c \in Conn, NEW op \in LockedOp, NEW id \in StreamId \cup {0},
           NEW d \in LockedCall(c, op, id)
    PROVE  d \in Conn /\ d.locker = c.locker
  <1>0. c.q \in Quiche
    BY DEF Conn
  <1>1. CASE op = "Close"
    <2> DEFINE F(o) == [c EXCEPT !.q = quiche_close(c.q, o)]
    <2>1. LockedCall(c, op, id) = {F(o) : o \in CloseOutcome(c.q)}
      BY <1>1 DEF LockedCall, Closings
    <2>2. \A o : F(o) \in Conn /\ F(o).locker = c.locker
      BY <1>0, QuicheCloseType DEF Conn
    <2> HIDE DEF F
    <2> QED
      BY <2>1, <2>2
  <1>2. CASE op = "StreamClose"
    <2> DEFINE F(stop, fin) == [c EXCEPT !.q = stream_close_prv(c.q, id, c.is_server, stop, fin)]
    <2>1. LockedCall(c, op, id) = {F(stop, fin) : stop \in StopOutcome, fin \in BOOLEAN}
      BY <1>2 DEF LockedCall, StreamClosings
    <2>2. \A stop, fin : fin \in BOOLEAN => F(stop, fin) \in Conn /\ F(stop, fin).locker = c.locker
      BY <1>0, StreamCloseType DEF Conn
    <2> HIDE DEF F
    <2> QED
      BY <2>1, <2>2
  <1>3. CASE op \notin {"Close", "StreamClose"} /\ HasCredit(c.q, op)
    <2>1. PICK ok \in BOOLEAN : d = stream_open_prv(c, op, ok)
      BY <1>3 DEF LockedCall, StreamOpenings
    <2>2. op \in {"StreamOpenBidi", "StreamOpenUni"}
      BY <1>3 DEF LockedOp
    <2>3. d \in Conn
      BY <1>3, <2>1, <2>2, StreamOpenType
    <2>4. d.locker = c.locker
      BY <2>1 DEF stream_open_prv, Conn
    <2> QED
      BY <2>3, <2>4
  <1>4. CASE op \notin {"Close", "StreamClose"} /\ ~HasCredit(c.q, op)
    <2>1. d = [c EXCEPT !.reties = c.reties \cup {Loc(op, 0)}]
      BY <1>4 DEF LockedCall, StreamOpenings
    <2>2. Loc(op, 0) \in LocKind
      BY LocType
    <2> QED
      BY <2>1, <2>2 DEF Conn
  <1> QED
    BY <1>1, <1>2, <1>3, <1>4

(* The quiche call under a guard keeps the types. *)
LEMMA ResultsType ==
    ASSUME NEW op \in GuardedOp, NEW q \in Quiche, NEW r \in Results(op, q)
    PROVE  r.q \in Quiche /\ r.send_done \in BOOLEAN /\ r.ok \in BOOLEAN
  <1>1. CASE op = "Recv"
    <2> DEFINE F(e, z, y, ok, b, u, rs, ws) ==
                 Result([established |-> e, closing |-> q.closing \/ z, closed |-> z, data |-> y /\ ~z,
                         left_bidi |-> b, left_uni |-> u, readable |-> q.readable \cup rs,
                         writable |-> q.writable \cup ws], FALSE, ok)
    <2>1. Results(op, q) =
             {F(e, z, y, ok, b, u, rs, ws) :
                e \in Later(q.established), z \in Later(q.closed), y \in Later(q.data), ok \in BOOLEAN,
                b \in q.left_bidi .. MaxCredit, u \in q.left_uni .. MaxCredit,
                rs \in SUBSET Readable, ws \in SUBSET Writable}
      BY <1>1 DEF Results, RecvResults
    <2>2. ASSUME NEW e \in Later(q.established), NEW z \in Later(q.closed), NEW y \in Later(q.data),
                 NEW ok \in BOOLEAN, NEW b \in q.left_bidi .. MaxCredit, NEW u \in q.left_uni .. MaxCredit,
                 NEW rs \in SUBSET Readable, NEW ws \in SUBSET Writable
          PROVE  LET v == F(e, z, y, ok, b, u, rs, ws)
                 IN  v.q \in Quiche /\ v.send_done \in BOOLEAN /\ v.ok \in BOOLEAN
      <3>1. b \in 0 .. MaxCredit /\ u \in 0 .. MaxCredit
        BY MaxCreditAssumption DEF Quiche
      <3>2. q.readable \cup rs \subseteq StreamId /\ q.writable \cup ws \subseteq StreamId
        BY DeliveryAssumption DEF Quiche
      <3>3. e \in BOOLEAN /\ z \in BOOLEAN /\ y \in BOOLEAN /\ q.closing \in BOOLEAN
        BY DEF Later, Quiche
      <3> QED
        BY <3>1, <3>2, <3>3 DEF Quiche, Result
    <2> HIDE DEF F
    <2> QED
      BY <2>1, <2>2
  <1>2. CASE op = "Send"
    <2> DEFINE T(z, e) == [q EXCEPT !.closed = z, !.data = q.data /\ ~z, !.established = e]
               timed == {T(z, e) : z \in Later(q.closed), e \in Later(q.established)}
               open == {o \in timed : ~o.closed}
               Set(v, y) == [v EXCEPT !.data = y]
               G(v, y) == Result(Set(v, y), FALSE, TRUE)
               A == {G(v, y) : v \in open, y \in BOOLEAN}
               B == {Result(Set(v, FALSE), TRUE, FALSE) : v \in timed}
               C == {Result(v, FALSE, FALSE) : v \in timed}
    <2>0. r \in SendResults(q)
      BY <1>2 DEF Results
    <2>1. SendResults(q) = {Result(q, FALSE, FALSE)} \cup A \cup B \cup C
      BY DEF SendResults
    <2>2. \A z \in Later(q.closed), e \in Later(q.established) : T(z, e) \in Quiche
      BY DEF Later, Quiche
    <2> HIDE DEF T
    <2>3. timed \subseteq Quiche
      BY <2>2
    <2> HIDE DEF timed, open
    <2>4. \A v \in timed, y \in BOOLEAN : Set(v, y) \in Quiche
      BY <2>3 DEF Quiche
    <2> HIDE DEF Set
    <2>5. \A v \in Quiche, sd \in BOOLEAN, ok \in BOOLEAN :
             LET w == Result(v, sd, ok) IN w.q \in Quiche /\ w.send_done \in BOOLEAN /\ w.ok \in BOOLEAN
      BY DEF Result
    <2>6. CASE r \in A
      <3>1. \A v \in open, y \in BOOLEAN :
               G(v, y).q \in Quiche /\ G(v, y).send_done \in BOOLEAN /\ G(v, y).ok \in BOOLEAN
        BY <2>4, <2>5 DEF open
      <3> HIDE DEF G
      <3>2. PICK v \in open, y \in BOOLEAN : r = G(v, y)
        BY <2>6
      <3> QED
        BY <3>1, <3>2
    <2>7. CASE r \in B
      BY <2>4, <2>5, <2>7
    <2>8. CASE r \in C
      BY <2>3, <2>5, <2>8
    <2>9. CASE r = Result(q, FALSE, FALSE)
      BY <2>5, <2>9
    <2> HIDE DEF A, B, C
    <2> QED
      BY <2>0, <2>1, <2>6, <2>7, <2>8, <2>9
  <1>3. CASE op \notin {"Recv", "Send"}
    <2> DEFINE F(y, ok) == Result([q EXCEPT !.data = y], FALSE, ok)
               D == IF q.closed THEN {FALSE} ELSE Later(q.data)
    <2>0. r \in StreamResults(q)
      BY <1>3 DEF Results
    <2>1. StreamResults(q) = {F(y, ok) : y \in D, ok \in BOOLEAN}
      BY DEF StreamResults
    <2>2. D \subseteq BOOLEAN
      BY DEF Later, Quiche
    <2>3. \A y \in BOOLEAN, ok \in BOOLEAN :
             F(y, ok).q \in Quiche /\ F(y, ok).send_done \in BOOLEAN /\ F(y, ok).ok \in BOOLEAN
      BY DEF Quiche, Result
    <2> HIDE DEF F, D
    <2> QED
      <3>1. PICK y \in D, ok \in BOOLEAN : r = F(y, ok)
        BY <2>0, <2>1
      <3> QED
        BY <2>2, <2>3, <3>1
  <1> QED
    BY <1>1, <1>2, <1>3

-----------------------------------------------------------------------------
(* The inductive invariant.  TypeOK needs that no connection is left under  *)
(* a read lock, else a release could count below zero.  GuardExclusive     *)
(* needs that a guard's operation is known, and of a locked connection     *)
(* that one of its guards carries the current lock_count: this holds even  *)
(* when guards dangle.                                                     *)

NoReader == \A t \in DOMAIN conns : conns[t].locker # ReadLock

Held(t) == \E p \in Thread : /\ Guarding(th[p]) /\ th[p].token = t
                             /\ th[p].lock_count = conns[t].lock_count

Matches(k) == /\ k.token \in DOMAIN conns
              /\ conns[k.token].locker = LockOf(k.op, k.id)
              /\ conns[k.token].lock_count = k.lock_count

GuardInv ==
    /\ \A p \in Thread : Guarding(th[p]) => th[p].op \in GuardedOp
    /\ \A t \in DOMAIN conns : conns[t].locker # None => Held(t)
    /\ Sound => \A p \in Thread : Guarding(th[p]) => Matches(th[p])
    /\ Sound => \A p, q \in Thread :
                   Guarding(th[p]) /\ Guarding(th[q]) /\ th[p].token = th[q].token => p = q

Settled(c) ==
    c.locker = None => \A loc \in c.reties : /\ loc.kind \in {"StreamOpenBidi", "StreamOpenUni"}
                                             /\ ~HasCredit(c.q, loc.kind)

RetryInv == Sound => \A t \in DOMAIN conns : Settled(conns[t])

(* One thread receives the packets of a group.  unparkers has room for one *)
(* thread per connection.                                                  *)
OneReceiver == \A p, q \in Receiver : p = q

Receiving == {"lookup", "looked", "parked", "accept"}

ParkInv ==
    /\ \A p \in Thread : th[p].pc \in Receiving => p \in Receiver /\ th[p].scid \in Scid
    /\ OneReceiver => ParkedIsOwed

IInv == TypeOK /\ NoReader /\ GuardInv /\ RetryInv /\ ParkInv

(* What the parts of the invariant say of connections and guards. *)
Core ==
    /\ DOMAIN conns \subseteq Token /\ \A t \in DOMAIN conns : conns[t] \in Conn
    /\ th \in [Thread -> Context]
    /\ NoReader /\ GuardInv /\ RetryInv

(* A connection whose lock a step does not touch, and one that a step      *)
(* registers, or locks and unlocks.                                        *)
Kept(t) ==
    /\ t \in DOMAIN conns
    /\ conns'[t] \in Conn /\ (Sound' => Settled(conns'[t]))
    /\ conns'[t].locker = conns[t].locker /\ conns'[t].lock_count = conns[t].lock_count

Unlocked(t) ==
    /\ t \in DOMAIN conns => conns[t].locker = None
    /\ conns'[t] \in Conn /\ Settled(conns'[t]) /\ conns'[t].locker = None

(* What a step of one thread does to the threads. *)
LEMMA Moves ==
    ASSUME th \in [Thread -> Context], NEW p \in Thread, NEW v \in Context, th' = [th EXCEPT ![p] = v]
    PROVE  th' \in [Thread -> Context] /\ th'[p] = v /\ \A q \in Thread : q # p => th'[q] = th[q]
  OBVIOUS

(* A connection that a step leaves alone is kept. *)
LEMMA KeptConn ==
    ASSUME Core, NEW t \in DOMAIN conns, conns'[t] = conns[t], dangling \subseteq dangling'
    PROVE  Kept(t)
  BY DEF Core, RetryInv, Kept, Sound

(* A step at which no guard is taken or given up. *)
LEMMA QuietGuards ==
    ASSUME Core, NEW p \in Thread, NEW v \in Context, th' = [th EXCEPT ![p] = v],
           Guarding(v) <=> Guarding(th[p]),
           Guarding(v) => /\ v.op = th[p].op /\ v.id = th[p].id
                          /\ v.token = th[p].token /\ v.lock_count = th[p].lock_count,
           dangling \subseteq dangling', DOMAIN conns' \subseteq Token,
           \A t \in DOMAIN conns' : Kept(t) \/ Unlocked(t),
           Sound' => \A t \in DOMAIN conns : t \in DOMAIN conns' \/ Holders(t) = {}
    PROVE  Core'
  <1>1. /\ th' \in [Thread -> Context]
        /\ \A q \in Thread : /\ Guarding(th'[q]) <=> Guarding(th[q])
                             /\ Guarding(th[q]) => /\ th'[q].op = th[q].op /\ th'[q].id = th[q].id
                                                   /\ th'[q].token = th[q].token
                                                   /\ th'[q].lock_count = th[q].lock_count
    BY Moves DEF Core
  <1>2. None # ReadLock
    BY DEF None, ReadLock, Loc
  <1>3. \A t \in DOMAIN conns' : conns'[t] \in Conn /\ conns'[t].locker # ReadLock
    BY <1>2 DEF Core, NoReader, Kept, Unlocked
  <1>4. RetryInv'
    BY DEF RetryInv, Kept, Unlocked, Sound, Settled
  <1>5. Sound' => Sound
    BY DEF Sound
  <1>6. \A q \in Thread : Guarding(th'[q]) => th'[q].op \in GuardedOp
    BY <1>1 DEF Core, GuardInv
  <1>7. ASSUME NEW t \in DOMAIN conns', conns'[t].locker # None
        PROVE  Held(t)'
    <2>1. Kept(t)
      BY <1>7 DEF Unlocked
    <2>2. Held(t)
      BY <1>7, <2>1 DEF Kept, Core, GuardInv
    <2> QED
      BY <1>1, <2>1, <2>2 DEF Held, Kept
  <1>8. ASSUME Sound', NEW q \in Thread, Guarding(th'[q])
        PROVE  Matches(th[q])'
    <2>1. Guarding(th[q]) /\ Matches(th[q]) /\ th[q].op \in GuardedOp /\ th[q].id \in StreamId \cup {0}
      BY <1>1, <1>5, <1>8 DEF Core, GuardInv, Context
    <2>2. LockOf(th[q].op, th[q].id) # None
      BY <2>1, LockOfType
    <2>3. th[q].token \in DOMAIN conns'
      BY <1>8, <2>1 DEF Holders, Matches
    <2>4. Kept(th[q].token)
      BY <2>1, <2>2, <2>3 DEF Unlocked, Matches
    <2> QED
      BY <1>1, <2>1, <2>3, <2>4 DEF Matches, Kept
  <1>9. Sound' => \A q, r \in Thread :
                     Guarding(th'[q]) /\ Guarding(th'[r]) /\ th'[q].token = th'[r].token => q = r
    BY <1>1, <1>5 DEF Core, GuardInv
  <1>10. GuardInv'
    BY <1>6, <1>7, <1>8, <1>9 DEF GuardInv
  <1> QED
    BY <1>1, <1>3, <1>4, <1>10 DEF Core, NoReader

(* A step after which every guard is still out and nobody new is parked. *)
LEMMA QuietParking ==
    ASSUME th \in [Thread -> Context], ParkInv, NEW p \in Thread, NEW v \in Context, th' = [th EXCEPT ![p] = v],
           Guarding(th[p]) => Guarding(v) /\ v.token = th[p].token,
           v.pc # "parked", v.pc \in Receiving => p \in Receiver /\ v.scid \in Scid, unparkers' = unparkers
    PROVE  ParkInv'
  <1>1. /\ th' \in [Thread -> Context] /\ th'[p] = v
        /\ \A q \in Thread : q # p => th'[q] = th[q]
    BY Moves
  <1>2. \A q \in Thread : Guarding(th[q]) => Guarding(th'[q]) /\ th'[q].token = th[q].token
    BY <1>1
  <1>3. \A q \in Thread : th'[q].pc \in Receiving => q \in Receiver /\ th'[q].scid \in Scid
    BY <1>1 DEF ParkInv
  <1>4. ASSUME OneReceiver, NEW q \in Thread, th'[q].pc = "parked"
        PROVE  /\ th'[q].token \in DOMAIN unparkers' /\ unparkers'[th'[q].token] = q
               /\ Holders(th[q].token)' # {}
    <2>1. th'[q] = th[q] /\ th[q].pc = "parked"
      BY <1>1, <1>4
    <2>2. th[q].token \in DOMAIN unparkers /\ unparkers[th[q].token] = q /\ Holders(th[q].token) # {}
      BY <1>4, <2>1 DEF ParkInv, ParkedIsOwed
    <2> QED
      BY <1>2, <2>1, <2>2 DEF Holders
  <1> QED
    BY <1>3, <1>4 DEF ParkInv, ParkedIsOwed

-----------------------------------------------------------------------------
(* Locking.  A connection that can be locked is unlocked, since nobody is  *)
(* left reading; when no guard dangles it has no guard.                    *)
LEMMA LockableFree ==
    ASSUME Core, NEW t \in DOMAIN conns, NEW loc
    PROVE  /\ Lockable(conns[t], loc) => conns[t].locker = None
           /\ ~Lockable(conns[t], loc) => conns[t].locker # None
  BY DEF Core, NoReader, Lockable

(* An unlocked connection, or none, has no guard unless guards dangle. *)
LEMMA FreeUnheld ==
    ASSUME Core, Sound, NEW t \in Token, t \notin DOMAIN conns \/ conns[t].locker = None, NEW q \in Thread
    PROVE  ~(Guarding(th[q]) /\ th[q].token = t)
  <1> SUFFICES ASSUME Guarding(th[q]), th[q].token = t
               PROVE  FALSE
    OBVIOUS
  <1>1. Matches(th[q]) /\ th[q].op \in GuardedOp /\ th[q].id \in StreamId \cup {0}
    BY DEF Core, GuardInv, Context
  <1>2. LockOf(th[q].op, th[q].id) # None
    BY <1>1, LockOfType
  <1> QED
    BY <1>1, <1>2 DEF Matches

(* A refusal changes no lock. *)
LEMMA RefuseKept ==
    ASSUME Core, NEW t \in DOMAIN conns, NEW loc \in LocKind, conns[t].locker # None,
           conns' = [conns EXCEPT ![t] = refuse(conns[t], loc)], dangling' = dangling
    PROVE  DOMAIN conns' = DOMAIN conns /\ \A u \in DOMAIN conns' : Kept(u)
  <1>1. conns[t] \in Conn
    BY DEF Core
  <1>2. refuse(conns[t], loc) \in Conn /\ Settled(refuse(conns[t], loc))
    BY <1>1, RefuseType, RefuseFrame DEF Settled
  <1>3. Kept(t)
    BY <1>1, <1>2, RefuseFrame DEF Kept
  <1>4. \A u \in DOMAIN conns' : u # t => conns'[u] = conns[u]
    OBVIOUS
  <1> QED
    BY <1>3, <1>4, KeptConn

(* What a thread is after it asked for a guard. *)
Taken(t, op, id, next) ==
    [Idle EXCEPT !.pc = "held", !.op = op, !.token = t, !.id = id,
                 !.lock_count = conns[t].lock_count, !.next = next]

(* A thread that was given a guard. *)
LEMMA TakenType ==
    ASSUME Core, NEW t \in DOMAIN conns, NEW op \in GuardedOp, NEW id \in StreamId \cup {0}, NEW next \in Next_
    PROVE  LET v == Taken(t, op, id, next)
           IN  /\ v \in Context /\ Guarding(v) /\ v.pc = "held"
               /\ v.op = op /\ v.id = id /\ v.token = t /\ v.lock_count = conns[t].lock_count
  <1>1. t \in Token /\ conns[t].lock_count \in 0 .. LockCountModulus - 1
    BY DEF Core, Conn
  <1>2. Idle \in Context
    BY ContextType
  <1> QED
    BY <1>1, <1>2 DEF Taken, Context, Pc, Guarding

(* A guard is given out: it is the only one of its connection. *)
LEMMA LockCore ==
    ASSUME Core, NEW p \in Thread, NEW t \in DOMAIN conns, NEW op \in GuardedOp,
           NEW id \in StreamId \cup {0}, NEW next \in Next_, NEW v, v = Taken(t, op, id, next),
           ~Guarding(th[p]), conns[t].locker = None, dangling' = dangling,
           conns' = [conns EXCEPT ![t] = lock(conns[t], LockOf(op, id))], th' = [th EXCEPT ![p] = v]
    PROVE  Core'
  <1> DEFINE loc == LockOf(op, id)
             c == lock(conns[t], loc)
  <1>1. /\ v \in Context /\ Guarding(v) /\ v.op = op /\ v.id = id
        /\ v.token = t /\ v.lock_count = conns[t].lock_count
    BY TakenType
  <1>2. loc \in LocKind /\ loc # None /\ loc # ReadLock
    BY LockOfType
  <1>3. conns[t] \in Conn
    BY DEF Core
  <1>4. c \in Conn /\ c.locker = loc /\ c.lock_count = conns[t].lock_count
    BY <1>2, <1>3, LockType, LockFrame
  <1>5. /\ th' \in [Thread -> Context] /\ th'[p] = v
        /\ \A q \in Thread : q # p => th'[q] = th[q]
    BY <1>1, Moves DEF Core
  <1> HIDE DEF loc, c
  <1>6. DOMAIN conns' = DOMAIN conns /\ conns'[t] = c /\ \A u \in DOMAIN conns : u # t => conns'[u] = conns[u]
    BY DEF c, loc
  <1>7. DOMAIN conns' \subseteq Token /\ \A u \in DOMAIN conns' : conns'[u] \in Conn /\ conns'[u].locker # ReadLock
    BY <1>2, <1>4, <1>6 DEF Core, NoReader
  <1>8. RetryInv'
    BY <1>2, <1>4, <1>6 DEF Core, RetryInv, Sound, Settled
  <1>9. GuardInv'
    <2>1. \A q \in Thread : Guarding(th'[q]) => th'[q].op \in GuardedOp
      BY <1>1, <1>5 DEF Core, GuardInv
    <2>2. ASSUME NEW u \in DOMAIN conns', conns'[u].locker # None
          PROVE  Held(u)'
      <3>1. CASE u = t
        BY <1>1, <1>4, <1>5, <1>6, <3>1 DEF Held
      <3>2. CASE u # t
        <4>1. Held(u) /\ conns'[u] = conns[u]
          BY <1>6, <2>2, <3>2 DEF Core, GuardInv
        <4> QED
          BY <1>5, <4>1 DEF Held
      <3> QED
        BY <3>1, <3>2
    <2>3. Sound' => \A q \in Thread : q # p => ~(Guarding(th[q]) /\ th[q].token = t)
      <3>1. t \in Token
        BY DEF Core
      <3> QED
        BY <3>1, FreeUnheld DEF Sound
    <2>4. ASSUME Sound', NEW q \in Thread, Guarding(th'[q])
          PROVE  Matches(th[q])'
      <3>1. CASE q = p
        BY <1>1, <1>4, <1>5, <1>6, <3>1 DEF Matches, loc
      <3>2. CASE q # p
        <4>1. Matches(th[q]) /\ th'[q] = th[q] /\ th[q].token # t
          BY <1>5, <2>3, <2>4, <3>2 DEF Core, GuardInv, Sound
        <4> QED
          BY <1>6, <4>1 DEF Matches
      <3> QED
        BY <3>1, <3>2
    <2>5. Sound' => \A q, r \in Thread :
                       Guarding(th'[q]) /\ Guarding(th'[r]) /\ th'[q].token = th'[r].token => q = r
      BY <1>1, <1>5, <2>3 DEF Core, GuardInv, Sound
    <2> QED
      BY <2>1, <2>2, <2>4, <2>5 DEF GuardInv
  <1> QED
    BY <1>5, <1>7, <1>8, <1>9 DEF Core, NoReader

(* The lock! macro, whether it gives a guard or refuses one. *)
LEMMA TryLockCore ==
    ASSUME Core, NEW p \in Thread, NEW t \in DOMAIN conns, NEW op \in GuardedOp,
           NEW id \in StreamId \cup {0}, NEW next \in Next_, NEW refused \in Context,
           ~Guarding(th[p]), ~Guarding(refused), dangling' = dangling,
           TryLock(p, t, op, id, next, refused)
    PROVE  /\ Core'
           /\ \E v \in Context : /\ th' = [th EXCEPT ![p] = v]
                                 /\ IF Lockable(conns[t], LockOf(op, id)) THEN v.pc = "held" ELSE v = refused
  <1> DEFINE loc == LockOf(op, id)
  <1>1. loc \in LocKind
    BY LockOfType
  <1>2. CASE Lockable(conns[t], loc)
    <2>1. conns[t].locker = None
      BY <1>2, LockableFree
    <2>2. /\ conns' = [conns EXCEPT ![t] = lock(conns[t], loc)]
          /\ th' = [th EXCEPT ![p] = Taken(t, op, id, next)]
      BY <1>2 DEF TryLock, Taken
    <2>3. Taken(t, op, id, next) \in Context /\ Taken(t, op, id, next).pc = "held"
      BY TakenType
    <2>4. Core'
      BY <2>1, <2>2, LockCore
    <2> QED
      BY <1>2, <2>2, <2>3, <2>4
  <1>3. CASE ~Lockable(conns[t], loc)
    <2>1. conns[t].locker # None
      BY <1>3, LockableFree
    <2>2. conns' = [conns EXCEPT ![t] = refuse(conns[t], loc)] /\ th' = [th EXCEPT ![p] = refused]
      BY <1>3 DEF TryLock
    <2>3. DOMAIN conns' = DOMAIN conns /\ \A u \in DOMAIN conns' : Kept(u)
      BY <1>1, <2>1, <2>2, RefuseKept
    <2>4. DOMAIN conns \subseteq Token
      BY DEF Core
    <2>5. Core'
      BY <2>2, <2>3, <2>4, QuietGuards
    <2> QED
      BY <1>3, <2>2, <2>5
  <1> QED
    BY <1>2, <1>3

-----------------------------------------------------------------------------
(* One lemma per action. *)

RestOK ==
    /\ token_next \in Token /\ rd \in Readiness /\ handed \subseteq Token /\ dangling \subseteq Thread
    /\ DOMAIN unparkers \subseteq Token /\ \A t \in DOMAIN unparkers : unparkers[t] \in Thread
    /\ DOMAIN scids \subseteq Scid /\ \A s \in DOMAIN scids : scids[s] \in Token

(* The invariant by parts. *)
LEMMA Parts == IInv <=> Core /\ RestOK /\ ParkInv
  BY DEF IInv, Core, RestOK, TypeOK

(* The same in the next state. *)
LEMMA PartsNext == Core' /\ RestOK' /\ ParkInv' => IInv'
  BY DEF IInv, Core, RestOK, TypeOK

(* A thread moves on; nothing else about connections, guards and parking changes. *)
LEMMA MoveOn ==
    ASSUME IInv, NEW p \in Thread, NEW v \in Context, th' = [th EXCEPT ![p] = v],
           ~Guarding(th[p]), ~Guarding(v), v.pc # "parked",
           v.pc \in Receiving => p \in Receiver /\ v.scid \in Scid,
           conns' = conns, dangling' = dangling, unparkers' = unparkers
    PROVE  Core' /\ ParkInv'
  <1>1. Core /\ ParkInv
    BY Parts
  <1>2. \A t \in DOMAIN conns' : Kept(t)
    BY <1>1, KeptConn
  <1>3. th \in [Thread -> Context] /\ DOMAIN conns' \subseteq Token
    BY <1>1 DEF Core
  <1>4. Core'
    BY <1>1, <1>2, <1>3, QuietGuards
  <1>5. ParkInv'
    BY <1>1, <1>3, QuietParking
  <1> QED
    BY <1>4, <1>5

(* What unlock leaves behind. *)
LEMMA UnlockSettled ==
    ASSUME NEW c \in Conn, NEW r \in Readiness, NEW x \in Choice(c), NEW sd \in BOOLEAN,
           c.locker = ReadLock => c.read_lock_count = 1
    PROVE  LET s == unlock([c |-> c, rd |-> r], x, sd)
           IN  s.c \in Conn /\ s.rd \in Readiness /\ s.c.locker = None /\ Settled(s.c)
  BY UnlockResult DEF Settled

(* register locks the new connection as its only reader. *)
LEMMA NewReader ==
    ASSUME NEW t \in Token, NEW s \in Scid, NEW b \in BOOLEAN
    PROVE  LET c == lock(new(t, s, b), ReadLock)
           IN  c \in Conn /\ c.locker = ReadLock /\ c.read_lock_count = 1
  <1>1. ReadLock \in LocKind
    BY DEF ReadLock, Loc, LocKind, LocKinds
  <1>2. new(t, s, b) \in Conn /\ new(t, s, b).read_lock_count = 0
    BY NewType DEF new
  <1>3. lock(new(t, s, b), ReadLock) \in Conn
    BY <1>1, <1>2, LockType
  <1>4. lock(new(t, s, b), ReadLock).locker = ReadLock
    BY <1>1, <1>2, LockFrame
  <1>5. lock(new(t, s, b), ReadLock).read_lock_count = 1
    <2> DEFINE n == new(t, s, b)
    <2>1. lock(n, ReadLock) = [n EXCEPT !.locker = ReadLock, !.read_lock_count = n.read_lock_count + 1]
      BY DEF lock
    <2>2. n \in Conn /\ n.read_lock_count + 1 = 1
      BY <1>2
    <2> HIDE DEF n, ReadLock
    <2> QED
      BY <2>1, <2>2 DEF Conn, n
  <1> QED
    BY <1>3, <1>4, <1>5

(* register, for connect and for an accepted connection, with or without its panic. *)
LEMMA RegisterStep ==
    ASSUME IInv, NEW p \in Thread, NEW scid \in Scid, NEW b \in BOOLEAN, NEW k \in Context,
           ~Guarding(th[p]), ~Guarding(k), k.pc # "parked",
           k.pc \in Receiving => p \in Receiver /\ k.scid \in Scid,
           Register(p, scid, b, k)
    PROVE  IInv'
  <1>1. Core /\ RestOK /\ ParkInv
    BY Parts
  <1>2. PICK t \in Token :
           /\ FreeToken(t)
           /\ token_next' = (t + 1) % TokenModulus
           /\ scids' = With(scids, scid, t)
           /\ IF scid \in DOMAIN scids
              THEN /\ th' = [th EXCEPT ![p] = Panic]
                   /\ UNCHANGED <<conns, rd, dangling>>
              ELSE \E x \in Choice(lock(new(t, scid, b), ReadLock)), moved \in {FALSE, MayRehash} :
                      LET s == unlock([c |-> lock(new(t, scid, b), ReadLock), rd |-> rd], x, FALSE)
                      IN  /\ conns' = With(conns, t, s.c)
                          /\ rd' = s.rd
                          /\ dangling' = dangling \cup (IF moved THEN {q \in Thread : Guarding(th[q])} ELSE {})
                          /\ th' = [th EXCEPT ![p] = [k EXCEPT !.token = t]]
           /\ UNCHANGED <<unparkers, handed>>
    BY DEF Register
  <1>3. token_next' \in Token
    BY <1>2, TokenNextType
  <1>4. DOMAIN scids' \subseteq Scid /\ \A s \in DOMAIN scids' : scids'[s] \in Token
    BY <1>1, <1>2 DEF With, RestOK
  <1>5. CASE scid \in DOMAIN scids
    <2>1. th' = [th EXCEPT ![p] = Panic] /\ UNCHANGED <<conns, rd, dangling>>
      BY <1>2, <1>5
    <2>2. Panic \in Context /\ ~Guarding(Panic) /\ Panic.pc = "panic"
      BY ContextType DEF Panic, Idle
    <2>3. Core' /\ ParkInv'
      BY <1>2, <2>1, <2>2, MoveOn DEF Receiving
    <2>4. RestOK'
      BY <1>1, <1>2, <1>3, <1>4, <2>1 DEF RestOK
    <2> QED
      BY <2>3, <2>4, PartsNext
  <1>6. CASE scid \notin DOMAIN scids
    <2> DEFINE c == lock(new(t, scid, b), ReadLock)
               v == [k EXCEPT !.token = t]
               moves(m) == IF m THEN {q \in Thread : Guarding(th[q])} ELSE {}
    <2>1. PICK x \in Choice(c), moved \in {FALSE, MayRehash} :
             LET s == unlock([c |-> c, rd |-> rd], x, FALSE)
             IN  /\ conns' = With(conns, t, s.c) /\ rd' = s.rd
                 /\ dangling' = dangling \cup moves(moved)
                 /\ th' = [th EXCEPT ![p] = v]
      BY <1>2, <1>6
    <2> DEFINE s == unlock([c |-> c, rd |-> rd], x, FALSE)
    <2>2. c \in Conn /\ c.locker = ReadLock /\ c.read_lock_count = 1
      BY NewReader
    <2> HIDE DEF c
    <2>3. s.c \in Conn /\ s.rd \in Readiness /\ s.c.locker = None /\ Settled(s.c)
      BY <1>1, <2>2, UnlockSettled DEF RestOK
    <2> HIDE DEF s
    <2>4. conns' = With(conns, t, s.c) /\ rd' = s.rd /\ dangling' = dangling \cup moves(moved)
      BY <2>1 DEF s
    <2>5. v \in Context /\ v.pc = k.pc /\ v.scid = k.scid
      BY DEF Context
    <2>6. ~Guarding(v)
      BY <2>5 DEF Guarding
    <2> HIDE DEF v
    <2>7. th' = [th EXCEPT ![p] = v]
      BY <2>1
    <2>8. t \notin DOMAIN conns
      BY <1>2 DEF FreeToken
    <2>9. /\ DOMAIN conns' = DOMAIN conns \cup {t} /\ conns'[t] = s.c
          /\ \A u \in DOMAIN conns : conns'[u] = conns[u]
      BY <2>4, <2>8 DEF With
    <2>10. dangling \subseteq dangling' /\ dangling' \subseteq Thread
      BY <1>1, <2>4 DEF RestOK
    <2>11. \A u \in DOMAIN conns' : Kept(u) \/ Unlocked(u)
      BY <1>1, <2>3, <2>8, <2>9, <2>10, KeptConn DEF Unlocked
    <2>12. DOMAIN conns' \subseteq Token /\ th \in [Thread -> Context]
      BY <1>1, <2>9 DEF Core
    <2>13. Core'
      BY <1>1, <2>5, <2>6, <2>7, <2>9, <2>10, <2>11, <2>12, QuietGuards
    <2>14. ParkInv'
      BY <1>1, <1>2, <2>5, <2>6, <2>7, <2>12, QuietParking
    <2>15. RestOK'
      BY <1>1, <1>2, <1>3, <1>4, <2>3, <2>4, <2>10 DEF RestOK
    <2> QED
      BY <2>13, <2>14, <2>15, PartsNext
  <1> QED
    BY <1>5, <1>6

(* The first half of deregister: who holds the connection dangles. *)
LEMMA RemoveConnStep ==
    ASSUME IInv, NEW p \in Thread, NEW t, NEW next \in Next_, ~Guarding(th[p]), RemoveConn(p, t, next)
    PROVE  IInv'
  <1> DEFINE v == [Idle EXCEPT !.pc = "dereg", !.token = t, !.scid = conns[t].scid, !.next = next]
  <1>1. Core /\ RestOK /\ ParkInv
    BY Parts
  <1>2. /\ t \in DOMAIN conns /\ conns' = Without(conns, t) /\ dangling' = dangling \cup Holders(t)
        /\ th' = [th EXCEPT ![p] = v] /\ UNCHANGED <<token_next, rd, unparkers, scids, handed>>
    BY DEF RemoveConn
  <1>3. t \in Token /\ conns[t] \in Conn
    BY <1>1, <1>2 DEF Core
  <1>4. v \in Context /\ v.pc = "dereg"
    <2>1. conns[t].scid \in Scid /\ Idle \in Context
      BY <1>3, ContextType DEF Conn
    <2> QED
      BY <1>3, <2>1 DEF Context, Pc
  <1> HIDE DEF v
  <1>5. ~Guarding(v) /\ v.pc # "parked" /\ v.pc \notin Receiving
    BY <1>4 DEF Guarding, Receiving
  <1>6. DOMAIN conns' = DOMAIN conns \ {t} /\ \A u \in DOMAIN conns' : conns'[u] = conns[u]
    BY <1>2 DEF Without
  <1>7. dangling \subseteq dangling' /\ dangling' \subseteq Thread /\ (Sound' => Holders(t) = {})
    BY <1>1, <1>2 DEF Holders, Sound, RestOK
  <1>8. \A u \in DOMAIN conns' : Kept(u)
    BY <1>1, <1>6, <1>7, KeptConn
  <1>9. DOMAIN conns' \subseteq Token /\ th \in [Thread -> Context]
    BY <1>1, <1>6 DEF Core
  <1>10. Core'
    BY <1>1, <1>2, <1>4, <1>5, <1>6, <1>7, <1>8, <1>9, QuietGuards
  <1>11. ParkInv'
    BY <1>1, <1>2, <1>4, <1>5, <1>9, QuietParking
  <1>12. RestOK'
    BY <1>1, <1>2, <1>7 DEF RestOK
  <1> QED
    BY <1>10, <1>11, <1>12, PartsNext

(* A thread outside held and done has no guard. *)
LEMMA NotGuarding ==
    ASSUME NEW k
    PROVE  k.pc \in {"idle", "lookup", "looked", "parked", "accept", "reap", "dereg", "reply", "panic"} => ~Guarding(k)
  BY DEF Guarding

(* A thread whose call is over has no guard and is not receiving. *)
LEMMA ReturnedMoves ==
    ASSUME NEW k \in Context
    PROVE  LET v == Returned(k)
           IN  v \in Context /\ ~Guarding(v) /\ v.pc # "parked" /\ v.pc \notin Receiving
  BY ContextType, NotGuarding DEF Receiving

(* Nor has an idle or a stopped one. *)
LEMMA IdleMoves ==
    /\ Idle \in Context /\ ~Guarding(Idle) /\ Idle.pc # "parked" /\ Idle.pc \notin Receiving
    /\ Panic \in Context /\ ~Guarding(Panic) /\ Panic.pc # "parked" /\ Panic.pc \notin Receiving
  BY ContextType DEF Receiving, Idle, Panic

(* The deregister that Group::unlock calls for a closed connection. *)
LEMMA ReapStep ==
    ASSUME IInv, NEW p \in Thread, Reap(p)
    PROVE  IInv'
  <1>1. Core /\ RestOK /\ ParkInv
    BY Parts
  <1>2. th[p] \in Context /\ th[p].pc = "reap" /\ th[p].next \in Next_ /\ ~Guarding(th[p])
    BY <1>1 DEF Core, Context, Reap, Guarding
  <1>3. CASE RemoveConn(p, th[p].token, th[p].next)
    BY <1>2, <1>3, RemoveConnStep
  <1>4. CASE /\ th' = [th EXCEPT ![p] = Returned(th[p])]
             /\ UNCHANGED <<token_next, conns, rd, unparkers, scids, handed, dangling>>
    <2>1. Core' /\ ParkInv'
      BY <1>2, <1>4, ReturnedMoves, MoveOn
    <2>2. RestOK'
      BY <1>1, <1>4 DEF RestOK
    <2> QED
      BY <2>1, <2>2, PartsNext
  <1> QED
    BY <1>3, <1>4 DEF Reap

(* The second half of deregister, with or without its panic. *)
LEMMA RemoveScidStep ==
    ASSUME IInv, NEW p \in Thread, RemoveScid(p)
    PROVE  IInv'
  <1>1. Core /\ RestOK /\ ParkInv
    BY Parts
  <1>2. th[p] \in Context /\ ~Guarding(th[p])
    BY <1>1 DEF Core, RemoveScid, Guarding
  <1>3. PICK v \in {Returned(th[p]), Panic} :
           /\ th' = [th EXCEPT ![p] = v] /\ scids' = Without(scids, th[p].scid)
           /\ UNCHANGED <<token_next, conns, rd, unparkers, handed, dangling>>
    BY DEF RemoveScid
  <1>4. v \in Context /\ ~Guarding(v) /\ v.pc # "parked" /\ v.pc \notin Receiving
    BY <1>2, ReturnedMoves, IdleMoves
  <1>5. Core' /\ ParkInv'
    BY <1>2, <1>3, <1>4, MoveOn
  <1>6. RestOK'
    BY <1>1, <1>3 DEF RestOK, Without
  <1> QED
    BY <1>5, <1>6, PartsNext

(* close, stream_open and stream_shutdown. *)
LEMMA CallLockedStep ==
    ASSUME IInv, NEW p \in Thread, Starts(p), NEW t \in Token, NEW op \in LockedOp,
           NEW id \in StreamId \cup {0}, CallLocked(t, op, id)
    PROVE  IInv'
  <1> DEFINE loc == Loc(op, id)
  <1>1. Core /\ RestOK /\ ParkInv
    BY Parts
  <1>2. t \in DOMAIN conns /\ UNCHANGED <<token_next, unparkers, scids, th, handed, dangling>>
    BY DEF CallLocked
  <1>3. conns[t] \in Conn /\ th \in [Thread -> Context] /\ DOMAIN conns \subseteq Token
    BY <1>1, <1>2 DEF Core
  <1>4. loc \in LocKind /\ loc # None /\ loc # ReadLock
    BY LocType
  <1>5. th[p] \in Context /\ th[p].pc = "idle" /\ th' = [th EXCEPT ![p] = th[p]]
    BY <1>2, <1>3 DEF Starts
  <1>6. ~Guarding(th[p]) /\ th[p].pc # "parked" /\ th[p].pc \notin Receiving
    BY <1>5 DEF Guarding, Receiving
  <1>7. ParkInv'
    BY <1>1, <1>2, <1>3, <1>5, <1>6, QuietParking
  <1>8. CASE Lockable(conns[t], loc)
    <2> DEFINE l == lock(conns[t], loc)
    <2>0. PICK c \in LockedCall(l, op, id) : \E x \in Choice(c) :
             LET s == unlock([c |-> c, rd |-> rd], x, FALSE)
             IN  conns' = [conns EXCEPT ![t] = s.c] /\ rd' = s.rd
      BY <1>8 DEF CallLocked
    <2>1. PICK x \in Choice(c) :
             LET s == unlock([c |-> c, rd |-> rd], x, FALSE)
             IN  conns' = [conns EXCEPT ![t] = s.c] /\ rd' = s.rd
      BY <2>0
    <2> DEFINE s == unlock([c |-> c, rd |-> rd], x, FALSE)
    <2>2. l \in Conn /\ l.locker = loc
      BY <1>3, <1>4, LockType, LockFrame
    <2> HIDE DEF l
    <2>3. c \in Conn /\ c.locker # ReadLock
      BY <1>4, <2>2, LockedCallType
    <2>4. s.c \in Conn /\ s.rd \in Readiness /\ s.c.locker = None /\ Settled(s.c)
      BY <1>1, <2>3, UnlockSettled DEF RestOK
    <2> HIDE DEF s
    <2>5. conns' = [conns EXCEPT ![t] = s.c] /\ rd' = s.rd
      BY <2>1 DEF s
    <2>6. conns[t].locker = None
      BY <1>1, <1>2, <1>8, LockableFree
    <2>7. /\ DOMAIN conns' = DOMAIN conns /\ conns'[t] = s.c
          /\ \A u \in DOMAIN conns : u # t => conns'[u] = conns[u]
      BY <1>2, <2>5
    <2>8. Unlocked(t)
      BY <2>4, <2>6, <2>7 DEF Unlocked
    <2>9. \A u \in DOMAIN conns' : Kept(u) \/ Unlocked(u)
      BY <1>1, <1>2, <2>7, <2>8, KeptConn
    <2>10. Core'
      BY <1>1, <1>2, <1>3, <1>5, <1>6, <2>7, <2>9, QuietGuards
    <2>11. RestOK'
      BY <1>1, <1>2, <2>4, <2>5 DEF RestOK
    <2> QED
      BY <1>7, <2>10, <2>11, PartsNext
  <1>9. CASE ~Lockable(conns[t], loc)
    <2>1. conns' = [conns EXCEPT ![t] = refuse(conns[t], loc)] /\ rd' = rd
      BY <1>9 DEF CallLocked
    <2>2. conns[t].locker # None
      BY <1>1, <1>2, <1>9, LockableFree
    <2>3. DOMAIN conns' = DOMAIN conns /\ \A u \in DOMAIN conns' : Kept(u)
      BY <1>1, <1>2, <1>4, <2>1, <2>2, RefuseKept
    <2>4. Core'
      BY <1>1, <1>2, <1>3, <1>5, <1>6, <2>3, QuietGuards
    <2>5. RestOK'
      BY <1>1, <1>2, <2>1 DEF RestOK
    <2> QED
      BY <1>7, <2>4, <2>5, PartsNext
  <1> QED
    BY <1>8, <1>9

(* Group::poll. *)
LEMMA PollStep ==
    ASSUME IInv, NEW p \in Thread, Poll(p)
    PROVE  IInv'
  <1>1. Core /\ RestOK /\ ParkInv
    BY Parts
  <1>2. th[p] \in Context /\ th[p].pc = "idle" /\ th' = [th EXCEPT ![p] = th[p]]
    BY <1>1 DEF Core, Poll, Starts
  <1>3. ~Guarding(th[p]) /\ th[p].pc # "parked" /\ th[p].pc \notin Receiving
    BY <1>2 DEF Guarding, Receiving
  <1>4. Core' /\ ParkInv'
    BY <1>2, <1>3, MoveOn DEF Poll
  <1>5. PICK due \in SUBSET rd.delayed :
           /\ rd' = poll(rd, due)
           /\ handed' = handed \cup {e.token : e \in {f \in polled(rd, due) : f.kind = "Send"}}
    BY DEF Poll
  <1>6. polled(rd, due) \subseteq Event /\ poll(rd, due) \in Readiness
    BY <1>1 DEF RestOK, polled, poll, Readiness
  <1>7. {e.token : e \in {f \in polled(rd, due) : f.kind = "Send"}} \subseteq Token
    BY <1>6 DEF Event
  <1>8. RestOK'
    BY <1>1, <1>5, <1>6, <1>7 DEF RestOK, Poll
  <1> QED
    BY <1>4, <1>8, PartsNext

(* send, stream_send and stream_recv up to the guard. *)
LEMMA CallGuardedStep ==
    ASSUME IInv, NEW p \in Thread, NEW t \in Token, NEW op \in GuardedOp,
           NEW id \in StreamId \cup {0}, CallGuarded(p, t, op, id)
    PROVE  IInv'
  <1>1. Core /\ RestOK /\ ParkInv
    BY Parts
  <1>2. /\ t \in DOMAIN conns /\ TryLock(p, t, op, id, "return", Idle) /\ ~Guarding(th[p])
        /\ UNCHANGED <<token_next, rd, unparkers, scids, dangling>> /\ handed' \in {handed, handed \ {t}}
    BY DEF CallGuarded, Starts, Guarding
  <1>3. "return" \in Next_ /\ th \in [Thread -> Context]
    BY <1>1 DEF Next_, Core
  <1>4. Core' /\ \E v \in Context : th' = [th EXCEPT ![p] = v] /\ (v.pc = "held" \/ v = Idle)
    BY <1>1, <1>2, <1>3, IdleMoves, TryLockCore
  <1>5. ParkInv'
    <2>1. PICK v \in Context : th' = [th EXCEPT ![p] = v] /\ (v.pc = "held" \/ v = Idle)
      BY <1>4
    <2>2. v.pc # "parked" /\ v.pc \notin Receiving
      BY <2>1, IdleMoves DEF Receiving
    <2> QED
      BY <1>1, <1>2, <1>3, <2>1, <2>2, QuietParking
  <1>6. RestOK'
    BY <1>1, <1>2 DEF RestOK
  <1> QED
    BY <1>4, <1>5, <1>6, PartsNext

(* recv_with_connection_id up to the token. *)
LEMMA LookupStep ==
    ASSUME IInv, NEW p \in Receiver, NEW scid \in Scid, NEW next \in Next_,
           ~Guarding(th[p]), Lookup(p, scid, next)
    PROVE  IInv'
  <1>1. Core /\ RestOK /\ ParkInv /\ p \in Thread
    BY Parts, ReceiverAssumption
  <1> DEFINE A == [Idle EXCEPT !.pc = "looked", !.token = scids[scid], !.scid = scid, !.next = next]
             B == [Idle EXCEPT !.pc = "accept", !.scid = scid]
  <1>2. PICK v : /\ th' = [th EXCEPT ![p] = v]
                 /\ v = Idle \/ v = B \/ (v = A /\ scid \in DOMAIN scids)
    BY DEF Lookup
  <1>3. Idle \in Context
    BY IdleMoves
  <1>4. v \in Context /\ v.pc \in {"idle", "accept", "looked"} /\ (v.pc # "idle" => v.scid \in Scid)
    <2>1. CASE v = Idle
      BY <1>3, <2>1 DEF Idle
    <2>2. CASE v = B
      BY <1>3, <2>2 DEF Context, Pc
    <2>3. CASE v = A /\ scid \in DOMAIN scids
      <3>1. scids[scid] \in Token
        BY <1>1, <2>3 DEF RestOK
      <3> QED
        BY <1>3, <2>3, <3>1 DEF Context, Pc
    <2> QED
      BY <1>2, <2>1, <2>2, <2>3
  <1>5. ~Guarding(v) /\ v.pc # "parked" /\ (v.pc \in Receiving => v.scid \in Scid)
    BY <1>4, NotGuarding DEF Receiving
  <1>6. Core' /\ ParkInv'
    BY <1>1, <1>2, <1>4, <1>5, MoveOn DEF Lookup
  <1>7. RestOK'
    BY <1>1 DEF RestOK, Lookup
  <1> QED
    BY <1>6, <1>7, PartsNext

(* The receiver is refused and parks: it is the only one that may, and the *)
(* connection that refused it has a guard.                                 *)
LEMMA ParkingStep ==
    ASSUME Core, ParkInv, NEW p \in Receiver, NEW t \in DOMAIN conns, conns[t].locker # None,
           ~Guarding(th[p]), NEW v \in Context, v.pc = "parked", v.token = t, v.scid \in Scid,
           th' = [th EXCEPT ![p] = v], unparkers' = With(unparkers, t, p)
    PROVE  ParkInv'
  <1>0. p \in Thread
    BY ReceiverAssumption
  <1>1. th' \in [Thread -> Context] /\ th'[p] = v /\ \A q \in Thread : q # p => th'[q] = th[q]
    BY <1>0, Moves DEF Core
  <1>2. \A q \in Thread : th'[q].pc \in Receiving => q \in Receiver /\ th'[q].scid \in Scid
    BY <1>1 DEF ParkInv
  <1>3. t \in DOMAIN unparkers' /\ unparkers'[t] = p
    BY DEF With
  <1>4. Holders(t)' # {}
    <2>1. PICK q \in Thread : Guarding(th[q]) /\ th[q].token = t
      BY DEF Core, GuardInv, Held
    <2>2. th'[q] = th[q]
      BY <1>1, <2>1
    <2> QED
      BY <2>1, <2>2 DEF Holders
  <1>5. ASSUME OneReceiver, NEW q \in Thread, th'[q].pc = "parked"
        PROVE  q = p
    BY <1>2, <1>5 DEF OneReceiver, Receiving
  <1> QED
    BY <1>1, <1>2, <1>3, <1>4, <1>5 DEF ParkInv, ParkedIsOwed

(* recv_with_connection_id from the token on. *)
LEMMA RecvLockStep ==
    ASSUME IInv, NEW p \in Thread, RecvLock(p)
    PROVE  IInv'
  <1> DEFINE k == th[p]
             t == k.token
  <1>1. Core /\ RestOK /\ ParkInv /\ th \in [Thread -> Context]
    BY Parts DEF Core
  <1>2. k \in Context /\ k.pc = "looked" /\ k.next \in Next_ /\ t \in Token
    BY <1>1 DEF RecvLock, Context
  <1>3. ~Guarding(k) /\ p \in Receiver /\ k.scid \in Scid
    BY <1>1, <1>2 DEF Guarding, ParkInv, Receiving
  <1>4. UNCHANGED <<token_next, rd, scids, handed, dangling>>
    BY DEF RecvLock
  <1>5. "Recv" \in GuardedOp /\ 0 \in StreamId \cup {0} /\ LockOf("Recv", 0) = Loc("Recv", 0)
    BY DEF GuardedOp, LockOf
  <1>6. CASE /\ t \notin DOMAIN conns /\ UNCHANGED <<conns, unparkers>>
             /\ th' = [th EXCEPT ![p] = IF k.next = "reply" THEN [Idle EXCEPT !.pc = "accept", !.scid = k.scid]
                                                            ELSE Idle]
    <2>1. PICK v \in {Idle, [Idle EXCEPT !.pc = "accept", !.scid = k.scid]} : th' = [th EXCEPT ![p] = v]
      BY <1>6
    <2>2. v \in Context /\ v.pc \in {"idle", "accept"} /\ (v.pc # "idle" => v.scid \in Scid)
      <3>1. k.scid \in Scid \cup {NoScid} /\ Idle \in Context /\ Idle.pc = "idle"
        BY <1>2, IdleMoves DEF Context, Idle
      <3> QED
        BY <1>3, <2>1, <3>1 DEF Context, Pc
    <2>3. ~Guarding(v) /\ v.pc # "parked" /\ (v.pc \in Receiving => v.scid \in Scid)
      BY <2>2, NotGuarding DEF Receiving
    <2>4. Core' /\ ParkInv'
      BY <1>3, <1>4, <1>6, <2>1, <2>2, <2>3, MoveOn
    <2>5. RestOK'
      BY <1>1, <1>4, <1>6 DEF RestOK
    <2> QED
      BY <2>4, <2>5, PartsNext
  <1>7. ASSUME t \in DOMAIN conns, NEW r \in {Idle, Panic}, TryLock(p, t, "Recv", 0, k.next, r),
               unparkers' = unparkers
        PROVE  IInv'
    <2>1. r \in Context /\ ~Guarding(r) /\ r.pc # "parked" /\ r.pc \notin Receiving
      BY <1>7, IdleMoves
    <2>2. Core' /\ \E v \in Context : th' = [th EXCEPT ![p] = v] /\ (v.pc = "held" \/ v = r)
      BY <1>1, <1>2, <1>3, <1>4, <1>5, <1>7, <2>1, TryLockCore
    <2>3. PICK v \in Context : th' = [th EXCEPT ![p] = v] /\ (v.pc = "held" \/ v = r)
      BY <2>2
    <2>4. v.pc # "parked" /\ v.pc \notin Receiving
      BY <2>1, <2>3 DEF Receiving
    <2>5. ParkInv'
      BY <1>1, <1>3, <1>7, <2>3, <2>4, QuietParking
    <2>6. RestOK'
      BY <1>1, <1>4, <1>7 DEF RestOK
    <2> QED
      BY <2>2, <2>5, <2>6, PartsNext
  <1>8. CASE /\ t \in DOMAIN conns /\ ~Lockable(conns[t], Loc("Recv", 0))
             /\ TryLock(p, t, "Recv", 0, k.next, [k EXCEPT !.pc = "parked"])
             /\ unparkers' = With(unparkers, t, p)
    <2> DEFINE v == [k EXCEPT !.pc = "parked"]
    <2>1. v \in Context /\ v.pc = "parked" /\ v.token = t /\ v.scid \in Scid
      BY <1>2, <1>3 DEF Context, Pc
    <2> HIDE DEF v
    <2>2. ~Guarding(v)
      BY <2>1, NotGuarding
    <2>3. TryLock(p, t, "Recv", 0, k.next, v)
      BY <1>8 DEF v
    <2>4. Core' /\ th' = [th EXCEPT ![p] = v]
      BY <1>1, <1>2, <1>3, <1>4, <1>5, <1>8, <2>1, <2>2, <2>3, TryLockCore
    <2>5. conns[t].locker # None
      BY <1>1, <1>8, LockableFree
    <2>6. ParkInv'
      BY <1>1, <1>3, <1>8, <2>1, <2>4, <2>5, ParkingStep
    <2>7. RestOK'
      BY <1>1, <1>2, <1>4, <1>8 DEF RestOK, With
    <2> QED
      BY <2>4, <2>6, <2>7, PartsNext
  <1> QED
    BY <1>6, <1>7, <1>8 DEF RecvLock

(* recv_with_acceptor asks the acceptor. *)
LEMMA AcceptStep ==
    ASSUME IInv, NEW p \in Thread, Accept(p)
    PROVE  IInv'
  <1> DEFINE k == [Idle EXCEPT !.pc = "lookup", !.scid = th[p].scid, !.next = "fresh"]
  <1>1. Core /\ RestOK /\ ParkInv
    BY Parts
  <1>2. th[p] \in Context /\ th[p].pc = "accept" /\ ~Guarding(th[p]) /\ p \in Receiver /\ th[p].scid \in Scid
    BY <1>1 DEF Core, Accept, Guarding, ParkInv, Receiving
  <1>3. CASE Register(p, th[p].scid, TRUE, k)
    <2>1. k \in Context /\ k.pc = "lookup" /\ k.scid \in Scid
      BY <1>2, IdleMoves DEF Context, Pc, Next_
    <2> HIDE DEF k
    <2>2. ~Guarding(k) /\ k.pc # "parked"
      BY <2>1, NotGuarding
    <2> QED
      BY <1>2, <1>3, <2>1, <2>2, RegisterStep
  <1>4. CASE /\ th' = [th EXCEPT ![p] = Idle]
             /\ UNCHANGED <<token_next, conns, rd, unparkers, scids, handed, dangling>>
    <2>1. Core' /\ ParkInv'
      BY <1>2, <1>4, IdleMoves, MoveOn
    <2>2. RestOK'
      BY <1>1, <1>4 DEF RestOK
    <2> QED
      BY <2>1, <2>2, PartsNext
  <1> QED
    BY <1>3, <1>4 DEF Accept

(* recv_with_acceptor sends after it received. *)
LEMMA ReplyStep ==
    ASSUME IInv, NEW p \in Thread, Reply(p)
    PROVE  IInv'
  <1> DEFINE t == th[p].token
  <1>1. Core /\ RestOK /\ ParkInv /\ th \in [Thread -> Context]
    BY Parts DEF Core
  <1>2. ~Guarding(th[p]) /\ UNCHANGED <<token_next, rd, unparkers, scids, dangling>> /\ handed' = handed \ {t}
    BY DEF Reply, Guarding
  <1>3. RestOK'
    BY <1>1, <1>2 DEF RestOK
  <1>4. CASE t \in DOMAIN conns /\ TryLock(p, t, "Send", 0, "return", Idle)
    <2>1. "return" \in Next_ /\ "Send" \in GuardedOp /\ 0 \in StreamId \cup {0}
      BY DEF Next_, GuardedOp
    <2>2. Core' /\ \E v \in Context : th' = [th EXCEPT ![p] = v] /\ (v.pc = "held" \/ v = Idle)
      BY <1>1, <1>2, <1>4, <2>1, IdleMoves, TryLockCore
    <2>3. PICK v \in Context : th' = [th EXCEPT ![p] = v] /\ (v.pc = "held" \/ v = Idle)
      BY <2>2
    <2>4. v.pc # "parked" /\ v.pc \notin Receiving
      BY <2>3, IdleMoves DEF Receiving
    <2>5. ParkInv'
      BY <1>1, <1>2, <2>3, <2>4, QuietParking
    <2> QED
      BY <1>3, <2>2, <2>5, PartsNext
  <1>5. CASE t \notin DOMAIN conns /\ th' = [th EXCEPT ![p] = Idle] /\ UNCHANGED conns
    <2>1. Core' /\ ParkInv'
      BY <1>2, <1>5, IdleMoves, MoveOn
    <2> QED
      BY <1>3, <2>1, PartsNext
  <1> QED
    BY <1>4, <1>5 DEF Reply

(* The quiche call under a guard: the connection stays locked. *)
LEMMA PerformStep ==
    ASSUME IInv, NEW p \in Thread, Perform(p)
    PROVE  IInv'
  <1> DEFINE k == th[p]
             t == k.token
  <1>1. Core /\ RestOK /\ ParkInv /\ th \in [Thread -> Context]
    BY Parts DEF Core
  <1>2. /\ k \in Context /\ k.pc = "held" /\ Guarding(k)
        /\ UNCHANGED <<token_next, rd, unparkers, scids, handed, dangling>>
    BY <1>1 DEF Perform, Guarding
  <1>3. RestOK'
    BY <1>1, <1>2 DEF RestOK
  <1>4. ASSUME NEW v \in Context, th' = [th EXCEPT ![p] = v], v.pc = "done", v.op = k.op, v.id = k.id,
               v.token = t, v.lock_count = k.lock_count,
               DOMAIN conns' = DOMAIN conns, \A u \in DOMAIN conns' : Kept(u)
        PROVE  IInv'
    <2>1. Guarding(v) /\ v.pc # "parked" /\ v.pc \notin Receiving
      BY <1>4 DEF Guarding, Receiving
    <2>2. DOMAIN conns' \subseteq Token
      BY <1>1, <1>4 DEF Core
    <2>3. Core'
      BY <1>1, <1>2, <1>4, <2>1, <2>2, QuietGuards
    <2>4. ParkInv'
      BY <1>1, <1>2, <1>4, <2>1, QuietParking
    <2> QED
      BY <1>3, <2>3, <2>4, PartsNext
  <1>5. CASE /\ t \in DOMAIN conns
             /\ \E r \in Results(k.op, conns[t].q) :
                   /\ conns' = [conns EXCEPT ![t].q = r.q]
                   /\ th' = [th EXCEPT ![p] = [k EXCEPT !.pc = "done", !.send_done = r.send_done,
                                                        !.next = IF r.ok THEN k.next ELSE "return"]]
    <2>1. PICK r \in Results(k.op, conns[t].q) :
             /\ conns' = [conns EXCEPT ![t].q = r.q]
             /\ th' = [th EXCEPT ![p] = [k EXCEPT !.pc = "done", !.send_done = r.send_done,
                                                  !.next = IF r.ok THEN k.next ELSE "return"]]
      BY <1>5
    <2>2. k.op \in GuardedOp /\ conns[t] \in Conn /\ conns[t].q \in Quiche
      BY <1>1, <1>2, <1>5 DEF Core, GuardInv, Conn
    <2>3. r.q \in Quiche /\ r.send_done \in BOOLEAN
      BY <2>2, ResultsType
    <2> DEFINE v == [k EXCEPT !.pc = "done", !.send_done = r.send_done,
                              !.next = IF r.ok THEN k.next ELSE "return"]
               c == [conns[t] EXCEPT !.q = r.q]
    <2>4. /\ v \in Context /\ v.pc = "done" /\ v.op = k.op /\ v.id = k.id
          /\ v.token = t /\ v.lock_count = k.lock_count
      <3>1. (IF r.ok THEN k.next ELSE "return") \in Next_
        BY <1>2 DEF Context, Next_
      <3> QED
        BY <1>2, <2>3, <3>1 DEF Context, Pc
    <2>5. c \in Conn /\ c.locker = conns[t].locker /\ c.lock_count = conns[t].lock_count
      BY <2>2, <2>3 DEF Conn
    <2>6. Sound' => Settled(c)
      <3>1. Sound' => Sound
        BY <1>2 DEF Sound
      <3>2. LockOf(k.op, k.id) # None
        BY <1>2, <2>2, LockOfType DEF Context
      <3>3. Sound => conns[t].locker = LockOf(k.op, k.id)
        BY <1>1, <1>2 DEF Core, GuardInv, Matches
      <3> QED
        BY <2>5, <3>1, <3>2, <3>3 DEF Settled
    <2>7. /\ DOMAIN conns' = DOMAIN conns /\ conns'[t] = c
          /\ \A u \in DOMAIN conns : u # t => conns'[u] = conns[u]
      BY <1>5, <2>1
    <2> HIDE DEF c
    <2>8. Kept(t)
      BY <1>5, <2>5, <2>6, <2>7 DEF Kept
    <2>9. \A u \in DOMAIN conns' : Kept(u)
      BY <1>1, <1>2, <2>7, <2>8, KeptConn
    <2>10. th' = [th EXCEPT ![p] = v]
      BY <2>1
    <2> HIDE DEF v
    <2> QED
      BY <1>4, <2>4, <2>7, <2>9, <2>10
  <1>6. CASE /\ th' = [th EXCEPT ![p] = [k EXCEPT !.pc = "done", !.next = "return"]]
             /\ UNCHANGED conns
    <2> DEFINE v == [k EXCEPT !.pc = "done", !.next = "return"]
    <2>1. /\ v \in Context /\ v.pc = "done" /\ v.op = k.op /\ v.id = k.id
          /\ v.token = t /\ v.lock_count = k.lock_count
      BY <1>2 DEF Context, Pc, Next_
    <2>2. \A u \in DOMAIN conns' : Kept(u)
      BY <1>1, <1>2, <1>6, KeptConn
    <2>3. th' = [th EXCEPT ![p] = v]
      BY <1>6
    <2> HIDE DEF v
    <2> QED
      BY <1>4, <1>6, <2>1, <2>2, <2>3
  <1> QED
    BY <1>5, <1>6 DEF Perform

(* A guard is dropped: who was parked on its connection is woken, every    *)
(* other guard is untouched.                                               *)
LEMMA DropThreads ==
    ASSUME th \in [Thread -> Context], NEW p \in Thread, NEW t, NEW v \in Context,
           th' = [Unpark(t) EXCEPT ![p] = v]
    PROVE  /\ th' \in [Thread -> Context] /\ th'[p] = v
           /\ \A q \in Thread : q # p =>
                 /\ Guarding(th'[q]) <=> Guarding(th[q])
                 /\ Guarding(th[q]) => th'[q] = th[q]
                 /\ th'[q].pc \in Receiving => th[q].pc \in Receiving /\ th'[q].scid = th[q].scid
                 /\ th'[q].pc = "parked" =>
                       th'[q] = th[q] /\ ~(t \in DOMAIN unparkers /\ unparkers[t] = q)
  <1> DEFINE woken(q) == t \in DOMAIN unparkers /\ unparkers[t] = q /\ th[q].pc = "parked"
             w(q) == [th[q] EXCEPT !.pc = "lookup"]
  <1>1. ASSUME NEW q \in Thread
        PROVE  w(q) \in Context /\ w(q).pc = "lookup" /\ w(q).scid = th[q].scid
    BY DEF Context, Pc
  <1> HIDE DEF w
  <1>2. Unpark(t) = [q \in Thread |-> IF woken(q) THEN w(q) ELSE th[q]]
    BY DEF Unpark, w
  <1>3. Unpark(t) \in [Thread -> Context]
    BY <1>1, <1>2
  <1>4. th' \in [Thread -> Context] /\ th'[p] = v
    BY <1>3
  <1>5. \A q \in Thread : q # p => th'[q] = IF woken(q) THEN w(q) ELSE th[q]
    BY <1>2
  <1>6. ASSUME NEW q \in Thread, q # p
        PROVE  /\ Guarding(th'[q]) <=> Guarding(th[q])
               /\ Guarding(th[q]) => th'[q] = th[q]
               /\ th'[q].pc \in Receiving => th[q].pc \in Receiving /\ th'[q].scid = th[q].scid
               /\ th'[q].pc = "parked" =>
                     th'[q] = th[q] /\ ~(t \in DOMAIN unparkers /\ unparkers[t] = q)
    <2>1. CASE woken(q)
      BY <1>1, <1>5, <1>6, <2>1 DEF Guarding, Receiving
    <2>2. CASE ~woken(q)
      BY <1>5, <1>6, <2>2
    <2> QED
      BY <2>1, <2>2
  <1> QED
    BY <1>4, <1>6

(* No receiver is left parked on a connection whose guard is dropped. *)
LEMMA DropParking ==
    ASSUME th \in [Thread -> Context], ParkInv, NEW p \in Thread, NEW v \in Context,
           v.pc # "parked", v.pc \notin Receiving, NEW t, t = th[p].token,
           th' = [Unpark(t) EXCEPT ![p] = v], unparkers' = Without(unparkers, t)
    PROVE  ParkInv'
  <1>1. \A q \in Thread : th'[q].pc \in Receiving => q \in Receiver /\ th'[q].scid \in Scid
    BY DropThreads DEF ParkInv
  <1>2. ASSUME OneReceiver, NEW q \in Thread, th'[q].pc = "parked"
        PROVE  /\ th'[q].token \in DOMAIN unparkers' /\ unparkers'[th'[q].token] = q
               /\ Holders(th[q].token)' # {}
    <2> DEFINE u == th[q].token
    <2>1. q # p /\ th'[q] = th[q] /\ ~(t \in DOMAIN unparkers /\ unparkers[t] = q)
      BY <1>2, DropThreads
    <2>2. u \in DOMAIN unparkers /\ unparkers[u] = q /\ Holders(u) # {}
      BY <1>2, <2>1 DEF ParkInv, ParkedIsOwed
    <2>3. u # t
      BY <2>1, <2>2
    <2>4. u \in DOMAIN unparkers' /\ unparkers'[u] = q
      BY <2>2, <2>3 DEF Without
    <2>5. PICK r \in Thread : Guarding(th[r]) /\ th[r].token = u
      BY <2>2 DEF Holders
    <2>6. r # p
      BY <2>3, <2>5
    <2>7. Guarding(th'[r]) /\ th'[r].token = u
      BY <2>5, <2>6, DropThreads
    <2> QED
      BY <2>1, <2>4, <2>7 DEF Holders
  <1> QED
    BY <1>1, <1>2 DEF ParkInv, ParkedIsOwed

(* Group::unlock.  A sound guard finds its connection locked with its own  *)
(* count; a guard that does not changes nothing and stops its thread.      *)
LEMMA GuardDropStep ==
    ASSUME IInv, NEW p \in Thread, GuardDrop(p)
    PROVE  IInv'
  <1> DEFINE k == th[p]
             t == k.token
             sane == t \in DOMAIN conns /\ conns[t].locker # None /\ conns[t].lock_count = k.lock_count
  <1>1. Core /\ RestOK /\ ParkInv /\ th \in [Thread -> Context]
    BY Parts DEF Core
  <1>2. /\ k \in Context /\ Guarding(k) /\ unparkers' = Without(unparkers, t)
        /\ UNCHANGED <<token_next, scids, handed, dangling>>
    BY <1>1 DEF GuardDrop, Guarding
  <1>3. Sound' <=> Sound
    BY <1>2 DEF Sound
  <1>4. DOMAIN unparkers' \subseteq Token /\ \A u \in DOMAIN unparkers' : unparkers'[u] \in Thread
    BY <1>1, <1>2 DEF RestOK, Without
  <1>5. ASSUME NEW v \in Context, v.pc \in {"idle", "reply", "reap", "panic"}, th' = [Unpark(t) EXCEPT ![p] = v]
        PROVE  /\ ParkInv' /\ th' \in [Thread -> Context] /\ ~Guarding(th'[p])
               /\ \A q \in Thread : q # p => /\ Guarding(th'[q]) <=> Guarding(th[q])
                                             /\ Guarding(th[q]) => th'[q] = th[q]
    <2>1. v.pc # "parked" /\ v.pc \notin Receiving /\ ~Guarding(v)
      BY <1>5 DEF Receiving, Guarding
    <2>2. ParkInv'
      BY <1>1, <1>2, <1>5, <2>1, DropParking
    <2> QED
      BY <1>1, <1>5, <2>1, <2>2, DropThreads
  <1>6. CASE sane /\ \E x \in Choice(conns[t]) :
                LET s == unlock([c |-> conns[t], rd |-> rd], x, k.send_done)
                IN  /\ conns' = [conns EXCEPT ![t] = s.c] /\ rd' = s.rd
                    /\ th' = [Unpark(t) EXCEPT ![p] =
                                 IF s.c.q.closed
                                 THEN [Idle EXCEPT !.pc = "reap", !.token = t, !.next = k.next]
                                 ELSE Returned(k)]
    <2>1. PICK x \in Choice(conns[t]) :
             LET s == unlock([c |-> conns[t], rd |-> rd], x, k.send_done)
             IN  /\ conns' = [conns EXCEPT ![t] = s.c] /\ rd' = s.rd
                 /\ th' = [Unpark(t) EXCEPT ![p] =
                              IF s.c.q.closed
                              THEN [Idle EXCEPT !.pc = "reap", !.token = t, !.next = k.next]
                              ELSE Returned(k)]
      BY <1>6
    <2> DEFINE s == unlock([c |-> conns[t], rd |-> rd], x, k.send_done)
               reap == [Idle EXCEPT !.pc = "reap", !.token = t, !.next = k.next]
               v == IF s.c.q.closed THEN reap ELSE Returned(k)
    <2>2. conns[t] \in Conn /\ conns[t].locker # ReadLock /\ k.send_done \in BOOLEAN
      BY <1>1, <1>2, <1>6 DEF Core, NoReader, Context
    <2>3. s.c \in Conn /\ s.rd \in Readiness /\ s.c.locker = None /\ Settled(s.c)
      BY <1>1, <2>2, UnlockSettled DEF RestOK
    <2>4. reap \in Context /\ reap.pc = "reap"
      BY <1>2, IdleMoves DEF Context, Pc
    <2>5. v \in Context /\ v.pc \in {"idle", "reply", "reap", "panic"}
      BY <1>2, <2>4, ContextType
    <2>6. conns' = [conns EXCEPT ![t] = s.c] /\ rd' = s.rd /\ th' = [Unpark(t) EXCEPT ![p] = v]
      BY <2>1
    <2> HIDE DEF s, v, reap
    <2>7. /\ ParkInv' /\ th' \in [Thread -> Context] /\ ~Guarding(th'[p])
          /\ \A q \in Thread : q # p => /\ Guarding(th'[q]) <=> Guarding(th[q])
                                        /\ Guarding(th[q]) => th'[q] = th[q]
      BY <1>5, <2>5, <2>6
    <2>8. /\ DOMAIN conns' = DOMAIN conns /\ conns'[t] = s.c
          /\ \A u \in DOMAIN conns : u # t => conns'[u] = conns[u]
      BY <1>6, <2>6
    <2>9. /\ DOMAIN conns' \subseteq Token
          /\ \A u \in DOMAIN conns' : conns'[u] \in Conn /\ conns'[u].locker # ReadLock
      <3>1. None # ReadLock
        BY DEF None, ReadLock, Loc
      <3> QED
        BY <1>1, <2>3, <2>8, <3>1 DEF Core, NoReader
    <2>10. RetryInv'
      BY <1>1, <1>3, <2>3, <2>8 DEF Core, RetryInv, Settled
    <2>11. GuardInv'
      <3>1. \A q \in Thread : Guarding(th'[q]) => th'[q].op \in GuardedOp
        BY <1>1, <2>7 DEF Core, GuardInv
      <3>2. ASSUME NEW u \in DOMAIN conns', conns'[u].locker # None
            PROVE  Held(u)'
        <4>1. u # t /\ conns'[u] = conns[u]
          BY <2>3, <2>8, <3>2
        <4>2. PICK q \in Thread : Guarding(th[q]) /\ th[q].token = u /\ th[q].lock_count = conns[u].lock_count
          BY <1>1, <2>8, <3>2, <4>1 DEF Core, GuardInv, Held
        <4> QED
          BY <2>7, <4>1, <4>2 DEF Held
      <3>3. ASSUME Sound', NEW q \in Thread, Guarding(th'[q])
            PROVE  Matches(th[q])'
        <4>1. q # p /\ th'[q] = th[q] /\ Guarding(th[q])
          BY <2>7, <3>3
        <4>2. Matches(th[q]) /\ th[q].token # t
          BY <1>1, <1>2, <1>3, <3>3, <4>1 DEF Core, GuardInv
        <4> QED
          BY <2>8, <4>1, <4>2 DEF Matches
      <3>4. Sound' => \A q, r \in Thread :
                         Guarding(th'[q]) /\ Guarding(th'[r]) /\ th'[q].token = th'[r].token => q = r
        BY <1>1, <1>3, <2>7 DEF Core, GuardInv
      <3> QED
        BY <3>1, <3>2, <3>3, <3>4 DEF GuardInv
    <2>12. Core'
      BY <2>7, <2>9, <2>10, <2>11 DEF Core, NoReader
    <2>13. RestOK'
      BY <1>1, <1>2, <1>4, <2>3, <2>6 DEF RestOK
    <2> QED
      BY <2>7, <2>12, <2>13, PartsNext
  <1>7. CASE ~sane /\ th' = [Unpark(t) EXCEPT ![p] = Panic] /\ UNCHANGED <<conns, rd>>
    <2>1. Panic \in Context /\ Panic.pc = "panic"
      BY ContextType DEF Panic, Idle
    <2>2. /\ ParkInv' /\ th' \in [Thread -> Context] /\ ~Guarding(th'[p])
          /\ \A q \in Thread : q # p => /\ Guarding(th'[q]) <=> Guarding(th[q])
                                        /\ Guarding(th[q]) => th'[q] = th[q]
      BY <1>5, <1>7, <2>1
    <2>3. ~Sound
      <3>1. k.op \in GuardedOp /\ k.id \in StreamId \cup {0}
        BY <1>1, <1>2 DEF Core, GuardInv, Context
      <3>2. LockOf(k.op, k.id) # None
        BY <3>1, LockOfType
      <3> QED
        BY <1>1, <1>2, <1>7, <3>2 DEF Core, GuardInv, Matches
    <2>4. ASSUME NEW u \in DOMAIN conns', conns'[u].locker # None
          PROVE  Held(u)'
      <3>1. PICK q \in Thread : Guarding(th[q]) /\ th[q].token = u /\ th[q].lock_count = conns[u].lock_count
        BY <1>1, <1>7, <2>4 DEF Core, GuardInv, Held
      <3>2. q # p
        BY <1>7, <2>4, <3>1
      <3> QED
        BY <1>7, <2>2, <3>1, <3>2 DEF Held
    <2>5. GuardInv' /\ RetryInv'
      BY <1>1, <1>3, <2>2, <2>3, <2>4 DEF Core, GuardInv, RetryInv
    <2>6. Core'
      BY <1>1, <1>7, <2>2, <2>5 DEF Core, NoReader
    <2>7. RestOK'
      BY <1>1, <1>2, <1>4, <1>7 DEF RestOK
    <2> QED
      BY <2>2, <2>6, <2>7, PartsNext
  <1> QED
    BY <1>6, <1>7 DEF GuardDrop

-----------------------------------------------------------------------------
(* The invariant holds of a new group. *)
LEMMA InitInv == Init => IInv
  <1> SUFFICES ASSUME Init PROVE IInv
    OBVIOUS
  <1>1. th \in [Thread -> Context] /\ \A p \in Thread : ~Guarding(th[p]) /\ th[p].pc \notin Receiving /\ th[p].pc # "parked"
    BY IdleMoves DEF Init
  <1>2. DOMAIN conns = {} /\ DOMAIN unparkers = {} /\ DOMAIN scids = {} /\ rd \in Readiness /\ token_next \in Token
    BY TokenZero DEF Init, empty_readiness, Readiness
  <1>3. handed = {} /\ dangling = {}
    BY DEF Init
  <1> QED
    BY <1>1, <1>2, <1>3 DEF IInv, TypeOK, NoReader, GuardInv, RetryInv, ParkInv, ParkedIsOwed

(* The invariant is about the variables of the group. *)
LEMMA StutterInv == IInv /\ UNCHANGED vars => IInv'
  BY DEF IInv, vars, TypeOK, NoReader, GuardInv, Held, Matches, RetryInv, Settled, ParkInv, ParkedIsOwed,
         Sound, Holders

(* Every step of every thread keeps the invariant. *)
LEMMA NextInv == IInv /\ Next => IInv'
  <1> SUFFICES ASSUME IInv, NEW p \in Thread,
                      \/ Connect(p) \/ Poll(p)
                      \/ \E t \in Token : Deregister(p, t) \/ Close(p, t)
                      \/ \E t \in Token, id \in StreamId : StreamShutdown(p, t, id)
                      \/ \E t \in Token, kind \in {"StreamOpenBidi", "StreamOpenUni"} : StreamOpen(p, t, kind)
                      \/ \E t \in Token : CallGuarded(p, t, "Send", 0)
                      \/ \E t \in Token, id \in StreamId, op \in {"StreamSend", "StreamRecv"} :
                            CallGuarded(p, t, op, id)
                      \/ \E s \in Scid : Recv(p, s)
                      \/ LookupAgain(p) \/ RecvLock(p) \/ Accept(p) \/ Reply(p)
                      \/ Perform(p) \/ GuardDrop(p) \/ Reap(p) \/ RemoveScid(p)
               PROVE  IInv'
    BY DEF Next
  <1>1. CASE Connect(p)
    <2>1. ~Guarding(th[p]) /\ \E s \in Scid : Register(p, s, FALSE, Idle)
      BY <1>1 DEF Connect, Starts, Guarding
    <2> QED
      BY <2>1, IdleMoves, RegisterStep
  <1>2. CASE Poll(p)
    BY <1>2, PollStep
  <1>3. ASSUME NEW t \in Token, Deregister(p, t)
        PROVE  IInv'
    <2>1. ~Guarding(th[p]) /\ RemoveConn(p, t, "return") /\ "return" \in Next_
      BY <1>3 DEF Deregister, Starts, Guarding, Next_
    <2> QED
      BY <2>1, RemoveConnStep
  <1>4. ASSUME NEW t \in Token, Close(p, t)
        PROVE  IInv'
    BY <1>4, CallLockedStep DEF Close, LockedOp
  <1>5. ASSUME NEW t \in Token, NEW id \in StreamId, StreamShutdown(p, t, id)
        PROVE  IInv'
    BY <1>5, CallLockedStep DEF StreamShutdown, LockedOp
  <1>6. ASSUME NEW t \in Token, NEW kind \in {"StreamOpenBidi", "StreamOpenUni"}, StreamOpen(p, t, kind)
        PROVE  IInv'
    BY <1>6, CallLockedStep DEF StreamOpen, LockedOp
  <1>7. ASSUME NEW t \in Token, CallGuarded(p, t, "Send", 0)
        PROVE  IInv'
    BY <1>7, CallGuardedStep DEF GuardedOp
  <1>8. ASSUME NEW t \in Token, NEW id \in StreamId, NEW op \in {"StreamSend", "StreamRecv"},
               CallGuarded(p, t, op, id)
        PROVE  IInv'
    BY <1>8, CallGuardedStep DEF GuardedOp
  <1>9. ASSUME NEW s \in Scid, Recv(p, s)
        PROVE  IInv'
    <2>1. /\ p \in Receiver /\ ~Guarding(th[p])
          /\ \E next \in Next_ : Lookup(p, s, next)
      BY <1>9 DEF Recv, Starts, Guarding, Next_
    <2> QED
      BY <2>1, LookupStep
  <1>10. CASE LookupAgain(p)
    <2>1. th[p].pc = "lookup" /\ Lookup(p, th[p].scid, th[p].next)
      BY <1>10 DEF LookupAgain
    <2>2. p \in Receiver /\ th[p].scid \in Scid /\ ~Guarding(th[p])
      BY <2>1 DEF IInv, ParkInv, Receiving, Guarding
    <2>3. th[p].next \in Next_
      BY DEF IInv, TypeOK, Context
    <2> QED
      BY <2>1, <2>2, <2>3, LookupStep
  <1> QED
    BY <1>1, <1>2, <1>3, <1>4, <1>5, <1>6, <1>7, <1>8, <1>9, <1>10,
       RecvLockStep, AcceptStep, ReplyStep, PerformStep, GuardDropStep, ReapStep, RemoveScidStep

(* The inductive invariant holds in every behaviour of the group. *)
THEOREM Invariance == Spec => []IInv
  BY InitInv, StutterInv, NextInv, PTL DEF Spec

(* Types: in particular the count of readers never drops below zero and    *)
(* every call that is replayed is one that can be refused.                 *)
THEOREM TypeCorrect == Spec => []TypeOK
  <1>1. IInv => TypeOK
    BY DEF IInv
  <1> QED
    BY <1>1, Invariance, PTL

(* As long as no guard has been left dangling the try-lock is exclusive,   *)
(* so that the assertions of unlock (conn.rs) hold, for every number of    *)
(* threads and connections and wherever token_next and lock_count wrap.    *)
THEOREM Exclusion == Spec => []GuardExclusive
  <1>1. IInv => GuardExclusive
    BY DEF IInv, GuardInv, Held, Matches, GuardExclusive, Holders
  <1> QED
    BY <1>1, Invariance, PTL

(* As long as no guard has been left dangling, no operation refused with   *)
(* Busy stays behind on an unlocked connection (handle_retry_events).      *)
THEOREM Replayed == Spec => [](Sound => NoStrandedRetry)
  <1>1. IInv => (Sound => NoStrandedRetry)
    BY DEF IInv, RetryInv, Settled, NoStrandedRetry
  <1> QED
    BY <1>1, Invariance, PTL

(* With one receiving thread a parked receiver is always owed a wake-up    *)
(* (recv_with_connection_id and Group::unlock), dangling guards or not.    *)
THEOREM Owed == ASSUME OneReceiver PROVE Spec => []ParkedIsOwed
  <1>1. IInv => ParkedIsOwed
    BY OneReceiver DEF IInv, ParkInv
  <1> QED
    BY <1>1, Invariance, PTL
=============================================================================
