--------------------------- MODULE MioGroupProofs ---------------------------
(***************************************************************************)
(* The group that owns sockets, for any number of connections and          *)
(* application threads, any clock and any limit of the sending queue: its  *)
(* types, the order of the packets sent, the edges still to be reported,   *)
(* and the wake-ups owed to a sleeping poll.                               *)
(***************************************************************************)
EXTENDS MioGroup, SequenceTheorems, WellFoundedInduction, TLAPS

-----------------------------------------------------------------------------
(* The socket's sending side (udp.rs). *)

Socket == [sending : Seq(Nat), wire : Seq(Nat), blocked : BOOLEAN]

(* What was accepted so far: on the wire, or queued. *)
Sent(s) == s.wire \o s.sending

(* Concatenation is associative. *)
LEMMA Regroup ==
    ASSUME NEW s \in Seq(Nat), NEW t \in Seq(Nat), NEW u \in Seq(Nat)
    PROVE  (s \o t) \o u = s \o (t \o u)
  BY ConcatAssociative, SMTT(30)

(* Packets that the kernel takes leave the queue in order. *)
LEMMA TakenKeeps ==
    ASSUME NEW s \in Socket, NEW n \in 0 .. Len(s.sending)
    PROVE  /\ Taken(s, n) \in Socket
           /\ Sent(Taken(s, n)) = Sent(s)
           /\ Len(Taken(s, n).sending) = Len(s.sending) - n
           /\ Taken(s, n).blocked = s.blocked
  <1> DEFINE q == s.sending
             front == SubSeq(q, 1, n)
             back == SubSeq(q, n + 1, Len(q))
  <1>1. q \in Seq(Nat) /\ s.wire \in Seq(Nat) /\ s.blocked \in BOOLEAN
    BY DEF Socket
  <1>2. Len(q) \in Nat /\ \A i \in 1 .. Len(q) : q[i] \in Nat
    BY <1>1
  <1>3. front \in Seq(Nat)
    <2>1. 1 \in Int /\ n \in Int /\ \A i \in 1 .. n : q[i] \in Nat
      BY <1>2
    <2> QED
      BY <2>1, SubSeqProperties
  <1>4. back \in Seq(Nat) /\ Len(back) = Len(q) - n
    <2>1. n + 1 \in Int /\ Len(q) \in Int /\ \A i \in n + 1 .. Len(q) : q[i] \in Nat
      BY <1>2
    <2>2. back \in Seq(Nat) /\ Len(back) = IF n + 1 <= Len(q) THEN Len(q) - (n + 1) + 1 ELSE 0
      BY <2>1, SubSeqProperties
    <2> HIDE DEF back
    <2> QED
      BY <2>2, <1>2
  <1>5. front \o back = q
    <2>1. 1 \in 1 .. Len(q) + 1 /\ n \in 1 - 1 .. Len(q) /\ Len(q) \in n .. Len(q)
      BY <1>2
    <2>2. front \o back = SubSeq(q, 1, Len(q))
      BY <2>1, <1>1, ConcatAdjacentSubSeq
    <2> QED
      BY <2>2, <1>1, SubSeqFull
  <1> HIDE DEF front, back
  <1> DEFINE w == s.wire
  <1> HIDE DEF q, w
  <1>6. w \in Seq(Nat) /\ w \o front \in Seq(Nat) /\ (w \o front) \o back = w \o (front \o back)
    <2>1. w \in Seq(Nat)
      BY <1>1 DEF w
    <2>2. w \o front \in Seq(Nat)
      BY <2>1, <1>3, ConcatProperties
    <2>3. back \in Seq(Nat)
      BY <1>4
    <2>4. (w \o front) \o back = w \o (front \o back)
      BY <2>1, <2>3, <1>3, Regroup
    <2> QED
      BY <2>1, <2>2, <2>4
  <1>7. /\ Taken(s, n).sending = back /\ Taken(s, n).wire = w \o front
        /\ Taken(s, n).blocked = s.blocked
    BY DEF Taken, Socket, front, back, q, w
  <1>8. Taken(s, n) \in Socket
    <2>1. Taken(s, n) = [s EXCEPT !.wire = w \o front, !.sending = back]
      BY DEF Taken, front, back, q, w
    <2>2. [s EXCEPT !.wire = w \o front, !.sending = back] \in Socket
      BY <1>4, <1>6 DEF Socket
    <2> QED
      BY <2>1, <2>2
  <1>9. Sent(Taken(s, n)) = w \o q
    BY <1>5, <1>6, <1>7 DEF Sent
  <1> QED
    BY <1>4, <1>7, <1>8, <1>9 DEF Sent, q, w

(* flush keeps the order and the packets; it ends with an empty queue, or  *)
(* a kernel that blocks, or an error.                                      *)
LEMMA FlushKeeps ==
    ASSUME NEW s \in Socket, NEW r \in flush(s)
    PROVE  /\ r.s \in Socket
           /\ Sent(r.s) = Sent(s)
           /\ Len(r.s.sending) <= Len(s.sending)
           /\ r.res \in {"Ok", "WouldBlock", "IO"}
           /\ r.res = "Ok" => r.s.sending = <<>>
           /\ r.res = "WouldBlock" => r.s.blocked
  <1> DEFINE len == Len(s.sending)
             some == IF s.blocked THEN {0} ELSE 0 .. len - 1
  <1>1. s.sending \in Seq(Nat) /\ len \in Nat
    BY DEF Socket
  <1>2. CASE s.sending = <<>>
    <2>1. r = Answer(s, "Ok")
      BY <1>2 DEF flush
    <2> QED
      BY <2>1, <1>1, <1>2 DEF Answer
  <1>3. CASE s.sending # <<>>
    <2>1. len > 0 /\ some \subseteq 0 .. len
      BY <1>1, <1>3, EmptySeq
    <2>2. \/ r = Answer(Taken(s, len), "Ok")
          \/ \E n \in some : r = Answer([Taken(s, n) EXCEPT !.blocked = TRUE], "WouldBlock")
          \/ \E n \in some : r = Answer(Taken(s, n), "IO")
      BY <1>3 DEF flush
    <2>3. CASE r = Answer(Taken(s, len), "Ok")
      <3>1. len \in 0 .. len
        BY <1>1
      <3>2. /\ Taken(s, len) \in Socket
            /\ Sent(Taken(s, len)) = Sent(s)
            /\ Len(Taken(s, len).sending) = len - len
        BY <3>1, TakenKeeps
      <3>3. Taken(s, len).sending \in Seq(Nat) /\ Len(Taken(s, len).sending) = 0
        BY <3>2, <1>1 DEF Socket
      <3>4. Taken(s, len).sending = <<>>
        BY <3>3, EmptySeq
      <3>5. r.s = Taken(s, len) /\ r.res = "Ok"
        BY <2>3 DEF Answer
      <3> QED
        BY <3>2, <3>3, <3>4, <3>5, <1>1
    <2>4. ASSUME NEW n \in some, r = Answer([Taken(s, n) EXCEPT !.blocked = TRUE], "WouldBlock")
          PROVE  /\ r.s \in Socket /\ Sent(r.s) = Sent(s) /\ Len(r.s.sending) <= len
                 /\ r.res = "WouldBlock" /\ r.s.blocked
      <3>1. n \in 0 .. len
        BY <2>1
      <3>2. /\ Taken(s, n) \in Socket
            /\ Sent(Taken(s, n)) = Sent(s)
            /\ Len(Taken(s, n).sending) = len - n
        BY <3>1, TakenKeeps
      <3>3. /\ r.s = [Taken(s, n) EXCEPT !.blocked = TRUE] /\ r.res = "WouldBlock"
            /\ r.s.wire = Taken(s, n).wire /\ r.s.sending = Taken(s, n).sending /\ r.s.blocked
        BY <2>4, <3>2 DEF Answer, Socket
      <3>4. r.s \in Socket
        BY <3>2, <3>3 DEF Socket
      <3>5. Sent(r.s) = Sent(s)
        BY <3>2, <3>3 DEF Sent
      <3>6. Len(r.s.sending) <= len
        BY <3>1, <3>2, <3>3, <1>1
      <3> QED
        BY <3>3, <3>4, <3>5, <3>6
    <2>5. ASSUME NEW n \in some, r = Answer(Taken(s, n), "IO")
          PROVE  r.s \in Socket /\ Sent(r.s) = Sent(s) /\ Len(r.s.sending) <= len /\ r.res = "IO"
      <3>1. n \in 0 .. len
        BY <2>1
      <3>2. /\ Taken(s, n) \in Socket
            /\ Sent(Taken(s, n)) = Sent(s)
            /\ Len(Taken(s, n).sending) = len - n
        BY <3>1, TakenKeeps
      <3>3. r.s = Taken(s, n) /\ r.res = "IO"
        BY <2>5 DEF Answer
      <3> QED
        BY <3>1, <3>2, <3>3, <1>1
    <2> QED
      BY <2>2, <2>3, <2>4, <2>5
  <1> QED
    BY <1>2, <1>3

(* Appending to the queue appends to what was accepted. *)
LEMMA AppendConcat ==
    ASSUME NEW s \in Seq(Nat), NEW t \in Seq(Nat), NEW e \in Nat
    PROVE  s \o Append(t, e) = Append(s \o t, e)
  <1>1. /\ <<e>> \in Seq(Nat) /\ Append(t, e) = t \o <<e>>
        /\ s \o t \in Seq(Nat) /\ Append(s \o t, e) = (s \o t) \o <<e>>
    BY AppendIsConcat, ConcatProperties
  <1> QED
    BY <1>1, Regroup

(* send_to appends the packet, or refuses it; unless the kernel fails the  *)
(* queue is then empty or the kernel blocks, and never over its limit.     *)
LEMMA SendToKeeps ==
    ASSUME NEW s \in Socket, Len(s.sending) <= Limit, NEW packet \in Nat, NEW r \in send_to(s, packet)
    PROVE  /\ r.s \in Socket
           /\ Sent(r.s) = IF r.took THEN Append(Sent(s), packet) ELSE Sent(s)
           /\ Len(r.s.sending) <= Limit
           /\ r.res # "IO" => r.s.sending = <<>> \/ r.s.blocked
  <1> DEFINE first == IF is_full(s) THEN flush(s) ELSE {Answer(s, "Ok")}
             failed == {f \in first : f.res = "IO"}
             full == {f \in first \ failed : is_full(f.s)}
             push(f) == [f.s EXCEPT !.sending = Append(@, packet)]
  <1>1. ASSUME NEW f \in first
        PROVE  /\ f.s \in Socket /\ Sent(f.s) = Sent(s) /\ Len(f.s.sending) <= Limit
               /\ f \in full => f.s.blocked
    <2>1. CASE is_full(s)
      <3>1. f \in flush(s)
        BY <2>1
      <3>2. /\ f.s \in Socket /\ Sent(f.s) = Sent(s) /\ Len(f.s.sending) <= Len(s.sending)
            /\ f.res \in {"Ok", "WouldBlock", "IO"}
            /\ f.res = "Ok" => f.s.sending = <<>>
            /\ f.res = "WouldBlock" => f.s.blocked
        BY <3>1, FlushKeeps
      <3>3. Len(f.s.sending) \in Nat /\ Len(s.sending) \in Nat
        BY <3>2 DEF Socket
      <3>4. ASSUME f \in full
            PROVE  f.s.blocked
        <4>1. f.res # "IO" /\ Len(f.s.sending) = Limit
          BY <3>4 DEF is_full
        <4>2. f.s.sending # <<>>
          BY <4>1, LimitAssumption
        <4> QED
          BY <4>1, <4>2, <3>2
      <3> QED
        BY <3>2, <3>3, <3>4, LimitAssumption
    <2>2. CASE ~is_full(s)
      <3>1. f = Answer(s, "Ok")
        BY <2>2
      <3>2. f.s = s
        BY <3>1 DEF Answer
      <3>3. f \notin full
        BY <3>2, <2>2
      <3> QED
        BY <3>2, <3>3
    <2> QED
      BY <2>1, <2>2
  <1>2. \/ \E f \in failed : r = [s |-> f.s, res |-> "IO", took |-> FALSE]
        \/ \E f \in full : r = [s |-> f.s, res |-> "IsFull", took |-> FALSE]
        \/ \E f \in first \ (failed \cup full) : \E g \in flush(push(f)) :
              r = [s |-> g.s, res |-> g.res, took |-> TRUE]
    <2>1. \/ r \in {[s |-> f.s, res |-> "IO", took |-> FALSE] : f \in failed}
          \/ r \in {[s |-> f.s, res |-> "IsFull", took |-> FALSE] : f \in full}
          \/ r \in {[s |-> g.s, res |-> g.res, took |-> TRUE] :
                        g \in UNION {flush(push(f)) : f \in first \ (failed \cup full)}}
      BY DEF send_to
    <2> HIDE DEF first, failed, full, push
    <2> QED
      BY <2>1
  <1>3. ASSUME NEW f \in first \ (failed \cup full), NEW g \in flush(push(f)),
               r = [s |-> g.s, res |-> g.res, took |-> TRUE]
        PROVE  /\ r.s \in Socket /\ r.took
               /\ Sent(r.s) = Append(Sent(s), packet)
               /\ Len(r.s.sending) <= Limit
               /\ r.res # "IO" => r.s.sending = <<>> \/ r.s.blocked
    <2>1. f.s \in Socket /\ Sent(f.s) = Sent(s) /\ Len(f.s.sending) <= Limit /\ ~is_full(f.s)
      BY <1>1
    <2> HIDE DEF first, failed, full
    <2>2. f.s.sending \in Seq(Nat) /\ f.s.wire \in Seq(Nat) /\ Len(f.s.sending) \in Nat
      BY <2>1 DEF Socket
    <2>3. Len(f.s.sending) + 1 <= Limit
      BY <2>1, <2>2, LimitAssumption DEF is_full
    <2>4. Append(f.s.sending, packet) \in Seq(Nat) /\ Len(Append(f.s.sending, packet)) = Len(f.s.sending) + 1
      BY <2>2, AppendProperties
    <2>5. /\ push(f) \in Socket
          /\ push(f).sending = Append(f.s.sending, packet) /\ push(f).wire = f.s.wire
      BY <2>1, <2>4 DEF Socket
    <2>6. Sent(push(f)) = Append(Sent(s), packet)
      <3>1. f.s.wire \o Append(f.s.sending, packet) = Append(f.s.wire \o f.s.sending, packet)
        BY <2>2, AppendConcat
      <3> QED
        BY <3>1, <2>1, <2>5 DEF Sent
    <2> HIDE DEF push
    <2>7. /\ g.s \in Socket /\ Sent(g.s) = Sent(push(f))
          /\ Len(g.s.sending) <= Len(push(f).sending)
          /\ g.res \in {"Ok", "WouldBlock", "IO"}
          /\ g.res = "Ok" => g.s.sending = <<>>
          /\ g.res = "WouldBlock" => g.s.blocked
      BY <2>5, FlushKeeps
    <2>8. Len(g.s.sending) \in Nat
      BY <2>7 DEF Socket
    <2>9. r.s = g.s /\ r.res = g.res /\ r.took
      BY <1>3
    <2> QED
      BY <2>2, <2>3, <2>4, <2>5, <2>6, <2>7, <2>8, <2>9, LimitAssumption, SMTT(30)
  <1>4. ASSUME NEW f \in failed, r = [s |-> f.s, res |-> "IO", took |-> FALSE]
        PROVE  /\ r.s \in Socket /\ ~r.took /\ Sent(r.s) = Sent(s)
               /\ Len(r.s.sending) <= Limit /\ r.res = "IO"
    BY <1>1, <1>4
  <1>5. ASSUME NEW f \in full, r = [s |-> f.s, res |-> "IsFull", took |-> FALSE]
        PROVE  /\ r.s \in Socket /\ ~r.took /\ Sent(r.s) = Sent(s)
               /\ Len(r.s.sending) <= Limit /\ r.s.blocked
    BY <1>1, <1>5
  <1> HIDE DEF first, failed, full, push
  <1> QED
    BY <1>2, <1>3, <1>4, <1>5

-----------------------------------------------------------------------------
(* The readiness set (readiness.rs) and the release times (utils.rs). *)

Time == Instant \cup {Never}

ReadyOK(r) ==
    /\ r.events \subseteq Event
    /\ DOMAIN r.delayed \subseteq Event \ r.events
    /\ \A e \in DOMAIN r.delayed : r.delayed[e] \in Instant

(* The order of the numbers as a set of pairs. *)
LEMMA LessThan == \A x, y \in Nat : <<y, x>> \in OpToRel(<, Nat) <=> y < x
  BY DEF OpToRel

(* A set of instants that is not empty has a least one. *)
LEMMA MinOfInstants ==
    ASSUME NEW S, S \subseteq Instant, S # {}
    PROVE  Min(S) \in S /\ \A i \in S : Min(S) <= i
  <1>1. Instant \subseteq Nat
    BY TimeAssumption DEF Instant
  <1>2. PICK x \in S : \A y \in S : ~(<<y, x>> \in OpToRel(<, Nat))
    BY <1>1, NatLessThanWellFounded, WFMin
  <1>3. S \subseteq Nat
    BY <1>1
  <1>4. \A y \in S : ~(y < x)
    BY <1>2, <1>3, LessThan
  <1>5. \A y \in S : x <= y
    BY <1>3, <1>4
  <1> QED
    BY <1>5 DEF Min

(* The earlier of two optional instants. *)
LEMMA MinOfSomeType ==
    ASSUME NEW v1 \in Time, NEW v2 \in Time
    PROVE  min_of_some(v1, v2) \in Time
  <1>1. CASE v1 # Never /\ v2 # Never
    <2>1. {v1, v2} \subseteq Instant /\ {v1, v2} # {}
      BY <1>1 DEF Time
    <2>2. Min({v1, v2}) \in {v1, v2}
      BY <2>1, MinOfInstants
    <2> QED
      BY <2>2, <1>1 DEF min_of_some
  <1>2. CASE v1 = Never \/ v2 = Never
    BY <1>2 DEF min_of_some
  <1> QED
    BY <1>1, <1>2

(* When the next packet of a connection may leave. *)
LEMMA DelaySendType ==
    ASSUME NEW timer \in Time, NEW release \in Time, NEW t, NEW done \in BOOLEAN
    PROVE  delay_send(timer, release, t, done) \in Time
  <1>1. time(release, t) \in Time /\ Never \in Time
    BY DEF time, Time
  <1> QED
    BY <1>1, MinOfSomeType DEF delay_send

(* insert puts its events in one of the two parts, at the instant given,   *)
(* and moves no other.                                                     *)
LEMMA InsertKeeps ==
    ASSUME NEW r, ReadyOK(r), NEW es \in SUBSET Event, NEW delay \in Time
    PROVE  LET q == insert(r, es, delay)
           IN  /\ ReadyOK(q)
               /\ q.events \subseteq r.events \cup es
               /\ \A e \in DOMAIN q.delayed \ es : e \in DOMAIN r.delayed /\ q.delayed[e] = r.delayed[e]
               /\ delay = Never => DOMAIN q.delayed \cap es = {}
  <1> DEFINE q == insert(r, es, delay)
  <1>1. CASE delay = Never
    <2>1. q.events = r.events \cup es /\ q.delayed = [e \in DOMAIN r.delayed \ es |-> r.delayed[e]]
      BY <1>1 DEF insert, Drop
    <2> HIDE DEF q
    <2>2. /\ DOMAIN q.delayed = DOMAIN r.delayed \ es
          /\ \A e \in DOMAIN q.delayed : q.delayed[e] = r.delayed[e]
      BY <2>1
    <2> QED
      BY <2>1, <2>2 DEF q, ReadyOK
  <1>2. CASE delay # Never
    <2>1. /\ q.events = r.events \ es
          /\ q.delayed = [e \in DOMAIN r.delayed \cup es |-> IF e \in es THEN delay ELSE r.delayed[e]]
      BY <1>2 DEF insert
    <2>2. delay \in Instant
      BY <1>2 DEF Time
    <2> HIDE DEF q
    <2>3. /\ DOMAIN q.delayed = DOMAIN r.delayed \cup es
          /\ \A e \in DOMAIN q.delayed : q.delayed[e] = IF e \in es THEN delay ELSE r.delayed[e]
      BY <2>1
    <2> QED
      BY <1>2, <2>1, <2>2, <2>3 DEF q, ReadyOK
  <1> QED
    BY <1>1, <1>2

(* remove takes its events out and moves no other. *)
LEMMA RemoveKeeps ==
    ASSUME NEW r, ReadyOK(r), NEW es
    PROVE  LET q == remove(r, es)
           IN  /\ ReadyOK(q)
               /\ q.events \subseteq r.events
               /\ \A e \in DOMAIN q.delayed : e \in DOMAIN r.delayed \ es /\ q.delayed[e] = r.delayed[e]
  <1> DEFINE q == remove(r, es)
  <1>1. q.events = r.events \ es /\ q.delayed = [e \in DOMAIN r.delayed \ es |-> r.delayed[e]]
    BY DEF remove, Drop
  <1> HIDE DEF q
  <1>2. /\ DOMAIN q.delayed = DOMAIN r.delayed \ es
        /\ \A e \in DOMAIN q.delayed : q.delayed[e] = r.delayed[e]
    BY <1>1
  <1> QED
    BY <1>1, <1>2 DEF q, ReadyOK

(* poll hands out events, keeps none of them, and returns an instant that  *)
(* no delayed event it leaves behind precedes.                             *)
LEMMA PollKeeps ==
    ASSUME NEW r, ReadyOK(r), NEW t \in Instant
    PROVE  LET q == poll(r, t)
               at == next_release_time(r, t)
           IN  /\ ReadyOK(q) /\ q.events = {}
               /\ polled(r, t) \subseteq Event
               /\ DOMAIN q.delayed \cap polled(r, t) = {}
               /\ at \in Time
               /\ \A e \in DOMAIN q.delayed : at # Never /\ at <= q.delayed[e]
  <1> DEFINE q == poll(r, t)
             at == next_release_time(r, t)
             due == Due(r, t)
             left == {r.delayed[e] : e \in DOMAIN r.delayed \ due}
  <1>1. due \subseteq DOMAIN r.delayed
    BY DEF Due
  <1>2. q.events = {} /\ q.delayed = [e \in DOMAIN r.delayed \ due |-> r.delayed[e]]
    BY DEF poll, Drop
  <1>3. polled(r, t) = r.events \cup due
    BY DEF polled
  <1>4. at = IF left = {} THEN Never ELSE Min(left)
    BY DEF next_release_time
  <1> HIDE DEF q, at, due
  <1>5. /\ DOMAIN q.delayed = DOMAIN r.delayed \ due
        /\ \A e \in DOMAIN q.delayed : q.delayed[e] = r.delayed[e]
    BY <1>2
  <1>6. left \subseteq Instant
    BY DEF ReadyOK
  <1>7. /\ at \in Time
        /\ \A i \in left : at # Never /\ at <= i
    <2>1. CASE left = {}
      BY <2>1, <1>4 DEF Time
    <2>2. CASE left # {}
      <3>1. Min(left) \in left /\ \A i \in left : Min(left) <= i
        BY <2>2, <1>6, MinOfInstants
      <3> HIDE DEF left
      <3> QED
        BY <3>1, <2>2, <1>4, <1>6, TimeAssumption DEF Time
    <2> QED
      BY <2>1, <2>2
  <1>8. \A e \in DOMAIN q.delayed : at # Never /\ at <= q.delayed[e]
    BY <1>5, <1>7
  <1>9. ReadyOK(q)
    BY <1>2, <1>5 DEF ReadyOK
  <1>10. polled(r, t) \subseteq Event /\ DOMAIN q.delayed \cap polled(r, t) = {}
    BY <1>1, <1>3, <1>5 DEF ReadyOK
  <1> QED
    BY <1>2, <1>7, <1>8, <1>9, <1>10 DEF q, at

-----------------------------------------------------------------------------
(* The readiness set with its instants implements the one without a clock. *)

Untimed == INSTANCE ReadySet

(* An event is delayed or it is not. *)
Abstract(r) == [events |-> r.events, delayed |-> DOMAIN r.delayed]

(* The readiness set with its priority queue of instants (readiness.rs)    *)
(* implements the set that module Group uses, operation by operation: an   *)
(* insertion with a release time delays, one without makes ready, and      *)
(* poll hands out the ready events and some of the delayed ones, those     *)
(* that are due.                                                           *)
THEOREM ReadinessImplementsReadySet ==
    /\ Abstract(empty_readiness) = Untimed!empty_readiness
    /\ \A r, es, delay, t :
          /\ Abstract(insert(r, es, delay)) = Untimed!insert(Abstract(r), es, delay # Never)
          /\ Abstract(remove(r, es)) = Untimed!remove(Abstract(r), es)
          /\ \E due \in SUBSET Abstract(r).delayed :
                /\ polled(r, t) = Untimed!polled(Abstract(r), due)
                /\ Abstract(poll(r, t)) = Untimed!poll(Abstract(r), due)
  <1>1. Abstract(empty_readiness) = Untimed!empty_readiness
    BY DEF Abstract, empty_readiness, Untimed!empty_readiness
  <1>2. ASSUME NEW r, NEW es, NEW delay, NEW t
        PROVE  /\ Abstract(insert(r, es, delay)) = Untimed!insert(Abstract(r), es, delay # Never)
               /\ Abstract(remove(r, es)) = Untimed!remove(Abstract(r), es)
               /\ \E due \in SUBSET Abstract(r).delayed :
                     /\ polled(r, t) = Untimed!polled(Abstract(r), due)
                     /\ Abstract(poll(r, t)) = Untimed!poll(Abstract(r), due)
    <2>1. Abstract(insert(r, es, delay)) = Untimed!insert(Abstract(r), es, delay # Never)
      BY DEF Abstract, insert, Drop, Untimed!insert
    <2>2. Abstract(remove(r, es)) = Untimed!remove(Abstract(r), es)
      BY DEF Abstract, remove, Drop, Untimed!remove
    <2>3. Due(r, t) \in SUBSET Abstract(r).delayed
      BY DEF Abstract, Due
    <2>4. polled(r, t) = Untimed!polled(Abstract(r), Due(r, t))
      BY DEF Abstract, polled, Untimed!polled
    <2>5. Abstract(poll(r, t)) = Untimed!poll(Abstract(r), Due(r, t))
      BY DEF Abstract, poll, Drop, Untimed!poll
    <2> QED
      BY <2>1, <2>2, <2>3, <2>4, <2>5
  <1> QED
    BY <1>1, <1>2

-----------------------------------------------------------------------------
(* The poll group's calls: what they leave has its types, and no event is  *)
(* delayed but the Send event of the connection called.                    *)

ConnsOK(cs) == DOMAIN cs \subseteq Token /\ \A t \in DOMAIN cs : cs[t] \in Conn

(* Every delayed event but the Send event of t was delayed before, and to  *)
(* the same instant.                                                       *)
DelaysKept(r, t) ==
    \A e \in DOMAIN r.delayed :
        e # [token |-> t, kind |-> "Send"] => e \in DOMAIN rd.delayed /\ r.delayed[e] = rd.delayed[e]

Good(u, t) == ConnsOK(u.cs) /\ ReadyOK(u.rd) /\ DelaysKept(u.rd, t)

(* A connection's events. *)
LEMMA EventsOf ==
    ASSUME NEW t \in Token, NEW kinds \in SUBSET Kind
    PROVE  E(t, kinds) \in SUBSET Event
  BY DEF E, Event

(* unlock leaves connections and readiness events. *)
LEMMA UnlockGood ==
    ASSUME ConnsOK(conns), ReadyOK(rd), NEW t \in Token, NEW c \in Conn,
           NEW raised \in SUBSET {"App"}, NEW done \in BOOLEAN, NEW reaps \in BOOLEAN
    PROVE  Good(unlock(t, c, raised, done, reaps), t)
  <1> DEFINE delay == delay_send(c.timer, c.release, now, done)
             send == IF done /\ delay = Never THEN remove(rd, E(t, {"Send"}))
                                              ELSE insert(rd, E(t, {"Send"}), delay)
             closed == IF c.closed THEN {"Closed"} ELSE {}
             left == [c EXCEPT !.locked = FALSE, !.refused = FALSE]
             news == raised \cup closed
             u == unlock(t, c, raised, done, reaps)
  <1>1. delay \in Time
    <2>1. c.timer \in Time /\ c.release \in Time
      BY DEF Conn, Time
    <2> QED
      BY <2>1, DelaySendType
  <1>2. E(t, {"Send"}) \in SUBSET Event /\ E(t, {"Send"}) = {[token |-> t, kind |-> "Send"]}
    BY EventsOf DEF E, Kind
  <1>3. E(t, news) \in SUBSET Event
    <2>1. news \in SUBSET Kind
      BY DEF Kind
    <2> HIDE DEF news
    <2> QED
      BY <2>1, EventsOf
  <1>4. /\ u.cs = IF c.closed /\ reaps THEN Drop(conns, {t}) ELSE With(conns, t, left)
        /\ u.rd = insert(send, E(t, news), Never)
    BY DEF unlock
  <1> HIDE DEF delay, news, u
  <1>5. ReadyOK(send) /\ DelaysKept(send, t)
    <2>1. CASE done /\ delay = Never
      BY <2>1, <1>2, RemoveKeeps DEF DelaysKept
    <2>2. CASE ~(done /\ delay = Never)
      <3> DEFINE es == E(t, {"Send"})
                 q == insert(rd, es, delay)
      <3>0. es \in SUBSET Event /\ send = q
        BY <2>2, <1>2
      <3> HIDE DEF es, send
      <3>1. /\ ReadyOK(q)
            /\ \A e \in DOMAIN q.delayed \ es : e \in DOMAIN rd.delayed /\ q.delayed[e] = rd.delayed[e]
        BY <1>1, <3>0, InsertKeeps
      <3> HIDE DEF q
      <3> QED
        BY <3>0, <3>1, <1>2 DEF DelaysKept, es
    <2> QED
      BY <2>1, <2>2
  <1> HIDE DEF send
  <1>6. ReadyOK(u.rd) /\ DelaysKept(u.rd, t)
    <2> DEFINE es == E(t, news)
               q == insert(send, es, Never)
    <2>0. es \in SUBSET Event /\ u.rd = q /\ Never \in Time
      BY <1>3, <1>4 DEF Time
    <2> HIDE DEF es
    <2>1. /\ ReadyOK(q)
          /\ \A e \in DOMAIN q.delayed \ es : e \in DOMAIN send.delayed /\ q.delayed[e] = send.delayed[e]
          /\ DOMAIN q.delayed \cap es = {}
      BY <2>0, <1>5, InsertKeeps
    <2>2. u.rd = q
      BY <2>0
    <2> HIDE DEF q
    <2> QED
      BY <2>1, <2>2, <1>5 DEF DelaysKept
  <1>7. ConnsOK(u.cs)
    <2>1. left \in Conn
      BY DEF Conn
    <2> HIDE DEF left
    <2>2. CASE c.closed /\ reaps
      <3>1. u.cs = [x \in DOMAIN conns \ {t} |-> conns[x]]
        BY <2>2, <1>4 DEF Drop
      <3> QED
        BY <3>1 DEF ConnsOK
    <2>3. CASE ~(c.closed /\ reaps)
      <3>1. u.cs = [x \in DOMAIN conns \cup {t} |-> IF x = t THEN left ELSE conns[x]]
        BY <2>3, <1>4 DEF With
      <3> QED
        BY <2>1, <3>1 DEF ConnsOK
    <2> QED
      BY <2>2, <2>3
  <1> QED
    BY <1>6, <1>7 DEF Good, u

(* No call at all. *)
LEMMA UnchangedGood ==
    ASSUME ConnsOK(conns), ReadyOK(rd), NEW t
    PROVE  Good(Unchanged, t)
  BY DEF Good, Unchanged, DelaysKept

(* A call that found the connection locked. *)
LEMMA RefuseGood ==
    ASSUME ConnsOK(conns), ReadyOK(rd), NEW t \in DOMAIN conns, NEW u \in Refuse(t)
    PROVE  Good(u, t)
  <1>1. CASE u = Unchanged
    BY <1>1, UnchangedGood
  <1>2. CASE u = [cs |-> [conns EXCEPT ![t].refused = TRUE], rd |-> rd]
    <2>1. [conns[t] EXCEPT !.refused = TRUE] \in Conn
      BY DEF ConnsOK, Conn
    <2>2. u.rd = rd /\ u.cs = [conns EXCEPT ![t] = [conns[t] EXCEPT !.refused = TRUE]]
      BY <1>2
    <2> QED
      BY <2>1, <2>2 DEF Good, ConnsOK, DelaysKept
  <1> QED
    BY <1>1, <1>2 DEF Refuse

(* What quiche may leave of a connection is a connection. *)
LEMMA QuicheTypes ==
    ASSUME NEW c \in Conn
    PROVE  /\ Future \subseteq Time
           /\ Touched(c) \subseteq Conn
           /\ MayClose(Touched(c)) \subseteq Conn
           /\ Timed(c) \subseteq Conn
           /\ Replayed(c) \subseteq Conn
  <1>1. Future \subseteq Time
    BY DEF Future, Time
  <1>2. Touched(c) \subseteq Conn
    BY <1>1 DEF Touched, Conn, Time
  <1>3. ASSUME NEW d \in Conn
        PROVE  [d EXCEPT !.closed = TRUE, !.timer = Never] \in Conn
    BY DEF Conn
  <1>4. MayClose(Touched(c)) \subseteq Conn
    BY <1>2, <1>3 DEF MayClose
  <1>5. Timed(c) \subseteq Conn
    BY <1>4 DEF Timed
  <1>6. Replayed(c) \subseteq Conn
    BY <1>2, <1>4 DEF Replayed
  <1> QED
    BY <1>1, <1>2, <1>4, <1>5, <1>6

(* A new connection. *)
LEMMA NewConnType ==
    ASSUME NEW i \in Future
    PROVE  [NewConn EXCEPT !.timer = i] \in Conn
  BY DEF NewConn, Conn, Future

(* send *)
LEMMA SendGood ==
    ASSUME ConnsOK(conns), ReadyOK(rd), NEW t \in Token, NEW r \in SendResults(t)
    PROVE  Good(r.g, t) /\ r.packet \in BOOLEAN
  <1>1. CASE ~Free(t)
    <2>1. r = [g |-> Unchanged, packet |-> FALSE]
      BY <1>1 DEF SendResults
    <2> QED
      BY <2>1, UnchangedGood
  <1>2. CASE Free(t)
    <2> DEFINE c == conns[t]
               open == {d \in Timed(c) : ~d.closed}
               paced == UNION {{[d EXCEPT !.release = i] : i \in Future} : d \in UNION {Touched(e) : e \in open}}
    <2>1. c \in Conn
      BY <1>2 DEF Free, ConnsOK
    <2>2. Timed(c) \subseteq Conn /\ Future \subseteq Time
      BY <2>1, QuicheTypes
    <2>3. open \subseteq Conn
      BY <2>2
    <2>4. paced \subseteq Conn
      <3>1. UNION {Touched(e) : e \in open} \subseteq Conn
        BY <2>3, QuicheTypes
      <3>2. ASSUME NEW d \in Conn, NEW i \in Future
            PROVE  [d EXCEPT !.release = i] \in Conn
        BY <2>2 DEF Conn, Time
      <3> QED
        BY <3>1, <3>2
    <2>5. \E d \in Conn, done \in BOOLEAN, p \in BOOLEAN :
             r = [g |-> unlock(t, d, {}, done, TRUE), packet |-> p]
      <3>0. r \in Sends(t)
        BY <1>2 DEF SendResults
      <3>1. \/ r \in {[g |-> unlock(t, c, {}, FALSE, TRUE), packet |-> FALSE]}
            \/ r \in {[g |-> unlock(t, d, {}, FALSE, TRUE), packet |-> TRUE] : d \in paced}
            \/ r \in {[g |-> unlock(t, d, {}, TRUE, TRUE), packet |-> FALSE] : d \in Timed(c)}
            \/ r \in {[g |-> unlock(t, d, {}, FALSE, TRUE), packet |-> FALSE] : d \in open}
        BY <3>0, Zenon DEF Sends
      <3> HIDE DEF c, open, paced
      <3> QED
        BY <3>1, <2>1, <2>2, <2>3, <2>4
    <2>6. PICK d \in Conn, done \in BOOLEAN, p \in BOOLEAN :
             r = [g |-> unlock(t, d, {}, done, TRUE), packet |-> p]
      BY <2>5
    <2>7. Good(unlock(t, d, {}, done, TRUE), t)
      BY <2>1, UnlockGood
    <2> QED
      BY <2>6, <2>7
  <1> QED
    BY <1>1, <1>2

(* close, stream_open, stream_shutdown *)
LEMMA LockedCallsGood ==
    ASSUME ConnsOK(conns), ReadyOK(rd), NEW t \in DOMAIN conns, NEW u \in LockedCalls(t)
    PROVE  Good(u, t)
  <1>0. t \in Token /\ conns[t] \in Conn
    BY DEF ConnsOK
  <1>1. CASE Free(t)
    <2>1. PICK c \in MayClose(Touched(conns[t])), r \in {{}, {"App"}} : u = unlock(t, c, r, FALSE, FALSE)
      <3>1. u \in UNION {{unlock(t, c, r, FALSE, FALSE) : c \in MayClose(Touched(conns[t]))} : r \in {{}, {"App"}}}
        BY <1>1, Zenon DEF LockedCalls
      <3> QED
        BY <3>1
    <2>2. c \in Conn /\ r \in SUBSET {"App"}
      BY <1>0, QuicheTypes
    <2> QED
      BY <1>0, <2>1, <2>2, UnlockGood
  <1>2. CASE ~Free(t)
    BY <1>2, RefuseGood DEF LockedCalls
  <1> QED
    BY <1>1, <1>2

-----------------------------------------------------------------------------
(* The invariant about types, the socket and the edges. *)

Types ==
    /\ now \in Instant
    /\ ConnsOK(conns)
    /\ ReadyOK(rd)
    /\ sock \in Socket
    /\ inbox \in Seq(Token)
    /\ edges \subseteq Edge
    /\ loop \in Loop
    /\ app \in [App -> AppAt]
    /\ accepted \in Seq(Nat)
    /\ own \subseteq Event
    /\ late \in BOOLEAN

(* What mio reported is handled before poll does anything else. *)
ReadyServed == loop.pc \in {"call", "poll", "handle", "sleep"} => loop.ready = {}

BaseInv == Types /\ SendFifo /\ EdgesServed /\ ReadyServed

(* The invariant gives the types that are checked. *)
LEMMA TypesGiveTypeOK == ASSUME Types PROVE TypeOK
  BY DEF Types, TypeOK, ConnsOK, ReadyOK, Socket

(* A token that stands for none. *)
LEMMA AnyTokenType == AnyToken \in Token
  BY TokenAssumption DEF AnyToken

(* A step that does not touch the socket and the kernel's queue. *)
LEMMA SocketFrame ==
    ASSUME SendFifo, EdgesServed, sock' = sock, accepted' = accepted, inbox' = inbox,
           loop'.pc = "failed" \/ (loop.pc # "failed" /\ edges \cup loop.ready \subseteq edges' \cup loop'.ready)
    PROVE  SendFifo' /\ EdgesServed'
  BY DEF SendFifo, EdgesServed

(* A packet is handed to the socket. *)
LEMMA HandKeeps ==
    ASSUME Types, SendFifo, NEW packet \in BOOLEAN, NEW next \in Loop, Hand(packet, next)
    PROVE  /\ sock' \in Socket /\ accepted' \in Seq(Nat) /\ SendFifo'
           /\ loop' \in Loop
           /\ loop'.todo = next.todo /\ loop'.deadline = next.deadline /\ loop'.ready = next.ready
           /\ \/ loop'.pc = "failed"
              \/ /\ loop' = next
                 /\ sock' = sock \/ sock'.sending = <<>> \/ sock'.blocked
  <1>1. CASE ~packet
    BY <1>1 DEF Hand, Types, SendFifo
  <1>2. CASE packet
    <2> DEFINE n == Len(accepted) + 1
    <2>1. PICK r \in send_to(sock, n) :
             /\ sock' = r.s
             /\ accepted' = IF r.took THEN Append(accepted, n) ELSE accepted
             /\ loop' = IF r.res = "IO" THEN [next EXCEPT !.pc = "failed"] ELSE next
      BY <1>2 DEF Hand
    <2>2. sock \in Socket /\ accepted \in Seq(Nat) /\ n \in Nat /\ Len(sock.sending) <= Limit /\ Sent(sock) = accepted
      BY DEF Types, SendFifo, Sent
    <2> HIDE DEF n
    <2>3. /\ r.s \in Socket
          /\ Sent(r.s) = IF r.took THEN Append(Sent(sock), n) ELSE Sent(sock)
          /\ Len(r.s.sending) <= Limit
          /\ r.res # "IO" => r.s.sending = <<>> \/ r.s.blocked
      BY <2>2, SendToKeeps
    <2>4. accepted' \in Seq(Nat)
      BY <2>1, <2>2
    <2>5. SendFifo'
      BY <2>1, <2>2, <2>3 DEF SendFifo, Sent
    <2>6. [next EXCEPT !.pc = "failed"] \in Loop
      BY DEF Loop
    <2>7. CASE r.res = "IO"
      <3>1. loop' = [next EXCEPT !.pc = "failed"]
        BY <2>1, <2>7
      <3>2. /\ loop'.todo = next.todo /\ loop'.deadline = next.deadline /\ loop'.ready = next.ready
            /\ loop'.pc = "failed"
        BY <3>1 DEF Loop
      <3> QED
        BY <3>1, <3>2, <2>1, <2>3, <2>4, <2>5, <2>6
    <2>8. CASE r.res # "IO"
      BY <2>8, <2>1, <2>3, <2>4, <2>5
    <2> QED
      BY <2>7, <2>8
  <1> QED
    BY <1>1, <1>2

(* The application's operations change the group and their own place. *)
LEMMA AppCallKeeps ==
    ASSUME BaseInv, NEW a \in App, NEW t \in Token,
           NEW pc \in {"idle", "held", "wake", "panic"}, app' = [app EXCEPT ![a] = [pc |-> pc, token |-> t]],
           ConnsOK(conns'), ReadyOK(rd'),
           edges \subseteq edges', edges' \subseteq Edge,
           UNCHANGED <<now, sock, inbox, loop, accepted, own, late>>
    PROVE  BaseInv'
  <1>1. app' \in [App -> AppAt]
    BY DEF BaseInv, Types, AppAt
  <1>2. Types'
    BY <1>1 DEF BaseInv, Types
  <1>3. SendFifo' /\ EdgesServed'
    BY DEF BaseInv, SendFifo, EdgesServed
  <1>4. ReadyServed'
    BY DEF BaseInv, ReadyServed
  <1> QED
    BY <1>2, <1>3, <1>4 DEF BaseInv

(* register and connect *)
LEMMA RegisterKeeps ==
    ASSUME BaseInv, NEW a \in App, NEW t \in Token, Register(a, t)
    PROVE  BaseInv'
  <1>1. PICK i \in Future : Becomes(unlock(t, [NewConn EXCEPT !.timer = i], {}, FALSE, FALSE))
    BY DEF Register
  <1>2. Good(unlock(t, [NewConn EXCEPT !.timer = i], {}, FALSE, FALSE), t)
    BY NewConnType, UnlockGood DEF Register, BaseInv, Types
  <1>3. ConnsOK(conns') /\ ReadyOK(rd')
    BY <1>1, <1>2 DEF Good, Becomes
  <1> QED
    BY <1>3, AppCallKeeps DEF Register, BaseInv, Types

(* deregister *)
LEMMA DeregisterKeeps ==
    ASSUME BaseInv, NEW a \in App, NEW t \in Token, Deregister(a, t)
    PROVE  BaseInv'
  <1>1. conns' = [x \in DOMAIN conns \ {t} |-> conns[x]] /\ rd' = rd
    BY DEF Deregister, Drop
  <1>2. ConnsOK(conns') /\ ReadyOK(rd')
    BY <1>1 DEF BaseInv, Types, ConnsOK, ReadyOK
  <1> QED
    BY <1>2, AppCallKeeps DEF Deregister, BaseInv, Types

(* close, stream_open, stream_shutdown *)
LEMMA CallLockedKeeps ==
    ASSUME BaseInv, NEW a \in App, NEW t \in Token, CallLocked(a, t)
    PROVE  BaseInv'
  <1>1. PICK u \in LockedCalls(t) : Becomes(u)
    BY DEF CallLocked
  <1>2. Good(u, t)
    BY LockedCallsGood DEF CallLocked, BaseInv, Types
  <1>3. ConnsOK(conns') /\ ReadyOK(rd')
    BY <1>1, <1>2 DEF Good, Becomes
  <1> QED
    BY <1>3, AppCallKeeps DEF CallLocked, BaseInv, Types

(* stream_send and stream_recv, as far as the guard *)
LEMMA CallGuardedKeeps ==
    ASSUME BaseInv, NEW a \in App, NEW t \in Token, CallGuarded(a, t)
    PROVE  BaseInv'
  <1>1. PICK pc \in {"held", "wake"} : app' = [app EXCEPT ![a] = [pc |-> pc, token |-> t]]
    BY DEF CallGuarded
  <1>2. [conns[t] EXCEPT !.locked = TRUE] \in Conn
    BY DEF CallGuarded, BaseInv, Types, ConnsOK, Conn
  <1>3. ConnsOK(conns')
    <2>1. CASE Free(t)
      <3>1. conns' = [conns EXCEPT ![t] = [conns[t] EXCEPT !.locked = TRUE]]
        BY <2>1 DEF CallGuarded
      <3> QED
        BY <1>2, <3>1 DEF BaseInv, Types, ConnsOK
    <2>2. CASE ~Free(t)
      BY <2>2 DEF CallGuarded, BaseInv, Types, ConnsOK
    <2> QED
      BY <2>1, <2>2
  <1>4. ReadyOK(rd')
    BY DEF CallGuarded, BaseInv, Types, ReadyOK
  <1> QED
    BY <1>1, <1>3, <1>4, AppCallKeeps DEF CallGuarded, BaseInv, Types

(* The guard is dropped. *)
LEMMA GuardDropKeeps ==
    ASSUME BaseInv, NEW a \in App, GuardDrop(a)
    PROVE  BaseInv'
  <1> DEFINE t == app[a].token
  <1>1. t \in Token
    BY DEF BaseInv, Types, AppAt
  <1>2. PICK pc \in {"wake", "panic"} : app' = [app EXCEPT ![a].pc = pc]
    BY DEF GuardDrop
  <1>3. app' = [app EXCEPT ![a] = [pc |-> pc, token |-> t]]
    <2>1. app[a] \in AppAt
      BY DEF BaseInv, Types
    <2>2. [app[a] EXCEPT !.pc = pc] = [pc |-> pc, token |-> t]
      BY <2>1 DEF AppAt
    <2>3. app' = [app EXCEPT ![a] = [app[a] EXCEPT !.pc = pc]]
      BY <1>2
    <2> QED
      BY <2>2, <2>3
  <1>4. ConnsOK(conns') /\ ReadyOK(rd')
    <2>1. CASE t \in DOMAIN conns
      <3>1. PICK c \in Replayed(conns[t]), r \in {{}, {"App"}} : Becomes(unlock(t, c, r, FALSE, TRUE))
        BY <2>1 DEF GuardDrop
      <3>2. conns[t] \in Conn
        BY <2>1 DEF BaseInv, Types, ConnsOK
      <3>3. c \in Conn /\ r \in SUBSET {"App"}
        BY <3>2, QuicheTypes
      <3> HIDE DEF t
      <3>4. Good(unlock(t, c, r, FALSE, TRUE), t)
        BY <1>1, <3>3, UnlockGood DEF BaseInv, Types
      <3> QED
        BY <3>1, <3>4 DEF Becomes, Good
    <2>2. CASE t \notin DOMAIN conns
      BY <2>2 DEF GuardDrop, BaseInv, Types, ConnsOK, ReadyOK
    <2> QED
      BY <2>1, <2>2
  <1>5. UNCHANGED <<now, sock, inbox, edges, loop, accepted, own, late>>
    BY DEF GuardDrop
  <1> HIDE DEF t
  <1> QED
    BY <1>1, <1>3, <1>4, <1>5, AppCallKeeps DEF BaseInv, Types

(* waker.wake() *)
LEMMA WakeKeeps ==
    ASSUME BaseInv, NEW a \in App, Wake(a)
    PROVE  BaseInv'
  <1>1. ConnsOK(conns') /\ ReadyOK(rd') /\ edges \subseteq edges' /\ edges' \subseteq Edge
    BY DEF Wake, BaseInv, Types, ConnsOK, ReadyOK, Edge
  <1> QED
    BY <1>1, AnyTokenType, AppCallKeeps DEF Wake

(* Steps of poll that only move it on: the reported edges are kept, or     *)
(* there were none.                                                        *)
LEMMA LoopMoves ==
    ASSUME BaseInv, loop' \in Loop, loop'.pc # "failed", loop.pc # "failed",
           ReadyServed', edges \cup loop.ready \subseteq edges' \cup loop'.ready \cup {"waker"}, edges' \subseteq Edge,
           ReadyOK(rd'), own' \subseteq Event, late' \in BOOLEAN,
           UNCHANGED <<now, conns, sock, inbox, app, accepted>>
    PROVE  BaseInv'
  <1>1. Types'
    BY DEF BaseInv, Types, ConnsOK
  <1>3. SendFifo' /\ EdgesServed'
    BY DEF BaseInv, SendFifo, EdgesServed
  <1> QED
    BY <1>1, <1>3 DEF BaseInv

(* poll, from its call to its return, but for sending and receiving *)
LEMMA PollingKeeps ==
    ASSUME BaseInv, Call \/ Poll \/ Return \/ Sleep \/ WakeUp \/ Again
    PROVE  BaseInv'
  <1> USE DEF BaseInv, Types
  <1>1. Never \in Instant \cup {Never} /\ loop.deadline \in Instant \cup {Never} /\ loop.ready \subseteq Edge
    BY DEF Loop
  <1>2. CASE Call
    <2>1. loop' = [loop EXCEPT !.pc = "poll"] /\ loop.pc = "call"
      BY <1>2 DEF Call, Goto
    <2>2. loop' \in Loop /\ loop'.pc = "poll" /\ loop'.ready = loop.ready
      BY <2>1 DEF Loop
    <2> QED
      BY <1>2, <2>1, <2>2, LoopMoves DEF Call, ReadyServed, ReadyOK
  <1>3. CASE Poll
    <2> DEFINE at == next_release_time(rd, now)
               es == polled(rd, now)
               q == poll(rd, now)
    <2>1. ReadyOK(q) /\ es \subseteq Event /\ at \in Time
      BY PollKeeps
    <2>2. loop' = [loop EXCEPT !.pc = "handle", !.deadline = at, !.todo = es] /\ loop.pc = "poll" /\ rd' = q /\ own' = {}
      BY <1>3 DEF Poll
    <2> HIDE DEF at, es, q
    <2>3. loop' \in Loop /\ loop'.pc = "handle" /\ loop'.ready = loop.ready
      BY <2>1, <2>2 DEF Loop, Time
    <2> QED
      BY <1>3, <2>1, <2>2, <2>3, LoopMoves DEF Poll, ReadyServed, ReadyOK
  <1>4. CASE Return
    <2>1. loop' = [loop EXCEPT !.pc = "call", !.todo = {}, !.deadline = Never] /\ loop.pc = "handle"
      BY <1>4 DEF Return, Handled
    <2>2. loop' \in Loop /\ loop'.pc = "call" /\ loop'.ready = loop.ready
      BY <2>1 DEF Loop
    <2> QED
      BY <1>4, <2>1, <2>2, LoopMoves DEF Return, ReadyServed, ReadyOK
  <1>5. CASE Sleep
    <2>1. loop' = [loop EXCEPT !.pc = "sleep", !.deadline = checked_duration_since(loop.deadline)] /\ loop.pc = "handle"
      BY <1>5 DEF Sleep, Handled
    <2>2. checked_duration_since(loop.deadline) \in Instant \cup {Never}
      BY <1>1 DEF checked_duration_since
    <2>3. loop' \in Loop /\ loop'.pc = "sleep" /\ loop'.ready = loop.ready
      BY <2>1, <2>2 DEF Loop
    <2>4. late' \in BOOLEAN
      BY <1>5 DEF Sleep
    <2> QED
      BY <1>5, <2>1, <2>3, <2>4, LoopMoves DEF Sleep, ReadyServed, ReadyOK
  <1>6. CASE WakeUp
    <2>1. loop' = [loop EXCEPT !.pc = "events", !.ready = edges \ {"waker"}, !.deadline = Never] /\ loop.pc = "sleep"
      BY <1>6 DEF WakeUp
    <2>2. loop' \in Loop /\ loop'.pc = "events" /\ loop'.ready = edges \ {"waker"}
      BY <2>1 DEF Loop
    <2>3. loop.ready = {} /\ ReadyServed'
      BY <2>1, <2>2 DEF ReadyServed
    <2>4. late' \in BOOLEAN /\ edges' = {}
      BY <1>6 DEF WakeUp
    <2> QED
      BY <1>6, <2>1, <2>2, <2>3, <2>4, LoopMoves DEF WakeUp, ReadyOK
  <1>7. CASE Again
    <2>1. loop' = [loop EXCEPT !.pc = "poll"] /\ loop.pc = "events" /\ loop.ready = {}
      BY <1>7 DEF Again, Goto
    <2>2. loop' \in Loop /\ loop'.pc = "poll" /\ loop'.ready = loop.ready
      BY <2>1 DEF Loop
    <2> QED
      BY <1>7, <2>1, <2>2, LoopMoves DEF Again, ReadyServed, ReadyOK
  <1> QED
    BY <1>2, <1>3, <1>4, <1>5, <1>6, <1>7

(* A call of send by poll, and what becomes of the packet. *)
LEMMA SendingKeeps ==
    ASSUME BaseInv, NEW t \in Token, NEW r \in SendResults(t), Becomes(r.g),
           NEW next \in Loop, next.ready = loop.ready, next.pc # "failed", loop.pc # "failed",
           next.pc \in {"call", "poll", "handle", "sleep"} => loop.pc \in {"call", "poll", "handle", "sleep"},
           Hand(r.packet, next), own' \subseteq Event, UNCHANGED <<now, inbox, edges, app, late>>
    PROVE  BaseInv'
  <1> USE DEF BaseInv
  <1>1. Good(r.g, t) /\ r.packet \in BOOLEAN
    BY SendGood DEF Types
  <1>2. ConnsOK(conns') /\ ReadyOK(rd')
    BY <1>1 DEF Good, Becomes
  <1>3. /\ sock' \in Socket /\ accepted' \in Seq(Nat) /\ SendFifo'
        /\ loop' \in Loop /\ loop'.ready = next.ready
        /\ \/ loop'.pc = "failed"
           \/ /\ loop' = next
              /\ sock' = sock \/ sock'.sending = <<>> \/ sock'.blocked
    BY <1>1, HandKeeps
  <1>4. Types'
    BY <1>2, <1>3 DEF Types
  <1>6. EdgesServed'
    BY <1>3 DEF EdgesServed
  <1>7. ReadyServed'
    BY <1>3 DEF ReadyServed
  <1> QED
    BY <1>3, <1>4, <1>6, <1>7

(* on_quic_send *)
LEMMA OnQuicSendKeeps ==
    ASSUME BaseInv, NEW e \in loop.todo, on_quic_send(e)
    PROVE  BaseInv'
  <1> DEFINE next == [loop EXCEPT !.todo = loop.todo \ {e}]
  <1>1. PICK r \in SendResults(e.token) :
           /\ Becomes(r.g)
           /\ own' = own \cup {f \in Event : Place(r.g.rd, f) \notin {Place(rd, f), "none"}}
           /\ Hand(r.packet, next)
    BY DEF on_quic_send
  <1>2. e \in Event /\ e.token \in Token /\ loop.pc = "handle"
    BY DEF BaseInv, Types, Loop, Event, on_quic_send
  <1>3. next \in Loop /\ next.pc = loop.pc /\ next.ready = loop.ready
    BY DEF BaseInv, Types, Loop
  <1>4. own' \subseteq Event
    BY <1>1 DEF BaseInv, Types
  <1>5. UNCHANGED <<now, inbox, edges, app, late>>
    BY DEF on_quic_send
  <1> HIDE DEF next
  <1> QED
    BY <1>1, <1>2, <1>3, <1>4, <1>5, SendingKeeps

(* The send that ends recv_with_acceptor. *)
LEMMA ReplyKeeps ==
    ASSUME BaseInv, Reply
    PROVE  BaseInv'
  <1> DEFINE next == [loop EXCEPT !.pc = "events", !.token = AnyToken]
  <1>1. PICK r \in SendResults(loop.token) : Becomes(r.g) /\ Hand(r.packet, next)
    BY DEF Reply
  <1>2. loop.token \in Token /\ loop.pc = "reply"
    BY DEF BaseInv, Types, Loop, Reply
  <1>3. next \in Loop /\ next.pc = "events" /\ next.ready = loop.ready
    BY AnyTokenType DEF BaseInv, Types, Loop
  <1>4. own' \subseteq Event /\ UNCHANGED <<now, inbox, edges, app, late>>
    BY DEF Reply, BaseInv, Types
  <1> HIDE DEF next
  <1> QED
    BY <1>1, <1>2, <1>3, <1>4, SendingKeeps

(* on_udp_send *)
LEMMA OnUdpSendKeeps ==
    ASSUME BaseInv, on_udp_send
    PROVE  BaseInv'
  <1> USE DEF BaseInv
  <1>1. PICK r \in flush(sock) :
           /\ sock' = r.s
           /\ loop' = [loop EXCEPT !.ready = {}, !.pc = IF r.res = "IO" THEN "failed" ELSE "events"]
    BY DEF on_udp_send
  <1>2. sock \in Socket /\ Len(sock.sending) \in Nat /\ Len(sock.sending) <= Limit /\ Sent(sock) = accepted
    BY DEF Types, Socket, SendFifo, Sent
  <1>3. /\ r.s \in Socket /\ Sent(r.s) = Sent(sock) /\ Len(r.s.sending) <= Len(sock.sending)
        /\ r.res \in {"Ok", "WouldBlock", "IO"}
        /\ r.res = "Ok" => r.s.sending = <<>>
        /\ r.res = "WouldBlock" => r.s.blocked
    BY <1>2, FlushKeeps
  <1>4. /\ loop' \in Loop /\ loop'.ready = {}
        /\ loop'.pc = IF r.res = "IO" THEN "failed" ELSE "events"
    BY <1>1 DEF Types, Loop
  <1>5. /\ loop.pc = "events" /\ "readable" \notin loop.ready
        /\ UNCHANGED <<now, conns, rd, inbox, edges, app, accepted, own, late>>
    BY DEF on_udp_send
  <1>6. Types'
    BY <1>1, <1>3, <1>4, <1>5 DEF Types, ConnsOK, ReadyOK
  <1>8. SendFifo'
    <2>1. Len(r.s.sending) \in Nat
      BY <1>3 DEF Socket
    <2>2. Len(sock'.sending) <= Limit
      BY <2>1, <1>1, <1>2, <1>3, LimitAssumption
    <2> QED
      BY <2>2, <1>1, <1>2, <1>3, <1>5 DEF SendFifo, Sent
  <1>9. EdgesServed'
    BY <1>1, <1>3, <1>4, <1>5 DEF EdgesServed
  <1>10. ReadyServed'
    BY <1>4 DEF ReadyServed
  <1> QED
    BY <1>6, <1>8, <1>9, <1>10

(* A packet that a connection took, or that none wanted. *)
LEMMA ReceivedKeeps ==
    ASSUME BaseInv, loop.pc = "events", "readable" \in loop.ready, inbox # <<>>,
           NEW u, NEW t, Good(u, t), NEW next \in {"events", "reply"}, Received(u, next),
           UNCHANGED <<now, sock, edges, app, accepted, own, late>>
    PROVE  BaseInv'
  <1> USE DEF BaseInv
  <1>1. Head(inbox) \in Token /\ Tail(inbox) \in Seq(Token)
    BY HeadTailProperties DEF Types
  <1>2. /\ conns' = u.cs /\ rd' = u.rd /\ inbox' = Tail(inbox)
        /\ loop' = [loop EXCEPT !.pc = next, !.token = IF next = "reply" THEN Head(inbox) ELSE loop.token]
    BY DEF Received, Becomes
  <1>3. loop' \in Loop /\ loop'.pc = next /\ loop'.ready = loop.ready
    BY <1>1, <1>2 DEF Types, Loop
  <1>4. ConnsOK(conns') /\ ReadyOK(rd')
    BY <1>2 DEF Good
  <1>5. Types'
    BY <1>1, <1>2, <1>3, <1>4 DEF Types
  <1>7. SendFifo' /\ EdgesServed' /\ ReadyServed'
    BY <1>3 DEF SendFifo, EdgesServed, ReadyServed
  <1> QED
    BY <1>5, <1>7

(* One packet of on_udp_recv. *)
LEMMA RecvPacketKeeps ==
    ASSUME BaseInv, loop.pc = "events", "readable" \in loop.ready, inbox # <<>>, RecvPacket(Head(inbox)),
           UNCHANGED <<now, edges, app, own, late>>
    PROVE  BaseInv'
  <1> DEFINE t == Head(inbox)
  <1>1. t \in Token
    BY HeadTailProperties DEF BaseInv, Types
  <1>2. ConnsOK(conns) /\ ReadyOK(rd)
    BY DEF BaseInv, Types
  <1>3. CASE /\ Free(t)
             /\ \E c \in MayClose(Touched(conns[t])), r \in {{}, {"App"}} :
                   Received(unlock(t, c, r, FALSE, TRUE), IF IsServer THEN "reply" ELSE "events")
             /\ UNCHANGED <<sock, accepted>>
    <2>1. PICK c \in MayClose(Touched(conns[t])), r \in {{}, {"App"}} :
             Received(unlock(t, c, r, FALSE, TRUE), IF IsServer THEN "reply" ELSE "events")
      BY <1>3
    <2>2. conns[t] \in Conn
      BY <1>2, <1>3 DEF Free, ConnsOK
    <2>3. c \in Conn /\ r \in SUBSET {"App"}
      BY <2>2, QuicheTypes
    <2>4. Good(unlock(t, c, r, FALSE, TRUE), t)
      BY <1>1, <1>2, <2>2, <2>3, UnlockGood
    <2>5. (IF IsServer THEN "reply" ELSE "events") \in {"events", "reply"}
      OBVIOUS
    <2> QED
      BY <1>3, <2>1, <2>4, <2>5, ReceivedKeeps
  <1>4. CASE t \notin DOMAIN conns /\ Received(Unchanged, "events") /\ UNCHANGED <<sock, accepted>>
    BY <1>2, <1>4, UnchangedGood, ReceivedKeeps
  <1>5. CASE /\ Fresh(t)
             /\ \E i \in Future : Received(unlock(t, [NewConn EXCEPT !.timer = i], {}, FALSE, TRUE), "reply")
             /\ UNCHANGED <<sock, accepted>>
    <2>1. PICK i \in Future : Received(unlock(t, [NewConn EXCEPT !.timer = i], {}, FALSE, TRUE), "reply")
      BY <1>5
    <2>2. Good(unlock(t, [NewConn EXCEPT !.timer = i], {}, FALSE, TRUE), t)
      BY <1>1, <1>2, <1>5, NewConnType, UnlockGood
    <2> QED
      BY <1>5, <2>1, <2>2, ReceivedKeeps
  <1>6. CASE inbox' = Tail(inbox) /\ Hand(TRUE, loop) /\ UNCHANGED <<conns, rd>>
    <2>1. /\ sock' \in Socket /\ accepted' \in Seq(Nat) /\ SendFifo'
          /\ loop' \in Loop /\ loop'.ready = loop.ready
          /\ \/ loop'.pc = "failed"
             \/ /\ loop' = loop
                /\ sock' = sock \/ sock'.sending = <<>> \/ sock'.blocked
      BY <1>6, HandKeeps DEF BaseInv, Types
    <2>2. Tail(inbox) \in Seq(Token)
      BY HeadTailProperties DEF BaseInv, Types
    <2>3. Types'
      BY <1>6, <2>1, <2>2 DEF BaseInv, Types, ConnsOK, ReadyOK
    <2>5. EdgesServed' /\ ReadyServed'
      BY <1>6, <2>1 DEF BaseInv, EdgesServed, ReadyServed
    <2> QED
      BY <2>1, <2>3, <2>5 DEF BaseInv
  <1> QED
    BY <1>3, <1>4, <1>5, <1>6 DEF RecvPacket

(* on_udp_recv *)
LEMMA OnUdpRecvKeeps ==
    ASSUME BaseInv, on_udp_recv
    PROVE  BaseInv'
  <1>1. /\ loop.pc = "events" /\ "readable" \in loop.ready
        /\ UNCHANGED <<now, edges, app, own, late>>
    BY DEF on_udp_recv
  <1>2. CASE /\ inbox = <<>>
             /\ loop' = [loop EXCEPT !.ready = loop.ready \ {"readable"}]
             /\ UNCHANGED <<conns, rd, sock, inbox, accepted>>
    <2>1. loop' \in Loop /\ loop'.pc = "events" /\ loop'.ready = loop.ready \ {"readable"}
      BY <1>1, <1>2 DEF BaseInv, Types, Loop
    <2>2. Types'
      BY <1>1, <1>2, <2>1 DEF BaseInv, Types, ConnsOK, ReadyOK
    <2>4. SendFifo' /\ EdgesServed' /\ ReadyServed'
      BY <1>1, <1>2, <2>1 DEF BaseInv, SendFifo, EdgesServed, ReadyServed
    <2> QED
      BY <2>2, <2>4 DEF BaseInv
  <1>3. CASE inbox # <<>> /\ RecvPacket(Head(inbox))
    BY <1>1, <1>3, RecvPacketKeeps
  <1>4. CASE /\ inbox # <<>>
             /\ Goto("failed")
             /\ inbox' = Tail(inbox)
             /\ UNCHANGED <<conns, rd, sock, accepted>>
    <2>1. loop' \in Loop /\ loop'.pc = "failed"
      BY <1>4 DEF Goto, BaseInv, Types, Loop
    <2>2. Tail(inbox) \in Seq(Token)
      BY <1>4, HeadTailProperties DEF BaseInv, Types
    <2>3. Types'
      BY <1>1, <1>4, <2>1, <2>2 DEF BaseInv, Types, ConnsOK, ReadyOK
    <2>5. SendFifo' /\ EdgesServed' /\ ReadyServed'
      BY <1>1, <1>4, <2>1 DEF BaseInv, SendFifo, EdgesServed, ReadyServed
    <2> QED
      BY <2>3, <2>5 DEF BaseInv
  <1> QED
    BY <1>2, <1>3, <1>4 DEF on_udp_recv

(* Time passes, a packet arrives, the kernel has room again. *)
LEMMA EnvironmentKeeps ==
    ASSUME BaseInv, Tick \/ Unblock \/ (\E t \in Token : Arrive(t)) \/ UNCHANGED vars
    PROVE  BaseInv'
  <1> USE DEF BaseInv
  <1>1. CASE Tick
    <2>1. now' \in Instant
      BY <1>1, TimeAssumption DEF Tick, Types, Instant
    <2>2. Types'
      BY <1>1, <2>1 DEF Tick, Types, ConnsOK, ReadyOK
    <2> QED
      BY <1>1, <2>2 DEF Tick, SendFifo, EdgesServed, ReadyServed
  <1>2. CASE Unblock
    <2>1. /\ sock' = [sock EXCEPT !.blocked = FALSE] /\ edges' = edges \cup {"writable"}
          /\ UNCHANGED <<now, conns, rd, inbox, loop, app, accepted, own, late>>
      BY <1>2 DEF Unblock
    <2>2. sock' \in Socket /\ sock'.sending = sock.sending /\ sock'.wire = sock.wire
      BY <2>1 DEF Types, Socket
    <2>3. edges' \subseteq Edge
      BY <2>1 DEF Types, Edge
    <2>4. Types'
      BY <2>1, <2>2, <2>3 DEF Types, ConnsOK, ReadyOK
    <2> QED
      BY <2>1, <2>2, <2>4 DEF SendFifo, EdgesServed, ReadyServed
  <1>3. ASSUME NEW t \in Token, Arrive(t)
        PROVE  BaseInv'
    <2>1. /\ inbox' = Append(inbox, t) /\ edges' = edges \cup {"readable"}
          /\ UNCHANGED <<now, conns, rd, sock, loop, app, accepted, own, late>>
      BY <1>3 DEF Arrive
    <2>2. inbox' \in Seq(Token) /\ edges' \subseteq Edge
      BY <2>1 DEF Types, Edge
    <2>3. Types'
      BY <2>1, <2>2 DEF Types, ConnsOK, ReadyOK
    <2> QED
      BY <2>1, <2>3 DEF SendFifo, EdgesServed, ReadyServed
  <1>4. CASE UNCHANGED vars
    BY <1>4 DEF vars, Types, ConnsOK, ReadyOK, SendFifo, EdgesServed, ReadyServed
  <1> QED
    BY <1>1, <1>2, <1>3, <1>4

(* Every step keeps types, the socket and the edges. *)
LEMMA BaseStep ==
    ASSUME BaseInv, [Next]_vars
    PROVE  BaseInv'
  <1>1. CASE LoopStep
    BY <1>1, PollingKeeps, OnQuicSendKeeps, OnUdpRecvKeeps, ReplyKeeps, OnUdpSendKeeps DEF LoopStep
  <1>2. ASSUME NEW a \in App, AppStep(a)
        PROVE  BaseInv'
    BY <1>2, RegisterKeeps, DeregisterKeeps, CallLockedKeeps, CallGuardedKeeps, GuardDropKeeps, WakeKeeps DEF AppStep
  <1>3. CASE Tick \/ Unblock \/ (\E t \in Token : Arrive(t)) \/ UNCHANGED vars
    BY <1>3, EnvironmentKeeps
  <1> QED
    BY <1>1, <1>2, <1>3 DEF Next

(* The invariant at the start. *)
LEMMA BaseStart == ASSUME Init PROVE BaseInv
  <1>1. now \in Instant
    BY TimeAssumption DEF Init, Instant
  <1>2. ConnsOK(conns) /\ ReadyOK(rd) /\ DOMAIN rd.delayed = {} /\ rd.events = {}
    BY DEF Init, ConnsOK, ReadyOK, empty_readiness
  <1>3. sock \in Socket /\ sock.sending = <<>> /\ sock.wire = <<>>
    BY DEF Init, Socket, new_socket
  <1>4. loop \in Loop /\ loop.ready = {}
    BY AnyTokenType DEF Init, Loop
  <1>5. app \in [App -> AppAt] /\ \A a \in App : app[a].pc = "idle"
    BY AnyTokenType DEF Init, AppAt
  <1>6. edges \subseteq Edge /\ inbox = <<>> /\ accepted = <<>> /\ own = {} /\ late = FALSE
    BY DEF Init, Edge
  <1>7. Types
    <2>1. inbox \in Seq(Token) /\ accepted \in Seq(Nat)
      BY <1>6
    <2>2. own \subseteq Event /\ late \in BOOLEAN
      BY <1>6
    <2> QED
      BY <1>1, <1>2, <1>3, <1>4, <1>5, <1>6, <2>1, <2>2 DEF Types
  <1>8. SendFifo
    BY <1>3, <1>6, LimitAssumption DEF SendFifo
  <1> QED
    BY <1>3, <1>4, <1>5, <1>6, <1>7, <1>8 DEF BaseInv, EdgesServed, ReadyServed

(* Types are kept: in particular an event is ready or delayed, never both, *)
(* whatever the order of insertions, removals and polls (readiness.rs).    *)
THEOREM TypeCorrect == Spec => []TypeOK
  <1>1. BaseInv => TypeOK
    BY TypesGiveTypeOK DEF BaseInv
  <1> QED
    BY <1>1, BaseStart, BaseStep, PTL DEF Spec

(* Packets leave in the order in which send_to took them, none that it     *)
(* took is lost, and the queue stays within its limit (udp.rs), for every  *)
(* limit and however often the kernel blocks or fails.                     *)
THEOREM SendFifoHolds == Spec => []SendFifo
  <1>1. BaseInv => SendFifo
    BY DEF BaseInv
  <1> QED
    BY <1>1, BaseStart, BaseStep, PTL DEF Spec

(* Unless poll has failed, whatever waits in a queue still has its edge to *)
(* be reported (on_udp_send, on_udp_recv): edge-triggered polling forgets  *)
(* nothing.                                                                *)
THEOREM EdgesServedHolds == Spec => []EdgesServed
  <1>1. BaseInv => EdgesServed
    BY DEF BaseInv
  <1> QED
    BY <1>1, BaseStart, BaseStep, PTL DEF Spec

-----------------------------------------------------------------------------
(* The invariant about waking up.  From the moment poll has asked for      *)
(* events until it wakes, the readiness set changes only by poll's own     *)
(* sends or by an application that has yet to call the waker, or whose     *)
(* call mio has yet to report.                                             *)

Undisturbed ==
    /\ loop.pc \in {"handle", "sleep"}
    /\ "waker" \notin edges
    /\ \A a \in App : app[a].pc # "wake"

(* Nothing is ready but what poll itself inserted. *)
EventsOwned == Undisturbed => rd.events \subseteq own

(* What was delayed when poll asked is due no earlier than its deadline. *)
DelaysOwned ==
    Undisturbed /\ (loop.pc = "handle" \/ ~late) =>
        \A e \in DOMAIN rd.delayed \ own : loop.deadline # Never /\ loop.deadline <= rd.delayed[e]

(* A Send event that is still to be handled was taken out by poll, and is  *)
(* not in the set again.                                                   *)
SendsGone ==
    Undisturbed /\ loop.pc = "handle" =>
        \A e \in loop.todo : e.kind = "Send" => e \notin DOMAIN rd.delayed

WakeInv == EventsOwned /\ DelaysOwned /\ SendsGone

(* A step after which poll is elsewhere, or is about to be woken. *)
LEMMA Disturbed == ASSUME ~Undisturbed' PROVE WakeInv'
  BY DEF WakeInv, EventsOwned, DelaysOwned, SendsGone

(* A step that leaves the readiness set and poll alone. *)
LEMMA WakeFrame ==
    ASSUME WakeInv, Undisturbed' => Undisturbed, UNCHANGED <<rd, loop, own, late>>
    PROVE  WakeInv'
  BY DEF WakeInv, EventsOwned, DelaysOwned, SendsGone

(* poll asks for events. *)
LEMMA PollWakes ==
    ASSUME BaseInv, Poll
    PROVE  WakeInv'
  <1> DEFINE at == next_release_time(rd, now)
             es == polled(rd, now)
             q == poll(rd, now)
  <1>1. /\ q.events = {}
        /\ DOMAIN q.delayed \cap es = {}
        /\ \A e \in DOMAIN q.delayed : at # Never /\ at <= q.delayed[e]
    BY PollKeeps DEF BaseInv, Types
  <1>2. loop' = [loop EXCEPT !.pc = "handle", !.deadline = at, !.todo = es] /\ rd' = q
    BY DEF Poll
  <1> HIDE DEF at, es, q
  <1>3. loop'.deadline = at /\ loop'.todo = es
    BY <1>2 DEF BaseInv, Types, Loop
  <1> QED
    BY <1>1, <1>2, <1>3 DEF WakeInv, EventsOwned, DelaysOwned, SendsGone

(* poll goes to sleep. *)
LEMMA SleepWakes ==
    ASSUME BaseInv, WakeInv, Sleep
    PROVE  WakeInv'
  <1>1. /\ loop.pc = "handle" /\ UNCHANGED <<rd, edges, app, own>>
        /\ late' = (loop.deadline # Never /\ loop.deadline < now)
        /\ loop' = [loop EXCEPT !.pc = "sleep", !.deadline = checked_duration_since(loop.deadline)]
    BY DEF Sleep, Handled
  <1>2. loop'.pc = "sleep" /\ loop'.deadline = checked_duration_since(loop.deadline)
    BY <1>1 DEF BaseInv, Types, Loop
  <1>3. Undisturbed' => Undisturbed
    BY <1>1 DEF Undisturbed
  <1>4. ~late' => loop'.deadline = loop.deadline
    <2>1. loop.deadline \in Instant \cup {Never} /\ now \in Instant
      BY DEF BaseInv, Types, Loop
    <2>2. loop.deadline # Never => (loop.deadline < now \/ loop.deadline >= now)
      BY <2>1 DEF Instant
    <2> QED
      BY <2>2, <1>1, <1>2 DEF checked_duration_since
  <1> QED
    BY <1>1, <1>2, <1>3, <1>4 DEF WakeInv, EventsOwned, DelaysOwned, SendsGone

(* poll handles a Send event: what the send inserts is poll's own. *)
LEMMA OnQuicSendWakes ==
    ASSUME BaseInv, WakeInv, NEW e \in loop.todo, on_quic_send(e)
    PROVE  WakeInv'
  <1> DEFINE next == [loop EXCEPT !.todo = loop.todo \ {e}]
             mine == [token |-> e.token, kind |-> "Send"]
  <1>1. PICK r \in SendResults(e.token) :
           /\ Becomes(r.g)
           /\ own' = own \cup {f \in Event : Place(r.g.rd, f) \notin {Place(rd, f), "none"}}
           /\ Hand(r.packet, next)
    BY DEF on_quic_send
  <1>2. e \in Event /\ e.token \in Token /\ e = mine /\ loop.pc = "handle" /\ e.kind = "Send"
    BY DEF BaseInv, Types, Loop, Event, on_quic_send
  <1>3. Good(r.g, e.token) /\ r.packet \in BOOLEAN
    BY <1>2, SendGood DEF BaseInv, Types
  <1>4. /\ ReadyOK(rd')
        /\ \A f \in DOMAIN rd'.delayed : f # e => f \in DOMAIN rd.delayed /\ rd'.delayed[f] = rd.delayed[f]
    BY <1>1, <1>2, <1>3 DEF Good, DelaysKept, Becomes
  <1>5. next \in Loop /\ next.todo = loop.todo \ {e} /\ next.deadline = loop.deadline /\ next.pc = "handle"
    BY <1>2 DEF BaseInv, Types, Loop
  <1>6. /\ loop'.todo = loop.todo \ {e} /\ loop'.deadline = loop.deadline
        /\ loop'.pc \in {"handle", "failed"}
    <2> HIDE DEF next
    <2> QED
      BY <1>1, <1>3, <1>5, HandKeeps DEF BaseInv
  <1>7. Undisturbed' => Undisturbed
    BY <1>2, <1>6 DEF on_quic_send, Undisturbed
  <1>8. \A f \in Event : Place(rd', f) \notin {Place(rd, f), "none"} => f \in own'
    BY <1>1 DEF Becomes
  <1>9. own \subseteq own'
    BY <1>1
  <1>10. EventsOwned'
    <2>1. ASSUME NEW f \in rd'.events, f \notin rd.events
          PROVE  f \in own'
      <3>1. f \in Event /\ Place(rd', f) = "ready" /\ Place(rd, f) # "ready"
        BY <2>1, <1>4 DEF ReadyOK, Place
      <3> QED
        BY <3>1, <1>8
    <2> QED
      BY <2>1, <1>7, <1>9 DEF WakeInv, EventsOwned
  <1>11. ASSUME Undisturbed, e \in DOMAIN rd'.delayed
         PROVE  e \in own'
    <2>1. e \notin DOMAIN rd.delayed
      BY <1>2, <1>11 DEF WakeInv, SendsGone
    <2>2. e \notin rd'.events
      BY <1>4, <1>11 DEF ReadyOK
    <2>3. Place(rd', e) = "delayed" /\ Place(rd, e) # "delayed"
      BY <1>11, <2>1, <2>2 DEF Place
    <2> QED
      BY <2>3, <1>2, <1>8
  <1>12. DelaysOwned'
    BY <1>2, <1>4, <1>6, <1>7, <1>9, <1>11 DEF WakeInv, DelaysOwned
  <1>13. SendsGone'
    BY <1>2, <1>4, <1>6, <1>7 DEF WakeInv, SendsGone
  <1> QED
    BY <1>10, <1>12, <1>13 DEF WakeInv

(* The other steps of poll lead away from sleep. *)
LEMMA ElsewhereWakes ==
    ASSUME BaseInv, Call \/ Return \/ WakeUp \/ Again \/ on_udp_recv \/ Reply \/ on_udp_send
    PROVE  WakeInv'
  <1> SUFFICES loop'.pc \notin {"handle", "sleep"}
    BY Disturbed DEF Undisturbed
  <1> USE DEF BaseInv, Types, Loop
  <1>1. CASE Call \/ Return \/ WakeUp \/ Again
    BY <1>1 DEF Call, Return, WakeUp, Again, Goto
  <1>2. CASE on_udp_send
    BY <1>2 DEF on_udp_send
  <1>3. CASE Reply
    <2> DEFINE next == [loop EXCEPT !.pc = "events", !.token = AnyToken]
    <2>1. PICK r \in SendResults(loop.token) : Hand(r.packet, next)
      BY <1>3 DEF Reply
    <2>2. next \in Loop /\ next.pc = "events"
      BY AnyTokenType
    <2>3. r.packet \in BOOLEAN
      BY SendGood
    <2> HIDE DEF next
    <2> QED
      BY <2>1, <2>2, <2>3, HandKeeps
  <1>4. CASE on_udp_recv
    <2>1. loop.pc = "events"
      BY <1>4 DEF on_udp_recv
    <2>2. CASE loop' = [loop EXCEPT !.ready = loop.ready \ {"readable"}] \/ Goto("failed")
      BY <2>1, <2>2 DEF Goto
    <2>3. CASE RecvPacket(Head(inbox))
      <3>1. CASE \E u, n : n \in {"events", "reply"} /\ Received(u, n)
        BY <3>1 DEF Received
      <3>2. CASE Hand(TRUE, loop)
        BY <3>2, <2>1, HandKeeps
      <3> QED
        BY <2>3, <3>1, <3>2, Zenon DEF RecvPacket
    <2> QED
      BY <1>4, <2>2, <2>3 DEF on_udp_recv
  <1> QED
    BY <1>1, <1>2, <1>3, <1>4

(* The application's operations end with a call of the waker. *)
LEMMA AppWakes ==
    ASSUME BaseInv, WakeInv, NEW a \in App, AppStep(a)
    PROVE  WakeInv'
  <1>0. app \in [App -> AppAt]
    BY DEF BaseInv, Types
  <1>1. CASE \E t \in Token : Register(a, t) \/ Deregister(a, t) \/ CallLocked(a, t)
    <2>0. PICK t \in Token : app' = [app EXCEPT ![a] = [pc |-> "wake", token |-> t]]
      BY <1>1, Zenon DEF Register, Deregister, CallLocked
    <2>1. app'[a].pc = "wake"
      BY <1>0, <2>0
    <2> QED
      BY <2>1, Disturbed DEF Undisturbed
  <1>2. CASE GuardDrop(a)
    <2>1. CASE app[a].token \in DOMAIN conns
      <3>1. app'[a].pc = "wake"
        BY <1>0, <1>2, <2>1 DEF GuardDrop, AppAt
      <3> QED
        BY <3>1, Disturbed DEF Undisturbed
    <2>2. CASE app[a].token \notin DOMAIN conns
      <3>1. app[a].pc # "wake" /\ UNCHANGED <<rd, loop, own, late, edges>>
            /\ \A b \in App : b # a => app'[b] = app[b]
        BY <1>0, <1>2, <2>2 DEF GuardDrop
      <3>2. Undisturbed' => Undisturbed
        BY <3>1 DEF Undisturbed
      <3> QED
        BY <3>1, <3>2, WakeFrame
    <2> QED
      BY <2>1, <2>2
  <1>3. CASE Wake(a)
    BY <1>3, Disturbed DEF Wake, Undisturbed
  <1>4. ASSUME NEW t \in Token, CallGuarded(a, t)
        PROVE  WakeInv'
    <2>1. Undisturbed' => Undisturbed
      <3>1. app[a].pc # "wake" /\ \A b \in App : b # a => app'[b] = app[b]
        BY <1>0, <1>4 DEF CallGuarded
      <3> QED
        BY <3>1, <1>4 DEF CallGuarded, Undisturbed
    <2> QED
      BY <2>1, <1>4, WakeFrame DEF CallGuarded
  <1> QED
    BY <1>1, <1>2, <1>3, <1>4 DEF AppStep

(* Every step keeps it. *)
LEMMA WakeStep ==
    ASSUME BaseInv, WakeInv, [Next]_vars
    PROVE  WakeInv'
  <1>1. CASE LoopStep
    BY <1>1, PollWakes, SleepWakes, OnQuicSendWakes, ElsewhereWakes DEF LoopStep
  <1>2. ASSUME NEW a \in App, AppStep(a)
        PROVE  WakeInv'
    BY <1>2, AppWakes
  <1>3. CASE Tick \/ Unblock \/ (\E t \in Token : Arrive(t)) \/ UNCHANGED vars
    <2>1. UNCHANGED <<rd, loop, own, late, app>> /\ edges \subseteq edges'
      BY <1>3 DEF Tick, Unblock, Arrive, vars
    <2>2. Undisturbed' => Undisturbed
      BY <2>1 DEF Undisturbed
    <2> QED
      BY <2>1, <2>2, WakeFrame
  <1> QED
    BY <1>1, <1>2, <1>3 DEF Next

(* At the start poll has not been called. *)
LEMMA WakeStart == ASSUME Init PROVE WakeInv
  <1>1. ~Undisturbed
    BY DEF Init, Undisturbed
  <1> QED
    BY <1>1 DEF WakeInv, EventsOwned, DelaysOwned, SendsGone

(* Asleep with nothing to wake it, poll (mio/src/group.rs) has missed no   *)
(* event that an application's operation or a packet raised, for any       *)
(* number of connections and threads: only what it raised itself while it  *)
(* handled Send events.                                                    *)
THEOREM NoLostWakeupHolds == Spec => []NoLostWakeup
  <1>1. WakeInv => NoLostWakeup
    BY DEF WakeInv, EventsOwned, NoLostWakeup, Asleep, Undisturbed
  <1> QED
    BY <1>1, BaseStart, BaseStep, WakeStart, WakeStep, PTL DEF Spec

(* Asleep, poll is woken at the latest when a delayed event that it did    *)
(* not insert itself is due, unless the instant it had computed passed     *)
(* before it slept (mio_poll_once).                                        *)
THEOREM TimelySleepHolds == Spec => []TimelySleep
  <1>1. WakeInv => TimelySleep
    BY DEF WakeInv, DelaysOwned, TimelySleep, Asleep, Undisturbed
  <1> QED
    BY <1>1, BaseStart, BaseStep, WakeStart, WakeStep, PTL DEF Spec
=============================================================================
