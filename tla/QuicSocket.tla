----------------------------- MODULE QuicSocket -----------------------------
(***************************************************************************)
(* The sending side of a UDP socket (`QuicSocket`, mio/src/udp.rs): a      *)
(* bounded queue of the packets that the kernel would not take yet.        *)
(*                                                                         *)
(* A socket is a record: its queue, what the kernel took so far, and       *)
(* whether the kernel refuses more (WouldBlock).  An operation is the set  *)
(* of its results, since the kernel decides how many packets it takes.     *)
(***************************************************************************)
EXTENDS Naturals, Sequences

CONSTANT Limit      \* sending_buffer_limits

ASSUME LimitAssumption == Limit \in Nat \ {0}

new_socket == [sending |-> <<>>, wire |-> <<>>, blocked |-> FALSE]

is_full(s) == Len(s.sending) = Limit

Answer(s, res) == [s |-> s, res |-> res]

(* The first n packets leave the queue; then it is empty, or the kernel    *)
(* would block, or it fails for another reason.                            *)
Taken(s, n) == [s EXCEPT !.wire = @ \o SubSeq(s.sending, 1, n),
                         !.sending = SubSeq(@, n + 1, Len(@))]

(* Faulty: a packet is popped before it is sent. *)
flush_PopsFirst(s) ==
    LET some == IF s.blocked THEN {0} ELSE 0 .. Len(s.sending) - 1
        gone(n) == [Taken(s, n) EXCEPT !.sending = Tail(@)]
    IN  IF s.sending = <<>> THEN {Answer(s, "Ok")}
        ELSE (IF s.blocked THEN {} ELSE {Answer(Taken(s, Len(s.sending)), "Ok")})
             \cup {Answer([gone(n) EXCEPT !.blocked = TRUE], "WouldBlock") : n \in some}
             \cup {Answer(gone(n), "IO") : n \in some}

(* Faulty: one packet is sent where all should be. *)
flush_Once(s) ==
    IF s.sending = <<>> THEN {Answer(s, "Ok")}
    ELSE (IF s.blocked THEN {} ELSE {Answer(Taken(s, 1), "Ok")})
         \cup {Answer([s EXCEPT !.blocked = TRUE], "WouldBlock"), Answer(s, "IO")}

flush(s) ==
    LET some == IF s.blocked THEN {0} ELSE 0 .. Len(s.sending) - 1
    IN  IF s.sending = <<>> THEN {Answer(s, "Ok")}
        ELSE (IF s.blocked THEN {} ELSE {Answer(Taken(s, Len(s.sending)), "Ok")})
             \cup {Answer([Taken(s, n) EXCEPT !.blocked = TRUE], "WouldBlock") : n \in some}
             \cup {Answer(Taken(s, n), "IO") : n \in some}

(* A full queue is flushed first; if that makes no room the packet is      *)
(* refused.  WouldBlock counts as success, another error is passed on.     *)
(* took: the packet is in the queue or beyond it.                          *)
send_to(s, packet) ==
    LET first == IF is_full(s) THEN flush(s) ELSE {Answer(s, "Ok")}
        failed == {r \in first : r.res = "IO"}
        full == {r \in first \ failed : is_full(r.s)}
        pushed == UNION {flush([r.s EXCEPT !.sending = Append(@, packet)]) : r \in first \ (failed \cup full)}
    IN  {[s |-> r.s, res |-> "IO", took |-> FALSE] : r \in failed}
        \cup {[s |-> r.s, res |-> "IsFull", took |-> FALSE] : r \in full}
        \cup {[s |-> r.s, res |-> r.res, took |-> TRUE] : r \in pushed}
=============================================================================
