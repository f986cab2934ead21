--------------------------- MODULE TimedReadiness ---------------------------
(***************************************************************************)
(* The readiness set of a group with its instants (`Readiness`,            *)
(* poll/src/readiness.rs) and the release times of a connection            *)
(* (poll/src/utils.rs).  ReadySet is the same set without the clock.       *)
(*                                                                         *)
(* The priority queue of delayed events is a function from events to       *)
(* instants: pushing an event again changes its instant.                   *)
(***************************************************************************)
EXTENDS Naturals, FiniteSetsExt

CONSTANTS
    Never,          \* None, where the code has an Option<Instant>
    MaxTime,        \* bound: the clock stops here
    Threshold       \* release_timer_threshold

Instant == 0 .. MaxTime

ASSUME TimeAssumption == MaxTime \in Nat /\ Threshold \in Nat /\ Never \notin Instant

-----------------------------------------------------------------------------
(* utils.rs *)

min_of_some(v1, v2) ==
    IF v1 = Never THEN v2 ELSE IF v2 = Never THEN v1 ELSE Min({v1, v2})

(* quiche's ReleaseDecision::time: an instant that has passed is none. *)
time(release, now) == IF release # Never /\ release > now THEN release ELSE Never

(* When the next packet may leave: None is at once, or if a send has just  *)
(* found nothing to do, not before something else happens.                 *)
delay_send(timer, release, now, send_done) ==
    LET at == time(release, now)
    IN  IF send_done \/ at # Never THEN min_of_some(timer, at) ELSE Never

(* The pacer holds a packet back. *)
release_time(release, now) == time(release, now) # Never /\ release > now + Threshold

-----------------------------------------------------------------------------
(* readiness.rs *)

empty_readiness == [events |-> {}, delayed |-> [e \in {} |-> Never]]

Drop(f, es) == [e \in DOMAIN f \ es |-> f[e]]

(* Faulty: a ready event that is inserted again with a delay stays ready. *)
insert_Both(rd, es, delay_to) ==
    IF delay_to = Never
    THEN [events |-> rd.events \cup es, delayed |-> Drop(rd.delayed, es)]
    ELSE [rd EXCEPT !.delayed = [e \in DOMAIN @ \cup es |-> IF e \in es THEN delay_to ELSE @[e]]]

insert(rd, es, delay_to) ==
    IF delay_to = Never
    THEN [events |-> rd.events \cup es, delayed |-> Drop(rd.delayed, es)]
    ELSE [events |-> rd.events \ es,
          delayed |-> [e \in DOMAIN rd.delayed \cup es |-> IF e \in es THEN delay_to ELSE rd.delayed[e]]]

remove(rd, es) == [events |-> rd.events \ es, delayed |-> Drop(rd.delayed, es)]

Due(rd, now) == {e \in DOMAIN rd.delayed : rd.delayed[e] <= now + Threshold}

(* poll: what it hands out, what it leaves, and the instant it returns. *)
polled(rd, now) == rd.events \cup Due(rd, now)

poll(rd, now) == [events |-> {}, delayed |-> Drop(rd.delayed, Due(rd, now))]

(* Faulty: the latest of the instants left. *)
next_release_time_Latest(rd, now) ==
    LET left == {rd.delayed[e] : e \in DOMAIN rd.delayed \ Due(rd, now)}
    IN  IF left = {} THEN Never ELSE Max(left)

next_release_time(rd, now) ==
    LET left == {rd.delayed[e] : e \in DOMAIN rd.delayed \ Due(rd, now)}
    IN  IF left = {} THEN Never ELSE Min(left)
=============================================================================
