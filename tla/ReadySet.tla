------------------------------ MODULE ReadySet ------------------------------
(***************************************************************************)
(* The readiness set of a group (`Readiness`, poll/src/readiness.rs) as    *)
(* the connections see it: events that are ready and events that wait for  *)
(* their release time.  Instants are abstracted: an event is delayed or it *)
(* is not, and a poll may find any of the delayed ones due.  Several       *)
(* insertions of one caller are one insertion of a set of events.          *)
(***************************************************************************)

empty_readiness == [events |-> {}, delayed |-> {}]

(* insert(event, delay_to): an event is in one of the two parts, never in both. *)
insert(rd, es, delay) ==
    IF delay THEN [events |-> rd.events \ es, delayed |-> rd.delayed \cup es]
             ELSE [events |-> rd.events \cup es, delayed |-> rd.delayed \ es]

remove(rd, es) == [events |-> rd.events \ es, delayed |-> rd.delayed \ es]

(* poll: every ready event is handed out, and those of the delayed ones that are due. *)
polled(rd, due) == rd.events \cup due

poll(rd, due) == [events |-> {}, delayed |-> rd.delayed \ due]

pending(rd) == rd.events \cup rd.delayed
=============================================================================
