----------------------------- MODULE ByteQueue -----------------------------
(***************************************************************************)
(* What a ring buffer promises: a bounded first-in first-out queue of      *)
(* bytes.  out is what the last operation that shows bytes has shown.      *)
(***************************************************************************)
EXTENDS Naturals, Sequences

CONSTANTS Byte, Capacity

VARIABLES queue, out

vars == <<queue, out>>

Init == queue = <<>> /\ out = <<>>

(* Bytes are appended as long as there is room. *)
Put == /\ \E n \in 1 .. Capacity - Len(queue) : \E bytes \in [1 .. n -> Byte] : queue' = queue \o bytes
       /\ UNCHANGED out

(* The oldest n bytes are shown and leave the queue. *)
Take == \E n \in 0 .. Len(queue) :
           /\ out' = SubSeq(queue, 1, n)
           /\ queue' = SubSeq(queue, n + 1, Len(queue))

(* The oldest n bytes are shown. *)
Peek == \E n \in 0 .. Len(queue) : out' = SubSeq(queue, 1, n) /\ UNCHANGED queue

(* The oldest n bytes leave the queue. *)
Drop == \E n \in 0 .. Len(queue) : queue' = SubSeq(queue, n + 1, Len(queue)) /\ UNCHANGED out

Next == Put \/ Take \/ Peek \/ Drop

Spec == Init /\ [][Next]_vars
=============================================================================
