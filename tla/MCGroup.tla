------------------------------ MODULE MCGroup ------------------------------
(***************************************************************************)
(* Group on small instances.  The threads and the connection ids are model *)
(* values; each cfg chooses the operations that the threads call.          *)
(***************************************************************************)
EXTENDS Group

CONSTANTS rx, app, app2, c1, s1

(* Two states that differ in what no step and no checked invariant looks   *)
(* at, the events other than Send and the handshake's completion, are one  *)
(* state to TLC in the runs that use this view.                            *)
SendView ==
    <<token_next, [t \in DOMAIN conns |-> [conns[t] EXCEPT !.established = FALSE, !.q.established = FALSE]],
      {e \in rd.events : e.kind = "Send"}, rd.delayed, unparkers, scids, th, handed, dangling>>
=============================================================================
