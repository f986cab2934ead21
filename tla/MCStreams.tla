----------------------------- MODULE MCStreams -----------------------------
(***************************************************************************)
(* The streams of one connection of a Group, in one of two parts chosen at *)
(* the start: every operation on one stream, or several inbound streams    *)
(* that are only read.                                                     *)
(***************************************************************************)
EXTENDS Group

VARIABLE part

mcvars == <<vars, part>>

MCInit == Init /\ part \in {"refusals", "inbound"}

Refused(c) == {loc.kind : loc \in c.reties}

Within ==
    \/ /\ part = "refusals"
       /\ \A p \in Thread : th'[p].id = 0
       /\ \A t \in DOMAIN conns' : conns'[t].q.readable \subseteq {0} /\ \A loc \in conns'[t].reties : loc.id = 0
    \/ /\ part = "inbound"
       /\ \A p \in Thread : th'[p].op # "StreamSend"
       /\ \A t \in DOMAIN conns' :
             /\ conns'[t].q.left_bidi = 0 /\ conns'[t].q.left_uni = 0 /\ conns'[t].q.writable = {}
             /\ 0 \notin conns'[t].q.readable
             /\ Refused(conns'[t]) \subseteq {"Recv", "StreamRecv"}

MCNext == Next /\ Within /\ UNCHANGED part

MCSpec == MCInit /\ [][MCNext]_mcvars /\ Fairness

(* Two states that differ in what no step and no checked property looks    *)
(* at, the handshake's completion and the events other than StreamAccept,  *)
(* are one state to TLC.                                                   *)
StreamView ==
    <<[t \in DOMAIN conns |-> [conns[t] EXCEPT !.established = FALSE, !.q.established = FALSE]],
      {e \in rd.events : e.kind = "StreamAccept"}, token_next, unparkers, scids, th, dangling, part>>
=============================================================================
