----------------------------- MODULE MCFutures -----------------------------
(***************************************************************************)
(* Futures with one connection and one stream of the peer.  The connection *)
(* is one of two, each outbound or inbound: of the first, one task waits   *)
(* for the connection and the other accepts, reads and writes a stream; of *)
(* the second, one task opens streams while the other accepts.             *)
(***************************************************************************)
EXTENDS Futures

CONSTANTS conn, stream

MCCalls == [t \in Task |-> Call \cap
    CASE t = conn   -> {event("Accept", 1, 0), event("Connected", 1, 0), event("StreamOpenBidi", 2, 0)}
      [] t = stream -> {event("StreamAccept", 1, 0), event("StreamRecv", 1, 1), event("StreamSend", 1, 1),
                        event("StreamAccept", 2, 0)}]

(* Nothing but StopEnds looks at stops. *)
View == <<accept, entries, wakers, incoming_conns, established_conns, incoming_streams, shutdown,
          task, dropped, taken, handed, quic, events, runner, batch>>
=============================================================================
