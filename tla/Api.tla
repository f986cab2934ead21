-------------------------------- MODULE Api --------------------------------
(***************************************************************************)
(* The vocabulary of the `zerortt_api` crate that the connection group     *)
(* uses: how a QUIC stream id encodes its initiator and its direction, and *)
(* the readiness events a group raises.                                    *)
(***************************************************************************)
EXTENDS Integers

(* Bit 0 of a stream id is the initiator's role, bit 1 its direction.      *)
is_local(stream_id, is_server) == (stream_id % 2 = 1) <=> is_server

is_bidi(stream_id) == (stream_id \div 2) % 2 = 0

EventKind == {"Send", "Recv", "Connected", "Accept", "Closed", "StreamOpenBidi",
              "StreamOpenUni", "StreamAccept", "StreamSend", "StreamRecv", "ReadLock"}
=============================================================================
