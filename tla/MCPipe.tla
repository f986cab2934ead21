------------------------------- MODULE MCPipe -------------------------------
(***************************************************************************)
(* A small ring buffer, used alone with all its operations and two byte    *)
(* values, or as the buffer of a pipe whose callers' buffers are not empty *)
(* and hold one value, which is all that the pipe's control tells apart.   *)
(***************************************************************************)
EXTENDS Pipe

VARIABLE alone

mcvars == <<vars, alone>>

MCInit == PipeInit /\ alone \in BOOLEAN

MCNext ==
    /\ \/ alone /\ RingNext /\ UNCHANGED pipeVars
       \/ ~alone /\ PipeNext /\ \A i \in DOMAIN memory_block' : memory_block'[i] < 2
    /\ UNCHANGED alone

MCSpec == MCInit /\ [][MCNext]_mcvars /\ WF_mcvars(~alone /\ ReaderPolls /\ UNCHANGED alone)
=============================================================================
