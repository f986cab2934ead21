----------------------------- MODULE MCMioGroup -----------------------------
(***************************************************************************)
(* MioGroup on a small instance, in one of four sizes chosen at the start: *)
(* one connection and a busy socket while the clock stands still; one      *)
(* connection with every timer; two connections with nothing to send but   *)
(* their timers; and a second application thread that meets the first at   *)
(* one connection.                                                         *)
(***************************************************************************)
EXTENDS MioGroup

VARIABLE size

mcvars == <<vars, size>>

MCInit == Init /\ size \in {"socket", "pacer", "pair", "guards"}

Quiet == Len(accepted') <= 1 /\ inbox' = <<>> /\ ~sock'.blocked

AnyApp == CHOOSE a \in App : TRUE

Alone == \A a \in App : a # AnyApp => app'[a].pc = "idle"

Within ==
    \/ /\ size = "socket"
       /\ Alone
       /\ now' = 0
       /\ \A t \in DOMAIN conns' : t = AnyToken /\ conns'[t].timer = Never /\ conns'[t].release = Never
    \/ /\ size = "pacer"
       /\ Alone /\ Quiet
       /\ DOMAIN conns' \subseteq {AnyToken}
    \/ /\ size = "pair"
       /\ Alone /\ Quiet /\ accepted' = <<>>
       /\ \A t \in DOMAIN conns' : ~conns'[t].locked /\ conns'[t].release = Never
       /\ \A e \in rd'.events : e.kind # "App"
    \/ /\ size = "guards"
       /\ Quiet /\ accepted' = <<>>
       /\ now' = 0
       /\ \A t \in DOMAIN conns' : t = AnyToken /\ conns'[t].timer = Never /\ conns'[t].release = Never

MCNext == Next /\ Within /\ UNCHANGED size

MCSpec == MCInit /\ [][MCNext]_mcvars
=============================================================================
