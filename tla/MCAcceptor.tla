----------------------------- MODULE MCAcceptor -----------------------------
(***************************************************************************)
(* Acceptor with addresses of two lengths, as IPv4 and IPv6 have.          *)
(***************************************************************************)
EXTENDS Acceptor, TLC

CONSTANTS x, y, z

MCIp == {<<x>>, <<y, z>>}

(* Texts with a timestamp of the past and one of the future, and one that  *)
(* is cut short.                                                           *)
MCStrayText == {ip \o <<s, x>> : ip \in Ip, s \in {0, Secs(MaxTime) + 1}} \cup {<<x>>}

Symmetry == Permutations(Cid)
=============================================================================
