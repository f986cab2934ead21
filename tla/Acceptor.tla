------------------------------ MODULE Acceptor ------------------------------
(***************************************************************************)
(* How a server admits connections (`Acceptor`, `SimpleAddressValidator`,  *)
(* api/src/acceptor.rs): a first packet is answered by a Retry with a      *)
(* token, and a packet that brings the token back from the same address    *)
(* opens the connection.  The server keeps nothing in between: all it      *)
(* knows of a client is in the token.                                      *)
(*                                                                         *)
(* Any packet may arrive at any time (Datagram): a first one, one that     *)
(* brings a token back late, again, from another address or to another id, *)
(* one with a token that this server did not make, and a late one of a     *)
(* connection that is gone.  A packet of a known connection id goes to its *)
(* connection (Group!recv_with_acceptor) and is left out.                  *)
(*                                                                         *)
(* Bytes are counted in units: an address is a sequence of octets, the     *)
(* timestamp, a connection id and the digest are one unit each.            *)
(***************************************************************************)
EXTENDS Integers, Sequences

CONSTANTS
    Ip,             \* the clients' addresses, sequences of octets of any length
    Cid,            \* connection ids
    NoToken,        \* Header.token of packets that are not Initial
    StrayText,      \* texts, without a digest, of tokens that this server did not make
    TicksPerSec,    \* the clock's resolution; a token's timestamp has whole seconds
    Expiry,         \* the token expiration interval, in ticks
    MaxTime,        \* bound: the clock stops here
    MaySet          \* whether the wall clock may be set back

ASSUME ClockAssumption ==
    TicksPerSec \in Nat \ {0} /\ Expiry \in Nat /\ MaxTime \in Nat /\ MaySet \in BOOLEAN

ASSUME AddressAssumption == \A ip \in Ip : ip \in Seq({ip[n] : n \in DOMAIN ip})

ASSUME TokenAssumption == NoToken # <<>>

ASSUME StrayAssumption == \A text \in StrayText : text \in Seq({text[n] : n \in DOMAIN text})

VARIABLES
    now,        \* SystemTime::now(), in ticks
    conns,      \* the connections opened, by connection id
    used,       \* the connection ids of packets answered and of Retries, none is drawn again
    result,     \* what the last handshake came to
    panic,      \* where the server has stopped
    minted,     \* history: the tokens given out
    opened,     \* history: the ids that connections were opened under
    set         \* history: the clock was set back

vars == <<now, conns, used, result, panic, minted, opened, set>>

-----------------------------------------------------------------------------
(* Tokens. *)

Secs(t) == t \div TicksPerSec

(* Sha256 of a seed and a text; different inputs have different digests,   *)
(* and only this validator knows its seed.                                 *)
Sha256(seed, text) == [seed |-> seed, text |-> text]

Seed == "own"

(* Faulty: the timestamp is rounded to the next second. *)
mint_retry_token_Ceiling(dcid, new_scid, ip) ==
    LET text == ip \o <<Secs(now + TicksPerSec - 1), dcid>>
    IN  Append(text, Sha256(Seed, Append(text, new_scid)))

(* ip, timestamp, odcid, and the digest of the seed, these and the new id. *)
mint_retry_token(dcid, new_scid, ip) ==
    LET text == ip \o <<Secs(now), dcid>>
    IN  Append(text, Sha256(Seed, Append(text, new_scid)))

(* What validate_address comes to: None, a panic of the subtraction, or    *)
(* Some(odcid).                                                            *)
Reject == [is |-> "None", odcid |-> <<>>]
Underflow == [is |-> "panic", odcid |-> <<>>]
Valid(odcid) == [is |-> "Some", odcid |-> odcid]

SameAddress(ip, token) == ip = SubSeq(token, 1, Len(ip))

(* Faulty: a token of exactly the expiration interval is refused. *)
Expired_Early(age) == age >= Expiry

Expired(age) == age > Expiry

(* Faulty: the timestamp is taken for a part of the id. *)
OriginalId_OffByOne(ip, token) == SubSeq(token, Len(ip) + 1, Len(token) - 1)

OriginalId(ip, token) == SubSeq(token, Len(ip) + 2, Len(token) - 1)

(* Faulty: the digest's text does not say which id the token is for. *)
Authentic_AnyId(dcid, token) ==
    LET sha256 == token[Len(token)]
    IN  sha256.seed = Seed /\ SubSeq(sha256.text, 1, Len(sha256.text) - 1) = SubSeq(token, 1, Len(token) - 1)

Authentic(dcid, token) ==
    token[Len(token)] = Sha256(Seed, Append(SubSeq(token, 1, Len(token) - 1), dcid))

validate_address(dcid, ip, token) ==
    LET n == Len(ip)
        age == now - token[n + 1] * TicksPerSec
    IN  IF n + 2 > Len(token) \/ ~SameAddress(ip, token) THEN Reject
        ELSE IF age < 0 THEN Underflow
        ELSE IF Expired(age) \/ ~Authentic(dcid, token) THEN Reject
        ELSE Valid(OriginalId(ip, token))

-----------------------------------------------------------------------------
(* Packets.  A packet with a short header has no version, which counts as  *)
(* one that is not supported; only Initial packets have a token.           *)

First == [dcid : Cid, version : {"v1", "other"}, token : {<<>>}, ip : Ip]

(* Any text with any digest at hand: one made with another seed, or one of *)
(* a token that was given out; to any id, from any address.  Among them    *)
(* are the tokens given out, and a client that returns its own.            *)
Return ==
    LET texts == StrayText \cup {SubSeq(r.token, 1, Len(r.token) - 1) : r \in minted}
        digests == {Sha256("other", <<>>)} \cup {r.token[Len(r.token)] : r \in minted}
    IN  [dcid : Cid, version : {"v1"}, token : {Append(text, d) : text \in texts, d \in digests}, ip : Ip]

(* Handshake packets and packets with a short header *)
Late == [dcid : opened, version : {"v1", "none"}, token : {NoToken}, ip : Ip]

Datagram == First \cup Return \cup Late

version_is_supported(version) == version = "v1"

With(f, k, v) == [j \in DOMAIN f \cup {k} |-> IF j = k THEN v ELSE f[j]]

-----------------------------------------------------------------------------
(* The server: handshake, for a packet of no connection.  An error of      *)
(* quiche loses the packet.                                                *)

negotiate_version(p) ==
    /\ ~version_is_supported(p.version)
    /\ result' = "versions"
    /\ UNCHANGED <<conns, used, panic, minted, opened>>

retry(p) ==
    /\ version_is_supported(p.version)
    /\ p.token = <<>>
    /\ \E new_scid \in Cid \ (used \cup {p.dcid}) :
          /\ used' = used \cup {p.dcid, new_scid}
          /\ minted' = minted \cup {[token |-> mint_retry_token(p.dcid, new_scid, p.ip), ip |-> p.ip,
                                     odcid |-> p.dcid, scid |-> new_scid, at |-> now]}
    /\ result' = "retry"
    /\ UNCHANGED <<conns, panic, opened>>

accept(p) ==
    /\ version_is_supported(p.version)
    /\ p.token \notin {<<>>, NoToken}
    /\ LET v == validate_address(p.dcid, p.ip, p.token)
       IN  \/ /\ v.is = "Some"
              /\ conns' = With(conns, p.dcid, [odcid |-> v.odcid, ip |-> p.ip, at |-> now])
              /\ opened' = opened \cup {p.dcid}
              /\ result' = "accept"
              /\ UNCHANGED panic
           \/ /\ v.is = "None"
              /\ result' = "invalid"
              /\ UNCHANGED <<conns, panic, opened>>
           \/ /\ v.is = "panic"
              /\ panic' = "clock"
              /\ UNCHANGED <<conns, opened, result>>
    /\ UNCHANGED <<used, minted>>

(* header.token.as_ref().unwrap() *)
unwrap(p) ==
    /\ version_is_supported(p.version)
    /\ p.token = NoToken
    /\ panic' = "token"
    /\ UNCHANGED <<conns, used, result, minted, opened>>

handshake ==
    /\ panic = "none"
    /\ \E p \in Datagram :
          /\ p.dcid \notin DOMAIN conns
          /\ negotiate_version(p) \/ retry(p) \/ accept(p) \/ unwrap(p)
    /\ UNCHANGED <<now, set>>

(* A connection ends and leaves the group. *)
Remove ==
    /\ panic = "none"
    /\ \E c \in DOMAIN conns : conns' = [d \in DOMAIN conns \ {c} |-> conns[d]]
    /\ UNCHANGED <<now, used, result, panic, minted, opened, set>>

-----------------------------------------------------------------------------
(* The clock. *)

Tick ==
    /\ now < MaxTime
    /\ now' = now + 1
    /\ UNCHANGED <<conns, used, result, panic, minted, opened, set>>

SetBack ==
    /\ MaySet
    /\ ~set
    /\ now' \in 0 .. now - 1
    /\ set' = TRUE
    /\ UNCHANGED <<conns, used, result, panic, minted, opened>>

-----------------------------------------------------------------------------
Init ==
    /\ now = 0
    /\ conns = [c \in {} |-> c]
    /\ used = {}
    /\ result = "none"
    /\ panic = "none"
    /\ minted = {}
    /\ opened = {}
    /\ set = FALSE

Next == handshake \/ Remove \/ Tick \/ SetBack

Spec == Init /\ [][Next]_vars

-----------------------------------------------------------------------------
(* Properties. *)

(* The types; a connection's original id, recovered from a token's bytes   *)
(* (validate_address), is one connection id.                               *)
TypeOK ==
    /\ now \in 0 .. MaxTime
    /\ DOMAIN conns \subseteq opened
    /\ \A c \in DOMAIN conns : \E o \in Cid, i \in Ip, t \in 0 .. MaxTime :
          conns[c] = [odcid |-> <<o>>, ip |-> i, at |-> t]
    /\ opened \subseteq used
    /\ used \subseteq Cid
    /\ result \in {"none", "versions", "retry", "accept", "invalid"}
    /\ panic \in {"none", "clock", "token"}

(* A connection is opened only to who received a Retry: a token was given  *)
(* out, at the client's present address, for the connection's id and the   *)
(* original id that validate_address recovers from the token's bytes, no   *)
(* longer ago than the expiration interval.  Tokens come back late, again, *)
(* from other addresses and to other ids, and put together from parts.     *)
AcceptedWasRetried ==
    \A c \in DOMAIN conns : \E r \in minted :
        /\ r.scid = c
        /\ <<r.odcid>> = conns[c].odcid
        /\ r.ip = conns[c].ip
        /\ conns[c].at - r.at <= Expiry

(* The timestamp's truncation to seconds costs a client less than a second *)
(* of the interval: a token that comes back earlier from where it was sent *)
(* is good, unless the clock was set back.                                 *)
FreshIsValid ==
    \A r \in minted : ~set /\ now - r.at + (TicksPerSec - 1) <= Expiry =>
        validate_address(r.scid, r.ip, r.token) = Valid(<<r.odcid>>)

(* "now - timestamp" (validate_address) panics on underflow, before the    *)
(* digest is looked at.  A token of this server does not bring that about, *)
(* to whatever id and from whatever address it comes back, unless the      *)
(* clock was set back.  Of other tokens nothing of the kind can be said.   *)
OwnTokenNoUnderflow ==
    ~set => \A r \in minted, dcid \in Cid, ip \in Ip : validate_address(dcid, ip, r.token) # Underflow

(* "Safety: present in `Initial` packet" (handshake): a header has a token *)
(* where it is unwrapped.                                                  *)
TokenPresent == panic # "token"
=============================================================================
