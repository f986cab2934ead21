--------------------------- MODULE AcceptorProofs ---------------------------
(***************************************************************************)
(* The admission of connections, for any addresses, connection ids, clock  *)
(* resolution and expiration interval, and any tokens that others make:    *)
(* what validate_address makes of the bytes of a token, and what follows   *)
(* for the connections that are opened.                                    *)
(***************************************************************************)
EXTENDS Acceptor, SequenceTheorems, TLAPS

-----------------------------------------------------------------------------
(* The bytes of a token. *)

(* What is given out: the text, and its digest with the new id. *)
Text(ip, s, odcid) == ip \o <<s, odcid>>

Bytes(ip, s, odcid, scid) == Append(Text(ip, s, odcid), Sha256(Seed, Append(Text(ip, s, odcid), scid)))

(* A sequence with one element. *)
LEMMA Singleton ==
    ASSUME NEW S, NEW q \in Seq(S), NEW b, Len(q) = 1, q[1] = b
    PROVE  q = <<b>>
  OBVIOUS

(* The parts of a sequence of an address and three more elements. *)
LEMMA Parts ==
    ASSUME NEW S, NEW ip \in Seq(S), NEW a \in S, NEW b \in S, NEW d \in S
    PROVE  LET t == Append(ip \o <<a, b>>, d)
               n == Len(ip)
           IN  /\ n \in Nat /\ t \in Seq(S) /\ Len(t) = n + 3
               /\ \A i \in 1 .. n : t[i] = ip[i]
               /\ t[n + 1] = a /\ t[n + 2] = b /\ t[n + 3] = d
               /\ SubSeq(t, 1, Len(t) - 1) = ip \o <<a, b>>
               /\ SubSeq(t, n + 2, Len(t) - 1) = <<b>>
  <1> DEFINE text == ip \o <<a, b>>
             t == Append(text, d)
             n == Len(ip)
  <1>1. n \in Nat /\ DOMAIN ip = 1 .. n
    OBVIOUS
  <1>2. <<a, b>> \in Seq(S) /\ Len(<<a, b>>) = 2
    OBVIOUS
  <1>3. /\ text \in Seq(S) /\ Len(text) = n + 2
        /\ \A i \in 1 .. n + 2 : text[i] = IF i <= n THEN ip[i] ELSE <<a, b>>[i - n]
    BY <1>2, ConcatProperties
  <1>4. text[n + 1] = a /\ text[n + 2] = b /\ \A i \in 1 .. n : text[i] = ip[i]
    BY <1>1, <1>3
  <1> HIDE DEF text
  <1>5. /\ t \in Seq(S) /\ Len(t) = n + 3 /\ t[n + 3] = d
        /\ \A i \in 1 .. n + 2 : t[i] = text[i]
    BY <1>1, <1>3
  <1> HIDE DEF t, n
  <1>6. \A i \in 1 .. n + 3 : t[i] \in S
    BY <1>5
  <1> DEFINE m == n + 2
  <1>m. m \in Int /\ 1 \in Int /\ 1 <= m
    BY <1>1
  <1>7. SubSeq(t, 1, m) = text
    <2>1. \A i \in 1 .. m : t[i] \in S
      BY <1>1, <1>6
    <2>2. /\ SubSeq(t, 1, m) \in Seq(S)
          /\ Len(SubSeq(t, 1, m)) = (IF 1 <= m THEN m - 1 + 1 ELSE 0)
          /\ \A i \in 1 .. m - 1 + 1 : SubSeq(t, 1, m)[i] = t[1 + i - 1]
      <3> HIDE DEF m
      <3> QED
        BY <2>1, <1>m, SubSeqProperties
    <2>3. Len(SubSeq(t, 1, m)) = m /\ \A i \in 1 .. m : SubSeq(t, 1, m)[i] = text[i]
      <3>1. \A i \in 1 .. m : 1 + i - 1 = i
        OBVIOUS
      <3>2. m - 1 + 1 = m
        BY <1>m
      <3>3. \A i \in 1 .. m : t[i] = text[i]
        BY <1>5
      <3> HIDE DEF m
      <3> QED
        BY <2>2, <1>m, <3>1, <3>2, <3>3
    <2>4. Len(text) = m
      BY <1>3
    <2> HIDE DEF m
    <2> QED
      BY <2>2, <2>3, <2>4, <1>3, SeqEqual
  <1>8. SubSeq(t, m, m) = <<b>>
    <2>1. \A i \in m .. m : t[i] \in S
      BY <1>1, <1>6
    <2>2. /\ SubSeq(t, m, m) \in Seq(S)
          /\ Len(SubSeq(t, m, m)) = (IF m <= m THEN m - m + 1 ELSE 0)
          /\ \A i \in 1 .. m - m + 1 : SubSeq(t, m, m)[i] = t[m + i - 1]
      <3> HIDE DEF m
      <3> QED
        BY <2>1, <1>m, SubSeqProperties
    <2>3. t[m] = b
      BY <1>1, <1>4, <1>5
    <2> HIDE DEF m
    <2>4. m - m + 1 = 1 /\ m + 1 - 1 = m /\ 1 \in 1 .. 1 /\ m <= m
      BY <1>m
    <2>5. Len(SubSeq(t, m, m)) = 1 /\ SubSeq(t, m, m)[1] = b
      BY <2>2, <2>3, <2>4
    <2> QED
      BY <2>2, <2>5, Singleton
  <1>9. Len(t) - 1 = m
    BY <1>1, <1>5
  <1> QED
    BY <1>1, <1>4, <1>5, <1>7, <1>8, <1>9 DEF t, n, text, m

(* A beginning of a sequence. *)
LEMMA Prefix ==
    ASSUME NEW ip \in Ip, NEW t, \A i \in 1 .. Len(ip) : t[i] = ip[i]
    PROVE  ip = SubSeq(t, 1, Len(ip))
  <1> DEFINE R == {ip[n] : n \in DOMAIN ip}
             n == Len(ip)
  <1>1. ip \in Seq(R)
    BY AddressAssumption
  <1> HIDE DEF R
  <1>2. n \in Nat /\ n \in Int /\ 1 \in Int /\ \A i \in 1 .. n : ip[i] \in R
    BY <1>1
  <1>3. \A i \in 1 .. n : t[i] \in R
    BY <1>2
  <1> HIDE DEF n
  <1>4. /\ SubSeq(t, 1, n) \in Seq(R)
        /\ Len(SubSeq(t, 1, n)) = (IF 1 <= n THEN n - 1 + 1 ELSE 0)
        /\ \A i \in 1 .. n - 1 + 1 : SubSeq(t, 1, n)[i] = t[1 + i - 1]
    BY <1>2, <1>3, SubSeqProperties
  <1>5. Len(SubSeq(t, 1, n)) = n /\ \A i \in 1 .. n : SubSeq(t, 1, n)[i] = t[i]
    BY <1>2, <1>4
  <1> QED
    BY <1>1, <1>4, <1>5, SeqEqual DEF n

(* What is appended to a text can be told from the result. *)
LEMMA LastOfAppend ==
    ASSUME NEW ip \in Ip, NEW s, NEW odcid, NEW u, NEW v
    PROVE  Append(Text(ip, s, odcid), u) = Append(Text(ip, s, odcid), v) <=> u = v
  <1> DEFINE R == {ip[n] : n \in DOMAIN ip}
             S == R \cup {s, odcid, u, v}
             text == Text(ip, s, odcid)
  <1>1. ip \in Seq(R)
    BY AddressAssumption
  <1>2. s \in S /\ odcid \in S /\ u \in S /\ v \in S /\ R \subseteq S
    OBVIOUS
  <1> HIDE DEF R, S
  <1>3. ip \in Seq(S) /\ <<s, odcid>> \in Seq(S)
    BY <1>1, <1>2, SeqMonotonic
  <1>4. text \in Seq(S)
    BY <1>3, ConcatProperties DEF Text
  <1> HIDE DEF text
  <1>5. Append(text, u)[Len(text) + 1] = u /\ Append(text, v)[Len(text) + 1] = v
    BY <1>2, <1>4
  <1> QED
    BY <1>5 DEF text

(* A token and its parts. *)
LEMMA TokenParts ==
    ASSUME NEW ip \in Ip, NEW s, NEW odcid, NEW scid
    PROVE  LET t == Bytes(ip, s, odcid, scid)
               n == Len(ip)
           IN  /\ n \in Nat /\ Len(t) = n + 3
               /\ \A i \in 1 .. n : t[i] = ip[i]
               /\ t[n + 1] = s
               /\ t[Len(t)] = Sha256(Seed, Append(Text(ip, s, odcid), scid))
               /\ SubSeq(t, 1, Len(t) - 1) = Text(ip, s, odcid)
               /\ OriginalId(ip, t) = <<odcid>>
  <1> DEFINE d == Sha256(Seed, Append(Text(ip, s, odcid), scid))
             R == {ip[n] : n \in DOMAIN ip}
             S == R \cup {s, odcid, d}
  <1> HIDE DEF d
  <1>1. ip \in Seq(R)
    BY AddressAssumption
  <1>2. s \in S /\ odcid \in S /\ d \in S /\ R \subseteq S
    OBVIOUS
  <1> HIDE DEF R, S
  <1>3. ip \in Seq(S)
    BY <1>1, <1>2, SeqMonotonic
  <1> DEFINE t == Append(ip \o <<s, odcid>>, d)
             n == Len(ip)
  <1>4. /\ n \in Nat /\ t \in Seq(S) /\ Len(t) = n + 3
        /\ \A i \in 1 .. n : t[i] = ip[i]
        /\ t[n + 1] = s /\ t[n + 2] = odcid /\ t[n + 3] = d
        /\ SubSeq(t, 1, Len(t) - 1) = ip \o <<s, odcid>>
        /\ SubSeq(t, n + 2, Len(t) - 1) = <<odcid>>
    BY <1>2, <1>3, Parts
  <1>5. t = Bytes(ip, s, odcid, scid)
    BY DEF Bytes, Text, d
  <1>6. Text(ip, s, odcid) = ip \o <<s, odcid>> /\ OriginalId(ip, t) = SubSeq(t, n + 2, Len(t) - 1)
    BY DEF Text, OriginalId
  <1> HIDE DEF t
  <1> QED
    BY <1>4, <1>5, <1>6 DEF d

-----------------------------------------------------------------------------
(* Timestamps. *)

(* A timestamp is less than a second behind. *)
LEMMA Truncation ==
    ASSUME NEW t \in Nat
    PROVE  /\ Secs(t) \in Nat
           /\ Secs(t) * TicksPerSec \in Nat
           /\ Secs(t) * TicksPerSec <= t
           /\ t <= Secs(t) * TicksPerSec + (TicksPerSec - 1)
  <1> DEFINE q == t \div TicksPerSec
             m == t % TicksPerSec
  <1>1. m \in 0 .. TicksPerSec - 1 /\ q \in Int
    BY ClockAssumption
  <1>2. t = TicksPerSec * q + m
    BY ClockAssumption
  <1>3. q \in Nat
    <2> HIDE DEF q, m
    <2> QED
      BY <1>1, <1>2, ClockAssumption
  <1> HIDE DEF q, m
  <1>4. q * TicksPerSec \in Nat /\ q * TicksPerSec = TicksPerSec * q
    BY <1>3, ClockAssumption
  <1> DEFINE w == q * TicksPerSec
  <1>5. w \in Nat /\ t = w + m
    BY <1>2, <1>4
  <1> HIDE DEF w
  <1>6. w <= t /\ t <= w + (TicksPerSec - 1)
    BY <1>1, <1>5, ClockAssumption
  <1> QED
    BY <1>3, <1>5, <1>6 DEF q, w, Secs

(* validate_address, of a token of this server that comes back from where  *)
(* it was sent: the timestamp and the digest decide.                       *)
LEMMA ValidateOwn ==
    ASSUME NEW ip \in Ip, NEW s \in Nat, NEW odcid, NEW scid, NEW dcid
    PROVE  validate_address(dcid, ip, Bytes(ip, s, odcid, scid)) =
             LET age == now - s * TicksPerSec
             IN  IF age < 0 THEN Underflow
                 ELSE IF Expired(age) \/ dcid # scid THEN Reject
                 ELSE Valid(<<odcid>>)
  <1> DEFINE t == Bytes(ip, s, odcid, scid)
             text == Text(ip, s, odcid)
             n == Len(ip)
  <1>1. /\ n \in Nat /\ Len(t) = n + 3
        /\ \A i \in 1 .. n : t[i] = ip[i]
        /\ t[n + 1] = s
        /\ t[Len(t)] = Sha256(Seed, Append(text, scid))
        /\ SubSeq(t, 1, Len(t) - 1) = text
        /\ OriginalId(ip, t) = <<odcid>>
    BY TokenParts
  <1>2. ~(n + 2 > Len(t))
    BY <1>1
  <1>3. SameAddress(ip, t)
    BY <1>1, Prefix DEF SameAddress
  <1>4. Sha256(Seed, Append(text, scid)) # Sha256(Seed, Append(text, dcid)) <=> dcid # scid
    BY LastOfAppend DEF Sha256
  <1>5. Authentic(dcid, t) <=> dcid = scid
    BY <1>1, <1>4 DEF Authentic
  <1> HIDE DEF t, text
  <1> QED
    BY <1>1, <1>2, <1>3, <1>5 DEF validate_address, t

(* No address is the beginning of another: so it is where all are of one   *)
(* family.  The text of a token does not say where the address ends, and   *)
(* the octets of an IPv6 address that follow the ones of an IPv4 address   *)
(* would be taken for a timestamp.                                         *)
PrefixFree == \A i, j \in Ip : Len(i) <= Len(j) /\ (\A m \in 1 .. Len(i) : i[m] = j[m]) => i = j

(* Only where a token was sent does it pass for the address's own. *)
LEMMA AddressOfToken ==
    ASSUME PrefixFree, NEW ip \in Ip, NEW j \in Ip, NEW s, NEW odcid, NEW scid,
           ~(Len(ip) + 2 > Len(Bytes(j, s, odcid, scid))), SameAddress(ip, Bytes(j, s, odcid, scid))
    PROVE  ip = j
  <1> DEFINE t == Bytes(j, s, odcid, scid)
             n == Len(ip)
             k == Len(j)
  <1>1. k \in Nat /\ Len(t) = k + 3 /\ \A i \in 1 .. k : t[i] = j[i]
    BY TokenParts
  <1>2. n \in Nat
    BY TokenParts
  <1> HIDE DEF t
  <1>3. n <= k + 1
    BY <1>1, <1>2 DEF t
  <1>4. \A i \in 1 .. n : ip[i] = t[i]
    <2>1. ip = SubSeq(t, 1, n)
      BY DEF SameAddress, t
    <2>2. \A i \in 1 .. n : SubSeq(t, 1, n)[i] = t[i]
      BY <1>2
    <2> QED
      BY <2>1, <2>2
  <1>5. CASE n <= k
    <2>1. \A i \in 1 .. n : ip[i] = j[i]
      BY <1>1, <1>2, <1>4, <1>5
    <2> QED
      BY <2>1, <1>5 DEF PrefixFree
  <1>6. CASE n = k + 1
    <2>1. \A i \in 1 .. k : j[i] = ip[i]
      BY <1>1, <1>4, <1>6
    <2>2. k <= n
      BY <1>1, <1>6
    <2>3. j = ip
      BY <2>1, <2>2 DEF PrefixFree
    <2> QED
      BY <2>3
  <1> QED
    BY <1>1, <1>2, <1>3, <1>5, <1>6

(* validate_address, of a token of this server: what is accepted was given *)
(* out at this address, for this id, not too long ago; a token from the    *)
(* future makes it panic.                                                  *)
LEMMA Validates ==
    ASSUME PrefixFree, now \in Nat, NEW ip \in Ip, NEW j \in Ip, NEW at \in Nat, NEW odcid, NEW scid, NEW dcid
    PROVE  LET v == validate_address(dcid, ip, Bytes(j, Secs(at), odcid, scid))
           IN  /\ v.is = "Some" => /\ ip = j /\ dcid = scid /\ v.odcid = <<odcid>>
                                   /\ now - at <= Expiry
               /\ v.is = "panic" => now < at
  <1> DEFINE t == Bytes(j, Secs(at), odcid, scid)
             v == validate_address(dcid, ip, t)
             w == Secs(at) * TicksPerSec
  <1>1. Secs(at) \in Nat /\ w \in Nat /\ w <= at
    BY Truncation
  <1>2. CASE Len(ip) + 2 > Len(t) \/ ~SameAddress(ip, t)
    <2>1. v = Reject
      BY <1>2 DEF validate_address
    <2> QED
      BY <2>1 DEF Reject
  <1>3. CASE ~(Len(ip) + 2 > Len(t) \/ ~SameAddress(ip, t))
    <2>1. ip = j
      BY <1>3, AddressOfToken
    <2>2. v = IF now - w < 0 THEN Underflow
              ELSE IF Expired(now - w) \/ dcid # scid THEN Reject
              ELSE Valid(<<odcid>>)
      BY <1>1, <2>1, ValidateOwn
    <2>3. CASE now - w < 0
      <3>1. v = Underflow /\ now < at
        <4> HIDE DEF v, w
        <4> QED
          BY <1>1, <2>2, <2>3
      <3> QED
        BY <3>1 DEF Underflow
    <2>4. CASE ~(now - w < 0) /\ (Expired(now - w) \/ dcid # scid)
      <3>1. v = Reject
        BY <2>2, <2>4
      <3> QED
        BY <3>1 DEF Reject
    <2>5. CASE ~(now - w < 0) /\ ~(Expired(now - w) \/ dcid # scid)
      <3>1. v = Valid(<<odcid>>)
        BY <2>2, <2>5
      <3>2. now - at <= Expiry
        <4> HIDE DEF v, w
        <4> QED
          BY <1>1, <2>5, ClockAssumption DEF Expired
      <3>3. v.is = "Some" /\ v.odcid = <<odcid>>
        BY <3>1 DEF Valid
      <3> QED
        BY <3>2, <3>3, <2>1, <2>5
    <2> QED
      BY <2>3, <2>4, <2>5
  <1> QED
    BY <1>2, <1>3

-----------------------------------------------------------------------------
(* The digest. *)

(* What comes before the last element of a sequence. *)
LEMMA FrontOfAppend ==
    ASSUME NEW S, NEW text \in Seq(S), NEW d
    PROVE  LET t == Append(text, d)
           IN  /\ t[Len(t)] = d
               /\ SubSeq(t, 1, Len(t) - 1) = text
  <1> DEFINE R == S \cup {d}
             t == Append(text, d)
             n == Len(text)
  <1>1. S \subseteq R /\ d \in R
    OBVIOUS
  <1> HIDE DEF R
  <1>2. text \in Seq(R)
    BY <1>1, SeqMonotonic
  <1>3. n \in Nat /\ t \in Seq(R) /\ Len(t) = n + 1 /\ t[n + 1] = d /\ \A i \in 1 .. n : t[i] = text[i]
    BY <1>1, <1>2
  <1> HIDE DEF t, n
  <1>4. n \in Int /\ 1 \in Int /\ \A i \in 1 .. n : t[i] \in R
    BY <1>3
  <1>5. /\ SubSeq(t, 1, n) \in Seq(R)
        /\ Len(SubSeq(t, 1, n)) = (IF 1 <= n THEN n - 1 + 1 ELSE 0)
        /\ \A i \in 1 .. n - 1 + 1 : SubSeq(t, 1, n)[i] = t[1 + i - 1]
    BY <1>4, SubSeqProperties
  <1>6. Len(SubSeq(t, 1, n)) = n /\ \A i \in 1 .. n : SubSeq(t, 1, n)[i] = text[i]
    BY <1>3, <1>5
  <1>7. SubSeq(t, 1, n) = text
    BY <1>2, <1>5, <1>6, SeqEqual DEF n
  <1>8. Len(t) - 1 = n
    BY <1>3
  <1> QED
    BY <1>3, <1>7, <1>8 DEF t

(* Two sequences that are equal have the same front and the same last element. *)
LEMMA FrontsEqual ==
    ASSUME NEW S, NEW T, NEW a \in Seq(S), NEW b \in Seq(T), NEW u, NEW v, Append(a, u) = Append(b, v)
    PROVE  a = b /\ u = v
  <1>1. Append(a, u)[Len(Append(a, u))] = u /\ SubSeq(Append(a, u), 1, Len(Append(a, u)) - 1) = a
    BY FrontOfAppend
  <1>2. Append(b, v)[Len(Append(b, v))] = v /\ SubSeq(Append(b, v), 1, Len(Append(b, v)) - 1) = b
    BY FrontOfAppend
  <1> QED
    BY <1>1, <1>2

(* The text of a token of this server is a sequence. *)
LEMMA TextSeq ==
    ASSUME NEW ip \in Ip, NEW s, NEW odcid
    PROVE  \E S : Text(ip, s, odcid) \in Seq(S)
  <1> DEFINE R == {ip[n] : n \in DOMAIN ip}
             S == R \cup {s, odcid}
  <1>1. ip \in Seq(R)
    BY AddressAssumption
  <1>2. s \in S /\ odcid \in S /\ R \subseteq S
    OBVIOUS
  <1> HIDE DEF R, S
  <1>3. ip \in Seq(S) /\ <<s, odcid>> \in Seq(S)
    BY <1>1, <1>2, SeqMonotonic
  <1>4. Text(ip, s, odcid) \in Seq(S)
    BY <1>3, ConcatProperties DEF Text
  <1> QED
    BY <1>4

(* The tokens given out. *)
Minted ==
    \A r \in minted :
        /\ r.ip \in Ip /\ r.odcid \in Cid /\ r.scid \in used /\ r.at \in 0 .. MaxTime
        /\ ~set => r.at <= now
        /\ r.token = Bytes(r.ip, Secs(r.at), r.odcid, r.scid)

(* The digest tells the tokens given out, each for its own id, from all    *)
(* that can be put together.                                               *)
LEMMA Genuine ==
    ASSUME Minted, NEW p \in Return, Authentic(p.dcid, p.token)
    PROVE  \E r \in minted : p.token = r.token /\ p.dcid = r.scid
  <1> DEFINE texts == StrayText \cup {SubSeq(r.token, 1, Len(r.token) - 1) : r \in minted}
             other == Sha256("other", <<>>)
             digests == {other} \cup {r.token[Len(r.token)] : r \in minted}
             Front(r) == Text(r.ip, Secs(r.at), r.odcid)
  <1>1. PICK text \in texts, d \in digests : p.token = Append(text, d)
    <2>1. p.token \in {Append(text, d) : text \in texts, d \in digests}
      BY DEF Return
    <2> HIDE DEF texts, digests
    <2> QED
      BY <2>1
  <1>2. \A r \in minted : /\ r.ip \in Ip
                          /\ SubSeq(r.token, 1, Len(r.token) - 1) = Front(r)
                          /\ r.token[Len(r.token)] = Sha256(Seed, Append(Front(r), r.scid))
                          /\ r.token = Append(Front(r), Sha256(Seed, Append(Front(r), r.scid)))
    <2> SUFFICES ASSUME NEW r \in minted
                 PROVE  /\ r.ip \in Ip
                        /\ SubSeq(r.token, 1, Len(r.token) - 1) = Front(r)
                        /\ r.token[Len(r.token)] = Sha256(Seed, Append(Front(r), r.scid))
                        /\ r.token = Append(Front(r), Sha256(Seed, Append(Front(r), r.scid)))
      OBVIOUS
    <2>1. r.ip \in Ip /\ r.token = Bytes(r.ip, Secs(r.at), r.odcid, r.scid)
      BY DEF Minted
    <2>2. /\ SubSeq(r.token, 1, Len(r.token) - 1) = Front(r)
          /\ r.token[Len(r.token)] = Sha256(Seed, Append(Front(r), r.scid))
      BY <2>1, TokenParts
    <2> QED
      BY <2>1, <2>2 DEF Bytes
  <1>3. PICK S : text \in Seq(S)
    <2>1. CASE text \in StrayText
      BY <2>1, StrayAssumption
    <2>2. CASE text \notin StrayText
      <3>1. PICK r \in minted : text = Front(r)
        BY <1>1, <1>2, <2>2
      <3> QED
        BY <3>1, <1>2, TextSeq
    <2> QED
      BY <2>1, <2>2
  <1>4. d = Sha256(Seed, Append(text, p.dcid))
    BY <1>1, <1>3, FrontOfAppend DEF Authentic
  <1>5. d # other
    BY <1>4 DEF Sha256, Seed
  <1>6. PICK r \in minted : d = Sha256(Seed, Append(Front(r), r.scid))
    BY <1>1, <1>2, <1>5
  <1>7. Append(text, p.dcid) = Append(Front(r), r.scid)
    BY <1>4, <1>6 DEF Sha256
  <1>8. PICK T : Front(r) \in Seq(T)
    BY <1>2, TextSeq
  <1> HIDE DEF Front
  <1>9. text = Front(r) /\ p.dcid = r.scid
    BY <1>3, <1>7, <1>8, FrontsEqual
  <1> QED
    BY <1>1, <1>2, <1>6, <1>9

-----------------------------------------------------------------------------
(* The tokens given out, and the clock. *)

Base ==
    /\ now \in 0 .. MaxTime
    /\ set \in BOOLEAN
    /\ used \subseteq Cid
    /\ Minted

(* handshake *)
LEMMA HandshakeKeeps ==
    ASSUME Base, handshake
    PROVE  Base'
  <1>1. PICK p \in Datagram : negotiate_version(p) \/ retry(p) \/ accept(p) \/ unwrap(p)
    BY DEF handshake
  <1>2. UNCHANGED <<now, set>>
    BY DEF handshake
  <1>3. CASE retry(p)
    <2>1. PICK c \in Cid \ (used \cup {p.dcid}) :
             /\ used' = used \cup {p.dcid, c}
             /\ minted' = minted \cup {[token |-> mint_retry_token(p.dcid, c, p.ip), ip |-> p.ip,
                                        odcid |-> p.dcid, scid |-> c, at |-> now]}
      BY <1>3 DEF retry
    <2> DEFINE t == mint_retry_token(p.dcid, c, p.ip)
               r == [token |-> t, ip |-> p.ip, odcid |-> p.dcid, scid |-> c, at |-> now]
    <2>2. p.ip \in Ip /\ p.dcid \in Cid
      <3>1. CASE p \in First
        BY <3>1 DEF First
      <3>2. CASE p \in Return
        <4> DEFINE tokens == {Append(text, d) : text \in StrayText \cup {SubSeq(q.token, 1, Len(q.token) - 1) : q \in minted},
                                                d \in {Sha256("other", <<>>)} \cup {q.token[Len(q.token)] : q \in minted}}
        <4>1. p \in [dcid : Cid, version : {"v1"}, token : tokens, ip : Ip]
          BY <3>2 DEF Return
        <4> HIDE DEF tokens
        <4> QED
          BY <4>1
      <3>3. CASE p \in Late
        <4>1. p.token = NoToken
          BY <3>3 DEF Late
        <4> QED
          BY <1>3, <4>1, TokenAssumption DEF retry
      <3> QED
        BY <3>1, <3>2, <3>3 DEF Datagram
    <2>3. t = Bytes(p.ip, Secs(now), p.dcid, c)
      BY DEF mint_retry_token, Bytes, Text
    <2> HIDE DEF t
    <2>4. /\ r.ip \in Ip /\ r.odcid \in Cid /\ r.scid \in used' /\ r.at \in 0 .. MaxTime
          /\ r.at <= now
          /\ r.token = Bytes(r.ip, Secs(r.at), r.odcid, r.scid)
      BY <2>1, <2>2, <2>3 DEF Base
    <2>5. minted' = minted \cup {r} /\ used \subseteq used' /\ used' \subseteq Cid
      BY <2>1, <2>2 DEF t, Base
    <2> HIDE DEF r
    <2>6. Minted'
      BY <1>2, <2>4, <2>5 DEF Base, Minted
    <2> QED
      BY <1>2, <2>5, <2>6 DEF Base
  <1>4. CASE negotiate_version(p) \/ accept(p) \/ unwrap(p)
    <2>1. UNCHANGED <<used, minted>>
      BY <1>4 DEF negotiate_version, accept, unwrap
    <2> QED
      BY <1>2, <2>1 DEF Base, Minted
  <1> QED
    BY <1>1, <1>3, <1>4

(* A connection ends, time passes, the clock is set back. *)
LEMMA EnvironmentKeeps ==
    ASSUME Base, Remove \/ Tick \/ SetBack \/ UNCHANGED vars
    PROVE  Base'
  <1>1. UNCHANGED <<used, minted>>
    BY DEF Remove, Tick, SetBack, vars
  <1>3. /\ now' \in 0 .. MaxTime /\ set' \in BOOLEAN
        /\ ~set' => ~set /\ now <= now'
    <2>0. now \in 0 .. MaxTime /\ set \in BOOLEAN
      BY DEF Base
    <2>1. CASE Tick
      <3>1. now' \in 0 .. MaxTime /\ now <= now'
        BY <2>0, <2>1, ClockAssumption DEF Tick
      <3>2. set' = set
        BY <2>1 DEF Tick
      <3> QED
        BY <2>0, <3>1, <3>2, Zenon
    <2>2. CASE SetBack
      <3>1. now' \in 0 .. MaxTime
        BY <2>0, <2>2, ClockAssumption DEF SetBack
      <3>2. set' = TRUE
        BY <2>2 DEF SetBack
      <3> QED
        BY <3>1, <3>2, Zenon
    <2>3. CASE Remove \/ UNCHANGED vars
      <3>1. now' = now /\ set' = set /\ now <= now
        BY <2>0, <2>3 DEF Remove, vars
      <3> QED
        BY <2>0, <3>1, Zenon
    <2> QED
      BY <2>1, <2>2, <2>3
  <1>4. Minted'
    <2>1. \A r \in minted : ~set' => r.at <= now'
      <3>1. \A r \in minted : r.at \in 0 .. MaxTime /\ (~set => r.at <= now)
        BY DEF Base, Minted
      <3>2. now \in Int /\ now' \in Int
        BY <1>3 DEF Base
      <3> QED
        BY <1>3, <3>1, <3>2
    <2> QED
      BY <1>1, <2>1 DEF Base, Minted
  <1> QED
    BY <1>1, <1>3, <1>4 DEF Base

(* Every step keeps it. *)
LEMMA BaseStep ==
    ASSUME Base, [Next]_vars
    PROVE  Base'
  BY HandshakeKeeps, EnvironmentKeeps DEF Next

(* It holds at the start. *)
LEMMA BaseStart == ASSUME Init PROVE Base
  <1>1. now \in 0 .. MaxTime /\ used \subseteq Cid
    BY ClockAssumption DEF Init
  <1>2. set \in BOOLEAN /\ minted = {}
    BY DEF Init
  <1> QED
    BY <1>1, <1>2 DEF Base, Minted

(* A token that comes back to validate_address from where it was sent, for *)
(* the id it was made for and early enough, is good and yields the         *)
(* original id, whatever the addresses, unless the clock was set back:     *)
(* cutting the timestamp to seconds costs less than a second.              *)
THEOREM FreshIsValidHolds == Spec => []FreshIsValid
  <1>1. ASSUME Base PROVE FreshIsValid
    <2> SUFFICES ASSUME NEW r \in minted, ~set, now - r.at + (TicksPerSec - 1) <= Expiry
                 PROVE  validate_address(r.scid, r.ip, r.token) = Valid(<<r.odcid>>)
      BY DEF FreshIsValid
    <2> DEFINE s == Secs(r.at)
               w == s * TicksPerSec
    <2>1. /\ r.ip \in Ip /\ r.at \in 0 .. MaxTime /\ r.at <= now
          /\ r.token = Bytes(r.ip, s, r.odcid, r.scid)
      BY <1>1 DEF Base, Minted
    <2>2. now \in Nat /\ r.at \in Nat
      BY <1>1, <2>1 DEF Base
    <2>3. s \in Nat /\ w \in Nat /\ w <= r.at /\ r.at <= w + (TicksPerSec - 1)
      BY <2>2, Truncation
    <2>4. validate_address(r.scid, r.ip, r.token) =
             IF now - w < 0 THEN Underflow
             ELSE IF Expired(now - w) \/ r.scid # r.scid THEN Reject
             ELSE Valid(<<r.odcid>>)
      BY <2>1, <2>3, ValidateOwn
    <2> HIDE DEF s, w
    <2>5. ~(now - w < 0) /\ ~(now - w > Expiry)
      BY <2>1, <2>2, <2>3, ClockAssumption
    <2> QED
      BY <2>4, <2>5 DEF Expired
  <1> QED
    BY <1>1, BaseStart, BaseStep, PTL DEF Spec

(* The subtraction of validate_address does not underflow for a token that *)
(* this server gave out, whatever id and address it comes back with, as    *)
(* long as the clock was not set back.                                     *)
THEOREM OwnTokenNoUnderflowHolds == ASSUME PrefixFree PROVE Spec => []OwnTokenNoUnderflow
  <1>1. ASSUME Base PROVE OwnTokenNoUnderflow
    <2> SUFFICES ASSUME ~set, NEW r \in minted, NEW dcid \in Cid, NEW ip \in Ip
                 PROVE  validate_address(dcid, ip, r.token) # Underflow
      BY DEF OwnTokenNoUnderflow
    <2> DEFINE v == validate_address(dcid, ip, r.token)
    <2>1. /\ r.ip \in Ip /\ r.at \in 0 .. MaxTime /\ r.at <= now
          /\ r.token = Bytes(r.ip, Secs(r.at), r.odcid, r.scid)
      BY <1>1 DEF Base, Minted
    <2>2. now \in Nat /\ r.at \in Nat
      BY <1>1, <2>1 DEF Base
    <2>3. v.is = "panic" => now < r.at
      BY <2>1, <2>2, Validates
    <2> HIDE DEF v
    <2>4. v.is # "panic"
      BY <2>1, <2>2, <2>3
    <2> QED
      BY <2>4 DEF v, Underflow
  <1> QED
    BY <1>1, BaseStart, BaseStep, PTL DEF Spec

-----------------------------------------------------------------------------
(* The connections that are opened. *)

Opened ==
    /\ DOMAIN conns \subseteq opened /\ opened \subseteq used
    /\ \A c \in DOMAIN conns : \E o \in Cid, i \in Ip, t \in 0 .. MaxTime :
          conns[c] = [odcid |-> <<o>>, ip |-> i, at |-> t]

Outcome ==
    /\ result \in {"none", "versions", "retry", "accept", "invalid"}
    /\ panic \in {"none", "clock", "token"}

Safe == Opened /\ AcceptedWasRetried /\ Outcome

(* accept: a token that passes is one that was given out. *)
LEMMA AcceptSafe ==
    ASSUME PrefixFree, Base, Safe, NEW p \in Datagram, accept(p)
    PROVE  Safe'
  <1> DEFINE v == validate_address(p.dcid, p.ip, p.token)
  <1>1. p.token \notin {<<>>, NoToken} /\ UNCHANGED <<used, minted>>
    BY DEF accept
  <1>2. CASE v.is # "Some"
    <2>1. conns' = conns /\ opened' = opened /\ Outcome'
      BY <1>2 DEF accept, Safe, Outcome
    <2> QED
      BY <1>1, <2>1 DEF Safe, Opened, AcceptedWasRetried
  <1>3. CASE v.is = "Some"
    <2> DEFINE new == [odcid |-> v.odcid, ip |-> p.ip, at |-> now]
    <2>1. /\ conns' = With(conns, p.dcid, new) /\ opened' = opened \cup {p.dcid}
          /\ result' = "accept" /\ panic' = panic
      BY <1>3 DEF accept
    <2>2. p \in Return
      <3>1. p \notin First
        BY <1>1 DEF First
      <3>2. p \notin Late
        BY <1>1 DEF Late
      <3> QED
        BY <3>1, <3>2 DEF Datagram
    <2>3. Authentic(p.dcid, p.token)
      BY <1>3 DEF validate_address, Reject, Underflow
    <2>4. p.ip \in Ip
      <3> DEFINE tokens == {Append(text, d) : text \in StrayText \cup {SubSeq(q.token, 1, Len(q.token) - 1) : q \in minted},
                                              d \in {Sha256("other", <<>>)} \cup {q.token[Len(q.token)] : q \in minted}}
      <3>1. p \in [dcid : Cid, version : {"v1"}, token : tokens, ip : Ip]
        BY <2>2 DEF Return
      <3> HIDE DEF tokens
      <3> QED
        BY <3>1
    <2>5. PICK r \in minted : p.token = r.token /\ p.dcid = r.scid
      BY <2>2, <2>3, Genuine DEF Base
    <2>6. /\ r.ip \in Ip /\ r.odcid \in Cid /\ r.scid \in used /\ r.at \in 0 .. MaxTime
          /\ r.token = Bytes(r.ip, Secs(r.at), r.odcid, r.scid)
      BY DEF Base, Minted
    <2>7. now \in Nat /\ now \in 0 .. MaxTime /\ r.at \in Nat
      BY <2>6 DEF Base
    <2>8. p.ip = r.ip /\ v.odcid = <<r.odcid>> /\ now - r.at <= Expiry
      BY <1>3, <2>4, <2>5, <2>6, <2>7, Validates
    <2> HIDE DEF v
    <2>9. \E o \in Cid, i \in Ip, t \in 0 .. MaxTime : new = [odcid |-> <<o>>, ip |-> i, at |-> t]
      BY <2>4, <2>6, <2>7, <2>8
    <2>10. r.scid = p.dcid /\ <<r.odcid>> = new.odcid /\ r.ip = new.ip /\ new.at - r.at <= Expiry
      BY <2>5, <2>8
    <2> HIDE DEF new
    <2>11. conns' = [c \in DOMAIN conns \cup {p.dcid} |-> IF c = p.dcid THEN new ELSE conns[c]]
      BY <2>1 DEF With
    <2>12. Opened'
      BY <1>1, <2>1, <2>5, <2>6, <2>9, <2>11 DEF Safe, Opened
    <2>13. AcceptedWasRetried'
      BY <1>1, <2>10, <2>11 DEF Safe, AcceptedWasRetried
    <2> QED
      BY <2>1, <2>12, <2>13 DEF Safe, Outcome
  <1> QED
    BY <1>2, <1>3

(* The other steps open nothing. *)
LEMMA SafeStep ==
    ASSUME PrefixFree, Base, Safe, [Next]_vars
    PROVE  Safe'
  <1>1. CASE handshake
    <2>1. PICK p \in Datagram : negotiate_version(p) \/ retry(p) \/ accept(p) \/ unwrap(p)
      BY <1>1 DEF handshake
    <2>2. CASE accept(p)
      BY <2>2, AcceptSafe
    <2>3. CASE negotiate_version(p) \/ retry(p) \/ unwrap(p)
      <3>1. /\ conns' = conns /\ opened' = opened /\ used \subseteq used' /\ minted \subseteq minted'
            /\ panic' \in {panic, "token"} /\ result' \in {result, "versions", "retry"}
        BY <2>3 DEF negotiate_version, retry, unwrap
      <3> QED
        BY <3>1 DEF Safe, Opened, AcceptedWasRetried, Outcome
    <2> QED
      BY <2>1, <2>2, <2>3
  <1>2. CASE Remove
    <2>1. PICK c \in DOMAIN conns : conns' = [d \in DOMAIN conns \ {c} |-> conns[d]]
      BY <1>2 DEF Remove
    <2>2. UNCHANGED <<used, result, panic, minted, opened>>
      BY <1>2 DEF Remove
    <2> QED
      BY <2>1, <2>2 DEF Safe, Opened, AcceptedWasRetried, Outcome
  <1>3. CASE Tick \/ SetBack \/ UNCHANGED vars
    <2>1. UNCHANGED <<conns, used, result, panic, minted, opened>>
      BY <1>3 DEF Tick, SetBack, vars
    <2> QED
      BY <2>1 DEF Safe, Opened, AcceptedWasRetried, Outcome
  <1> QED
    BY <1>1, <1>2, <1>3 DEF Next

(* Nothing is open at the start. *)
LEMMA SafeStart == ASSUME Init PROVE Safe
  BY DEF Init, Safe, Opened, AcceptedWasRetried, Outcome

(* Types are kept: the original id that is cut out of a token's bytes      *)
(* (validate_address) is one connection id.                                *)
THEOREM TypeCorrect == ASSUME PrefixFree PROVE Spec => []TypeOK
  <1>1. Base /\ Safe => TypeOK
    BY DEF Base, Safe, Opened, Outcome, TypeOK
  <1> QED
    BY <1>1, BaseStart, BaseStep, SafeStart, SafeStep, PTL DEF Spec

(* Every connection that accept opens belongs to a Retry that the server   *)
(* sent to the client's address, for the same ids, no longer ago than the  *)
(* expiration interval, whatever packets arrive: delayed, repeated, with   *)
(* tokens of other ids or made by others.                                  *)
THEOREM AcceptedWasRetriedHolds == ASSUME PrefixFree PROVE Spec => []AcceptedWasRetried
  <1>1. Safe => AcceptedWasRetried
    BY DEF Safe
  <1> QED
    BY <1>1, BaseStart, BaseStep, SafeStart, SafeStep, PTL DEF Spec
=============================================================================
