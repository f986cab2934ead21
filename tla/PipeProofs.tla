----------------------------- MODULE PipeProofs -----------------------------
(***************************************************************************)
(* The ring buffer and the pipe, for any capacity, any byte values and     *)
(* buffers of any length: the cursors stay in range, the block used        *)
(* through its two ranges is a first-in first-out queue, no wake-up is     *)
(* lost, and the end of the stream comes after the data.                   *)
(***************************************************************************)
EXTENDS Pipe, SequenceTheorems, TLAPS

-----------------------------------------------------------------------------
(* Positions modulo the capacity. *)

(* Quotient and remainder. *)
LEMMA Division ==
    ASSUME NEW a \in Nat
    PROVE  /\ a % Capacity \in 0 .. Capacity - 1
           /\ a \div Capacity \in Nat
           /\ a = Capacity * (a \div Capacity) + (a % Capacity)
  <1>1. a % Capacity \in 0 .. Capacity - 1
    BY CapacityAssumption
  <1>2. a = Capacity * (a \div Capacity) + (a % Capacity)
    BY CapacityAssumption
  <1>3. a \div Capacity \in Int
    BY CapacityAssumption
  <1>4. a \div Capacity \in Nat
    BY <1>1, <1>2, <1>3, CapacityAssumption
  <1> QED
    BY <1>1, <1>2, <1>4

(* The remainder is the only one there is. *)
LEMMA RemainderUnique ==
    ASSUME NEW a \in Nat, NEW q \in Int, NEW r \in 0 .. Capacity - 1, a = Capacity * q + r
    PROVE  a % Capacity = r
  BY CapacityAssumption, Division

(* A cursor that moves on by at most the capacity wraps at most once. *)
LEMMA Wrap ==
    ASSUME NEW a \in Nat, NEW i \in 0 .. Capacity
    PROVE  LET r == a % Capacity
           IN  (a + i) % Capacity = IF r + i < Capacity THEN r + i ELSE r + i - Capacity
  <1> DEFINE q == a \div Capacity
             r == a % Capacity
  <1>1. a = Capacity * q + r /\ r \in 0 .. Capacity - 1 /\ q \in Nat
    BY Division
  <1> HIDE DEF q, r
  <1>2. CASE r + i < Capacity
    <2>1. a + i = Capacity * q + (r + i)
      BY <1>1, CapacityAssumption
    <2>2. r + i \in 0 .. Capacity - 1 /\ a + i \in Nat
      BY <1>1, <1>2, CapacityAssumption
    <2>3. (a + i) % Capacity = r + i
      BY <2>1, <2>2, <1>1, RemainderUnique
    <2> QED
      BY <2>3, <1>2 DEF r
  <1>3. CASE ~(r + i < Capacity)
    <2>1. a + i = Capacity * (q + 1) + (r + i - Capacity)
      BY <1>1, CapacityAssumption
    <2>2. r + i - Capacity \in 0 .. Capacity - 1 /\ a + i \in Nat /\ q + 1 \in Int
      BY <1>1, <1>3, CapacityAssumption
    <2>3. (a + i) % Capacity = r + i - Capacity
      BY <2>1, <2>2, RemainderUnique
    <2> QED
      BY <2>3, <1>3 DEF r
  <1> QED
    BY <1>2, <1>3

(* One turn further is the same place. *)
LEMMA FullTurn ==
    ASSUME NEW a \in Nat
    PROVE  (a + Capacity) % Capacity = a % Capacity
  <1> DEFINE r == a % Capacity
  <1>1. Capacity \in 0 .. Capacity
    BY CapacityAssumption
  <1>2. (a + Capacity) % Capacity = IF r + Capacity < Capacity THEN r + Capacity ELSE r + Capacity - Capacity
    BY <1>1, Wrap
  <1>3. r \in 0 .. Capacity - 1
    BY Division
  <1> HIDE DEF r
  <1> QED
    BY <1>2, <1>3, CapacityAssumption DEF r

-----------------------------------------------------------------------------
(* The two ranges (writable_ranges and readable_ranges). *)

(* The ranges lie in the block, do not overlap, and have the size asked    *)
(* for.                                                                    *)
LEMMA RangesShape ==
    ASSUME NEW pos \in Nat, NEW size \in 0 .. Capacity
    PROVE  LET r == ranges(pos, size)
           IN  /\ r = [start |-> r.start, mid |-> r.mid, wrap |-> r.wrap]
               /\ r.start = pos % Capacity
               /\ r.start \in 0 .. Capacity - 1
               /\ r.mid \in r.start .. Capacity
               /\ r.wrap \in 0 .. r.start
               /\ r.mid - r.start + r.wrap = size
               /\ r.wrap # 0 => r.mid = Capacity
  <1> DEFINE start == pos % Capacity
             end == (pos + size) % Capacity
  <1>1. start \in 0 .. Capacity - 1
    BY Division
  <1>2. end = IF start + size < Capacity THEN start + size ELSE start + size - Capacity
    BY Wrap
  <1> HIDE DEF start, end
  <1>3. CASE size = 0 \/ start < end
    <2>1. ranges(pos, size) = [start |-> start, mid |-> end, wrap |-> 0]
      BY <1>3 DEF ranges, start, end
    <2> QED
      BY <2>1, <1>1, <1>2, <1>3, CapacityAssumption DEF start
  <1>4. CASE ~(size = 0 \/ start < end)
    <2>1. ranges(pos, size) = [start |-> start, mid |-> Capacity, wrap |-> end]
      BY <1>4 DEF ranges, start, end
    <2> QED
      BY <2>1, <1>1, <1>2, <1>4, CapacityAssumption DEF start
  <1> QED
    BY <1>3, <1>4

(* Where the j-th byte of a range of positions is. *)
LEMMA RangesIndex ==
    ASSUME NEW pos \in Nat, NEW size \in 0 .. Capacity, NEW j \in 0 .. Capacity - 1
    PROVE  LET r == ranges(pos, size)
               x == (pos + j) % Capacity
           IN  /\ x \in 0 .. Capacity - 1
               /\ j < size =>
                     IF j < r.mid - r.start THEN x = r.start + j
                                            ELSE x = j - (r.mid - r.start) /\ x < r.wrap
               /\ j >= size => x \notin r.start .. r.mid - 1 /\ x \notin 0 .. r.wrap - 1
  <1> DEFINE r == ranges(pos, size)
             x == (pos + j) % Capacity
             start == pos % Capacity
  <1>0. j \in 0 .. Capacity
    BY CapacityAssumption
  <1>1. x = IF start + j < Capacity THEN start + j ELSE start + j - Capacity
    BY <1>0, Wrap
  <1>2. /\ r.start = start
        /\ r.start \in 0 .. Capacity - 1
        /\ r.mid \in r.start .. Capacity
        /\ r.wrap \in 0 .. r.start
        /\ r.mid - r.start + r.wrap = size
        /\ r.wrap # 0 => r.mid = Capacity
    BY RangesShape
  <1> HIDE DEF r, x, start
  <1> QED
    BY <1>1, <1>2, CapacityAssumption DEF r, x

(* Without its second range, a range is the one of as many bytes as the    *)
(* first holds (readable_buf, writable_buf).                               *)
LEMMA FirstRange ==
    ASSUME NEW pos \in Nat, NEW size \in 0 .. Capacity
    PROVE  LET r == ranges(pos, size)
               n == r.mid - r.start
           IN  n \in 0 .. size /\ [r EXCEPT !.wrap = 0] = ranges(pos, n)
  <1> DEFINE r == ranges(pos, size)
             n == r.mid - r.start
             s == ranges(pos, n)
  <1>1. /\ r = [start |-> r.start, mid |-> r.mid, wrap |-> r.wrap]
        /\ r.start = pos % Capacity
        /\ r.start \in 0 .. Capacity - 1
        /\ r.mid \in r.start .. Capacity
        /\ r.wrap \in 0 .. r.start
        /\ r.mid - r.start + r.wrap = size
    BY RangesShape
  <1>2. n \in 0 .. size /\ n \in 0 .. Capacity
    BY <1>1, CapacityAssumption
  <1>3. (pos + n) % Capacity = IF r.start + n < Capacity THEN r.start + n ELSE r.start + n - Capacity
    BY <1>1, <1>2, Wrap
  <1>4. s.start = r.start /\ s.mid = r.mid /\ s.wrap = 0
    BY <1>1, <1>2, <1>3, CapacityAssumption DEF ranges
  <1>5. s = [start |-> s.start, mid |-> s.mid, wrap |-> s.wrap]
    BY <1>2, RangesShape
  <1>6. [r EXCEPT !.wrap = 0] = [start |-> r.start, mid |-> r.mid, wrap |-> 0]
    BY <1>1
  <1> QED
    BY <1>2, <1>4, <1>5, <1>6

-----------------------------------------------------------------------------
(* What the copies through the two ranges come to. *)

Cell == Byte \cup {0}

Block == [0 .. Capacity - 1 -> Cell]

(* The bytes at size positions of block m, from position pos on. *)
View(m, pos, size) == [i \in 1 .. size |-> m[(pos + i - 1) % Capacity]]

(* A function on 1 .. n is a sequence of length n. *)
LEMMA FunctionIsSeq ==
    ASSUME NEW S, NEW n \in Nat, NEW f \in [1 .. n -> S]
    PROVE  f \in Seq(S) /\ Len(f) = n
  OBVIOUS

(* A view is a sequence of its size. *)
LEMMA ViewType ==
    ASSUME NEW m \in Block, NEW pos \in Nat, NEW size \in Nat
    PROVE  /\ View(m, pos, size) \in Seq(Cell)
           /\ Len(View(m, pos, size)) = size
           /\ \A i \in 1 .. size : View(m, pos, size)[i] = m[(pos + i - 1) % Capacity]
  <1>1. ASSUME NEW i \in 1 .. size
        PROVE  m[(pos + i - 1) % Capacity] \in Cell
    <2>1. pos + i - 1 \in Nat
      OBVIOUS
    <2>2. (pos + i - 1) % Capacity \in 0 .. Capacity - 1
      BY <2>1, Division
    <2> QED
      BY <2>2 DEF Block
  <1>2. View(m, pos, size) \in [1 .. size -> Cell]
    BY <1>1 DEF View
  <1>3. View(m, pos, size) \in Seq(Cell) /\ Len(View(m, pos, size)) = size
    BY <1>2, FunctionIsSeq
  <1> QED
    BY <1>3 DEF View

(* read and readable_buf copy out the bytes at the positions asked for,    *)
(* in order, through a wrap of the cursor too.                             *)
LEMMA BytesAreTheView ==
    ASSUME memory_block \in Block, NEW pos \in Nat, NEW size \in 0 .. Capacity
    PROVE  Bytes(ranges(pos, size)) = View(memory_block, pos, size)
  <1> DEFINE r == ranges(pos, size)
             n == r.mid - r.start
             s == Slice(r.start, r.mid)
             t == Slice(0, r.wrap)
  <1>1. /\ r.start \in 0 .. Capacity - 1
        /\ r.mid \in r.start .. Capacity
        /\ r.wrap \in 0 .. r.start
        /\ n + r.wrap = size
    BY RangesShape
  <1>2. s \in [1 .. n -> Cell] /\ \A i \in 1 .. n : s[i] = memory_block[r.start + i - 1]
    <2> HIDE DEF r
    <2> QED
      BY <1>1, CapacityAssumption, SMTT(30) DEF Slice, Block
  <1>3. t \in [1 .. r.wrap -> Cell] /\ \A i \in 1 .. r.wrap : t[i] = memory_block[i - 1]
    <2> HIDE DEF r
    <2> QED
      BY <1>1, CapacityAssumption, SMTT(30) DEF Slice, Block
  <1> HIDE DEF s, t
  <1>4. s \in Seq(Cell) /\ Len(s) = n /\ t \in Seq(Cell) /\ Len(t) = r.wrap
    <2>1. n \in Nat /\ r.wrap \in Nat
      BY <1>1, CapacityAssumption
    <2> HIDE DEF r, n
    <2>2. s \in Seq(Cell) /\ Len(s) = n
      BY <2>1, <1>2, FunctionIsSeq
    <2>3. t \in Seq(Cell) /\ Len(t) = r.wrap
      BY <2>1, <1>3, FunctionIsSeq
    <2> QED
      BY <2>2, <2>3
  <1>5. s \o t \in Seq(Cell) /\ Len(s \o t) = size
    BY <1>1, <1>4, ConcatProperties, SMTT(30)
  <1>6. View(memory_block, pos, size) \in Seq(Cell) /\ Len(View(memory_block, pos, size)) = size
    BY ViewType
  <1>7. ASSUME NEW i \in 1 .. size
        PROVE  (s \o t)[i] = View(memory_block, pos, size)[i]
    <2>1. i - 1 \in 0 .. Capacity - 1 /\ i - 1 < size /\ pos + (i - 1) = pos + i - 1
      BY CapacityAssumption
    <2>2. LET x == (pos + i - 1) % Capacity
          IN  IF i - 1 < n THEN x = r.start + (i - 1) ELSE x = i - 1 - n /\ x < r.wrap
      BY <2>1, RangesIndex
    <2>3. (s \o t)[i] = IF i <= n THEN s[i] ELSE t[i - n]
      BY <1>1, <1>4, ConcatProperties, SMTT(30)
    <2> DEFINE x == (pos + i - 1) % Capacity
    <2>4. View(memory_block, pos, size)[i] = memory_block[x]
      BY DEF View
    <2>5. IF i - 1 < n THEN x = r.start + (i - 1) ELSE x = i - 1 - n /\ x < r.wrap
      BY <2>2
    <2> HIDE DEF r, x
    <2>6. CASE i <= n
      <3>1. x = r.start + i - 1 /\ i \in 1 .. n
        BY <2>5, <2>6, <1>1, CapacityAssumption
      <3> QED
        BY <3>1, <2>3, <2>4, <2>6, <1>2
    <2>7. CASE ~(i <= n)
      <3>1. x = (i - n) - 1 /\ i - n \in 1 .. r.wrap
        BY <2>5, <2>7, <1>1, CapacityAssumption
      <3> QED
        BY <3>1, <2>3, <2>4, <2>7, <1>3
    <2> QED
      BY <2>6, <2>7
  <1>8. s \o t = View(memory_block, pos, size)
    BY <1>5, <1>6, <1>7, SeqEqual
  <1> QED
    BY <1>8 DEF Bytes, s, t

(* write and writable_buf put a buffer's bytes at the positions asked for  *)
(* and leave the rest of the block alone.                                  *)
LEMMA StoredBytes ==
    ASSUME memory_block \in Block, NEW pos \in Nat, NEW size \in 0 .. Capacity,
           NEW buf \in Seq(Byte), size <= Len(buf)
    PROVE  LET m == Stored(ranges(pos, size), buf)
           IN  /\ m \in Block
               /\ \A j \in 0 .. Capacity - 1 :
                     m[(pos + j) % Capacity] =
                         IF j < size THEN buf[j + 1] ELSE memory_block[(pos + j) % Capacity]
  <1> DEFINE r == ranges(pos, size)
             m == Stored(r, buf)
  <1>1. /\ r.start \in 0 .. Capacity - 1
        /\ r.mid \in r.start .. Capacity
        /\ r.wrap \in 0 .. r.start
        /\ r.mid - r.start + r.wrap = size
    BY RangesShape
  <1>2. Len(buf) \in Nat /\ \A i \in 1 .. Len(buf) : buf[i] \in Byte
    OBVIOUS
  <1>3. m = [i \in 0 .. Capacity - 1 |->
                IF i \in r.start .. r.mid - 1 THEN buf[i - r.start + 1]
                ELSE IF i \in 0 .. r.wrap - 1 THEN buf[r.mid - r.start + i + 1]
                ELSE memory_block[i]]
    BY DEF Stored, Block
  <1>4. m \in Block
    <2> HIDE DEF r, m
    <2>1. ASSUME NEW i \in 0 .. Capacity - 1
          PROVE  m[i] \in Cell
      <3>1. CASE i \in r.start .. r.mid - 1
        BY <3>1, <1>1, <1>2, <1>3, CapacityAssumption, SMTT(30) DEF Cell
      <3>2. CASE i \notin r.start .. r.mid - 1 /\ i \in 0 .. r.wrap - 1
        BY <3>2, <1>1, <1>2, <1>3, CapacityAssumption, SMTT(30) DEF Cell
      <3>3. CASE i \notin r.start .. r.mid - 1 /\ i \notin 0 .. r.wrap - 1
        BY <3>3, <1>3 DEF Block
      <3> QED
        BY <3>1, <3>2, <3>3
    <2> QED
      BY <2>1, <1>3 DEF Block
  <1>5. ASSUME NEW j \in 0 .. Capacity - 1
        PROVE  m[(pos + j) % Capacity] = IF j < size THEN buf[j + 1] ELSE memory_block[(pos + j) % Capacity]
    <2> DEFINE x == (pos + j) % Capacity
    <2>1. /\ x \in 0 .. Capacity - 1
          /\ j < size =>
                IF j < r.mid - r.start THEN x = r.start + j
                                       ELSE x = j - (r.mid - r.start) /\ x < r.wrap
          /\ j >= size => x \notin r.start .. r.mid - 1 /\ x \notin 0 .. r.wrap - 1
      BY RangesIndex
    <2> HIDE DEF x, r, m
    <2>2. m[x] = IF x \in r.start .. r.mid - 1 THEN buf[x - r.start + 1]
                 ELSE IF x \in 0 .. r.wrap - 1 THEN buf[r.mid - r.start + x + 1]
                 ELSE memory_block[x]
      BY <2>1, <1>3
    <2>3. CASE j < size /\ j < r.mid - r.start
      <3>1. x \in r.start .. r.mid - 1 /\ x - r.start + 1 = j + 1
        BY <2>1, <2>3, <1>1, CapacityAssumption, SMTT(30)
      <3> QED
        BY <3>1, <2>2, <2>3 DEF x
    <2>4. CASE j < size /\ ~(j < r.mid - r.start)
      <3>1. x = j - (r.mid - r.start) /\ x < r.wrap
        BY <2>1, <2>4
      <3>2. r.start \in Int /\ r.mid \in Int /\ r.wrap \in Int /\ x \in Int /\ x >= 0 /\ r.wrap <= r.start
        BY <2>1, <1>1, CapacityAssumption
      <3>3. x \notin r.start .. r.mid - 1 /\ x \in 0 .. r.wrap - 1
        BY <3>1, <3>2
      <3>4. r.mid - r.start + x + 1 = j + 1
        BY <3>1, <3>2
      <3> QED
        BY <3>3, <3>4, <2>2, <2>4 DEF x
    <2>5. CASE ~(j < size)
      <3>1. x \notin r.start .. r.mid - 1 /\ x \notin 0 .. r.wrap - 1
        BY <2>1, <2>5
      <3> QED
        BY <3>1, <2>2, <2>5 DEF x
    <2> QED
      BY <2>3, <2>4, <2>5
  <1> QED
    BY <1>4, <1>5

-----------------------------------------------------------------------------
(* The invariant of the ring buffer: the types, and the cursors no more    *)
(* than one block apart.                                                   *)

RingInv == RingTypeOK /\ CursorsInRange

(* What the invariant says of the numbers the operations compute with. *)
LEMMA Cursors ==
    ASSUME RingInv
    PROVE  /\ memory_block \in Block
           /\ read_pos \in Nat /\ write_pos \in Nat
           /\ readable \in 0 .. Capacity /\ writable \in 0 .. Capacity
           /\ write_pos = read_pos + readable
           /\ readable + writable = Capacity
  BY CapacityAssumption, BoundAssumption
     DEF RingInv, RingTypeOK, CursorsInRange, readable, writable, Block, Cell

(* The callers' buffers. *)
LEMMA BufType ==
    ASSUME NEW buf \in Buf
    PROVE  buf \in Seq(Byte) /\ Len(buf) \in 0 .. MaxBuf
  <1>1. PICK n \in 0 .. MaxBuf : buf \in [1 .. n -> Byte]
    BY DEF Buf
  <1>2. n \in Nat
    BY BoundAssumption
  <1> QED
    BY <1>1, <1>2, FunctionIsSeq

(* What was stored before is still there after bytes were put into the     *)
(* room left, and the first of them follow it.                             *)
LEMMA PutAppends ==
    ASSUME RingInv, NEW buf \in Seq(Byte), NEW size \in 0 .. writable, size <= Len(buf),
           NEW amt \in 0 .. size
    PROVE  LET m == Stored(ranges(write_pos, size), buf)
           IN  /\ m \in Block
               /\ View(m, read_pos, readable + amt) = Contents \o SubSeq(buf, 1, amt)
  <1> DEFINE m == Stored(ranges(write_pos, size), buf)
             new == View(m, read_pos, readable + amt)
             bytes == SubSeq(buf, 1, amt)
  <1>1. /\ memory_block \in Block
        /\ read_pos \in Nat /\ write_pos \in Nat
        /\ readable \in 0 .. Capacity /\ writable \in 0 .. Capacity
        /\ write_pos = read_pos + readable
        /\ readable + writable = Capacity
    BY Cursors
  <1> HIDE DEF readable, writable
  <1>2. size \in 0 .. Capacity
    BY <1>1
  <1>3. /\ m \in Block
        /\ \A j \in 0 .. Capacity - 1 :
              m[(write_pos + j) % Capacity] =
                  IF j < size THEN buf[j + 1] ELSE memory_block[(write_pos + j) % Capacity]
    BY <1>1, <1>2, StoredBytes
  <1> HIDE DEF m
  <1>4. Contents = View(memory_block, read_pos, readable)
    BY DEF Contents, View
  <1>5. /\ Contents \in Seq(Cell) /\ Len(Contents) = readable
        /\ \A i \in 1 .. readable : Contents[i] = memory_block[(read_pos + i - 1) % Capacity]
    <2>1. readable \in Nat
      BY <1>1
    <2> QED
      BY <2>1, <1>1, <1>4, ViewType
  <1>6. readable + amt \in Nat
    BY <1>1, <1>2
  <1>7. /\ new \in Seq(Cell) /\ Len(new) = readable + amt
        /\ \A i \in 1 .. readable + amt : new[i] = m[(read_pos + i - 1) % Capacity]
    BY <1>1, <1>3, <1>6, ViewType
  <1>8. bytes \in Seq(Byte) /\ Len(bytes) = amt /\ \A i \in 1 .. amt : bytes[i] = buf[i]
    <2>1. Len(buf) \in Nat /\ \A i \in 1 .. Len(buf) : buf[i] \in Byte
      OBVIOUS
    <2>2. \A i \in 1 .. amt : buf[i] \in Byte
      BY <2>1, <1>2
    <2>3. 1 \in Int /\ amt \in Int
      OBVIOUS
    <2>4. /\ bytes \in Seq(Byte)
          /\ Len(bytes) = IF 1 <= amt THEN amt - 1 + 1 ELSE 0
          /\ \A i \in 1 .. amt - 1 + 1 : bytes[i] = buf[1 + i - 1]
      BY <2>2, <2>3, SubSeqProperties
    <2> HIDE DEF bytes
    <2> QED
      BY <2>4
  <1>9. bytes \in Seq(Cell)
    <2>1. Byte \subseteq Cell
      BY DEF Cell
    <2> QED
      BY <1>8, <2>1, SeqMonotonic
  <1> HIDE DEF new, bytes
  <1>10. /\ Contents \o bytes \in Seq(Cell)
         /\ Len(Contents \o bytes) = readable + amt
         /\ \A i \in 1 .. readable + amt :
               (Contents \o bytes)[i] = IF i <= readable THEN Contents[i] ELSE bytes[i - readable]
    BY <1>5, <1>8, <1>9, ConcatProperties, ZenonT(30)
  <1>11. ASSUME NEW i \in 1 .. readable + amt
         PROVE  new[i] = (Contents \o bytes)[i]
    <2>1. CASE i <= readable
      <3> DEFINE j == Capacity - readable + i - 1
      <3>1. j \in 0 .. Capacity - 1 /\ ~(j < size) /\ i \in 1 .. readable
        BY <2>1, <1>1, <1>2, CapacityAssumption
      <3>2. read_pos + i - 1 \in Nat /\ write_pos + j = read_pos + i - 1 + Capacity
        BY <1>1, CapacityAssumption
      <3>3. (write_pos + j) % Capacity = (read_pos + i - 1) % Capacity
        BY <3>2, FullTurn
      <3> HIDE DEF j
      <3>4. m[(read_pos + i - 1) % Capacity] = memory_block[(read_pos + i - 1) % Capacity]
        BY <3>1, <3>3, <1>3
      <3>5. new[i] = m[(read_pos + i - 1) % Capacity]
        BY <1>7
      <3>6. (Contents \o bytes)[i] = memory_block[(read_pos + i - 1) % Capacity]
        BY <3>1, <2>1, <1>5, <1>10
      <3> QED
        BY <3>4, <3>5, <3>6
    <2>2. CASE ~(i <= readable)
      <3> DEFINE j == i - readable - 1
      <3>1. /\ j \in 0 .. Capacity - 1 /\ j < size /\ write_pos + j = read_pos + i - 1
            /\ j + 1 = i - readable /\ i - readable \in 1 .. amt
        BY <2>2, <1>1, <1>2, CapacityAssumption
      <3> HIDE DEF j
      <3>2. m[(read_pos + i - 1) % Capacity] = buf[i - readable]
        BY <3>1, <1>3
      <3>3. new[i] = m[(read_pos + i - 1) % Capacity]
        BY <1>7
      <3>4. (Contents \o bytes)[i] = buf[i - readable]
        BY <3>1, <2>2, <1>8, <1>10
      <3> QED
        BY <3>2, <3>3, <3>4
    <2> QED
      BY <2>1, <2>2
  <1>12. new = Contents \o bytes
    BY <1>7, <1>10, <1>11, SeqEqual
  <1> QED
    BY <1>3, <1>12 DEF m, new, bytes

(* The oldest bytes, and what stays when they have gone. *)
LEMMA PartsOfContents ==
    ASSUME RingInv, NEW n \in 0 .. readable
    PROVE  /\ Len(Contents) = readable
           /\ View(memory_block, read_pos, n) = SubSeq(Contents, 1, n)
           /\ View(memory_block, read_pos + n, readable - n) = SubSeq(Contents, n + 1, Len(Contents))
  <1>1. memory_block \in Block /\ read_pos \in Nat /\ readable \in Nat
    BY Cursors
  <1> HIDE DEF readable
  <1>2. Contents = View(memory_block, read_pos, readable)
    BY DEF Contents, View
  <1>3. /\ Contents \in Seq(Cell) /\ Len(Contents) = readable
        /\ \A i \in 1 .. readable : Contents[i] = memory_block[(read_pos + i - 1) % Capacity]
    BY <1>1, <1>2, ViewType
  <1>4. \A i \in 1 .. readable : Contents[i] \in Cell
    BY <1>3
  <1>5. View(memory_block, read_pos, n) = SubSeq(Contents, 1, n)
    <2> DEFINE v == View(memory_block, read_pos, n)
               w == SubSeq(Contents, 1, n)
    <2>1. n \in Nat /\ n \in Int /\ 1 \in Int /\ \A i \in 1 .. n : Contents[i] \in Cell
      BY <1>1, <1>4
    <2>2. /\ v \in Seq(Cell) /\ Len(v) = n
          /\ \A i \in 1 .. n : v[i] = memory_block[(read_pos + i - 1) % Capacity]
      BY <2>1, <1>1, ViewType
    <2>3. /\ w \in Seq(Cell)
          /\ Len(w) = IF 1 <= n THEN n - 1 + 1 ELSE 0
          /\ \A i \in 1 .. n - 1 + 1 : w[i] = Contents[1 + i - 1]
      BY <2>1, SubSeqProperties
    <2> HIDE DEF v, w
    <2>4. Len(w) = n /\ \A i \in 1 .. n : w[i] = Contents[i]
      BY <2>1, <2>3
    <2>5. ASSUME NEW i \in 1 .. n
          PROVE  v[i] = w[i]
      <3>1. i \in 1 .. readable
        BY <2>1, <1>1
      <3> QED
        BY <3>1, <2>2, <2>4, <1>3
    <2> QED
      BY <2>2, <2>3, <2>4, <2>5, SeqEqual DEF v, w
  <1>6. View(memory_block, read_pos + n, readable - n) = SubSeq(Contents, n + 1, Len(Contents))
    <2> DEFINE k == readable - n
               v == View(memory_block, read_pos + n, k)
               w == SubSeq(Contents, n + 1, Len(Contents))
    <2>1. /\ n \in Nat /\ n + 1 \in Int /\ Len(Contents) \in Int /\ k \in Nat /\ read_pos + n \in Nat
          /\ \A i \in n + 1 .. Len(Contents) : Contents[i] \in Cell
      BY <1>1, <1>3, <1>4
    <2>2. /\ v \in Seq(Cell) /\ Len(v) = k
          /\ \A i \in 1 .. k : v[i] = memory_block[(read_pos + n + i - 1) % Capacity]
      BY <2>1, <1>1, ViewType
    <2>3. /\ w \in Seq(Cell)
          /\ Len(w) = IF n + 1 <= Len(Contents) THEN Len(Contents) - (n + 1) + 1 ELSE 0
          /\ \A i \in 1 .. Len(Contents) - (n + 1) + 1 : w[i] = Contents[n + 1 + i - 1]
      BY <2>1, SubSeqProperties
    <2> HIDE DEF v, w
    <2>4. Len(w) = k /\ \A i \in 1 .. k : w[i] = Contents[n + i]
      BY <2>1, <2>3, <1>1, <1>3
    <2>5. ASSUME NEW i \in 1 .. k
          PROVE  v[i] = w[i]
      <3>1. n + i \in 1 .. readable /\ read_pos + (n + i) - 1 = read_pos + n + i - 1
        BY <2>1, <1>1
      <3>2. Contents[n + i] = memory_block[(read_pos + (n + i) - 1) % Capacity]
        BY <3>1, <1>3
      <3> QED
        BY <3>1, <3>2, <2>2, <2>4
    <2> QED
      BY <2>2, <2>3, <2>4, <2>5, SeqEqual DEF v, w
  <1> QED
    BY <1>3, <1>5, <1>6

(* The contents after a step. *)
LEMMA ContentsNext ==
    Contents' = View(memory_block', read_pos', readable')
  BY DEF Contents, View

-----------------------------------------------------------------------------
(* One lemma per operation: it keeps the invariant, and does to the queue  *)
(* what the abstract queue allows.                                         *)

(* read *)
LEMMA ReadStep ==
    ASSUME RingInv, NEW len \in Nat, Read(len)
    PROVE  RingInv' /\ Fifo!Take
  <1> DEFINE n == ReadSize(len)
  <1>1. /\ memory_block \in Block
        /\ read_pos \in Nat /\ write_pos \in Nat
        /\ readable \in 0 .. Capacity
        /\ write_pos = read_pos + readable
    BY Cursors
  <1>2. n \in 0 .. readable /\ n \in 0 .. Capacity
    <2> HIDE DEF readable
    <2> QED
      BY <1>1, CapacityAssumption DEF ReadSize, Least
  <1>3. out' = View(memory_block, read_pos, n) /\ read_pos' = read_pos + n
        /\ memory_block' = memory_block /\ write_pos' = write_pos
    BY <1>1, <1>2, BytesAreTheView DEF Read
  <1> HIDE DEF n
  <1>4. readable' = readable - n
    BY <1>1, <1>2, <1>3 DEF readable
  <1>5. /\ Len(Contents) = readable
        /\ out' = SubSeq(Contents, 1, n)
        /\ Contents' = SubSeq(Contents, n + 1, Len(Contents))
    BY <1>2, <1>3, <1>4, PartsOfContents, ContentsNext
  <1>6. Fifo!Take
    BY <1>2, <1>5 DEF Fifo!Take
  <1>7. RingInv'
    <2>1. n \in Nat
      BY <1>1, <1>2
    <2>2. out' \in Seq(Byte \cup {0})
      BY <2>1, <1>1, <1>3, ViewType DEF Cell
    <2>3. read_pos' \in 0 .. MaxPos
      BY <1>1, <1>2, <1>3, BoundAssumption DEF RingInv, RingTypeOK, readable
    <2>4. CursorsInRange'
      BY <1>1, <1>2, <1>3, CapacityAssumption DEF RingInv, CursorsInRange, readable, writable
    <2> QED
      BY <2>2, <2>3, <2>4, <1>3 DEF RingInv, RingTypeOK
  <1> QED
    BY <1>6, <1>7

(* readable_consume *)
LEMMA ConsumeStep ==
    ASSUME RingInv, NEW amt \in Nat, Consume(amt)
    PROVE  RingInv' /\ Fifo!Drop
  <1>1. /\ memory_block \in Block
        /\ read_pos \in Nat /\ write_pos \in Nat
        /\ readable \in 0 .. Capacity
        /\ write_pos = read_pos + readable
    BY Cursors
  <1>2. amt \in 0 .. readable
    BY <1>1 DEF Consume
  <1>3. out' = out /\ read_pos' = read_pos + amt /\ memory_block' = memory_block /\ write_pos' = write_pos
    BY DEF Consume
  <1>4. readable' = readable - amt
    BY <1>1, <1>2, <1>3 DEF readable
  <1>5. Len(Contents) = readable /\ Contents' = SubSeq(Contents, amt + 1, Len(Contents))
    BY <1>2, <1>3, <1>4, PartsOfContents, ContentsNext
  <1>6. Fifo!Drop
    BY <1>2, <1>3, <1>5 DEF Fifo!Drop
  <1>7. RingInv'
    <2>1. read_pos' \in 0 .. MaxPos
      BY <1>1, <1>2, <1>3, BoundAssumption DEF RingInv, RingTypeOK, readable
    <2>2. CursorsInRange'
      BY <1>1, <1>2, <1>3, CapacityAssumption DEF RingInv, CursorsInRange, readable, writable
    <2> QED
      BY <2>1, <2>2, <1>3 DEF RingInv, RingTypeOK
  <1> QED
    BY <1>6, <1>7

(* readable_buf *)
LEMMA FillBufStep ==
    ASSUME RingInv, FillBuf
    PROVE  RingInv' /\ Fifo!Peek
  <1> DEFINE r == ranges(read_pos, readable)
             n == r.mid - r.start
  <1>1. memory_block \in Block /\ read_pos \in Nat /\ readable \in 0 .. Capacity
    BY Cursors
  <1>2. n \in 0 .. readable /\ [r EXCEPT !.wrap = 0] = ranges(read_pos, n)
    BY <1>1, FirstRange
  <1>3. /\ out' = Bytes([r EXCEPT !.wrap = 0])
        /\ read_pos' = read_pos /\ memory_block' = memory_block /\ write_pos' = write_pos
    BY DEF FillBuf
  <1> HIDE DEF n, r
  <1>4. n \in 0 .. Capacity /\ n \in Nat
    BY <1>1, <1>2, CapacityAssumption
  <1>5. out' = View(memory_block, read_pos, n)
    BY <1>1, <1>2, <1>3, <1>4, BytesAreTheView
  <1>6. Len(Contents) = readable /\ out' = SubSeq(Contents, 1, n)
    BY <1>2, <1>5, PartsOfContents
  <1>7. Contents' = Contents
    BY <1>3 DEF Contents, readable
  <1>8. Fifo!Peek
    BY <1>2, <1>6, <1>7 DEF Fifo!Peek
  <1>9. RingInv'
    <2>1. out' \in Seq(Byte \cup {0})
      BY <1>1, <1>4, <1>5, ViewType DEF Cell
    <2> QED
      BY <2>1, <1>3 DEF RingInv, RingTypeOK, CursorsInRange, readable, writable
  <1> QED
    BY <1>8, <1>9

(* What write and writable_consume have in common: size bytes of buf are   *)
(* put into the room left, and the cursor moves over the first amt.        *)
LEMMA PutStep ==
    ASSUME RingInv, NEW buf \in Buf, NEW size \in 0 .. writable, size <= Len(buf),
           NEW amt \in 0 .. size, write_pos + amt <= MaxPos,
           memory_block' = Stored(ranges(write_pos, size), buf),
           write_pos' = write_pos + amt, read_pos' = read_pos, out' = out
    PROVE  RingInv' /\ (Fifo!Put \/ UNCHANGED Fifo!vars)
  <1>1. /\ read_pos \in Nat /\ write_pos \in Nat
        /\ readable \in 0 .. Capacity /\ writable \in 0 .. Capacity
        /\ write_pos = read_pos + readable
        /\ readable + writable = Capacity
    BY Cursors
  <1>2. buf \in Seq(Byte)
    BY BufType
  <1>3. /\ memory_block' \in Block
        /\ View(memory_block', read_pos, readable + amt) = Contents \o SubSeq(buf, 1, amt)
    BY <1>2, PutAppends
  <1>4. readable' = readable + amt
    BY <1>1 DEF readable
  <1>5. Contents' = Contents \o SubSeq(buf, 1, amt)
    BY <1>3, <1>4, ContentsNext
  <1>6. Len(Contents) = readable
    BY <1>1, PartsOfContents
  <1> HIDE DEF readable, writable
  <1>7. RingInv'
    <2>1. write_pos' \in 0 .. MaxPos
      BY <1>1, BoundAssumption
    <2>2. CursorsInRange'
      BY <1>1, CapacityAssumption DEF RingInv, CursorsInRange, readable, writable
    <2> QED
      BY <2>1, <2>2, <1>3 DEF RingInv, RingTypeOK, Block, Cell
  <1>8. CASE amt = 0
    <2>1. SubSeq(buf, 1, amt) = <<>>
      BY <1>8, SubSeqEmpty
    <2>2. Contents \in Seq(Cell)
      <3>1. readable \in Nat /\ Contents = View(memory_block, read_pos, readable)
        BY <1>1 DEF Contents, View
      <3> QED
        BY <3>1, Cursors, ViewType
    <2>3. Contents' = Contents
      BY <2>1, <2>2, <1>5, ConcatEmptySeq
    <2> QED
      BY <2>3, <1>7 DEF Fifo!vars
  <1>9. CASE amt # 0
    <2>1. amt \in 1 .. Capacity - Len(Contents)
      BY <1>1, <1>6, <1>9
    <2>2. SubSeq(buf, 1, amt) \in [1 .. amt -> Byte]
      <3>1. Len(buf) \in Nat /\ \A i \in 1 .. Len(buf) : buf[i] \in Byte
        BY <1>2
      <3>2. \A i \in 1 .. amt : buf[i] \in Byte
        BY <3>1, <1>1
      <3>3. 1 \in Int /\ amt \in Int
        OBVIOUS
      <3>4. /\ SubSeq(buf, 1, amt) \in Seq(Byte)
            /\ Len(SubSeq(buf, 1, amt)) = IF 1 <= amt THEN amt - 1 + 1 ELSE 0
        BY <3>2, <3>3, SubSeqProperties
      <3>5. Len(SubSeq(buf, 1, amt)) = amt
        BY <3>4, <2>1
      <3> QED
        BY <3>4, <3>5, LenProperties
    <2> QED
      BY <2>1, <2>2, <1>5, <1>7 DEF Fifo!Put
  <1> QED
    BY <1>8, <1>9

(* write *)
LEMMA WriteStep ==
    ASSUME RingInv, NEW buf \in Buf, Write(buf)
    PROVE  RingInv' /\ (Fifo!Put \/ UNCHANGED Fifo!vars)
  <1> DEFINE n == WriteSize(buf)
  <1>1. writable \in 0 .. Capacity
    BY Cursors
  <1>2. Len(buf) \in Nat
    BY BufType
  <1>3. n \in 0 .. writable /\ n <= Len(buf) /\ n \in 0 .. n
    <2> HIDE DEF writable
    <2> QED
      BY <1>1, <1>2 DEF WriteSize, Least
  <1>4. /\ write_pos + n <= MaxPos
        /\ memory_block' = Stored(ranges(write_pos, n), buf)
        /\ write_pos' = write_pos + n /\ read_pos' = read_pos /\ out' = out
    BY DEF Write
  <1> HIDE DEF n
  <1> QED
    BY <1>3, <1>4, PutStep

(* writable_buf and writable_consume *)
LEMMA WriteInPlaceStep ==
    ASSUME RingInv, NEW buf \in Buf, NEW amt \in Nat, WriteInPlace(buf, amt)
    PROVE  RingInv' /\ (Fifo!Put \/ UNCHANGED Fifo!vars)
  <1> DEFINE r == ranges(write_pos, writable)
             n == r.mid - r.start
  <1>1. write_pos \in Nat /\ writable \in 0 .. Capacity
    BY Cursors
  <1>2. n \in 0 .. writable /\ [r EXCEPT !.wrap = 0] = ranges(write_pos, n)
    BY <1>1, FirstRange
  <1>3. /\ Len(buf) = n /\ amt \in 0 .. n
        /\ write_pos + amt <= MaxPos
        /\ memory_block' = Stored([r EXCEPT !.wrap = 0], buf)
        /\ write_pos' = write_pos + amt /\ read_pos' = read_pos /\ out' = out
    <2>1. writable_buf = [r EXCEPT !.wrap = 0] /\ writable_buf.mid = r.mid /\ writable_buf.start = r.start
      BY DEF writable_buf, ranges
    <2> HIDE DEF r
    <2> QED
      BY <2>1 DEF WriteInPlace
  <1> HIDE DEF r, n
  <1>4. n <= Len(buf)
    BY <1>1, <1>2, <1>3
  <1> QED
    BY <1>2, <1>3, <1>4, PutStep

(* Nothing happens to the ring buffer. *)
LEMMA RingStutter ==
    ASSUME RingInv, UNCHANGED ringVars
    PROVE  RingInv' /\ UNCHANGED Fifo!vars
  BY DEF RingInv, RingTypeOK, CursorsInRange, readable, writable, ringVars, Fifo!vars, Contents

(* The block at the start. *)
LEMMA RingStart ==
    ASSUME RingInit
    PROVE  RingInv /\ Fifo!Init
  <1>1. RingInv
    BY CapacityAssumption, BoundAssumption
       DEF RingInit, RingInv, RingTypeOK, CursorsInRange, readable, writable
  <1>2. readable = 0
    BY DEF RingInit, readable
  <1>3. Len(Contents) = 0
    BY <1>1, <1>2, PartsOfContents
  <1>4. Contents \in Seq(Cell)
    BY <1>1, <1>2, Cursors, ViewType DEF Contents, View
  <1>5. Contents = <<>>
    BY <1>3, <1>4, EmptySeq
  <1> QED
    BY <1>1, <1>5 DEF Fifo!Init, RingInit

(* Every operation of the ring buffer. *)
LEMMA RingStep ==
    ASSUME RingInv, [RingNext]_ringVars
    PROVE  RingInv' /\ [Fifo!Next]_(Fifo!vars)
  <1>0. 0 .. MaxBuf \subseteq Nat
    BY BoundAssumption
  <1>1. ASSUME NEW len \in 0 .. MaxBuf, Read(len)
        PROVE  RingInv' /\ Fifo!Next
    BY <1>0, <1>1, ReadStep DEF Fifo!Next
  <1>2. ASSUME NEW len \in 0 .. MaxBuf, Consume(len)
        PROVE  RingInv' /\ Fifo!Next
    BY <1>0, <1>2, ConsumeStep DEF Fifo!Next
  <1>3. ASSUME NEW buf \in Buf, Write(buf)
        PROVE  RingInv' /\ [Fifo!Next]_(Fifo!vars)
    BY <1>3, WriteStep DEF Fifo!Next
  <1>4. ASSUME NEW buf \in Buf, NEW amt \in 0 .. MaxBuf, WriteInPlace(buf, amt)
        PROVE  RingInv' /\ [Fifo!Next]_(Fifo!vars)
    BY <1>0, <1>4, WriteInPlaceStep DEF Fifo!Next
  <1>5. ASSUME FillBuf
        PROVE  RingInv' /\ Fifo!Next
    BY <1>5, FillBufStep DEF Fifo!Next
  <1>6. ASSUME UNCHANGED ringVars
        PROVE  RingInv' /\ UNCHANGED Fifo!vars
    BY <1>6, RingStutter
  <1> QED
    BY <1>1, <1>2, <1>3, <1>4, <1>5, <1>6 DEF RingNext

(* The ring buffer alone, with all its operations in any order: the        *)
(* subtractions in readable and writable never wrap, and the assertions    *)
(* of the range functions hold, for every capacity.                        *)
THEOREM RingCursorsInRange == RingSpec => []CursorsInRange
  <1>1. RingInit => RingInv
    BY RingStart
  <1>2. RingInv /\ [RingNext]_ringVars => RingInv'
    BY RingStep
  <1>3. RingInv => CursorsInRange
    BY DEF RingInv
  <1> QED
    BY <1>1, <1>2, <1>3, PTL DEF RingSpec

(* The ring buffer implements a bounded first-in first-out queue of bytes: *)
(* whatever the capacity, and however often the cursors wrap, no byte is   *)
(* lost, repeated, reordered or read before it is written.                 *)
THEOREM RingIsFifo == RingSpec => IsFifo
  <1>1. RingInit => RingInv /\ Fifo!Init
    BY RingStart
  <1>2. RingInv /\ [RingNext]_ringVars => RingInv' /\ [Fifo!Next]_(Fifo!vars)
    BY RingStep
  <1> QED
    BY <1>1, <1>2, PTL DEF RingSpec, IsFifo, Fifo!Spec

-----------------------------------------------------------------------------
(* The pipe.  Its operations are those of the ring buffer and leave it in  *)
(* its invariant; the tasks and wakers are what it adds.                   *)

(* The lengths of the callers' buffers, and the buffers. *)
LEMMA CallerBuffers == BufLen \subseteq Nat /\ Input \subseteq Buf
  BY BufLenAssumption, BoundAssumption DEF Input

(* What the pipe's operations do to the ring buffer. *)
LEMMA PipeRingStep ==
    ASSUME RingInv, [PipeNext]_vars
    PROVE  RingInv' /\ [Fifo!Next]_(Fifo!vars)
  <1>1. ASSUME NEW len \in BufLen, TakeBytes(len)
        PROVE  RingInv' /\ Fifo!Next
    BY <1>1, CallerBuffers, ReadStep DEF TakeBytes, Fifo!Next
  <1>2. ASSUME NEW buf \in Input, PutBytes(buf)
        PROVE  RingInv' /\ [Fifo!Next]_(Fifo!vars)
    BY <1>2, CallerBuffers, WriteStep DEF PutBytes, Fifo!Next
  <1>3. ASSUME UNCHANGED ringVars
        PROVE  RingInv' /\ UNCHANGED Fifo!vars
    BY <1>3, RingStutter
  <1>4. CASE \E len \in BufLen : SyncRead(len) \/ PollRead(len)
    BY <1>1, <1>4 DEF SyncRead, PollRead
  <1>5. CASE \E buf \in Input : SyncWrite(buf) \/ PollWrite(buf)
    BY <1>2, <1>5 DEF SyncWrite, PollWrite
  <1>6. CASE PollClose \/ DropReader \/ DropWriter
    BY <1>3, <1>6 DEF PollClose, DropReader, DropWriter, Close
  <1>7. CASE UNCHANGED vars
    BY <1>3, <1>7 DEF vars
  <1> QED
    BY <1>4, <1>5, <1>6, <1>7 DEF PipeNext

(* The tasks, wakers and flags have their types. *)
TasksTypeOK ==
    /\ reader \in BOOLEAN /\ writer \in BOOLEAN /\ closed \in BOOLEAN /\ eof \in BOOLEAN
    /\ rtask \in Task /\ wtask \in Task

(* Waking keeps a task a task. *)
LEMMA WokenType ==
    ASSUME NEW task \in Task, NEW waker \in BOOLEAN
    PROVE  Woken(task, waker) \in Task
  BY DEF Woken, Task

(* Every operation keeps these types. *)
LEMMA TasksTypeStep ==
    ASSUME TasksTypeOK, [PipeNext]_vars
    PROVE  TasksTypeOK'
  <1> USE DEF TasksTypeOK
  <1>0. {"ready", "waiting", "gone"} \subseteq Task
    BY DEF Task
  <1>1. ASSUME NEW len \in BufLen, TakeBytes(len)
        PROVE  closed' \in BOOLEAN /\ eof' \in BOOLEAN /\ writer' \in BOOLEAN /\ wtask' \in Task
    BY <1>1, WokenType DEF TakeBytes
  <1>2. ASSUME NEW buf \in Input, PutBytes(buf)
        PROVE  closed' \in BOOLEAN /\ eof' \in BOOLEAN /\ reader' \in BOOLEAN /\ rtask' \in Task
    BY <1>2, WokenType DEF PutBytes
  <1>3. ASSUME NEW rt \in Task, NEW wt \in Task, Close(rt, wt)
        PROVE  TasksTypeOK'
    BY <1>3, WokenType DEF Close
  <1>4. ASSUME NEW len \in BufLen, SyncRead(len)
        PROVE  TasksTypeOK'
    BY <1>1, <1>4 DEF SyncRead
  <1>5. ASSUME NEW len \in BufLen, PollRead(len)
        PROVE  TasksTypeOK'
    BY <1>0, <1>1, <1>5 DEF PollRead
  <1>6. ASSUME NEW buf \in Input, SyncWrite(buf)
        PROVE  TasksTypeOK'
    BY <1>2, <1>6 DEF SyncWrite
  <1>7. ASSUME NEW buf \in Input, PollWrite(buf)
        PROVE  TasksTypeOK'
    BY <1>0, <1>2, <1>7 DEF PollWrite
  <1>8. CASE PollClose \/ DropReader \/ DropWriter
    BY <1>0, <1>3, <1>8 DEF PollClose, DropReader, DropWriter
  <1>9. CASE UNCHANGED vars
    BY <1>9 DEF vars, pipeVars
  <1> QED
    BY <1>4, <1>5, <1>6, <1>7, <1>8, <1>9 DEF PipeNext

PipeInv == RingInv /\ TasksTypeOK

(* The pipe's variables have their types: in particular the block keeps    *)
(* its length and holds bytes, and the cursors are positions.              *)
THEOREM PipeTypeCorrect == PipeSpec => []PipeTypeOK
  <1>1. PipeInit => PipeInv
    BY RingStart DEF PipeInit, PipeInv, TasksTypeOK, Task
  <1>2. PipeInv /\ [PipeNext]_vars => PipeInv'
    BY PipeRingStep, TasksTypeStep DEF PipeInv
  <1>3. PipeInv => PipeTypeOK
    BY DEF PipeInv, RingInv, TasksTypeOK, PipeTypeOK
  <1> QED
    BY <1>1, <1>2, <1>3, PTL DEF PipeSpec

(* The two ends of a pipe together make a first-in first-out queue, under  *)
(* every interleaving of reads, writes, closes and drops.                  *)
THEOREM PipeIsFifo == PipeSpec => IsFifo
  <1>1. PipeInit => RingInv /\ Fifo!Init
    BY RingStart DEF PipeInit
  <1>2. RingInv /\ [PipeNext]_vars => RingInv' /\ [Fifo!Next]_(Fifo!vars)
    BY PipeRingStep
  <1> QED
    BY <1>1, <1>2, PTL DEF PipeSpec, IsFifo, Fifo!Spec

(* A read that takes nothing into a buffer that is not empty found the     *)
(* pipe empty, and leaves it so; other reads do not add to it.             *)
LEMMA ReadNothing ==
    ASSUME RingInv, NEW len \in Nat \ {0}, Read(len)
    PROVE  /\ ReadSize(len) = 0 => readable = 0 /\ readable' = 0
           /\ readable = 0 => readable' = 0
  <1>1. readable \in Nat /\ read_pos \in Nat /\ write_pos \in Nat
    BY Cursors
  <1>2. ReadSize(len) = IF readable <= len THEN readable ELSE len
    BY DEF ReadSize, Least
  <1>3. read_pos' = read_pos + ReadSize(len) /\ write_pos' = write_pos
    BY DEF Read
  <1> QED
    BY <1>1, <1>2, <1>3 DEF readable

(* A write that stores nothing of a buffer that is not empty found the     *)
(* pipe full, and leaves it so.                                            *)
LEMMA WriteNothing ==
    ASSUME RingInv, NEW buf \in Buf, Len(buf) # 0, Write(buf)
    PROVE  WriteSize(buf) = 0 => writable' = 0
  <1>1. writable \in 0 .. Capacity /\ read_pos \in Nat /\ write_pos \in Nat /\ Len(buf) \in Nat
    BY Cursors, BufType
  <1>2. WriteSize(buf) = IF writable <= Len(buf) THEN writable ELSE Len(buf)
    BY DEF WriteSize, Least
  <1>3. write_pos' = write_pos + WriteSize(buf) /\ read_pos' = read_pos
    BY DEF Write
  <1> QED
    BY <1>1, <1>2, <1>3, CapacityAssumption DEF writable

(* What a waiting task may count on, and what the end of the stream means, *)
(* is kept by every operation whose buffers are not empty.                 *)
LEMMA WakeupStep ==
    ASSUME 0 \notin BufLen, PipeInv, NoLostWakeup, EofAfterData, [PipeNext]_vars
    PROVE  NoLostWakeup' /\ EofAfterData'
  <1> USE DEF PipeInv
  <1>1. ASSUME NEW len \in BufLen, TakeBytes(len)
        PROVE  /\ wtask' # "waiting"
               /\ rtask = "ready"
               /\ ReadSize(len) = 0 => readable' = 0
               /\ EofAfterData'
    <2>1. len \in Nat \ {0} /\ Read(len)
      BY <1>1, CallerBuffers DEF TakeBytes
    <2>2. /\ ReadSize(len) = 0 => readable = 0 /\ readable' = 0
          /\ readable = 0 => readable' = 0
      BY <2>1, ReadNothing
    <2>3. EofAfterData'
      BY <1>1, <2>2 DEF TakeBytes, EofAfterData, TasksTypeOK
    <2> QED
      BY <1>1, <2>2, <2>3 DEF TakeBytes, Woken, NoLostWakeup
  <1>2. ASSUME NEW buf \in Input, PutBytes(buf)
        PROVE  /\ rtask' # "waiting"
               /\ wtask = "ready" /\ ~closed'
               /\ WriteSize(buf) = 0 => writable' = 0
               /\ EofAfterData'
    <2>1. buf \in Buf /\ Len(buf) # 0 /\ Write(buf)
      BY <1>2 DEF PutBytes, Input
    <2>2. WriteSize(buf) = 0 => writable' = 0
      BY <2>1, WriteNothing
    <2> QED
      BY <1>2, <2>2 DEF PutBytes, Woken, NoLostWakeup, EofAfterData
  <1>3. ASSUME NEW len \in BufLen, SyncRead(len)
        PROVE  NoLostWakeup' /\ EofAfterData'
    BY <1>1, <1>3 DEF SyncRead, NoLostWakeup
  <1>4. ASSUME NEW len \in BufLen, PollRead(len)
        PROVE  NoLostWakeup' /\ EofAfterData'
    BY <1>1, <1>4 DEF PollRead, TakeBytes, NoLostWakeup, TasksTypeOK
  <1>5. ASSUME NEW buf \in Input, SyncWrite(buf)
        PROVE  NoLostWakeup' /\ EofAfterData'
    BY <1>2, <1>5 DEF SyncWrite, NoLostWakeup
  <1>6. ASSUME NEW buf \in Input, PollWrite(buf)
        PROVE  NoLostWakeup' /\ EofAfterData'
    BY <1>2, <1>6 DEF PollWrite, NoLostWakeup, TasksTypeOK
  <1>7. CASE PollClose \/ DropReader \/ DropWriter
    BY <1>7 DEF PollClose, DropReader, DropWriter, Close, Woken, NoLostWakeup, EofAfterData,
                readable, ringVars
  <1>8. CASE UNCHANGED vars
    BY <1>8 DEF vars, pipeVars, ringVars, NoLostWakeup, EofAfterData, readable, writable
  <1> QED
    BY <1>3, <1>4, <1>5, <1>6, <1>7, <1>8 DEF PipeNext

(* No wake-up is lost: under every interleaving of the two ends, a reader  *)
(* that waits has its waker stored and nothing to read on an open pipe,    *)
(* and a writer that waits has its waker stored and no room.  Callers'     *)
(* buffers are not empty: with an empty one poll_read and poll_write       *)
(* suspend whatever the pipe holds.                                        *)
THEOREM PipeNoLostWakeup ==
    ASSUME 0 \notin BufLen
    PROVE  PipeSpec => []NoLostWakeup
  <1> DEFINE Inv == PipeInv /\ NoLostWakeup /\ EofAfterData
  <1>1. PipeInit => Inv
    BY RingStart DEF PipeInit, PipeInv, TasksTypeOK, Task, NoLostWakeup, EofAfterData
  <1>2. Inv /\ [PipeNext]_vars => Inv'
    BY PipeRingStep, TasksTypeStep, WakeupStep DEF PipeInv
  <1>3. Inv => NoLostWakeup
    OBVIOUS
  <1> QED
    BY <1>1, <1>2, <1>3, PTL DEF PipeSpec

(* The reader is told of the end of the stream only after it has read      *)
(* every byte: nothing is written once the pipe is closed, and what was    *)
(* written before is read first.  Callers' buffers are not empty.          *)
THEOREM PipeEofAfterData ==
    ASSUME 0 \notin BufLen
    PROVE  PipeSpec => []EofAfterData
  <1> DEFINE Inv == PipeInv /\ NoLostWakeup /\ EofAfterData
  <1>1. PipeInit => Inv
    BY RingStart DEF PipeInit, PipeInv, TasksTypeOK, Task, NoLostWakeup, EofAfterData
  <1>2. Inv /\ [PipeNext]_vars => Inv'
    BY PipeRingStep, TasksTypeStep, WakeupStep DEF PipeInv
  <1>3. Inv => EofAfterData
    OBVIOUS
  <1> QED
    BY <1>1, <1>2, <1>3, PTL DEF PipeSpec
=============================================================================
