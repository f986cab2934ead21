------------------------------ MODULE RingBuf ------------------------------
(***************************************************************************)
(* The ring buffer of the ringbuff crate (ringbuff/src/ringbuf.rs): a      *)
(* memory block and two cursors that only grow and are reduced modulo the  *)
(* block's length when the block is indexed.                               *)
(***************************************************************************)
EXTENDS Integers, Sequences

CONSTANTS
    Byte,       \* the values of a byte
    Capacity,   \* memory_block.len()
    MaxPos,     \* bound: the bytes written over the buffer's life
    MaxBuf      \* bound: the length of a caller's buffer

ASSUME CapacityAssumption == Capacity \in Nat \ {0}
ASSUME BoundAssumption == MaxPos \in Nat /\ MaxBuf \in Nat

VARIABLES
    memory_block,   \* the bytes, 0 where nothing was written
    read_pos,       \* cursor for reading
    write_pos,      \* cursor for writing
    out             \* history: the bytes the last read or readable_buf returned

ringVars == <<memory_block, read_pos, write_pos, out>>

(* Faulty: the block is one byte longer than the capacity. *)
RingInit_OneMore ==
    /\ memory_block = [i \in 0 .. Capacity |-> 0]
    /\ read_pos = 0
    /\ write_pos = 0
    /\ out = <<>>

(* with_capacity *)
RingInit ==
    /\ memory_block = [i \in 0 .. Capacity - 1 |-> 0]
    /\ read_pos = 0
    /\ write_pos = 0
    /\ out = <<>>

readable == write_pos - read_pos

writable == read_pos + Capacity - write_pos

Least(a, b) == IF a <= b THEN a ELSE b

(* Faulty: a range of the whole block, which ends where it starts, is taken to be empty. *)
ranges_FullIsEmpty(pos, size) ==
    LET start == pos % Capacity
        end == (pos + size) % Capacity
    IN  IF start <= end THEN [start |-> start, mid |-> end, wrap |-> 0]
                        ELSE [start |-> start, mid |-> Capacity, wrap |-> end]

(* writable_ranges and readable_ranges: [start, mid) and then [0, wrap). *)
ranges(pos, size) ==
    LET start == pos % Capacity
        end == (pos + size) % Capacity
    IN  IF size = 0 \/ start < end THEN [start |-> start, mid |-> end, wrap |-> 0]
                                   ELSE [start |-> start, mid |-> Capacity, wrap |-> end]

Slice(from, to) == [i \in 1 .. to - from |-> memory_block[from + i - 1]]

Bytes(r) == Slice(r.start, r.mid) \o Slice(0, r.wrap)

Stored(r, buf) ==
    [i \in DOMAIN memory_block |->
        IF i \in r.start .. r.mid - 1 THEN buf[i - r.start + 1]
        ELSE IF i \in 0 .. r.wrap - 1 THEN buf[r.mid - r.start + i + 1]
        ELSE memory_block[i]]

(* read into a buffer of len bytes *)
ReadSize(len) == Least(readable, len)

Read(len) ==
    /\ out' = Bytes(ranges(read_pos, ReadSize(len)))
    /\ read_pos' = read_pos + ReadSize(len)
    /\ UNCHANGED <<memory_block, write_pos>>

(* Faulty: the room left is not looked at. *)
WriteSize_Unbounded(buf) == Len(buf)

(* write from a buffer *)
WriteSize(buf) == Least(writable, Len(buf))

Write(buf) ==
    /\ write_pos + WriteSize(buf) <= MaxPos
    /\ memory_block' = Stored(ranges(write_pos, WriteSize(buf)), buf)
    /\ write_pos' = write_pos + WriteSize(buf)
    /\ UNCHANGED <<read_pos, out>>

(* The first of the two ranges that can be written. *)
writable_buf == [ranges(write_pos, writable) EXCEPT !.wrap = 0]

(* writable_buf, filled by the caller, and writable_consume of part of it: *)
(* no more than it was given, as the caller of an unsafe function must.    *)
WriteInPlace(buf, amt) ==
    /\ Len(buf) = writable_buf.mid - writable_buf.start
    /\ amt \in 0 .. Len(buf)
    /\ write_pos + amt <= MaxPos
    /\ memory_block' = Stored(writable_buf, buf)
    /\ write_pos' = write_pos + amt
    /\ UNCHANGED <<read_pos, out>>

(* readable_buf, poll_fill_buf *)
FillBuf ==
    /\ out' = Bytes([ranges(read_pos, readable) EXCEPT !.wrap = 0])
    /\ UNCHANGED <<memory_block, read_pos, write_pos>>

(* readable_consume, consume; its assertion is the caller's obligation *)
Consume(amt) ==
    /\ amt <= readable
    /\ read_pos' = read_pos + amt
    /\ UNCHANGED <<memory_block, write_pos, out>>

Buf == UNION {[1 .. n -> Byte] : n \in 0 .. MaxBuf}

RingNext ==
    \/ \E len \in 0 .. MaxBuf : Read(len) \/ Consume(len)
    \/ \E buf \in Buf : Write(buf) \/ \E amt \in 0 .. MaxBuf : WriteInPlace(buf, amt)
    \/ FillBuf

RingSpec == RingInit /\ [][RingNext]_ringVars

-----------------------------------------------------------------------------
RingTypeOK ==
    /\ memory_block \in [0 .. Capacity - 1 -> Byte \cup {0}]
    /\ read_pos \in 0 .. MaxPos /\ write_pos \in 0 .. MaxPos
    /\ out \in Seq(Byte \cup {0})

(* The subtractions in readable and writable do not wrap and the           *)
(* assertions of the range functions hold: the writer is never behind the  *)
(* reader, nor more than one block ahead of it.                            *)
CursorsInRange == 0 <= readable /\ 0 <= writable

(* What is stored, oldest byte first. *)
Contents == [i \in 1 .. readable |-> memory_block[(read_pos + i - 1) % Capacity]]

(* read, write and the in-place functions together are a bounded FIFO      *)
(* queue: no byte is lost, repeated, reordered or read before it is        *)
(* written, across every wrap of the cursors.                              *)
Fifo == INSTANCE ByteQueue WITH queue <- Contents

IsFifo == Fifo!Spec
=============================================================================
