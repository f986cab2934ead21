# A TLA+ model of 0rtt

`0rtt` wraps `quiche` into groups of QUIC connections that threads, or futures,
share. This directory holds TLA+ modules for its core, TLC configurations that
check them on small instances, and TLAPS proofs for instances of any size. Paths
below are relative to `src/crates/`.

## 1. The system

| Part | State | Operations | Talks to |
|---|---|---|---|
| `poll/src/conn.rs` `QuicConn` | `locker`, `lock_count`, `read_lock_count`, `reties`, stream counters, `established`, the wrapped connection | `try_lock`, `unlock`, `close`, `stream_open`, `stream_close` | quiche; inserts into `Readiness` |
| `poll/src/group.rs` `Group` | mutex: `token_next`, `conns`, `readiness`, `unparkers`; read-write lock: `scids` | `register`, `deregister`, `connect`, `recv*`, `send`, `stream_*`, `close`, `poll` | `QuicConn`, `Acceptor`; wakes parked receivers |
| `poll/src/readiness.rs` `Readiness` | `events`, `delayed` | `insert`, `remove`, `poll` | clock |
| `poll/src/utils.rs` | none | `delay_send`, `release_time` | quiche timers |
| `api/src/lib.rs` | none | `is_local`, `is_bidi`, event types, traits | |
| `api/src/acceptor.rs` | validation secret | `handshake`, `mint_retry_token`, `validate_address` | quiche |
| `ringbuff/src/ringbuf.rs` | block and two cursors | `read`, `write`, in-place access | |
| `ringbuff/src/pipe.rs` | ring buffer, two wakers, `closed` | sync and async read and write, close, drop | the tasks at its ends |
| `mio/src/udp.rs` `QuicSocket` | bounded sending queue | `send_to`, `flush`, `recv_from` | UDP socket |
| `mio/src/group.rs` | poll state under a mutex | the poll loop, `on_udp_recv`, `on_quic_send` | poll group, sockets, parker |
| `futures/src/lib.rs` | wakers by token and event, inbound queues | `run`, `stop`, `accept`, `open`, `send`, `recv`, `shutdown` | a group, tasks |
| `fixedbuf/src/lib.rs` | array and length | accessors | |

What is hard in it:

* **A lock inside a lock.** `recv`, `send`, `stream_send` and `stream_recv` take a
  connection's try-lock under the group's mutex, leave the mutex, call quiche
  through a `&'static mut` reference, and enter the mutex again in the guard's
  drop. `deregister` and `register` do not look at the try-lock.
* **Refusals.** An operation that meets a locked connection is recorded in
  `reties` and its caller is told `Busy`. The holder's `unlock` replays it or
  raises an event for it.
* **Two tables, two locks.** `conns` is under the mutex, `scids` under its own
  lock; `deregister` updates them in two critical sections, and
  `recv_with_connection_id` reads them in two.
* **Wake-ups.** A receiver parks on a busy connection, with one slot per token;
  the pipe's tasks suspend with one waker slot each.
* **Order of events.** Streams become readable in any order; a replayed call may
  create data after a send found none.
* **One thread that both sends and sleeps.** mio's `poll` computes a timeout, then
  handles `Send` events, which raise events and set timers, then sleeps. Other
  threads change the group and wake it. mio reports edges, not levels.
* **Wakers across an unlock.** The futures' calls store a waker, release the mutex,
  ask the group, and look for the waker again, while the background thread
  dispatches events, closes connections and `stop` empties the table.
* **A server without memory.** All that the acceptor knows of a client that it sent
  a Retry to is in the token, which comes back late, twice or from elsewhere. A
  packet may also bring a token that this server never made; the timestamp is used
  before the digest is looked at.

What makes each part correct: a connection is with one thread at a time; every
refused call is answered; a connection with something to send has a `Send` event;
closed connections leave the group; the tables agree; nobody sleeps for good; a
stream is announced once and handed out once; the ring buffer is a queue; the pipe
neither loses a wake-up nor data at its end; the poll loop sleeps on nothing that
is ready; what the socket accepted leaves in order; a connection is opened only to
an address that has shown it receives what is sent there.

## 2. Modules

| Module | Models | Remarks |
|---|---|---|
| `Api` | `EventKind`, `is_local`, `is_bidi` | bit tests as arithmetic |
| `ReadySet` | `Readiness` without instants | an event is delayed or ready; a poll may find any delayed event due |
| `QuicConn` | `QuicConn`, `delay_send` | a connection is a record, a method a function of it |
| `Group` | `Group`, and the park and retry loop of mio's `on_udp_recv` | the state machine; extends `QuicConn` |
| `MCGroup`, `MCStreams` | instances of `Group` | model values, views, and for `MCStreams` two parts |
| `QuicConnProofs`, `GroupProofs` | lemmas about connections; types, exclusion, replay and parking of the group | section 4 |
| `GroupTableProofs`, `GroupSendProofs` | the two tables; what is announced and removed | extend `GroupProofs` |
| `PipeProofs`, `MioGroupProofs`, `FuturesProofs`, `AcceptorProofs` | theorems about the module of that name | `PipeProofs` is also about `RingBuf` |
| `TimedReadiness` | `Readiness`, `utils.rs` with instants | operators |
| `QuicSocket` | the sending side of mio's socket | operators that return the set of outcomes |
| `MioGroup`, `MCMioGroup` | the poll loop, its waker, sockets and callers | extends `TimedReadiness` and `QuicSocket` |
| `Futures`, `MCFutures` | the asynchronous layer | with the group's locks, refused calls and the events of `unlock` |
| `Acceptor`, `MCAcceptor` | `Acceptor`, `SimpleAddressValidator` | any packet may arrive; with a wall clock |
| `ByteQueue` | what a ring buffer promises | abstract specification |
| `RingBuf` | `RingBuf` | implements `ByteQueue` |
| `Pipe`, `MCPipe` | `pipe` | extends `RingBuf`; `MCPipe` also runs the ring buffer alone |

### Connections (`QuicConn`)

The record keeps the fields of the struct and three more that record history:
`inbound` and `accepted` (remote streams reported, and announced) and `replayed`
(the waiting data was created by a replay in the unlock of a send that had found
nothing). The wrapped connection is the field `q`: whether it is established,
closing, closed, has data to send at once, the stream credit left in each
direction, and the streams its two iterators will yield. `Choice` gives quiche's
answers to the questions one `unlock` asks.

`unlock` is the composition of the five parts in the order of the code: `release`,
`handle_retry_events`, `handle_stream_state_changed` (with `handle_accept`),
`handle_send`, `handle_state_changed`. The loop over `stream_readable_next` yields
streams in an order that quiche chooses. Whatever it is, the streams announced as
new are a set of unseen ids with the highest of each direction among them, and
`AcceptOrder` says just that.

The payload of a `LocKind` that a replay only passes on (error codes, reasons,
lengths) is left out, so two refused closes with different reasons are one entry.
The second would be answered `Done`.

### The group (`Group`)

A step is one critical section, or one quiche call made outside the mutex.

| Code | Actions |
|---|---|
| `connect`, `register` | `Connect`, `Register` (also part of `Accept`) |
| `deregister` | `Deregister`, then `RemoveScid` |
| `close`, `stream_open`, `stream_shutdown` | `Close`, `StreamOpen`, `StreamShutdown` (the whole call is under the mutex) |
| `poll` | `Poll` |
| `send`, `stream_send`, `stream_recv` | `CallGuarded`, `Perform`, `GuardDrop` |
| `recv`, `recv_with_connection_id` | `Recv`, `RecvLock`, `Perform`, `GuardDrop`; `LookupAgain` after a park |
| `recv_with_acceptor` | the same, `Accept` when there is no connection, `Reply` for the send that follows |
| `unlock` on a closed connection | `GuardDrop`, `Reap`, `RemoveScid` |

`th[p]` is where thread `p` is in its call together with its `LockContext`. Where
the code panics (`assert!`, `expect`, `unreachable!`) the thread stops in `panic`.
`send` takes the lock kind `Recv`, as the code does (`LockOf`).

Two variables are history. `handed` holds the tokens whose `Send` event was polled
and not yet acted on. `dangling` holds the threads whose guard outlived the place
it points to: the connection was removed, or `conns.insert` moved it
(`MayRehash`). `Sound` says that `dangling` is empty. What a thread then reads or
writes through its reference is undefined; in the model what it writes is lost,
its drop runs as the code says, and no new call starts, so a property that is not
conditional on `Sound` covers the end of the calls in progress only.

quiche itself is not modelled. What a call may do to `q` is in `RecvResults`,
`SendResults`, `StreamResults`, `quiche_close` and `CloseOutcome`, which allow at
least what the code can see: a packet may complete the handshake, grant streams,
make streams readable or writable, ask for an answer or end the connection; a send
is held back by the pacer, or runs `on_timeout` (which may close) and then yields
a packet, finds nothing or fails.

### The poll loop and its socket (`MioGroup`, `QuicSocket`, `TimedReadiness`)

`loop.pc` is where the thread that called `poll` is; the poll state's mutex lets
only one in.

| Code | Actions |
|---|---|
| `poll` | `Call`, `Poll`, `on_quic_send` for each `Send` event, then `Return` or `Sleep` |
| `mio_poll_once` | `Sleep`, `WakeUp`, `on_udp_recv`, `on_udp_send`, `Again` |
| `on_udp_recv` | one step of `on_udp_recv` for each packet, `Reply` for the send that ends `recv_with_acceptor` |
| `register`, `connect`, `deregister` | `Register`, `Deregister`, then `Wake` |
| `close`, `stream_open`, `stream_shutdown` | `CallLocked`, then `Wake` |
| `stream_send`, `stream_recv` | `CallGuarded`, `GuardDrop`, then `Wake` |
| the kernel, the clock | `Arrive`, `Unblock`, `Tick` |

The group underneath is seen through `unlock`: which events it raises and when the
next `Send` is due, as `handle_send` and `delay_send` compute it from quiche's timer
and pacer, whose instants are chosen freely. The event `App` stands for all events
that `poll` returns. The operations are short here, because `Group` has their
interleavings; one that holds a guard is kept, since it makes the loop park and its
`send` be refused. A close that is refused is remembered (`refused`) and may close the
connection in the drop of the guard. `Deregister` does not look at the lock, as the code
does not: the drop of a guard whose connection is gone then stops its thread at
`expect("Unlock.")`. What such a guard reads and writes before is undefined, and is
`Group`'s subject; `Fresh` keeps a token from being given out again meanwhile.

A socket is a queue, what the kernel has taken, and whether it blocks. `flush` and
`send_to` return every outcome: the kernel takes some packets and then all are gone,
or it blocks, or it fails.

Two histories: `own` has the events the loop raised itself after it asked the group,
`late` says that it sleeps for an instant that had passed. The two are the cases in
which the loop sleeps too long (see the finding), and the exceptions of
`NoLostWakeup` and `TimelySleep`.

### The asynchronous layer (`Futures`)

A task makes one call after another; `Calls` says which. A call is named by the
event it waits for, so `wakers` is a function from calls to tasks, with `entries`
for the tokens that have a map of their own in the code.

| Code | Actions |
|---|---|
| `is_established`, `accept` (connection, listener) | `Start`, `Resume` with `is_established`, `accept_stream`, `accept_conn` |
| `open`, `send`, `recv`, `poll_read`, `poll_write` | `Start`, `Resume` with `ask`; then `Ask`, `Answered` |
| `shutdown`, `poll_close`, drop of a stream | `Shutdown` |
| `stop`, drop of a listener | `Stop` |
| drop of a connection | `DropConn` |
| `run_once` | `RunPoll`, `Dispatch` |

`Dispatch` handles a whole batch under the mutex. The batch has no fixed order; the
orders that can be told apart are those of the queues, and which streams were queued
before `Closed` removed the queue.

The layer's type parameter is a group, and when a suspended task is told to go on is
decided there (`poll/src/conn.rs`). A connection of the model (`Conn`) has the lock, the
stream credit, the streams that can be read, the capacity of each stream and its
low-water mark, the refused operations with the length of a send's buffer (`owed`), and
the streams announced. `Unlocks` does what `unlock` does, in its order:

* `handle_retry_events`: an open goes on if there is credit and stays refused otherwise;
  a recv is told to go on; a send is told only if `stream_writable(id, len)` is true or
  fails. If it is false, the mark of the stream becomes `len` and stays there.
* `handle_stream_state_changed`: a stream is reported once, when it has reached its mark
  (`Writable`) or become readable (`Fresh`). Of the readable ones, `handle_accept`
  announces those above the highest seen and raises `StreamRecv` for the others.
* `handle_state_changed`: `Connected` or `Accept`, and `Closed`.

`Lock` and `Serve` stand for the threads that receive and send packets. A packet's
effect on the connection is chosen freely, also that capacity is taken away again. What
the layer does not wait for (`Send` events) and what nobody asks for (`Wanted`) is left
out. Calls whose result is not looked at (`shutdown`, the drop of a connection) are one
step with the group's part; made later, or refused and replayed, the group's part is
that of `Lock` and `Serve`.

### The acceptor (`Acceptor`)

`handshake` takes any packet whose connection id is not known (`Datagram`): a first
one; one with a token (`Return`); a late one of a connection that is gone (`Late`). The
text of a token is that of one given out, or one that this server did not write
(`StrayText`); its digest is that of any token given out, or one made with another
seed; it comes from any address and to any id. So each of the three tests of
`validate_address` decides in some packet.

A token is the sequence of bytes that `mint_retry_token` writes, in units: addresses
have one or two octets, which matters because `validate_address` finds the parts of a
token by the length of the address it came from. The digest is a record of seed and
text, so different texts have different digests. Where the timestamp is subtracted from
the clock, before the digest is compared, an age below 0 is a panic.

### Ring buffer and pipe

`RingBuf` has the block and the two cursors, with one operator for the two range
functions, which compute the same ranges from different cursors. The refinement
mapping reads the queue off the block: `Contents`. The variable `out` shows what
the last read returned, so that the refinement also speaks of returned bytes. The
cursors are natural numbers: 2^64 bytes are beyond the life of a buffer.
`WriteInPlace` is `writable_buf` and `writable_consume` by one caller, who holds
the exclusive reference in between. The caller consumes no more than the slice it was
given. That is its obligation: the assertion of `writable_consume` compares with
`writable()`, which also counts the second range.

`Pipe` adds wakers, the closed flag and the two tasks. A task whose poll returned
`Pending` is `waiting` until its waker is called. Each operation is one step
because it runs inside the spin lock.

## 3. What TLC checks

| Run | Instance | Properties |
|---|---|---|
| `group_shared` | 3 threads (1 receiver), 1 server id, 2 tokens; accept, recv, send, close, poll | `TypeOK`, `GuardExclusive`, `ClosedIsReaped`, `DataAnnouncedUnlessReplayed`, `ParkedIsOwed` |
| `group_tables` | 2 threads, a client id and a server id, 2 tokens, entries may move; connect, accept, deregister, an open without credit | `GuardExclusive`, `ScidsAgree` |
| `streams` | 2 threads, 1 client connection; either stream 0 with every stream operation, or remote streams 1, 5 and 3 that are read; deregister; fairness | `NoStrandedRetry`, `AcceptOnce`, `ParkedResumes` |
| `pipe` | capacity 3, buffers up to 4, 8 bytes over the life; the buffer alone with two byte values, or the pipe with one; fairness | `PipeTypeOK`, `CursorsInRange`, `NoLostWakeup`, `EofAfterData`, `IsFifo`, `WriterResumes`, `ReaderEnds` |
| `futures` | 1 of 2 connections, outbound or inbound, 1 remote stream, 2 tasks that open, accept, read and write (buffers of 2, capacity up to 2), `stop` | `TypeOK`, `NoLostWakeup`, `ClosedReleases`, `ShutdownReleases`, `EntryKept`, `HandedOutOnce` |
| `mio` | 1 application thread, a server; a socket with limit 2 and 3 packets, or every timer up to instant 2, or 2 connections that only have timers; or 2 application threads and 1 connection | `TypeOK`, `SendFifo`, `EdgesServed`, `NoLostWakeup`, `TimelySleep` |
| `acceptor` | 2 addresses, 3 connection ids, 5 instants of half a second, stray texts of the past and of the future and one cut short | `TypeOK`, `AcceptedWasRetried`, `FreshIsValid`, `OwnTokenNoUnderflow` |

* `GuardExclusive`: a locked connection has exactly one guard, of the recorded kind
  and with the current `lock_count`; an unlocked one has none. The assertions of
  `unlock` follow.
* `ClosedIsReaped`: a closed connection in the table has a remover on the way, a
  guard whose drop will find it closed, or a `Send` event that leads to such a
  guard. `close` discards the result of its `unlock`, so the last case is needed.
* `DataAnnouncedUnlessReplayed`: an unlocked connection with data has a `Send`
  event, pending or handed out. The exception, `replayed`: a close refused during a
  send that finds nothing is replayed by the unlock of that send, after `send_done`
  was recorded, so `handle_send` removes the `Send` event (`conn.rs:726`) and the
  frame waits until something else unlocks the connection.
* `NoStrandedRetry`: on an unlocked connection nothing refused is left, except a
  `stream_open` without credit.
* `ParkedIsOwed`, `ParkedResumes`: a parked receiver's unparker is registered and a
  guard is out; it is woken.
* `ScidsAgree`: each connection is found under its id, and an id without its
  connection is one whose `deregister` is half done. The property is stated while
  no thread has panicked: `register` overwrites the entry before its assertion
  (`group.rs:172`) fails.
* `AcceptOnce`: a step adds a `StreamAccept` event only for a stream that was not
  announced before.
* `IsFifo`: `RingBuf` implements `ByteQueue`.
* `NoLostWakeup`: a waiting task has its waker stored and nothing to do; so the two
  tasks never wait for each other. `EofAfterData`, `WriterResumes` and `ReaderEnds`
  say that the end comes after the data, that a waiting writer is woken, and that
  the reader of a closed pipe gets to its end.
* `Futures`: `NoLostWakeup`: the waker of a suspended task is stored and what it
  waits for has not come already; where credit, data or capacity has come that the
  group tells of (`Due`), the event is on the way, or the holder of the connection will
  raise it. For a send that is capacity from the mark on: a send whose buffer is longer
  than the stream's window ever gets, once refused, is not told, although the stream
  would take a part of it (`conn.rs:486`). `ClosedReleases` and `ShutdownReleases`: nobody
  stays suspended in `open`, `send` or `recv` once the connection is closed or the
  stream shut down. `EntryKept`: while a call asks the group its waker is in the
  entry that will be unwrapped, unless `Closed`, `stop` or its own event woke the task.
  (The unwrap does fail after the first two: the task stops in `panic`.) `HandedOutOnce`: inbound connections and
  streams are announced, queued or returned, each once.
* `MioGroup`: `SendFifo`: what `send_to` accepted is on the wire or in the queue, in
  order, and the queue is within its limit. `EdgesServed`: what waits in a queue is
  still to be reported by mio. `NoLostWakeup` and `TimelySleep`: a sleeping loop with
  nothing to wake it has neither ready events nor delayed ones that are due before
  its timeout, but for those it raised itself.
* `Acceptor`: `AcceptedWasRetried`: a connection was opened on a token given to the
  same address, for that connection id and original id, no longer ago than the
  interval. `FreshIsValid`: truncation to seconds costs less than a second of the
  interval. `OwnTokenNoUnderflow`: a token of this server does not make the
  subtraction in `validate_address` panic, wherever it comes from, unless the clock was
  set back. Other tokens may: with a stray text of the future the model reaches the
  panic although the clock only went forward.

**Bounds.** `Ops` divides the operations among the runs. Two tokens are enough for
a token to be reused while a guard, a lookup or a deregister of its former
connection is in progress, and for `token_next` to wrap onto one in use; lock
counts wrap at 2, or at 1 where no run depends on them, which is harsher than 2^64.
Three threads are a holder, a refused one and one that acts in between.
`MaxCredit` and `MaxStreams` of 1 let an open be refused for credit, granted and
refused again. Capacity 3 with 8 bytes wraps the cursors twice, and buffers of 4
exceed the block.
`Futures`: one connection at a time (`MaxConns`) is enough because the wakers of
different tokens never meet; two tasks are one that waits in a call and one that acts
meanwhile, besides the background thread. A buffer of 2 with a capacity of 0, 1 or 2
lets a send be short, take a part, or just fit. `mio`: a limit of 2 lets the queue be full, partly flushed
and empty; three packets overfill it. Delays of 1 and 2 with a clock up to 2 let
timers expire before, while and after the loop sleeps; the threshold is 0, in
`TimedReadiness` it only moves the clock. Two application threads let one deregister
what the other has locked. `acceptor`: three ids are that of a first packet, the one of
its Retry and the one of a second Retry; 5 instants cover a token's interval with a
second before and after it.
Deadlock is not checked for the group and the futures, whose threads may all have
panicked or may have nothing left to call, for the pipe, whose two ends may both be
gone, for the loop, which may have failed, nor for the acceptor, which may have
panicked; the clocks of the last two also stop at their bound.

**Parts.** `MCStreams`, `MCPipe` and `MCMioGroup` choose one of several parts of an
instance in the initial state (`part`, `alone`, `size`). In each part the steps are
those of the specification that stay within it, so the part with the loop's timers
does not multiply with the one that fills the socket's queue.

**Views and symmetry.** `SendView` and `StreamView` identify states that differ in events no
step and no checked property of the run looks at, and in whether the handshake is
done, which only leads to such events. Actions insert into, remove from and poll
`rd` without reading those events, so identified states have identified successors.
`View` of `MCFutures` leaves out `stops`, which only `StopEnds` reads. Connection ids
are symmetric in the acceptor's run: the model draws them and compares them only.

**Fairness.** `Group`: no thread keeps a guard for good. Under a guard the code
makes one quiche call, which does not block, and the guard is dropped at the end
of the function. Nothing is assumed about threads outside a guard, nor about
packets. `Pipe`: the reader polls again when it is woken, which is what an executor
does with a task; the writer need not go on. `Futures` (for `StopEnds`): the
background thread goes on, a woken task is polled, guards are dropped, and who
unlocked a closed connection removes it. `MioGroup` (for `ClosedReturned`): the
thread of `poll` and the clock go on, and a call that has begun ends; neither the
peer nor the application has to do anything.

**What TLC finds against the code's own comments** (`expect: violation`):

| Run | Statement | Shortest behaviour |
|---|---|---|
| `group_dangling` | "safety: state is protected by previous level locker." (`poll/src/conn.rs:227`) | a send closes the connection, a second thread locks it, the first removes it |
| `group_unaccepted` | "Readiness for new inbound stream." (`api/src/lib.rs:125`) | stream 5 becomes readable before stream 1 |
| `futures_stop` | "Stop this group, and cancel any running background thread." (`futures/src/lib.rs:97`) | `stop` is called, the last connection ends, the thread goes on polling: nothing sets `stopped` |
| `mio_closed` | "Waits for readiness events." (`mio/src/group.rs:313`) | a timer expires in the send that `poll` makes, the connection is closed, and `poll` sleeps on its `Closed` event |
| `acceptor_late` | "Safety: present in `Initial` packet." (`api/src/acceptor.rs:178`) | a late Handshake packet of a connection that is gone has no token to unwrap |

## 4. What is proved

Every invariant and every action property that a passing run checks is also a
theorem, for every value of the constants: any number of threads, tasks, tokens,
connections and streams, any capacity, limit and interval, any clock. The
assumptions are the `ASSUME`s of the modules, which state the kinds of the constants,
and those named below.

| Module | Theorem | States |
|---|---|---|
| `GroupProofs` | `Invariance`, `TypeCorrect`, `Exclusion` | `[]IInv`, `[]TypeOK`, `[]GuardExclusive` |
| | `Replayed` | `[](Sound => NoStrandedRetry)` |
| | `Owed` | `[]ParkedIsOwed`, with one receiver |
| `GroupTableProofs` | `Tables`, `ScidsAgreeHolds` | `[]TableInv`, `[]ScidsAgree` |
| `GroupSendProofs` | `Announcements`, `ClosedIsReapedHolds`, `DataAnnouncedHolds` | `[]SendInv`, `[]ClosedIsReaped`, `[]DataAnnouncedUnlessReplayed` |
| | `Counts`, `AcceptOnceHolds` | `[]CountInv`, `AcceptOnce` |
| `PipeProofs` | `RingCursorsInRange`, `RingIsFifo`, `PipeIsFifo` | `[]CursorsInRange`; the refinement `IsFifo`, for the buffer alone and in the pipe |
| | `PipeTypeCorrect`, `PipeNoLostWakeup`, `PipeEofAfterData` | `[]PipeTypeOK`; the last two for buffers that are not empty |
| `MioGroupProofs` | `ReadinessImplementsReadySet` | the operations of `TimedReadiness` are those of `ReadySet` |
| | `TypeCorrect`, `SendFifoHolds`, `EdgesServedHolds`, `NoLostWakeupHolds`, `TimelySleepHolds` | the invariants of the run `mio` |
| `FuturesProofs` | `TypeCorrect`, `NoLostWakeupHolds`, `ClosedReleasesHolds`, `ShutdownReleasesHolds`, `EntryKeptHolds`, `HandedOutOnceHolds` | the invariants of the run `futures` |
| `AcceptorProofs` | `FreshIsValidHolds` | `[]FreshIsValid` |
| | `TypeCorrect`, `AcceptedWasRetriedHolds`, `OwnTokenNoUnderflowHolds` | the other invariants of the run `acceptor`, under `PrefixFree` |

### Hypotheses

* `Sound`, in `GuardExclusive`, `ClosedIsReaped`, `DataAnnouncedUnlessReplayed` and
  `NoStrandedRetry`: no guard has been left dangling. The code does not ensure it
  (`NoDanglingGuard`); once a guard dangles, what its owner writes is lost.
  `AcceptOnce`, `ScidsAgree` and `ParkedIsOwed` do not need it.
* One receiver, in `Owed`: there is one unparker slot for a token, and mio's
  `on_udp_recv` runs under the lock of the poll state.
* Buffers that are not empty, in `PipeNoLostWakeup` and `PipeEofAfterData`: with an
  empty one the polls suspend whatever the pipe holds.
* `OneTaskPerCall`, in the properties of `Futures`: at most one task waits for each
  event, and one for inbound connections. The second half came out of the proof: all
  listeners of a group share one waker slot.
* Tokens and streams of `Futures` are finitely many, as 32-bit and 64-bit numbers are:
  the queues are filled from sets.
* `PrefixFree`, in `AcceptorProofs`: no address is the beginning of another. A token
  does not say where its address ends, so the proof that a token returned from the
  address it was sent to needs it. It holds among addresses of one family.

### The arguments

**Group.** `IInv` is the base. Why it is more than its properties:

* `NoReader`: between steps no connection is held by a reader. `ReadLock` is only
  taken inside `register`; without this fact `release` might keep the lock.
* `GuardInv`: a locked connection has a guard with the current `lock_count`
  whether or not some guard dangles (`Held`); guards match their locks and exclude
  each other when none does (`Matches`). The first part is needed for `Owed`.
* `RetryInv`: what an unlocked connection keeps is `Settled`. It is kept because
  `stream_open` records its own refusal before its `unlock`, and credit only changes
  under a lock.
* `ParkInv`: threads on the receiving path are receivers with a known id, and with
  one receiver a parked thread is owed its wake-up.

There is one lemma per action, on top of lemmas that carry the invariant through
the steps actions share: a thread that only moves on, a try-lock, a registration, a
removal, an unlock. `QuicConnProofs` has the facts about the functions of a
connection: their types, and what `unlock` leaves behind (`UnlockResult`).

`TableInv` adds that a connection carries the token it is filed under (`TokensAgree`)
and, until an assertion fails, that each connection has its id (`Filed`), each id its
connection or a deregister that is half done (`Led`), and that what such a deregister
is about to remove is its own (`Owned`): the id still leads to its token, no connection
has taken it over, and no second deregister is about to remove it. Without the last
part the agreement of the tables is not inductive: a `RemoveScid` might take away the
entry of a connection registered since. It cannot, because `register` asserts that the
id is free, and the entry stays until `RemoveScid`.

`SendInv` adds that a send which found nothing leaves its connection without data
until its guard is dropped (`SentNothing`): the guard keeps everyone else out, so
`handle_send` may remove the `Send` event. `UnlockSend` says what `unlock` does to
the events: those of other connections stay, and its own connection is announced
unless the send found nothing, in which case data can only come from the replay.

`CountInv`: every stream announced lies at or below the highest seen in its direction.
`UnlockAccept` shows that `unlock` keeps it and announces only streams above the mark,
for every order that `AcceptOrder` allows.

**Ring buffer and pipe.** `RingInv` has the types and the distance of the cursors. The
refinement is a lemma per operation about `Contents`: a write appends to the sequence
read off the block, a read takes its head, across the wrap. Nothing in it is an
induction over the bytes: the sequences are functions that are compared index by
index. The wake-up theorem uses `NoLostWakeup` itself with `RingInv`: a write wakes a
reader only if its waker is stored, which the property says.

**The poll loop.** `BaseInv` has the types, the queue's order, the edges that are still to come, and that what mio reported is handled before
the loop does anything else. `WakeInv` is about the time from asking the group for
events until waking, as long as nobody has called the waker or is about to: what is
ready was raised by the loop itself (`own`), what is delayed and not its own is due no
earlier than its deadline, and a `Send` event still to be handled is not in the set
again. That an operation's `Wake` comes after its change makes it inductive.

**The asynchronous layer.** `WaitInv` says of a task whose waker has not been called
that it is stored where its event will look for it, from before the group is asked
until the task is woken, and of a suspended task that nothing it waits for is queued
and that the group owes it an event (`Promise`): for what it tells of (`Due`), for an
`open` that it refused, and for the end of the connection. The order of storing and
asking is what makes it inductive: an event dispatched in between finds the waker.
Since a stream is reported once, the proof has to follow each report: `HeldInv` says
that the stream of a send or recv was handed out, hence announced, so that what becomes
readable later raises `StreamRecv` and not `StreamAccept`. `LockInv` says that only a
connection that is there is locked, that its refused operations are its own, and that
without the lock only opens without credit are left among them. `HandInv` says of each
announcement that it is in one of four places: the group's events, the batch, a queue,
or with the caller.

**The acceptor.** `Base` has the form of each token given out, with its address, ids
and time, and that none is from the future unless the clock was set back. `Safe` adds
the connections that were opened. `Genuine` is the step in between: a token that passes
`validate_address`, whoever put it together, has the text and the id of one that was
given out, because its digest is of that text and that id. The rest is what
`validate_address` cuts out of such a token (`AddressOfToken` and the lemmas around it).

### What is only model-checked

* The liveness properties `ParkedResumes`, `WriterResumes` and `ReaderEnds`: they rest
  on fairness, which the prover does not handle.
* The statements that TLC refutes (section 3).

## 5. What is not modelled

* The contents of packets and streams, byte counts, error codes and logging.
* quiche beyond what is said above.
* More than one socket in mio's group: the loop serves each in turn, and they share
  nothing but the loop. A failed `poll` ends the model's loop; nothing in the
  repository calls it again. Calls that are answered `NotFound`, and `Recv` events,
  which `poll` drops, change nothing and are left out of `MioGroup`.
* In the futures layer: two tasks that wait for the same event, of which the code
  forgets the first (the properties are stated for one, `OneTaskPerCall`), and an
  error of the group's `poll`. That a refused send is told of at all: one longer than
  the window is not, see `NoLostWakeup` in section 3. `is_established` and `accept` do not look whether the
  connection is closed; `ClosedReleases` is not stated for them.
* A poll of the pipe with an empty buffer, which suspends the task whatever the
  pipe holds (`BufLen` leaves 0 out), and a waker that polls the pipe inside `wake`,
  under the spin lock.
* 2^32 connections, with which `register` would loop.
* More than one receiver in the instances. With a thread that polls and sends while
  another receives, which mio's group does not have, a new connection may be locked
  before its first packet is delivered (`poll/src/group.rs:470`, `unreachable!`).
* `ArrayBuf` (an array and a length) and the facade crate (re-exports).

## 6. Plan

The parts that carry state are modelled, and what the runs check is proved but for
liveness. What could still be added:

1. The safety halves of the liveness properties: that each step of the actors they
   are fair to brings a parked receiver or a waiting reader closer to its wake-up, as
   action properties.
2. That the part of `Group` that `Futures` and `MioGroup` assume (which events an
   unlock raises) is what `Group` does.
3. Shorter proofs of `Futures`, whose lemmas about wakers and about queues could be
   separated.
