# kiteq-client-cpp in TLA+

A verification project for the C++ client of the KiteQ message broker: TLA+
modules of its concurrent parts, TLC runs that check them on small instances,
and theorems that the TLA+ proof system checks for every instance.

## The system

The repository holds the remoting layer of the client. The facade above it
(`client/`: KiteClient, bindings, ZooKeeper) and some declarations of the layer
itself (`KitePacket.h` with its base class `KitePacketHeader`, `ResponseFuture.h`) are
not in it; where the models need them they are taken from their use in `src/` and
mapped as external.

| Component | State | Operations | Talks to |
|---|---|---|---|
| `asioKiteIOClient` | `status` (a Counter over NONE .. STOP), socket, `readPkg` | start, handshake, reconnect, close, isDead, send\*, handlers of resolve, connect, read and write | everything below |
| `ResponseFuture` | static `futureMap` under `maplock`; one promise per call | ResponseFutureUsed, getResponse with and without timeout, receiveResponse | called by the sending threads and by the worker |
| `Heartbeat` | `stopCount`, `nextHeartbeatTime` (Counters), a thread | hbThread, setNextHeartbeatTime, reset, stop, isDead | sends through the client, is reset by the worker |
| `asioSession` | `pkglen`, `read_buffer_` | async_write, and a chain of async_reads: length, then data | the socket; calls the client's handlers |
| `KitePacket`, `ByteBuf` | the bytes of a packet | toByteBuf, parseFrom, read\* and write\* | used by asioSession |
| message classes (`kite_remoting.pb`) | fields, has bits, unknown fields | accessors, Clear, MergeFrom, CopyFrom, Swap, ByteSize, serialize, parse | the body of a KitePacket |
| `Counter`, `AtomicInteger` | one integer under a mutex | get, set, inc, compareAndSet | used by all of the above |
| `ListenerManager` | static map from address to listener | register, unregister, getListener | dispatch on the worker |
| `ConcurrentMap`, `ConcurrentSet`, `KiteStats`, `ThreadPoolManager`, `HostPort`, `Configs` | containers, counters, values | | hardly used in the repository |

Three kinds of threads meet here: the application's threads, which call the
client and block in synchronous calls; one io_service worker per client, which
runs every handler; and one heartbeat thread per client, which makes synchronous
calls of its own. They share the status, the two counters of the heartbeat, the
future map and the socket.

What is hard: a reply racing the timeout of its call, ids that come back, replies
handled twice; retry loops that give an attempt up without cancelling it; a status
that three threads overwrite; a count reset by one thread while another
increments it; close() in three steps; a wall clock that is set back; the
framing after a frame that is refused; writes of several threads on one socket, from
buffers that die before they are written; listeners that run on, and block, the
only thread that reads; bodies that protobuf refuses and the client uses all the
same. `PROJECT.json` lists each at its line, with
the property that watches it, under `hazards`.

What makes each component correct:

- calls: a call ends once, with the reply to its own request or with none; the
  worker never satisfies a promise twice;
- lifecycle: RUNNING means an authenticated socket; a dead connection is noticed
  and replaced; reconnect() returns; close() ends the heartbeat thread;
- heartbeat: a connection is not called dead without silence; answered calls put
  the next heartbeat off, and no call is forgotten;
- session: what is handled are the frames that were sent, once and in order;
- writing: the bytes of a packet are written in order and once; every write ends;
- delivery: listeners get every message once and in order, one at a time, and go on
  whatever they do; the listener is the one registered;
- encoding: what one side writes the other reads; a message reads as what was set in
  it; nothing is made of a body that it did not contain.

## The modules

| Module | Models |
|---|---|
| `RequestReply` | abstract: what a synchronous call promises; ResponseFuture and Delivery implement it |
| `ResponseFuture` | the calls, the future map and the worker; `MCResponseFuture` gives TLC its instances |
| `ResponseFutureProofs` | theorems about it |
| `AsioKiteIOClient` | status, retry loops, handshake, close, handlers, heartbeat thread; `MCAsioKiteIOClient` gives TLC the symmetry of its threads |
| `AsioKiteIOClientProofs` | theorems about it |
| `MaxRegister` | abstract: a register that becomes the maximum in one step |
| `NextHeartbeatTime` | the compare-and-set loop and the heartbeat thread's look at the time |
| `NextHeartbeatTimeProofs` | theorems about it |
| `AsioSession` | the chain of reads, the stream buffer, the parse and the handler |
| `AsioSessionProofs` | theorems about it |
| `ByteBuf` | ints, shorts and longs as signed chars |
| `PacketHeader` | the layout of a frame: what is written before the body, and read of it |
| `ByteBufProofs` | theorems about these conversions and this layout |
| `KiteRemoting` | the tables in the functions of the ten generated message classes |
| `MessageLite` | what those functions do with the tables |
| `KitePacket` | messages, packets and bytes; `MCKitePacket` gives TLC its headers and values |
| `KitePacketProofs` | theorems about the message classes, and about KitePacket |
| `WriteSession` | async_write on one socket |
| `WriteSessionProofs` | lemmas about its steps, for the theorems about Delivery |
| `ListenerManager` | the map of listeners |
| `Delivery` | one connected client: the two modules above composed with the worker, the server, callers and callbacks; `MCDelivery` gives TLC its instances |
| `DeliveryProofs` | theorems about Delivery |

The component modules hold *faulty forms* of some of their definitions, ahead of these.
No specification uses them; each is a bug the code could have had, and putting it
in the place of the definition makes TLC find one of the properties violated.

### ResponseFuture

A call is named by its future object. `pc[c]` follows the lines of
sendMessageAndGet and its two siblings: *built* (packet and future exist), *used*
(registered), *waiting* (written), *expired* (timed out, entry still there), *done*.
A critical section under `maplock` is one step, and nothing else is: the gap
between `has_value()` (ResponseFuture.cpp:68) and `erase` (71), where the worker
may satisfy the promise, is there. `receiveResponse` removes the entry and sets the
promise in one step, as the code does under the lock. The worker may handle the
packet in `readPkg` again (`HandleAgain`), which is what asioSession makes of a frame
that is too long. Time is abstracted: a timed wait may end at any moment.

`Interruptible` calls are those of the heartbeat thread; an interruption leaves the
wait without erasing. `IdsRepeat` says that the 32-bit counter of ids has wrapped:
an id is then given out again once its last call has ended.

### AsioKiteIOClient

One step for each access to a Counter and for each handler. `resolves` and `ready`
count the asynchronous work that is outstanding, `sock` is the socket, `accepted`
whether the server has accepted a handshake on it. `pc` and `op` follow each
application thread through start, reconnect, handshake and close. handle_resolve
closes the socket, whatever it is in use for: boost 1.53 does so before every
connect. A synchronous call is here its request, reply and timeout, as `ResponseFuture`
shows it to be.

The class says nothing of who may call what, and the model asks for nothing: threads
call start, handshake, reconnect and close at any moment, also while others are inside
one of them, after a failure, and after close(). `Supervisors` are the threads that
do more than close; a run with one of them and another thread has close() fall into
everything the first one does. Nor does anything make an attempt end before the sleep
that follows it; only the recovery run switches that on (`Timely`), together with a
reliable environment (`Reliable`).

Four history variables are what properties speak of. `orderly`: when the worker handled
the last consent of the server, no resolve or connect and no other call were under way,
and no two calls have overlapped since. `gaveUp`: a reconnect() has failed, leaving the
status not RUNNING and no call under way, and the application has not shaken hands by
itself since. `interrupted`: interrupt_all found the heartbeat thread. `quiet`:
heartbeats given up since the last reply that the worker handled. The worker's reset of
the heartbeat and its handing over of the reply are one step, being two adjacent
statements of a handler whose result no other thread awaits in between.

### NextHeartbeatTime

Each setter is a call that has been answered. Between reading the Counter and its
compare-and-set any other thread may run. `Tick` sets the clock to any time.

### AsioSession

Bytes are not modelled one by one: the buffer is the interval from `consumed` to
`committed`, and `at[i]` is where frame i begins in it. `decodeLength` computes what
line 134 computes, with signed chars. A parse looks at the front of the buffer,
which is the frame just read unless older bytes were left there; bytes out of the
middle of a frame may parse as anything. The session, its buffer and `readPkg`
outlive connections: `ReadError` ends a chain and `Connect` begins another. A negative
length throws out of the worker thread and ends the process (*aborted*). `Lengths` are
positive: even an empty body has a header in front of it.

### ByteBuf, PacketHeader, KiteRemoting, MessageLite, KitePacket

Bytes are signed chars, ints and shorts have their widths, a long is two halves.
`readLong` shifts 32-bit values by 32 and more, which is undefined: it yields either
of the two values that an x86-64 build can produce.

The generated code repeats for each of ten classes the same dozen functions, and what
differs between them are constants: which bit belongs to which field, which masks
guard Clear, MergeFrom, ByteSize and IsInitialized, which tag a case accepts and which
tag sends it straight to the next. `KiteRemoting` has one definition for each function
of each class, holding these constants as they stand there, so that functions that
disagreed about a field would disagree in the model. `MessageLite` has one operator
for each function and takes the class as an argument. Messages are three deep (BytesMessage,
Header, Entry), and a function of a class calls that of the classes inside, so an operator
comes in three forms, each given what the one below makes of the messages inside:
`ClearFlat`, `ClearHeader` and `Clear`, and so on. None is recursive. A message is its has bits,
its members and its unknown fields; a string is its length, since only lengths have
an effect on the code. On the wire a field is one token, which may be cut. Descriptors,
reflection and arenas are left out.

In `KitePacket` the application calls any functions of a message and of a second one
of its class, the message is written into a frame, and the frame is parsed, with its
length or with a shorter one, as asioSession passes when its buffer holds older bytes.
`Bodies` are those a server may write that is not this program: fields in another
order, fields of a newer schema, other types, an end of a group, and every way to cut
a body, inside of nested messages too. What ParseFromArray says is in `accepted`;
parseFrom does not look at it. A behavior has one packet: it is written once (the buffer of
a packet is never cleared, so that writing it again would append; no caller does) and read
once, into a readPkg that is empty. What readPkg keeps from frame to frame is the subject
of `AsioSession`. A frame has at least the 19 bytes that its header takes: shorter and negative
lengths never reach parseFrom's reads here.

### WriteSession, ListenerManager, Delivery

A packet is a few units. `async_write_some` is asio's on a reactive socket: one send
at once if no other write waits, which takes what there is room for, and at most `Most`
(64 KB in boost: a larger packet is split by a socket that is not full, too); the rest is
carried on by the worker. A write ends without an error when all of it is written, and only
then, so `handle_write_request` asks for the units where the code asks for the error. The buffer belongs to the packet, and `alive` says whether it
still exists: send and sendAck destroy it on return, a synchronous call when it ends.
Units written after that are not `intact`. `split` and `waited` are history variables:
the packets that one send did not take.

Frames that are too long, whose handler runs again on the packet before, are left to
`AsioSession` and `ResponseFuture` (HandleAgain): here each message is read once.

`ListenerManager` has one step for each of its functions, which hold the lock
throughout. `turn` and `changes` are history variables.

`Delivery` composes them. `worker.pc` is what the worker does: idle, *found* (a listener
looked up and not yet called), *callback* (in a listener) or *waiting* (in a synchronous
call that a listener makes). While it is not idle nothing is read and no write is
carried on. A call is here its write, its reply and its timeout; `ResponseFuture` has
the details, and both implement `RequestReply` (`CallsKeepPromise`): here a call that a
broken connection, a full socket or a busy worker leaves without reply returns none, and
no call returns another's.

## The runs

| Run | Configuration | Properties |
|---|---|---|
| `calls` | three calls (timed, heartbeat, untimed), three ids | TypeOK, OwnReply, Reachable, TimedCallEnds, RefinesRequestReply |
| `wrapped_ids` | the same three ways to end a call, ids that come back | EntrySound, PromiseSetOnce, LeftoverGoes |
| `lifecycle_threads` | two threads that call anything, late attempts, 2 attempts, 2 missed heartbeats | TypeOK, RunningIsAccepted, NoFalseDeath, FailedReconnectIsFinal |
| `lifecycle_close` | a supervisor and a thread that closes, late attempts, 2 attempts, 1 missed heartbeat | DeadIsNoticed, CloseStopsHeartbeat, ReconnectEnds |
| `lifecycle_recovery` | one thread, reliable server, 4 attempts, 5 missed heartbeats, 3 faults | Recovers |
| `heartbeat_time` | three setters, a clock that jumps | TypeOK, NoCallForgotten, SetterEnds, RefinesMaxRegister |
| `session_read` | four frames, five kinds of lengths | TypeOK, InOrder, BacklogStays |
| `codec` | eight classes, two calls of any function, three headers, all bodies | TypeOK, UnsetIsDefault, SizeIsExact, CopyIsEqual, MergeIsConcatenation, RoundTrip, OnlyWholeAccepted, NothingInvented |
| `delivery` | three instances: writes and a listener; writes on a connection that breaks; messages and changes of listener | TypeOK, StreamSound, CountedIsWritten, DeliveredInOrder, StaleOncePerChange, ListenerCallUnanswered, WorkerReturns, WritesEnd, CallsKeepPromise |
| `frame_length`, `oversize_frame`, `consent` | expected violations | LengthIsRead, HandlesWhatItRead, ConsentWasGiven |

**Bounds.** Three calls make every pair of roles meet with a third call taking the
id of one of them; every property of `ResponseFuture` concerns at most two calls and
an entry. `MaxQueued` bounds the resolves outstanding, and the completed connects whose
handler has not run, each to one (to two in the recovery run): with the connect under way,
that is a late attempt and two that overtake it. The runs of two threads have no faults: late
attempts, silent servers and close() end connections there, breaks do in
`lifecycle_recovery`. A bound on attempts or missed heartbeats below the ten and five of the code leaves their
shape alone; the theorems hold for all bounds. `MaxFaults` bounds failed resolves,
failed connects and broken connections together, and `MaxSent` the frames; four
frames are one that is too long, one that is parsed from the wrong place because of
it, and one before and one after them. In `codec`, two calls on a message that
begins empty or full reach every pair of functions, in both orders, on every class and
on the messages inside; the values have encodings of different lengths, and the
headers bytes of 128 and more in every place. In `delivery` one send takes one unit and
the socket has room for two, so that a packet of two is split by the limit of a send, or by
the socket once it is full, and writes wait; each instance
(`MCBounds`) bounds what the other two exercise, and all are explored in one run,
`bound` being chosen at the beginning. The lifecycle, session, codec and delivery
runs have CHECK_DEADLOCK FALSE: a client that has been closed, whose worker has
aborted, or whose packets and messages are used up really stops. The other runs check
for deadlock.

**Fairness.** Threads keep running and timed waits end (ResponseFuture: weak fairness
of each call's own steps; nothing is asked of the server, the network or the
worker). In the lifecycle likewise: threads inside a call and the heartbeat thread go on,
and nothing is asked of the worker, the network or the server. That a heartbeat becomes due
is fair only in silence, since every answered call puts it off. Nobody need call anything:
close() and the rest happen or do not. `RecoverySpec` adds that the worker goes on,
connects end one way or the other, the server answers and the caller acts on isDead;
Recovers needs it. The caller's fairness is strong, since a caller that also shakes hands
now and then is not free to reconnect all the time. A setter's loop needs its own steps
only: a compare-and-set fails because another has succeeded, and each setter sets
once. In Delivery the worker runs what is ready, listeners return, calls end when
their time is up, and the server reads what it is sent; nobody need register, write or
reply.

## What the checks found

1. *Lengths are computed from signed chars* (asioSession.hpp:134). A frame of 128
   bytes, or any whose length has a byte of 128 or more below the top one, is given
   a negative length; `prepare` throws on the worker thread.
2. *Frames of 32768 bytes and more* (asioSession.hpp:155-159), if their length decodes to
   that and not to a negative number, reach the handler unparsed: it handles what
   readPkg held before, the packet of an earlier frame or, if there was none, the empty one
   that it begins as; and their bytes stay in the buffer in front of all that follows, over
   reconnects too (`BacklogStays`). A reply handled twice does no harm, which is
   `PromiseSetOnce`; a message is delivered twice.
3. *A reply that cannot be parsed is consent* (KitePacket.cpp:129). The result of
   ParseFromArray is ignored and the status of a new ConnAuthAck is true, so a reply to
   the handshake that is empty, cut short or of other types makes the client RUNNING,
   even if the server had written false.

`readLong` (ByteBuf.hpp:63) loses the upper half of an extension: `RoundTrip` asks only
for extensions of up to 32 bits. The client itself never sets nor reads one.

What holds but may surprise: a reconnect() that has failed is final
(`FailedReconnectIsFinal`): every later one returns false at once, and only a handshake() of
the application's own, on a socket that a late attempt has happened to connect, makes the
client RUNNING again. stopCount may be one too high (`NoFalseDeath`). The heartbeat thread
sees close() only while the client is RUNNING (`CloseStopsHeartbeat`): if another thread
reconnects after it, the status stays RECONNECTING, since the io_service is stopped, and the
heartbeat thread, which only the wait of a call can end, loops on; and if close() comes while
start() is still in its loop, there is no thread to interrupt, and the one that start() then
launches never is. `RunningIsAccepted` has its exceptions in `orderly`: an attempt that ends
after its sleep may take the socket away from a client that is RUNNING by then, or lead to a
second connect; and when two calls overlap, the second setCount(RUNNING) of reconnect() may
overwrite the RECONNECTING of the other. A client that has lost its socket like that is seen to be
dead (`DeadIsNoticed`). A packet that is
split may have the units of others among its own, and units of a buffer that is gone
(`StreamSound` says that no other packet may); a synchronous call in a listener always
times out, though the server answers it (`ListenerCallUnanswered`), and holds up
everything else until then (`WorkerReturns`, `WritesEnd`); a second registration for an
address has no effect (`StaleOncePerChange`).

## The proofs

Every theorem is checked by tlapm with Z3, Zenon and LS4, from the named
assumptions on the constants.

**ResponseFuture.** The inductive invariant `IInv` is TypeOK and EntrySound, which
holds whether or not ids repeat; that a call has an id once it is built, that only
written requests have been answered, and that promises and results hold replies to
answered requests; and what holds while ids do not repeat: distinct calls have
distinct ids (`UniqueIds`), a satisfied promise holds the call's own reply
(OwnReply), and a waiting call without a reply is the one its id leads to
(Reachable). EntrySound is needed
for PromiseSetOnce: the worker satisfies only what the map leads to. From
`Invariance` follow `TypeCorrect`, `EntriesAreSound`, `RepliesAreOwn`,
`WaitersAreReachable` and `PromisesSetOnce`. `CallsImplementRequestReply` (assuming
ids do not repeat) shows that every step is a step of RequestReply or a stutter; it
needs RepliesAreOwn, so that a call that returns returns its own answer.

**AsioKiteIOClient.** TypeOK needs the count of the attempts (`Counting`: before an
attempt there is one left). `DeathHasAMargin`: NoFalseDeath becomes inductive with
`Margin`, which adds what the heartbeat thread carries between its timeout, counted in
`quiet`, and its inc(). `RunningMeansAccepted` and `ReconnectFailsOnce` assume nothing of the
threads nor of when attempts end. The invariant of the first, `OrderInv`, says that as long as
things are orderly calls are one at a time; that a call which has the server's consent in
hand, and a client that is RUNNING, has nothing of an attempt left to happen and a socket
that is accepted unless it has been closed; and that no thread is in a retry loop while the
client is RUNNING. That of the second, `FinalInv`, says that once a client has given up
nobody is inside a call, and the status is neither NONE nor RUNNING, so that neither start()
nor reconnect() can begin.

**NextHeartbeatTime.** The invariant adds to NoCallForgotten that a setter about to
set brings a larger time than the one it has read. So a compare-and-set that succeeds
raises the register, and `LoopIsAtomicMax` maps it, and a look that finds the register
large enough, to `Apply`.

**Delivery.** The inductive invariant `IInv` is TypeOK, DeliveredInOrder, StreamSound and
five parts. `ByWorkerInv`:
a call made by a listener is waiting only while the worker waits for it, so the worker,
which would have to be idle to read the reply, never answers it. `ListenerInv`: the map
holds the first registration, and a message looked up for a listener that is no longer
the first has a change to itself. `InboxInv`: what is on its way has been sent, which
TypeOK needs for the messages delivered. The two others are about writing, and their
lemmas are in `WriteSessionProofs`, which speaks of the steps of WriteSession only:
`SplitInv`, that a packet partly written has been split and that what the worker is to
take up is written or was split, makes StreamSound inductive, since only then a packet that
is neither split nor waited has all of its units put into the stream by one send;
`BookInv`, that the queue and the posts list each write under way once, that the packets
begun are finitely many and that `writeCounter` is the cardinality of those that ended
whole, makes CountedIsWritten a matter of comparing two finite sets. DeliveredInOrder is
inductive by itself: messages read, in the worker's hands and on their way are one
increasing sequence, and a step only moves the line between its parts
(`ComingAppend`, `ComingTail`, `OrderStep`). From `Invariance` follow `TypeCorrect`,
`ListenersGetNoReply`, `OneStaleCallPerChange`, `MessagesInOrder`, `WritesAreSound` and
`CountIsOfWholePackets`. `CallsImplementRequestReply` needs one part more, `ReplyInv`:
only requests that the server has answered have replies on the way, so a call that
returns a reply returns its own, after the request was answered. They assume that packets are numbered and not
empty and that the socket has room for something.

**AsioSession.** `IInv` is TypeOK, InOrder and four parts. `NumberInv`: the frames read, the
one being read and those on the wire are numbered in this order. `LengthInv`: data is
asked for with the length that was sent. It rests on `DecodedOrNegative`: if a byte of the
length is 128 or more, the lowest such byte makes the whole negative, whatever is below
it, and otherwise nothing changes. So the signed chars of line 134 can abort the
process but not put the stream out of step (`LengthRightOrAborted`). `BufferInv`: as long
as no frame was too long the buffer is empty between reads, so that the only frame at
its front is the one just read; with it InOrder is inductive (`FramesInOrder`), and if no
frame is too long at all, the property that the run `oversize_frame` refutes holds
(`ShortFramesAreHandled`). `BacklogInv`: there is a function that sums up the long frames
read and ends with what is left in the buffer. BacklogStays says this with a recursive
function. Induction over data is out of reach, so the proof goes by the least
argument at which two such functions differ: there is none (`SumIsUnique`), which makes
the one of the invariant that of the property (`BacklogIsLongFrames`).

**ByteBuf and PacketHeader.** `ShortsReadBack` and `IntsReadBack`: reading undoes writing
for every 16-bit and every 32-bit value, by dividing the value into bytes one shift at a
time. `HeaderReadsBack` is the part of RoundTrip that is about the header, for every
packet: the length in front of a frame is that of the rest, and opaque, command, version
and size of the body are read as they were written; the extension too if it has no more
than 32 bits, whichever of its two results the undefined shift has (`OrWithZero`).
`LaidOut` says which byte is where. The size is any for which the length is an int.

**KiteRemoting, MessageLite and KitePacket.** The theorems of `KitePacketProofs` hold for
every value that a field may be set to (`Values`, integers), every header and any number
of calls. They begin with the tables: `ClassesAgree` shows, class by class, that the
functions of a class agree on its bits, masks, defaults and sizes, and `TagsOfClassesAgree`
that its parser and its writer agree on tags, and that the labels between the cases of
the parser read the tags that lead to them. Nothing after that looks at a table.

- `Good` is the set of messages in which a field that is not set holds its default and a
  message inside that is not set is *blank*: no bit, nothing repeated. Every function of
  a class stays in it (`CodecInv`), the parser too, on any bytes. Hence `MessagesStayGood`
  and `UnsetReadsAsDefault`. It is what makes Clear correct, which resets only what its
  masks say was set.
- `CopiesAreEqual`: Clear leaves a blank message, and merging into a blank message makes
  one that reads as the one merged.
- `SizesAreExact`: both paths of ByteSize are a sum over the fields, and so is the size of
  what Serialize writes, since that is a concatenation of one piece for each field.
- `CodecTypes` needs, besides, that a head has the 23 bytes that the types of what is
  read rest on.
- `MergesConcatenate`: a body *tells* a message if each of its tokens is the next one of a
  field or one that the class does not know; what Serialize writes does. The invariant of
  the parser's loop (`Reads`) compares the message with the one the loop began with: each
  field has as many more of the told tokens as were reached. Its end reads as the merge of
  the told message into any that reads as the one begun with (`AddedIsMerged`). This goes
  from the classes without messages inside to Header and from it to the others. Between
  two messages in a row the loop may be at a label; the label is the tag of the next token,
  so that a loop begun afresh there takes the same turns (`GoesOn`).
- `PacketsReadBack`: the fields of a body tell the same message in reverse order, with
  unknown fields around them, or ended by a group. Read into a new message, which is
  blank, they are read as that message. `WireInv` says that the bytes under way are the
  frame of the packet, whose header is `HeaderReadsBack`. The theorem assumes of a behavior
  that the lengths of its frames are ints (`FrameFits`), which for strings of any length
  they need not be.

The library states induction and recursive definition with operators as parameters,
which no installed prover can instantiate. `Induction` and `Recursion`, at the head of
the module, state them with sets and functions instead, and prove them from the
well-foundedness of the numbers; the folds of the model are reached through these.

**Only model-checked:** the liveness properties (TimedCallEnds, LeftoverGoes,
DeadIsNoticed, CloseStopsHeartbeat, ReconnectEnds, Recovers, SetterEnds, WorkerReturns,
WritesEnd), which are beyond this prover under fairness; and two properties of the parser,
OnlyWholeAccepted and NothingInvented, about bodies cut short or retyped, of which `Reads`
says nothing.

## Not modelled

- `client/` and ZooKeeper are not in the repository; the examples are programs on top of
  them.
- cJSON is vendored and no source file includes it. ThreadPoolManager, AtomicInteger,
  delimPacket, the index-based readers of ByteBuf and the synchronous write() and read()
  of asioSession have no caller.
- ConcurrentMap and ConcurrentSet are single critical sections whose callers are
  missing. HostPort and Configs hold values. KiteStats::readCounter is never read.
- Descriptors, reflection and registration in the generated code, and the protobuf
  library itself beyond what the generated functions need of it.
- A second chain of reads on the one socket, which overlapping attempts may start: the
  two share the length, the buffer and the packet, and nothing is left to promise.

## Plan

Every safety property has a theorem but the two named above. What is worth adding are
their proofs, with a loop invariant that allows for a last token that is cut, and
abstract specifications of the order of messages that Delivery and AsioSession implement
(a queue; a stream of frames up to the first that is too long).
