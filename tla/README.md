# AVBridge: specifications, model checking and proofs

AVBridge is a media server in C++. Its core loads plugins, starts an HTTP server
and, for every plugin that has callbacks, a TCP server (both from libhv, which is
vendored as headers). The one plugin of the repository, `plugin-rtmp`, takes RTMP
connections: it answers the handshake and reads the chunks a publisher sends. This
directory models that code in TLA+, checks small instances with TLC and proves the
main results for every instance with TLAPS.

Paths in this file are those of the repository; `RTMPClient.cpp`, `HandShake.cpp`,
`Msg.h` and so on are in `plugins/plugin-rtmp/src/`.

## 1. Inventory

| Part | State | Operations | Works with |
|---|---|---|---|
| `include/core/ByteBuffer.h` | a vector and a `uint32_t` cursor | put, get, getRange, resize, init, setPosition, relative and indexed | everything that reads or writes a message |
| `include/core/Slice.h`, `BigEndian.h`, `Crypto.h` | none | conversions; HMAC-SHA256 by OpenSSL | handshake, chunk headers |
| `HandShake.cpp` | none between calls | `Handshake::execute`, the simple (empty) and the complex handshake, two schemes | `ByteBuffer`, called by `RTMPClient` |
| `RTMPClient.cpp` | status, window count, headers and bodies by chunk stream | `Execute`, `HandleMsg`, `readChunk` | one object per connection, called from its event loop |
| `Msg.h`, `Msg.cpp` | the message owned by a `Chunk` | `GetRtmpMessage`, `Encode` of six messages | `readChunk` calls the first, nothing calls the others |
| `PluginRTMP.cpp` | an HTTP method, TCP callbacks | `onMessage` makes the `RTMPClient` of a connection and passes it what was read | libhv calls it; `React` is never called |
| `src/PluginManager.cpp` | map from names to library handles and plugin objects | load, unload, unload all, look up | `AVBridge`, the dynamic loader |
| `src/AVBridge.cpp`, `main.cpp` | router, HTTP server, TCP servers, plugin manager | `Run`, `ServeHttp`, `ServeTcp`, destructor | starts threads, adds routes while they serve, tears down |
| `include/hv` | listening socket, map of channels and its limit, event loops and their threads | start, stop, accept, read, close | calls the plugin's callbacks |
| logging macros; OpenSSL, spdlog, JSON headers | - | - | not modelled |

What is hard in this code:

* **Byte streams.** TCP keeps the order of bytes but not the borders of writes, and
  the client treats every read as one message. What it could not use it forgets.
* **Copies.** `readChunk` works on copies of the header and the body kept for a
  stream; what it changes in them is mostly not written back.
* **Checks on wrapping integers.** `ByteBuffer` checks `uint32_t` sums and
  differences, some of the wrong quantities, and one call checks nothing.
* **Exceptions.** Nothing between the event loop and `ByteBuffer` catches one: a
  throw ends the program for every connection.
* **Offsets computed from client bytes** in the handshake, with four constants per
  scheme that must agree with each other at both ends of their range.
* **Threads and lifetimes** in the core: routes added while the HTTP server
  runs, callbacks whose code lives in a library that is unloaded, a stop that must
  reach six threads in the right order, members destroyed after what they refer to.
* **Channels and clients**: two workers look at one limit; a client lives in the
  channel it has a reference to, and the channel is destroyed by its own callback.
* **Messages** whose decoding and encoding were written apart and do not agree.

`PROJECT.json` lists the hazards line by line with the properties that cover each.

## 2. Modules

```
ByteBuffer ---- ByteBufferCalls ---- ByteBufferCalls_proofs
    |
HandShake (extends RTMP) ---- HandShakeCall ---- HandShakeCall_proofs
    |
RTMPClient ---- RTMPClient_proofs        RTMPSession (abstract)
    |   `------ implements -----------------'
RTMPStream = publisher + TCP + RTMPClient (proved about in RTMPClient_proofs)

Msg (extends RTMP) ---- Msg_proofs

PluginManager ---- PluginManagerCalls ---- PluginManagerCalls_proofs
    |
    |    TcpServer ---- TcpServerCalls ---- TcpServerCalls_proofs
    |     /                  |--- implements ---- CallbackServer (abstract)
    |    /              PluginRTMP ---- PluginRTMP_proofs
    |   /                    `--- implements ---- ConnectionLife (abstract)
AVBridge = main + HTTP thread + PluginManager + TcpServer ---- AVBridge_proofs
                                  (uses TcpServerCalls_proofs for its server)
```

* **`ByteBuffer`**: a buffer is its size and its cursor. Every check of the class is
  an operator (`CheckIndex`, `CheckRemaining`, `GetBytesAtOK`, ...) over integers
  that wrap at the constant `U32`. The other modules are built on it, so that each
  of their `ByteBuffer` calls has the check the class really makes.
* **`ByteBufferCalls`**: one object and any sequence of its public calls with any
  arguments. `call` records which bytes the last call touched and if it returned.
* **`RTMP`**: the constants of `RTMP.h`, and two members of `RTMPClient` that are
  never assigned.
* **`HandShake`**: `execute` as an operator from what a client sends to what the
  function returns. A message is reduced to what the code tests: its length, its
  first byte, and of C1 whether the version is zero, the sums of the offset bytes and
  the schemes whose digest matches (`signed`, which stands for HMAC-SHA256). The key
  that S1 is signed with (`keyOfS1`) is the constant it is cut from and how many bytes
  are taken.
* **`HandShakeCall`**: one call with the S1 it makes and the reply it leaves. Of S1 it has
  the sums of the offset bytes of both schemes, the place of the digest and its key;
  the 32 bytes of the digest are not modelled, so nothing here says that a client
  that checks them will find them right.
* **`RTMPClient`**: `Execute` for one connection. One action per way a call can go:
  accept, refuse or fail on C0 and C1, receive or ignore C2, and for a chunk reject,
  keep, complete, throw or fault. An action stands for the whole call, with
  the closing of the window at its start. `taken` is the only variable the code does
  not have: the bytes really consumed since the window opened. `rtmpHeader` is
  reduced to `messageLength`, the one field that is read again. It is whatever
  the memory of an uninitialised `ChunkHeader` held: any member of `Garbage`. `fate`
  tells whether the program still runs: an uncaught exception ends it (`threw`), and
  so may an access outside a vector (`faulted`). A call that ends the program leaves
  no state anyone sees, so those actions change nothing else.
* **`RTMPSession`**: the abstract specification: a session answers once, then its set
  of streams only grows, no message is handed on, and it may end the program except
  while C2 is awaited.
* **`RTMPStream`**: composes `RTMPClient` with a publisher and a TCP connection. The
  publisher writes C0 and C1, waits for the answer, then writes C2 and its chunks.
  `OnRead` hands `Execute` the bytes from `read` to any place in `Cuts` that has
  arrived. Where a chunk begins in the stream its fields are the publisher's; a read
  that starts inside a chunk can hold any fields (`Chunks`). `WriteEnd` gives the
  place where each write ends; it is a constant so that the proofs can speak of it, and
  `StreamAssumption` fixes its values.
* **`Msg`**: one `Chunk` at a time: a message is encoded into its body, or a peer sends
  any body; `GetRtmpMessage` refuses, ignores, reads or throws; the chunk is destroyed
  with the message it owns. A `uint32_t` is its four bytes, because the code reads
  halves of them as events. `Stack` is the local variable that `MsgData` is made to own.
* **`PluginManager`**: the map of plugins, the dynamic loader (which counts how
  often each library is open and keeps its code as long as that is not zero) and the
  plugin objects that live. A load that fails undoes itself and is no step.
* **`PluginManagerCalls`**: one manager and any sequence of its calls, libraries
  that share names included, and its destructor. `given` holds the pointers that
  callers were given and have not given up by unloading the name.
* **`TcpServer`**: libhv's `TcpServer` with its acceptor and its workers. A loop's
  `loop_` is "running", "halted" once `hloop_stop` was called, and "null" when
  `EventLoop::stop` has cleared it, while its thread may still be in its last round:
  `hloop.h:136` says that a stopped loop quits in the next round. `posted` is the
  queue of custom events, which carry the connections from `onAccept` to
  `newConnEvent`. `stop(true)` goes through the loops in the order of `Reached`.
* **`TcpServerCalls`**: one server from construction to the return of `stop()`.
* **`CallbackServer`**: the abstract specification, what `AVBridge` relies on: threads
  are in callbacks only between `start()` and the return of `stop()`.
* **`PluginRTMP`**: the map of channels and the plugin's callbacks on top of
  `TcpServerCalls`. `newConnEvent` is split where it lets go of the lock: `CheckLimit`
  (or `Refuse`) and `NewConnection`; `passed` has the workers between the two. `client`
  is the `RTMPClient` in the channel's context, made by the first `Message` and
  destroyed with the channel when the callback of `Close` returns. The clients' own
  state is in `RTMPClient`. The program leaves the limit at 2^32 - 1
  (`TcpServer.h:23`); the model has it as a constant.
* **`ConnectionLife`**: the abstract specification, what the plugin relies on: per
  connection the callbacks come one at a time, connected, messages, closed, and a
  client lives from its first message to the end of the last callback.
* **`AVBridge`**: the program. `main` says where the main thread is, from `ServeHttp`
  through `Run`, the wait for a line, the destructor's body and the members, to the end;
  `http` is the thread of the HTTP server, whose code is not in the repository. `fate`
  says how the program ended: "refused" (`exit(500)`), "threw" (an exception left a
  callback), "raced" (a request read the router while a route was written), "faulted"
  (a connection attached to no loop), "unmapped" (code of the closed library was
  run) or "exited".
* **`*_proofs`**: the theorems of the module they are named after.

Operators named `<Definition>_<Word>` that stand right before a definition and are
marked "Mutant" are wrong variants of it, each with a mistake that is easily made in
that line of the code. Substituting one breaks the property that `PROJECT.json` pairs
it with. No specification uses them.

## 3. Runs

| Run | Instance | What it shows |
|---|---|---|
| `byte_buffer` | `U32 = 8` | Over all calls and all arguments, a call that returns stayed in the vector but for three cases, and only `get()` and `setPosition()` take the cursor past the end. |
| `handshake` | 1547 first messages, 4 sums for each scheme's offset bytes in S1 | All cuts of C1 and S1 are legal for all the sums; the reply is filled to its end, and the digest of S1 is where the client looks for it under its own scheme. |
| `handshake_scheme1_key` | the same | The comments at `HandShake.cpp:202` and `:240` are contradicted by line 249 (see below). |
| `handshake_s1_key` | the same | The key of S1 is none of those the comments at `HandShake.cpp:11` to `:32` mark (see below). |
| `client` | two streams, 6 reads, chunks at every limit | Bodies stay empty, nothing is dispatched, the window count is an upper bound and never wraps, streams are never reopened, and the client implements `RTMPSession`. |
| `plugin_manager` | 2 libraries, 2 names, 3 objects | The loader's counts and the live plugins agree through every sequence of calls, no entry is shared, no pointer dangles. |
| `tcp_server` | 2 workers, 3 connections | Only `stop()` drops a connection that was accepted, shares are even, `stop()` completes, accepted connections are announced, and the server implements `CallbackServer`. |
| `tcp_server_stop` | 2 workers, 1 connection | "stop thread-safe" is contradicted by `TcpServer.h:188` (see below). |
| `plugin_rtmp` | 2 workers, 3 connections, a limit of 1 | The limit is passed by at most one connection, closed channels make room again, and the server with the plugin implements `ConnectionLife`. |
| `bridge` | 2 routes, 2 workers, 2 connections | No thread is in code that has been unloaded, the teardown completes, a program that had a route never exits normally, requests race with main only before the TCP server is there, and a program at the end of its input still serves. |
| `msg` | 8 types, bodies of 0 to 12 bytes, messages of every kind | Only a uint32 (and a bandwidth by chance) reads back as it was encoded, and only user control messages can end the program. |
| `stream` | one message of 300 bytes in 3 chunks and one of 1500 | The handshake succeeds only if C0 and C1 come in one read; with one write per read it does, and the message then ends the program. |

**Bounds.** Three bits are enough for `ByteBuffer`: every comparison and wrap of a
cursor, an index and a length relative to each other occurs, and the theorems hold
for every width. The handshake takes sums at 0, at both sides of the moduli 728 and
632, and the largest, 1020. The client takes lengths 0, 64, 128, 129 and 600000, that
is on both sides of one chunk (128) and of the window (524288), and garbage on
both sides of the largest `int`; buffers end in the stream id, in the header, in
the body, and behind it. Its six reads are two for the handshake and four chunks: one
to open each stream, one to meet it again, and one more for the window. `U32` is
2^30 there because TLC's integers have 32 bits; only the order of `U32`, `HalfU32`
and the window matters, and `ClientAssumption` states it. The stream is cut inside C0
and C1, inside C2, inside a chunk header, inside a body, at and one beyond borders of
writes, and 1536 bytes behind one. Three objects suffice for two entries and one that
was overwritten; three connections on two workers give one worker two. The
program has one plugin, as the code does, with no, one or two routes. With a limit of
one, two workers are enough to pass it and a third connection to meet the room that was
made. The longest message of `Msg` has ten bytes; bodies go to two more, and the words in
them make an event of every kind whichever two bytes are read for it.

**Fairness.** `RTMPStream` assumes weak fairness of `Publish` (a publisher that may
write does) and of `OnRead` (the event loop, which waits for the socket in a
loop of its own thread, reads what has arrived). Both its liveness properties are
conditional on every read being exactly one write, which is not assumed of TCP:
without that condition they are false. `TcpServer` and `AVBridge` assume that their
threads run: weak fairness of main's steps and of a callback's end (a callback returns or throws),
and strong fairness of `NewConnEvent`, `LoopEnds` and `HttpEnds`, because other events
may disable these for a moment again and again, but each round of a loop handles what is
pending and then looks at the flag. Nothing is assumed of clients, nor of
`Newline` and `EndOfInput`, the two ways out of main's wait; after the second `main`
spins for ever. No other specification has fairness.

**Deadlock** is not checked where the system does stop: a handshake call returns, the
program ends, and a publisher that was not answered waits for ever.

### What the runs say about the code

The README of the repository says that RTMP is not yet supported (line 59). The
models say precisely how far the code is:

* `GetRtmpMessage` is not reached. A chunk that completes its message makes
  `readChunk` throw at `RTMPClient.cpp:88`, or write through the null data
  pointer of an empty vector.
* No message of more than one chunk is assembled, since the body in the map is never
  updated. The third chunk of a 300 byte message, shorter than 128 bytes, throws.
* Only type 0 headers are read, into a copy; types 1 to 3 on a stream use the
  uninitialised length stored when the stream began.
* A connection whose first read is not exactly C0 and C1 hangs.
* `readSeqNum` adds the length of the whole message for each chunk, so acknowledgement
  windows would close too early; they never close too late.

**Finding (comment against code).** `HandShake.cpp:202` and `:240` give scheme 1
as "time + version + key + digest", and `scheme1_Digest_Offset` and the offset bytes
768 .. 771 agree. `scheme1_Key_Offset` nevertheless adds `C1S1_DIGEST_SIZE`, so that
the challenge of scheme 1 is cut out of the digest block. The challenge is stored and
not used so far, so no client notices.

**Finding (comments against code).** `FMS_KEY` begins with the name "Genuine Adobe Flash
Media Server 001" (36 bytes, comment at `HandShake.cpp:16`) and `FP_KEY` with "Genuine Adobe
Flash Player 001" (30 bytes, `:27`); `:21` and `:32` give the whole lengths, 68 and 62. C1 is
checked with the player's name (`:165`) and S2 made with the whole of `FMS_KEY` (`:78`). S1 is
signed with the first 36 bytes of `FP_KEY` (`:72`): the length of the server's name, cut from
the player's constant, so the player's name and six of the bytes behind it. A client
that checks S1 with the name of the server will not accept it, wherever the digest lies.

**Finding (comment against code).** `TcpServer.h:103`, `:283` and `EventLoop.h:58` call
`stop()` thread-safe. `EventLoop::stop` sets `loop_` to NULL when it has told the loop to
stop, without waiting, and a worker in its last round may then take over a
connection that was posted before: `newConnEvent` attaches it to NULL. So a client that
connects as the program is ended can crash it.

On messages the `msg` run says further:

* A user control message is refused if its body is shorter than four bytes
  (`Msg.h:127`), because line 131 reads the two bytes of the event with `getInt()`; what
  line 128 logs then is "UserControlMessage.Body < 2".
* A user control message never reads back: `Encode` writes two bytes of event, and
  `GetRtmpMessage` takes bytes three and four for it. The six bytes of a stream id or a
  ping always end in a throw or in an event without a class.
* An event without a class leaves `MsgData` owning a local variable (`Msg.h:162`, `:165`).
* `UserControlMessage::Encode` writes to a vector without elements (`Msg.cpp:21`).
* None of this harms the program today, since `GetRtmpMessage` is not reached.

On connections: `max_connections` bounds the channels only up to the number of workers
less one; the order of callbacks and the life of clients are as the plugin needs them.

On the lifecycle the `bridge` run says further:

* The order of the destructor's body is right: both servers' threads are out of the
  plugin before it is deleted and its library closed.
* The router is a member and outlives the body, with functions whose code is in the
  library that was closed. Every run that added a route (the one plugin adds one) ends
  in code that is no longer there, or ended before for one of the other reasons.
* Requests can race with `router.Any` (`AVBridge.cpp:28`), but only while `Run` adds the
  routes of the plugin, before there is a TCP server.
* A TCP socket that cannot be made is logged, and the server is still started
  and announced; `startAccept` then tries a port that was never assigned.

## 4. Proofs

All theorems hold for all values of the constants under the named assumptions of the
modules: `U32 > 1` (`ByteBuffer`), `U32 > 4608` (`HandShakeCall`, so that the
handshake's own sums do not wrap), finitely many connections (`TcpServer`), and for the
client that a message length of three bytes fits a word and that a window with one
chunk fits an `int` (`ClientAssumption`).

* `ByteBufferCalls_proofs`: the three properties of the run. They follow from the
  case analysis of each check on whether its sum wraps.
* `HandShakeCall_proofs`: all properties of the passing run. The lemmas bound each
  offset from the modulus and show every cut of C1 and S1 legal. `HandshakeDigestFound`
  is about the layout of S1 and not about its key.
  `HandshakeScheme1Key` makes the finding on scheme 1 general: with any offset bytes its
  challenge is in the wrong block, so the message the run shows is no exception.
* `Msg_proofs`: both properties of the run, for messages with any field values and bodies
  of any length. `ReadsBackAsKnown` follows from comparing, type by type, the places in the
  body that `Encode` writes with those that `GetRtmpMessage` reads.
* `RTMPClient_proofs`: all properties of the `client` run. None of them is inductive alone.
  `NothingDispatched` needs that the cursor of a kept body is at 0 (`BodiesStayEmpty`),
  because then a completed message is empty and its fetch wraps to index `U32 - 1`,
  or is not empty and starts behind its own bytes. `WindowNeverWraps` needs that no
  kept body is longer than an `int`, also in `BodiesStayEmpty`. `WindowCoversReads`
  needs that a copy is at least as long as what is read into it. Their
  conjunction with `TypeOK` and `AnsweredOnce` (a client is answered once, when it leaves
  New) is `Inv`, preserved action by action.
  `StreamsNeverReopen` and the refinement of `RTMPSession` are step properties under
  `Inv`: a kept chunk is `Begin` or a stutter, a completed one is always `End`.
  All of it is shown for any call of `Execute` (`Call`, `CallKeeps`, `CallSimulation`),
  whatever chunk is in the buffer, so it holds for the client under `RTMPStream` too
  (`StreamKeepsInvariants`, `StreamImplementsSession`).
* `RTMPClient_proofs`, for the stream: `StreamTypeOK` needs that the ends of the writes
  increase (`WritesInOrder`). That is an induction over the writes, done as the
  impossibility of a least write that is out of order (`LeastNumber`).
  `AnsweredOnlyInOnePiece` holds for every publisher and every cut of its
  bytes: a read that is not the first cannot carry a digest, and the first one
  is answered only at 1537 bytes. It needs that the status is New before the first read.
  `HandshakeInTwoReads` is the safety half of `EstablishedIfWhole`: while each read is one
  write, the status follows the reads (`HandshakeFollowsReads`).
  `WholeReadsTakeEveryByte` (`TakesEveryByteIfWhole`) and `ShortChunkEndsProgram`, the
  safety half of `OrdinaryMessageEndsProgram`, rest on `WholeChunksServed`: there is a
  number `k` of chunks that were served, which says where the stream has been read to,
  what was taken of it, which streams are kept, and that the window has used at most
  `k` of the shares into which the chunks divide it. These two theorems are about a publisher
  that is `Ordinary`: up to its first short chunk none is longer than a full one,
  each stream carries the message it begins with and no other, and all messages together
  are well within a window. Without that both properties are false: a second message on a
  stream is dropped, and at the end of a window the count of what was taken starts again.
  The run `stream` assumes `Ordinary` of its publisher (`PublisherIsOrdinary`), which shows
  that the hypothesis can be met.
* `PluginManagerCalls_proofs`: all properties of the run. That the loader's count
  stays a natural number needs that it equals the number of live plugins of the
  library; that is kept by the destructor because entries and the plugins they own
  match one to one (a bijection). `GivenPluginsLive` needs that a given plugin still
  in the map is there under its own name.
* `TcpServerCalls_proofs`: `TypeOK`, `DroppedOnlyByStop`, `LoadIsEven` and the refinement
  of `CallbackServer`, for any number of threads (`ThreadNum > 0`). The strengthening is
  that a worker is told to stop only when the acceptor's thread has ended, hence nothing
  is posted to a loop that has gone (`NothingLost`). What was posted is in its worker's
  queue (`AllInQueue`), and no thread stops before `stop()` is called (`StopsIfTold`):
  these two make `DroppedOnlyByStop`. It does not say that `stop()` drops nothing: what
  a worker has in its queue when its loop ends is never taken over. `LoadIsEven`
  follows from `Shares`: there is a number `k` such that the workers up to `next` in this
  round were given `k + 1` connections and the others `k`.
* `PluginRTMP_proofs`: all properties of the run. `LimitOverrun` needs that the channels
  and the workers in `passed` together stay within the limit and `ThreadNum - 1`:
  a worker passes below the limit, and at most `ThreadNum - 1` others have. What holds of
  the server alone carries over (`DroppedOnlyByStop`, `LoadIsEven`, `CallbackServer`), though
  the plugin's server does one thing more: it refuses a connection. The refinement
  of `ConnectionLife` needs that a worker in a callback serves one connection, its own,
  and that no connection is queued twice.
* `AVBridge_proofs`: the four invariants of the run. The invariant says
  for each place of main what holds there: the library open exactly once for the one
  entry of the manager until it is deleted and not after, routes and servers only with
  a plugin, and no thread left in a server that main is past. `BridgeRunsTcpServer` shows
  that a step of the program is a step of `TcpServerCalls` or leaves the server alone:
  `AVBridge` calls `TcpServer` only as that module lets it be called. Hence in the program
  too only `stop()` drops an accepted connection, the loads of the workers are even, and
  `CallbackServer` is implemented; the
  lemmas of `TcpServerCalls_proofs` are used through an instance of that module, with the
  ways the program ends mapped to those its server knows.

Every invariant and every action property of the passing runs, and each refinement, is
proved. Only model-checked: the liveness properties, which the prover cannot treat
(`EstablishedIfWhole` and `OrdinaryMessageEndsProgram` of `RTMPStream`,
`StopCompletes` and `AcceptedIsAnnounced` of `TcpServerCalls`, `TeardownCompletes` and
`ServesAtEndOfInput` of `AVBridge`); the safety halves of the first two are theorems.

## 5. Plan

1. `ByteBuffer`, handshake, client, stream: done, as above.
2. `PluginManager`, the lifecycle of `AVBridge`, libhv's TCP server: done, as above.
3. `PluginRTMP` on `TcpServer`: done, as above.
4. `Msg`: done, as above.
5. Proofs of every safety property, and the server inside the program: done, as above.
6. Next: the program with the channels of `PluginRTMP` in its server, so that the lifetime
   of clients and that of the plugin's code are related in one theorem; the window of an
   ordinary publisher over more than one window.

## 6. Not modelled

* The bytes of messages other than those of `Msg`, and their endianness: no property
  tells them apart. `BigEndian.h` is arithmetic on three or four bytes. `Slice.h` cuts
  the keys of the handshake from constants; how many bytes it takes is in `HandShake`.
* HMAC, which is OpenSSL's: `signed` stands for its outcome on C1. The digests of S1 and
  S2 have no value in the model.
* The order of `delete`, the closing of the library and the erasing of the entry inside
  `UnloadPlugin` (`PluginManager.cpp:60`), which is one step.
* Logging and its macros.
* The vendored headers other than libhv's TCP server and event loops: JSON, OpenSSL,
  spdlog with fmt, and the rest of libhv are third-party code which this program calls
  in a few places. They are most of the lines of the repository; of its own code
  nearly every line that changes state is modelled.
* Of libhv, what AVBridge does not use (TLS, unpacking, timers, other load balancers,
  `broadcast`), and what `hloop.h` only declares. The model takes it that a loop whose
  status is running is inside `hloop_run`, so that a `stop()` is not overtaken
  (`EventLoopThread.h:51`), and that the HTTP server is a thread that reads the router
  and is joined by its stop.
* Memory: the `tmpBuf` of a client (`RTMPClient.h:20`) and the `TcpServer` of a plugin are
  never deleted, and a message is deleted through a base without a virtual destructor
  (`Msg.h:16`).
