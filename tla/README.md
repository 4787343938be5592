# A verification project for mongols

mongols (`src/`) is a C++ library of epoll servers: a TCP server, a TCP server
with a worker pool, and an HTTP and a WebSocket server on top of them, together
with the libraries it carries along: an LRU cache, a multipart parser, zstd,
cJSON, http_parser. This directory holds TLA+ modules translated from the
source, the TLC runs that check them, and the theorems about them that TLAPS
proves.

`PROJECT.json` lists the runs, the map from definitions to source lines, the
mutants that show that each property can fail, the hazards, and the theorems.

## 1. Inventory

| component | state | operations | talks to |
|---|---|---|---|
| `thread_pool`, `safe_queue` | queue `q`, flag `done`, the threads | `submit`/`push`, `work`/`wait_and_pop`, `try_pop`, constructor, destructor, join | its users' tasks |
| `epoll` | `epfd`, `evs`, `real_ev_size` | `add`, `loop` (`mod` and `del` are never called) | the kernel |
| `tcp_server` | `listenfd`, static `done`, `clients : fd -> (gid, uid)` | `run`, `main_loop`, `process`, `work`, `add_client`, `del_client`, `send_to_all_client` | `epoll`, the user's handler |
| `tcp_threading_server` | `main_mtx`, `work_pool` | overrides all of the virtual ones above; destructor | `tcp_server`, `thread_pool` |
| `ws_server` | the server it owns | handshake, `ws_parse`, `work`, broadcasts with filters | `tcp_threading_server`, `websocket_parser` |
| `websocket_parser` | `state`, `require`, `length`, `offset`, `flags`, mask | `execute`, `decode`, `calc_frame_size`, `build_frame` | callbacks in `ws_server` |
| `http_server` | settings, redis connection | `parse_reqeust`, `upload`, `work`, `create_response` | `tcp_server` or `tcp_threading_server`, `redis`, `http_parser`, MPFDParser |
| `http_parser` | `state`, `flags`, `nread`, `content_length` | `execute`, `parse_url` | callbacks in `http_server` |
| MPFDParser | status, buffered data, current field | `AcceptSomeData` and the steps below it | `http_server::upload`, files in `temp/` |
| `redis` | one hiredis context | one command per method | the redis server |
| LRU cache | list `keys_`, map `cache_` | `insert`, `tryGet`, `get`, `remove`, `clear`, `prune` | nobody (library class) |
| cJSON | linked items, hooks | make, add, detach, replace, delete, duplicate; parse, print, minify, compare | its callers' memory |
| zstd | the pool's ring; `COVER_best_t`; `ZSTDMT_CCtx` | `POOL_*`; dictionary training; multithreaded compression; the codecs | its callers |
| `util` | none | `split`, `parse_param`, `parse_http_time`, `random_string`, files, hashes | everybody |
| others | | module loader (dlopen), regular expressions, cpr, moodycamel's queue, libwshandshake | |

### What is hard

* **Descriptor numbers are reused.** Events, tasks and registry entries name a
  connection by its descriptor. `close` frees the number and the next `accept`
  takes it, while events in the current batch, tasks in the pool, workers between
  `recv` and `send`, and entries in `clients` still mean the old connection.
* **Edge-triggered events.** One event, one `recv` of at most `buffer_size`
  bytes, one accept loop: whatever these leave behind has no event of its own.
* **Two threads on one descriptor.** There is no `EPOLLONESHOT`.
* **Shutdown of the pools.** Exit tasks travel through the same queue that the
  destructor drains; zstd's pool is resized and freed under its callers.
* **Signals and broken connections.** `done` is set by a signal handler and
  `epoll_wait` has no timeout; a second `send` to a reset connection raises
  SIGPIPE.
* **Sessions in redis** are read and written by several commands, with expiry.
* **One recv is taken for one message,** by `http_server` and by `ws_server`,
  whatever the network made of it.
* **Parsers fed in pieces** (HTTP, websocket frames, multipart bodies).
* **Monitors in zstd:** a result kept under a mutex by many tries, jobs that read
  a buffer which is being written round, a checksum taken in turns.
* **Memory that runs out** half way through a call (cJSON, zstd).

### What makes each component correct

* pools: tasks start in submission order and once; no wake-up is lost; the
  destructor ends; nothing that was promised is dropped.
* event loop: every event is about the connection it was reported for; no input,
  hang-up or waiting connection is forgotten; a stop request is honoured.
* registry: an identity belongs to the connection that earned it.
* threaded server: no worker keeps `main_mtx`; a connection is closed for a cause.
* HTTP: the handler sees what was sent; the connection is kept or closed as the
  client wished; a request gets an answer, and one.
* websocket: replies answer the messages they follow; the frames found do not
  depend on how the bytes were cut.
* sessions: what a request wrote is what the next one reads, until expiry.
* uploads: files have the contents that were sent, and none is left over.
* LRU cache: list and map agree, the least recently used entry goes first.
* cJSON: an item is in one place and freed once; text and value mean the same.
* zstd: the best try wins; the frame is one frame of what was fed.

## 2. Modules

| module | models | composes |
|---|---|---|
| `TaskQueue` | what a pool promises (abstract) | |
| `ThreadPool` | `thread_pool`, `safe_queue`, both destructors | implements `TaskQueue` |
| `EpollKernel` | sockets, descriptor table, epoll: external | |
| `EventLoop` | `run`, `epoll::loop`, `main_loop` | extends `EpollKernel` |
| `TcpServer` | `tcp_server`: everything in one thread | extends `EventLoop` |
| `TcpThreadingServer` | `tcp_threading_server`: loop, workers, `main_mtx` | extends `EventLoop` |
| `WsServer` | `ws_server` on the workers of the threaded server | |
| `WsParser`, `WsStream` | `websocket_parser.c`, and a stream cut into chunks | |
| `HttpParser`, `HttpStream` | `http_parser_execute` and `parse_url`; any input, cut anywhere | |
| `HttpConnection` | `http_server` on one connection | extends `HttpParser` |
| `HttpSession` | sessions and cache of `http_server::work`, redis | |
| `MpfdParser`, `HttpUpload` | the multipart parser; `upload` and the files in `temp/` | |
| `RecencyCache` | what `lru11::Cache` promises (abstract) | |
| `LruCache` | list, nodes and map of `lru11::Cache` | implements `RecencyCache` |
| `JsonTree` | what cJSON promises to builders of values (abstract) | |
| `CJson` | cJSON's items in memory | implements `JsonTree` |
| `CJsonText` | parsing, printing, minifying, comparing | |
| `ZstdPool` | zstd's `pool.c` | implements `TaskQueue` |
| `CoverTrain` | the multithreaded dictionary trainer | extends `ZstdPool` |
| `ZstdMt` | `zstdmt_compress.c` | |
| `...Proofs` | theorems, section 4; `HttpProofs` has those of `HttpSession`, `HttpStream`, `HttpUpload` and `LruCache` | |

`MC...` modules add TLC's symmetry sets and the inputs of an instance.

### ThreadPool

Every section under `safe_queue::mtx` is one action. A worker is at `check`
(`while (!done)`), `pop` (head of `wait_and_pop`, predicate not yet evaluated),
`wait` (asleep on the condition variable), `run`/`ret` (inside a task, before and
after the broadcast it may submit) or `exited`. The owner constructs, serves,
submits exit tasks (`i` is `exitIndex`; EINTR repeats a round), sets `done`,
drains with `try_pop`, joins. `SpawnFails` is the `catch (...)` of the
constructor: `done` is set and the owner goes on with what it has.

### EpollKernel, EventLoop

The kernel is external and is modelled from the calls `src/` makes. A descriptor
refers to a connection or to nothing; `accept` returns the lowest free number; an
event puts a descriptor on the ready list; `epoll_wait` takes it off and reports
what is true at that moment; `close` removes it. `recv` returns data, then end of
file, ECONNRESET or EAGAIN; `send` to a reset connection fails once and kills the
process the next time. `accept` may also fail after taking a connection, since
`clilen` is read uninitialised. Bytes are counted in units, `BufUnits` of which
fit the buffer. `EventLoop` is `run`, `epoll::loop` and `main_loop` with `process`
and `add_client` left to the two servers, as the virtual functions do.

### TcpServer

`Receive` and `Answer` are the two halves of `work`; peers act in between. The
branches of `work` for EAGAIN and for end of file are not there because a single
reader never takes them, and `EventsAreCurrent` checks (and `EventsStayCurrent`
proves) that. A handler may overwrite the identity it is handed and may ask for
the connection to be closed.

### TcpThreadingServer

A task is a descriptor number. A worker takes it, receives (outside `main_mtx`),
locks, answers, and on a close goes through `close(fd)` and `del_client`, which
takes the mutex again. What happens under `main_mtx` is one action: the registry
is only touched under it, and the order of a broadcast's sends among themselves
is not observable in any property. `add_client` is a step of its own after
`accept`, because a worker may hold the mutex or erase an entry in between.

### WsServer

What a client sends is a script of messages: requests for a handshake and frames.
Each is cut into the parts `ws_parse` tells apart, three of a frame and two of a
request; a position is a pair [whole messages, parts of the next], and a `recv`
takes what lies between two positions, since each call starts a new parser. What
the code leaves uninitialised or undefined is a choice: `opcode` and `is_final`
before the first header, the body of an empty frame, bytes read as a header that
are none. `ws_handshake` takes the last byte off every line of a request; the
request `GETBARE` has a line of no bytes, of which that is undefined, and the
process may die (`ShakeKills`) or go on with a key or without. A text is a name;
`Meaning` says what `json11::Json::parse` (ws_server.cpp:58) makes of it.

`main_mtx` is held by `work` (`Shake`, `Work`), `add_client` and `del_client`, each
time anew, so a connection comes in two steps (`Accept`, `AddClient`) and goes in
two (`CloseFd`, `DelClient`), or in one when the event loop closes it (`HangUp`,
after which nothing deletes its entry) and after a `recv` that found its end
(`RecvEnd`) in two as well. Between these steps the others go on: broadcasts are
sent, other workers answer, and the registry has a closed descriptor or lacks an
open one. Descriptor reuse is not here but in `TcpThreadingServer`.

### WsParser, WsStream

`Step` is one turn of `websocket_parser_execute`'s loop, `Execute` one call. The
callbacks append events, and `WsStream` does with them what `ws_parse`'s
callbacks do with its buffer. A body beyond `Shown` bytes is cut off on the wire
(the length in the header is the real one), which leaves the forms of the header
at 126 and 65536 to be checked without streams of that size. Lengths from 2^31 on
are not modelled (TLC's integers), nor is a NULL mask for a masked frame.

### HttpParser, HttpStream, HttpConnection

`Step` is one turn of `http_parser_execute` on one token: a word, a digit or a
separator. The states, flags, marks and counters are the parser's own, with
`HTTP_MAX_HEADER_SIZE` and `ULLONG_MAX` as constants. `HttpStream` feeds it every
input; `HttpConnection` feeds it the pieces that `recv` returns on one connection
and runs `http_request_parser`'s callbacks and `http_server::work` on each. Words
cut in the middle, responses, invalid bytes and `http_parse_host`, whose verdict
the server ignores, are not modelled.

### HttpSession

Each redis command is a step; between two of them keys expire. `Breaks` is a
connection lost in the middle of a command that redis may or may not have carried
out; nothing ever connects again but a new process (`Restart`), which may come at
any step of a request. Sessions are named by the second in which
`random_string("")` made them, which is what it hashes.

`hmset` pastes key, fields and values, with blanks between, into the format string
of `redisCommand`. When all of them are words (not empty, without a blank or a
`%`), redis is told what the handler stored (`Stored`). Otherwise (`Sent`) it may
refuse the command, set other fields than were meant, or, when the key is the
empty `session_val` of a request without one, take a field's name for the key
(`FieldKey`). A `%` may also break the connection or end the process, as hiredis,
which is external, gives the context up or reads an argument that is not there.
That a client's cookie is one the server gave it is assumed.

### MpfdParser, HttpUpload

`MpfdParser` is one `AcceptSomeData` over a whole body, as `upload` calls it;
`Process` is one round of its loop, and what a round feeds to a field is written
before the next (`Parse`, then `Probe` and `Store`). `HttpUpload` has several servers that share a port and a working directory: each
probe for a free temporary name, each write, rename and removal is a step, and one
server's steps come between another's.

### LruCache

Nodes have addresses, so that an iterator which outlives its node can be told
from one that does not. `Prune` is the loop of `prune` at once: the cache's lock
is held throughout. The instance has one node more than the cache may hold after
an insertion, so addresses are used again.

### CJson, JsonTree, CJsonText

`CJson` keeps items with their `child`, `next` and `prev`, and every call follows
and sets these links as the code does; each call may find its memory exhausted
after any number of allocations. `JsonTree` sees the sequence of items under each
item. `CJsonText` works on token sequences: the parser, the printer with its
counts of bytes in buffers that may be too small, `cJSON_Minify`, and
`cJSON_Compare`; `Denoted` says independently which values a text denotes.
`parse_number` copies at most 63 characters of a number for `strtod` (`number_size`
is the 64 of cJSON.c:270, and 5 in the run), so that a longer one is cut there:
`cJSON_Parse` takes its front and ignores the rest, and a text that must end with
its value is refused. An exponent without a sign stands for one too large for a
double.

### ZstdPool, CoverTrain, ZstdMt

`ZstdPool` has the ring with `queueHead` and `queueTail`, both condition
variables, `POOL_add`, `POOL_tryAdd`, `POOL_resize` and `POOL_free`, and the
creation that may fail. `CoverTrain` is the owner of such a pool and the monitor
`COVER_best_t`; the contexts on the owner's stack are live or not.

`ZstdMt` keeps the job table, the round input buffer, the serial state and the
calls of a streaming caller. A chunk of input is its number, so that a
compressed block names what was compressed; the round buffer holds numbers, and
writing over one that is still to be read would show. Not modelled there:
long-distance matching, failures of memory inside `initCStream`, a context with
one thread only, and the pools of buffers and contexts. `ZSTDMT_compress_advanced`
gives its jobs even shares of the input, `avgJobSize` in chunks; a section is no
less than two chunks, which is `ZSTDMT_JOBSIZE_MIN`.

## 3. Runs

| run | instance | properties |
|---|---|---|
| `pool` | 3 workers, 2 requests (each may broadcast), 1 EINTR | `NoLostWakeup`, `OnlyBroadcastsDropped`, `ShutdownEnds`, `QueuedJobsRun`, `ImplementsTaskQueue` |
| `tcp_reuse` | 3 connections, 2 descriptors | `EventsAreCurrent`, `BacklogNeverForgotten`, `IdentityInheritedOnlyAfterHangup` |
| `tcp_live` | 2 connections, 3 units each, buffer of 2, 1 descriptor | `PeersAreServed`, `StopHonoured` |
| `threading_safety` | 2 workers, 2 connections, 1 descriptor, 2 units | `ClosedForACause`, `IdentityLeaksAreKnown` |
| `threading_live` | the same with 1 unit | `WorkersComeBack`, `InputIsRead` |
| `http_session` | 2 clients, 2 seconds, sessions and cache | `KeysExpire`, `SessionsAreOwn`, `StoredIsFound` |
| `ws` | 2 workers; one client, 1 or 2 messages of any kind, cut and joined in every way; or two clients that log in and broadcast | `RepliesInStep`, `EndsForACause`, `RegistryFollowsConnections`, `FiltersKeepTheirMeaning` |
| `http_connection` | 2 requests (11 kinds, then 3) on one connection, buffer of 36 tokens | `HandlerSeesWhatWasSent`, `NeverKeptAgainstTheClient`, `SurplusAnswerIsTheLast`, `RequestsAreAnswered` |
| `zstd_pool` | 2 threads, 2 callers, 3 jobs, no queue or a queue of one; or 3 tries in 2 rounds | `NoLostWakeup`, `BestOfAll`, `ImplementsTaskQueue`, `CallsComeBack`, `TrainingEnds` |
| `zstd_mt` | 2 workers, sections of 2 chunks, five instances | `InputIsIntact`, `FrameIsWhatWasFed`, `EndIsReached` |
| `sequential` | one part in each behaviour, below | `ImplementsRecencyCache`, `FramesAreThoseSent`, `ParserIsSound`, `FieldsAreThoseSent`, `FilesAreAccountedFor`, `ImplementsJsonTree`, `TextsKeepTheirMeaning` |
| `cover_no_memory` | as `zstd_pool` | violation of `FinishWakesTheOwner` |

The parts of `sequential`: the cache with 5 keys, 2 values, 4 nodes, maxSize 2,
elasticity 2; pairs of websocket frames, and frames of 125 to 127, 255, 256,
65535 and 65536 bytes; the HTTP parser on any sequence of 22 tokens with a header
limit of 11 and lengths below 16; two servers with two uploads, and one body cut
at each byte; JSON values of up to 4 items with memory running out; texts of up
to 10 tokens with a nesting of 2.

Deadlock is checked in `http_session` only: the other servers really stop (when
`done`, when killed, when no peer acts), the pool really can hang in `join`, and
the sequential parts come to the end of their input.

### Why these bounds are enough

Three workers let one sleep, one be woken and one overtake; one EINTR makes exit
tasks outnumber workers. Fewer descriptors than connections make numbers run out
and come back. Three units and a buffer of two give a `recv` with nothing, part of
a buffer, a full one, and a rest behind it; two units and two workers put two
workers on one connection and one of them on a number that has changed hands. A
session id lasts at most one second in which others may be given it, so two
seconds tell the same from different. Two messages or requests give every pair
that can be cut or run together; nothing in `ws_parse` or `http_server::work`
lasts longer than one call. In `ws`, the one client may hang up at any time, while
the two that log in and broadcast send their messages whole and stay until the
event loop or a worker closes them; a client with nothing to send does not come
(`MCNext`). The first message is of any kind, the second of those that differ in
what they do to a worker's second call (`Later`). With `number_size` 5, seven
tokens write numbers of every form that are copied whole, and longer ones. The
fourth key makes a cache of two with elasticity
two prune two at once. Two threads of zstd's pool let one turn back as busy while
a job waits; three tries in two rounds let one finish after the owner has moved
on. Each instance of `zstd_mt` is there for one thing: sections filled in part
(`Cut`), memory that fails and frames given up (`Failing`), a changed number of
workers (`Resized`), an input longer than the buffer it goes round (`Round`), a
job table that fills up (`Full`). The unbounded counters that are cut off are
`MaxInterrupts`, `MaxSent`, `MaxTime`, `MaxUploads`, and `chunks` and `frames` of
`ZstdMt`'s instances.

The theorems of section 4 hold without these bounds.

### Fairness

Weak fairness of each thread: the operating system schedules it, and handlers and
tasks return. `main_mtx` is not fair; weak fairness of a worker's next step only
says that a worker gets the mutex if it stays free, which suffices because every
instance makes a finite number of requests. In `HttpConnection` what was sent
arrives, and an edge that is pending is used. In `ZstdMt` workers run, calls go
on, and a caller who has asked for the end of the frame asks again. Peers,
signals, spurious wake-ups and new jobs are never forced.

### What the runs say about the code, beyond "it holds"

* `ShutdownEnds` needs its escape `stolen # {}`: the drain in `~thread_pool` can
  take an exit task meant for a worker, and `join` then never returns.
* `InputIsRead` needs its escape `fullRead`: input behind a full buffer waits for
  the peer's next byte.
* `IdentityLeaksAreKnown` names three ways in which a handler is given another
  connection's identity; each one is needed.
* `ClosedForACause` holds only for descriptors with no earlier owner: a stale
  task or event may close a healthy connection.
* Answers to one connection may leave out of order when two workers read it;
  nothing in the repository promises otherwise.
* `RepliesInStep` names what a client must not do to get its own replies: two
  messages on the way at once (they may be joined, or served by two workers), a
  message large or slow enough to be cut, an empty frame, an empty line.
* `RegistryFollowsConnections` names three ways in which the registry has an entry
  without a connection, and each is needed: a worker between `close` and
  `del_client` (tcp_threading_server.cpp:123-124), the event loop's own close, and a
  second worker that enters a connection that has been closed, the last two for
  good. And the connection between `accept` and `add_client` has no entry.
* `EndsForACause` names an empty line of a request next to an empty frame among what
  makes `ws_server` undefined: ws_server.cpp:197 erases `header.end() - 1`.
* `HandlerSeesWhatWasSent` needs `Plain`: a body that comes in chunks reaches the
  handler with its last chunk only (http_server.cpp:66), a folded header with its
  last line, and a target beyond 16 bits cut short.
* `SurplusAnswerIsTheLast`: a request cut by the network is answered twice;
  requests sent without waiting may be answered once for two.
* `KeysExpire` names the three ways in which a key stays in redis for ever: HSET
  without its EXPIRE, an HMSET on a key that has expired during the request, and an
  HMSET without a session id, which makes a key of a field's name.
* `StoredIsFound` speaks of what was stored in words, since of other values redis
  may refuse or alter what it is sent (redis.hpp:217-224). It says of all values
  that they do not take away what is there.
* `TextsKeepTheirMeaning` needs its condition on long numbers: JSON sets no limit to
  a number's length, and `parse_number` copies 63 characters (cJSON.c:282).
* `SessionsAreOwn` is true only up to clients that asked for a session in the
  same second; they share it.
* `FilesAreAccountedFor`: servers that share `temp/` may take each other's
  temporary name between the test and the creation, and after the renaming.
* `FinishWakesTheOwner` fails: `COVER_best_finish` (cover.c:815) returns with the
  mutex locked when it finds no memory for a better dictionary. This is the
  finding in `PROJECT.json`; `TrainingEnds` excuses it and nothing else.

### Observations

Met while modelling, outside the runs:

* The class comment of `lru11::Cache` (LRUCache11.hpp:91) calls maxSize the hard
  limit; `prune` (:184) lets the cache grow to maxSize + elasticity - 1.
* `zstdmt_compress.c`: (a) a job without input counts as complete from the start
  (:1585), so that `ZSTDMT_endStream` on an empty frame frees its buffer under the
  worker; (b) `jobReady` survives an error and an abandoned frame (:1536, :1539);
  an instance of `ZstdMt` with the habit `emptyFrame`, or `restartReady`, breaks
  `JobsStayWithTheirWorkers`, and no run has these habits; (c) `ZSTDMT_resize` is
  called (:1305) before the jobs of the last frame have been waited for (:1322);
  (d) `avgJobSize` may be rounded up by 0xFFFF (:1148-1149), which with enough
  workers leaves nothing for the last jobs, against the assertion at :1186; the
  model divides evenly; (e) with long-distance matching, a job that fails before its turn
  may leave `ldmWindow` as it is, and the caller then waits for it.
* `pool.c`: without a queue proper, `isQueueFull` compares with `==`, so after
  `POOL_resize` to fewer threads a job is accepted although no worker is free,
  which `pool.h` says of `POOL_tryAdd` otherwise. `cover.c:826` broadcasts after
  its unlock, when the owner may have destroyed the condition.
* cJSON: `cJSON_AddItemReferenceToObject` leaks the reference when the name cannot
  be copied; `cJSON_ReplaceItemInObject` without such a member renames the new
  item and leaves it with a caller who is told nothing; `cJSON_Compare` finds an
  object with two members of one name unlike its copy; a number too large for a
  double is printed as null.
* Nothing includes `concurrentqueue.h`.

## 4. Proofs

The theorems hold for every value of the constants that the named assumptions of
the modules allow; the runs evaluate those assumptions. They were found, and
their invariants checked, with TLC first.

### ThreadPoolProofs

For every finite set of workers, every set of jobs and every `MaxInterrupts`
(`ThreadPool`: finitely many workers, the owner is none; `NoTask` is no task):

* `TypeCorrect`. `TypeOK` alone is not inductive: that an exit task's number is in
  range needs `exitIndex <= exitsSent <= exitIndex + MaxInterrupts` (`ExitCount`);
  `TypeInv` is the conjunction.
* `NoWakeupIsLost`: `Spec => []NoLostWakeup`, inductive together with `TypeInv`:
  a push that finds a sleeper adds one task and one worker on its way to the
  queue; a pop removes one of each; a worker falls asleep only when the queue is
  empty; every other step is a `QuietStep`.
* `DestructorDropsOnlyBroadcasts`: `Spec => []OnlyBroadcastsDropped`. From the
  moment the drain sees an empty queue the owner submits nothing (`CastsOnly`).
* `PoolIsATaskQueue`: `Spec => ImplementsTaskQueue`, step by step. A step of the
  abstract queue submits a task that is nowhere, so the invariant says that every
  task is in one place once (`Apart`), and where each task that exists came from
  (`Origins`), from which the next one is new.

### HttpProofs

Of the sessions, for every set of clients, every combination of session and cache, and every
`MaxTime` (`Nobody` is no client, and the names for the cache's key, no key and
no cookie are no ids):

* `TypeCorrect`: `Spec => [](TypeOK /\ Keyed)`; `Keyed` says that the commands
  before the handler are about a key.
* `OnlyExcusedKeysStay`: `Spec => []KeysExpire`. HMSet would break it if its key
  were neither in redis nor known to have expired. `Settled` says that while the
  connection lasts, the commands before the handler have settled both keys;
  `SaveIsEnabled` and `LostIsImmortal` say when the cache is written and what has
  become of an EXPIRE that cannot be sent.
* `WhatWasStoredIsFound`: `Spec => []StoredIsFound`. `KeptIsThere` ties what was
  stored for a client to redis; `KeptIsLoaded` follows it through the request.
  Whatever an HMSET has become on its way to redis, it adds keys and fields and
  removes none (`Sent`).
* `SessionsStayOwn`: `Spec => []SessionsAreOwn`. `Provenance`: whoever holds a
  cookie, uses it, or has stored under it was given it, in the second it is
  named after.

Of the parser, for every set of characters, every `ULLONG_MAX` from 16 and every
`HTTP_MAX_HEADER_SIZE` (`P` is `HttpStream`; the code has 2^64 - 1 and 80 KiB):

* `ParserStaysSound`: `P!Spec => []P!ParserIsSound`: the callbacks come in turn, no
  assert fails, and the two numbers are exact, whatever is sent and wherever a
  packet ends. What has been called back says too little to be inductive: `IInv`
  holds of the parser between two characters (`Good`). `Heard` says for each state
  which callback may have been the last; `MarksRight`, what is being collected, so
  that the text handed over at the end of a state is there; `DataRight`, which
  flags and counters a state may rely on: a chunk's states have `F_CHUNKED`, a
  body's a length, the request line no `F_TRAILING`. One lemma per case of the
  switch (`ReqMethodIsGood` to `ChunkDataDoneIsGood`), `ReactIsGood` for the
  switch, `StepIsGood` for a character that is reacted to twice, `CutIsGood` for
  the end of a packet. `DigitsAreExact`: what the guards of http_parser.c:1523 and
  :1932 let through does not wrap.

Of the uploads, for every set of servers, every `MaxTime` and `MaxUploads`, and
whatever bodies clients send (`U` is `HttpUpload`):

* `FilesStayAccountedFor`: `U!Spec => []U!FilesAreAccountedFor`. `UploadInv` says of
  an upload in hand (`UploadOk`) what the parser has collected, and that a field is
  fed once and then complete, so that its file has all of its content when it is
  renamed (`Collected`, `Continued`). `SharersAreKnown`: two uploads that
  hold one temporary name are both in `shared`; `OthersOwn`: the others have their
  files, with what was written, until they rename or remove them. `TempsAreInHand`:
  a temporary file is one an upload in hand has opened, or one that nobody will
  remove; `NamesAreTargets` keeps the names given to uploads apart from temporary
  ones. One lemma per action (`ParseKeeps`, `ProbeKeeps`, `StoreKeeps`, `DropKeeps`,
  `TextKeeps` and `FileKeeps` for `Insert`, ...).

Of the cache, for all keys, values and addresses, all sizes and elasticities
(`SizesAssumption`: they are natural numbers; the cache has names of its own there,
`CacheSpec` and so on):

* `CacheIsARecencyCache`: `CacheSpec => ImplementsRecencyCache`. The refinement
  mapping reads the order off the list and the values through the map, so it makes
  sense only while both are indexes of the same nodes: `IndexInv` says that the list
  has each node once, that the map leads from a node's key to it, and that it has
  nothing else. Then a node's place in the list is its key's place in the order
  (`IteratorFacts`), `splice` and `erase` do to the order what `Use` and `Erase` say
  (`SpliceFacts`, `UnlinkFacts`), an insertion extends all three alike (`GrowFacts`)
  and `prune` cuts them at the same place (`PruneFacts`). `SizeInv` (no more than
  maxSize + elasticity - 1 entries) is there because an insertion over an existing
  key must leave no more than `Allowed`, and does not prune.

### EventLoopProofs, TcpServerProofs, TcpThreadingServerProofs

For every set of connections and of workers, every number of descriptors, units
and buffer sizes. `EventLoopProofs` has what both servers need: `KernelInv` (types;
a connection is in one place; a descriptor on the ready list is in use; what has
been read was sent) and `LoopInv` are preserved by the kernel's and the loop's
steps; `LowestIsFree`, by the well-ordering of the naturals.

* `TypeCorrect`, of each server.
* `EventsStayCurrent`: `Spec => []EventsAreCurrent`. Not inductive: `CurrentInv`
  adds that the batch has no second event of the descriptor that `work` is about
  to close, so that the number `accept` reuses within the batch is in no event.
* `BacklogIsRemembered`: `Spec => []BacklogNeverForgotten`, of each server: an
  edge of the listening socket is there from the moment a connection waits, and
  the accept loop ends without one only as the property allows.
* `IdentitiesAreOwnOrHungUp`: `Spec => []IdentityInheritedOnlyAfterHangup`.
* `ClosesHaveACause`: `Spec => []ClosedForACause`, from `ReferenceInv`: a
  descriptor that an event, task or worker refers to has been in use, and whoever
  has it now is the connection they mean or came second.
* `IdentityLeaksAreThese`: `Spec => []IdentityLeaksAreKnown`, from `IdentityInv`,
  which speaks of unused descriptors too, and from `WorkersHaveDescriptors`.

### WsServerProofs

For every set of connections, workers and scripts of messages, of any length
(scripts consist of messages; junk means nothing, and the empty text is no JSON;
`Nobody` is not what a worker has received):

* `RegistryIsRight`: `Spec => []RegistryFollowsConnections`. `RegistryInv` adds what a
  worker's next step may be (`Workplace`); that a worker about to delete holds a
  connection that is closed, every other one that is open, raced or closed by the
  event loop, and that two hold one connection only if it is raced (`Busy`); and
  what waits, is open or is being added (`Accepted`).
* `FiltersAreKept`: `Spec => []FiltersKeepTheirMeaning`. `CastInv` says what a
  submitted broadcast remembers of the registry: whoever has an identity keeps it.
* `RepliesStayInStep`: `Spec => []RepliesInStep`. `Received` says what portion of
  the script a worker holds and that a connection on which nothing was joined, cut
  or shared is read message by message; `HeldInput` ties the text a worker answers
  to it; `Counted` counts replies against messages read.
* `ClosesForACause`: `Spec => []EndsForACause`, from the same invariants: a worker
  that is about to close has a cause before it does (`Caused`, in `EndInv`).

### ZstdProofs

For every number of threads, callers and jobs and every size of the queue (the
owner is a caller, threads are not; `numThreads` of them exist; `NoJob` is no
job):

* `TypeCorrect`, of the pool. `RingInv` ties head, tail and `queueEmpty` to the
  sequence `Contents`; `CountInv` ties `numThreadsBusy` to the threads with a job.
* `NoWakeupIsLost`: `Spec => []NoLostWakeup`.
* `PoolIsATaskQueue`: `Spec => ImplementsTaskQueue`: seen from the queue, every
  step hands a job in, fills the ring, drops or starts a job, returns from it, or
  rests (`HandsIn`, `Fills`, `Drops`, `Starts`, `Returns`, `Rests`); `Apart` says
  that a job is in one place once.
* `TrainerUsesThePool`: `TrainSpec => Spec /\ []NoLostWakeup /\
  ImplementsTaskQueue`: every step of the trainer is a step of the pool or leaves
  it alone, in particular it adds no job to a pool that is being freed
  (`NoLateCalls`), so the pool's theorems hold in the program that has both.
* `TheBestIsReturned`: `TrainSpec => []BestOfAll`, for all rounds of tries and also
  when memory runs out (then no result is returned at all). `Accounts`: `liveJobs`
  is the number of tries handed in and not compared, and each is in the pool or
  with a thread; `Lifetimes`: while there are such tries, the context and the
  result they use exist; `BestSoFar`.

They also assume that results of tries are below `Error` and dictionaries are not
empty (`TriesAssumption`), which is what `ZDICT_isError` tells apart.

### ZstdMtProofs

For every finite set of workers (`WorkersAssumption`), all sizes of sections and
prefixes (`SizesAssumption`) and every set of instances (`InstancesAssumption`),
with whatever input, calls and failures of memory. What a caller may do besides
bringing frames to their end is a hypothesis of each theorem, because the code is
not right for callers of every habit (observations (a) to (c) of section 3).

The first theorem takes all habits but one: `NoReadyRestart` says that no frame is
begun while a prepared job waits for the pool, since `jobReady` would survive.

* `InputStaysIntact`: `Spec => []InputIsIntact`. The caller looks at the first job
  that is not complete, and only there, before it fills a section. `Layout` says why
  that is enough: what a job still has to read lies behind `pos` or ahead of the
  section's end (`Placed`), and of two such jobs the earlier one is the first in the
  way (`InOrder`), so that the first bounds them all (`SectionIsFree`, `CopyIsFree`).
  It is kept when jobs come further or are freed, when the buffer is wrapped with a
  copy of the prefix, when a section is taken, filled and made a job (`LayoutKeeps`
  to `LayoutPrepare`). Whatever a job's source says, it is never beyond the section
  it was filled in, so a job without input, which is complete from the start, does
  no harm here. `Count` ties the job table to `nextJobID` and `jobReady`; `DrainInv`
  is what is left of all this when an error makes the caller wait for all jobs;
  `PostInv` says that `ZSTDMT_compress_advanced` does not use the buffer.

The other two are about the callers of `Orderly`, as all instances of the run
`zstd_mt` are: they may give frames up and change the number of workers from frame
to frame, but end no empty frame, leave no prepared job behind, and do not resize
a frame that is under way.

* `JobsStay`: `Spec => []JobsStayWithTheirWorkers`: the caller does not free, reuse
  or wipe the description of a job that is in the pool or in a worker's hands. No
  run checks this one; the frame rests on it. `OwnersInv` says that the table has
  the jobs from `doneJobID` on in the order of their numbers (`Owners`), that every
  job in the pool or in a worker's hands is one of them and not complete, in one
  pair of hands only, and how jobs that no worker has seen come to be there
  (`Begun`, `AllPosted`, `Backed`). A job is freed when it is complete, which is
  the last thing its worker says of it; the one exception, the empty last block,
  is written by the caller and posted to nobody.
* `FrameIsRight`: `Spec => []FrameIsWhatWasFed`. `FrameInv` on top of the other two
  invariants. Each job stands for a part of the frame that begins at `Base`:
  `TextOf` says that what it has written reads like the frame from there, and is
  the whole part when the job is complete without an error. `Chain` says that the
  parts follow each other without a gap up to what has been made into jobs
  (`Reached`), with the last job, and it alone, at the end of the input. `Stage` is
  how far the worker in each place of `ZSTDMT_compressionJob` has got. `Hashing` is
  the checksum: as long as no job has failed, the input of the jobs before
  `serial.nextJobID` has gone into it in order, and whoever waits has its turn
  still to come; so the caller that puts it behind the last job, when all are
  complete, has the checksum of all input (`LastHashed`). `StreamFlow` and
  `PostFlow` say how far the output of a stream, and of `ZSTDMT_compress_advanced`,
  has got; there the shares of the input are not empty and together are all of it.
  One lemma per step (`WorkerFrame`, `CallsFrame`, `FlushFrame`, `CollectFrame`,
  ...) and `StepFrame` over them.

### Only model-checked

* All liveness properties: fairness and ENABLED are beyond this prover.
* What recursive definitions compute: `WsParser`, `CJson` and `CJsonText` follow
  loops and links with recursive operators, and a statement about every input
  needs an induction over data that cannot be given to the provers here. With
  them go `FramesAreThoseSent`, `ImplementsJsonTree` and `TextsKeepTheirMeaning`.
* `FieldsAreThoseSent` of the uploads, and `HandlerSeesWhatWasSent` and
  `NeverKeptAgainstTheClient` of `HttpConnection`: what they say of a whole body or
  a whole request is a fold over its pieces, which needs the same induction.
  `SurplusAnswerIsTheLast` is no theorem: what is left of a request after a cut
  must not be a request in itself, which a body could be. The dialogues of the run
  have no such body, and with one the server answers it as a request of its own.

## 5. Not modelled

`util`, the module loader, regular expressions, cpr, moodycamel's queue,
libwshandshake, json11 (of which `ws_server` uses `parse`, see `Meaning`); cJSON's hooks and its comments in `cJSON_Minify`; zstd's
codecs, entropy coders and match finders (numeric code without state between
calls), and the branch of `cover.c` without a pool; socket set-up; user-supplied
websocket handlers; redis commands that no server uses; several processes on one
redis; the contents of answers; the `Content-Type` of a file, fields in memory,
and `MaxDataCollectorLength` of MPFDParser; the order in which `epoll_wait`
reports descriptors (left open); more than `ev_size` ready descriptors at once;
the listen backlog's limit of 10; `~epoll`, which closes the descriptors of the
last batch when everything else has stopped.

## 6. Plan

1. cJSON's patches and pointers (`cJSON_Utils.c`) on top of `CJsonText`.
2. `UtilText`: `split`, `parse_param`, `parse_http_time` over small inputs.
