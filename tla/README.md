# xProxy: a TLA+ model

xProxy is a single-threaded HTTP/HTTPS proxy on boost::asio. A browser connects
to it; for each request the proxy opens, or reuses, a connection to the origin
server, forwards the request, and streams the response back. CONNECT requests
are answered by the proxy itself, which then plays the TLS server towards the
browser, with a certificate it forges for the host, and the TLS client towards
the origin.

Paths below are relative to the repository (`src/*.cpp`, `include/x/**`).

## Inventory

| component | state | operations | interacts with |
|---|---|---|---|
| io_service (asio) | ready handlers, pending operations | run, post, complete, cancel | everything; one thread, so handlers never overlap |
| `connection` | `connected_`, `stopped_`, `writing_`, `buffer_out_`, timer, codec, message | read, write, write(msg), reset, stop, on_write | its manager, its context (by posted tasks), the socket |
| `timer` | `running_` | start, cancel, the handler | its connection |
| `connection_manager` | set of connections | add, erase, stop_all | connection, server |
| `socket_wrapper` | `use_ssl_` | close, switch_to_ssl, async calls | connection |
| `client_connection` | | start, handshake, reset, on_read, on_write, on_handshake | context |
| `server_connection` | | start, connect, handshake, reset, on_resolve, on_connect, on_read, on_write, on_handshake | context |
| `connection_context` | `https_`, `ssl_setup_`, `message_exchange_completed_`, weak pointers to both connections | on_event (two), on_stop, on_client_message, on_server_message | both connections, managers, certificate manager |
| `certificate_manager` | root CA, DH parameters, cache, files under `cert/` | init, get_certificate | context, disk |
| `http_decoder`, `http_encoder`, messages | parse state, encoding position, headers, body | decode, encode, reset | connection |
| `server`, `main` | acceptor, `current_connection_`, `port_` | init, start_accept, the accept handler, the signal handler, start() again after an exception | managers, `config` |
| `byte_buffer` | `data_`, `size_`, `capacity_` | construct, copy, move, assign, append, erase, clear, destroy | messages, buffers of a connection |
| `config` | the tree of `xproxy.conf` | load, get | server |
| logging, counter, `message_handler` | | | |
| `include/*.h`, `include/xproxy/**` | an earlier design, not built | | |

What is hard here. Handlers do not overlap, but what one handler queues runs
after whatever was queued before it: events travel from a connection to its
context as posted tasks that capture a bare `this`; a cancelled timer or socket
operation still has a handler to run; a completion that is queued with success
cannot be cancelled any more; timeouts, disconnects and a signal may fall
between any two of these. Lifetime is by `shared_ptr` in operations and
managers and by `weak_ptr` in the context. Writes may be short, responses come
in parts, and reads end anywhere in a URL, a header or a chunk. Certificates
live in files that are written in two steps and outlive the process. An
exception in one session leaves `run()` and reaches the accept loop of all. `PROJECT.json` lists the hazards at their lines.

What makes the parts correct: a manager holds exactly the live connections; a
session has one server connection at a time; a timer's flag tells the truth;
requests are forwarded once and responses arrive whole, in order and behind
TLS; a stopped connection stays stopped; a request is answered or its client
closed; a shutdown releases everything; certificates match their keys, host and
root; what is encoded is the message that was decoded; a buffer owns its memory
and holds the bytes written to it; clients are accepted on a connection that
exists, until the proxy is told to stop; a request goes to the server it names.

## Modules

| module | models |
|---|---|
| `EventLoop` | the io_service: `queue` (FIFO of handlers), `pending` (operations), lifetime (`Alive`, `LockServer`), process end (`fault`) |
| `Connection` | `connection.cpp/.hpp`, `timer.hpp`, `connection_manager.hpp`, `socket_wrapper::close`, the encoder's position; `start` and `on_write()` of both subclasses, which the base class calls |
| `ClientConnection`, `ServerConnection` | the rest of the two subclasses |
| `ConnectionContext` | `connection_context.cpp` |
| `Session` | the composition: one client, its context and its server connections, with peers, timers and a signal; the properties |
| `Exchange` | abstract: what a session promises its peers, in four counters |
| `SessionExchange` | the refinement mapping from `Session` to `Exchange` |
| `MCSession` | the values of the environment's constants |
| `SessionProofs`, `ActivityProofs`, `AssertionProofs`, `DeliveryProofs` | theorems about `Session`, each module on top of the one before |
| `HttpCodec`, `MCHttpCodec`, `HttpCodecProofs` | `http_decoder.cpp`, `http_encoder.cpp` and the messages between them, for one direction of a session; streams of messages; theorems |
| `Bytes` | abstract: every buffer is a sequence of bytes of its own |
| `ByteBuffer`, `MCByteBuffer`, `ByteBufferProofs` | `byte_buffer.hpp` over explicit blocks of memory, with the mapping to `Bytes`; its instance; its theorems |
| `Server` | `main.cpp`, `server.cpp`, `config.hpp`: start up, the accept loop, the signal handler, the restart loop; a session is a connection in its manager |
| `Routing` | where `connection_context` sends the requests of a client: hosts, ports, TLS and the host of the certificate |
| `Proxy`, `MCProxy`, `ProxyProofs` | `Server` and `Routing` composed: an exception or a failed assertion in a session reaches the process; origins; theorems |
| `CertificateManager`, `MCCertificateManager`, `CertificateProofs` | `certificate_manager.cpp/.hpp` over several processes, its instances, its theorems |

In the modules of a session a C++ method is an operator from a world (the record of all the state a handler
can change) to a world, because handlers call methods of several objects one
after the other. An action of `Session` is one whole handler, taken from the
head of the queue: `Become(method(Popped, ...))`. A failed assertion or an
access to freed memory sets `fault` and the process does nothing more; this is
the build of `CMakeLists.txt`, which does not define `NDEBUG`.

How data is abstracted:

* A message is a sequence of units `<<r, i>>`, part i of message r; a request has
  `ReqLen` units and a response `RespLen`. The first unit stands for the headers
  with what came along. `<<r, 0>>` is the proxy's reply to CONNECT r.
  `buffer_out_` is a sequence of such sequences, and a short write takes a prefix.
* Whether a request is CONNECT, whether its destination parses, whether a
  message allows keep-alive and whether a certificate could be made are choices.
  Hosts and ports are left out of `Session`; they are in `Routing`.
* A timer has no duration: a pending wait may expire. The idle and the response
  timer of a client share one timer object and do the same when they fire, so
  they share one handler. For a server connection it stops without notice.
* An aborted operation and a failed one both have the result `"error"`, with
  no bytes. `"bad"` is data the parser does not consume.
* A write reads the memory of the buffer it was started with when the kernel
  takes it: if `reset()` has freed that buffer (`Dangling`), the process is taken
  to fail there (`freed_buffer`).
* `Init` is the state the accept handler leaves. `Waits` is the loop waiting in the
  kernel, or the process after its end.
* In `CertificateManager` a key is a number, a certificate a record of subject,
  public key, signer and private key, and a host a sequence of labels, of which
  the model knows which have at most three characters. A missing file and an
  unreadable one are the same. Each `PEM_write` is a step, and a process may end
  before any of them.
* In `HttpCodec` a text is a sequence of characters, a message the list of
  callbacks `http_parser` (external) makes for it (`number` and `at` say where in
  them it is), and a read ends within any of
  them: a callback gets what is left of its element or a part that ends the read.
  When a read ends exactly behind a URL, a status, a header name or a value, the
  parser calls once more with no data. What the encoder writes is a sequence of
  tokens: the first line, the header block, sizes, bytes and ends of chunks.
* In `ByteBuffer` every `new char[]` takes an unused block, whose characters are
  `Junk` until they are written. `append` is every `operator<<`. A wrapper that
  points into the buffer it is appended to is left out: the code makes none.
* In `Server` a connection is its number. `accepts` are the pending `async_accept`
  calls, in order, each with the connection it will fill; `current` is
  `current_connection_`. The two differ after an exception: the accept handler
  looks at `current`, as the code does. `happened` remembers which failures there
  have been, for the properties.
* In `Routing` a request names a host and a port, none or one that does not convert;
  clients leave out the default port of the scheme. `reopened` remembers that the
  server connection was opened from within the tunnel, for `RightServer`.

## Runs

Passing runs:

| run | asks | bounds |
|---|---|---|
| `session_full` | bookkeeping (`ManagedExact`, `OneServerConnection`, `TimerFlag`, `OneRead`), no repetition (`ResponseOrdered`), assertions that must never fail (`NeverAsserted`), and those that fail only between a stop and the `on_stop` task that follows it, or after a signal (`StopWindow`), under split responses, all failures, timeouts and a signal | 2 requests, 2 server connections, request 1 unit, response 2 |
| `session_whole` | `RequestForwardedOnce`, `ResponseWhole`, `TlsBeforeData`, `BufferHeld`, `StoppedIsFinal`, and the refinement `OneExchangeAtATime`, when responses are not split | 3 requests of 2 units, responses of 2 |
| `session_answered` | `NoFault` and `RequestAnswered`, when peers may disconnect but timers and signals stay out | 3 requests |
| `session_released` | `StopPropagates`, `ShutdownCompletes`, with everything | 2 requests, 1-unit messages |
| `certificates` | `KeysMatch`, `SignedByRoot`, `CertificateFits`, `FilesKept` | 4 hosts with 3 common names, 3 processes, 6 keys; saving the root CA does not fail |
| `codec` | headers, body, chunks and URI of every message pass unchanged (`HeadersFaithful`, `BodyFaithful`, `ChunksFramed`, `UriKept`), a response is `Streamed`, only a missing value fails the assertion (`HeaderValueNotEmpty`), and everything is passed on (`AllSent`) | four streams of two to four messages: repeated, split, empty and absent headers, one and two trailers, chunks of one to three characters, CONNECT, absolute and origin-form URLs |
| `bytes` | `Ownership` (no block is leaked, shared or freed twice), `Initialised`, and the refinement `KeepsBytes` | 2 buffers of up to 3 bytes, 3 blocks, default capacity 1, growth factor 2; symmetric in buffers and blocks |
| `proxy` | `AcceptTargetHeld`, `ManagedAccepted`, `KeepsAccepting`, `SignalStops`; `RightServer`, `CertificateForHost` | 3 connections before clients stop coming, 2 exceptions, 4 requests, 5 origins, clear and TLS, on default ports and others; everything may fail |

`RightServer` says where every request of a client that keeps to one origin is
written: to the origin's host and port, except that a server connection to a TLS
origin on 443 that is opened again, from within the tunnel, leads to port 80. It says nothing of a client that has asked for a second origin.

The bounds: two requests are what reuse of a server connection, reconnection
after it closed, and every race between one exchange and the next need; three
add a second reuse. Two units are what short writes, split responses and an
encoder that continues need. `MaxServers` equals the number of requests, and a
request opens one connection at most, so that bound is never felt.
Four streams hold every pair of callbacks that may follow each other, and the last
character of each element may end a read. Capacity 1 makes almost every append
grow the buffer; the code's 1024 would hide that. The third block is what a
buffer needs to grow while both hold memory. Three connections are one that is
served, one that waits to be looked at and one that is to be accepted; two
exceptions let the second come while the accepts of the first are pending.

Runs that find a violation, each of what the code itself says:

| run | what happens |
|---|---|
| `stale_write` | A response comes in two parts. The WRITE task for the first runs when the second is already queued and `message_exchange_completed_` is set: "response completed, keep client connection alive", and `reset()` drops the second part. |
| `response_timer` | On a kept-alive client the next request cancels the idle timer and starts the response timer in one handler. `running_` is still true, so `timer::start` does nothing, and "server response waiting timed out." can never come. |
| `idle_race` | The idle timer of the server connection fires behind the READ task of the next request. The request is written to a connection that is stopped at once, with `notify` false, and the client waits for ever. |
| `restart` | A request whose port does not convert throws out of `run()`. "xProxy exception: ", and `main()` calls `start()` again, which replaces `current_connection_` while an accept into the old one is pending: the next client is accepted into a destroyed object, and the handler, which looks at the new one, throws again. |

What else goes wrong in the code. The passing runs step around it, or state it as
it is; in each case the condition can be lifted to see the behaviour. The hazards
in `PROJECT.json` say which of these no property covers.

| condition | without it |
|---|---|
| `session_answered`: `Timeouts = FALSE` | `NoFault` fails: the answer's READ task is queued when the response timer fires, and `on_server_message` writes to a stopped client (`connection.cpp:56`). `StopWindow` bounds this. |
| `session_answered`: `Signals = FALSE` | `NoFault` fails: a READ task behind the signal handler opens a server connection; when the answer comes `assert(client_conn)` fails (`connection_context.cpp:148`). `StopWindow` says that only a signal leads there. |
| `session_answered`: no `"cert"` failure | `NoFault` fails: a certificate that could not be made reaches `assert(ca.key() && ca.cert() && dh)` (`socket_wrapper.hpp:76`). |
| `session_answered`: no `"bad"` failure | `NoFault` fails: `ASSERT_EXEC_RETNONE(consumed == length, stop)` ends the process when a server sends what is not HTTP (`server_connection.cpp:141`). |
| `session_answered`: `Split = FALSE` | `NoFault` fails: the server fails between two parts of a response, the client is stopped, and its WRITE task runs on freed memory (`client_connection.cpp:150`). |
| `session_answered`: requests name a host | `NoFault` fails: `assert(found)`, for a request without a Host header (`connection_context.cpp:178`). |
| `certificates`: the root CA can be saved | `SignedByRoot` fails: the next process makes a new root, and loads what the old one has signed. |
| `UriKept`: the URL comes in one read | each part is converted as if it were a URL, and replaces the part before (`http_decoder.cpp:91`); a read that ends right behind the URL leaves "/". |
| `HeadersFaithful`: no empty values | a header with an empty value is joined with the name of the next (`http_decoder.cpp:132`). `HeaderValueNotEmpty` says when this fails the assertion instead. |
| `HeadersFaithful`: nothing but the headers in the block, for at most one trailer | the name of a second trailer makes `on_header_field` add the first to the headers, which are written after it if the message is a request (`http_decoder.cpp:132`). |
| `codec`: `Pipelined = FALSE` | a second request in the same read is decoded into the message that is complete: its URI and headers change before it is encoded. |
| `KeepsAccepting`: no accept has failed | the handler returns without `start_accept()` after any error (`server.cpp:80`). |
| `AcceptTargetHeld`: no session has thrown | as in `restart`. |
| `RightServer`: port 80 for a connection opened again to a TLS origin on 443 | in a tunnel whose server connection was closed, the Host header names no port, and `parse_destination` takes that of the clear scheme (`connection_context.cpp:179`). |
| `RightServer`: one origin per client | a request for another host is written to the server connection there is (`connection_context.cpp:106`). |

An accept that has completed when the signal handler runs still begins a session;
`SignalStops` shows that the process ends all the same, when that session does.

Fairness. `LoopFairness`: asio runs every ready handler, as the loop is never
blocked. `PeerFairness`: names resolve, connects and handshakes finish and sent data is taken;
a server that has received a request goes on to send its answer. For the
answer it is strong fairness, because a read may complete again and again with
bytes that do not yet make a unit, though not for ever. The code has no
guarantee that peers do this (its timers are for when they do not), so these
assumptions are part of the question `session_answered` asks, where peers may
disconnect at any time. `TimerFairness`, for `session_released` only: a timer that
is not cancelled expires. It is needed because a client that is stopped without
notice leaves its kept-alive server connection to its idle timer.

`HttpCodec` assumes that a peer sends the rest of what it has begun to send
(`WF_vars(Step)`). `Server` assumes that the process runs its handlers and that
every session ends: sessions in progress are ended by `stop_all`, and those begun
later by their peers or their timers (`session_released`). It does not assume
that clients come, that anything fails or that a signal arrives.

Deadlock is checked in all runs but `bytes`, where the bounds on sizes and blocks
may leave no call to make.

## Proofs

`SessionProofs` proves, for all message sizes, numbers of requests and server
connections and every environment:

* `TypeCorrect`: `Spec => []TypeOK`;
* `ManagersExact`: `Spec => []ManagedExact`;
* `OneServer`: `Spec => []OneServerConnection`.

None of the last two is inductive. The invariant `IInv` is a predicate `Good` of the
world: types; no handler or operation belongs to a connection that has not been
made yet (`Known`); the managers hold what exists and is not stopped
(`Registered`); the server connections before the current one are stopped and
those after it untouched (`Replaced`). `Replaced` is kept when the context opens a
connection because a `weak_ptr` that has expired means the manager no longer
holds the old one, and `Registered` then says that it was stopped; `Registered` is kept by `stop`
because only the client or the current server connection can be unstopped. For
each method a lemma says that it is quiet (keeps `Good` and stops nothing) or
that it stops one connection; the handlers' lemmas chain these.

`ActivityProofs` adds, under the same conditions:

* `TimerFlagExact`: `Spec => []TimerFlag`;
* `OneReadAtATime`: `Spec => []OneRead`.

A session has several connections but goes on in one place at a time, and that
is what makes a read unique. A *step* is a read, connect, handshake or write to the
server, as a pending operation, as its queued completion or as the event it has
posted. `Single` says that there is at most one step, none while the client takes
the end of a response (`message_exchange_completed_`) or the answer to CONNECT, and that
a step finds what it relies on (`Ready`): a READ event has a complete request, the
client's encoder is not ahead of the response that is read, a server that connects
is the current one and is not yet on TLS. `Timed` says the same of each timer: the
wait or its handler exists once, exactly while `running_` is set; a cancelled wait
keeps its place by its handler. A handler that was a step starts in a world
without steps (`Standing`) and begins at most one; every other handler, and the
environment, leaves the steps as they are (`Silent`).

`AssertionProofs` adds

* `AssertionsHold`: `Spec => []NeverAsserted`.

Two of the three assertions follow from `Single`. The third, that no socket is
switched to TLS twice, does not: `on_event(WRITE)` starts the client's handshake
whenever the session is an https one that is not set up, so it depends on how
many WRITE events come in that phase. `Chained` bounds them: while a step of the
client is awaited `buffer_out_` is empty (`Drained`) and every WRITE that is queued is
ahead of the step's handler (`Behind`), so none is left when a CONNECT is handled;
its answer is one unit, sent by one write and followed by one WRITE (`Answering`);
and during the handshake there is no other step and no WRITE (`Secluded`). That a
completed write has sent something (`Sent`) is needed as well: a write of no bytes
would leave the answer in the buffer. TLC has checked each part before the proof.

`DeliveryProofs` adds, still for every environment:

* `RequestsForwardedOnce`: `Spec => []RequestForwardedOnce`;
* `ResponsesOrdered`: `Spec => []ResponseOrdered`.

Both are about `wire`, what a peer has received so far, and need to know where
the units not yet received are. For requests the invariant is `Sound`. `Past`: no
server has a part of a request later than the one the client is on, and a later
server connection only parts of later requests. `StepsOk` says of the one step in
progress what its connection holds (`StepOk`): a read of the client extends the
request in its message, and no server has any of it (`Asking`, `Unasked`);
a connect, handshake or write of a server finds in `buffer_out_` exactly the rest
of the request, behind what the server has received (`Unsent`, `Forwarded`); a read of a
server extends the response, and the server has the whole request (`Answer`).
`Held`: a pending write to a server is of the front of its `buffer_out_`. `Spare`: a
server connection that no step is about can be used again because its encoder
was reset; `Taken`: the client is in the middle of a request only while it is read from.

For responses the invariant is `Flow`. It would be easy if a write in progress were
always of the front of `buffer_out_`, but where responses come in parts it is not:
`reset()` can free the buffer while a write of it is pending, and
even while its completion is queued. `Fronted` therefore says that a pending write is of
the front, or comes before all that was buffered since. `Lined`: one completed write at most
waits for its handler, ahead of whatever the client sends next. `Follow`:
what the client has received comes before what is buffered, less what
that completed write has sent (`on_write` erases it only then). `Timely` relates all
this to the request the client is on: nothing is on its way for a request still being read, and
while a server is waited for nothing ahead of what is encoded (`Upto`), nor
a completion left from before `reset()` (`Clear`). Each method either leaves all of it
alone (`Kept`) or has a lemma of its own; those of `write`, `on_write` and `reset` carry the
argument. TLC has checked `Sound` and `Flow` as invariants before the proof.

`CertificateProofs` proves, for every set of hosts, any number of crashes and
whatever fails:

* `CertificateTypes`: `Spec => []TypeOK`;
* `CertificateFitsHost`: `Spec => []CertificateFits`;
* `CertificateKeys`: `Spec => []KeysMatch`;
* `CompleteFilesKept`: `Spec => FilesKept`;

and, when `"root_save"` is not among the calls that may fail (`RootSaved`):

* `CertificatesSigned`: `Spec => []SignedByRoot`.

`NamesInv` strengthens `CertificateFits`: what is in the cache or in a file under a
name has that name as its subject, the certificate last returned is named by
`parse_common_name` of its host, which covers that host, and a request being saved
is for a known host. For the others `CInv` relates files, memory and phase: a file
with a key has the key of its certificate; the root in use is whole; a file being
saved is not complete; and, if `RootSaved`, an initialized process uses the root in
its file, which is whole and has signed what there is in site files and in the
cache. `SignedByRoot` needs the assumption: `init()`
ignores the result of `save_root_ca()`, and after a failure the next process makes
a new root and still loads what the old one has signed.

`ByteBufferProofs` proves, for all sets of buffers and blocks, pieces and sizes:

* `BlocksOwned`: `Spec => []Ownership`;
* `BytesInitialised`: `Spec => []Initialised`;
* `ImplementsBytes`: `Spec => KeepsBytes`, the refinement of `Bytes`.

`BInv` joins the two invariants with the types and with `Sized` (a live buffer has no
block exactly if its `capacity_` is 0, and the shape of the heap). With `Ownership` a
call that writes into, moves or frees its own block changes no other buffer; with
`Sized` a grown block has room for what is appended, since the growth factor is at least 1 (`GROW_FACTOR` is 2 in the code). Each action is
then shown to be the abstract call of the same name or to change no buffer's bytes.

`HttpCodecProofs` proves, for every stream of messages of any length over any
characters and wherever the reads end, if peers do not pipeline (`~Pipelined`):

* `CodecTypes`: `Spec => []TypeOK`;
* `HeaderBlocksRight`: `Spec => []HeadersFaithful`;
* `ChunksWhole`: `Spec => []ChunksFramed`;
* `ResponsesStreamed`: `Spec => []Streamed`;
* `UriRight`: `Spec => []UriKept`;
* `AssertionOfHeaders`: `Spec => []HeaderValueNotEmpty`.

The argument is one invariant, `CodecInv`, that says what the decoder, the message
and the encoder hold as a function of where the parser is. `Place`: the message
being passed on is the one being read, or the one before it once it is complete;
nothing is written before the headers are complete, and the encoder is at its end
only when the exchange is. `Position`: `current_header_value_` is the part of this value
that has been read, or the whole value of the header before; behind the headers
it is empty up to the name of the first trailer, so that one does not reach the
headers. `Collected`: the message then holds the headers before these two
(`Holds`), which needs every value to be there, since an empty one is not noticed.
`Taken` and `Output`: the header block and the framing of the body in the message, and
what has been written of both: the output is always the first line, the block and
the first `body_encoded_` tokens of the body. `Past` keeps this for the messages
before. The lemmas below it are about the layout of a message's callbacks
(`Layout`, `Where`), about `origin_form` (`OriginFormPath`: the first `/` behind `http://` begins the
path), and about framing: a part of a chunk is framed (`FramedText`), and framed
sequences join (`FramedJoin`).

`ProxyProofs` proves, for any number of connections, exceptions and requests, and
whatever may fail:

* `ManagedAreAccepted`: `ProxySpec => []ManagedAccepted`;
* `AcceptTargets`: `ProxySpec => []AcceptTargetHeld`;
* `GoesOnAccepting`: `ProxySpec => []KeepsAccepting`;
* `RequestsRouted`, `CertificatesForHost`: the same for `RightServer` and
  `CertificateForHost`, for every set of origins, TLS on 443 among them.

`ServerInv` strengthens the first three. `Filled`: the pending accepts are for
different connections, none of which is connected yet; it survives restarts,
where the accepts multiply, because every one has a fresh connection. `OneAccept`:
until a session throws, an accept is pending or its handler is queued, never
both, and after an exception of the handler neither. `Open`: the acceptor is open
until the signal is handled, so that `start_accept` finds it open. `RouteInv` says
that the flags of the context follow the origin (`Flags`), that a server
connection leads where one to this origin does when it is opened for the first time
or again (`Reached`, `Leads`), and that a certificate is for a TLS origin, which a client cannot
leave (`Certified`).

The constants are assumed to be of their types, with at least one server
connection and messages of at least one unit; a host is not empty and is not
named like the root CA's file; a message has the parts `http_parser` finds in one,
and no part of its body is empty.

Only model-checked:

* liveness, and `ENABLED` in it (TLAPS has no support for fairness here);
* the safety properties of `Session` that hold only in restricted environments:
  `ResponseWhole`, `TlsBeforeData`, `BufferHeld`, `StoppedIsFinal`, `OneExchangeAtATime`, `NoFault`
  and the refinement of `Exchange`. The first four fail once responses come in
  parts, because of the reset that `stale_write` shows, so a theorem about them
  would assume `~Split`;
* `StopWindow`, which holds in every environment;
* `BodyFaithful` of `HttpCodec`: what `FlattenSeq` and `SelectSeq` compute for every input
  is an induction over data.

## Not modelled

TLS, the ini syntax of `xproxy.conf` and `http_parser` themselves, and with the
parser the response to HEAD, interim responses and a body that ends with the
connection; an exception in `socket_wrapper::close`; the layout of lines and
version numbers; logging, the debug counter and the `message_handler` interface
that nothing implements; the headers of the earlier design (`include/*.h`,
`include/xproxy/**`), which no translation unit includes and whose
implementations are gone.

## Plan

`ResponseWhole` and `TlsBeforeData` for sessions whose responses are not split: the next
invariant would say, on top of `Flow`, that nothing is being sent to the client
while a step goes on.
