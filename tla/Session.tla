------------------------------ MODULE Session ------------------------------
(***************************************************************************)
(* One client session of xproxy, from the accepted connection on: the      *)
(* handlers of its connections and context, run one at a time by the       *)
(* io_service, interleaved with what the client, the servers, the timers   *)
(* and the operator (SIGINT, SIGTERM) do.                                  *)
(***************************************************************************)
EXTENDS ConnectionContext

CONSTANTS MaxRequests,   \* bound: requests the client sends
          Https,         \* the client may send CONNECT
          Destinations,  \* outcomes of parse_destination
          Split,         \* a response may reach the proxy in several parts
          Failures,      \* what peers and the certificate manager may do wrong
          Timeouts,      \* timers may expire
          Signals        \* the proxy may be told to stop

ASSUME EnvironmentAssumption ==
  /\ MaxRequests \in Nat
  /\ Https \in BOOLEAN
  /\ Destinations \subseteq {"ok", "no_host", "bad_port"}
  /\ Split \in BOOLEAN
  /\ Failures \subseteq {"eof", "error", "bad", "cert"}
  /\ Timeouts \in BOOLEAN
  /\ Signals \in BOOLEAN

VARIABLES wire,    \* for each connection, the units its peer has received
          last,    \* for each connection, the last unit its peer has sent
          signal   \* the process has received its signal

peers == <<wire, last>>
vars == <<queue, pending, conn, managed, ctx, fault, wire, last, signal>>

\* The state the accept handler leaves: it has added the connection to the
\* client manager and called start(), which has begun to read.
Init ==
  /\ queue = << >>
  /\ pending = {[op |-> "read", conn |-> Client, data |-> << >>]}
  /\ conn = [c \in Conns |-> [NewConnection EXCEPT !.connected = (c = Client)]]
  /\ managed = {Client}
  /\ ctx = NewContext
  /\ fault = "none"
  /\ wire = [c \in Conns |-> << >>]
  /\ last = [c \in Conns |-> <<0, InLen(c)>>]
  /\ signal = FALSE

-----------------------------------------------------------------------------
(* Handlers.  Self, Result and Data are the bound arguments of the one at   *)
(* the head of the queue.                                                   *)
Self == Head(queue).conn
Result == Head(queue).res
Data == Head(queue).data

Handle(m) == Become(m) /\ UNCHANGED <<wire, last, signal>>

\* A task that captured `this' runs whether or not the object still exists.
HandleEvent(m) == Handle(IF Alive(Self) THEN m ELSE Abort(World, "freed_this"))

OnTimer == Running("wait") /\ Handle(on_timer(Popped, Self, Result))

OnWrite == Running("write") /\ Handle(on_write(Popped, Self, Result, Data))

ClientOnRead ==
  Running("read") /\ Self = Client /\ Handle(client_on_read(Popped, Result, Data))

ClientOnHandshake ==
  Running("handshake") /\ Self = Client /\ Handle(client_on_handshake(Popped, Result))

OnResolve == Running("resolve") /\ Handle(on_resolve(Popped, Self, Result))

OnConnect == Running("connect") /\ Handle(on_connect(Popped, Self, Result))

ServerOnRead ==
  Running("read") /\ Self # Client /\ Handle(server_on_read(Popped, Self, Result, Data))

ServerOnHandshake ==
  Running("handshake") /\ Self # Client /\ Handle(server_on_handshake(Popped, Self, Result))

\* MaxServers bounds the server connections, as MaxRequests does already: each
\* request opens one at most.
ClientRead ==
  /\ Running("READ") /\ Self = Client
  /\ LockServer \/ ctx.server < MaxServers
  /\ \E connect \in {FALSE, Https}, destination \in Destinations :
       HandleEvent(on_client_message(Popped, connect, destination))

ServerRead ==
  /\ Running("READ") /\ Self # Client
  /\ \E keep_alive \in BOOLEAN : HandleEvent(on_server_message(Popped, Self, keep_alive))

ClientWritten ==
  /\ Running("WRITE")
  /\ \E keep_alive \in BOOLEAN, certified \in {TRUE, "cert" \notin Failures} :
       HandleEvent(on_client_written(Popped, keep_alive, certified))

ClientSecured ==
  Running("HANDSHAKE") /\ Self = Client /\ HandleEvent(on_client_secured(Popped))

ServerConnected == Running("CONNECT") /\ HandleEvent(on_server_connected(Popped, Self))

ServerSecured ==
  Running("HANDSHAKE") /\ Self # Client /\ HandleEvent(on_server_secured(Popped, Self))

OnStop == Running("on_stop") /\ Handle(on_stop(Popped, Self))

\* Mutant of StopAll: the server connections are not stopped.
StopAll_clients ==
  /\ Running("stop_all")
  /\ Handle(IF Client \in managed THEN stop(Popped, Client, FALSE) ELSE Popped)

\* The signal handler of server.cpp: connection_manager::stop_all for the
\* clients, then for the servers.  The current server connection is the only
\* one that can be managed (OneServerConnection), and detached connections
\* do not erase themselves, which clear() makes up for.
StopAll ==
  LET stopped == IF Client \in managed THEN stop(Popped, Client, FALSE) ELSE Popped
      all == IF ctx.server \in managed THEN stop(stopped, ctx.server, FALSE) ELSE stopped
  IN  Running("stop_all") /\ Handle([all EXCEPT !.managed = {}])

RunHandler ==
  \/ OnTimer \/ OnWrite \/ OnResolve \/ OnConnect
  \/ ClientOnRead \/ ClientOnHandshake \/ ServerOnRead \/ ServerOnHandshake
  \/ ClientRead \/ ServerRead \/ ClientWritten \/ ClientSecured
  \/ ServerConnected \/ ServerSecured \/ OnStop \/ StopAll

-----------------------------------------------------------------------------
(* The environment: operations complete.                                    *)
Complete(p, res, data) ==
  /\ fault = "none"
  /\ pending' = pending \ {p}
  /\ queue' = Append(queue, Completion(p.op, p.conn, res, data))
  /\ UNCHANGED <<conn, managed, ctx, fault, signal>>

\* The next n units of part i + 1 onwards of message r.
Units(r, i, n) == [j \in 1..n |-> <<r, i + j>>]

\* A read returns the next units of the message the peer is sending; none if
\* the bytes that came do not complete a unit.
Sends(p, r, i, n) ==
  /\ Complete(p, "ok", Units(r, i, n))
  /\ last' = IF n = 0 THEN last ELSE [last EXCEPT ![p.conn] = <<r, i + n>>]
  /\ UNCHANGED wire

\* The client continues a request, or starts the next one.
ClientSends(p, n) ==
  LET more == last[Client][2] < ReqLen
      r == IF more THEN last[Client][1] ELSE last[Client][1] + 1
      i == IF more THEN last[Client][2] ELSE 0
  IN  /\ p.op = "read" /\ p.conn = Client
      /\ r <= MaxRequests
      /\ i + n <= ReqLen
      /\ Sends(p, r, i, n)

\* A server answers the last request it has received in full.  Unless
\* responses are split, the proxy has all of one when its headers are complete.
ServerSends(p, n) ==
  LET received == wire[p.conn][Len(wire[p.conn])]
      r == received[1]
      i == IF last[p.conn][1] = r THEN last[p.conn][2] ELSE 0
  IN  /\ p.op = "read" /\ p.conn # Client
      /\ wire[p.conn] # << >>
      /\ received[2] = ReqLen
      /\ i < RespLen /\ i + n <= RespLen
      /\ Split \/ n \in {0, RespLen}
      /\ Sends(p, r, i, n)

\* The kernel takes the first n units of the buffer a write was started with.
\* If reset() has freed that buffer, the bytes it reads are anything.
Dangling(p) == conn[p.conn].out = << >> \/ Head(conn[p.conn].out) # p.data

PeerReceives(p, n) ==
  /\ p.op = "write"
  /\ n <= Len(p.data)
  /\ IF Dangling(p)
     THEN Become(Abort(World, "freed_buffer")) /\ UNCHANGED <<wire, last, signal>>
     ELSE /\ Complete(p, "ok", SubSeq(p.data, 1, n))
          /\ wire' = [wire EXCEPT ![p.conn] = @ \o SubSeq(p.data, 1, n)]
          /\ UNCHANGED last

\* Name resolution, TCP connect and TLS handshake succeed.
Succeeds(p) ==
  p.op \in {"resolve", "connect", "handshake"} /\ Complete(p, "ok", << >>) /\ UNCHANGED peers

Fails(p) ==
  "error" \in Failures /\ p.op # "wait" /\ Complete(p, "error", << >>) /\ UNCHANGED peers

\* The peer closes its side, or sends what is not HTTP.
Closes(p) == "eof" \in Failures /\ p.op = "read" /\ Complete(p, "eof", << >>) /\ UNCHANGED peers
SendsJunk(p) == "bad" \in Failures /\ p.op = "read" /\ Complete(p, "bad", << >>) /\ UNCHANGED peers

TimerExpires(p) == Timeouts /\ p.op = "wait" /\ Complete(p, "ok", << >>) /\ UNCHANGED peers

SignalArrives ==
  /\ Signals /\ ~signal /\ fault = "none"
  /\ signal' = TRUE
  /\ queue' = Append(queue, Task("stop_all", Client))
  /\ UNCHANGED <<pending, conn, managed, ctx, fault, wire, last>>

Environment ==
  \/ SignalArrives
  \/ \E p \in pending :
       \/ \E n \in 0..ReqLen : ClientSends(p, n)
       \/ \E n \in 0..RespLen : ServerSends(p, n)
       \/ \E n \in 1..Len(p.data) : PeerReceives(p, n)
       \/ Succeeds(p) \/ Fails(p) \/ Closes(p) \/ SendsJunk(p) \/ TimerExpires(p)

\* Nothing is ready and the loop waits in the kernel, where the acceptor keeps
\* it; or the process has ended.
Waits == (queue = << >> \/ fault # "none") /\ UNCHANGED vars

Next == RunHandler \/ Environment \/ Waits
Spec == Init /\ [][Next]_vars

\* The io_service runs every ready handler.  Peers that are there and willing
\* take what they are sent, resolve, connect, and answer; a message is finite,
\* so reads that complete no unit do not go on for ever.
LoopFairness == WF_vars(RunHandler)
PeerFairness ==
  /\ WF_vars(\E p \in pending : Succeeds(p))
  /\ WF_vars(\E p \in pending, n \in 1..(ReqLen + RespLen) : PeerReceives(p, n))
  /\ \A s \in Servers :
       SF_vars(\E p \in pending, n \in 1..RespLen : p.conn = s /\ ServerSends(p, n))
TimerFairness == WF_vars(\E p \in pending : TimerExpires(p))

FairSpec == Spec /\ LoopFairness /\ PeerFairness
TimedSpec == FairSpec /\ TimerFairness

-----------------------------------------------------------------------------
(* Properties.                                                              *)

\* A connection object exists: the client from the start, each server
\* connection once on_client_message has made it.
Created(c) == c <= ctx.server

Handlers == [fn : Operations \cup Tasks, conn : Conns, res : Results, data : Seq(Unit)]
PendingOps == [op : Operations, conn : Conns, data : Seq(Unit)]
Connections ==
  [connected : BOOLEAN, stopped : BOOLEAN, writing : BOOLEAN, running : BOOLEAN,
   use_ssl : BOOLEAN, message : Seq(Unit), encoded : Nat, out : Seq(Seq(Unit))]
Contexts == [https : BOOLEAN, ssl_setup : BOOLEAN, exchanged : BOOLEAN, server : Conns]
Faults ==
  {"none", "freed_this", "freed_buffer", "end_iterator", "encode_underflow",
   "read_assert", "write_assert", "ssl_twice", "no_certificate", "request_assert",
   "host_assert", "client_assert", "server_assert", "decode_assert"}

\* Every variable has its type.
TypeOK ==
  /\ queue \in Seq(Handlers)
  /\ pending \in SUBSET PendingOps
  /\ conn \in [Conns -> Connections]
  /\ managed \in SUBSET Conns
  /\ ctx \in Contexts
  /\ fault \in Faults
  /\ wire \in [Conns -> Seq(Unit)]
  /\ last \in [Conns -> Unit]
  /\ signal \in BOOLEAN

\* The connection managers hold exactly the connections that exist and have
\* not been stopped, so stop_all() reaches each of them and none is kept
\* alive by its manager after stop().
ManagedExact == \A c \in Conns : c \in managed <=> Created(c) /\ ~conn[c].stopped

\* A session never has two server connections that are not stopped: the
\* context opens another only when the weak_ptr to the last one has expired,
\* and that one was stopped before it could expire.
OneServerConnection ==
  \A s \in Servers : Created(s) /\ ~conn[s].stopped => s = ctx.server

Waiting(c) == {p \in pending : p.op = "wait" /\ p.conn = c}
QueuedFor(c, fn) == {i \in 1..Len(queue) : queue[i].fn = fn /\ queue[i].conn = c}

\* timer::running_ says that exactly one handler of the timer is still to run,
\* so `if (running_) return' in timer::start never starts a second wait and
\* cancel() never misses one.
TimerFlag ==
  \A c \in Conns :
    Cardinality(Waiting(c)) + Cardinality(QueuedFor(c, "wait"))
      = IF conn[c].running THEN 1 ELSE 0

\* A connection has at most one read in progress, so buffer_in_ is never
\* filled by one read while the data of another is still to be decoded.
OneRead ==
  \A c \in Conns :
    Cardinality({p \in pending : p.op = "read" /\ p.conn = c})
      + Cardinality(QueuedFor(c, "read")) <= 1

Before(u, v) == u[1] < v[1] \/ (u[1] = v[1] /\ u[2] < v[2])
Increasing(units) == \A i, j \in 1..Len(units) : i < j => Before(units[i], units[j])

\* No part of a request is sent twice, to one server or to two, and requests
\* leave in the order in which they came.
RequestForwardedOnce ==
  /\ \A s \in Servers : Increasing(wire[s])
  /\ \A s, t \in Servers : s < t =>
       \A i \in 1..Len(wire[s]), j \in 1..Len(wire[t]) : wire[s][i][1] < wire[t][j][1]

\* What the client receives is never repeated or out of order: the answer to
\* CONNECT comes first and once, and the parts of responses follow in order.
ResponseOrdered == Increasing(wire[Client])

\* Nothing of a response is lost in the middle: each response is delivered
\* from its first part, and to its last part before the next one starts.
ResponseWhole ==
  \A i \in 1..Len(wire[Client]) :
    LET u == wire[Client][i]
        v == wire[Client][i - 1]
    IN  IF u[2] <= 1 THEN i = 1 \/ v[2] \in {0, RespLen}
        ELSE i > 1 /\ v = <<u[1], u[2] - 1>>

\* A client connection that waits for its next request has delivered the
\* whole of the last response: the log line of on_event(WRITE) says "response
\* completed, keep client connection alive".
KeptAliveAfterResponse ==
  LET c == conn[Client] IN
  fault = "none" /\ ~c.stopped /\ c.message = << >> /\ wire[Client] # << >> =>
    wire[Client][Len(wire[Client])][2] \in {0, RespLen}

\* Once the session is an https one, requests leave only through a server
\* connection whose TLS handshake is over, and responses likewise reach the
\* client only after the client's own handshake.
TlsBeforeData ==
  \A p \in pending :
    p.op = "write" /\ p.data[1][2] # 0 /\ ctx.https =>
      /\ conn[p.conn].use_ssl
      /\ ~\E q \in pending : q.op = "handshake" /\ q.conn = p.conn
      /\ ctx.ssl_setup

\* Assertions and undefined behaviour that no failure of a peer, timeout or
\* signal leads to: a request that is handed on is complete, the encoder is
\* never ahead of the message it encodes, no socket is switched to TLS twice.
NeverAsserted == fault \notin {"request_assert", "encode_underflow", "ssl_twice"}

\* The context learns of a stop in time: unless the process was signalled, both
\* connections are still there when it hands on a message, and it reads from or
\* writes to one that is stopped (the client by its response timer) only while
\* the on_stop task that tells it so is queued.
StopWindow ==
  /\ fault \in {"client_assert", "server_assert"} => signal
  /\ fault \in {"read_assert", "write_assert"} =>
       signal \/ \E i \in 1..Len(queue) : queue[i].fn = "on_stop"

\* The process never ends by a failed assertion or an access to freed memory.
NoFault == fault = "none"

\* A buffer handed to async_write_some stays at the front of buffer_out_ until
\* the operation completes.
BufferHeld == \A p \in pending : p.op = "write" => ~Dangling(p)

\* A connection that has not been stopped has a handler to run or an operation
\* to wait for; otherwise it would stay in its manager for ever.
NeverStranded ==
  fault = "none" /\ queue = << >> /\ pending = {} => managed = {}

\* A stopped connection starts no operation and is never started again.
StoppedIsFinal ==
  [][\A c \in Conns : conn[c].stopped =>
       /\ conn'[c].stopped
       /\ \A p \in pending' : p.conn = c => p \in pending]_vars

\* While a complete request waits for the first part of its response, a timer
\* will put an end to the waiting: "server response waiting timed out."
ResponseTimerArmed ==
  LET c == conn[Client] IN
  /\ fault = "none" /\ ~c.stopped
  /\ c.message # << >> /\ Completed(World, Client) /\ c.encoded = 0
  => Waiting(Client) # {} \/ \E i \in QueuedFor(Client, "wait") : queue[i].res = "ok"

\* Stopping the client connection stops the server connection.
StopPropagates == conn[Client].stopped ~> (fault # "none" \/ managed = {})

\* Every request is answered in full, or the client connection is closed.
Asked(r) == last[Client][1] > r \/ last[Client] = <<r, ReqLen>>
Answered(r) == \E i \in 1..Len(wire[Client]) :
                 wire[Client][i] \in {<<r, RespLen>>, SslReply(r)}
RequestAnswered ==
  \A r \in 1..MaxRequests : Asked(r) ~> Answered(r) \/ conn[Client].stopped

\* After a signal everything the session holds is released.
ShutdownCompletes == signal ~> (fault # "none" \/ (managed = {} /\ pending = {}))
=============================================================================
