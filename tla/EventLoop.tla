----------------------------- MODULE EventLoop -----------------------------
(***************************************************************************)
(* The io_service every part of xproxy runs on, seen from one session: one *)
(* client connection, its connection_context, and the server connections   *)
(* the context opens for it, one after the other.                          *)
(*                                                                         *)
(* main() calls service_.run() from a single thread, so handlers never     *)
(* overlap: `queue' is the FIFO of handlers that are ready to run and      *)
(* `pending' the set of asynchronous operations that have been started and *)
(* have not completed.  A completed operation, a cancelled operation and a *)
(* posted task all join the tail of the queue.                             *)
(*                                                                         *)
(* The methods of the C++ classes are operators from a world (the record   *)
(* of the state a handler can change) to a world, because a handler calls  *)
(* methods of several objects in sequence; an action of the specification  *)
(* is one whole handler, `Become(method(World, ...))'.                     *)
(***************************************************************************)
EXTENDS Naturals, Sequences, FiniteSets

CONSTANTS MaxServers,   \* bound: server connections one session may open
          ReqLen,       \* units in a request
          RespLen       \* units in a response

ASSUME SizesAssumption == /\ MaxServers \in Nat \ {0}
                          /\ ReqLen \in Nat \ {0}
                          /\ RespLen \in Nat \ {0}

VARIABLES queue,     \* handlers ready to run, in the order they will run
          pending,   \* asynchronous operations in progress
          conn,      \* the connection objects
          managed,   \* connections held by the connection managers
          ctx,       \* the connection_context
          fault      \* "none", or what ended the process

Client == 0
Conns == 0..MaxServers
Servers == 1..MaxServers

\* A message is a sequence of units; unit <<r, i>> is the i-th part of
\* request r or of the response to it.  SslReply(r) is the proxy's own answer
\* to a request r that is a CONNECT, http_response::SSL_REPLY.
Unit == Nat \X Nat
SslReply(r) == <<r, 0>>

Operations == {"wait", "read", "write", "resolve", "connect", "handshake"}
\* Lambdas that capture a bare `this': they do not keep the connection alive.
Events == {"READ", "WRITE", "CONNECT", "HANDSHAKE"}
Tasks == Events \cup {"on_stop", "stop_all"}
Results == {"ok", "eof", "error", "bad"}

Completion(op, c, res, data) == [fn |-> op, conn |-> c, res |-> res, data |-> data]
Task(fn, c) == [fn |-> fn, conn |-> c, res |-> "ok", data |-> << >>]

World == [queue |-> queue, pending |-> pending, conn |-> conn,
          managed |-> managed, ctx |-> ctx, fault |-> fault]

\* The world at the start of the handler at the head of the queue.
Popped == [World EXCEPT !.queue = Tail(@)]

\* The handler at the head of the queue is `fn', and it may run.
Running(fn) == fault = "none" /\ queue # << >> /\ Head(queue).fn = fn

\* A failed assertion or an access to freed memory ends the process where it
\* happens; what the handler would have done afterwards is not observed.
Abort(m, f) == IF m.fault = "none" THEN [m EXCEPT !.fault = f] ELSE m

Become(m) ==
  /\ fault' = m.fault
  /\ IF m.fault = "none"
     THEN /\ queue' = m.queue
          /\ pending' = m.pending
          /\ conn' = m.conn
          /\ managed' = m.managed
          /\ ctx' = m.ctx
     ELSE UNCHANGED <<queue, pending, conn, managed, ctx>>

\* io_service::post
Post(m, task) == [m EXCEPT !.queue = Append(@, task)]

\* A call of an async_* function.
Begin(m, op, c, data) ==
  [m EXCEPT !.pending = @ \cup {[op |-> op, conn |-> c, data |-> data]}]

\* Cancelling an operation queues its handler with operation_aborted.  A
\* handler that is already queued with success is out of its reach.
Cancel(m, op, c) ==
  IF \E p \in m.pending : p.op = op /\ p.conn = c
  THEN [m EXCEPT !.pending = {p \in @ : ~(p.op = op /\ p.conn = c)},
                 !.queue = Append(@, Completion(op, c, "error", << >>))]
  ELSE m

\* The shared_ptrs to c: the manager's, and the ones bound into operations,
\* queued completions and the queued on_stop task.
Alive(c) == \/ c \in managed
            \/ \E p \in pending : p.conn = c
            \/ \E i \in 1..Len(queue) :
                 queue[i].conn = c /\ queue[i].fn \in Operations \cup {"on_stop"}

\* weak_ptr::lock() on server_conn_; 0 stands for a weak_ptr never set.
LockServer == ctx.server \in Servers /\ Alive(ctx.server)
=============================================================================
