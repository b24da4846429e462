--------------------------- MODULE SessionProofs ---------------------------
(***************************************************************************)
(* Theorems about Session for every value of its constants.                *)
(*                                                                         *)
(* The invariant is a predicate Good of a world, so that it can be carried *)
(* through the methods a handler calls: one lemma per method says that it  *)
(* takes a good world to a good one.                                       *)
(***************************************************************************)
EXTENDS Session, SequenceTheorems, TLAPS

\* Handlers and operations of the connections that exist.
HandlersUpTo(n) == [fn : Operations \cup Tasks, conn : 0..n, res : Results, data : Seq(Unit)]
OpsUpTo(n) == [op : Operations, conn : 0..n, data : Seq(Unit)]

Worlds == [queue : Seq(Handlers), pending : SUBSET PendingOps,
           conn : [Conns -> Connections], managed : SUBSET Conns,
           ctx : Contexts, fault : Faults]

\* Nothing refers to a server connection that has not been made yet.
Known(m) == /\ m.queue \in Seq(HandlersUpTo(m.ctx.server))
            /\ m.pending \subseteq OpsUpTo(m.ctx.server)

\* The managers hold the connections that exist and are not stopped.
Registered(m) ==
  \A c \in Conns : c \in m.managed <=> c <= m.ctx.server /\ ~m.conn[c].stopped

\* Every server connection before the current one is stopped, none after it.
Replaced(m) ==
  \A s \in Servers : /\ s < m.ctx.server => m.conn[s].stopped
                     /\ s > m.ctx.server => ~m.conn[s].stopped

Good(m) == m \in Worlds /\ Known(m) /\ Registered(m) /\ Replaced(m)

USE SizesAssumption DEF Conns, Servers, Client


LEMMA ServerType ==
  ASSUME NEW m, Good(m)
  PROVE  /\ m.ctx.server \in Conns
         /\ 0..m.ctx.server \subseteq Conns
         /\ HandlersUpTo(m.ctx.server) \subseteq Handlers
         /\ OpsUpTo(m.ctx.server) \subseteq PendingOps
<1>1. m.ctx.server \in Conns
  BY DEF Good, Worlds, Contexts
<1>2. 0..m.ctx.server \subseteq Conns
  BY <1>1
<1> QED
  BY <1>1, <1>2 DEF HandlersUpTo, Handlers, OpsUpTo, PendingOps

\* A change of queue, pending, fault and of connections other than their
\* stopped_ keeps a world good if it brings in no unknown connection.
LEMMA GoodFields ==
  ASSUME NEW m, Good(m), NEW w, w \in Worlds,
         w.ctx.server = m.ctx.server, w.managed = m.managed,
         \A c \in Conns : w.conn[c].stopped = m.conn[c].stopped,
         w.queue \in Seq(HandlersUpTo(m.ctx.server)),
         w.pending \subseteq OpsUpTo(m.ctx.server)
  PROVE  Good(w)
<1>1. Known(w)
  BY DEF Known
<1>2. Registered(w)
  BY DEF Good, Registered
<1>3. Replaced(w)
  BY DEF Good, Replaced
<1> QED
  BY <1>1, <1>2, <1>3 DEF Good

\* What a method that stops no connection does to the invariant.
Quiet(m, w) == /\ Good(w)
               /\ w.ctx.server = m.ctx.server
               /\ \A k \in Conns : w.conn[k].stopped = m.conn[k].stopped

LEMMA QuietTrans ==
  ASSUME NEW m, NEW v, NEW w, Quiet(m, v), Quiet(v, w)
  PROVE  Quiet(m, w)
BY DEF Quiet

LEMMA QuietRefl ==
  ASSUME NEW m, Good(m)
  PROVE  Quiet(m, m)
BY DEF Quiet

LEMMA BeginQuiet ==
  ASSUME NEW m, Good(m), NEW c \in 0..m.ctx.server, NEW op \in Operations, NEW d \in Seq(Unit)
  PROVE  Quiet(m, Begin(m, op, c, d))
<1> DEFINE p == [op |-> op, conn |-> c, data |-> d]
           w == [m EXCEPT !.pending = @ \cup {p}]
<1>1. p \in OpsUpTo(m.ctx.server)
  BY DEF OpsUpTo
<1>2. p \in PendingOps
  BY <1>1, ServerType
<1>3. Begin(m, op, c, d) = w
  BY DEF Begin
<1> HIDE DEF p
<1>4. w \in Worlds
  BY <1>2 DEF Good, Worlds
<1>5. /\ w.pending = m.pending \cup {p} /\ w.queue = m.queue
      /\ w.conn = m.conn /\ w.ctx = m.ctx /\ w.managed = m.managed
  BY DEF Good, Worlds
<1> HIDE DEF w
<1>6. /\ m.queue \in Seq(HandlersUpTo(m.ctx.server))
      /\ m.pending \cup {p} \subseteq OpsUpTo(m.ctx.server)
  BY <1>1 DEF Good, Known
<1> QED
  BY <1>3, <1>4, <1>5, <1>6, GoodFields DEF Quiet

LEMMA BeginNoData ==
  ASSUME NEW m, Good(m), NEW c \in 0..m.ctx.server, NEW op \in Operations
  PROVE  Quiet(m, Begin(m, op, c, << >>))
<1>1. << >> \in Seq(Unit)
  OBVIOUS
<1> QED
  BY <1>1, BeginQuiet

LEMMA PostQuiet ==
  ASSUME NEW m, Good(m), NEW h \in HandlersUpTo(m.ctx.server)
  PROVE  Quiet(m, Post(m, h))
<1> DEFINE w == [m EXCEPT !.queue = Append(@, h)]
<1>1. h \in Handlers /\ m.queue \in Seq(Handlers)
  BY ServerType DEF Good, Worlds
<1> DEFINE q == Append(m.queue, h)
<1>q. q \in Seq(Handlers)
  BY <1>1
<1> HIDE DEF q
<1>2. [m EXCEPT !.queue = q] \in Worlds
  BY <1>q DEF Good, Worlds
<1>w. w \in Worlds
  BY <1>2 DEF q
<1>3. /\ w.queue = Append(m.queue, h) /\ w.pending = m.pending
      /\ w.conn = m.conn /\ w.ctx = m.ctx /\ w.managed = m.managed
  BY DEF Good, Worlds
<1>4. Post(m, h) = w
  BY DEF Post
<1> HIDE DEF w
<1>5. /\ Append(m.queue, h) \in Seq(HandlersUpTo(m.ctx.server))
      /\ m.pending \subseteq OpsUpTo(m.ctx.server)
  BY DEF Good, Known
<1> QED
  BY <1>w, <1>3, <1>4, <1>5, GoodFields DEF Quiet

LEMMA AbortQuiet ==
  ASSUME NEW m, Good(m), NEW f \in Faults
  PROVE  Quiet(m, Abort(m, f))
<1> DEFINE w == [m EXCEPT !.fault = f]
<1>1. w \in Worlds
  BY DEF Good, Worlds
<1>2. /\ w.queue = m.queue /\ w.pending = m.pending
      /\ w.conn = m.conn /\ w.ctx = m.ctx /\ w.managed = m.managed
  BY DEF Good, Worlds
<1>3. Abort(m, f) = m \/ Abort(m, f) = w
  BY DEF Abort
<1> HIDE DEF w
<1> QED
  BY <1>1, <1>2, <1>3, GoodFields, QuietRefl DEF Quiet, Good, Known

\* A change of fields of one connection, stopped_ excepted.
LEMMA SetConn ==
  ASSUME NEW m, Good(m), NEW c \in Conns, NEW r \in Connections, r.stopped = m.conn[c].stopped
  PROVE  Quiet(m, [m EXCEPT !.conn[c] = r])
<1> DEFINE w == [m EXCEPT !.conn[c] = r]
<1>1. w \in Worlds
  BY DEF Good, Worlds
<1>2. /\ w.queue = m.queue /\ w.pending = m.pending
      /\ w.conn = [m.conn EXCEPT ![c] = r] /\ w.ctx = m.ctx /\ w.managed = m.managed
  BY DEF Good, Worlds
<1>3. m.conn \in [Conns -> Connections]
  BY DEF Good, Worlds
<1> HIDE DEF w
<1>4. \A k \in Conns : w.conn[k].stopped = m.conn[k].stopped
  BY <1>2, <1>3
<1>5. Good(w)
  BY <1>1, <1>2, <1>4, GoodFields DEF Good, Known
<1> QED
  BY <1>2, <1>4, <1>5 DEF Quiet, w

LEMMA TaskType ==
  ASSUME NEW m, Good(m), NEW c \in 0..m.ctx.server, NEW fn \in Tasks
  PROVE  Task(fn, c) \in HandlersUpTo(m.ctx.server)
BY DEF Task, HandlersUpTo, Results

LEMMA CancelQuiet ==
  ASSUME NEW m, Good(m), NEW c \in 0..m.ctx.server, NEW op \in Operations
  PROVE  Quiet(m, Cancel(m, op, c))
<1> DEFINE h == Completion(op, c, "error", << >>)
           P == {p \in m.pending : ~(p.op = op /\ p.conn = c)}
           v == [m EXCEPT !.pending = P]
<1>1. h \in HandlersUpTo(m.ctx.server)
  BY DEF Completion, HandlersUpTo, Results
<1>2. P \subseteq m.pending
  OBVIOUS
<1>3. Cancel(m, op, c) = m \/ Cancel(m, op, c) = Post(v, h)
  BY DEF Cancel, Post, Good, Worlds
<1> HIDE DEF h, P
<1>4. v \in Worlds
  BY <1>2 DEF Good, Worlds
<1>5. /\ v.queue = m.queue /\ v.pending = P
      /\ v.conn = m.conn /\ v.ctx = m.ctx /\ v.managed = m.managed
  BY DEF Good, Worlds
<1> HIDE DEF v
<1>6. Good(v)
  BY <1>2, <1>4, <1>5, GoodFields DEF Good, Known
<1>7. Quiet(m, v)
  BY <1>5, <1>6 DEF Quiet
<1>8. Quiet(v, Post(v, h))
  BY <1>1, <1>5, <1>6, PostQuiet
<1> QED
  BY <1>3, <1>7, <1>8, QuietTrans, QuietRefl

LEMMA ConnType ==
  ASSUME NEW m, Good(m), NEW c \in Conns
  PROVE  m.conn[c] \in Connections
BY DEF Good, Worlds

LEMMA TimerStartQuiet ==
  ASSUME NEW m, Good(m), NEW c \in 0..m.ctx.server
  PROVE  Quiet(m, timer_start(m, c))
<1> DEFINE r == [m.conn[c] EXCEPT !.running = TRUE]
           v == [m EXCEPT !.conn[c] = r]
<1>1. c \in Conns
  BY ServerType
<1>2. r \in Connections /\ r.stopped = m.conn[c].stopped
  BY <1>1, ConnType DEF Connections
<1>3. timer_start(m, c) = m \/ timer_start(m, c) = Begin(v, "wait", c, << >>)
  BY DEF timer_start
<1> HIDE DEF r
<1>4. Quiet(m, v)
  BY <1>1, <1>2, SetConn
<1> HIDE DEF v
<1>5. Quiet(v, Begin(v, "wait", c, << >>))
  BY <1>4, BeginNoData DEF Quiet, Operations
<1> QED
  BY <1>3, <1>4, <1>5, QuietTrans, QuietRefl

LEMMA CancelTimerQuiet ==
  ASSUME NEW m, Good(m), NEW c \in 0..m.ctx.server
  PROVE  Quiet(m, cancel_timer(m, c))
BY CancelQuiet, QuietRefl DEF cancel_timer, Operations

LEMMA CloseQuiet ==
  ASSUME NEW m, Good(m), NEW c \in 0..m.ctx.server
  PROVE  Quiet(m, close(m, c))
<1> DEFINE m1 == Cancel(m, "read", c)
           m2 == Cancel(m1, "write", c)
           m3 == Cancel(m2, "handshake", c)
           m4 == Cancel(m3, "connect", c)
<1>0. close(m, c) = m4
  BY DEF close
<1>1. Quiet(m, m1)
  BY CancelQuiet DEF Operations
<1> HIDE DEF m1
<1>2. Quiet(m, m2)
  BY <1>1, CancelQuiet, QuietTrans DEF Operations, Quiet
<1> HIDE DEF m2
<1>3. Quiet(m, m3)
  BY <1>2, CancelQuiet, QuietTrans DEF Operations, Quiet
<1> HIDE DEF m3
<1>4. Quiet(m, m4)
  BY <1>3, CancelQuiet, QuietTrans DEF Operations, Quiet
<1> QED
  BY <1>0, <1>4

\* What a method that may stop connection c does to the invariant.
Stops(m, w, c) == /\ Good(w)
                  /\ w.ctx.server = m.ctx.server
                  /\ w.conn[c].stopped
                  /\ \A k \in Conns \ {c} : w.conn[k].stopped = m.conn[k].stopped

LEMMA StopStops ==
  ASSUME NEW m, Good(m), NEW c \in 0..m.ctx.server, NEW notify \in BOOLEAN
  PROVE  Stops(m, stop(m, c, notify), c)
<1> DEFINE m1 == cancel_timer(m, c)
           m2 == IF m.conn[c].connected THEN close(m1, c) ELSE m1
           m3 == IF notify THEN Post(m2, Task("on_stop", c)) ELSE m2
           r == [m3.conn[c] EXCEPT !.connected = FALSE, !.stopped = TRUE]
           w == [m3 EXCEPT !.conn[c] = r, !.managed = @ \ {c}]
<1>0. c \in Conns
  BY ServerType
<1>1. CASE m.conn[c].stopped
  BY <1>0, <1>1 DEF stop, Stops
<1>2. CASE ~m.conn[c].stopped
  <2>1. Quiet(m, m1)
    BY CancelTimerQuiet
  <2> HIDE DEF m1
  <2>2. Quiet(m, m2)
    BY <2>1, CloseQuiet, QuietTrans DEF Quiet
  <2> HIDE DEF m2
  <2>3. Quiet(m, m3)
    BY <2>2, TaskType, PostQuiet, QuietTrans DEF Quiet, Tasks
  <2>4. stop(m, c, notify) = erase([m3 EXCEPT !.conn[c].connected = FALSE, !.conn[c].stopped = TRUE], c)
    BY <1>2 DEF stop, m1, m2
  <2> HIDE DEF m3
  <2>5. m3 \in Worlds /\ m3.conn[c] \in Connections
    BY <1>0, <2>3, ConnType DEF Quiet, Good
  <2>6. stop(m, c, notify) = w
    BY <1>0, <2>4, <2>5 DEF erase, Worlds
  <2>7. r \in Connections /\ r.stopped
    BY <2>5 DEF Connections
  <2> HIDE DEF r
  <2>8. w \in Worlds
    BY <1>0, <2>5, <2>7 DEF Worlds
  <2>9. /\ w.queue = m3.queue /\ w.pending = m3.pending /\ w.ctx = m3.ctx
        /\ w.conn = [m3.conn EXCEPT ![c] = r] /\ w.managed = m3.managed \ {c}
    BY <2>5 DEF Worlds
  <2>10. m3.conn \in [Conns -> Connections]
    BY <2>5 DEF Worlds
  <2> HIDE DEF w
  <2>11. w.conn[c].stopped /\ \A k \in Conns \ {c} : w.conn[k].stopped = m3.conn[k].stopped
    BY <1>0, <2>7, <2>9, <2>10
  <2>12. Known(w)
    BY <2>3, <2>9 DEF Known, Quiet, Good
  <2>13. Registered(w)
    BY <1>0, <2>3, <2>9, <2>11 DEF Registered, Quiet, Good
  <2>14. c = Client \/ c = m.ctx.server
    BY <1>2, <1>0, ServerType DEF Good, Replaced
  <2>15. Replaced(w)
    BY <1>0, <2>3, <2>9, <2>11, <2>14, ServerType DEF Replaced, Quiet, Good
  <2> QED
    BY <2>3, <2>6, <2>8, <2>9, <2>11, <2>12, <2>13, <2>15 DEF Stops, Quiet, Good
<1> QED
  BY <1>1, <1>2

LEMMA ReadQuiet ==
  ASSUME NEW m, Good(m), NEW c \in 0..m.ctx.server
  PROVE  Quiet(m, read(m, c))
BY BeginNoData, AbortQuiet DEF read, Operations, Faults

LEMMA StartQuiet ==
  ASSUME NEW m, Good(m), NEW c \in {Client, m.ctx.server}
  PROVE  Quiet(m, start(m, c))
<1>0. c \in Conns /\ c \in 0..m.ctx.server
  BY ServerType
<1>1. CASE c = Client
  <2> DEFINE r == [m.conn[c] EXCEPT !.connected = TRUE]
             v == [m EXCEPT !.conn[c] = r]
  <2>0. m.conn[c] \in Connections
    BY <1>0, ConnType
  <2>1. r \in Connections /\ r.stopped = m.conn[c].stopped
    BY <2>0 DEF Connections
  <2>2. start(m, c) = read(v, c)
    BY <1>1 DEF start
  <2> HIDE DEF r
  <2>3. Quiet(m, v)
    BY <1>0, <2>1, SetConn
  <2> HIDE DEF v
  <2> QED
    BY <1>0, <2>2, <2>3, ReadQuiet, QuietTrans DEF Quiet
<1>2. CASE c # Client
  <2> DEFINE v == [m EXCEPT !.ctx.server = c]
  <2>1. v = m
    BY <1>2 DEF Good, Worlds, Contexts
  <2>2. start(m, c) = Begin(m, "resolve", c, << >>)
    BY <1>2, <2>1 DEF start
  <2> QED
    BY <1>0, <2>2, BeginNoData DEF Operations
<1> QED
  BY <1>1, <1>2

\* A connection that exists and is not stopped is the client or the current
\* server connection, so a write to it opens no connection.
LEMMA DoWriteQuiet ==
  ASSUME NEW m, Good(m), NEW c \in 0..m.ctx.server, ~m.conn[c].stopped
  PROVE  Quiet(m, do_write(m, c))
<1> DEFINE r == [m.conn[c] EXCEPT !.writing = TRUE]
           v == [m EXCEPT !.conn[c] = r]
           d == Head(m.conn[c].out)
<1>0. c \in Conns
  BY ServerType
<1>1. m.conn[c] \in Connections
  BY <1>0, ConnType
<1>2. CASE m.conn[c].writing \/ m.conn[c].out = << >>
  BY <1>2, QuietRefl DEF do_write
<1>3. CASE ~(m.conn[c].writing \/ m.conn[c].out = << >>) /\ ~m.conn[c].connected
  <2>1. c \in {Client, m.ctx.server}
    BY <1>0, ServerType DEF Good, Replaced
  <2>2. do_write(m, c) = start(m, c)
    BY <1>3 DEF do_write
  <2> QED
    BY <2>1, <2>2, StartQuiet
<1>4. CASE ~(m.conn[c].writing \/ m.conn[c].out = << >>) /\ m.conn[c].connected
  <2>1. r \in Connections /\ r.stopped = m.conn[c].stopped
    BY <1>1 DEF Connections
  <2>2. d \in Seq(Unit)
    <3>1. m.conn[c].out \in Seq(Seq(Unit)) /\ m.conn[c].out # << >>
      BY <1>1, <1>4 DEF Connections
    <3> QED
      BY <3>1
  <2>3. do_write(m, c) = Begin(v, "write", c, d)
    BY <1>4 DEF do_write
  <2> HIDE DEF r, d
  <2>4. Quiet(m, v)
    BY <1>0, <2>1, SetConn
  <2> HIDE DEF v
  <2>5. Quiet(v, Begin(v, "write", c, d))
    BY <2>2, <2>4, BeginQuiet DEF Quiet, Operations
  <2> QED
    BY <2>3, <2>4, <2>5, QuietTrans
<1> QED
  BY <1>2, <1>3, <1>4

LEMMA WriteBufferedQuiet ==
  ASSUME NEW m, Good(m), NEW c \in 0..m.ctx.server
  PROVE  Quiet(m, write_buffered(m, c))
<1>0. c \in Conns
  BY ServerType
<1>1. CASE m.conn[c].stopped
  BY <1>1, AbortQuiet DEF write_buffered, Faults
<1>2. CASE ~m.conn[c].stopped
  <2>1. Quiet(m, cancel_timer(m, c))
    BY CancelTimerQuiet
  <2>2. Quiet(cancel_timer(m, c), do_write(cancel_timer(m, c), c))
    BY <1>0, <1>2, <2>1, DoWriteQuiet DEF Quiet
  <2> QED
    BY <1>2, <2>1, <2>2, QuietTrans DEF write_buffered
<1> QED
  BY <1>1, <1>2

LEMMA WriteQuiet ==
  ASSUME NEW m, Good(m), NEW c \in 0..m.ctx.server,
         NEW msg \in Seq(Unit), NEW completed \in BOOLEAN
  PROVE  Quiet(m, write(m, c, msg, completed))
<1> DEFINE done == m.conn[c].encoded
           buf == IF done = OutLen(c) THEN << >> ELSE SubSeq(msg, done + 1, Len(msg))
           n == encoded_after(c, done, msg, completed)
           ready == cancel_timer(m, c)
           o == IF buf = << >> THEN ready.conn[c].out ELSE Append(ready.conn[c].out, buf)
           r == [ready.conn[c] EXCEPT !.encoded = n, !.out = o]
           v == [ready EXCEPT !.conn[c] = r]
<1>0. c \in Conns
  BY ServerType
<1>1. m.conn[c] \in Connections
  BY <1>0, ConnType
<1>2. CASE m.conn[c].stopped
  BY <1>2, AbortQuiet DEF write, Faults
<1>3. CASE ~m.conn[c].stopped /\ done # OutLen(c) /\ done > Len(msg)
  BY <1>3, AbortQuiet DEF write, Faults
<1>4. CASE ~m.conn[c].stopped /\ ~(done # OutLen(c) /\ done > Len(msg))
  <2>1. Quiet(m, ready)
    BY CancelTimerQuiet
  <2>2. done \in Nat /\ OutLen(c) \in Nat
    BY <1>1 DEF Connections, OutLen
  <2>3. buf \in Seq(Unit)
    <3>1. \A i \in done + 1 .. Len(msg) : msg[i] \in Unit
      BY <2>2, ElementOfSeq
    <3>2. SubSeq(msg, done + 1, Len(msg)) \in Seq(Unit)
      <4>1. done + 1 \in Int /\ Len(msg) \in Int
        BY <2>2
      <4> QED
        BY <3>1, <4>1, SubSeqProperties
    <3> QED
      BY <3>2
  <2>4. n \in Nat
    BY <2>2 DEF encoded_after
  <2>5. write(m, c, msg, completed) = do_write(v, c)
    BY <1>4 DEF write
  <2> HIDE DEF buf, n, ready
  <2>6. Good(ready) /\ ready.conn[c] \in Connections
    BY <1>0, <2>1, ConnType DEF Quiet
  <2>7. o \in Seq(Seq(Unit))
    <3>1. ready.conn[c].out \in Seq(Seq(Unit))
      BY <2>6 DEF Connections
    <3> QED
      BY <2>3, <3>1
  <2> HIDE DEF o
  <2>8. r \in Connections /\ r.stopped = ready.conn[c].stopped
    BY <2>4, <2>6, <2>7 DEF Connections
  <2> HIDE DEF r
  <2>9. Quiet(ready, v)
    BY <1>0, <2>6, <2>8, SetConn
  <2> HIDE DEF v
  <2>10. Quiet(m, v)
    BY <2>1, <2>9, QuietTrans
  <2>11. Quiet(v, do_write(v, c))
    BY <1>0, <1>4, <2>10, DoWriteQuiet DEF Quiet
  <2> QED
    BY <2>5, <2>10, <2>11, QuietTrans
<1> QED
  BY <1>2, <1>3, <1>4

LEMMA ResetQuiet ==
  ASSUME NEW m, Good(m), NEW c \in 0..m.ctx.server
  PROVE  Quiet(m, reset(m, c))
<1> DEFINE r == [m.conn[c] EXCEPT !.out = << >>, !.writing = FALSE,
                                  !.encoded = 0, !.message = << >>]
<1>0. c \in Conns
  BY ServerType
<1>1. m.conn[c] \in Connections
  BY <1>0, ConnType
<1>e. << >> \in Seq(Unit) /\ << >> \in Seq(Seq(Unit))
  OBVIOUS
<1>2. r \in Connections /\ r.stopped = m.conn[c].stopped
  BY <1>1, <1>e DEF Connections
<1>3. reset(m, c) = [m EXCEPT !.conn[c] = r]
  BY <1>0, <1>1, ZenonT(30) DEF reset, Good, Worlds
<1> HIDE DEF r
<1> QED
  BY <1>0, <1>2, <1>3, SetConn

LEMMA OnWrittenQuiet ==
  ASSUME NEW m, Good(m), NEW c \in 0..m.ctx.server
  PROVE  Quiet(m, on_written(m, c))
BY PostQuiet, TaskType, ReadQuiet DEF on_written, Tasks, Events

LEMMA UnsentType ==
  ASSUME NEW out \in Seq(Seq(Unit)), out # << >>, NEW n \in Nat
  PROVE  unsent(out, n) \in Seq(Seq(Unit))
<1>1. Head(out) \in Seq(Unit) /\ Tail(out) \in Seq(Seq(Unit))
  OBVIOUS
<1> DEFINE front == Head(out)
           rest == SubSeq(front, n + 1, Len(front))
<1>2. Len(front) \in Nat
  BY <1>1
<1>3. \A i \in n + 1 .. Len(front) : front[i] \in Unit
  BY <1>1, <1>2, ElementOfSeq
<1>4. rest \in Seq(Unit)
  <2>1. n + 1 \in Int /\ Len(front) \in Int
    BY <1>2
  <2> HIDE DEF front
  <2> QED
    BY <1>3, <2>1, SubSeqProperties
<1>5. unsent(out, n) = IF n < Len(front) THEN << rest >> \o Tail(out) ELSE Tail(out)
  BY DEF unsent
<1> HIDE DEF rest, front
<1>6. << rest >> \in Seq(Seq(Unit))
  BY <1>4
<1>7. << rest >> \o Tail(out) \in Seq(Seq(Unit))
  BY <1>1, <1>6, ConcatProperties
<1> QED
  BY <1>1, <1>5, <1>7

LEMMA OnWriteGood ==
  ASSUME NEW m, Good(m), NEW c \in 0..m.ctx.server, NEW res, NEW data \in Seq(Unit)
  PROVE  Good(on_write(m, c, res, data))
<1> DEFINE out == m.conn[c].out
           r == [m.conn[c] EXCEPT !.writing = FALSE]
           idle == [m EXCEPT !.conn[c] = r]
           o == unsent(out, Len(data))
           q == [idle.conn[c] EXCEPT !.out = o]
           rest == [idle EXCEPT !.conn[c] = q]
<1>0. c \in Conns
  BY ServerType
<1>1. m.conn[c] \in Connections
  BY <1>0, ConnType
<1>2. r \in Connections /\ r.stopped = m.conn[c].stopped
  BY <1>1 DEF Connections
<1>3. Quiet(m, idle)
  <2> HIDE DEF r
  <2> QED BY <1>0, <1>2, SetConn
<1>4. CASE m.conn[c].stopped
  BY <1>3, <1>4 DEF on_write, Quiet
<1>5. CASE ~m.conn[c].stopped /\ res # "ok"
  <2>1. on_write(m, c, res, data) = stop(idle, c, TRUE)
    BY <1>5 DEF on_write
  <2> HIDE DEF idle
  <2> QED
    BY <1>3, <2>1, StopStops DEF Quiet, Stops
<1>6. CASE ~m.conn[c].stopped /\ res = "ok" /\ out = << >>
  BY <1>6, AbortQuiet DEF on_write, Quiet, Faults
<1>7. CASE ~m.conn[c].stopped /\ res = "ok" /\ out # << >>
  <2>1. out \in Seq(Seq(Unit)) /\ Len(data) \in Nat
    BY <1>1 DEF Connections
  <2>2. o \in Seq(Seq(Unit))
    BY <1>7, <2>1, UnsentType
  <2>3. on_write(m, c, res, data) = IF rest.conn[c].out # << >> THEN do_write(rest, c)
                                    ELSE on_written(rest, c)
    BY <1>7 DEF on_write
  <2> HIDE DEF idle, o
  <2>4. Good(idle) /\ idle.conn[c] \in Connections /\ ~idle.conn[c].stopped
    BY <1>0, <1>3, <1>7, ConnType DEF Quiet
  <2>5. q \in Connections /\ q.stopped = idle.conn[c].stopped
    BY <2>2, <2>4 DEF Connections
  <2> HIDE DEF q
  <2>6. Quiet(idle, rest)
    BY <1>0, <2>4, <2>5, SetConn
  <2> HIDE DEF rest
  <2>7. Good(rest) /\ c \in 0..rest.ctx.server /\ ~rest.conn[c].stopped
    BY <1>0, <1>3, <2>4, <2>6 DEF Quiet
  <2> QED
    BY <2>3, <2>7, DoWriteQuiet, OnWrittenQuiet DEF Quiet
<1> QED
  BY <1>4, <1>5, <1>6, <1>7

LEMMA OnTimerGood ==
  ASSUME NEW m, Good(m), NEW c \in 0..m.ctx.server, NEW res
  PROVE  Good(on_timer(m, c, res))
<1> DEFINE r == [m.conn[c] EXCEPT !.running = FALSE]
           fired == [m EXCEPT !.conn[c] = r]
<1>0. c \in Conns
  BY ServerType
<1>1. r \in Connections /\ r.stopped = m.conn[c].stopped
  BY <1>0, ConnType DEF Connections
<1>2. on_timer(m, c, res) = IF res = "ok" THEN stop(fired, c, c = Client) ELSE fired
  BY DEF on_timer
<1> HIDE DEF r
<1>3. Quiet(m, fired)
  BY <1>0, <1>1, SetConn
<1> HIDE DEF fired
<1>4. (c = Client) \in BOOLEAN
  OBVIOUS
<1>5. Good(stop(fired, c, c = Client))
  BY <1>3, <1>4, StopStops DEF Quiet, Stops
<1> QED
  BY <1>2, <1>3, <1>5 DEF Quiet

LEMMA DecodeQuiet ==
  ASSUME NEW m, Good(m), NEW c \in 0..m.ctx.server, NEW data \in Seq(Unit)
  PROVE  Quiet(m, [m EXCEPT !.conn[c].message = @ \o data])
<1> DEFINE d == m.conn[c].message \o data
           r == [m.conn[c] EXCEPT !.message = d]
<1>0. c \in Conns
  BY ServerType
<1>1. m.conn[c] \in Connections
  BY <1>0, ConnType
<1>2. d \in Seq(Unit)
  <2>1. m.conn[c].message \in Seq(Unit)
    BY <1>1 DEF Connections
  <2> QED
    BY <2>1, ConcatProperties
<1>3. [m EXCEPT !.conn[c].message = @ \o data] = [m EXCEPT !.conn[c] = r]
  OBVIOUS
<1> HIDE DEF d
<1>4. r \in Connections /\ r.stopped = m.conn[c].stopped
  BY <1>1, <1>2 DEF Connections
<1> HIDE DEF r
<1> QED
  BY <1>0, <1>3, <1>4, SetConn

LEMMA ClientExistsGood ==
  ASSUME NEW m, Good(m)
  PROVE  Client \in 0..m.ctx.server /\ Client \in Conns
BY ServerType

LEMMA HandshakeQuiet ==
  ASSUME NEW m, Good(m), NEW c \in 0..m.ctx.server
  PROVE  Quiet(m, Begin([m EXCEPT !.conn[c].use_ssl = TRUE], "handshake", c, << >>))
<1> DEFINE r == [m.conn[c] EXCEPT !.use_ssl = TRUE]
           v == [m EXCEPT !.conn[c] = r]
<1>0. c \in Conns
  BY ServerType
<1>1. r \in Connections /\ r.stopped = m.conn[c].stopped
  BY <1>0, ConnType, ZenonT(30) DEF Connections
<1>2. [m EXCEPT !.conn[c].use_ssl = TRUE] = v
  OBVIOUS
<1> HIDE DEF r
<1>3. Quiet(m, v)
  BY <1>0, <1>1, SetConn
<1> HIDE DEF v
<1>4. Quiet(v, Begin(v, "handshake", c, << >>))
  BY <1>3, BeginNoData DEF Quiet, Operations
<1> QED
  BY <1>2, <1>3, <1>4, QuietTrans

LEMMA ClientHandshakeQuiet ==
  ASSUME NEW m, Good(m), NEW certified
  PROVE  Quiet(m, client_handshake(m, certified))
BY HandshakeQuiet, AbortQuiet, ClientExistsGood DEF client_handshake, switch_to_ssl, Faults

LEMMA ServerHandshakeQuiet ==
  ASSUME NEW m, Good(m), NEW s \in 0..m.ctx.server
  PROVE  Quiet(m, server_handshake(m, s))
BY HandshakeQuiet, AbortQuiet DEF server_handshake, switch_to_ssl, Faults

LEMMA ServerResetQuiet ==
  ASSUME NEW m, Good(m), NEW s \in 0..m.ctx.server
  PROVE  Quiet(m, server_reset(m, s))
<1>1. Quiet(m, reset(m, s))
  BY ResetQuiet
<1>2. Quiet(reset(m, s), timer_start(reset(m, s), s))
  BY <1>1, TimerStartQuiet DEF Quiet
<1> QED
  BY <1>1, <1>2, QuietTrans DEF server_reset

LEMMA ClientResetQuiet ==
  ASSUME NEW m, Good(m)
  PROVE  Quiet(m, client_reset(m))
<1> DEFINE v == timer_start(reset(m, Client), Client)
<1>1. Quiet(m, v)
  BY ServerResetQuiet, ClientExistsGood DEF server_reset
<1>2. client_reset(m) = read(v, Client)
  BY DEF client_reset
<1> HIDE DEF v
<1>3. Quiet(v, read(v, Client))
  BY <1>1, ReadQuiet, ClientExistsGood DEF Quiet
<1> QED
  BY <1>1, <1>2, <1>3, QuietTrans

LEMMA ClientOnReadGood ==
  ASSUME NEW m, Good(m), NEW res, NEW data \in Seq(Unit)
  PROVE  Good(client_on_read(m, res, data))
<1> DEFINE timed == cancel_timer(m, Client)
           decoded == [timed EXCEPT !.conn[Client].message = @ \o data]
           posted == Post(decoded, Task("READ", Client))
<1>0. Client \in 0..m.ctx.server
  BY ClientExistsGood
<1>1. Quiet(m, timed)
  BY <1>0, CancelTimerQuiet
<1>2. Good(stop(m, Client, TRUE))
  BY <1>0, StopStops DEF Stops
<1>3. \/ client_on_read(m, res, data) = m
      \/ client_on_read(m, res, data) = stop(m, Client, TRUE)
      \/ client_on_read(m, res, data) = read(decoded, Client)
      \/ client_on_read(m, res, data) = timer_start(posted, Client)
  BY DEF client_on_read
<1> HIDE DEF timed
<1>4. Quiet(timed, decoded)
  <2>1. Good(timed) /\ Client \in 0..timed.ctx.server
    BY <1>1, <1>0 DEF Quiet
  <2> HIDE DEF Client
  <2> QED
    BY <2>1, DecodeQuiet
<1> HIDE DEF decoded
<1>5. Good(decoded) /\ Client \in 0..decoded.ctx.server
  BY <1>1, <1>0, <1>4 DEF Quiet
<1>6. Good(posted) /\ Client \in 0..posted.ctx.server
  BY <1>5, PostQuiet, TaskType DEF Quiet, Tasks, Events
<1> HIDE DEF posted
<1> QED
  BY <1>2, <1>3, <1>5, <1>6, ReadQuiet, TimerStartQuiet DEF Quiet

LEMMA ClientOnHandshakeGood ==
  ASSUME NEW m, Good(m), NEW res
  PROVE  Good(client_on_handshake(m, res))
<1> DEFINE r == [m.conn[Client] EXCEPT !.message = << >>, !.encoded = 0]
           v == [m EXCEPT !.conn[Client] = r]
<1>0. Client \in 0..m.ctx.server /\ Client \in Conns
  BY ClientExistsGood
<1>1. m.conn[Client] \in Connections /\ << >> \in Seq(Unit)
  BY <1>0, ConnType
<1>2. r \in Connections /\ r.stopped = m.conn[Client].stopped
  BY <1>1 DEF Connections
<1>3. [m EXCEPT !.conn[Client].message = << >>, !.conn[Client].encoded = 0] = v
  BY <1>0, <1>1 DEF Good, Worlds
<1>4. Good(stop(m, Client, TRUE))
  BY <1>0, StopStops DEF Stops
<1>5. \/ client_on_handshake(m, res) = m
      \/ client_on_handshake(m, res) = stop(m, Client, TRUE)
      \/ client_on_handshake(m, res) = Post(v, Task("HANDSHAKE", Client))
  BY <1>3 DEF client_on_handshake
<1> HIDE DEF r
<1>6. Quiet(m, v)
  BY <1>0, <1>2, SetConn
<1> HIDE DEF v
<1>7. Good(Post(v, Task("HANDSHAKE", Client)))
  BY <1>0, <1>6, PostQuiet, TaskType DEF Quiet, Tasks, Events
<1> QED
  BY <1>4, <1>5, <1>7

LEMMA OnResolveGood ==
  ASSUME NEW m, Good(m), NEW s \in 0..m.ctx.server, NEW res
  PROVE  Good(on_resolve(m, s, res))
BY StopStops, BeginNoData DEF on_resolve, Operations, Stops, Quiet

LEMMA OnConnectGood ==
  ASSUME NEW m, Good(m), NEW s \in 0..m.ctx.server, NEW res
  PROVE  Good(on_connect(m, s, res))
<1> DEFINE r == [m.conn[s] EXCEPT !.connected = TRUE]
           v == [m EXCEPT !.conn[s] = r]
<1>0. s \in Conns
  BY ServerType
<1>1. r \in Connections /\ r.stopped = m.conn[s].stopped
  BY <1>0, ConnType DEF Connections
<1>2. \/ on_connect(m, s, res) = m
      \/ on_connect(m, s, res) = stop(m, s, TRUE)
      \/ on_connect(m, s, res) = Post(v, Task("CONNECT", s))
  BY DEF on_connect
<1> HIDE DEF r
<1>3. Quiet(m, v)
  BY <1>0, <1>1, SetConn
<1> HIDE DEF v
<1>4. Good(Post(v, Task("CONNECT", s)))
  BY <1>3, PostQuiet, TaskType DEF Quiet, Tasks, Events
<1>5. Good(stop(m, s, TRUE))
  BY StopStops DEF Stops
<1> QED
  BY <1>2, <1>4, <1>5

LEMMA ServerOnHandshakeGood ==
  ASSUME NEW m, Good(m), NEW s \in 0..m.ctx.server, NEW res
  PROVE  Good(server_on_handshake(m, s, res))
BY StopStops, PostQuiet, TaskType DEF server_on_handshake, Tasks, Events, Stops, Quiet

LEMMA ServerOnReadGood ==
  ASSUME NEW m, Good(m), NEW s \in 0..m.ctx.server, NEW res, NEW data \in Seq(Unit)
  PROVE  Good(server_on_read(m, s, res, data))
<1> DEFINE timed == cancel_timer(m, s)
           decoded == [timed EXCEPT !.conn[s].message = @ \o data]
           r == [m.conn[s] EXCEPT !.connected = FALSE]
           ended == [m EXCEPT !.conn[s] = r]
<1>0. s \in Conns
  BY ServerType
<1>1. Quiet(m, timed)
  BY CancelTimerQuiet
<1>2. r \in Connections /\ r.stopped = m.conn[s].stopped
  BY <1>0, ConnType DEF Connections
<1>3. \/ server_on_read(m, s, res, data) = m
      \/ server_on_read(m, s, res, data) = stop(m, s, TRUE)
      \/ server_on_read(m, s, res, data) = stop(ended, s, TRUE)
      \/ server_on_read(m, s, res, data) = Abort(m, "decode_assert")
      \/ server_on_read(m, s, res, data) = Post(decoded, Task("READ", s))
  BY DEF server_on_read
<1> HIDE DEF r
<1>4. Quiet(m, ended)
  BY <1>0, <1>2, SetConn
<1> HIDE DEF timed, ended
<1>5. Quiet(timed, decoded)
  <2>1. Good(timed) /\ s \in 0..timed.ctx.server
    BY <1>1 DEF Quiet
  <2> QED
    BY <2>1, DecodeQuiet
<1> HIDE DEF decoded
<1>6. Good(Post(decoded, Task("READ", s)))
  BY <1>1, <1>5, PostQuiet, TaskType DEF Quiet, Tasks, Events
<1>7. Good(stop(m, s, TRUE)) /\ Good(stop(ended, s, TRUE))
  BY <1>4, StopStops DEF Stops, Quiet
<1>8. Good(Abort(m, "decode_assert"))
  BY AbortQuiet DEF Quiet, Faults
<1> QED
  BY <1>3, <1>6, <1>7, <1>8

\* A change of the context that keeps its server connection.
LEMMA SetContext ==
  ASSUME NEW m, Good(m), NEW k \in Contexts, k.server = m.ctx.server
  PROVE  Quiet(m, [m EXCEPT !.ctx = k])
<1> DEFINE w == [m EXCEPT !.ctx = k]
<1>1. w \in Worlds
  BY DEF Good, Worlds
<1>2. /\ w.queue = m.queue /\ w.pending = m.pending
      /\ w.conn = m.conn /\ w.ctx = k /\ w.managed = m.managed
  BY DEF Good, Worlds
<1> HIDE DEF w
<1>3. Good(w)
  BY <1>1, <1>2, GoodFields DEF Good, Known
<1> QED
  BY <1>2, <1>3 DEF Quiet, w

LEMMA MessageType ==
  ASSUME NEW m, Good(m), NEW c \in Conns
  PROVE  m.conn[c].message \in Seq(Unit)
BY ConnType DEF Connections

LEMMA ContextType ==
  ASSUME NEW m, Good(m)
  PROVE  m.ctx \in Contexts
BY DEF Good, Worlds

\* A context whose server connection is stopped, or that has none, may open
\* the next one.
LEMMA OpenedGood ==
  ASSUME NEW m, Good(m), m.ctx.server < MaxServers,
         m.ctx.server \in Servers => m.conn[m.ctx.server].stopped,
         NEW s, s = m.ctx.server + 1,
         NEW k \in Contexts, k.server = s,
         NEW w, w = [m EXCEPT !.ctx = k, !.managed = @ \cup {s}]
  PROVE  Good(w) /\ w.ctx.server = s
<1>0. m.ctx.server \in Conns /\ s \in Conns /\ s \in Servers
  BY ServerType
<1>3. w \in Worlds
  BY <1>0 DEF Good, Worlds
<1>4. /\ w.queue = m.queue /\ w.pending = m.pending
      /\ w.conn = m.conn /\ w.ctx = k /\ w.managed = m.managed \cup {s}
  BY DEF Good, Worlds
<1>5. Known(w)
  <2>1. 0..m.ctx.server \subseteq 0..s
    BY <1>0
  <2>2. HandlersUpTo(m.ctx.server) \subseteq HandlersUpTo(s)
    BY <2>1 DEF HandlersUpTo
  <2>3. OpsUpTo(m.ctx.server) \subseteq OpsUpTo(s)
    BY <2>1 DEF OpsUpTo
  <2>4. m.queue \in Seq(HandlersUpTo(m.ctx.server))
    BY DEF Good, Known
  <2>5. m.queue \in Seq(HandlersUpTo(s))
    BY <2>2, <2>4
  <2>6. m.pending \subseteq OpsUpTo(s)
    BY <2>3 DEF Good, Known
  <2> QED
    BY <1>4, <2>5, <2>6 DEF Known
<1>6. ~m.conn[s].stopped
  BY <1>0 DEF Good, Replaced
<1>7. Registered(w)
  BY <1>0, <1>4, <1>6 DEF Good, Registered
<1>8. Replaced(w)
  <2> SUFFICES ASSUME NEW t \in Servers
               PROVE  /\ t < s => m.conn[t].stopped
                      /\ t > s => ~m.conn[t].stopped
    BY <1>4 DEF Replaced
  <2>1. t < s => t < m.ctx.server \/ t = m.ctx.server
    BY <1>0
  <2>2. t > s => t > m.ctx.server
    BY <1>0
  <2> QED
    BY <1>0, <2>1, <2>2 DEF Good, Replaced
<1> QED
  BY <1>3, <1>4, <1>5, <1>7, <1>8 DEF Good

LEMMA OnClientMessageGood ==
  ASSUME NEW m, Good(m), m.ctx = ctx, m.managed = managed,
         LockServer \/ ctx.server < MaxServers,
         NEW connect \in BOOLEAN, NEW destination
  PROVE  Good(on_client_message(m, connect, destination))
<1> DEFINE request == m.conn[Client].message
           https == m.ctx.https \/ connect
           s == m.ctx.server + 1
           parsed == [m EXCEPT !.ctx.https = https]
           opened == add([parsed EXCEPT !.ctx.server = s], s)
           reply == << SslReply(request[1][1]) >>
<1>0. request \in Seq(Unit) /\ m.ctx.server \in 0..m.ctx.server
  BY MessageType, ClientExistsGood, ServerType
<1>1. https \in BOOLEAN
  BY ContextType DEF Contexts
<1>2. CASE ~Completed(m, Client)
  BY <1>2, AbortQuiet DEF on_client_message, Quiet, Faults
<1>3. CASE Completed(m, Client) /\ LockServer
  <2>1. on_client_message(m, connect, destination) = write(m, m.ctx.server, request, TRUE)
    BY <1>3 DEF on_client_message
  <2> DEFINE server == m.ctx.server
  <2>2. server \in 0..m.ctx.server
    BY <1>0
  <2> HIDE DEF request, server
  <2>3. Quiet(m, write(m, server, request, TRUE))
    BY <1>0, <2>2, WriteQuiet
  <2> QED
    BY <2>1, <2>3 DEF Quiet, server
<1>4. CASE Completed(m, Client) /\ ~LockServer
  <2>1. \/ on_client_message(m, connect, destination) = Abort(m, "host_assert")
        \/ on_client_message(m, connect, destination) = parsed
        \/ on_client_message(m, connect, destination) = write(opened, Client, reply, TRUE)
        \/ on_client_message(m, connect, destination) = write(opened, s, request, TRUE)
    BY <1>4 DEF on_client_message
  <2>2. Good(Abort(m, "host_assert"))
    BY AbortQuiet DEF Quiet, Faults
  <2>3. Good(parsed)
    <3> DEFINE k == [m.ctx EXCEPT !.https = https]
    <3>1. k \in Contexts /\ k.server = m.ctx.server
      BY <1>1, ContextType DEF Contexts
    <3>2. parsed = [m EXCEPT !.ctx = k]
      OBVIOUS
    <3> HIDE DEF k, parsed
    <3> QED
      BY <3>1, <3>2, SetContext DEF Quiet
  <2>4. m.ctx.server \in Servers => m.conn[m.ctx.server].stopped
    BY <1>4, ServerType DEF LockServer, Alive, Good, Registered
  <2>5. Good(opened) /\ opened.ctx.server = s
    <3>1. s = m.ctx.server + 1 /\ m.ctx.server < MaxServers
      BY <1>4
    <3> DEFINE k == [m.ctx EXCEPT !.https = https, !.server = s]
    <3>2. opened = [m EXCEPT !.ctx = k, !.managed = @ \cup {s}]
      BY DEF add, Good, Worlds, Contexts
    <3>3. k \in Contexts /\ k.server = s
      <4>1. s \in Conns /\ m.ctx \in Contexts
        BY <3>1, ServerType, ContextType
      <4> HIDE DEF https, s
      <4> QED
        BY <1>1, <4>1 DEF Contexts
    <3> HIDE DEF opened, k, s
    <3> QED
      BY <2>4, <3>1, <3>2, <3>3, OpenedGood, ZenonT(30)
  <2>6. reply \in Seq(Unit)
    <3>1. Len(request) = ReqLen
      BY <1>4 DEF Completed, InLen
    <3>2. request[1] \in Unit
      BY <1>0, <3>1, ElementOfSeq
    <3>3. SslReply(request[1][1]) \in Unit
      BY <3>2 DEF Unit, SslReply
    <3> QED
      BY <3>3
  <2>7. Client \in 0..opened.ctx.server /\ s \in 0..opened.ctx.server
    BY <2>5, ServerType
  <2> HIDE DEF opened, reply, request, parsed, s
  <2>8. Good(write(opened, Client, reply, TRUE)) /\ Good(write(opened, s, request, TRUE))
    BY <1>0, <2>5, <2>6, <2>7, WriteQuiet DEF Quiet
  <2> QED
    BY <2>1, <2>2, <2>3, <2>8
<1> QED
  BY <1>2, <1>3, <1>4

LEMMA OnServerMessageGood ==
  ASSUME NEW m, Good(m), NEW s \in Conns, NEW keep_alive
  PROVE  Good(on_server_message(m, s, keep_alive))
<1> DEFINE response == m.conn[s].message
           completed == Completed(m, s)
           server == m.ctx.server
           written == write(m, Client, response, completed)
           k == [written.ctx EXCEPT !.exchanged = TRUE]
           exchanged == [written EXCEPT !.ctx = k]
<1>0. response \in Seq(Unit) /\ Client \in 0..m.ctx.server /\ completed \in BOOLEAN
  BY MessageType, ClientExistsGood DEF Completed
<1>1. \/ on_server_message(m, s, keep_alive) = Abort(m, "client_assert")
      \/ on_server_message(m, s, keep_alive) = Abort(m, "server_assert")
      \/ on_server_message(m, s, keep_alive) = read(written, server)
      \/ on_server_message(m, s, keep_alive) = server_reset(exchanged, server)
      \/ on_server_message(m, s, keep_alive) = stop(exchanged, server, FALSE)
  BY DEF on_server_message
<1> HIDE DEF response, completed
<1>2. Quiet(m, written)
  BY <1>0, WriteQuiet
<1> HIDE DEF written
<1>3. Good(written) /\ server \in 0..written.ctx.server
  BY <1>2, ServerType DEF Quiet
<1>4. k \in Contexts /\ k.server = written.ctx.server
  BY <1>3, ContextType DEF Contexts
<1> HIDE DEF k
<1>5. Quiet(written, exchanged)
  BY <1>3, <1>4, SetContext
<1> HIDE DEF exchanged, server
<1>6. Good(exchanged) /\ server \in 0..exchanged.ctx.server
  BY <1>3, <1>5 DEF Quiet
<1>7. Good(Abort(m, "client_assert")) /\ Good(Abort(m, "server_assert"))
  BY AbortQuiet DEF Quiet, Faults
<1>8. Good(read(written, server)) /\ Good(server_reset(exchanged, server))
  BY <1>3, <1>6, ReadQuiet, ServerResetQuiet DEF Quiet
<1>9. Good(stop(exchanged, server, FALSE))
  BY <1>6, StopStops DEF Stops
<1> QED
  BY <1>1, <1>7, <1>8, <1>9

LEMMA OnClientWrittenGood ==
  ASSUME NEW m, Good(m), NEW keep_alive, NEW certified
  PROVE  Good(on_client_written(m, keep_alive, certified))
<1> DEFINE v == client_reset(m)
           k == [v.ctx EXCEPT !.exchanged = FALSE]
           w == [v EXCEPT !.ctx = k]
<1>1. \/ on_client_written(m, keep_alive, certified) = m
      \/ on_client_written(m, keep_alive, certified) = client_handshake(m, certified)
      \/ on_client_written(m, keep_alive, certified) = Abort(m, "server_assert")
      \/ on_client_written(m, keep_alive, certified) = stop(m, Client, FALSE)
      \/ on_client_written(m, keep_alive, certified) = w
  BY DEF on_client_written
<1>2. Good(v)
  BY ClientResetQuiet DEF Quiet
<1> HIDE DEF v
<1>3. k \in Contexts /\ k.server = v.ctx.server
  BY <1>2, ContextType DEF Contexts
<1> HIDE DEF k
<1>4. Good(w)
  BY <1>2, <1>3, SetContext DEF Quiet
<1> HIDE DEF w
<1>5. Good(client_handshake(m, certified)) /\ Good(Abort(m, "server_assert"))
  BY ClientHandshakeQuiet, AbortQuiet DEF Quiet, Faults
<1>6. Good(stop(m, Client, FALSE))
  BY ClientExistsGood, StopStops DEF Stops
<1> QED
  BY <1>1, <1>4, <1>5, <1>6

LEMMA OnClientSecuredGood ==
  ASSUME NEW m, Good(m)
  PROVE  Good(on_client_secured(m))
<1> DEFINE k == [m.ctx EXCEPT !.ssl_setup = TRUE]
           w == [m EXCEPT !.ctx = k]
<1>1. on_client_secured(m) = read(w, Client)
  BY DEF on_client_secured
<1>2. k \in Contexts /\ k.server = m.ctx.server
  BY ContextType DEF Contexts
<1> HIDE DEF k
<1>3. Good(w)
  BY <1>2, SetContext DEF Quiet
<1> HIDE DEF w
<1> QED
  BY <1>1, <1>3, ReadQuiet, ClientExistsGood DEF Quiet

LEMMA OnServerConnectedGood ==
  ASSUME NEW m, Good(m), NEW s \in 0..m.ctx.server
  PROVE  Good(on_server_connected(m, s)) /\ Good(on_server_secured(m, s))
BY ServerHandshakeQuiet, WriteBufferedQuiet DEF on_server_connected, on_server_secured, Quiet

LEMMA OnStopGood ==
  ASSUME NEW m, Good(m), NEW c
  PROVE  Good(on_stop(m, c))
<1> DEFINE server == m.ctx.server
<1>1. \/ on_stop(m, c) = m
      \/ on_stop(m, c) = stop(m, Client, FALSE)
      \/ on_stop(m, c) = stop(m, server, FALSE)
  BY DEF on_stop
<1>2. server \in 0..m.ctx.server
  BY ServerType
<1> HIDE DEF server
<1> QED
  BY <1>1, <1>2, ClientExistsGood, StopStops DEF Stops

\* After stop_all the managers are empty and every connection that exists is
\* stopped.
LEMMA StopAllGood ==
  ASSUME NEW m, Good(m), m.ctx = ctx, m.managed = managed
  PROVE  LET stopped == IF Client \in managed THEN stop(m, Client, FALSE) ELSE m
             all == IF ctx.server \in managed THEN stop(stopped, ctx.server, FALSE) ELSE stopped
         IN  Good([all EXCEPT !.managed = {}])
<1> DEFINE server == ctx.server
           v == IF Client \in managed THEN stop(m, Client, FALSE) ELSE m
           w == IF server \in managed THEN stop(v, server, FALSE) ELSE v
           z == [w EXCEPT !.managed = {}]
<1>0. server \in Conns /\ server = m.ctx.server /\ server \in 0..server
  BY ServerType
<1> HIDE DEF server
<1>1. /\ Good(v) /\ v.ctx.server = server /\ v.conn[Client].stopped
      /\ \A k \in Conns \ {Client} : v.conn[k].stopped = m.conn[k].stopped
  <2>1. CASE Client \in managed
    <3>1. v = stop(m, Client, FALSE)
      BY <2>1
    <3>2. Stops(m, v, Client)
      BY <3>1, StopStops, ClientExistsGood
    <3> QED
      BY <1>0, <3>2 DEF Stops
  <2>2. CASE Client \notin managed
    BY <1>0, <2>2, ClientExistsGood DEF Good, Registered
  <2> QED
    BY <2>1, <2>2
<1> HIDE DEF v
<1>2. /\ Good(w) /\ w.ctx.server = server /\ w.conn[Client].stopped /\ w.conn[server].stopped
  <2>1. CASE server \in managed
    <3>1. w = stop(v, server, FALSE)
      BY <2>1
    <3>2. Stops(v, w, server)
      BY <1>0, <1>1, <3>1, StopStops
    <3> QED
      BY <1>0, <1>1, <3>2, ClientExistsGood DEF Stops
  <2>2. CASE server \notin managed
    <3>1. m.conn[server].stopped
      BY <1>0, <2>2 DEF Good, Registered
    <3> QED
      BY <1>0, <1>1, <2>2, <3>1
  <2> QED
    BY <2>1, <2>2
<1> HIDE DEF w
<1>3. z \in Worlds
  BY <1>2 DEF Good, Worlds
<1>4. /\ z.queue = w.queue /\ z.pending = w.pending
      /\ z.conn = w.conn /\ z.ctx = w.ctx /\ z.managed = {}
  BY <1>2 DEF Good, Worlds
<1> HIDE DEF z
<1>5. Known(z) /\ Replaced(z)
  BY <1>2, <1>4 DEF Good, Known, Replaced
<1>6. Registered(z)
  <2> SUFFICES ASSUME NEW c \in Conns, c <= server
               PROVE  w.conn[c].stopped
    BY <1>2, <1>4 DEF Registered
  <2>1. c = Client \/ c = server \/ (c \in Servers /\ c < server)
    BY <1>0
  <2> QED
    BY <1>2, <2>1 DEF Good, Replaced
<1>7. Good(z)
  BY <1>3, <1>5, <1>6 DEF Good
<1> QED
  BY <1>7 DEF z, w, v, server

-----------------------------------------------------------------------------
\* The inductive invariant.
IInv == /\ Good(World)
        /\ wire \in [Conns -> Seq(Unit)]
        /\ last \in [Conns -> Unit]
        /\ signal \in BOOLEAN

LEMMA WorldFields ==
  /\ World.queue = queue /\ World.pending = pending /\ World.conn = conn
  /\ World.managed = managed /\ World.ctx = ctx /\ World.fault = fault
BY DEF World

\* A handler that ends in a good world, or ends the process, leaves one.
LEMMA BecomeGood ==
  ASSUME Good(World), NEW m, Good(m), Become(m)
  PROVE  Good(World)'
<1>1. CASE m.fault = "none"
  <2>1. World' = m
    BY <1>1 DEF Become, World, Good, Worlds
  <2> QED
    BY <2>1 DEF Good, Known, Registered, Replaced
<1>2. CASE m.fault # "none"
  <2>1. m.fault \in Faults
    BY DEF Good, Worlds
  <2>2. World' = [World EXCEPT !.fault = m.fault]
    BY <1>2 DEF Become, World
  <2> DEFINE w == [World EXCEPT !.fault = m.fault]
  <2>3. w \in Worlds
    BY <2>1 DEF Good, Worlds
  <2>4. /\ w.queue = queue /\ w.pending = pending /\ w.conn = conn
        /\ w.ctx = ctx /\ w.managed = managed
    BY DEF World
  <2> HIDE DEF w
  <2>5. Good(w)
    BY <2>3, <2>4, WorldFields, GoodFields DEF Good, Known
  <2> QED
    BY <2>2, <2>5 DEF w
<1> QED
  BY <1>1, <1>2

\* The handler at the head of the queue starts in a good world, with arguments
\* of the right types.
LEMMA PoppedGood ==
  ASSUME Good(World), queue # << >>
  PROVE  /\ Good(Popped) /\ Popped.ctx = ctx /\ Popped.managed = managed
         /\ Self \in 0..Popped.ctx.server
         /\ Self \in Conns
         /\ Data \in Seq(Unit)
<1>1. queue \in Seq(Handlers) /\ queue \in Seq(HandlersUpTo(ctx.server))
  BY WorldFields DEF Good, Known, Worlds
<1>2. Tail(queue) \in Seq(Handlers) /\ Tail(queue) \in Seq(HandlersUpTo(ctx.server))
  BY <1>1
<1>3. Head(queue) \in HandlersUpTo(ctx.server)
  BY <1>1
<1> DEFINE q == Tail(queue)
           w == [World EXCEPT !.queue = q]
<1>4. Popped = w
  BY DEF Popped, World
<1> HIDE DEF q
<1>5. w \in Worlds
  BY <1>2 DEF Good, Worlds, q
<1>6. /\ w.queue = q /\ w.pending = pending /\ w.conn = conn
      /\ w.ctx = ctx /\ w.managed = managed
  BY DEF World
<1> HIDE DEF w
<1>7. Good(w)
  BY <1>2, <1>5, <1>6, WorldFields, GoodFields DEF Good, Known, q
<1>8. Self \in 0..ctx.server /\ Data \in Seq(Unit)
  BY <1>3 DEF Self, Data, HandlersUpTo
<1> QED
  BY <1>4, <1>6, <1>7, <1>8, ServerType

LEMMA HandleEventGood ==
  ASSUME Good(World), NEW m, Good(m), HandleEvent(m)
  PROVE  Good(World)'
<1>1. Good(Abort(World, "freed_this"))
  BY AbortQuiet DEF Quiet, Faults
<1> QED
  BY <1>1, BecomeGood DEF HandleEvent, Handle

LEMMA CompletionGood ==
  ASSUME Good(World), NEW p \in pending, NEW res \in Results, NEW data \in Seq(Unit),
         Complete(p, res, data)
  PROVE  Good(World)'
<1> DEFINE P == pending \ {p}
           v == [World EXCEPT !.pending = P]
           h == Completion(p.op, p.conn, res, data)
<1>1. p \in OpsUpTo(ctx.server)
  BY WorldFields DEF Good, Known
<1>2. h \in HandlersUpTo(ctx.server)
  BY <1>1 DEF Completion, OpsUpTo, HandlersUpTo
<1>c. queue' = Append(queue, h) /\ pending' = P /\ UNCHANGED <<conn, managed, ctx, fault>>
  BY DEF Complete
<1> HIDE DEF h, P
<1>3. World' = Post(v, h)
  <2> DEFINE rec(q) == [queue |-> q, pending |-> P, conn |-> conn,
                        managed |-> managed, ctx |-> ctx, fault |-> fault]
  <2>1. World' = rec(Append(queue, h))
    BY <1>c DEF World
  <2>2. v = rec(queue)
    BY DEF World
  <2>3. Post(rec(queue), h) = [rec(queue) EXCEPT !.queue = Append(queue, h)]
    BY DEF Post
  <2>4. \A q : [rec(queue) EXCEPT !.queue = q] = rec(q)
    OBVIOUS
  <2> QED
    BY <2>1, <2>2, <2>3, <2>4
<1>4. P \subseteq pending
  BY DEF P
<1>5. v \in Worlds
  BY <1>4, WorldFields DEF Good, Worlds
<1>6. /\ v.queue = queue /\ v.pending = P /\ v.conn = conn
      /\ v.ctx = ctx /\ v.managed = managed
  BY DEF World
<1> HIDE DEF v
<1>7. Good(v)
  BY <1>4, <1>5, <1>6, WorldFields, GoodFields DEF Good, Known
<1> QED
  BY <1>2, <1>3, <1>6, <1>7, PostQuiet DEF Quiet

LEMMA InitIInv == Init => IInv
<1> SUFFICES ASSUME Init PROVE IInv
  OBVIOUS
<1>0. /\ << >> \in Seq(Unit) /\ << >> \in Seq(Seq(Unit)) /\ << >> \in Seq(Handlers)
      /\ << >> \in Seq(HandlersUpTo(0)) /\ 0 \in Conns
  OBVIOUS
<1>1. \A b \in BOOLEAN : [NewConnection EXCEPT !.connected = b] \in Connections
  BY <1>0 DEF NewConnection, Connections
<1>2. conn \in [Conns -> Connections] /\ \A c \in Conns : ~conn[c].stopped
  BY <1>1 DEF Init, NewConnection
<1>3. ctx \in Contexts /\ ctx.server = 0
  BY <1>0 DEF Init, NewContext, Contexts
<1>4. pending \subseteq OpsUpTo(0) /\ pending \subseteq PendingOps
  BY <1>0 DEF Init, OpsUpTo, PendingOps, Operations
<1>5. World \in Worlds
  BY <1>0, <1>2, <1>3, <1>4 DEF Init, World, Worlds, Faults
<1>6. Known(World)
  BY <1>0, <1>3, <1>4, WorldFields DEF Init, Known
<1>7. Registered(World)
  BY <1>2, <1>3, WorldFields DEF Init, Registered
<1>8. Replaced(World)
  BY <1>2, <1>3, WorldFields DEF Replaced
<1>9. wire \in [Conns -> Seq(Unit)] /\ last \in [Conns -> Unit] /\ signal \in BOOLEAN
  BY <1>0 DEF Init, Unit, InLen
<1> QED
  BY <1>5, <1>6, <1>7, <1>8, <1>9 DEF IInv, Good

\* Handlers do not touch what the peers have received and sent.
LEMMA RunHandlerPeers == RunHandler => UNCHANGED <<wire, last, signal>>
BY DEF RunHandler, OnTimer, OnWrite, OnResolve, OnConnect, ClientOnRead, ClientOnHandshake,
       ServerOnRead, ServerOnHandshake, ClientRead, ServerRead, ClientWritten, ClientSecured,
       ServerConnected, ServerSecured, OnStop, StopAll, HandleEvent, Handle

LEMMA RunHandlerGood ==
  ASSUME Good(World), RunHandler
  PROVE  Good(World)'
<1>0. queue # << >>
  BY DEF RunHandler, OnTimer, OnWrite, OnResolve, OnConnect, ClientOnRead, ClientOnHandshake,
         ServerOnRead, ServerOnHandshake, ClientRead, ServerRead, ClientWritten, ClientSecured,
         ServerConnected, ServerSecured, OnStop, StopAll, Running
<1>1. /\ Good(Popped) /\ Popped.ctx = ctx /\ Popped.managed = managed
      /\ Self \in 0..Popped.ctx.server /\ Self \in Conns
      /\ Data \in Seq(Unit)
  BY <1>0, PoppedGood
<1>2. CASE OnTimer
  BY <1>1, <1>2, OnTimerGood, BecomeGood DEF OnTimer, Handle
<1>3. CASE OnWrite
  BY <1>1, <1>3, OnWriteGood, BecomeGood DEF OnWrite, Handle
<1>4. CASE OnResolve
  BY <1>1, <1>4, OnResolveGood, BecomeGood DEF OnResolve, Handle
<1>5. CASE OnConnect
  BY <1>1, <1>5, OnConnectGood, BecomeGood DEF OnConnect, Handle
<1>6. CASE ClientOnRead
  BY <1>1, <1>6, ClientOnReadGood, BecomeGood DEF ClientOnRead, Handle
<1>7. CASE ClientOnHandshake
  BY <1>1, <1>7, ClientOnHandshakeGood, BecomeGood DEF ClientOnHandshake, Handle
<1>8. CASE ServerOnRead
  BY <1>1, <1>8, ServerOnReadGood, BecomeGood DEF ServerOnRead, Handle
<1>9. CASE ServerOnHandshake
  BY <1>1, <1>9, ServerOnHandshakeGood, BecomeGood DEF ServerOnHandshake, Handle
<1>10. CASE ClientRead
  <2>1. PICK connect \in {FALSE, Https}, destination \in Destinations :
          HandleEvent(on_client_message(Popped, connect, destination))
    BY <1>10 DEF ClientRead
  <2>2. connect \in BOOLEAN
    BY EnvironmentAssumption
  <2>3. LockServer \/ ctx.server < MaxServers
    BY <1>10 DEF ClientRead
  <2>4. Good(on_client_message(Popped, connect, destination))
    BY <1>1, <2>2, <2>3, OnClientMessageGood
  <2> QED
    BY <2>1, <2>4, HandleEventGood
<1>11. CASE ServerRead
  <2>1. PICK keep_alive \in BOOLEAN : HandleEvent(on_server_message(Popped, Self, keep_alive))
    BY <1>11 DEF ServerRead
  <2> QED
    BY <1>1, <2>1, OnServerMessageGood, HandleEventGood
<1>12. CASE ClientWritten
  <2>1. PICK keep_alive \in BOOLEAN, certified \in {TRUE, "cert" \notin Failures} :
          HandleEvent(on_client_written(Popped, keep_alive, certified))
    BY <1>12 DEF ClientWritten
  <2> QED
    BY <1>1, <2>1, OnClientWrittenGood, HandleEventGood
<1>13. CASE ClientSecured
  BY <1>1, <1>13, OnClientSecuredGood, HandleEventGood DEF ClientSecured
<1>14. CASE ServerConnected
  BY <1>1, <1>14, OnServerConnectedGood, HandleEventGood DEF ServerConnected
<1>15. CASE ServerSecured
  BY <1>1, <1>15, OnServerConnectedGood, HandleEventGood DEF ServerSecured
<1>16. CASE OnStop
  BY <1>1, <1>16, OnStopGood, BecomeGood DEF OnStop, Handle
<1>17. CASE StopAll
  BY <1>1, <1>17, StopAllGood, BecomeGood DEF StopAll, Handle
<1> QED
  BY <1>2, <1>3, <1>4, <1>5, <1>6, <1>7, <1>8, <1>9, <1>10, <1>11, <1>12, <1>13,
     <1>14, <1>15, <1>16, <1>17 DEF RunHandler

LEMMA UnitsType ==
  ASSUME NEW r \in Nat, NEW i \in Nat, NEW n \in Nat
  PROVE  Units(r, i, n) \in Seq(Unit)
<1>1. \A j \in 1..n : <<r, i + j>> \in Unit
  BY DEF Unit
<1>2. [j \in 1..n |-> <<r, i + j>>] \in [1..n -> Unit]
  BY <1>1
<1>3. Units(r, i, n) = [j \in 1..n |-> <<r, i + j>>]
  BY DEF Units
<1> DEFINE f == [j \in 1..n |-> <<r, i + j>>]
<1> HIDE DEF f
<1>4. f \in [1..n -> Unit]
  BY <1>2 DEF f
<1>5. f \in UNION {[1..k -> Unit] : k \in Nat}
  BY <1>4
<1>6. f \in Seq(Unit)
  BY <1>5, SeqDef, Zenon
<1> QED
  BY <1>3, <1>6 DEF f

LEMMA SendsIInv ==
  ASSUME IInv, NEW p \in pending, NEW r \in Nat, NEW i \in Nat, NEW n \in Nat, Sends(p, r, i, n)
  PROVE  IInv'
<1>1. Units(r, i, n) \in Seq(Unit) /\ "ok" \in Results
  BY UnitsType DEF Results
<1>2. Good(World)'
  BY <1>1, CompletionGood DEF IInv, Sends
<1>3. p.conn \in Conns
  <2>1. p \in PendingOps
    BY WorldFields DEF IInv, Good, Worlds
  <2> QED
    BY <2>1 DEF PendingOps
<1>4. <<r, i + n>> \in Unit
  BY DEF Unit
<1>5. last' \in [Conns -> Unit]
  BY <1>3, <1>4 DEF Sends, IInv
<1> QED
  BY <1>2, <1>5 DEF IInv, Sends, Complete

\* An operation that completes without data.
LEMMA EmptyCompletionIInv ==
  ASSUME IInv, NEW p \in pending, NEW res \in Results, Complete(p, res, << >>), UNCHANGED peers
  PROVE  IInv'
<1>1. << >> \in Seq(Unit)
  OBVIOUS
<1> QED
  BY <1>1, CompletionGood DEF IInv, peers, Complete

LEMMA PeerReceivesIInv ==
  ASSUME IInv, NEW p \in pending, NEW n \in 1..Len(p.data), PeerReceives(p, n)
  PROVE  IInv'
<1>1. p \in PendingOps
  BY WorldFields DEF IInv, Good, Worlds
<1>2. p.conn \in Conns /\ p.data \in Seq(Unit)
  BY <1>1 DEF PendingOps
<1>3. CASE Dangling(p)
  <2>1. Good(Abort(World, "freed_buffer"))
    BY AbortQuiet DEF IInv, Quiet, Faults
  <2>2. Become(Abort(World, "freed_buffer")) /\ UNCHANGED <<wire, last, signal>>
    BY <1>3 DEF PeerReceives
  <2> QED
    BY <2>1, <2>2, BecomeGood DEF IInv
<1>4. CASE ~Dangling(p)
  <2> DEFINE sent == SubSeq(p.data, 1, n)
  <2>1. /\ Complete(p, "ok", sent) /\ UNCHANGED last
        /\ wire' = [wire EXCEPT ![p.conn] = @ \o sent]
    BY <1>4 DEF PeerReceives
  <2>2. sent \in Seq(Unit)
    <3>1. \A i \in 1..n : p.data[i] \in Unit
      BY <1>2, ElementOfSeq
    <3> QED
      BY <1>2, <3>1, SubSeqProperties
  <2> HIDE DEF sent
  <2>3. Good(World)'
    BY <2>1, <2>2, CompletionGood DEF IInv, Results
  <2>4. wire' \in [Conns -> Seq(Unit)]
    <3>1. wire[p.conn] \o sent \in Seq(Unit)
      BY <1>2, <2>2, ConcatProperties DEF IInv
    <3> QED
      BY <1>2, <2>1, <3>1 DEF IInv
  <2> QED
    BY <2>1, <2>3, <2>4 DEF IInv, Complete
<1> QED
  BY <1>3, <1>4

LEMMA SignalIInv == IInv /\ SignalArrives => IInv'
<1> SUFFICES ASSUME IInv, SignalArrives PROVE IInv'
  OBVIOUS
<1> DEFINE h == Task("stop_all", Client)
<1>1. Good(World) /\ h \in HandlersUpTo(World.ctx.server)
  BY TaskType, ClientExistsGood DEF IInv, Tasks
<1>s. queue' = Append(queue, h) /\ UNCHANGED <<pending, conn, managed, ctx, fault>>
  BY DEF SignalArrives
<1> HIDE DEF h
<1>2. World' = Post(World, h)
  <2> DEFINE q == Append(queue, h)
  <2>1. Post(World, h) = [World EXCEPT !.queue = q]
    BY DEF World, Post
  <2>2. queue' = q
    BY <1>s
  <2> HIDE DEF q
  <2> QED
    BY <1>s, <2>1, <2>2 DEF World
<1>3. Good(World)'
  BY <1>1, <1>2, PostQuiet DEF Quiet
<1> QED
  BY <1>3 DEF IInv, SignalArrives

LEMMA EnvironmentIInv == IInv /\ Environment => IInv'
<1> SUFFICES ASSUME IInv, Environment PROVE IInv'
  OBVIOUS
<1>1. CASE SignalArrives
  BY <1>1, SignalIInv
<1>2. ASSUME NEW p \in pending,
             \/ \E n \in 0..ReqLen : ClientSends(p, n)
             \/ \E n \in 0..RespLen : ServerSends(p, n)
             \/ \E n \in 1..Len(p.data) : PeerReceives(p, n)
             \/ Succeeds(p) \/ Fails(p) \/ Closes(p) \/ SendsJunk(p) \/ TimerExpires(p)
      PROVE  IInv'
  <2>0. p \in PendingOps
    BY WorldFields DEF IInv, Good, Worlds
  <2>1. ASSUME NEW n \in 0..ReqLen, ClientSends(p, n)
        PROVE  IInv'
    <3> DEFINE more == last[Client][2] < ReqLen
               r == IF more THEN last[Client][1] ELSE last[Client][1] + 1
               i == IF more THEN last[Client][2] ELSE 0
    <3>1. last[Client] \in Unit
      BY DEF IInv
    <3>2. r \in Nat /\ i \in Nat /\ n \in Nat
      BY <3>1 DEF Unit
    <3>3. Sends(p, r, i, n)
      BY <2>1 DEF ClientSends
    <3> QED
      BY <3>2, <3>3, SendsIInv
  <2>2. ASSUME NEW n \in 0..RespLen, ServerSends(p, n)
        PROVE  IInv'
    <3> DEFINE sent == wire[p.conn]
               r == sent[Len(sent)][1]
               i == IF last[p.conn][1] = r THEN last[p.conn][2] ELSE 0
    <3>1. p.conn \in Conns
      BY <2>0 DEF PendingOps
    <3>2. sent \in Seq(Unit) /\ sent # << >> /\ last[p.conn] \in Unit
      BY <2>2, <3>1 DEF IInv, ServerSends
    <3>3. sent[Len(sent)] \in Unit
      BY <3>2, ElementOfSeq
    <3>4. r \in Nat /\ i \in Nat /\ n \in Nat
      BY <3>2, <3>3 DEF Unit
    <3>5. Sends(p, r, i, n)
      BY <2>2 DEF ServerSends
    <3> QED
      BY <3>4, <3>5, SendsIInv
  <2>3. CASE Succeeds(p) \/ Fails(p) \/ Closes(p) \/ SendsJunk(p) \/ TimerExpires(p)
    BY <2>3, EmptyCompletionIInv DEF Succeeds, Fails, Closes, SendsJunk, TimerExpires, Results
  <2> QED
    BY <1>2, <2>1, <2>2, <2>3, PeerReceivesIInv
<1> QED
  BY <1>1, <1>2 DEF Environment

LEMMA NextIInv == IInv /\ [Next]_vars => IInv'
<1> SUFFICES ASSUME IInv, [Next]_vars PROVE IInv'
  OBVIOUS
<1>1. CASE RunHandler
  BY <1>1, RunHandlerGood, RunHandlerPeers DEF IInv
<1>2. CASE Environment
  BY <1>2, EnvironmentIInv
<1>3. CASE UNCHANGED vars
  BY <1>3 DEF IInv, vars, World, Good, Known, Registered, Replaced
<1> QED
  BY <1>1, <1>2, <1>3 DEF Next, Waits

\* Every behaviour of a session keeps the inductive invariant.
THEOREM Invariance == Spec => []IInv
  BY InitIInv, NextIInv, PTL DEF Spec

\* Every variable has its type in every reachable state.
THEOREM TypeCorrect == Spec => []TypeOK
<1>1. IInv => TypeOK
  BY WorldFields DEF IInv, Good, Worlds, TypeOK
<1> QED
  BY <1>1, Invariance, PTL

\* The managers hold exactly the connections that exist and are not stopped:
\* stop() erases what on_client_message and the accept handler added, and
\* nothing else does.
THEOREM ManagersExact == Spec => []ManagedExact
<1>1. IInv => ManagedExact
  BY WorldFields DEF IInv, Good, Registered, ManagedExact, Created
<1> QED
  BY <1>1, Invariance, PTL

\* However requests, timeouts, failures and signals interleave, a session has
\* at most one server connection that is not stopped, the context's.
THEOREM OneServer == Spec => []OneServerConnection
<1>1. IInv => OneServerConnection
  <2> SUFFICES ASSUME IInv, NEW s \in Servers, s <= ctx.server, ~conn[s].stopped
               PROVE  s = ctx.server
    BY DEF OneServerConnection, Created
  <2>1. ctx.server \in Conns
    BY WorldFields, ServerType DEF IInv
  <2> QED
    BY <2>1, WorldFields DEF IInv, Good, Replaced
<1> QED
  BY <1>1, Invariance, PTL
=============================================================================
