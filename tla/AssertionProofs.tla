-------------------------- MODULE AssertionProofs --------------------------
(***************************************************************************)
(* The socket of a client is switched to TLS once: with ActivityProofs,    *)
(* the assertions of the code that no failure of a peer, timeout or signal *)
(* leads to never fail, for every value of the constants.                  *)
(*                                                                         *)
(* on_event(WRITE) starts the handshake whenever the session is an https   *)
(* one that is not set up, so a second WRITE in that phase would start it  *)
(* again.  There is none because a request is only read when buffer_out_   *)
(* is empty, every WRITE still queued then runs before the request does,   *)
(* and the answer to CONNECT is sent by one write.                         *)
(***************************************************************************)
EXTENDS ActivityProofs

-----------------------------------------------------------------------------
(* The invariant.                                                           *)
ClientKinds == {<<fn, Client>> : fn \in Going}
ServerKinds == StepKinds \ ClientKinds
HandshakeKinds == {<<"handshake", Client>>, <<"HANDSHAKE", Client>>}

Out(m) == m.conn[Client].out
Written(h) == h.fn = "WRITE"
NoWritten(m) == \A i \in 1..Len(m.queue) : ~Written(m.queue[i])

\* The client's handshake has started and has not been reported.
Securing(m) == m.ctx.https /\ ~m.ctx.ssl_setup /\ m.conn[Client].use_ssl

\* A completed write to the client has sent something.
Sent(h) == HandlerKind(h) = <<"write", Client>> /\ h.res = "ok" => h.data # << >>

\* Nothing is being sent to a client whose request or handshake is awaited,
\* and its handler runs after each WRITE that is queued.
Drained(m) == Kinds(m) \cap ClientKinds # {} => Out(m) = << >>
Behind(m) ==
  \A i, j \in 1..Len(m.queue) :
    Written(m.queue[i]) /\ HandlerKind(m.queue[j]) \in ClientKinds => i < j

\* The answer to CONNECT is one unit, followed by one WRITE.
Answering(m) ==
  Replying(m) =>
    /\ Out(m) # << >> => Len(Out(m)) = 1 /\ Len(Head(Out(m))) = 1 /\ NoWritten(m)
    /\ \A i, j \in 1..Len(m.queue) : Written(m.queue[i]) /\ Written(m.queue[j]) => i = j

\* Nothing but the handshake goes on while it does.
Secluded(m) ==
  Securing(m) => Out(m) = << >> /\ NoWritten(m) /\ Kinds(m) \cap StepKinds \subseteq HandshakeKinds

Chained(m) ==
  /\ Drained(m) /\ Behind(m) /\ Answering(m) /\ Secluded(m)
  /\ \A i \in 1..Len(m.queue) : Sent(m.queue[i])
  /\ m.conn[Client].use_ssl => m.ctx.https
  /\ m.fault # "ssl_twice"

-----------------------------------------------------------------------------
(* What a method does to it: it adds handlers to the queue that are no      *)
(* WRITE, and starts steps of the kinds in K.                               *)
Trails(m, w, K) ==
  /\ Len(m.queue) <= Len(w.queue)
  /\ \A i \in 1..Len(m.queue) : w.queue[i] = m.queue[i]
  /\ \A i \in 1..Len(w.queue) : i > Len(m.queue) => ~Written(w.queue[i]) /\ Sent(w.queue[i])
  /\ Kinds(w) \cap StepKinds \subseteq Kinds(m) \cup K
  /\ w.ctx.https = m.ctx.https /\ w.ctx.ssl_setup = m.ctx.ssl_setup
  /\ w.conn[Client].use_ssl = m.conn[Client].use_ssl
  /\ w.fault = "ssl_twice" => m.fault = "ssl_twice"

Follows(m, w, K) == Trails(m, w, K) /\ Out(w) = Out(m)

Moves(m, w, K) == Good(w) /\ w.ctx.server = m.ctx.server /\ Follows(m, w, K)

LEMMA LengthType ==
  ASSUME NEW m, Good(m)
  PROVE  Len(m.queue) \in Nat /\ m.queue \in Seq(Handlers) /\ m \in Worlds
BY DEF Good, Worlds

LEMMA KindsSplit ==
  /\ StepKinds = ClientKinds \cup ServerKinds /\ ClientKinds \cap ServerKinds = {}
  /\ ClientKinds \subseteq StepKinds /\ HandshakeKinds \subseteq ClientKinds
BY ClientIn DEF StepKinds, ClientKinds, ServerKinds, HandshakeKinds, Going

LEMMA TrailsTrans ==
  ASSUME NEW m, Good(m), NEW v, Good(v), NEW w, Good(w), NEW K,
         Trails(m, v, K), Trails(v, w, K)
  PROVE  Trails(m, w, K)
<1>1. Len(m.queue) \in Nat /\ Len(v.queue) \in Nat /\ Len(w.queue) \in Nat
  BY LengthType
<1>2. /\ Len(m.queue) <= Len(w.queue)
      /\ \A i \in 1..Len(m.queue) : i \in 1..Len(v.queue)
      /\ \A i \in 1..Len(w.queue) : i \in 1..Len(v.queue) \/ i > Len(v.queue)
  BY <1>1 DEF Trails
<1> QED
  BY <1>1, <1>2 DEF Trails

LEMMA TrailsMore ==
  ASSUME NEW m, NEW w, NEW K, Trails(m, w, K), NEW L, K \subseteq L
  PROVE  Trails(m, w, L)
BY DEF Trails

LEMMA MovesTrans ==
  ASSUME NEW m, Good(m), NEW v, NEW w, NEW K, Moves(m, v, K), Moves(v, w, K)
  PROVE  Moves(m, w, K)
BY TrailsTrans DEF Moves, Follows

LEMMA MovesMore ==
  ASSUME NEW m, NEW w, NEW K, Moves(m, w, K), NEW L, K \subseteq L
  PROVE  Moves(m, w, L)
BY TrailsMore DEF Moves, Follows

LEMMA MovesRefl ==
  ASSUME NEW m, Good(m), NEW K
  PROVE  Moves(m, m, K)
<1>1. Len(m.queue) \in Nat
  BY LengthType
<1> QED
  BY <1>1 DEF Moves, Follows, Trails

\* A method that follows keeps the invariant, if the steps it starts suit the
\* state of the client.
LEMMA FollowsChained ==
  ASSUME NEW m, Good(m), Chained(m), NEW w, NEW K, Moves(m, w, K),
         K \cap ClientKinds # {} => Out(m) = << >>,
         Securing(m) => K \cap StepKinds \subseteq HandshakeKinds
  PROVE  Chained(w)
<1>1. Len(m.queue) \in Nat /\ Len(w.queue) \in Nat
  BY LengthType DEF Moves
<1>2. Trails(m, w, K) /\ Out(w) = Out(m)
  BY DEF Moves, Follows
<1>3. \A i \in 1..Len(w.queue) : ~Written(w.queue[i]) \/ (i \in 1..Len(m.queue) /\ w.queue[i] = m.queue[i])
  BY <1>1, <1>2 DEF Trails
<1>4. \A i \in 1..Len(w.queue) : i > Len(m.queue) \/ (i \in 1..Len(m.queue) /\ w.queue[i] = m.queue[i])
  BY <1>1, <1>2 DEF Trails
<1>5. Drained(w)
  BY <1>2, KindsSplit DEF Trails, Drained, Chained
<1>6. Behind(w)
  <2> SUFFICES ASSUME NEW i \in 1..Len(w.queue), NEW j \in 1..Len(w.queue),
                      Written(w.queue[i]), HandlerKind(w.queue[j]) \in ClientKinds
               PROVE  i < j
    BY DEF Behind
  <2>1. i \in 1..Len(m.queue) /\ Written(m.queue[i])
    BY <1>3
  <2>2. CASE j > Len(m.queue)
    BY <1>1, <2>1, <2>2
  <2>3. CASE j \in 1..Len(m.queue) /\ w.queue[j] = m.queue[j]
    BY <2>1, <2>3 DEF Chained, Behind
  <2> QED
    BY <1>4, <2>2, <2>3
<1>7. NoWritten(m) => NoWritten(w)
  BY <1>3 DEF NoWritten
<1>8. Replying(w) <=> Replying(m)
  BY <1>2 DEF Replying, Trails
<1>9. Answering(w)
  BY <1>2, <1>3, <1>7, <1>8 DEF Answering, Chained
<1>10. Securing(w) <=> Securing(m)
  BY <1>2 DEF Securing, Trails
<1>11. Secluded(w)
  BY <1>2, <1>7, <1>10 DEF Secluded, Chained, Trails
<1>12. \A i \in 1..Len(w.queue) : Sent(w.queue[i])
  BY <1>2, <1>4 DEF Chained, Trails
<1> QED
  BY <1>2, <1>5, <1>6, <1>9, <1>11, <1>12 DEF Chained, Trails

\* What is sent to the client while no step of its own is awaited.
LEMMA SendsChained ==
  ASSUME NEW m, Good(m), Chained(m), ~Replying(m), ~Securing(m), Kinds(m) \cap StepKinds = {},
         NEW w, Good(w), Trails(m, w, ServerKinds)
  PROVE  Chained(w)
<1>1. Len(m.queue) \in Nat /\ Len(w.queue) \in Nat
  BY LengthType
<1>2. \A i \in 1..Len(w.queue) : ~Written(w.queue[i]) \/ (i \in 1..Len(m.queue) /\ w.queue[i] = m.queue[i])
  BY <1>1 DEF Trails
<1>3. \A i \in 1..Len(w.queue) : i > Len(m.queue) \/ (i \in 1..Len(m.queue) /\ w.queue[i] = m.queue[i])
  BY <1>1 DEF Trails
<1>4. Kinds(w) \cap ClientKinds = {}
  BY KindsSplit DEF Trails
<1>5. Drained(w) /\ Behind(w)
  <2>1. \A j \in 1..Len(w.queue) : HandlerKind(w.queue[j]) \notin ClientKinds
    BY <1>4 DEF Kinds
  <2> QED
    BY <1>4, <2>1 DEF Drained, Behind
<1>6. Answering(w) /\ Secluded(w)
  BY DEF Answering, Secluded, Replying, Securing, Trails
<1>7. \A i \in 1..Len(w.queue) : Sent(w.queue[i])
  BY <1>3 DEF Chained, Trails
<1> QED
  BY <1>5, <1>6, <1>7 DEF Chained, Trails

-----------------------------------------------------------------------------
(* The methods.                                                             *)

\* What a method leaves of the world, apart from the queue.
LEMMA FieldsTrails ==
  ASSUME NEW m, Good(m), NEW w, w.queue = m.queue, NEW K,
         Kinds(w) \cap StepKinds \subseteq Kinds(m) \cup K,
         w.ctx.https = m.ctx.https, w.ctx.ssl_setup = m.ctx.ssl_setup,
         w.conn[Client].use_ssl = m.conn[Client].use_ssl,
         w.fault = "ssl_twice" => m.fault = "ssl_twice"
  PROVE  Trails(m, w, K)
<1>1. Len(m.queue) \in Nat
  BY LengthType
<1> QED
  BY <1>1 DEF Trails

\* A handler joins the queue.
LEMMA AppendTrails ==
  ASSUME NEW m, Good(m), NEW h \in Handlers, ~Written(h), Sent(h),
         NEW w, w.queue = Append(m.queue, h), NEW K,
         Kinds(w) \cap StepKinds \subseteq Kinds(m) \cup K,
         w.ctx = m.ctx, w.conn = m.conn, w.fault = m.fault
  PROVE  Follows(m, w, K)
<1>1. Len(m.queue) \in Nat /\ m.queue \in Seq(Handlers)
  BY LengthType
<1>2. /\ Len(w.queue) = Len(m.queue) + 1
      /\ \A i \in 1..Len(m.queue) : w.queue[i] = m.queue[i]
      /\ w.queue[Len(m.queue) + 1] = h
  BY <1>1
<1>3. \A i \in 1..Len(w.queue) : i > Len(m.queue) => i = Len(m.queue) + 1
  BY <1>1, <1>2
<1> QED
  BY <1>1, <1>2, <1>3 DEF Follows, Trails, Out

LEMMA AbortMoves ==
  ASSUME NEW m, Good(m), NEW f \in Faults, f # "ssl_twice", NEW K
  PROVE  Moves(m, Abort(m, f), K)
<1> DEFINE w == Abort(m, f)
<1>1. /\ w.queue = m.queue /\ w.pending = m.pending
      /\ w.conn = m.conn /\ w.ctx = m.ctx /\ w.fault \in {m.fault, f}
  BY AbortFields, LengthType
<1>2. Good(w)
  BY AbortQuiet DEF Quiet
<1> HIDE DEF w
<1>3. Kinds(w) = Kinds(m)
  BY <1>1 DEF Kinds
<1>4. Moves(m, w, K)
  BY <1>1, <1>2, <1>3, FieldsTrails DEF Moves, Follows, Out
<1> QED
  BY <1>4 DEF w

LEMMA BeginMoves ==
  ASSUME NEW m, Good(m), NEW c \in 0..m.ctx.server, NEW op \in Operations, NEW d \in Seq(Unit),
         NEW K, <<op, c>> \in StepKinds => <<op, c>> \in K
  PROVE  Moves(m, Begin(m, op, c, d), K)
<1> DEFINE w == Begin(m, op, c, d)
<1>1. w.queue = m.queue /\ w.conn = m.conn /\ w.ctx = m.ctx /\ w.fault = m.fault
  BY BeginFields, LengthType
<1>2. Kinds(w) = Kinds(m) \cup {<<op, c>>}
  BY BeginAdds, LengthType DEF Adds
<1>3. Good(w)
  BY BeginQuiet DEF Quiet
<1> HIDE DEF w
<1>4. Moves(m, w, K)
  BY <1>1, <1>2, <1>3, FieldsTrails DEF Moves, Follows, Out
<1> QED
  BY <1>4 DEF w

LEMMA PostMoves ==
  ASSUME NEW m, Good(m), NEW c \in 0..m.ctx.server, NEW fn \in Tasks \ {"WRITE"},
         NEW K, <<fn, c>> \in StepKinds => <<fn, c>> \in K
  PROVE  Moves(m, Post(m, Task(fn, c)), K)
<1> DEFINE h == Task(fn, c)
           w == Post(m, h)
<1>1. /\ h \in HandlersUpTo(m.ctx.server) /\ h \in Handlers
      /\ HandlerKind(h) = <<fn, c>> /\ h.fn = fn
  BY TaskType, ServerType DEF HandlerKind, Task
<1>2. ~Written(h) /\ Sent(h)
  BY <1>1 DEF Written, Sent, Tasks, Events
<1>3. Good(w)
  BY <1>1, PostQuiet DEF Quiet
<1>4. Kinds(w) = Kinds(m) \cup {<<fn, c>>}
  BY PostAdds DEF Adds
<1> HIDE DEF h
<1>5. w.queue = Append(m.queue, h) /\ w.conn = m.conn /\ w.ctx = m.ctx /\ w.fault = m.fault
  BY LengthType DEF Post, Worlds
<1> HIDE DEF w
<1>6. Moves(m, w, K)
  BY <1>1, <1>2, <1>3, <1>4, <1>5, AppendTrails DEF Moves
<1> QED
  BY <1>6 DEF w, h

LEMMA CancelMoves ==
  ASSUME NEW m, Good(m), NEW c \in 0..m.ctx.server, NEW op \in Operations, NEW K
  PROVE  Moves(m, Cancel(m, op, c), K)
<1> DEFINE h == Completion(op, c, "error", << >>)
           w == Cancel(m, op, c)
<1>1. w.conn = m.conn /\ w.ctx = m.ctx /\ w.fault = m.fault /\ Kinds(w) = Kinds(m)
  BY CancelFields DEF Same
<1>2. Good(w)
  BY CancelQuiet DEF Quiet
<1>3. h \in Handlers /\ ~Written(h) /\ Sent(h)
  BY ServerType DEF Completion, Handlers, Results, Written, Sent, Operations
<1> HIDE DEF h
<1>4. w.queue = m.queue \/ w.queue = Append(m.queue, h)
  BY LengthType DEF Cancel, Worlds, h
<1> HIDE DEF w
<1>5. CASE w.queue = m.queue
  <2>1. Moves(m, w, K)
    BY <1>1, <1>2, <1>5, FieldsTrails DEF Moves, Follows, Out
  <2> QED
    BY <2>1 DEF w
<1>6. CASE w.queue = Append(m.queue, h)
  <2>1. Moves(m, w, K)
    BY <1>1, <1>2, <1>3, <1>6, AppendTrails DEF Moves
  <2> QED
    BY <2>1 DEF w
<1> QED
  BY <1>4, <1>5, <1>6

\* A change of the fields of one connection: of the client's, neither
\* buffer_out_ nor use_ssl_.
LEMMA SetMoves ==
  ASSUME NEW m, Good(m), NEW c \in Conns, NEW r \in Connections, r.stopped = m.conn[c].stopped,
         c = Client => r.out = m.conn[c].out /\ r.use_ssl = m.conn[c].use_ssl, NEW K
  PROVE  Moves(m, With(m, c, r), K)
<1> DEFINE w == With(m, c, r)
<1>1. /\ w.queue = m.queue /\ w.ctx = m.ctx /\ w.fault = m.fault
      /\ w.conn[c] = r /\ \A k \in Conns \ {c} : w.conn[k] = m.conn[k]
      /\ Kinds(w) = Kinds(m)
  BY SetFields, LengthType DEF Same
<1>2. Good(w)
  BY WithGood DEF Quiet
<1> HIDE DEF w
<1>3. Moves(m, w, K)
  BY <1>1, <1>2, ClientIn, FieldsTrails DEF Moves, Follows, Out
<1> QED
  BY <1>3 DEF w

LEMMA TimerStartMoves ==
  ASSUME NEW m, Good(m), NEW c \in 0..m.ctx.server, NEW K
  PROVE  Moves(m, timer_start(m, c), K)
<1> DEFINE r == [m.conn[c] EXCEPT !.running = TRUE]
           v == With(m, c, r)
<1>0. c \in Conns /\ m.conn[c] \in Connections /\ << >> \in Seq(Unit)
  BY ServerType, ConnType
<1>1. CASE m.conn[c].running
  BY <1>1, MovesRefl DEF timer_start
<1>2. CASE ~m.conn[c].running
  <2>1. timer_start(m, c) = Begin(v, "wait", c, << >>)
    BY <1>2 DEF timer_start, With
  <2>2. /\ r \in Connections /\ r.stopped = m.conn[c].stopped
        /\ r.out = m.conn[c].out /\ r.use_ssl = m.conn[c].use_ssl
    BY <1>0 DEF Connections
  <2> HIDE DEF r
  <2>3. Moves(m, v, K)
    BY <1>0, <2>2, SetMoves
  <2> HIDE DEF v
  <2>4. Good(v) /\ c \in 0..v.ctx.server /\ <<"wait", c>> \notin StepKinds
    BY <2>3 DEF Moves, StepKinds, Going
  <2>5. Moves(v, Begin(v, "wait", c, << >>), K)
    BY <1>0, <2>4, BeginMoves DEF Operations
  <2> QED
    BY <2>1, <2>3, <2>5, MovesTrans
<1> QED
  BY <1>1, <1>2

LEMMA CancelTimerMoves ==
  ASSUME NEW m, Good(m), NEW c \in 0..m.ctx.server, NEW K
  PROVE  Moves(m, cancel_timer(m, c), K)
BY CancelMoves, MovesRefl DEF cancel_timer, Operations

LEMMA CloseMoves ==
  ASSUME NEW m, Good(m), NEW c \in 0..m.ctx.server, NEW K
  PROVE  Moves(m, close(m, c), K)
<1> DEFINE m1 == Cancel(m, "read", c)
           m2 == Cancel(m1, "write", c)
           m3 == Cancel(m2, "handshake", c)
           m4 == Cancel(m3, "connect", c)
<1>0. close(m, c) = m4
  BY DEF close
<1>1. Moves(m, m1, K)
  BY CancelMoves DEF Operations
<1> HIDE DEF m1
<1>2. Moves(m, m2, K)
  BY <1>1, CancelMoves, MovesTrans DEF Operations, Moves
<1> HIDE DEF m2
<1>3. Moves(m, m3, K)
  BY <1>2, CancelMoves, MovesTrans DEF Operations, Moves
<1> HIDE DEF m3
<1>4. Moves(m, m4, K)
  BY <1>3, CancelMoves, MovesTrans DEF Operations, Moves
<1> QED
  BY <1>0, <1>4

LEMMA StopMoves ==
  ASSUME NEW m, Good(m), NEW c \in 0..m.ctx.server, NEW notify \in BOOLEAN, NEW K
  PROVE  Moves(m, stop(m, c, notify), K)
<1> DEFINE m1 == cancel_timer(m, c)
           m2 == IF m.conn[c].connected THEN close(m1, c) ELSE m1
           m3 == IF notify THEN Post(m2, Task("on_stop", c)) ELSE m2
           r == [m3.conn[c] EXCEPT !.connected = FALSE, !.stopped = TRUE]
           w == [m3 EXCEPT !.conn[c] = r, !.managed = @ \ {c}]
<1>0. c \in Conns
  BY ServerType
<1>1. CASE m.conn[c].stopped
  BY <1>1, MovesRefl DEF stop
<1>2. CASE ~m.conn[c].stopped
  <2>1. Moves(m, m1, K)
    BY CancelTimerMoves
  <2> HIDE DEF m1
  <2>2. Moves(m, m2, K)
    BY <2>1, CloseMoves, MovesTrans DEF Moves
  <2> HIDE DEF m2
  <2>3. Moves(m, m3, K)
    <3>1. Good(m2) /\ c \in 0..m2.ctx.server /\ <<"on_stop", c>> \notin StepKinds
      BY <2>2 DEF Moves, StepKinds, Going
    <3>2. Moves(m2, Post(m2, Task("on_stop", c)), K)
      BY <3>1, PostMoves DEF Tasks, Events
    <3> QED
      BY <2>2, <3>2, MovesTrans
  <2>4. stop(m, c, notify) = erase([m3 EXCEPT !.conn[c].connected = FALSE, !.conn[c].stopped = TRUE], c)
    BY <1>2 DEF stop, m1, m2
  <2> HIDE DEF m3
  <2>5. m3 \in Worlds /\ m3.conn[c] \in Connections
    BY <1>0, <2>3, ConnType DEF Moves, Good
  <2>6. stop(m, c, notify) = w
    BY <1>0, <2>4, <2>5 DEF erase, Worlds
  <2>7. r.out = m3.conn[c].out /\ r.use_ssl = m3.conn[c].use_ssl
    BY <2>5 DEF Connections
  <2> HIDE DEF r
  <2>8. /\ w.queue = m3.queue /\ w.pending = m3.pending /\ w.ctx = m3.ctx
        /\ w.fault = m3.fault /\ w.conn = [m3.conn EXCEPT ![c] = r]
        /\ m3.conn \in [Conns -> Connections]
    BY <2>5 DEF Worlds
  <2> HIDE DEF w
  <2>9. w.conn[c] = r /\ \A k \in Conns \ {c} : w.conn[k] = m3.conn[k]
    BY <1>0, <2>8
  <2>10. Kinds(w) = Kinds(m3)
    BY <2>8 DEF Kinds
  <2>11. w.conn[Client].out = m3.conn[Client].out /\ w.conn[Client].use_ssl = m3.conn[Client].use_ssl
    BY <2>7, <2>9, ClientIn
  <2>12. Good(w)
    BY <2>6, StopStops DEF Stops
  <2>13. Moves(m3, w, K)
    BY <2>3, <2>8, <2>10, <2>11, <2>12, FieldsTrails DEF Moves, Follows, Out
  <2> QED
    BY <2>3, <2>6, <2>13, MovesTrans
<1> QED
  BY <1>1, <1>2

LEMMA ReadMoves ==
  ASSUME NEW m, Good(m), NEW c \in 0..m.ctx.server, NEW K, <<"read", c>> \in K
  PROVE  Moves(m, read(m, c), K)
<1>1. << >> \in Seq(Unit)
  OBVIOUS
<1>2. Moves(m, Begin(m, "read", c, << >>), K)
  BY <1>1, BeginMoves DEF Operations
<1>3. Moves(m, Abort(m, "read_assert"), K)
  BY AbortMoves DEF Faults
<1> QED
  BY <1>2, <1>3 DEF read

\* do_write, to a client that is connected or to the current server.
LEMMA DoWriteMoves ==
  ASSUME NEW m, Good(m), NEW c \in 0..m.ctx.server,
         IF c = Client THEN m.conn[c].connected ELSE c = m.ctx.server,
         NEW K, ServerKinds \subseteq K
  PROVE  Moves(m, do_write(m, c), K)
<1> DEFINE r == [m.conn[c] EXCEPT !.writing = TRUE]
           v == With(m, c, r)
           d == Head(m.conn[c].out)
<1>0. c \in Conns /\ m.conn[c] \in Connections /\ << >> \in Seq(Unit)
  BY ServerType, ConnType
<1>1. CASE m.conn[c].writing \/ m.conn[c].out = << >>
  BY <1>1, MovesRefl DEF do_write
<1>2. CASE ~(m.conn[c].writing \/ m.conn[c].out = << >>) /\ ~m.conn[c].connected
  <2>0. c # Client /\ c \in Servers /\ c = m.ctx.server
    BY <1>0, <1>2, ClientIn
  <2>1. [m EXCEPT !.ctx.server = c] = m
    BY <2>0 DEF Good, Worlds, Contexts
  <2>2. do_write(m, c) = Begin(m, "resolve", c, << >>)
    BY <1>2, <2>0, <2>1 DEF do_write, start
  <2>3. <<"resolve", c>> \in K
    BY <1>0, <2>0 DEF ServerKinds, ClientKinds, StepKinds, Going
  <2> QED
    BY <1>0, <2>2, <2>3, BeginMoves DEF Operations
<1>3. CASE ~(m.conn[c].writing \/ m.conn[c].out = << >>) /\ m.conn[c].connected
  <2>1. do_write(m, c) = Begin(v, "write", c, d)
    BY <1>3 DEF do_write, With
  <2>2. /\ r \in Connections /\ r.stopped = m.conn[c].stopped
        /\ r.out = m.conn[c].out /\ r.use_ssl = m.conn[c].use_ssl
    BY <1>0 DEF Connections
  <2>3. d \in Seq(Unit)
    <3>1. m.conn[c].out \in Seq(Seq(Unit)) /\ m.conn[c].out # << >>
      BY <1>0, <1>3 DEF Connections
    <3> QED
      BY <3>1
  <2> HIDE DEF r, d
  <2>4. Moves(m, v, K)
    BY <1>0, <2>2, SetMoves
  <2> HIDE DEF v
  <2>5. <<"write", c>> \in StepKinds => <<"write", c>> \in K
    BY ClientIn DEF ServerKinds, ClientKinds, StepKinds, Going
  <2>6. Moves(v, Begin(v, "write", c, d), K)
    BY <2>3, <2>4, <2>5, BeginMoves DEF Operations, Moves
  <2> QED
    BY <2>1, <2>4, <2>6, MovesTrans
<1> QED
  BY <1>1, <1>2, <1>3

LEMMA WriteBufferedMoves ==
  ASSUME NEW m, Good(m), NEW s \in Servers, s = m.ctx.server, NEW K, ServerKinds \subseteq K
  PROVE  Moves(m, write_buffered(m, s), K)
<1> DEFINE v == cancel_timer(m, s)
<1>0. s \in 0..m.ctx.server /\ s # Client
  BY ServingIn, ClientIn
<1>1. Moves(m, Abort(m, "write_assert"), K)
  BY AbortMoves DEF Faults
<1>2. Moves(m, v, K)
  BY <1>0, CancelTimerMoves
<1>3. write_buffered(m, s) \in {Abort(m, "write_assert"), do_write(v, s)}
  BY DEF write_buffered
<1> HIDE DEF v
<1>4. Moves(v, do_write(v, s), K)
  BY <1>0, <1>2, DoWriteMoves DEF Moves
<1> QED
  BY <1>1, <1>2, <1>3, <1>4, MovesTrans

\* A change of the client's buffer_out_.
LEMMA SetTrails ==
  ASSUME NEW m, Good(m), NEW r \in Connections, r.stopped = m.conn[Client].stopped,
         r.use_ssl = m.conn[Client].use_ssl, NEW K
  PROVE  LET w == With(m, Client, r)
         IN  /\ Good(w) /\ w.ctx = m.ctx /\ w.conn[Client] = r /\ Trails(m, w, K)
             /\ w.queue = m.queue /\ Kinds(w) = Kinds(m)
<1> DEFINE w == With(m, Client, r)
<1>1. /\ w.queue = m.queue /\ w.ctx = m.ctx /\ w.fault = m.fault
      /\ w.conn[Client] = r /\ Kinds(w) = Kinds(m)
  BY SetFields, LengthType, ClientIn DEF Same
<1>2. Good(w)
  BY WithGood, ClientIn DEF Quiet
<1> HIDE DEF w
<1>3. Trails(m, w, K)
  BY <1>1, FieldsTrails
<1>4. /\ Good(w) /\ w.ctx = m.ctx /\ w.conn[Client] = r /\ Trails(m, w, K)
      /\ w.queue = m.queue /\ Kinds(w) = Kinds(m)
  BY <1>1, <1>2, <1>3
<1> QED
  BY <1>4 DEF w

LEMMA WriteServerMoves ==
  ASSUME NEW m, Good(m), NEW s \in Servers, s = m.ctx.server, NEW msg \in Seq(Unit),
         NEW K, ServerKinds \subseteq K
  PROVE  Moves(m, write(m, s, msg, TRUE), K)
<1> DEFINE under == m.conn[s].encoded # OutLen(s) /\ m.conn[s].encoded > Len(msg)
<1>0. s \in 0..m.ctx.server /\ s # Client /\ s \in Conns
  BY ServingIn, ClientIn
<1>1. Moves(m, Abort(m, "write_assert"), K) /\ Moves(m, Abort(m, "encode_underflow"), K)
  BY AbortMoves DEF Faults
<1>2. CASE m.conn[s].stopped \/ under
  BY <1>1, <1>2 DEF write
<1>3. CASE ~m.conn[s].stopped /\ ~under
  <2>1. m.conn[s].encoded \in Nat /\ Len(msg) \in Nat
    BY <1>0, ConnType DEF Connections
  <2>2. m.conn[s].encoded = OutLen(s) \/ m.conn[s].encoded <= Len(msg)
    BY <1>3, <2>1
  <2>3. PICK v, r : Encodes(m, s, msg, TRUE, v, r)
    BY <1>0, <1>3, <2>2, WriteParts
  <2> DEFINE u == With(v, s, r)
  <2>4. /\ v = cancel_timer(m, s) /\ write(m, s, msg, TRUE) = do_write(u, s)
        /\ r \in Connections /\ r.stopped = v.conn[s].stopped
    BY <2>3 DEF Encodes
  <2>5. Moves(m, v, K) /\ Good(v)
    BY <1>0, <2>4, CancelTimerMoves DEF Moves
  <2>6. Moves(v, u, K)
    BY <1>0, <2>4, <2>5, SetMoves
  <2> HIDE DEF u
  <2>7. Moves(u, do_write(u, s), K)
    BY <1>0, <2>5, <2>6, DoWriteMoves DEF Moves
  <2> QED
    BY <2>4, <2>5, <2>6, <2>7, MovesTrans, ZenonT(30)
<1> QED
  BY <1>2, <1>3

LEMMA WriteClientTrails ==
  ASSUME NEW m, Good(m), Always(m), NEW msg \in Seq(Unit), NEW completed \in BOOLEAN,
         NEW w, w = write(m, Client, msg, completed)
  PROVE  /\ Good(w) /\ w.ctx.server = m.ctx.server /\ Trails(m, w, ServerKinds)
         /\ Out(w) \in {Out(m), Append(Out(m), Encoding(m, Client, msg))}
<1> DEFINE under == m.conn[Client].encoded # OutLen(Client) /\ m.conn[Client].encoded > Len(msg)
           K == ServerKinds
<1>0. Client \in 0..m.ctx.server /\ Client \in Conns
  BY ClientExistsGood
<1>1. Moves(m, Abort(m, "write_assert"), K) /\ Moves(m, Abort(m, "encode_underflow"), K)
  BY AbortMoves DEF Faults
<1>2. CASE m.conn[Client].stopped \/ under
  <2>1. w \in {Abort(m, "write_assert"), Abort(m, "encode_underflow")}
    BY <1>2 DEF write
  <2> QED
    BY <1>1, <2>1 DEF Moves, Follows
<1>3. CASE ~m.conn[Client].stopped /\ ~under
  <2>1. m.conn[Client].encoded \in Nat /\ Len(msg) \in Nat
    BY <1>0, ConnType DEF Connections
  <2>2. m.conn[Client].encoded = OutLen(Client) \/ m.conn[Client].encoded <= Len(msg)
    BY <1>3, <2>1
  <2>3. PICK v, r : Encodes(m, Client, msg, completed, v, r)
    BY <1>0, <1>3, <2>2, WriteParts
  <2> DEFINE u == With(v, Client, r)
  <2>4. /\ v = cancel_timer(m, Client) /\ w = do_write(u, Client) /\ Silent(m, v) /\ Quiet(m, v)
        /\ r \in Connections /\ r.stopped = v.conn[Client].stopped
        /\ r.use_ssl = v.conn[Client].use_ssl /\ r.connected = v.conn[Client].connected
        /\ r.out \in {v.conn[Client].out, Append(v.conn[Client].out, Encoding(m, Client, msg))}
    BY <2>3 DEF Encodes
  <2>5. Moves(m, v, K) /\ Good(v)
    BY <1>0, <2>4, CancelTimerMoves DEF Moves
  <2>6. Good(u) /\ u.ctx = v.ctx /\ u.conn[Client] = r /\ Trails(v, u, K)
    BY <2>4, <2>5, SetTrails
  <2> HIDE DEF u
  <2>7. u.conn[Client].connected
    <3>1. m.conn[Client].connected
      BY <1>3 DEF Always
    <3>2. v.conn[Client].connected = m.conn[Client].connected \/ v.conn[Client].stopped
      BY <1>0, <2>4 DEF Silent, Calm
    <3>3. v.conn[Client].stopped = m.conn[Client].stopped
      BY <1>0, <2>4 DEF Quiet
    <3> QED
      BY <1>3, <2>4, <2>6, <3>1, <3>2, <3>3
  <2>8. Moves(u, w, K)
    <3>1. Client \in 0..u.ctx.server
      BY <2>6, ClientExistsGood
    <3> QED
      BY <2>4, <2>6, <2>7, <3>1, DoWriteMoves
  <2>9. Out(w) = r.out /\ Out(v) = Out(m)
    BY <2>5, <2>6, <2>8 DEF Moves, Follows, Out
  <2>10. Out(w) \in {Out(m), Append(Out(m), Encoding(m, Client, msg))}
    BY <2>4, <2>9 DEF Out
  <2>11. Trails(m, u, K)
    BY <2>5, <2>6, TrailsTrans DEF Moves, Follows
  <2>12. Trails(m, w, K)
    BY <2>6, <2>8, <2>11, TrailsTrans DEF Moves, Follows
  <2> QED
    BY <2>5, <2>6, <2>8, <2>10, <2>12 DEF Moves
<1> QED
  BY <1>2, <1>3

-----------------------------------------------------------------------------
(* The handlers.                                                            *)
LEMMA RestsChained ==
  ASSUME NEW m, Good(m), Chained(m), NEW w, Moves(m, w, {})
  PROVE  Chained(w)
<1>1. {} \cap ClientKinds = {} /\ {} \cap StepKinds \subseteq HandshakeKinds
  OBVIOUS
<1> QED
  BY <1>1, FollowsChained

LEMMA ServesChained ==
  ASSUME NEW m, Good(m), Chained(m), ~Securing(m), NEW w, Moves(m, w, ServerKinds)
  PROVE  Chained(w)
<1>1. ServerKinds \cap ClientKinds = {}
  BY KindsSplit
<1> QED
  BY <1>1, FollowsChained

LEMMA ServerKind ==
  ASSUME NEW s \in Servers, NEW fn \in Going \cup {"write"}
  PROVE  <<fn, s>> \in ServerKinds
BY ClientIn DEF ServerKinds, ClientKinds, StepKinds

LEMMA OnTimerChained ==
  ASSUME NEW m, Good(m), Chained(m), NEW c \in 0..m.ctx.server, NEW res
  PROVE  Chained(on_timer(m, c, res))
<1> DEFINE r == [m.conn[c] EXCEPT !.running = FALSE]
           v == With(m, c, r)
<1>0. c \in Conns /\ m.conn[c] \in Connections
  BY ServerType, ConnType
<1>1. /\ r \in Connections /\ r.stopped = m.conn[c].stopped
      /\ r.out = m.conn[c].out /\ r.use_ssl = m.conn[c].use_ssl
  BY <1>0 DEF Connections
<1>2. on_timer(m, c, res) \in {v, stop(v, c, c = Client)}
  BY DEF on_timer, With
<1> HIDE DEF r
<1>3. Moves(m, v, {})
  BY <1>0, <1>1, SetMoves
<1> HIDE DEF v
<1>4. Moves(v, stop(v, c, c = Client), {})
  BY <1>3, StopMoves DEF Moves
<1>5. Moves(m, stop(v, c, c = Client), {})
  BY <1>3, <1>4, MovesTrans
<1> QED
  BY <1>2, <1>3, <1>5, RestsChained

LEMMA OnStopChained ==
  ASSUME NEW m, Good(m), Chained(m), NEW c
  PROVE  Chained(on_stop(m, c))
<1>0. Client \in 0..m.ctx.server /\ m.ctx.server \in 0..m.ctx.server
  BY ClientExistsGood, ServingIn
<1>1. on_stop(m, c) \in {m, stop(m, Client, FALSE), stop(m, m.ctx.server, FALSE)}
  BY DEF on_stop
<1>2. Moves(m, stop(m, Client, FALSE), {}) /\ Moves(m, stop(m, m.ctx.server, FALSE), {})
  BY <1>0, StopMoves
<1> QED
  BY <1>1, <1>2, RestsChained

LEMMA StopAllChained ==
  ASSUME NEW m, Good(m), Chained(m), m.ctx = ctx,
         NEW stopped, stopped = IF Client \in managed THEN stop(m, Client, FALSE) ELSE m,
         NEW all, all = IF ctx.server \in managed THEN stop(stopped, ctx.server, FALSE) ELSE stopped,
         NEW w, w = [all EXCEPT !.managed = {}], Good(w)
  PROVE  Chained(w)
<1>0. Client \in 0..m.ctx.server /\ m.ctx.server \in 0..m.ctx.server
  BY ClientExistsGood, ServingIn
<1>1. Moves(m, stopped, {})
  BY <1>0, StopMoves, MovesRefl
<1>2. Moves(m, all, {})
  <2>1. Good(stopped) /\ ctx.server \in 0..stopped.ctx.server
    BY <1>0, <1>1 DEF Moves
  <2>2. Moves(stopped, all, {})
    BY <2>1, StopMoves, MovesRefl
  <2> QED
    BY <1>1, <2>2, MovesTrans
<1>3. all \in Worlds /\ Good(all)
  BY <1>2 DEF Moves, Good
<1>4. /\ w.queue = all.queue /\ w.pending = all.pending /\ w.conn = all.conn
      /\ w.ctx = all.ctx /\ w.fault = all.fault
  BY <1>3 DEF Worlds
<1>5. Kinds(w) = Kinds(all)
  BY <1>4 DEF Kinds
<1>6. Moves(all, w, {})
  BY <1>3, <1>4, <1>5, FieldsTrails DEF Moves, Follows, Out
<1> QED
  BY <1>2, <1>6, MovesTrans, RestsChained

LEMMA OnResolveChained ==
  ASSUME NEW m, Good(m), Chained(m), ~Securing(m), NEW s \in Servers, s = m.ctx.server, NEW res
  PROVE  Chained(on_resolve(m, s, res)) /\ Chained(server_on_handshake(m, s, res))
<1>0. s \in 0..m.ctx.server /\ << >> \in Seq(Unit)
  BY ServingIn
<1>1. Moves(m, m, ServerKinds) /\ Moves(m, stop(m, s, TRUE), ServerKinds)
  BY <1>0, MovesRefl, StopMoves
<1>2. Moves(m, Begin(m, "connect", s, << >>), ServerKinds)
  BY <1>0, BeginMoves, ServerKind DEF Operations, Going
<1>3. Moves(m, Post(m, Task("HANDSHAKE", s)), ServerKinds)
  BY <1>0, PostMoves, ServerKind DEF Tasks, Events, Going
<1> QED
  BY <1>1, <1>2, <1>3, ServesChained DEF on_resolve, server_on_handshake

LEMMA OnConnectChained ==
  ASSUME NEW m, Good(m), Chained(m), ~Securing(m), NEW s \in Servers, s = m.ctx.server, NEW res
  PROVE  Chained(on_connect(m, s, res))
<1> DEFINE r == [m.conn[s] EXCEPT !.connected = TRUE]
           v == With(m, s, r)
<1>0. s \in 0..m.ctx.server /\ s \in Conns /\ s # Client /\ m.conn[s] \in Connections
  BY ServingIn, ClientIn, ConnType
<1>1. Moves(m, m, ServerKinds) /\ Moves(m, stop(m, s, TRUE), ServerKinds)
  BY <1>0, MovesRefl, StopMoves
<1>2. r \in Connections /\ r.stopped = m.conn[s].stopped
  BY <1>0 DEF Connections
<1>3. on_connect(m, s, res) \in {m, stop(m, s, TRUE), Post(v, Task("CONNECT", s))}
  BY DEF on_connect, With
<1> HIDE DEF r
<1>4. Moves(m, v, ServerKinds)
  BY <1>0, <1>2, SetMoves
<1> HIDE DEF v
<1>5. Moves(v, Post(v, Task("CONNECT", s)), ServerKinds)
  BY <1>0, <1>4, PostMoves, ServerKind DEF Tasks, Events, Going, Moves
<1> QED
  BY <1>1, <1>3, <1>4, <1>5, MovesTrans, ServesChained

LEMMA OnServerConnectedChained ==
  ASSUME NEW m, Good(m), Chained(m), ~Securing(m), NEW s \in Servers, s = m.ctx.server,
         NEW fn \in {"CONNECT", "HANDSHAKE"}, Ready(m, fn, s)
  PROVE  /\ fn = "CONNECT" => Chained(on_server_connected(m, s))
         /\ Chained(on_server_secured(m, s))
<1> DEFINE r == [m.conn[s] EXCEPT !.use_ssl = TRUE]
           v == With(m, s, r)
           w == Begin(v, "handshake", s, << >>)
<1>0. /\ s \in 0..m.ctx.server /\ s \in Conns /\ s # Client /\ m.conn[s] \in Connections
      /\ << >> \in Seq(Unit)
  BY ServingIn, ClientIn, ConnType
<1>1. Moves(m, write_buffered(m, s), ServerKinds)
  BY WriteBufferedMoves
<1>2. r \in Connections /\ r.stopped = m.conn[s].stopped
  BY <1>0 DEF Connections
<1>3. fn = "CONNECT" => on_server_connected(m, s) \in {write_buffered(m, s), w}
  BY <1>0 DEF on_server_connected, server_handshake, switch_to_ssl, With, Ready
<1> HIDE DEF r
<1>4. Moves(m, v, ServerKinds)
  BY <1>0, <1>2, SetMoves
<1> HIDE DEF v
<1>5. Moves(v, w, ServerKinds)
  <2>1. <<"handshake", s>> \in ServerKinds
    BY ServerKind DEF Going
  <2>2. Good(v) /\ s \in 0..v.ctx.server
    BY <1>0, <1>4 DEF Moves
  <2> QED
    BY <1>0, <2>1, <2>2, BeginMoves DEF Operations
<1> HIDE DEF w
<1>6. Moves(m, w, ServerKinds)
  BY <1>4, <1>5, MovesTrans
<1>7. Chained(w) /\ Chained(write_buffered(m, s))
  BY <1>1, <1>6, ServesChained
<1> QED
  BY <1>3, <1>7 DEF on_server_secured

\* connection::on_write as a change of writing_ (v) and, if the write was
\* successful, of buffer_out_ (q), followed by what it calls.
Goes(m, c, res, data, v, q) ==
  \/ on_write(m, c, res, data) \in {v, stop(v, c, TRUE), Abort(m, "end_iterator")}
  \/ /\ ~m.conn[c].stopped /\ res = "ok" /\ m.conn[c].out # << >>
     /\ q \in Connections /\ q.stopped = v.conn[c].stopped /\ q.use_ssl = v.conn[c].use_ssl
     /\ q.connected = m.conn[c].connected
     /\ q.out = unsent(m.conn[c].out, Len(data))
     /\ on_write(m, c, res, data) = IF q.out # << >> THEN do_write(With(v, c, q), c)
                                                     ELSE on_written(With(v, c, q), c)

LEMMA OnWriteGoes ==
  ASSUME NEW m, Good(m), NEW c \in 0..m.ctx.server, NEW res, NEW data \in Seq(Unit)
  PROVE  \E v, q : /\ Goes(m, c, res, data, v, q)
                   /\ Moves(m, v, {}) /\ v.queue = m.queue /\ Kinds(v) = Kinds(m) /\ v.ctx = m.ctx
<1> DEFINE out == m.conn[c].out
           r == [m.conn[c] EXCEPT !.writing = FALSE]
           v == With(m, c, r)
           o == unsent(out, Len(data))
           q == [v.conn[c] EXCEPT !.out = o]
           w == With(v, c, q)
<1>0. c \in Conns
  BY ServerType
<1>1. m.conn[c] \in Connections
  BY <1>0, ConnType
<1>2. /\ r \in Connections /\ r.stopped = m.conn[c].stopped /\ r.connected = m.conn[c].connected
      /\ r.out = m.conn[c].out /\ r.use_ssl = m.conn[c].use_ssl
  BY <1>1 DEF Connections
<1>3. /\ v = [m EXCEPT !.conn[c].writing = FALSE]
      /\ w = [v EXCEPT !.conn[c].out = o]
  BY DEF With
<1>4. Moves(m, v, {}) /\ v.conn[c] = r /\ v.queue = m.queue /\ Kinds(v) = Kinds(m) /\ v.ctx = m.ctx
  <2> HIDE DEF r
  <2> QED BY <1>0, <1>2, SetMoves, SetFields, LengthType DEF Same
<1>5. CASE m.conn[c].stopped \/ res # "ok" \/ out = << >>
  <2>1. on_write(m, c, res, data) \in {v, stop(v, c, TRUE), Abort(m, "end_iterator")}
    BY <1>3, <1>5 DEF on_write
  <2> HIDE DEF v, q
  <2>2. Goes(m, c, res, data, v, q)
    BY <2>1 DEF Goes
  <2> QED
    BY <1>4, <2>2
<1>6. CASE ~(m.conn[c].stopped \/ res # "ok" \/ out = << >>)
  <2>2. out \in Seq(Seq(Unit)) /\ Len(data) \in Nat
    BY <1>1 DEF Connections
  <2>3. o \in Seq(Seq(Unit))
    BY <1>6, <2>2, UnsentType
  <2>4. on_write(m, c, res, data) = IF w.conn[c].out # << >> THEN do_write(w, c) ELSE on_written(w, c)
    <3> DEFINE i == [m EXCEPT !.conn[c].writing = FALSE]
               x == [i EXCEPT !.conn[c].out = o]
    <3>1. on_write(m, c, res, data) = IF x.conn[c].out # << >> THEN do_write(x, c) ELSE on_written(x, c)
      BY <1>6 DEF on_write
    <3>2. x = w
      BY <1>3
    <3> HIDE DEF x, w
    <3> QED
      BY <3>1, <3>2
  <2>o. o = unsent(out, Len(data))
    OBVIOUS
  <2> HIDE DEF v, o
  <2>5. v.conn[c] \in Connections /\ Good(v) /\ v \in Worlds
    BY <1>0, <1>4, ConnType, LengthType DEF Moves
  <2>6. /\ q \in Connections /\ q.stopped = v.conn[c].stopped /\ q.use_ssl = v.conn[c].use_ssl
        /\ q.connected = v.conn[c].connected /\ q.out = o
    BY <2>3, <2>5 DEF Connections
  <2> HIDE DEF q, r
  <2>7. w.conn[c] = q
    BY <1>0, <2>5, SetFields
  <2>8. Goes(m, c, res, data, v, q)
    <3>1. on_write(m, c, res, data) = IF q.out # << >> THEN do_write(w, c) ELSE on_written(w, c)
      BY <2>4, <2>7
    <3>2. q.connected = m.conn[c].connected
      BY <1>2, <1>4, <2>6
    <3> QED
      BY <1>6, <2>6, <2>o, <3>1, <3>2 DEF Goes
  <2> QED
    BY <1>4, <2>8
<1> QED
  BY <1>5, <1>6

LEMMA OnWriteServerChained ==
  ASSUME NEW m, Good(m), Chained(m), ~Securing(m), NEW s \in Servers, s = m.ctx.server,
         NEW res, NEW data \in Seq(Unit)
  PROVE  Chained(on_write(m, s, res, data))
<1> DEFINE K == ServerKinds
<1>0. s \in 0..m.ctx.server /\ s \in Conns /\ s # Client
  BY ServingIn, ClientIn
<1>1. PICK v, q : Goes(m, s, res, data, v, q) /\ Moves(m, v, {})
  BY <1>0, OnWriteGoes
<1>2. Moves(m, v, K) /\ Good(v) /\ s = v.ctx.server
  BY <1>1, MovesMore DEF Moves
<1>3. Moves(m, stop(v, s, TRUE), K) /\ Moves(m, Abort(m, "end_iterator"), K)
  <2>1. Moves(v, stop(v, s, TRUE), K)
    BY <1>0, <1>2, StopMoves
  <2>2. Moves(m, Abort(m, "end_iterator"), K)
    BY AbortMoves DEF Faults
  <2> QED
    BY <1>2, <2>1, <2>2, MovesTrans
<1>4. CASE on_write(m, s, res, data) \in {v, stop(v, s, TRUE), Abort(m, "end_iterator")}
  BY <1>2, <1>3, <1>4, ServesChained
<1>5. CASE /\ q \in Connections /\ q.stopped = v.conn[s].stopped
           /\ on_write(m, s, res, data) = IF q.out # << >> THEN do_write(With(v, s, q), s)
                                                           ELSE on_written(With(v, s, q), s)
  <2> DEFINE w == With(v, s, q)
  <2>1. Moves(v, w, K)
    BY <1>0, <1>2, <1>5, SetMoves
  <2> HIDE DEF w
  <2>2. Good(w) /\ s = w.ctx.server /\ s \in 0..w.ctx.server
    BY <1>0, <1>2, <2>1 DEF Moves
  <2>3. Moves(w, do_write(w, s), K)
    BY <1>0, <2>2, DoWriteMoves
  <2>4. <<"read", s>> \in K
    BY ServerKind DEF Going
  <2>5. Moves(w, on_written(w, s), K)
    BY <1>0, <2>2, <2>4, ReadMoves DEF on_written
  <2>6. Moves(m, w, K)
    BY <1>2, <2>1, MovesTrans
  <2>7. Moves(m, do_write(w, s), K) /\ Moves(m, on_written(w, s), K)
    BY <2>3, <2>5, <2>6, MovesTrans
  <2> QED
    BY <1>5, <2>7, ServesChained DEF w
<1> QED
  BY <1>1, <1>4, <1>5 DEF Goes

LEMMA ClientOnHandshakeChained ==
  ASSUME NEW m, Good(m), Chained(m), Out(m) = << >>, NEW res
  PROVE  Chained(client_on_handshake(m, res))
<1> DEFINE r == [m.conn[Client] EXCEPT !.message = << >>, !.encoded = 0]
           v == With(m, Client, r)
           K == {<<"HANDSHAKE", Client>>}
<1>0. Client \in 0..m.ctx.server /\ Client \in Conns /\ m.conn[Client] \in Connections
  BY ClientExistsGood, ConnType
<1>e. << >> \in Seq(Unit)
  OBVIOUS
<1>1. Moves(m, m, K) /\ Moves(m, stop(m, Client, TRUE), K)
  BY <1>0, MovesRefl, StopMoves
<1>2. /\ r \in Connections /\ r.stopped = m.conn[Client].stopped
      /\ r.out = m.conn[Client].out /\ r.use_ssl = m.conn[Client].use_ssl
  BY <1>0, <1>e DEF Connections
<1>3. client_on_handshake(m, res) \in {m, stop(m, Client, TRUE), Post(v, Task("HANDSHAKE", Client))}
  <2>1. [m EXCEPT !.conn[Client].message = << >>, !.conn[Client].encoded = 0] = v
    BY <1>0, LengthType DEF With, Worlds
  <2> QED
    BY <2>1 DEF client_on_handshake
<1> HIDE DEF r
<1>4. Moves(m, v, K)
  BY <1>0, <1>2, SetMoves
<1> HIDE DEF v
<1>5. Moves(v, Post(v, Task("HANDSHAKE", Client)), K)
  <2>1. Good(v) /\ Client \in 0..v.ctx.server
    BY <1>0, <1>4 DEF Moves
  <2> QED
    BY <2>1, PostMoves DEF Tasks, Events
<1>6. Moves(m, Post(v, Task("HANDSHAKE", Client)), K)
  BY <1>4, <1>5, MovesTrans
<1>7. K \cap StepKinds \subseteq HandshakeKinds
  BY DEF HandshakeKinds
<1> HIDE DEF K
<1> QED
  BY <1>1, <1>3, <1>6, <1>7, FollowsChained

LEMMA DecodedMoves ==
  ASSUME NEW m, Good(m), NEW c \in 0..m.ctx.server, NEW data \in Seq(Unit), NEW K
  PROVE  Moves(m, Decoded(m, c, data), K)
<1> DEFINE v == cancel_timer(m, c)
           d == v.conn[c].message \o data
           r == [v.conn[c] EXCEPT !.message = d]
<1>0. c \in Conns
  BY ServerType
<1>1. Moves(m, v, K)
  BY CancelTimerMoves
<1>2. Good(v) /\ v.conn[c] \in Connections /\ v.conn[c].message \in Seq(Unit)
  BY <1>0, <1>1, ConnType, MessageType DEF Moves
<1>3. d \in Seq(Unit)
  BY <1>2, ConcatProperties
<1>4. Decoded(m, c, data) = With(v, c, r)
  BY DEF With, Decoded
<1> HIDE DEF v, d
<1>5. /\ r \in Connections /\ r.stopped = v.conn[c].stopped
      /\ r.out = v.conn[c].out /\ r.use_ssl = v.conn[c].use_ssl
  BY <1>2, <1>3 DEF Connections
<1> HIDE DEF r
<1>6. Moves(v, With(v, c, r), K)
  BY <1>0, <1>2, <1>5, SetMoves
<1> QED
  BY <1>1, <1>4, <1>6, MovesTrans

LEMMA ClientOnReadChained ==
  ASSUME NEW m, Good(m), Chained(m), ~Securing(m), Out(m) = << >>, NEW res, NEW data \in Seq(Unit)
  PROVE  Chained(client_on_read(m, res, data))
<1> DEFINE w == Decoded(m, Client, data)
           z == Post(w, Task("READ", Client))
           K == StepKinds
<1>0. Client \in 0..m.ctx.server /\ <<"read", Client>> \in K /\ <<"READ", Client>> \in K
  BY ClientExistsGood, ClientIn DEF StepKinds, Going
<1>1. client_on_read(m, res, data) \in {m, stop(m, Client, TRUE), read(w, Client), timer_start(z, Client)}
  BY DEF client_on_read, Decoded
<1>2. Moves(m, m, K) /\ Moves(m, stop(m, Client, TRUE), K)
  BY <1>0, MovesRefl, StopMoves
<1>3. Moves(m, w, K)
  BY <1>0, DecodedMoves
<1> HIDE DEF w, K
<1>4. Good(w) /\ Client \in 0..w.ctx.server
  BY <1>0, <1>3 DEF Moves
<1>5. Moves(m, read(w, Client), K)
  BY <1>0, <1>3, <1>4, ReadMoves, MovesTrans
<1>6. Moves(w, z, K)
  BY <1>0, <1>4, PostMoves DEF Tasks, Events
<1> HIDE DEF z
<1>7. Moves(z, timer_start(z, Client), K)
  BY <1>4, <1>6, TimerStartMoves DEF Moves
<1>8. Moves(m, timer_start(z, Client), K)
  BY <1>3, <1>6, <1>7, MovesTrans
<1> QED
  BY <1>1, <1>2, <1>5, <1>8, FollowsChained

LEMMA ServerOnReadChained ==
  ASSUME NEW m, Good(m), Chained(m), ~Securing(m), NEW s \in Servers, s = m.ctx.server,
         NEW res, NEW data \in Seq(Unit)
  PROVE  Chained(server_on_read(m, s, res, data))
<1> DEFINE w == Decoded(m, s, data)
           r == [m.conn[s] EXCEPT !.connected = FALSE]
           ended == With(m, s, r)
           K == ServerKinds
<1>0. s \in 0..m.ctx.server /\ s # Client /\ s \in Conns /\ m.conn[s] \in Connections
  BY ServingIn, ClientIn, ConnType
<1>1. server_on_read(m, s, res, data) \in
        {m, stop(m, s, TRUE), stop(ended, s, TRUE), Abort(m, "decode_assert"), Post(w, Task("READ", s))}
  BY DEF server_on_read, With, Decoded
<1>2. /\ Moves(m, m, K) /\ Moves(m, stop(m, s, TRUE), K)
      /\ Moves(m, Abort(m, "decode_assert"), K)
  BY <1>0, MovesRefl, StopMoves, AbortMoves DEF Faults
<1>3. Moves(m, stop(ended, s, TRUE), K)
  <2>1. r \in Connections /\ r.stopped = m.conn[s].stopped
    BY <1>0 DEF Connections
  <2> HIDE DEF r
  <2>2. Moves(m, ended, K)
    BY <1>0, <2>1, SetMoves
  <2> HIDE DEF ended
  <2>3. Moves(ended, stop(ended, s, TRUE), K)
    BY <1>0, <2>2, StopMoves DEF Moves
  <2> QED
    BY <2>2, <2>3, MovesTrans
<1>4. Moves(m, Post(w, Task("READ", s)), K)
  <2>1. Moves(m, w, K)
    BY <1>0, DecodedMoves
  <2> HIDE DEF w
  <2>2. <<"READ", s>> \in K
    BY ServerKind DEF Going
  <2>3. Moves(w, Post(w, Task("READ", s)), K)
    BY <1>0, <2>1, <2>2, PostMoves DEF Tasks, Events, Moves
  <2> QED
    BY <2>1, <2>3, MovesTrans
<1> HIDE DEF w, ended, K
<1> QED
  BY <1>1, <1>2, <1>3, <1>4, ServesChained DEF K

\* The end of a write to the client: a WRITE follows only what empties
\* buffer_out_, so never while the client's next step is awaited.
LEMMA OnWriteClientChained ==
  ASSUME NEW m, Good(m), Chained(m), Always(m), NEW res, NEW data \in Seq(Unit),
         res = "ok" => data # << >>
  PROVE  Chained(on_write(m, Client, res, data))
<1>0. Client \in 0..m.ctx.server /\ Client \in Conns /\ m.conn[Client] \in Connections
  BY ClientExistsGood, ConnType
<1>1. PICK v, q : /\ Goes(m, Client, res, data, v, q)
                  /\ Moves(m, v, {}) /\ v.queue = m.queue /\ Kinds(v) = Kinds(m) /\ v.ctx = m.ctx
  BY <1>0, OnWriteGoes
<1>2. Good(v) /\ Client \in 0..v.ctx.server /\ Chained(v)
  BY <1>0, <1>1, RestsChained DEF Moves
<1>3. CASE on_write(m, Client, res, data) \in {v, stop(v, Client, TRUE), Abort(m, "end_iterator")}
  <2>1. Moves(v, stop(v, Client, TRUE), {})
    BY <1>2, StopMoves
  <2>2. Moves(m, Abort(m, "end_iterator"), {})
    BY AbortMoves DEF Faults
  <2> QED
    BY <1>2, <1>3, <2>1, <2>2, RestsChained
<1>4. CASE /\ ~m.conn[Client].stopped /\ res = "ok" /\ m.conn[Client].out # << >>
           /\ q \in Connections /\ q.stopped = v.conn[Client].stopped
           /\ q.use_ssl = v.conn[Client].use_ssl /\ q.connected = m.conn[Client].connected
           /\ q.out = unsent(m.conn[Client].out, Len(data))
           /\ on_write(m, Client, res, data) =
                IF q.out # << >> THEN do_write(With(v, Client, q), Client)
                                 ELSE on_written(With(v, Client, q), Client)
  <2> DEFINE w == With(v, Client, q)
  <2>1. /\ Good(w) /\ w.ctx = v.ctx /\ w.conn[Client] = q /\ Trails(v, w, {})
        /\ w.queue = v.queue /\ Kinds(w) = Kinds(v)
    BY <1>2, <1>4, SetTrails
  <2> HIDE DEF w
  <2>2. Kinds(v) \cap ClientKinds = {} /\ ~Securing(v)
    <3>1. Out(v) # << >>
      BY <1>1, <1>4 DEF Moves, Follows, Out
    <3> QED
      BY <1>2, <3>1 DEF Chained, Drained, Secluded
  <2>3. Replying(v) => q.out = << >> /\ NoWritten(v)
    <3> SUFFICES ASSUME Replying(v) PROVE q.out = << >> /\ NoWritten(v)
      OBVIOUS
    <3>1. Out(v) = m.conn[Client].out
      BY <1>1 DEF Moves, Follows, Out
    <3> DEFINE o == m.conn[Client].out
    <3>2. Len(o) = 1 /\ Len(Head(o)) = 1 /\ NoWritten(v)
      BY <1>2, <1>4, <3>1 DEF Chained, Answering
    <3>3. o \in Seq(Seq(Unit)) /\ o # << >>
      BY <1>0, <1>4 DEF Connections
    <3>4. Len(data) \in Nat /\ Len(data) # 0
      BY <1>4, EmptySeq
    <3>5. q.out = Tail(o)
      BY <1>4, <3>2, <3>4 DEF unsent
    <3> HIDE DEF o
    <3>6. Tail(o) = << >>
      <4>1. Tail(o) \in Seq(Seq(Unit)) /\ Len(Tail(o)) = 0
        BY <3>2, <3>3, HeadTailProperties
      <4> QED
        BY <4>1, EmptySeq
    <3> QED
      BY <3>2, <3>5, <3>6
  <2>4. Chained(w)
    <3>1. Drained(w) /\ Behind(w)
      <4>1. Behind(w)
        BY <1>2, <2>1 DEF Chained, Behind
      <4> QED
        BY <2>1, <2>2, <4>1 DEF Drained
    <3>2. (Replying(w) <=> Replying(v)) /\ (Securing(w) <=> Securing(v))
      BY <1>4, <2>1 DEF Replying, Securing
    <3>3. Answering(w) /\ Secluded(w)
      BY <1>2, <2>1, <2>2, <2>3, <3>2 DEF Answering, Secluded, Chained, Out, NoWritten
    <3> QED
      BY <1>2, <1>4, <2>1, <3>1, <3>3 DEF Chained, Trails
  <2>5. CASE q.out # << >>
    <3>1. on_write(m, Client, res, data) = do_write(w, Client) /\ w.conn[Client].connected
      BY <1>4, <2>1, <2>5 DEF w, Always
    <3>2. Client \in 0..w.ctx.server
      BY <1>2, <2>1
    <3>3. Moves(w, do_write(w, Client), ServerKinds)
      BY <2>1, <3>1, <3>2, DoWriteMoves
    <3>4. ~Securing(w)
      BY <1>4, <2>1, <2>2 DEF Securing
    <3> QED
      BY <2>1, <2>4, <3>1, <3>3, <3>4, ServesChained
  <2>6. CASE q.out = << >>
    <3> DEFINE h == Task("WRITE", Client)
               z == Post(w, h)
    <3>1. on_write(m, Client, res, data) = z
      BY <1>4, <2>6 DEF w, on_written
    <3>2. h \in Handlers /\ h.fn = "WRITE" /\ Written(h) /\ Sent(h) /\ HandlerKind(h) \notin ClientKinds
      BY <1>0 DEF Task, Handlers, Written, Sent, HandlerKind, ClientKinds, Going, Tasks, Events, Results
    <3> HIDE DEF h
    <3>3. /\ z.queue = Append(w.queue, h) /\ z.conn = w.conn /\ z.ctx = w.ctx /\ z.fault = w.fault
          /\ z.pending = w.pending
      BY <2>1, PostFields, LengthType
    <3> HIDE DEF z
    <3> DEFINE n == Len(w.queue)
    <3>4. w.queue \in Seq(Handlers) /\ n \in Nat
      BY <2>1, LengthType
    <3>5. /\ Len(z.queue) = n + 1 /\ z.queue[n + 1] = h
          /\ \A i \in 1..n : z.queue[i] = w.queue[i]
      BY <3>2, <3>3, <3>4
    <3>6. \A i \in 1..Len(z.queue) : i \in 1..n \/ i = n + 1
      BY <3>4, <3>5
    <3>a. Adds(w, z, HandlerKind(h))
      BY <3>2, <3>3, <3>4, AppendKinds
    <3>b. Kinds(z) = Kinds(w) \cup {HandlerKind(h)}
      BY <3>a DEF Adds
    <3>7. Kinds(z) \cap ClientKinds = {}
      BY <2>1, <2>2, <3>2, <3>b
    <3>8. Drained(z) /\ Behind(z)
      <4>1. \A j \in 1..Len(z.queue) : HandlerKind(z.queue[j]) \notin ClientKinds
        BY <3>7 DEF Kinds
      <4> QED
        BY <3>7, <4>1 DEF Drained, Behind
    <3>9. (Replying(z) <=> Replying(v)) /\ ~Securing(z)
      BY <1>4, <2>1, <2>2, <3>3 DEF Replying, Securing
    <3>10. Replying(z) => \A i \in 1..n : ~Written(z.queue[i])
      BY <2>1, <2>3, <3>5, <3>9 DEF NoWritten
    <3>11. Answering(z) /\ Secluded(z)
      <4>1. Out(z) = << >>
        BY <2>1, <2>6, <3>3 DEF Out
      <4>2. ASSUME Replying(z), NEW i \in 1..Len(z.queue), NEW j \in 1..Len(z.queue),
                   Written(z.queue[i]), Written(z.queue[j])
            PROVE  i = j
        BY <3>6, <3>10, <4>2
      <4> QED
        BY <3>9, <4>1, <4>2 DEF Answering, Secluded
    <3>12. \A i \in 1..Len(z.queue) : Sent(z.queue[i])
      BY <2>4, <3>2, <3>5, <3>6 DEF Chained
    <3>13. Chained(z)
      BY <2>4, <3>3, <3>8, <3>11, <3>12 DEF Chained
    <3> QED
      BY <3>1, <3>13
  <2> QED
    BY <2>5, <2>6
<1> QED
  BY <1>1, <1>3, <1>4 DEF Goes

LEMMA ServerResetMoves ==
  ASSUME NEW m, Good(m), NEW s \in Servers, s = m.ctx.server, NEW K
  PROVE  Moves(m, server_reset(m, s), K)
<1> DEFINE r == Blank(m.conn[s])
           v == With(m, s, r)
<1>0. s \in Conns /\ s # Client /\ s \in 0..m.ctx.server /\ m.conn[s] \in Connections
  BY ServingIn, ClientIn, ConnType
<1>1. r \in Connections /\ r.stopped = m.conn[s].stopped
  BY <1>0, BlankFields
<1>2. server_reset(m, s) = timer_start(v, s)
  BY <1>0, ResetWith, LengthType DEF server_reset
<1> HIDE DEF r
<1>3. Moves(m, v, K)
  BY <1>0, <1>1, SetMoves
<1> HIDE DEF v
<1>4. Moves(v, timer_start(v, s), K)
  BY <1>0, <1>3, TimerStartMoves DEF Moves
<1> QED
  BY <1>2, <1>3, <1>4, MovesTrans

LEMMA OnServerMessageChained ==
  ASSUME NEW m, Standing(m), Chained(m), ~Securing(m), NEW s \in Servers, s = m.ctx.server,
         NEW keep_alive
  PROVE  Chained(on_server_message(m, s, keep_alive))
<1> DEFINE response == m.conn[s].message
           completed == Completed(m, s)
           server == m.ctx.server
           written == write(m, Client, response, completed)
           k == [written.ctx EXCEPT !.exchanged = TRUE]
           exchanged == [written EXCEPT !.ctx = k]
           K == ServerKinds
<1>0. /\ Good(m) /\ s \in Conns /\ s \in 0..m.ctx.server /\ <<"read", s>> \in K
      /\ ~Replying(m) /\ Kinds(m) \cap StepKinds = {} /\ Always(m)
  BY ClientIn, ServingIn, ServerKind DEF Standing, Idle, NoStep, Going
<1>1. response \in Seq(Unit) /\ completed \in BOOLEAN
  BY <1>0, MessageType DEF Completed
<1>2. on_server_message(m, s, keep_alive) \in
        {Abort(m, "client_assert"), Abort(m, "server_assert"), read(written, server),
         server_reset(exchanged, server), stop(exchanged, server, FALSE)}
  BY DEF on_server_message
<1>3. Chained(Abort(m, "client_assert")) /\ Chained(Abort(m, "server_assert"))
  BY <1>0, AbortMoves, RestsChained DEF Faults
<1>4. Good(written) /\ written.ctx.server = m.ctx.server /\ Trails(m, written, K)
  BY <1>0, <1>1, WriteClientTrails
<1> HIDE DEF written
<1>5. Chained(read(written, s))
  <2>1. Moves(written, read(written, s), K)
    BY <1>0, <1>4, ReadMoves
  <2>2. Trails(m, read(written, s), K) /\ Good(read(written, s))
    BY <1>0, <1>4, <2>1, TrailsTrans DEF Moves, Follows
  <2> QED
    BY <1>0, <2>2, SendsChained
<1>6. /\ k \in Contexts /\ k.server = written.ctx.server /\ k.https = written.ctx.https
      /\ k.ssl_setup = written.ctx.ssl_setup
  BY <1>4, ContextType DEF Contexts
<1> HIDE DEF k
<1>7. Good(exchanged)
  BY <1>4, <1>6, SetContext DEF Quiet
<1>8. /\ exchanged.queue = written.queue /\ exchanged.pending = written.pending
      /\ exchanged.conn = written.conn /\ exchanged.ctx = k /\ exchanged.fault = written.fault
  BY <1>4, LengthType DEF Worlds
<1> HIDE DEF exchanged
<1>9. Trails(m, exchanged, K)
  <2>1. Kinds(exchanged) = Kinds(written)
    BY <1>8 DEF Kinds
  <2>2. Trails(written, exchanged, K)
    BY <1>4, <1>6, <1>8, <2>1, FieldsTrails
  <2> QED
    BY <1>0, <1>4, <1>7, <2>2, TrailsTrans
<1>10. Chained(server_reset(exchanged, s)) /\ Chained(stop(exchanged, s, FALSE))
  <2>1. s = exchanged.ctx.server /\ s \in 0..exchanged.ctx.server
    BY <1>0, <1>4, <1>6, <1>8
  <2>2. Moves(exchanged, server_reset(exchanged, s), K) /\ Moves(exchanged, stop(exchanged, s, FALSE), K)
    BY <1>7, <2>1, ServerResetMoves, StopMoves
  <2>3. /\ Trails(m, server_reset(exchanged, s), K) /\ Good(server_reset(exchanged, s))
        /\ Trails(m, stop(exchanged, s, FALSE), K) /\ Good(stop(exchanged, s, FALSE))
    BY <1>0, <1>7, <1>9, <2>2, TrailsTrans DEF Moves, Follows
  <2> QED
    BY <1>0, <2>3, SendsChained
<1> QED
  BY <1>2, <1>3, <1>5, <1>10

\* The context changes between two steps.
LEMMA OnClientSecuredChained ==
  ASSUME NEW m, Good(m), Chained(m), Out(m) = << >>
  PROVE  Chained(on_client_secured(m))
<1> DEFINE k == [m.ctx EXCEPT !.ssl_setup = TRUE]
           w == [m EXCEPT !.ctx = k]
<1>1. on_client_secured(m) = read(w, Client)
  BY DEF on_client_secured
<1>2. k \in Contexts /\ k.server = m.ctx.server /\ k.ssl_setup /\ k.https = m.ctx.https
  BY ContextType DEF Contexts
<1> HIDE DEF k
<1>3. Good(w)
  BY <1>2, SetContext DEF Quiet
<1>4. w.queue = m.queue /\ w.pending = m.pending /\ w.conn = m.conn /\ w.ctx = k /\ w.fault = m.fault
  BY LengthType DEF Worlds
<1> HIDE DEF w
<1>5. ~Replying(w) /\ ~Securing(w) /\ Kinds(w) = Kinds(m) /\ Out(w) = << >>
  BY <1>2, <1>4 DEF Replying, Securing, Kinds, Out
<1>6. Chained(w)
  BY <1>2, <1>4, <1>5 DEF Chained, Drained, Behind, Answering, Secluded
<1>7. Client \in 0..w.ctx.server /\ <<"read", Client>> \in StepKinds
  BY <1>3, ClientExistsGood, ClientIn DEF StepKinds, Going
<1>8. Moves(w, read(w, Client), StepKinds)
  BY <1>3, <1>7, ReadMoves
<1> QED
  BY <1>1, <1>3, <1>5, <1>6, <1>8, FollowsChained

LEMMA ContextChained ==
  ASSUME NEW m, Chained(m), Out(m) = << >>, NoWritten(m), ~Securing(m),
         NEW w, w.queue = m.queue, w.pending = m.pending, w.conn = m.conn, w.fault = m.fault,
         w.ctx.ssl_setup = m.ctx.ssl_setup, m.ctx.https => w.ctx.https
  PROVE  Chained(w) /\ Out(w) = << >> /\ NoWritten(w) /\ ~Securing(w) /\ Kinds(w) = Kinds(m)
<1>1. Out(w) = << >> /\ NoWritten(w) /\ Kinds(w) = Kinds(m)
  BY DEF Out, NoWritten, Kinds
<1>2. ~Securing(w) /\ (w.conn[Client].use_ssl => w.ctx.https)
  BY DEF Securing, Chained
<1>3. Behind(w) /\ Answering(w)
  BY <1>1 DEF Behind, Answering, NoWritten
<1> QED
  BY <1>1, <1>2, <1>3 DEF Chained, Drained, Secluded

\* buffer_out_ of the client is cleared.
LEMMA ClearedChained ==
  ASSUME NEW m, Chained(m), NEW w, w.queue = m.queue, Kinds(w) = Kinds(m), Out(w) = << >>,
         w.ctx.https = m.ctx.https, w.ctx.ssl_setup = m.ctx.ssl_setup,
         w.conn[Client].use_ssl = m.conn[Client].use_ssl, w.fault = m.fault
  PROVE  Chained(w)
<1>1. (Replying(w) <=> Replying(m)) /\ (Securing(w) <=> Securing(m)) /\ (NoWritten(w) <=> NoWritten(m))
  BY DEF Replying, Securing, NoWritten
<1>2. Behind(w) /\ Drained(w)
  BY DEF Chained, Behind, Drained
<1>3. Answering(w)
  BY <1>1 DEF Chained, Answering
<1>4. Secluded(w)
  BY <1>1 DEF Chained, Secluded
<1> QED
  BY <1>2, <1>3, <1>4 DEF Chained

LEMMA ClientHandshakeChained ==
  ASSUME NEW m, Good(m), Active(m), Chained(m), Replying(m), Out(m) = << >>, NoWritten(m),
         NEW certified
  PROVE  Chained(client_handshake(m, certified))
<1> DEFINE r == [m.conn[Client] EXCEPT !.use_ssl = TRUE]
           v == With(m, Client, r)
           w == Begin(v, "handshake", Client, << >>)
<1>0. Client \in 0..m.ctx.server /\ Client \in Conns /\ m.conn[Client] \in Connections
  BY ClientExistsGood, ConnType
<1>1. client_handshake(m, certified) \in {Abort(m, "no_certificate"), w}
  BY DEF client_handshake, switch_to_ssl, With, Replying
<1>2. Chained(Abort(m, "no_certificate"))
  BY AbortMoves, RestsChained DEF Faults
<1>3. r.out = m.conn[Client].out /\ r.use_ssl /\ r \in Connections /\ r.stopped = m.conn[Client].stopped
  BY <1>0 DEF Connections
<1> HIDE DEF r
<1>4. /\ v.queue = m.queue /\ v.ctx = m.ctx /\ v.fault = m.fault /\ v.conn[Client] = r
      /\ Kinds(v) = Kinds(m)
  BY <1>0, SetFields, LengthType DEF Same
<1>5. Good(v) /\ Client \in 0..v.ctx.server
  BY <1>0, <1>3, <1>4, WithGood DEF Quiet
<1> HIDE DEF v
<1>6. /\ w.queue = m.queue /\ w.ctx = m.ctx /\ w.fault = m.fault /\ w.conn[Client] = r
      /\ Kinds(w) = Kinds(m) \cup {<<"handshake", Client>>}
  <2>1. w.queue = v.queue /\ w.ctx = v.ctx /\ w.fault = v.fault /\ w.conn = v.conn
    BY <1>5, BeginFields, LengthType
  <2>2. Adds(v, w, <<"handshake", Client>>)
    BY <1>5, BeginAdds, LengthType
  <2> QED
    BY <1>4, <2>1, <2>2 DEF Adds
<1> HIDE DEF w
<1>7. Kinds(m) \cap StepKinds = {}
  BY DEF Active, Single, NoStep
<1>8. Out(w) = << >> /\ NoWritten(w) /\ ~Replying(w)
  BY <1>3, <1>6 DEF Out, NoWritten, Replying
<1>9. Kinds(w) \cap StepKinds \subseteq HandshakeKinds
  BY <1>6, <1>7 DEF HandshakeKinds
<1>10. Drained(w) /\ Behind(w) /\ Answering(w) /\ Secluded(w)
  BY <1>8, <1>9 DEF Drained, Behind, Answering, Secluded, NoWritten
<1>11. w.ctx.https /\ w.fault # "ssl_twice" /\ \A i \in 1..Len(w.queue) : Sent(w.queue[i])
  BY <1>6 DEF Replying, Chained
<1>12. Chained(w)
  BY <1>10, <1>11 DEF Chained
<1> QED
  BY <1>1, <1>2, <1>12

LEMMA ClientResetChained ==
  ASSUME NEW m, Good(m), Chained(m), ~Securing(m)
  PROVE  Chained(Unexchanged(client_reset(m)))
<1> DEFINE v == reset(m, Client)
           w == timer_start(v, Client)
           z == Unexchanged(w)
           r == Blank(m.conn[Client])
           k == [w.ctx EXCEPT !.exchanged = FALSE]
<1>0. Client \in 0..m.ctx.server /\ Client \in Conns /\ m.conn[Client] \in Connections
  BY ClientExistsGood, ConnType
<1>1. /\ r \in Connections /\ r.out = << >> /\ r.stopped = m.conn[Client].stopped
      /\ r.use_ssl = m.conn[Client].use_ssl
  BY <1>0, BlankFields
<1>2. v = With(m, Client, r)
  BY <1>0, ResetWith, LengthType
<1>3. client_reset(m) = read(w, Client)
  BY DEF client_reset
<1> HIDE DEF r, v
<1>4. /\ v.queue = m.queue /\ v.ctx = m.ctx /\ v.fault = m.fault /\ v.conn[Client] = r
      /\ Kinds(v) = Kinds(m)
  BY <1>0, <1>2, SetFields, LengthType DEF Same
<1>5. Good(v) /\ Client \in 0..v.ctx.server
  BY <1>0, <1>1, <1>2, <1>4, WithGood DEF Quiet
<1>6. Chained(v) /\ Out(v) = << >> /\ ~Securing(v)
  <2>1. Out(v) = << >> /\ ~Securing(v)
    BY <1>1, <1>4 DEF Out, Securing
  <2> QED
    BY <1>1, <1>4, <2>1, ClearedChained
<1>7. Moves(v, w, {})
  BY <1>5, TimerStartMoves
<1> HIDE DEF w
<1>8. Chained(w) /\ Out(w) = << >> /\ ~Securing(w) /\ Good(w)
  BY <1>5, <1>6, <1>7, RestsChained DEF Moves, Follows, Trails, Securing
<1>9. /\ k \in Contexts /\ k.server = w.ctx.server /\ k.https = w.ctx.https
      /\ k.ssl_setup = w.ctx.ssl_setup
  BY <1>8, ContextType DEF Contexts
<1>10. z = [w EXCEPT !.ctx = k]
  BY DEF Unexchanged
<1> HIDE DEF k, z
<1>11. Good(z)
  BY <1>8, <1>9, <1>10, SetContext DEF Quiet
<1>12. /\ z.queue = w.queue /\ z.pending = w.pending /\ z.conn = w.conn /\ z.ctx = k
       /\ z.fault = w.fault
  BY <1>8, <1>10, LengthType DEF Worlds
<1>13. Chained(z) /\ Out(z) = << >> /\ ~Securing(z)
  <2>1. Kinds(z) = Kinds(w) /\ Out(z) = << >> /\ ~Securing(z)
    BY <1>8, <1>9, <1>12 DEF Kinds, Out, Securing
  <2> QED
    BY <1>8, <1>9, <1>12, <2>1, ClearedChained
<1>14. Client \in 0..z.ctx.server /\ <<"read", Client>> \in StepKinds
  BY <1>11, ClientExistsGood, ClientIn DEF StepKinds, Going
<1>15. Moves(z, read(z, Client), StepKinds)
  BY <1>11, <1>14, ReadMoves
<1>16. Chained(read(z, Client))
  BY <1>11, <1>13, <1>15, FollowsChained
<1>17. Unexchanged(client_reset(m)) = read(z, Client)
  BY <1>3, <1>8, UnexchangedRead, LengthType DEF z
<1> QED
  BY <1>16, <1>17

LEMMA OnClientWrittenChained ==
  ASSUME NEW m, Good(m), Active(m), Chained(m), ~Securing(m),
         Replying(m) => Out(m) = << >> /\ NoWritten(m),
         NEW keep_alive, NEW certified
  PROVE  Chained(on_client_written(m, keep_alive, certified))
<1>0. Client \in 0..m.ctx.server
  BY ClientExistsGood
<1>1. CASE m.ctx.https /\ ~m.ctx.ssl_setup
  <2>1. Replying(m)
    BY <1>1 DEF Replying, Securing
  <2>2. Chained(Abort(m, "server_assert"))
    BY AbortMoves, RestsChained DEF Faults
  <2> QED
    BY <1>1, <2>1, <2>2, ClientHandshakeChained DEF on_client_written
<1>2. CASE ~(m.ctx.https /\ ~m.ctx.ssl_setup)
  <2>1. on_client_written(m, keep_alive, certified)
          \in {m, Unexchanged(client_reset(m)), stop(m, Client, FALSE)}
    BY <1>2 DEF on_client_written, Unexchanged
  <2>2. Moves(m, stop(m, Client, FALSE), {})
    BY <1>0, StopMoves
  <2> QED
    BY <2>1, <2>2, ClientResetChained, RestsChained
<1> QED
  BY <1>1, <1>2

\* The answer to CONNECT is the first thing sent to the client.
LEMMA ReplyChained ==
  ASSUME NEW m, Good(m), Always(m), NoStep(m), Chained(m), Out(m) = << >>, NoWritten(m),
         ~Securing(m), m.conn[Client].encoded = 0,
         NEW reply \in Seq(Unit), Len(reply) = 1
  PROVE  Chained(write(m, Client, reply, TRUE))
<1> DEFINE w == write(m, Client, reply, TRUE)
           e == Encoding(m, Client, reply)
<1>0. TRUE \in BOOLEAN /\ w = write(m, Client, reply, TRUE)
  OBVIOUS
<1> HIDE DEF w
<1>1. Good(w) /\ Trails(m, w, ServerKinds) /\ Out(w) \in {Out(m), Append(Out(m), e)}
  BY <1>0, WriteClientTrails
<1>2. Len(e) = 1
  <2>1. e = SubSeq(reply, 1, 1)
    BY SizesAssumption DEF Encoding, OutLen
  <2>2. \A i \in 1..1 : reply[i] \in Unit
    BY ElementOfSeq
  <2> QED
    BY <2>1, <2>2, SubSeqProperties
<1> HIDE DEF e
<1>3. Out(w) # << >> => Len(Out(w)) = 1 /\ Len(Head(Out(w))) = 1
  BY <1>1, <1>2
<1>4. Len(m.queue) \in Nat /\ Len(w.queue) \in Nat
  BY <1>1, LengthType
<1>5. \A i \in 1..Len(w.queue) : i > Len(m.queue) \/ (i \in 1..Len(m.queue) /\ w.queue[i] = m.queue[i])
  BY <1>1, <1>4 DEF Trails
<1>6. NoWritten(w)
  BY <1>1, <1>5 DEF NoWritten, Trails
<1>7. Kinds(w) \cap ClientKinds = {}
  BY <1>1, KindsSplit DEF Trails, NoStep
<1>8. Drained(w) /\ Behind(w) /\ Answering(w)
  BY <1>3, <1>6, <1>7 DEF Drained, Behind, Answering, NoWritten
<1>9. Secluded(w)
  BY <1>1 DEF Secluded, Securing, Trails
<1>10. \A i \in 1..Len(w.queue) : Sent(w.queue[i])
  BY <1>1, <1>5 DEF Chained, Trails
<1>11. (w.conn[Client].use_ssl => w.ctx.https) /\ w.fault # "ssl_twice"
  BY <1>1 DEF Chained, Trails
<1>12. Chained(w)
  BY <1>8, <1>9, <1>10, <1>11 DEF Chained
<1> QED
  BY <1>12 DEF w

LEMMA OnClientMessageChained ==
  ASSUME NEW m, Standing(m), Chained(m), Out(m) = << >>, NoWritten(m), ~Securing(m),
         Ready(m, "READ", Client), m.ctx = ctx, m.managed = managed,
         LockServer \/ ctx.server < MaxServers,
         NEW connect \in BOOLEAN, NEW destination
  PROVE  Chained(on_client_message(m, connect, destination))
<1> DEFINE request == m.conn[Client].message
           server == m.ctx.server
           s == m.ctx.server + 1
           parsed == Parsed(m, connect)
           opened == Opened(m, connect)
           reply == Reply(m)
<1>g. Good(m) /\ m \in Worlds
  BY DEF Standing, Good
<1>0. request \in Seq(Unit)
  BY <1>g, ClientIn, MessageType
<1>2. Completed(m, Client) /\ m.conn[Client].encoded = 0
  BY DEF Ready
<1>3. CASE LockServer
  <2>1. on_client_message(m, connect, destination) = write(m, server, request, TRUE)
    BY <1>2, <1>3 DEF on_client_message
  <2>2. server \in Servers /\ server = m.ctx.server
    BY <1>3 DEF LockServer
  <2> HIDE DEF request, server
  <2>3. Moves(m, write(m, server, request, TRUE), ServerKinds)
    BY <1>g, <1>0, <2>2, WriteServerMoves
  <2> QED
    BY <1>g, <2>1, <2>3, ServesChained
<1>4. CASE ~LockServer
  <2>1. on_client_message(m, connect, destination) \in
          {Abort(m, "host_assert"), parsed, write(opened, Client, reply, TRUE), write(opened, s, request, TRUE)}
    BY <1>2, <1>4 DEF on_client_message, Parsed, Opened, Reply
  <2>2. Chained(Abort(m, "host_assert"))
    BY <1>g, AbortMoves, RestsChained DEF Faults
  <2>3. Chained(parsed)
    <3> DEFINE https == m.ctx.https \/ connect
               k == [m.ctx EXCEPT !.https = https]
    <3>1. https \in BOOLEAN /\ (m.ctx.https => https)
      BY <1>g, ContextType DEF Contexts
    <3> HIDE DEF https
    <3>2. k.ssl_setup = m.ctx.ssl_setup /\ k.https = https
      BY <1>g, ContextType DEF Contexts
    <3>3. parsed = [m EXCEPT !.ctx = k]
      BY DEF Parsed, https
    <3> HIDE DEF k, parsed
    <3>4. /\ parsed.queue = m.queue /\ parsed.pending = m.pending /\ parsed.conn = m.conn
          /\ parsed.ctx = k /\ parsed.fault = m.fault
      BY <1>g, <3>3, SetContextFields
    <3> QED
      BY <3>1, <3>2, <3>4, ContextChained
  <2>5. /\ Good(opened) /\ opened.ctx.server = s /\ s \in Servers
        /\ opened.queue = m.queue /\ opened.pending = m.pending /\ opened.conn = m.conn
        /\ opened.fault = m.fault /\ opened.ctx.exchanged = m.ctx.exchanged
        /\ opened.ctx.https = (m.ctx.https \/ connect) /\ opened.ctx.ssl_setup = m.ctx.ssl_setup
    BY <1>g, <1>4, OpenedParts DEF OpenedFrom
  <2>6. reply \in Seq(Unit) /\ Len(reply) = 1
    BY <1>g, <1>2, ReplyType
  <2> HIDE DEF opened, reply, request, parsed, s
  <2>7. Always(opened) /\ NoStep(opened)
    BY <2>5, OpenedFields DEF Good
  <2>8. m.ctx.https => opened.ctx.https
    BY <2>5
  <2>9. Chained(opened) /\ Out(opened) = << >> /\ NoWritten(opened) /\ ~Securing(opened)
    BY <2>5, <2>8, ContextChained
  <2>10. Chained(write(opened, Client, reply, TRUE))
    <3>1. opened.conn[Client].encoded = 0
      BY <1>2, <2>5
    <3> QED
      BY <2>5, <2>6, <2>7, <2>9, <3>1, ReplyChained
  <2>11. Chained(write(opened, s, request, TRUE))
    <3>1. Moves(opened, write(opened, s, request, TRUE), ServerKinds)
      BY <1>0, <2>5, WriteServerMoves
    <3> QED
      BY <2>5, <2>9, <3>1, ServesChained
  <2> QED
    BY <2>1, <2>2, <2>3, <2>10, <2>11
<1> QED
  BY <1>3, <1>4

-----------------------------------------------------------------------------
(* The handler at the head of the queue.                                    *)
LEMMA PoppedChained ==
  ASSUME Good(World), Chained(World), queue # << >>
  PROVE  /\ Chained(Popped) /\ (Securing(Popped) <=> Securing(World))
         /\ Replying(Popped) <=> Replying(World)
         /\ Out(Popped) = Out(World) /\ Sent(Head(queue))
<1> DEFINE n == Len(queue)
           t == Tail(queue)
<1>0. queue \in Seq(Handlers)
  BY WorldFields DEF Good, Worlds
<1>1. /\ n \in Nat /\ n > 0 /\ Len(t) = n - 1 /\ Head(queue) = queue[1]
      /\ \A i \in 1..(n - 1) : t[i] = queue[i + 1]
  BY <1>0
<1>2. /\ Popped.queue = t /\ Popped.conn = conn /\ Popped.ctx = ctx /\ Popped.fault = fault
      /\ World.queue = queue /\ World.conn = conn /\ World.ctx = ctx /\ World.fault = fault
  BY PoppedFields, WorldFields
<1>3. Kinds(Popped) \subseteq Kinds(World)
  BY PoppedKinds
<1> HIDE DEF t
<1>4. \A i \in 1..Len(t) : i \in Nat /\ i + 1 \in 1..n /\ t[i] = queue[i + 1]
  BY <1>1
<1>5. /\ Securing(Popped) <=> Securing(World)
      /\ Replying(Popped) <=> Replying(World)
      /\ Out(Popped) = Out(World)
  BY <1>2 DEF Securing, Replying, Out
<1>6. NoWritten(World) => NoWritten(Popped)
  BY <1>2, <1>4 DEF NoWritten
<1>7. Drained(Popped)
  BY <1>3, <1>5 DEF Drained, Chained
<1>8. Behind(Popped)
  <2> SUFFICES ASSUME NEW i \in 1..Len(t), NEW j \in 1..Len(t),
                      Written(t[i]), HandlerKind(t[j]) \in ClientKinds
               PROVE  i < j
    BY <1>2 DEF Behind
  <2>1. i + 1 < j + 1
    BY <1>2, <1>4 DEF Chained, Behind
  <2> QED
    BY <1>1, <1>4, <2>1
<1>9. Answering(Popped)
  <2>1. ASSUME Replying(Popped), NEW i \in 1..Len(t), NEW j \in 1..Len(t), Written(t[i]), Written(t[j])
        PROVE  i = j
    <3>1. i + 1 = j + 1
      BY <1>2, <1>4, <1>5, <2>1 DEF Chained, Answering
    <3> QED
      BY <1>4, <3>1
  <2> QED
    BY <1>2, <1>5, <1>6, <2>1 DEF Answering, Chained
<1>10. Secluded(Popped)
  BY <1>3, <1>5, <1>6 DEF Secluded, Chained
<1>11. Sent(Head(queue)) /\ \A i \in 1..Len(t) : Sent(t[i])
  BY <1>1, <1>2, <1>4 DEF Chained
<1> QED
  BY <1>2, <1>5, <1>7, <1>8, <1>9, <1>10, <1>11 DEF Chained

\* What its place at the head says: a step of the client finds buffer_out_
\* empty and no WRITE queued, and only the client's handshake runs while the
\* client is switched to TLS.
LEMMA PoppedDrained ==
  ASSUME Good(World), Chained(World), queue # << >>, NEW fn \in Going,
         HandlerKind(Head(queue)) = <<fn, Client>>
  PROVE  Out(Popped) = << >> /\ NoWritten(Popped)
<1> DEFINE n == Len(queue)
           t == Tail(queue)
<1>0. queue \in Seq(Handlers)
  BY WorldFields DEF Good, Worlds
<1>1. /\ n \in Nat /\ n > 0 /\ Len(t) = n - 1 /\ Head(queue) = queue[1]
      /\ \A i \in 1..(n - 1) : t[i] = queue[i + 1]
  BY <1>0
<1>2. Popped.queue = t /\ World.queue = queue
  BY PoppedFields, WorldFields
<1>3. <<fn, Client>> \in Kinds(World) /\ <<fn, Client>> \in ClientKinds
  BY PoppedKinds DEF ClientKinds
<1>4. Out(World) = << >>
  BY <1>3 DEF Chained, Drained
<1> HIDE DEF t
<1>5. ASSUME NEW i \in 1..Len(t), Written(t[i]) PROVE FALSE
  <2>1. i + 1 \in 1..n /\ 1 \in 1..n /\ t[i] = queue[i + 1]
    BY <1>1
  <2>2. i + 1 < 1
    BY <1>1, <1>2, <1>3, <1>5, <2>1 DEF Chained, Behind
  <2> QED
    BY <2>1, <2>2
<1> QED
  BY <1>2, <1>4, <1>5, PoppedChained DEF NoWritten

LEMMA PoppedSecured ==
  ASSUME Good(World), Chained(World), queue # << >>,
         \/ Head(queue).fn = "WRITE"
         \/ HandlerKind(Head(queue)) \in StepKinds \ HandshakeKinds
  PROVE  ~Securing(Popped)
<1>1. Securing(World) => NoWritten(World) /\ Kinds(World) \cap StepKinds \subseteq HandshakeKinds
  BY DEF Chained, Secluded
<1>2. HandlerKind(Head(queue)) \in Kinds(World)
  BY PoppedKinds
<1>3. CASE Head(queue).fn = "WRITE"
  <2>1. queue \in Seq(Handlers) /\ World.queue = queue
    BY WorldFields DEF Good, Worlds
  <2>2. 1 \in 1..Len(queue) /\ Head(queue) = queue[1]
    BY <2>1
  <2> QED
    BY <1>1, <1>3, <2>1, <2>2, PoppedChained DEF NoWritten, Written
<1> QED
  BY <1>1, <1>2, <1>3, PoppedChained

LEMMA PoppedWritten ==
  ASSUME Good(World), Chained(World), queue # << >>, Head(queue).fn = "WRITE", Replying(Popped)
  PROVE  Out(Popped) = << >> /\ NoWritten(Popped)
<1> DEFINE n == Len(queue)
           t == Tail(queue)
<1>0. queue \in Seq(Handlers)
  BY WorldFields DEF Good, Worlds
<1>1. /\ n \in Nat /\ n > 0 /\ Len(t) = n - 1 /\ Head(queue) = queue[1]
      /\ \A i \in 1..(n - 1) : t[i] = queue[i + 1]
  BY <1>0
<1>2. Popped.queue = t /\ World.queue = queue /\ Replying(World) /\ Out(Popped) = Out(World)
  BY PoppedFields, WorldFields, PoppedChained
<1>3. 1 \in 1..n /\ Written(queue[1])
  BY <1>1 DEF Written
<1>4. Out(World) = << >>
  BY <1>2, <1>3 DEF Chained, Answering, NoWritten
<1> HIDE DEF t
<1>5. ASSUME NEW i \in 1..Len(t), Written(t[i]) PROVE FALSE
  <2>1. i + 1 \in 1..n /\ t[i] = queue[i + 1]
    BY <1>1
  <2>2. i + 1 = 1
    BY <1>1, <1>2, <1>3, <1>5, <2>1 DEF Chained, Answering
  <2> QED
    BY <2>2
<1> QED
  BY <1>2, <1>4, <1>5 DEF NoWritten

-----------------------------------------------------------------------------
(* The inductive invariant.                                                 *)
CInv == AInv /\ Chained(World)

LEMMA BecomeChained ==
  ASSUME Good(World), Chained(World), NEW m, Good(m), Chained(m), Become(m)
  PROVE  Chained(World)'
<1>1. CASE m.fault = "none"
  <2>1. World' = m
    BY <1>1 DEF Become, World, Good, Worlds
  <2>2. Chained(World') <=> Chained(m)
    BY <2>1
  <2> QED
    BY <2>1, <2>2
<1>2. CASE m.fault # "none"
  <2> DEFINE w == [World EXCEPT !.fault = m.fault]
  <2>1. World' = w
    BY <1>2 DEF Become, World
  <2>2. /\ w.queue = queue /\ w.pending = pending /\ w.conn = conn
        /\ w.ctx = ctx /\ w.fault = m.fault
    BY DEF World
  <2> HIDE DEF w
  <2>3. /\ Kinds(w) = Kinds(World) /\ Out(w) = Out(World) /\ (NoWritten(w) <=> NoWritten(World))
        /\ Replying(w) <=> Replying(World)
        /\ Securing(w) <=> Securing(World)
    BY <2>2, WorldFields DEF Kinds, Out, NoWritten, Replying, Securing
  <2>4. Drained(w) /\ Behind(w)
    BY <2>2, <2>3, WorldFields DEF Chained, Drained, Behind
  <2>5. Answering(w) /\ Secluded(w)
    BY <2>2, <2>3, WorldFields DEF Chained, Answering, Secluded
  <2>6. Chained(w)
    BY <2>2, <2>4, <2>5, WorldFields DEF Chained
  <2> QED
    BY <2>1, <2>6
<1> QED
  BY <1>1, <1>2

LEMMA HandleEventChained ==
  ASSUME Good(World), Chained(World), NEW m, Good(m), Chained(m), HandleEvent(m)
  PROVE  Chained(World)'
<1>1. Moves(World, Abort(World, "freed_this"), {})
  BY AbortMoves DEF Faults
<1>2. Good(Abort(World, "freed_this")) /\ Chained(Abort(World, "freed_this"))
  BY <1>1, RestsChained DEF Moves
<1> QED
  BY <1>2, BecomeChained DEF HandleEvent, Handle

\* A server's step: the current server, while no handshake of the client goes on.
LEMMA PoppedServer ==
  ASSUME AInv, Chained(World), queue # << >>, Self # Client, Head(queue).fn \in Steps(Self)
  PROVE  /\ Self \in Servers /\ Self = Popped.ctx.server /\ ~Securing(Popped)
         /\ Standing(Popped) /\ Ready(Popped, Head(queue).fn, Self)
<1>0. Good(World) /\ Active(World) /\ Self \in Conns
  BY PoppedGood DEF AInv, IInv
<1>1. /\ Self \in Servers /\ <<Head(queue).fn, Self>> \in StepKinds
      /\ Standing(Popped) /\ Ready(Popped, Head(queue).fn, Self)
  BY <1>0, ServerStep, PoppedStanding
<1>2. HandlerKind(Head(queue)) = <<Head(queue).fn, Self>>
  BY DEF HandlerKind, Self
<1>3. <<Head(queue).fn, Self>> \notin HandshakeKinds
  BY DEF HandshakeKinds
<1>4. ~Securing(Popped)
  BY <1>0, <1>1, <1>2, <1>3, PoppedSecured
<1> QED
  BY <1>1, <1>4 DEF Ready

LEMMA PoppedClient ==
  ASSUME AInv, Chained(World), queue # << >>, Self = Client, Head(queue).fn \in Going
  PROVE  /\ Standing(Popped) /\ Ready(Popped, Head(queue).fn, Client)
         /\ Out(Popped) = << >> /\ NoWritten(Popped)
         /\ Head(queue).fn \in {"read", "READ"} => ~Securing(Popped)
<1>0. Good(World) /\ Active(World) /\ Head(queue).fn \in Steps(Client)
  BY DEF AInv, IInv, Steps
<1>1. /\ <<Head(queue).fn, Client>> \in StepKinds
      /\ Standing(Popped) /\ Ready(Popped, Head(queue).fn, Client)
  BY <1>0, ClientStep, PoppedStanding
<1>2. HandlerKind(Head(queue)) = <<Head(queue).fn, Client>>
  BY DEF HandlerKind, Self
<1>3. Out(Popped) = << >> /\ NoWritten(Popped)
  BY <1>0, <1>2, PoppedDrained
<1>4. ASSUME Head(queue).fn \in {"read", "READ"} PROVE ~Securing(Popped)
  <2>1. <<Head(queue).fn, Client>> \notin HandshakeKinds
    BY <1>4 DEF HandshakeKinds
  <2> QED
    BY <1>0, <1>1, <1>2, <2>1, PoppedSecured
<1> QED
  BY <1>1, <1>3, <1>4

LEMMA RunHandlerChained ==
  ASSUME AInv, Chained(World), RunHandler
  PROVE  Chained(World)'
<1>0. queue # << >>
  BY DEF RunHandler, OnTimer, OnWrite, OnResolve, OnConnect, ClientOnRead, ClientOnHandshake,
         ServerOnRead, ServerOnHandshake, ClientRead, ServerRead, ClientWritten, ClientSecured,
         ServerConnected, ServerSecured, OnStop, StopAll, Running
<1>g. Good(World) /\ Active(World)
  BY DEF AInv, IInv
<1>1. /\ Good(Popped) /\ Popped.ctx = ctx /\ Popped.managed = managed
      /\ Self \in 0..Popped.ctx.server /\ Self \in Conns
      /\ Data \in Seq(Unit)
  BY <1>0, <1>g, PoppedGood
<1>p. Chained(Popped) /\ Sent(Head(queue))
  BY <1>0, <1>g, PoppedChained
<1>a. Head(queue).fn # "wait" => Active(Popped)
  BY <1>0, <1>g, PoppedTimed, PoppedRest, PoppedSingle DEF Active
<1>s. ASSUME Self # Client, NEW fn \in Steps(Self), Head(queue).fn = fn
      PROVE  /\ Self \in Servers /\ Self = Popped.ctx.server /\ ~Securing(Popped)
             /\ Standing(Popped) /\ Ready(Popped, fn, Self)
  BY <1>0, <1>s, PoppedServer
<1>c. ASSUME Self = Client, NEW fn \in Going, Head(queue).fn = fn
      PROVE  /\ Standing(Popped) /\ Ready(Popped, fn, Client)
             /\ Out(Popped) = << >> /\ NoWritten(Popped)
             /\ fn \in {"read", "READ"} => ~Securing(Popped)
  BY <1>0, <1>c, PoppedClient
<1>2. CASE OnTimer
  BY <1>g, <1>p, <1>1, <1>2, OnTimerChained, OnTimerGood, BecomeChained DEF OnTimer, Handle
<1>3. CASE OnWrite
  <2>0. Head(queue).fn = "write" /\ Become(on_write(Popped, Self, Result, Data))
    BY <1>3 DEF OnWrite, Running, Handle
  <2>1. CASE Self = Client
    <3>1. HandlerKind(Head(queue)) = <<"write", Client>>
      BY <2>0, <2>1 DEF HandlerKind, Self
    <3>2. Result = "ok" => Data # << >>
      BY <1>p, <3>1 DEF Sent, Result, Data
    <3>3. Always(Popped)
      BY <1>a, <2>0 DEF Active
    <3>4. Chained(on_write(Popped, Client, Result, Data))
      BY <1>1, <1>p, <3>2, <3>3, OnWriteClientChained
    <3> QED
      BY <1>g, <1>1, <2>0, <2>1, <3>4, OnWriteGood, BecomeChained
  <2>2. CASE Self # Client
    <3>1. "write" \in Steps(Self)
      BY <2>2 DEF Steps
    <3>2. Chained(on_write(Popped, Self, Result, Data))
      BY <1>1, <1>p, <1>s, <2>0, <2>2, <3>1, OnWriteServerChained
    <3> QED
      BY <1>g, <1>1, <2>0, <3>2, OnWriteGood, BecomeChained
  <2> QED
    BY <2>1, <2>2
<1>4. CASE OnResolve
  <2>0. Head(queue).fn = "resolve" /\ Become(on_resolve(Popped, Self, Result)) /\ Self # Client
    BY <1>4, <1>c DEF OnResolve, Running, Handle, Going, Ready
  <2>1. Self \in Servers /\ Self = Popped.ctx.server /\ ~Securing(Popped)
    BY <1>s, <2>0 DEF Steps, Going
  <2> QED
    BY <1>g, <1>p, <1>1, <2>0, <2>1, OnResolveChained, OnResolveGood, BecomeChained
<1>5. CASE OnConnect
  <2>0. Head(queue).fn = "connect" /\ Become(on_connect(Popped, Self, Result)) /\ Self # Client
    BY <1>5, <1>c DEF OnConnect, Running, Handle, Going, Ready
  <2>1. Self \in Servers /\ Self = Popped.ctx.server /\ ~Securing(Popped)
    BY <1>s, <2>0 DEF Steps, Going
  <2> QED
    BY <1>g, <1>p, <1>1, <2>0, <2>1, OnConnectChained, OnConnectGood, BecomeChained
<1>6. CASE ClientOnRead
  <2>0. Head(queue).fn = "read" /\ Become(client_on_read(Popped, Result, Data)) /\ Self = Client
    BY <1>6 DEF ClientOnRead, Running, Handle
  <2>1. Out(Popped) = << >> /\ ~Securing(Popped)
    BY <1>c, <2>0 DEF Going
  <2> QED
    BY <1>g, <1>p, <1>1, <2>0, <2>1, ClientOnReadChained, ClientOnReadGood, BecomeChained
<1>7. CASE ClientOnHandshake
  <2>0. Head(queue).fn = "handshake" /\ Become(client_on_handshake(Popped, Result)) /\ Self = Client
    BY <1>7 DEF ClientOnHandshake, Running, Handle
  <2>1. Out(Popped) = << >>
    BY <1>c, <2>0 DEF Going
  <2> QED
    BY <1>g, <1>p, <1>1, <2>0, <2>1, ClientOnHandshakeChained, ClientOnHandshakeGood, BecomeChained
<1>8. CASE ServerOnRead
  <2>0. Head(queue).fn = "read" /\ Become(server_on_read(Popped, Self, Result, Data)) /\ Self # Client
    BY <1>8 DEF ServerOnRead, Running, Handle
  <2>1. Self \in Servers /\ Self = Popped.ctx.server /\ ~Securing(Popped)
    BY <1>s, <2>0 DEF Steps, Going
  <2> QED
    BY <1>g, <1>p, <1>1, <2>0, <2>1, ServerOnReadChained, ServerOnReadGood, BecomeChained
<1>9. CASE ServerOnHandshake
  <2>0. Head(queue).fn = "handshake" /\ Become(server_on_handshake(Popped, Self, Result)) /\ Self # Client
    BY <1>9 DEF ServerOnHandshake, Running, Handle
  <2>1. Self \in Servers /\ Self = Popped.ctx.server /\ ~Securing(Popped)
    BY <1>s, <2>0 DEF Steps, Going
  <2> QED
    BY <1>g, <1>p, <1>1, <2>0, <2>1, OnResolveChained, ServerOnHandshakeGood, BecomeChained
<1>10. CASE ClientRead
  <2>0. Head(queue).fn = "READ" /\ Self = Client /\ (LockServer \/ ctx.server < MaxServers)
    BY <1>10 DEF ClientRead, Running
  <2>1. PICK connect \in {FALSE, Https}, destination \in Destinations :
          HandleEvent(on_client_message(Popped, connect, destination))
    BY <1>10 DEF ClientRead
  <2>2. connect \in BOOLEAN
    BY EnvironmentAssumption
  <2>3. /\ Standing(Popped) /\ Ready(Popped, "READ", Client)
        /\ Out(Popped) = << >> /\ NoWritten(Popped) /\ ~Securing(Popped)
    BY <1>c, <2>0 DEF Going
  <2>4. Good(on_client_message(Popped, connect, destination))
    BY <1>1, <2>0, <2>2, OnClientMessageGood
  <2>5. Chained(on_client_message(Popped, connect, destination))
    BY <1>1, <1>p, <2>0, <2>2, <2>3, OnClientMessageChained
  <2> QED
    BY <1>g, <2>1, <2>4, <2>5, HandleEventChained
<1>11. CASE ServerRead
  <2>0. Head(queue).fn = "READ" /\ Self # Client
    BY <1>11 DEF ServerRead, Running
  <2>1. PICK keep_alive \in BOOLEAN : HandleEvent(on_server_message(Popped, Self, keep_alive))
    BY <1>11 DEF ServerRead
  <2>2. Self \in Servers /\ Self = Popped.ctx.server /\ Standing(Popped) /\ ~Securing(Popped)
    BY <1>s, <2>0 DEF Steps, Going
  <2> QED
    BY <1>g, <1>p, <1>1, <2>1, <2>2, OnServerMessageChained, OnServerMessageGood, HandleEventChained
<1>12. CASE ClientWritten
  <2>0. Head(queue).fn = "WRITE"
    BY <1>12 DEF ClientWritten, Running
  <2>1. PICK keep_alive \in BOOLEAN, certified \in {TRUE, "cert" \notin Failures} :
          HandleEvent(on_client_written(Popped, keep_alive, certified))
    BY <1>12 DEF ClientWritten
  <2>2. ~Securing(Popped) /\ (Replying(Popped) => Out(Popped) = << >> /\ NoWritten(Popped))
    BY <1>0, <1>g, <2>0, PoppedSecured, PoppedWritten
  <2>3. Chained(on_client_written(Popped, keep_alive, certified))
    BY <1>1, <1>a, <1>p, <2>0, <2>2, OnClientWrittenChained
  <2> QED
    BY <1>g, <1>1, <2>1, <2>3, OnClientWrittenGood, HandleEventChained
<1>13. CASE ClientSecured
  <2>0. Head(queue).fn = "HANDSHAKE" /\ HandleEvent(on_client_secured(Popped)) /\ Self = Client
    BY <1>13 DEF ClientSecured, Running
  <2>1. Out(Popped) = << >>
    BY <1>c, <2>0 DEF Going
  <2> QED
    BY <1>g, <1>p, <1>1, <2>0, <2>1, OnClientSecuredChained, OnClientSecuredGood, HandleEventChained
<1>14. CASE ServerConnected
  <2>0. Head(queue).fn = "CONNECT" /\ HandleEvent(on_server_connected(Popped, Self)) /\ Self # Client
    BY <1>14, <1>c DEF ServerConnected, Running, Going, Ready
  <2>1. Self \in Servers /\ Self = Popped.ctx.server /\ ~Securing(Popped) /\ Ready(Popped, "CONNECT", Self)
    BY <1>s, <2>0 DEF Steps, Going
  <2> QED
    BY <1>g, <1>p, <1>1, <2>0, <2>1, OnServerConnectedChained, OnServerConnectedGood, HandleEventChained
<1>15. CASE ServerSecured
  <2>0. Head(queue).fn = "HANDSHAKE" /\ HandleEvent(on_server_secured(Popped, Self)) /\ Self # Client
    BY <1>15 DEF ServerSecured, Running
  <2>1. Self \in Servers /\ Self = Popped.ctx.server /\ ~Securing(Popped) /\ Ready(Popped, "HANDSHAKE", Self)
    BY <1>s, <2>0 DEF Steps, Going
  <2> QED
    BY <1>g, <1>p, <1>1, <2>0, <2>1, OnServerConnectedChained, OnServerConnectedGood, HandleEventChained
<1>16. CASE OnStop
  <2>0. Head(queue).fn = "on_stop" /\ Become(on_stop(Popped, Self))
    BY <1>16 DEF OnStop, Running, Handle
  <2> QED
    BY <1>g, <1>p, <1>1, <2>0, OnStopChained, OnStopGood, BecomeChained
<1>17. CASE StopAll
  <2> DEFINE stopped == IF Client \in managed THEN stop(Popped, Client, FALSE) ELSE Popped
             all == IF ctx.server \in managed THEN stop(stopped, ctx.server, FALSE) ELSE stopped
             z == [all EXCEPT !.managed = {}]
  <2>0. Head(queue).fn = "stop_all" /\ Become(z)
    BY <1>17 DEF StopAll, Running, Handle
  <2>1. Good(z)
    BY <1>1, StopAllGood
  <2>2. /\ stopped = IF Client \in managed THEN stop(Popped, Client, FALSE) ELSE Popped
        /\ all = IF ctx.server \in managed THEN stop(stopped, ctx.server, FALSE) ELSE stopped
        /\ z = [all EXCEPT !.managed = {}]
    OBVIOUS
  <2> HIDE DEF z, all, stopped
  <2>3. Chained(z)
    BY <1>1, <1>p, <2>1, <2>2, StopAllChained
  <2> QED
    BY <1>g, <2>0, <2>1, <2>3, BecomeChained
<1> QED
  BY <1>2, <1>3, <1>4, <1>5, <1>6, <1>7, <1>8, <1>9, <1>10, <1>11, <1>12, <1>13,
     <1>14, <1>15, <1>16, <1>17 DEF RunHandler

-----------------------------------------------------------------------------
(* The environment: a completion joins the tail, behind every WRITE.        *)
LEMMA CompletionChained ==
  ASSUME AInv', Good(World), Chained(World), NEW p \in pending, NEW res \in Results,
         NEW data \in Seq(Unit), Complete(p, res, data),
         p.op = "write" /\ res = "ok" => data # << >>
  PROVE  Chained(World)'
<1> DEFINE h == Completion(p.op, p.conn, res, data)
           w == World'
<1>1. p \in PendingOps /\ queue \in Seq(Handlers)
  BY WorldFields DEF Good, Worlds
<1>2. /\ h \in Handlers /\ HandlerKind(h) = OpKind(p) /\ ~Written(h) /\ Sent(h)
  BY <1>1 DEF PendingOps, Handlers, Completion, HandlerKind, OpKind, Written, Sent, Operations
<1>3. /\ w.queue = Append(queue, h) /\ w.pending = pending \ {p} /\ w.conn = conn
      /\ w.ctx = ctx /\ w.fault = fault
  BY DEF Complete, World
<1>g. Good(w)
  BY DEF AInv, IInv
<1> HIDE DEF h, w
<1>4. Same(World, w)
  <2>1. w.queue = Append(World.queue, h) /\ World.queue \in Seq(Handlers)
    BY <1>1, <1>3, WorldFields
  <2>2. p \in World.pending /\ w.pending = World.pending \ {p}
    BY <1>3, WorldFields
  <2>3. \A q \in World.pending : q \notin w.pending => OpKind(q) = OpKind(p)
    BY <2>2
  <2> QED
    BY <1>2, <2>1, <2>2, <2>3, CompletionSame
<1>5. Follows(World, w, {})
  BY <1>2, <1>3, <1>4, WorldFields, AppendTrails DEF Same
<1>6. Moves(World, w, {})
  BY <1>g, <1>3, <1>5, WorldFields DEF Moves
<1> QED
  BY <1>6, RestsChained DEF w

LEMMA PeerReceivesChained ==
  ASSUME AInv', Good(World), Chained(World), NEW p \in pending, NEW n \in 1..Len(p.data),
         PeerReceives(p, n)
  PROVE  Chained(World)'
<1>1. CASE Dangling(p)
  <2>1. Moves(World, Abort(World, "freed_buffer"), {})
    BY AbortMoves DEF Faults
  <2>2. Good(Abort(World, "freed_buffer")) /\ Chained(Abort(World, "freed_buffer"))
    BY <2>1, RestsChained DEF Moves
  <2> QED
    BY <1>1, <2>2, BecomeChained DEF PeerReceives
<1>2. CASE ~Dangling(p)
  <2> DEFINE sent == SubSeq(p.data, 1, n)
  <2>1. p.data \in Seq(Unit)
    BY WorldFields DEF Good, Worlds, PendingOps
  <2>2. sent \in Seq(Unit) /\ Len(sent) = n /\ n > 0
    <3>1. \A i \in 1..n : p.data[i] \in Unit
      BY <2>1, ElementOfSeq
    <3> QED
      BY <2>1, <3>1, SubSeqProperties
  <2>3. Complete(p, "ok", sent)
    BY <1>2 DEF PeerReceives
  <2> HIDE DEF sent
  <2>4. sent # << >>
    BY <2>2
  <2> QED
    BY <2>2, <2>3, <2>4, CompletionChained DEF Results
<1> QED
  BY <1>1, <1>2

LEMMA SignalChained ==
  ASSUME AInv', Good(World), Chained(World), SignalArrives
  PROVE  Chained(World)'
<1> DEFINE h == Task("stop_all", Client)
           w == World'
<1>1. h \in Handlers /\ HandlerKind(h) = <<"stop_all", Client>> /\ ~Written(h) /\ Sent(h)
  BY TaskType, ClientIn DEF Task, HandlerKind, Handlers, Tasks, Results, Written, Sent
<1>2. /\ w.queue = Append(queue, h) /\ w.pending = pending /\ w.conn = conn
      /\ w.ctx = ctx /\ w.fault = fault
  BY DEF SignalArrives, World
<1>g. Good(w) /\ World.queue \in Seq(Handlers)
  BY LengthType DEF AInv, IInv
<1> HIDE DEF h, w
<1>3. Adds(World, w, <<"stop_all", Client>>)
  BY <1>1, <1>2, <1>g, WorldFields, AppendKinds
<1>4. <<"stop_all", Client>> \notin StepKinds
  BY DEF StepKinds, Going
<1>5. Follows(World, w, {})
  BY <1>1, <1>2, <1>3, <1>4, WorldFields, AppendTrails DEF Adds
<1>6. Moves(World, w, {})
  BY <1>g, <1>2, <1>5, WorldFields DEF Moves
<1> QED
  BY <1>6, RestsChained DEF w

LEMMA EnvironmentChained ==
  ASSUME IInv, AInv', Chained(World), Environment
  PROVE  Chained(World)'
<1>0. Good(World) /\ "ok" \in Results /\ << >> \in Seq(Unit)
  BY DEF IInv, Results
<1>1. CASE SignalArrives
  BY <1>0, <1>1, SignalChained
<1>2. ASSUME NEW p \in pending,
             \/ \E n \in 0..ReqLen : ClientSends(p, n)
             \/ \E n \in 0..RespLen : ServerSends(p, n)
             \/ \E n \in 1..Len(p.data) : PeerReceives(p, n)
             \/ Succeeds(p) \/ Fails(p) \/ Closes(p) \/ SendsJunk(p) \/ TimerExpires(p)
      PROVE  Chained(World)'
  <2>0. p.conn \in Conns
    BY <1>0, WorldFields DEF Good, Worlds, PendingOps
  <2>1. ASSUME NEW n \in 0..ReqLen, ClientSends(p, n)
        PROVE  Chained(World)'
    <3> DEFINE more == last[Client][2] < ReqLen
               r == IF more THEN last[Client][1] ELSE last[Client][1] + 1
               i == IF more THEN last[Client][2] ELSE 0
    <3>1. r \in Nat /\ i \in Nat /\ n \in Nat
      BY ClientIn, SizesAssumption DEF IInv, Unit
    <3>2. Complete(p, "ok", Units(r, i, n)) /\ p.op = "read"
      BY <2>1 DEF ClientSends, Sends
    <3> QED
      BY <1>0, <3>1, <3>2, UnitsType, CompletionChained
  <2>2. ASSUME NEW n \in 0..RespLen, ServerSends(p, n)
        PROVE  Chained(World)'
    <3> DEFINE sent == wire[p.conn]
               r == sent[Len(sent)][1]
               i == IF last[p.conn][1] = r THEN last[p.conn][2] ELSE 0
    <3>1. sent \in Seq(Unit) /\ sent # << >> /\ last[p.conn] \in Unit
      BY <2>0, <2>2 DEF IInv, ServerSends
    <3>2. sent[Len(sent)] \in Unit
      BY <3>1, ElementOfSeq
    <3>3. r \in Nat /\ i \in Nat /\ n \in Nat
      BY <3>1, <3>2, SizesAssumption DEF Unit
    <3>4. Complete(p, "ok", Units(r, i, n)) /\ p.op = "read"
      BY <2>2 DEF ServerSends, Sends
    <3> QED
      BY <1>0, <3>3, <3>4, UnitsType, CompletionChained
  <2>3. CASE Succeeds(p) \/ Fails(p) \/ Closes(p) \/ SendsJunk(p) \/ TimerExpires(p)
    BY <1>0, <2>3, CompletionChained
       DEF Succeeds, Fails, Closes, SendsJunk, TimerExpires, Results
  <2> QED
    BY <1>0, <1>2, <2>1, <2>2, <2>3, PeerReceivesChained
<1> QED
  BY <1>1, <1>2 DEF Environment

LEMMA InitChained == Init => Chained(World)
<1> SUFFICES ASSUME Init PROVE Chained(World)
  OBVIOUS
<1>1. /\ World.queue = << >> /\ World.conn = conn /\ World.ctx = ctx /\ World.fault = "none"
  BY WorldFields DEF Init
<1>2. conn[Client].out = << >> /\ ~conn[Client].use_ssl /\ ~ctx.https
  BY ClientIn DEF Init, NewConnection, NewContext
<1>3. Out(World) = << >> /\ ~Securing(World) /\ \A i \in 1..Len(World.queue) : FALSE
  BY <1>1, <1>2 DEF Out, Securing
<1>4. Drained(World) /\ Behind(World) /\ Answering(World) /\ Secluded(World)
  BY <1>3 DEF Drained, Behind, Answering, Secluded
<1> QED
  BY <1>1, <1>2, <1>3, <1>4 DEF Chained

LEMMA NextChained == CInv /\ [Next]_vars => CInv'
<1> SUFFICES ASSUME CInv, [Next]_vars PROVE Chained(World)'
  BY NextActive DEF CInv
<1>0. AInv' /\ IInv
  BY NextActive DEF CInv, AInv
<1>1. CASE RunHandler
  BY <1>1, RunHandlerChained DEF CInv
<1>2. CASE Environment
  BY <1>0, <1>2, EnvironmentChained DEF CInv
<1>3. CASE UNCHANGED vars
  <2>1. World' = World
    BY <1>3 DEF vars, World
  <2>2. Chained(World') <=> Chained(World)
    BY <2>1
  <2> QED
    BY <2>2 DEF CInv
<1> QED
  BY <1>1, <1>2, <1>3 DEF Next, Waits

-----------------------------------------------------------------------------
(* The theorems.                                                            *)

\* However the handlers of a session interleave with its peers, timers and
\* signals, the client's buffer_out_ is empty and its WRITE events are behind
\* it whenever its next request or handshake is handled.
THEOREM ChainedInvariance == Spec => []CInv
<1>1. Init => CInv
  BY InitIInv, InitActive, InitChained DEF CInv, AInv
<1> QED
  BY <1>1, NextChained, PTL DEF Spec

\* No peer, timeout or signal makes the assertions fail that guard the code
\* against itself: on_client_message is given complete requests only
\* (request->completed()), the encoder's last_encoded_ never passes the end of
\* the message it encodes, and switch_to_ssl finds use_ssl_ false.
THEOREM AssertionsHold == Spec => []NeverAsserted
<1>1. CInv => NeverAsserted
  BY WorldFields DEF CInv, AInv, Active, Asserted, Chained, NeverAsserted
<1> QED
  BY <1>1, ChainedInvariance, PTL
=============================================================================
