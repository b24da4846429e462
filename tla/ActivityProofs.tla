--------------------------- MODULE ActivityProofs ---------------------------
(***************************************************************************)
(* Theorems about what the connections of a session are doing: timers,     *)
(* reads and the assertions of the code, for every value of the constants. *)
(*                                                                         *)
(* A session has one thread of control although it has several             *)
(* connections: the read, handshake, connect or write that will carry it   *)
(* on is a single operation or queued handler (Single), except while the   *)
(* client is written to, when nothing is read.  As in SessionProofs, the   *)
(* invariant is a predicate of a world and is carried through the methods. *)
(***************************************************************************)
EXTENDS SessionProofs, FiniteSetTheorems

-----------------------------------------------------------------------------
(* What is in progress, as the set of pairs of a handler and a connection.  *)
OpKind(p) == <<p.op, p.conn>>
HandlerKind(h) == <<h.fn, h.conn>>

Kinds(m) == {OpKind(p) : p \in m.pending}
              \cup {HandlerKind(m.queue[i]) : i \in 1..Len(m.queue)}

\* At most one operation or queued handler is of a kind in K.
Alone(m, K) ==
  /\ \A p, q \in m.pending : OpKind(p) \in K /\ OpKind(q) \in K => p = q
  /\ \A i, j \in 1..Len(m.queue) :
       HandlerKind(m.queue[i]) \in K /\ HandlerKind(m.queue[j]) \in K => i = j
  /\ \A p \in m.pending, i \in 1..Len(m.queue) :
       ~(OpKind(p) \in K /\ HandlerKind(m.queue[i]) \in K)

\* A step that starts nothing, and one that starts something of kind k.
Same(m, w) == /\ Kinds(w) = Kinds(m)
              /\ \A K : Alone(m, K) => Alone(w, K)
Adds(m, w, k) ==
  /\ Kinds(w) = Kinds(m) \cup {k}
  /\ \A K : Alone(m, K) /\ (k \in K => Kinds(m) \cap K = {}) => Alone(w, K)

LEMMA FieldsSame ==
  ASSUME NEW m, NEW w, w.queue = m.queue, w.pending = m.pending
  PROVE  Same(m, w)
BY DEF Same, Kinds, Alone

LEMMA SameTrans ==
  ASSUME NEW m, NEW v, NEW w, Same(m, v), Same(v, w)
  PROVE  Same(m, w)
BY DEF Same

LEMMA BeginFields ==
  ASSUME NEW m, m \in Worlds, NEW op, NEW c, NEW d
  PROVE  LET w == Begin(m, op, c, d)
         IN  /\ w.queue = m.queue /\ w.conn = m.conn /\ w.ctx = m.ctx /\ w.fault = m.fault
             /\ w.pending = m.pending \cup {[op |-> op, conn |-> c, data |-> d]}
BY DEF Begin, Worlds

LEMMA BeginAdds ==
  ASSUME NEW m, m \in Worlds, NEW op, NEW c, NEW d
  PROVE  Adds(m, Begin(m, op, c, d), <<op, c>>)
<1> DEFINE w == Begin(m, op, c, d)
           a == [op |-> op, conn |-> c, data |-> d]
           k == <<op, c>>
<1>1. w.queue = m.queue /\ w.pending = m.pending \cup {a}
  BY BeginFields
<1>2. OpKind(a) = k
  BY DEF OpKind
<1> HIDE DEF w, a, k
<1>3. Kinds(w) = Kinds(m) \cup {k}
  BY <1>1, <1>2 DEF Kinds
<1>4. ASSUME NEW K, Alone(m, K), k \in K => Kinds(m) \cap K = {}
      PROVE  Alone(w, K)
  <2>1. ASSUME NEW p \in m.pending, k \in K PROVE OpKind(p) \notin K
    BY <1>4, <2>1 DEF Kinds
  <2>2. ASSUME NEW i \in 1..Len(m.queue), k \in K PROVE HandlerKind(m.queue[i]) \notin K
    BY <1>4, <2>2 DEF Kinds
  <2> QED
    BY <1>1, <1>2, <1>4, <2>1, <2>2 DEF Alone
<1> QED
  BY <1>3, <1>4 DEF Adds, w, k

LEMMA PostFields ==
  ASSUME NEW m, m \in Worlds, NEW h
  PROVE  LET w == Post(m, h)
         IN  /\ w.pending = m.pending /\ w.conn = m.conn /\ w.ctx = m.ctx /\ w.fault = m.fault
             /\ w.queue = Append(m.queue, h)
<1> DEFINE q == Append(m.queue, h)
<1>1. Post(m, h) = [m EXCEPT !.queue = q]
  BY DEF Post
<1> HIDE DEF q
<1>2. LET w == Post(m, h)
      IN  /\ w.pending = m.pending /\ w.conn = m.conn /\ w.ctx = m.ctx /\ w.fault = m.fault
          /\ w.queue = q
  BY <1>1 DEF Worlds
<1> QED
  BY <1>2 DEF q

\* A handler that joins the tail of the queue.
LEMMA AppendKinds ==
  ASSUME NEW m, m.queue \in Seq(Handlers), NEW h \in Handlers, NEW w,
         w.queue = Append(m.queue, h), w.pending = m.pending
  PROVE  Adds(m, w, HandlerKind(h))
<1> DEFINE k == HandlerKind(h)
           n == Len(m.queue)
<1>1. /\ n \in Nat /\ Len(w.queue) = n + 1
      /\ \A i \in 1..n : w.queue[i] = m.queue[i]
      /\ w.queue[n + 1] = h
  OBVIOUS
<1>2. 1..Len(w.queue) = 1..n \cup {n + 1} /\ n + 1 \notin 1..n
  BY <1>1
<1> HIDE DEF k, n
<1>3. HandlerKind(w.queue[n + 1]) = k /\ \A i \in 1..n : HandlerKind(w.queue[i]) = HandlerKind(m.queue[i])
  BY <1>1 DEF k
<1>4. Kinds(w) = Kinds(m) \cup {k}
  BY <1>2, <1>3 DEF Kinds, n
<1>5. ASSUME NEW K, Alone(m, K), k \in K => Kinds(m) \cap K = {}
      PROVE  Alone(w, K)
  <2>1. ASSUME NEW p \in m.pending, k \in K PROVE OpKind(p) \notin K
    BY <1>5, <2>1 DEF Kinds
  <2>2. ASSUME NEW i \in 1..n, k \in K PROVE HandlerKind(m.queue[i]) \notin K
    BY <1>5, <2>2 DEF Kinds, n
  <2> QED
    BY <1>2, <1>3, <1>5, <2>1, <2>2 DEF Alone, n
<1> QED
  BY <1>4, <1>5 DEF Adds, k

LEMMA PostAdds ==
  ASSUME NEW m, Good(m), NEW fn \in Tasks, NEW c \in 0..m.ctx.server
  PROVE  Adds(m, Post(m, Task(fn, c)), <<fn, c>>)
<1> DEFINE h == Task(fn, c)
<1>1. h \in Handlers /\ m \in Worlds /\ m.queue \in Seq(Handlers)
  BY TaskType, ServerType DEF Good, Worlds
<1>2. HandlerKind(h) = <<fn, c>>
  BY DEF HandlerKind, Task
<1> HIDE DEF h
<1> QED
  BY <1>1, <1>2, PostFields, AppendKinds DEF h

\* An operation that completes or is cancelled: its handler takes its place.
LEMMA CompletionSame ==
  ASSUME NEW m, m.queue \in Seq(Handlers), NEW h \in Handlers, NEW w,
         w.queue = Append(m.queue, h), w.pending \subseteq m.pending,
         NEW p \in m.pending, OpKind(p) = HandlerKind(h), p \notin w.pending,
         \A q \in m.pending : q \notin w.pending => OpKind(q) = OpKind(p)
  PROVE  Same(m, w)
<1> DEFINE k == HandlerKind(h)
           n == Len(m.queue)
<1>1. /\ n \in Nat /\ Len(w.queue) = n + 1
      /\ \A i \in 1..n : w.queue[i] = m.queue[i]
      /\ w.queue[n + 1] = h
  OBVIOUS
<1>2. 1..Len(w.queue) = 1..n \cup {n + 1} /\ n + 1 \notin 1..n
  BY <1>1
<1> HIDE DEF k, n
<1>3. HandlerKind(w.queue[n + 1]) = k /\ \A i \in 1..n : HandlerKind(w.queue[i]) = HandlerKind(m.queue[i])
  BY <1>1 DEF k
<1>k. OpKind(p) = k /\ \A q \in m.pending : q \notin w.pending => OpKind(q) = k
  BY DEF k
<1>4. Kinds(w) = Kinds(m)
  <2>1. ASSUME NEW x \in Kinds(w) PROVE x \in Kinds(m)
    BY <1>2, <1>3, <1>k DEF Kinds, n
  <2>2. ASSUME NEW x \in Kinds(m) PROVE x \in Kinds(w)
    <3>1. CASE x \in {OpKind(q) : q \in m.pending}
      <4>1. PICK q \in m.pending : x = OpKind(q)
        BY <3>1
      <4>2. CASE q \in w.pending
        BY <4>1, <4>2 DEF Kinds
      <4>3. CASE q \notin w.pending
        BY <1>2, <1>3, <1>k, <4>1, <4>3 DEF Kinds
      <4> QED
        BY <4>2, <4>3
    <3>2. CASE x \in {HandlerKind(m.queue[i]) : i \in 1..Len(m.queue)}
      BY <1>2, <1>3, <3>2 DEF Kinds, n
    <3> QED
      BY <2>2, <3>1, <3>2 DEF Kinds
  <2> QED
    BY <2>1, <2>2
<1>5. ASSUME NEW K, Alone(m, K)
      PROVE  Alone(w, K)
  <2>1. \A q \in w.pending : q \in m.pending /\ q # p
    OBVIOUS
  <2>2. k \in K => \A q \in w.pending : OpKind(q) \notin K
    BY <1>5, <1>k, <2>1 DEF Alone
  <2>3. k \in K => \A i \in 1..n : HandlerKind(m.queue[i]) \notin K
    BY <1>5, <1>k DEF Alone, n
  <2> QED
    BY <1>2, <1>3, <1>5, <2>1, <2>2, <2>3 DEF Alone, n
<1> QED
  BY <1>4, <1>5 DEF Same

LEMMA CancelFields ==
  ASSUME NEW m, Good(m), NEW op \in Operations, NEW c \in 0..m.ctx.server
  PROVE  LET w == Cancel(m, op, c)
         IN  /\ w.conn = m.conn /\ w.ctx = m.ctx /\ w.fault = m.fault
             /\ Same(m, w)
<1> DEFINE h == Completion(op, c, "error", << >>)
           P == {p \in m.pending : ~(p.op = op /\ p.conn = c)}
           q == Append(m.queue, h)
           w == [m EXCEPT !.pending = P, !.queue = q]
<1>0. m \in Worlds /\ m.queue \in Seq(Handlers)
  BY DEF Good, Worlds
<1>1. h \in Handlers
  <2>1. h \in HandlersUpTo(m.ctx.server)
    BY DEF Completion, HandlersUpTo, Results
  <2> QED
    BY <2>1, ServerType
<1>2. CASE ~\E p \in m.pending : p.op = op /\ p.conn = c
  BY <1>2, FieldsSame DEF Cancel
<1>3. CASE \E p \in m.pending : p.op = op /\ p.conn = c
  <2>1. PICK p \in m.pending : p.op = op /\ p.conn = c
    BY <1>3
  <2>2. Cancel(m, op, c) = w
    BY <1>3 DEF Cancel
  <2>3. HandlerKind(h) = <<op, c>> /\ OpKind(p) = <<op, c>>
    BY <2>1 DEF HandlerKind, OpKind, Completion
  <2>4. P \subseteq m.pending /\ p \notin P
    BY <2>1
  <2>5. \A r \in m.pending : r \notin P => OpKind(r) = OpKind(p)
    BY <2>3 DEF OpKind
  <2> HIDE DEF P, q
  <2>6. /\ w.pending = P /\ w.queue = q
        /\ w.conn = m.conn /\ w.ctx = m.ctx /\ w.fault = m.fault
    BY <1>0 DEF Worlds
  <2> HIDE DEF w, h
  <2>7. Same(m, w)
    BY <1>0, <1>1, <2>3, <2>4, <2>5, <2>6, CompletionSame DEF q
  <2> QED
    BY <2>2, <2>6, <2>7
<1> QED
  BY <1>2, <1>3

\* The handler at the head of the queue leaves it.
LEMMA PoppedKinds ==
  ASSUME Good(World), queue # << >>, NEW k, k = HandlerKind(Head(queue))
  PROVE  /\ k \in Kinds(World)
         /\ Kinds(Popped) \subseteq Kinds(World) /\ Kinds(World) \subseteq Kinds(Popped) \cup {k}
         /\ \A K : Alone(World, K) => Alone(Popped, K)
         /\ \A K : Alone(World, K) /\ k \in K => Kinds(Popped) \cap K = {}
<1> DEFINE n == Len(queue)
           t == Tail(queue)
<1>0. queue \in Seq(Handlers)
  BY WorldFields DEF Good, Worlds
<1>1. /\ n \in Nat /\ n > 0 /\ Len(t) = n - 1 /\ Head(queue) = queue[1]
      /\ \A i \in 1..(n - 1) : t[i] = queue[i + 1]
  BY <1>0
<1>2. Popped.queue = t /\ Popped.pending = pending
  BY DEF Popped, World
<1> HIDE DEF t
<1>3. \A i \in 1..(n - 1) : i + 1 \in 1..n /\ i + 1 # 1
  BY <1>1
<1>4. \A i \in 1..n : i = 1 \/ (i - 1 \in 1..(n - 1) /\ (i - 1) + 1 = i)
  BY <1>1
<1>5. 1 \in 1..n /\ HandlerKind(queue[1]) = k
  BY <1>1
<1> HIDE DEF n
<1>6. k \in Kinds(World)
  BY <1>5, WorldFields DEF Kinds, n
<1>7. Kinds(Popped) \subseteq Kinds(World)
  BY <1>1, <1>2, <1>3, WorldFields DEF Kinds, n
<1>8. Kinds(World) \subseteq Kinds(Popped) \cup {k}
  <2>1. ASSUME NEW i \in 1..n PROVE HandlerKind(queue[i]) \in Kinds(Popped) \cup {k}
    <3>1. CASE i = 1
      BY <1>5, <3>1
    <3>2. CASE i # 1
      <4>1. i - 1 \in 1..(n - 1) /\ queue[i] = t[i - 1]
        BY <1>1, <1>4, <3>2
      <4> QED
        BY <1>1, <1>2, <4>1 DEF Kinds
    <3> QED
      BY <3>1, <3>2
  <2> QED
    BY <1>2, <2>1, WorldFields DEF Kinds, n
<1>9. ASSUME NEW K, Alone(World, K) PROVE Alone(Popped, K)
  <2>1. ASSUME NEW i \in 1..(n - 1), NEW j \in 1..(n - 1),
               HandlerKind(t[i]) \in K, HandlerKind(t[j]) \in K
        PROVE  i = j
    <3>1. i + 1 = j + 1
      BY <1>1, <1>3, <1>9, <2>1, WorldFields DEF Alone, n
    <3> QED
      BY <1>1, <3>1
  <2>2. ASSUME NEW p \in pending, NEW i \in 1..(n - 1), OpKind(p) \in K, HandlerKind(t[i]) \in K
        PROVE  FALSE
    BY <1>1, <1>3, <1>9, <2>2, WorldFields DEF Alone, n
  <2> QED
    BY <1>1, <1>2, <1>9, <2>1, <2>2, WorldFields DEF Alone
<1>10. ASSUME NEW K, Alone(World, K), k \in K PROVE Kinds(Popped) \cap K = {}
  <2>1. \A p \in pending : OpKind(p) \notin K
    BY <1>5, <1>10, WorldFields DEF Alone, n
  <2>2. \A i \in 1..(n - 1) : HandlerKind(t[i]) \notin K
    BY <1>1, <1>3, <1>5, <1>10, WorldFields DEF Alone, n
  <2> QED
    BY <1>1, <1>2, <2>1, <2>2 DEF Kinds
<1> QED
  BY <1>6, <1>7, <1>8, <1>9, <1>10

-----------------------------------------------------------------------------
(* The invariant.                                                           *)

\* The handlers that carry the session on.  A write to the client is not one:
\* what the client has received is never waited for, except to read again.
Going == {"resolve", "connect", "CONNECT", "read", "READ", "handshake", "HANDSHAKE"}
Steps(c) == IF c = Client THEN Going ELSE Going \cup {"write"}
StepKinds == {<<fn, c>> : fn \in Going, c \in Conns} \cup {<<"write", s>> : s \in Servers}

\* The client has sent CONNECT and not yet started its TLS handshake.
Replying(m) == m.ctx.https /\ ~m.ctx.ssl_setup /\ ~m.conn[Client].use_ssl

NoStep(m) == Kinds(m) \cap StepKinds = {}

\* What a step can rely on.  The client's encoder starts afresh with each
\* request, and is never ahead of the response it encodes; only the current
\* server connection goes on, and connects before it is switched to TLS.
Ready(m, fn, c) ==
  IF c = Client
  THEN /\ fn \notin {"resolve", "connect", "CONNECT"}
       /\ fn \in {"read", "READ", "HANDSHAKE"} => m.conn[Client].encoded = 0
       /\ fn = "READ" => Completed(m, Client)
  ELSE /\ c = m.ctx.server
       /\ m.conn[Client].encoded <= Len(m.conn[c].message)
       /\ fn \in {"resolve", "connect", "CONNECT"} => ~m.conn[c].use_ssl
       /\ fn = "CONNECT" => m.conn[c].connected \/ m.conn[c].stopped

\* One step at a time, and none while the client takes the end of a response
\* (exchanged) or the answer to CONNECT.
Single(m) ==
  /\ Alone(m, StepKinds)
  /\ m.ctx.exchanged \/ Replying(m) => NoStep(m)
  /\ ~(m.ctx.exchanged /\ Replying(m))
  /\ \A fn \in Operations \cup Tasks, c \in Conns :
       <<fn, c>> \in Kinds(m) \cap StepKinds => Ready(m, fn, c)

\* What the connections are in every state.
Always(m) ==
  /\ m.conn[Client].connected \/ m.conn[Client].stopped
  /\ \A s \in Servers : /\ m.conn[s].encoded \in {0, ReqLen}
                        /\ m.conn[s].use_ssl => m.conn[s].connected \/ m.conn[s].stopped

\* timer::running_ says that a wait is pending or its handler queued.
Ticking(m, c) == /\ Alone(m, {<<"wait", c>>})
                 /\ <<"wait", c>> \in Kinds(m) <=> m.conn[c].running
Timed(m) == \A c \in Conns : Ticking(m, c)

Asserted == {"request_assert", "encode_underflow"}

Active(m) == Always(m) /\ Single(m) /\ Timed(m) /\ m.fault \notin Asserted

\* The world of a handler that was the only step.
Idle(m) == NoStep(m) /\ ~m.ctx.exchanged /\ ~Replying(m)

\* The effect of a method that takes no step: Calm if it may encode for the
\* client, Silent if it does not.
Calm(m, w) ==
  /\ w.ctx = m.ctx
  /\ w.fault \in Asserted => m.fault \in Asserted
  /\ \A c \in Conns :
       /\ w.conn[c].message = m.conn[c].message
       /\ w.conn[c].use_ssl = m.conn[c].use_ssl
       /\ w.conn[c].encoded = m.conn[c].encoded \/ c = Client
       /\ w.conn[c].connected = m.conn[c].connected \/ w.conn[c].stopped
       /\ m.conn[c].stopped => w.conn[c].stopped
  /\ Kinds(w) \cap StepKinds = Kinds(m) \cap StepKinds
  /\ Alone(m, StepKinds) => Alone(w, StepKinds)
  /\ Timed(m) => Timed(w)
Silent(m, w) == Calm(m, w) /\ w.conn[Client].encoded = m.conn[Client].encoded

LEMMA CalmTrans ==
  ASSUME NEW m, NEW v, NEW w, Calm(m, v), Calm(v, w)
  PROVE  Calm(m, w)
BY DEF Calm

LEMMA SilentTrans ==
  ASSUME NEW m, NEW v, NEW w, Silent(m, v), Silent(v, w)
  PROVE  Silent(m, w)
BY CalmTrans DEF Silent

LEMMA SilentRefl ==
  ASSUME NEW m
  PROVE  Silent(m, m)
BY DEF Silent, Calm

LEMMA ClientIn ==
  /\ Client \in Conns /\ Client \notin Servers /\ Servers \subseteq Conns
  /\ \A c \in Conns : c = Client \/ c \in Servers
BY SizesAssumption DEF Client, Conns, Servers

LEMMA CalmAlways ==
  ASSUME NEW m, Always(m), NEW w, Calm(m, w)
  PROVE  Always(w)
BY ClientIn DEF Calm, Always

LEMMA SilentActive ==
  ASSUME NEW m, Active(m), NEW w, Silent(m, w)
  PROVE  Active(w)
<1>1. Always(w) /\ Timed(w) /\ w.fault \notin Asserted
  BY CalmAlways DEF Active, Silent, Calm
<1>2. Replying(w) <=> Replying(m)
  BY ClientIn DEF Replying, Silent, Calm
<1>3. NoStep(w) <=> NoStep(m)
  BY DEF NoStep, Silent, Calm
<1>4. ASSUME NEW fn \in Operations \cup Tasks, NEW c \in Conns, Ready(m, fn, c)
      PROVE  Ready(w, fn, c)
  BY <1>4, ClientIn DEF Ready, Silent, Calm, Completed
<1>5. Single(w)
  BY <1>2, <1>3, <1>4 DEF Active, Single, Silent, Calm
<1> QED
  BY <1>1, <1>5 DEF Active

LEMMA CalmIdle ==
  ASSUME NEW m, Idle(m), NEW w, Calm(m, w)
  PROVE  Idle(w)
BY ClientIn DEF Idle, NoStep, Replying, Calm

\* A world without steps, in which one is started that is ready.
LEMMA NoStepAlone ==
  ASSUME NEW m, NoStep(m)
  PROVE  Alone(m, StepKinds)
BY DEF NoStep, Kinds, Alone

LEMMA RestsActive ==
  ASSUME NEW m, Always(m), Timed(m), m.fault \notin Asserted, NoStep(m),
         ~(m.ctx.exchanged /\ Replying(m))
  PROVE  Active(m)
BY NoStepAlone DEF Active, Single, NoStep

\* What starting something of kind k changes.
LEMMA AddsStep ==
  ASSUME NEW m, NEW w, NEW fn, NEW c, fn # "wait", Adds(m, w, <<fn, c>>), w.conn = m.conn
  PROVE  /\ Timed(m) => Timed(w)
         /\ NoStep(m) => Alone(w, StepKinds) /\ Kinds(w) \cap StepKinds \subseteq {<<fn, c>>}
<1>1. ASSUME Timed(m), NEW k \in Conns PROVE Ticking(w, k)
  BY <1>1 DEF Timed, Ticking, Adds
<1> QED
  BY <1>1, NoStepAlone DEF Adds, NoStep, Timed

LEMMA AddsActive ==
  ASSUME NEW m, Idle(m), Always(m), Timed(m), m.fault \notin Asserted,
         NEW fn, NEW c, fn # "wait", Ready(m, fn, c),
         NEW w, Adds(m, w, <<fn, c>>), w.conn = m.conn, w.ctx = m.ctx, w.fault = m.fault
  PROVE  Active(w)
<1>1. Timed(w) /\ Alone(w, StepKinds) /\ Kinds(w) \cap StepKinds \subseteq {<<fn, c>>}
  BY AddsStep DEF Idle
<1>2. Always(w)
  BY DEF Always
<1>3. ~w.ctx.exchanged /\ ~Replying(w)
  BY DEF Idle, Replying
<1>4. Ready(w, fn, c)
  BY DEF Ready, Completed
<1>5. ASSUME NEW f \in Operations \cup Tasks, NEW k \in Conns, <<f, k>> \in Kinds(w) \cap StepKinds
      PROVE  Ready(w, f, k)
  <2>1. f = fn /\ k = c
    BY <1>1, <1>5
  <2> QED
    BY <1>4, <2>1
<1> QED
  BY <1>1, <1>2, <1>3, <1>5 DEF Active, Single

\* Starting what is no step.
LEMMA AddsSilent ==
  ASSUME NEW m, NEW w, NEW fn, NEW c, fn # "wait", <<fn, c>> \notin StepKinds,
         Adds(m, w, <<fn, c>>), w.conn = m.conn, w.ctx = m.ctx, w.fault = m.fault
  PROVE  Silent(m, w)
<1>1. Timed(m) => Timed(w)
  BY AddsStep
<1>2. Kinds(w) \cap StepKinds = Kinds(m) \cap StepKinds /\ (Alone(m, StepKinds) => Alone(w, StepKinds))
  BY DEF Adds
<1> QED
  BY <1>1, <1>2 DEF Silent, Calm

LEMMA SameSilent ==
  ASSUME NEW m, NEW w, Same(m, w), w.conn = m.conn, w.ctx = m.ctx, w.fault = m.fault
  PROVE  Silent(m, w)
<1>1. Timed(m) => Timed(w)
  BY DEF Timed, Ticking, Same
<1> QED
  BY <1>1 DEF Silent, Calm, Same

-----------------------------------------------------------------------------
(* The methods that take no step.                                           *)
LEMMA AbortFields ==
  ASSUME NEW m, m \in Worlds, NEW f
  PROVE  LET w == Abort(m, f)
         IN  /\ w.queue = m.queue /\ w.pending = m.pending
             /\ w.conn = m.conn /\ w.ctx = m.ctx /\ w.fault \in {m.fault, f}
BY DEF Abort, Worlds

LEMMA AbortSilent ==
  ASSUME NEW m, m \in Worlds, NEW f, f \notin Asserted
  PROVE  Silent(m, Abort(m, f))
<1> DEFINE w == Abort(m, f)
<1>1. /\ w.queue = m.queue /\ w.pending = m.pending
      /\ w.conn = m.conn /\ w.ctx = m.ctx /\ w.fault \in {m.fault, f}
  BY AbortFields
<1> HIDE DEF w
<1>2. Same(m, w)
  BY <1>1, FieldsSame
<1>3. Timed(m) => Timed(w)
  BY <1>1, <1>2 DEF Timed, Ticking, Same
<1>4. Silent(m, w)
  BY <1>1, <1>2, <1>3 DEF Silent, Calm, Same
<1> QED
  BY <1>4 DEF w

LEMMA CancelSilent ==
  ASSUME NEW m, Good(m), NEW op \in Operations, NEW c \in 0..m.ctx.server
  PROVE  Silent(m, Cancel(m, op, c))
BY CancelFields, SameSilent

LEMMA PostSilent ==
  ASSUME NEW m, Good(m), NEW fn \in {"WRITE", "on_stop", "stop_all"}, NEW c \in 0..m.ctx.server
  PROVE  Silent(m, Post(m, Task(fn, c)))
<1>1. fn \in Tasks /\ fn # "wait" /\ <<fn, c>> \notin StepKinds
  BY DEF Tasks, Events, StepKinds, Going
<1>2. Adds(m, Post(m, Task(fn, c)), <<fn, c>>)
  BY <1>1, PostAdds
<1> QED
  BY <1>1, <1>2, PostFields, AddsSilent DEF Good

\* A change of the fields of one connection.
With(m, c, r) == [m EXCEPT !.conn[c] = r]

LEMMA SetFields ==
  ASSUME NEW m, m \in Worlds, NEW c \in Conns, NEW r
  PROVE  LET w == With(m, c, r)
         IN  /\ w.queue = m.queue /\ w.pending = m.pending
             /\ w.ctx = m.ctx /\ w.fault = m.fault
             /\ w.conn[c] = r /\ \A k \in Conns \ {c} : w.conn[k] = m.conn[k]
             /\ Same(m, w)
<1> DEFINE w == [m EXCEPT !.conn[c] = r]
<1>1. /\ w.queue = m.queue /\ w.pending = m.pending
      /\ w.ctx = m.ctx /\ w.fault = m.fault /\ w.conn = [m.conn EXCEPT ![c] = r]
  BY DEF Worlds
<1>2. m.conn \in [Conns -> Connections]
  BY DEF Worlds
<1> HIDE DEF w
<1>3. w.conn[c] = r /\ \A k \in Conns \ {c} : w.conn[k] = m.conn[k]
  BY <1>1, <1>2
<1> QED
  BY <1>1, <1>3, FieldsSame DEF w, With

LEMMA WithGood ==
  ASSUME NEW m, Good(m), NEW c \in Conns, NEW r \in Connections, r.stopped = m.conn[c].stopped
  PROVE  Quiet(m, With(m, c, r))
BY SetConn DEF With

\* A change of fields the invariant does not look at.
LEMMA SetSilent ==
  ASSUME NEW m, Good(m), NEW c \in Conns, NEW r,
         r.message = m.conn[c].message, r.use_ssl = m.conn[c].use_ssl,
         r.encoded = m.conn[c].encoded, r.running = m.conn[c].running,
         r.connected = m.conn[c].connected, r.stopped = m.conn[c].stopped
  PROVE  Silent(m, With(m, c, r))
<1> DEFINE w == With(m, c, r)
<1>1. /\ w.ctx = m.ctx /\ w.fault = m.fault /\ Same(m, w)
      /\ w.conn[c] = r /\ \A k \in Conns \ {c} : w.conn[k] = m.conn[k]
  BY SetFields DEF Good
<1> HIDE DEF w
<1>2. Timed(m) => Timed(w)
  BY <1>1 DEF Timed, Ticking, Same
<1>3. Silent(m, w)
  BY <1>1, <1>2, ClientIn DEF Silent, Calm, Same
<1> QED
  BY <1>3 DEF w

LEMMA TimerStartSilent ==
  ASSUME NEW m, Good(m), NEW c \in 0..m.ctx.server
  PROVE  Silent(m, timer_start(m, c))
<1> DEFINE r == [m.conn[c] EXCEPT !.running = TRUE]
           v == With(m, c, r)
           w == Begin(v, "wait", c, << >>)
<1>0. c \in Conns /\ m.conn[c] \in Connections
  BY ServerType, ConnType
<1>1. CASE m.conn[c].running
  BY <1>1, SilentRefl DEF timer_start
<1>2. CASE ~m.conn[c].running
  <2>1. timer_start(m, c) = w
    BY <1>2 DEF timer_start, With
  <2>2. /\ r \in Connections /\ r.running
        /\ r.message = m.conn[c].message /\ r.use_ssl = m.conn[c].use_ssl
        /\ r.encoded = m.conn[c].encoded
        /\ r.connected = m.conn[c].connected /\ r.stopped = m.conn[c].stopped
    BY <1>0 DEF Connections
  <2> HIDE DEF r
  <2>3. /\ v.ctx = m.ctx /\ v.fault = m.fault /\ Same(m, v)
        /\ v.conn[c] = r /\ \A k \in Conns \ {c} : v.conn[k] = m.conn[k]
    BY <1>0, SetFields DEF Good
  <2>4. v \in Worlds
    BY <1>0, <2>2, WithGood DEF Quiet, Good
  <2> HIDE DEF v
  <2>5. w.conn = v.conn /\ w.ctx = v.ctx /\ w.fault = v.fault /\ Adds(v, w, <<"wait", c>>)
    BY <2>4, BeginFields, BeginAdds
  <2> HIDE DEF w
  <2>6. ASSUME Timed(m), NEW k \in Conns PROVE Ticking(w, k)
    <3>1. CASE k = c
      <4>1. <<"wait", c>> \notin Kinds(v) /\ Alone(v, {<<"wait", c>>})
        BY <1>0, <1>2, <2>3, <2>6 DEF Timed, Ticking, Same
      <4>2. Alone(w, {<<"wait", c>>}) /\ <<"wait", c>> \in Kinds(w)
        BY <2>5, <4>1 DEF Adds
      <4> QED
        BY <2>2, <2>3, <2>5, <3>1, <4>2 DEF Ticking
    <3>2. CASE k # c
      <4>1. Ticking(v, k)
        BY <2>3, <2>6, <3>2 DEF Timed, Ticking, Same
      <4>2. <<"wait", c>> # <<"wait", k>>
        BY <3>2
      <4> QED
        BY <2>5, <4>1, <4>2 DEF Ticking, Adds
    <3> QED
      BY <3>1, <3>2
  <2>7. <<"wait", c>> \notin StepKinds
    BY DEF StepKinds, Going
  <2>8. /\ Kinds(w) \cap StepKinds = Kinds(m) \cap StepKinds
        /\ Alone(m, StepKinds) => Alone(w, StepKinds)
    BY <2>3, <2>5, <2>7 DEF Adds, Same
  <2>9. Silent(m, w)
    BY <2>2, <2>3, <2>5, <2>6, <2>8, ClientIn DEF Silent, Calm, Timed
  <2> QED
    BY <2>1, <2>9
<1> QED
  BY <1>1, <1>2

LEMMA CancelTimerSilent ==
  ASSUME NEW m, Good(m), NEW c \in 0..m.ctx.server
  PROVE  Silent(m, cancel_timer(m, c))
BY CancelSilent, SilentRefl DEF cancel_timer, Operations

\* The two together: what a method does to Good and what it does to Active.
Keeps(m, w) == Quiet(m, w) /\ Silent(m, w)

LEMMA KeepsTrans ==
  ASSUME NEW m, NEW v, NEW w, Keeps(m, v), Keeps(v, w)
  PROVE  Keeps(m, w)
BY QuietTrans, SilentTrans DEF Keeps

LEMMA CancelKeeps ==
  ASSUME NEW m, Good(m), NEW op \in Operations, NEW c \in 0..m.ctx.server
  PROVE  Keeps(m, Cancel(m, op, c))
BY CancelQuiet, CancelSilent DEF Keeps

LEMMA CloseKeeps ==
  ASSUME NEW m, Good(m), NEW c \in 0..m.ctx.server
  PROVE  Keeps(m, close(m, c))
<1> DEFINE m1 == Cancel(m, "read", c)
           m2 == Cancel(m1, "write", c)
           m3 == Cancel(m2, "handshake", c)
           m4 == Cancel(m3, "connect", c)
<1>0. close(m, c) = m4
  BY DEF close
<1>1. Keeps(m, m1)
  BY CancelKeeps DEF Operations
<1> HIDE DEF m1
<1>2. Keeps(m, m2)
  BY <1>1, CancelKeeps, KeepsTrans DEF Operations, Keeps, Quiet
<1> HIDE DEF m2
<1>3. Keeps(m, m3)
  BY <1>2, CancelKeeps, KeepsTrans DEF Operations, Keeps, Quiet
<1> HIDE DEF m3
<1>4. Keeps(m, m4)
  BY <1>3, CancelKeeps, KeepsTrans DEF Operations, Keeps, Quiet
<1> QED
  BY <1>0, <1>4

LEMMA StopSilent ==
  ASSUME NEW m, Good(m), NEW c \in 0..m.ctx.server, NEW notify \in BOOLEAN
  PROVE  Silent(m, stop(m, c, notify))
<1> DEFINE m1 == cancel_timer(m, c)
           m2 == IF m.conn[c].connected THEN close(m1, c) ELSE m1
           m3 == IF notify THEN Post(m2, Task("on_stop", c)) ELSE m2
           r == [m3.conn[c] EXCEPT !.connected = FALSE, !.stopped = TRUE]
           w == [m3 EXCEPT !.conn[c] = r, !.managed = @ \ {c}]
<1>0. c \in Conns
  BY ServerType
<1>1. CASE m.conn[c].stopped
  BY <1>1, SilentRefl DEF stop
<1>2. CASE ~m.conn[c].stopped
  <2>1. Keeps(m, m1)
    BY CancelTimerQuiet, CancelTimerSilent DEF Keeps
  <2> HIDE DEF m1
  <2>2. Keeps(m, m2)
    BY <2>1, CloseKeeps, KeepsTrans DEF Keeps, Quiet
  <2> HIDE DEF m2
  <2>3. Keeps(m, m3)
    <3>1. Good(m2) /\ c \in 0..m2.ctx.server
      BY <2>2 DEF Keeps, Quiet
    <3>2. Keeps(m2, Post(m2, Task("on_stop", c)))
      BY <3>1, PostSilent, PostQuiet, TaskType DEF Keeps, Tasks
    <3> QED
      BY <2>2, <3>2, KeepsTrans
  <2>4. stop(m, c, notify) = erase([m3 EXCEPT !.conn[c].connected = FALSE, !.conn[c].stopped = TRUE], c)
    BY <1>2 DEF stop, m1, m2
  <2> HIDE DEF m3
  <2>5. m3 \in Worlds /\ m3.conn[c] \in Connections
    BY <1>0, <2>3, ConnType DEF Keeps, Quiet, Good
  <2>6. stop(m, c, notify) = w
    BY <1>0, <2>4, <2>5 DEF erase, Worlds
  <2>7. /\ r.stopped /\ r.message = m3.conn[c].message /\ r.use_ssl = m3.conn[c].use_ssl
        /\ r.encoded = m3.conn[c].encoded /\ r.running = m3.conn[c].running
    BY <2>5 DEF Connections
  <2> HIDE DEF r
  <2>8. /\ w.queue = m3.queue /\ w.pending = m3.pending /\ w.ctx = m3.ctx
        /\ w.fault = m3.fault /\ w.conn = [m3.conn EXCEPT ![c] = r]
        /\ m3.conn \in [Conns -> Connections]
    BY <2>5 DEF Worlds
  <2> HIDE DEF w
  <2>9. w.conn[c] = r /\ \A k \in Conns \ {c} : w.conn[k] = m3.conn[k]
    BY <1>0, <2>8
  <2>10. Same(m3, w)
    BY <2>8, FieldsSame
  <2>11. Timed(m3) => Timed(w)
    BY <2>7, <2>9, <2>10 DEF Timed, Ticking, Same
  <2>12. Silent(m3, w)
    BY <2>7, <2>8, <2>9, <2>10, <2>11, ClientIn DEF Silent, Calm, Same
  <2> QED
    BY <2>3, <2>6, <2>12, SilentTrans DEF Keeps
<1> QED
  BY <1>1, <1>2

-----------------------------------------------------------------------------
(* The methods that take a step, in the world of a handler that was the     *)
(* only one.                                                                *)
Standing(m) == Good(m) /\ Idle(m) /\ Always(m) /\ Timed(m) /\ m.fault \notin Asserted

LEMMA StandingActive ==
  ASSUME NEW m, Standing(m)
  PROVE  Active(m)
BY RestsActive DEF Standing, Idle

LEMMA CalmStanding ==
  ASSUME NEW m, Standing(m), NEW w, Good(w), Calm(m, w)
  PROVE  Standing(w)
BY CalmIdle, CalmAlways DEF Standing, Calm

\* A change of one connection's fields between two steps.
LEMMA SetStanding ==
  ASSUME NEW m, Standing(m), NEW c \in Conns, NEW r \in Connections,
         r.stopped = m.conn[c].stopped, r.running = m.conn[c].running,
         c = Client => r.use_ssl = m.conn[c].use_ssl /\ (r.connected \/ r.stopped),
         c # Client => /\ r.encoded \in {0, ReqLen}
                       /\ r.use_ssl => r.connected \/ r.stopped,
         NEW w, w = With(m, c, r)
  PROVE  /\ Standing(w) /\ w.ctx = m.ctx
         /\ w.conn[c] = r /\ \A k \in Conns \ {c} : w.conn[k] = m.conn[k]
<1>1. /\ w.ctx = m.ctx /\ w.fault = m.fault /\ Same(m, w)
      /\ w.conn[c] = r /\ \A k \in Conns \ {c} : w.conn[k] = m.conn[k]
  BY SetFields DEF Standing, Good
<1>2. Good(w)
  BY WithGood DEF Quiet, Standing
<1>3. Timed(w)
  BY <1>1 DEF Timed, Ticking, Same, Standing
<1>4. Always(w)
  BY <1>1, ClientIn DEF Always, Standing
<1>5. Idle(w)
  <2>1. w.conn[Client].use_ssl = m.conn[Client].use_ssl
    BY <1>1, ClientIn
  <2> QED
    BY <1>1, <2>1 DEF Idle, NoStep, Replying, Same, Standing
<1> QED
  BY <1>1, <1>2, <1>3, <1>4, <1>5 DEF Standing

LEMMA BeginActive ==
  ASSUME NEW m, Standing(m), NEW op, op # "wait", NEW c, NEW d, Ready(m, op, c)
  PROVE  Active(Begin(m, op, c, d))
<1>1. m \in Worlds
  BY DEF Standing, Good
<1> DEFINE w == Begin(m, op, c, d)
<1>2. w.conn = m.conn /\ w.ctx = m.ctx /\ w.fault = m.fault /\ Adds(m, w, <<op, c>>)
  BY <1>1, BeginFields, BeginAdds
<1> HIDE DEF w
<1>3. Active(w)
  BY <1>2, AddsActive DEF Standing
<1> QED
  BY <1>3 DEF w

LEMMA PostActive ==
  ASSUME NEW m, Standing(m), NEW fn \in Tasks, NEW c \in 0..m.ctx.server, Ready(m, fn, c)
  PROVE  Active(Post(m, Task(fn, c)))
<1>1. m \in Worlds /\ Good(m) /\ fn # "wait"
  BY DEF Standing, Good, Tasks, Events
<1> DEFINE w == Post(m, Task(fn, c))
<1>2. w.conn = m.conn /\ w.ctx = m.ctx /\ w.fault = m.fault /\ Adds(m, w, <<fn, c>>)
  BY <1>1, PostFields, PostAdds
<1> HIDE DEF w
<1>3. Active(w)
  BY <1>1, <1>2, AddsActive DEF Standing
<1> QED
  BY <1>3 DEF w

LEMMA AbortActive ==
  ASSUME NEW m, m \in Worlds, Active(m), NEW f, f \notin Asserted
  PROVE  Active(Abort(m, f))
BY AbortSilent, SilentActive

LEMMA ReadActive ==
  ASSUME NEW m, Standing(m), NEW c, Ready(m, "read", c)
  PROVE  Active(read(m, c))
<1>1. Active(Begin(m, "read", c, << >>))
  BY BeginActive
<1>2. Active(Abort(m, "read_assert"))
  BY StandingActive, AbortActive DEF Standing, Good, Asserted
<1> QED
  BY <1>1, <1>2 DEF read

LEMMA StopActive ==
  ASSUME NEW m, Good(m), Active(m), NEW c \in 0..m.ctx.server, NEW notify \in BOOLEAN
  PROVE  Active(stop(m, c, notify))
BY StopSilent, SilentActive

\* The client connection stays connected until it is stopped, so a write to
\* it never starts it again.
LEMMA DoWriteClientSilent ==
  ASSUME NEW m, Good(m), m.conn[Client].connected
  PROVE  Silent(m, do_write(m, Client))
<1> DEFINE r == [m.conn[Client] EXCEPT !.writing = TRUE]
           v == With(m, Client, r)
           d == Head(m.conn[Client].out)
           w == Begin(v, "write", Client, d)
<1>0. m.conn[Client] \in Connections
  BY ClientIn, ConnType
<1>1. CASE m.conn[Client].writing \/ m.conn[Client].out = << >>
  BY <1>1, SilentRefl DEF do_write
<1>2. CASE ~(m.conn[Client].writing \/ m.conn[Client].out = << >>)
  <2>1. do_write(m, Client) = w
    BY <1>2 DEF do_write, With
  <2>2. /\ r \in Connections
        /\ r.message = m.conn[Client].message /\ r.use_ssl = m.conn[Client].use_ssl
        /\ r.encoded = m.conn[Client].encoded /\ r.running = m.conn[Client].running
        /\ r.connected = m.conn[Client].connected /\ r.stopped = m.conn[Client].stopped
    BY <1>0 DEF Connections
  <2> HIDE DEF r, d
  <2>3. Silent(m, v) /\ v \in Worlds
    BY <2>2, ClientIn, SetSilent, WithGood DEF Quiet, Good
  <2> HIDE DEF v
  <2>4. w.conn = v.conn /\ w.ctx = v.ctx /\ w.fault = v.fault /\ Adds(v, w, <<"write", Client>>)
    BY <2>3, BeginFields, BeginAdds
  <2>5. <<"write", Client>> \notin StepKinds
    BY ClientIn DEF StepKinds, Going
  <2> HIDE DEF w
  <2>6. Silent(v, w)
    BY <2>4, <2>5, AddsSilent
  <2> QED
    BY <2>1, <2>3, <2>6, SilentTrans
<1> QED
  BY <1>1, <1>2

\* What a write to the current server connection can rely on.
Serving(m, s) ==
  /\ s \in Servers /\ s = m.ctx.server
  /\ m.conn[Client].encoded <= Len(m.conn[s].message)

LEMMA ServingIn ==
  ASSUME NEW m, Good(m), NEW s, s = m.ctx.server
  PROVE  s \in 0..m.ctx.server /\ s \in Conns
BY ServerType, SizesAssumption DEF Conns

LEMMA DoWriteServerActive ==
  ASSUME NEW m, Standing(m), NEW s, Serving(m, s), ~m.conn[s].stopped
  PROVE  Active(do_write(m, s))
<1> DEFINE r == [m.conn[s] EXCEPT !.writing = TRUE]
           v == With(m, s, r)
           d == Head(m.conn[s].out)
<1>0. s \in Conns /\ s # Client /\ s \in Servers /\ m.conn[s] \in Connections
  BY ClientIn, ConnType DEF Serving, Standing
<1>1. CASE m.conn[s].writing \/ m.conn[s].out = << >>
  BY <1>1, StandingActive DEF do_write
<1>2. CASE ~(m.conn[s].writing \/ m.conn[s].out = << >>) /\ ~m.conn[s].connected
  <2>1. [m EXCEPT !.ctx.server = s] = m
    BY DEF Serving, Standing, Good, Worlds, Contexts
  <2>2. do_write(m, s) = Begin(m, "resolve", s, << >>)
    BY <1>0, <1>2, <2>1 DEF do_write, start
  <2>3. ~m.conn[s].use_ssl
    BY <1>0, <1>2 DEF Standing, Always
  <2>4. Ready(m, "resolve", s)
    BY <1>0, <2>3 DEF Ready, Serving
  <2> QED
    BY <2>2, <2>4, BeginActive
<1>3. CASE ~(m.conn[s].writing \/ m.conn[s].out = << >>) /\ m.conn[s].connected
  <2>1. do_write(m, s) = Begin(v, "write", s, d)
    BY <1>3 DEF do_write, With
  <2>2. /\ r \in Connections
        /\ r.message = m.conn[s].message /\ r.use_ssl = m.conn[s].use_ssl
        /\ r.encoded = m.conn[s].encoded /\ r.running = m.conn[s].running
        /\ r.connected = m.conn[s].connected /\ r.stopped = m.conn[s].stopped
    BY <1>0 DEF Connections
  <2> HIDE DEF r, d
  <2>3. Silent(m, v) /\ Good(v)
    BY <1>0, <2>2, SetSilent, WithGood DEF Quiet, Standing
  <2> HIDE DEF v
  <2>4. Standing(v)
    BY <2>3, CalmStanding DEF Silent
  <2>5. Ready(v, "write", s)
    BY <1>0, <2>3, ClientIn DEF Ready, Serving, Silent, Calm
  <2> QED
    BY <2>1, <2>4, <2>5, BeginActive
<1> QED
  BY <1>1, <1>2, <1>3

LEMMA WriteBufferedActive ==
  ASSUME NEW m, Standing(m), NEW s, Serving(m, s)
  PROVE  Active(write_buffered(m, s))
<1> DEFINE v == cancel_timer(m, s)
<1>0. s \in 0..m.ctx.server /\ s \in Conns /\ Good(m)
  BY ServingIn DEF Serving, Standing
<1>1. CASE m.conn[s].stopped
  BY <1>1, StandingActive, AbortActive DEF write_buffered, Asserted, Standing, Good
<1>2. CASE ~m.conn[s].stopped
  <2>1. Quiet(m, v) /\ Silent(m, v)
    BY <1>0, CancelTimerQuiet, CancelTimerSilent
  <2>2. write_buffered(m, s) = do_write(v, s)
    BY <1>2 DEF write_buffered
  <2> HIDE DEF v
  <2>3. Standing(v)
    BY <2>1, CalmStanding DEF Silent, Quiet
  <2>4. Serving(v, s) /\ ~v.conn[s].stopped
    BY <1>0, <1>2, <2>1, ClientIn DEF Serving, Silent, Calm, Quiet
  <2> QED
    BY <2>2, <2>3, <2>4, DoWriteServerActive
<1> QED
  BY <1>1, <1>2

\* connection::write(msg) as a change of the encoder and buffer_out_ followed
\* by do_write.
Encoding(m, c, msg) ==
  LET done == m.conn[c].encoded
  IN  IF done = OutLen(c) THEN << >> ELSE SubSeq(msg, done + 1, Len(msg))

Encodes(m, c, msg, completed, v, r) ==
  /\ v = cancel_timer(m, c)
  /\ write(m, c, msg, completed) = do_write(With(v, c, r), c)
  /\ Quiet(m, v) /\ Silent(m, v)
  /\ r \in Connections /\ r.stopped = v.conn[c].stopped
  /\ r.encoded = encoded_after(c, m.conn[c].encoded, msg, completed)
  /\ r.message = v.conn[c].message /\ r.use_ssl = v.conn[c].use_ssl
  /\ r.running = v.conn[c].running /\ r.connected = v.conn[c].connected
  /\ r.writing = v.conn[c].writing
  /\ r.out = IF Encoding(m, c, msg) = << >> THEN v.conn[c].out
                                            ELSE Append(v.conn[c].out, Encoding(m, c, msg))

LEMMA WriteParts ==
  ASSUME NEW m, Good(m), NEW c \in 0..m.ctx.server, NEW msg \in Seq(Unit),
         NEW completed \in BOOLEAN,
         ~m.conn[c].stopped, m.conn[c].encoded = OutLen(c) \/ m.conn[c].encoded <= Len(msg)
  PROVE  \E v, r : Encodes(m, c, msg, completed, v, r)
<1> DEFINE done == m.conn[c].encoded
           n == encoded_after(c, done, msg, completed)
           buf == Encoding(m, c, msg)
           v == cancel_timer(m, c)
           o == IF buf = << >> THEN v.conn[c].out ELSE Append(v.conn[c].out, buf)
           r == [v.conn[c] EXCEPT !.encoded = n, !.out = o]
<1>0. c \in Conns
  BY ServerType
<1>1. m.conn[c] \in Connections
  BY <1>0, ConnType
<1>2. Quiet(m, v) /\ Silent(m, v)
  BY CancelTimerQuiet, CancelTimerSilent
<1>3. done \in Nat /\ OutLen(c) \in Nat /\ Len(msg) \in Nat
  BY <1>1, SizesAssumption DEF Connections, OutLen
<1>4. ~(done # OutLen(c) /\ done > Len(msg))
  BY <1>3
<1>5. buf \in Seq(Unit)
  <2>1. \A i \in done + 1 .. Len(msg) : msg[i] \in Unit
    BY <1>3, ElementOfSeq
  <2>2. SubSeq(msg, done + 1, Len(msg)) \in Seq(Unit)
    <3>1. done + 1 \in Int /\ Len(msg) \in Int
      BY <1>3
    <3> QED
      BY <2>1, <3>1, SubSeqProperties
  <2> QED
    BY <2>2 DEF Encoding
<1>6. n \in Nat
  BY <1>3 DEF encoded_after
<1>7. write(m, c, msg, completed) = do_write(With(v, c, r), c)
  BY <1>4 DEF write, With, Encoding
<1> HIDE DEF buf, v, n
<1>8. v.conn[c] \in Connections
  BY <1>0, <1>2, ConnType DEF Quiet
<1>9. o \in Seq(Seq(Unit))
  <2>1. v.conn[c].out \in Seq(Seq(Unit))
    BY <1>8 DEF Connections
  <2> QED
    BY <1>5, <2>1
<1> HIDE DEF o
<1>10. /\ r \in Connections /\ r.encoded = n /\ r.stopped = v.conn[c].stopped
       /\ r.message = v.conn[c].message /\ r.use_ssl = v.conn[c].use_ssl
       /\ r.running = v.conn[c].running /\ r.connected = v.conn[c].connected
       /\ r.writing = v.conn[c].writing /\ r.out = o
  BY <1>6, <1>8, <1>9 DEF Connections
<1> HIDE DEF r
<1>11. Encodes(m, c, msg, completed, v, r)
  BY <1>2, <1>7, <1>10 DEF Encodes, n, v, o, buf
<1> QED
  BY <1>11

\* A part of a response, or the answer to CONNECT, goes to the client.
LEMMA WriteClientCalm ==
  ASSUME NEW m, Good(m), Always(m), NEW msg \in Seq(Unit), NEW completed \in BOOLEAN,
         m.conn[Client].encoded = RespLen \/ m.conn[Client].encoded <= Len(msg),
         NEW w, w = write(m, Client, msg, completed)
  PROVE  /\ Calm(m, w)
         /\ w.conn[Client].encoded \in
              {m.conn[Client].encoded, encoded_after(Client, m.conn[Client].encoded, msg, completed)}
<1> DEFINE n == encoded_after(Client, m.conn[Client].encoded, msg, completed)
<1>0. Client \in 0..m.ctx.server /\ OutLen(Client) = RespLen
  BY ServerType, SizesAssumption DEF Conns, Client, OutLen
<1>1. CASE m.conn[Client].stopped
  <2>1. w = Abort(m, "write_assert")
    BY <1>1 DEF write
  <2>2. Silent(m, w)
    BY <2>1, AbortSilent DEF Good, Asserted
  <2> QED
    BY <2>2 DEF Silent
<1>2. CASE ~m.conn[Client].stopped
  <2>0. PICK v, r : Encodes(m, Client, msg, completed, v, r)
    BY <1>0, <1>2, WriteParts
  <2> DEFINE u == With(v, Client, r)
  <2>1. /\ w = do_write(u, Client)
        /\ Quiet(m, v) /\ Silent(m, v) /\ Good(v)
        /\ r \in Connections /\ r.encoded = n /\ r.stopped = v.conn[Client].stopped
        /\ r.message = v.conn[Client].message /\ r.use_ssl = v.conn[Client].use_ssl
        /\ r.running = v.conn[Client].running /\ r.connected = v.conn[Client].connected
    BY <2>0 DEF Encodes, Quiet
  <2>g. Good(v) /\ v \in Worlds
    BY <2>1 DEF Good
  <2> HIDE DEF n
  <2>2. /\ u.ctx = v.ctx /\ u.fault = v.fault /\ Same(v, u)
        /\ u.conn[Client] = r /\ \A k \in Conns \ {Client} : u.conn[k] = v.conn[k]
    BY <2>g, ClientIn, SetFields
  <2>3. Good(u)
    BY <2>1, <2>g, ClientIn, WithGood DEF Quiet
  <2> HIDE DEF u
  <2>4. Timed(v) => Timed(u)
    BY <2>1, <2>2 DEF Timed, Ticking, Same
  <2>5. Calm(v, u)
    BY <2>1, <2>2, <2>4, ClientIn DEF Calm, Same
  <2>6. Calm(m, u)
    BY <2>1, <2>5, CalmTrans DEF Silent
  <2>7. u.conn[Client].connected
    BY <1>2, <2>1, <2>2, <2>6, ClientIn DEF Always, Calm, Quiet
  <2>8. Silent(u, w)
    BY <2>1, <2>3, <2>7, DoWriteClientSilent
  <2>9. Calm(m, w) /\ w.conn[Client].encoded = n
    BY <2>1, <2>2, <2>6, <2>8, CalmTrans DEF Silent
  <2> QED
    BY <2>9 DEF n
<1> QED
  BY <1>1, <1>2

\* A request goes to the current server connection.
LEMMA WriteServerActive ==
  ASSUME NEW m, Standing(m), NEW s, s \in Servers, s = m.ctx.server,
         m.conn[Client].encoded = 0, NEW msg \in Seq(Unit)
  PROVE  Active(write(m, s, msg, TRUE))
<1> DEFINE n == encoded_after(s, m.conn[s].encoded, msg, TRUE)
<1>0. /\ s \in 0..m.ctx.server /\ s \in Conns /\ s # Client /\ Good(m) /\ Len(msg) \in Nat
      /\ OutLen(s) = ReqLen /\ m.conn[s].encoded \in {0, ReqLen}
  BY ServingIn, ClientIn DEF Standing, OutLen, Always
<1>1. CASE m.conn[s].stopped
  BY <1>1, StandingActive, AbortActive DEF write, Asserted, Standing, Good
<1>2. CASE ~m.conn[s].stopped
  <2>1. n = ReqLen
    BY <1>0 DEF encoded_after
  <2>2. m.conn[s].encoded = OutLen(s) \/ m.conn[s].encoded <= Len(msg)
    BY <1>0
  <2>p. PICK v, r : Encodes(m, s, msg, TRUE, v, r)
    BY <1>0, <1>2, <2>2, WriteParts
  <2> DEFINE u == With(v, s, r)
  <2>3. /\ write(m, s, msg, TRUE) = do_write(u, s)
        /\ Quiet(m, v) /\ Silent(m, v)
        /\ r \in Connections /\ r.encoded = n /\ r.stopped = v.conn[s].stopped
        /\ r.message = v.conn[s].message /\ r.use_ssl = v.conn[s].use_ssl
        /\ r.running = v.conn[s].running /\ r.connected = v.conn[s].connected
    BY <2>p DEF Encodes
  <2>u. u = With(v, s, r)
    OBVIOUS
  <2> HIDE DEF n, u
  <2>4. Standing(v)
    BY <2>3, CalmStanding DEF Silent, Quiet
  <2>5. r.use_ssl => r.connected \/ r.stopped
    BY <1>0, <2>3, <2>4 DEF Standing, Always
  <2>6. /\ Standing(u) /\ u.ctx = v.ctx
        /\ u.conn[s] = r /\ \A k \in Conns \ {s} : u.conn[k] = v.conn[k]
    BY <1>0, <2>1, <2>3, <2>4, <2>5, <2>u, SetStanding
  <2>7. ~u.conn[s].stopped /\ u.conn[Client].encoded = 0 /\ u.ctx.server = s
    BY <1>0, <1>2, <2>3, <2>6, ClientIn DEF Silent, Calm, Quiet
  <2>8. Len(u.conn[s].message) \in Nat
    BY <1>0, <2>6, MessageType DEF Standing
  <2>9. Serving(u, s)
    BY <2>7, <2>8 DEF Serving
  <2> QED
    BY <2>3, <2>6, <2>7, <2>9, DoWriteServerActive
<1> QED
  BY <1>1, <1>2

-----------------------------------------------------------------------------
(* The handlers.                                                            *)

\* The fields of a connection that a handler does not name stay.
SameButOut(r, x) ==
  /\ r \in Connections /\ r.message = x.message /\ r.use_ssl = x.use_ssl
  /\ r.encoded = x.encoded /\ r.running = x.running
  /\ r.connected = x.connected /\ r.stopped = x.stopped

LEMMA SameButOutSilent ==
  ASSUME NEW m, Good(m), NEW c \in Conns, NEW r, SameButOut(r, m.conn[c])
  PROVE  Keeps(m, With(m, c, r)) /\ With(m, c, r).conn[c] = r
BY SetSilent, WithGood, SetFields DEF SameButOut, Keeps, Good

LEMMA KeepsActive ==
  ASSUME NEW m, Active(m), NEW w, Keeps(m, w)
  PROVE  Active(w) /\ Good(w) /\ w.ctx.server = m.ctx.server
BY SilentActive DEF Keeps, Quiet

LEMMA KeepsStanding ==
  ASSUME NEW m, Standing(m), NEW w, Keeps(m, w)
  PROVE  Standing(w)
BY CalmStanding DEF Keeps, Quiet, Silent

\* What on_write makes of the connection it runs on.
OnWriteRest(m, c, v, w) ==
  /\ Keeps(m, v) /\ Keeps(m, w)
  /\ ~m.conn[c].stopped => ~w.conn[c].stopped
  /\ m.conn[c].connected => w.conn[c].connected

LEMMA OnWriteParts ==
  ASSUME NEW m, Good(m), NEW c \in 0..m.ctx.server, NEW res, NEW data \in Seq(Unit)
  PROVE  \E v, w :
           /\ OnWriteRest(m, c, v, w)
           /\ \/ on_write(m, c, res, data) = v
              \/ on_write(m, c, res, data) = stop(v, c, TRUE)
              \/ on_write(m, c, res, data) = Abort(m, "end_iterator")
              \/ ~m.conn[c].stopped /\ on_write(m, c, res, data) = do_write(w, c)
              \/ ~m.conn[c].stopped /\ on_write(m, c, res, data) = on_written(w, c)
<1> DEFINE out == m.conn[c].out
           r == [m.conn[c] EXCEPT !.writing = FALSE]
           v == With(m, c, r)
           o == unsent(out, Len(data))
           q == [v.conn[c] EXCEPT !.out = o]
           w == With(v, c, q)
<1>0. c \in Conns
  BY ServerType
<1>1. m.conn[c] \in Connections
  BY <1>0, ConnType
<1>2. SameButOut(r, m.conn[c])
  BY <1>1 DEF Connections, SameButOut
<1>3. /\ v = [m EXCEPT !.conn[c].writing = FALSE]
      /\ w = [v EXCEPT !.conn[c].out = o]
  BY DEF With
<1>4. Keeps(m, v)
  <2> HIDE DEF r
  <2> QED BY <1>0, <1>2, SameButOutSilent
<1>5. CASE m.conn[c].stopped \/ res # "ok" \/ out = << >>
  <2>1. \/ on_write(m, c, res, data) = v
        \/ on_write(m, c, res, data) = stop(v, c, TRUE)
        \/ on_write(m, c, res, data) = Abort(m, "end_iterator")
    BY <1>3, <1>5 DEF on_write
  <2> HIDE DEF v
  <2>2. OnWriteRest(m, c, v, m)
    BY <1>4, SilentRefl, QuietRefl DEF OnWriteRest, Keeps
  <2> QED
    BY <2>1, <2>2
<1>6. CASE ~(m.conn[c].stopped \/ res # "ok" \/ out = << >>)
  <2>1. \/ on_write(m, c, res, data) = do_write(w, c)
        \/ on_write(m, c, res, data) = on_written(w, c)
    BY <1>3, <1>6 DEF on_write
  <2>2. out \in Seq(Seq(Unit)) /\ Len(data) \in Nat
    BY <1>1 DEF Connections
  <2>3. o \in Seq(Seq(Unit))
    BY <1>6, <2>2, UnsentType
  <2> HIDE DEF v, o
  <2>4. v.conn[c] \in Connections /\ Good(v)
    BY <1>0, <1>4, ConnType DEF Keeps, Quiet
  <2>5. SameButOut(q, v.conn[c])
    BY <2>3, <2>4 DEF Connections, SameButOut
  <2> HIDE DEF q
  <2>6. Keeps(v, w)
    BY <1>0, <2>4, <2>5, SameButOutSilent
  <2> HIDE DEF w
  <2>7. Keeps(m, w)
    BY <1>4, <2>6, KeepsTrans
  <2>8. w.conn[c].stopped = m.conn[c].stopped
    BY <1>0, <2>7 DEF Keeps, Quiet
  <2>9. OnWriteRest(m, c, v, w)
    BY <1>0, <1>4, <1>6, <2>7, <2>8 DEF OnWriteRest, Keeps, Silent, Calm
  <2> QED
    BY <1>6, <2>1, <2>9
<1> QED
  BY <1>5, <1>6

LEMMA OnWriteClientActive ==
  ASSUME NEW m, Good(m), Active(m), NEW res, NEW data \in Seq(Unit)
  PROVE  Active(on_write(m, Client, res, data))
<1>0. Client \in 0..m.ctx.server
  BY ServerType, SizesAssumption DEF Conns, Client
<1>1. PICK v, w :
           /\ OnWriteRest(m, Client, v, w)
           /\ \/ on_write(m, Client, res, data) = v
              \/ on_write(m, Client, res, data) = stop(v, Client, TRUE)
              \/ on_write(m, Client, res, data) = Abort(m, "end_iterator")
              \/ ~m.conn[Client].stopped /\ on_write(m, Client, res, data) = do_write(w, Client)
              \/ ~m.conn[Client].stopped /\ on_write(m, Client, res, data) = on_written(w, Client)
  BY <1>0, OnWriteParts
<1>2. Active(v) /\ Good(v) /\ Client \in 0..v.ctx.server /\ Active(w) /\ Good(w) /\ Client \in 0..w.ctx.server
  BY <1>0, <1>1, KeepsActive DEF OnWriteRest
<1>3. Active(stop(v, Client, TRUE)) /\ Active(Abort(m, "end_iterator"))
  BY <1>2, StopActive, AbortActive DEF Good, Asserted
<1>4. ~m.conn[Client].stopped => w.conn[Client].connected
  BY <1>1 DEF OnWriteRest, Active, Always
<1>5. ~m.conn[Client].stopped => Active(do_write(w, Client))
  BY <1>2, <1>4, DoWriteClientSilent, SilentActive
<1>6. Active(on_written(w, Client))
  BY <1>2, PostSilent, SilentActive DEF on_written
<1> QED
  BY <1>1, <1>2, <1>3, <1>5, <1>6

LEMMA ReadyServing ==
  ASSUME NEW m, NEW fn, NEW s \in Servers, Ready(m, fn, s)
  PROVE  Serving(m, s) /\ s # Client /\ s \in Conns
BY ClientIn DEF Ready, Serving

LEMMA OnWriteServerActive ==
  ASSUME NEW m, Standing(m), NEW s \in Servers, Ready(m, "write", s), NEW res, NEW data \in Seq(Unit)
  PROVE  Active(on_write(m, s, res, data))
<1>0. s \in 0..m.ctx.server /\ Serving(m, s) /\ s # Client /\ s \in Conns /\ Good(m)
  BY ReadyServing, ServingIn DEF Serving, Standing
<1>1. PICK v, w :
           /\ OnWriteRest(m, s, v, w)
           /\ \/ on_write(m, s, res, data) = v
              \/ on_write(m, s, res, data) = stop(v, s, TRUE)
              \/ on_write(m, s, res, data) = Abort(m, "end_iterator")
              \/ ~m.conn[s].stopped /\ on_write(m, s, res, data) = do_write(w, s)
              \/ ~m.conn[s].stopped /\ on_write(m, s, res, data) = on_written(w, s)
  BY <1>0, OnWriteParts
<1>2. Standing(v) /\ Standing(w)
  BY <1>1, KeepsStanding DEF OnWriteRest
<1>3. Active(v) /\ Good(v) /\ s \in 0..v.ctx.server
  BY <1>0, <1>1, <1>2, StandingActive DEF Standing, OnWriteRest, Keeps, Quiet
<1>4. Active(stop(v, s, TRUE)) /\ Active(Abort(m, "end_iterator"))
  BY <1>0, <1>3, StandingActive, StopActive, AbortActive DEF Good, Asserted
<1>5. Serving(w, s)
  BY <1>0, <1>1, ClientIn DEF Serving, OnWriteRest, Keeps, Silent, Calm
<1>6. ~m.conn[s].stopped => Active(do_write(w, s))
  BY <1>1, <1>2, <1>5, DoWriteServerActive DEF OnWriteRest
<1>7. Active(on_written(w, s))
  <2>1. Ready(w, "read", s)
    BY <1>0, <1>5 DEF Ready, Serving
  <2> QED
    BY <1>0, <1>2, <2>1, ReadActive DEF on_written
<1> QED
  BY <1>1, <1>3, <1>4, <1>6, <1>7

\* A connection that has cancelled its timer and decoded what it read.
Decoded(m, c, data) == [cancel_timer(m, c) EXCEPT !.conn[c].message = @ \o data]

DecodedFrom(m, c, data, w) ==
  /\ Standing(w) /\ w.ctx = m.ctx
  /\ w.conn[c].message = m.conn[c].message \o data
  /\ w.conn[c].encoded = m.conn[c].encoded
  /\ \A k \in Conns \ {c} : /\ w.conn[k].message = m.conn[k].message
                            /\ w.conn[k].encoded = m.conn[k].encoded

LEMMA DecodedStanding ==
  ASSUME NEW m, Standing(m), NEW c \in 0..m.ctx.server, NEW data \in Seq(Unit),
         NEW w, w = Decoded(m, c, data)
  PROVE  DecodedFrom(m, c, data, w)
<1> DEFINE v == cancel_timer(m, c)
           d == v.conn[c].message \o data
           r == [v.conn[c] EXCEPT !.message = d]
<1>0. c \in Conns /\ Good(m)
  BY ServerType DEF Standing
<1>1. Keeps(m, v)
  BY <1>0, CancelTimerQuiet, CancelTimerSilent DEF Keeps
<1>2. Standing(v) /\ v.ctx = m.ctx
  BY <1>1, KeepsStanding DEF Keeps, Silent, Calm
<1>3. v.conn[c] \in Connections /\ v.conn[c].message \in Seq(Unit)
  BY <1>0, <1>2, ConnType, MessageType DEF Standing
<1>4. d \in Seq(Unit)
  BY <1>3, ConcatProperties
<1>5. w = With(v, c, r)
  BY DEF With, Decoded
<1> HIDE DEF v
<1>6. /\ r \in Connections /\ r.message = d /\ r.encoded = v.conn[c].encoded
      /\ r.stopped = v.conn[c].stopped /\ r.running = v.conn[c].running
      /\ r.use_ssl = v.conn[c].use_ssl /\ r.connected = v.conn[c].connected
  <2> HIDE DEF d
  <2> QED BY <1>3, <1>4 DEF Connections
<1>7. /\ c = Client => r.connected \/ r.stopped
      /\ c # Client => r.encoded \in {0, ReqLen} /\ (r.use_ssl => r.connected \/ r.stopped)
  <2> HIDE DEF r
  <2> QED BY <1>0, <1>2, <1>6, ClientIn DEF Standing, Always
<1> HIDE DEF r, d
<1>8. /\ Standing(w) /\ w.ctx = v.ctx
      /\ w.conn[c] = r /\ \A k \in Conns \ {c} : w.conn[k] = v.conn[k]
  BY <1>0, <1>2, <1>5, <1>6, <1>7, SetStanding
<1>9. d = m.conn[c].message \o data
  BY <1>0, <1>1 DEF d, Keeps, Silent, Calm
<1>10. \A k \in Conns : /\ v.conn[k].message = m.conn[k].message
                        /\ v.conn[k].encoded = m.conn[k].encoded
  BY <1>1, ClientIn DEF Keeps, Silent, Calm
<1>11. w.conn[c].message = d /\ w.conn[c].encoded = m.conn[c].encoded
  BY <1>0, <1>6, <1>8, <1>10
<1>12. \A k \in Conns \ {c} : /\ w.conn[k].message = m.conn[k].message
                              /\ w.conn[k].encoded = m.conn[k].encoded
  BY <1>8, <1>10
<1> QED
  BY <1>2, <1>8, <1>9, <1>11, <1>12 DEF DecodedFrom

LEMMA ClientOnReadActive ==
  ASSUME NEW m, Standing(m), Ready(m, "read", Client), NEW res, NEW data \in Seq(Unit)
  PROVE  Active(client_on_read(m, res, data))
<1> DEFINE w == Decoded(m, Client, data)
           z == Post(w, Task("READ", Client))
<1>0. Client \in 0..m.ctx.server /\ Good(m) /\ Active(m)
  BY ServerType, SizesAssumption, StandingActive DEF Conns, Client, Standing
<1>1. \/ client_on_read(m, res, data) = m
      \/ client_on_read(m, res, data) = stop(m, Client, TRUE)
      \/ client_on_read(m, res, data) = read(w, Client)
      \/ Completed(w, Client) /\ client_on_read(m, res, data) = timer_start(z, Client)
  BY DEF client_on_read, Decoded
<1>2. Standing(w) /\ w.ctx = m.ctx /\ w.conn[Client].encoded = m.conn[Client].encoded
  <2>1. DecodedFrom(m, Client, data, w)
    BY <1>0, DecodedStanding
  <2> QED
    BY <2>1 DEF DecodedFrom
<1> HIDE DEF w
<1>3. w.conn[Client].encoded = 0 /\ Client \in 0..w.ctx.server
  BY <1>0, <1>2 DEF Ready
<1>4. Active(read(w, Client))
  <2>1. Ready(w, "read", Client)
    BY <1>3 DEF Ready
  <2> QED
    BY <1>2, <2>1, ReadActive
<1>5. Completed(w, Client) => Active(z) /\ Good(z) /\ Client \in 0..z.ctx.server
  <2>1. Completed(w, Client) => Ready(w, "READ", Client)
    BY <1>3 DEF Ready
  <2>2. Quiet(w, z)
    BY <1>2, <1>3, PostQuiet, TaskType DEF Standing, Tasks, Events
  <2> QED
    BY <1>2, <1>3, <2>1, <2>2, PostActive DEF Tasks, Events, Quiet
<1> HIDE DEF z
<1>6. Completed(w, Client) => Active(timer_start(z, Client))
  BY <1>5, TimerStartSilent, SilentActive
<1>7. Active(stop(m, Client, TRUE))
  BY <1>0, StopActive
<1> QED
  BY <1>0, <1>1, <1>4, <1>6, <1>7

LEMMA ClientOnHandshakeActive ==
  ASSUME NEW m, Standing(m), NEW res
  PROVE  Active(client_on_handshake(m, res))
<1> DEFINE r == [m.conn[Client] EXCEPT !.message = << >>, !.encoded = 0]
           v == With(m, Client, r)
<1>0. Client \in 0..m.ctx.server /\ Good(m) /\ Active(m) /\ Client \in Conns
  BY ServerType, SizesAssumption, StandingActive DEF Conns, Client, Standing
<1>1. m.conn[Client] \in Connections /\ << >> \in Seq(Unit)
  BY <1>0, ConnType
<1>2. [m EXCEPT !.conn[Client].message = << >>, !.conn[Client].encoded = 0] = v
  BY <1>0, <1>1 DEF Good, Worlds, With
<1>3. \/ client_on_handshake(m, res) = m
      \/ client_on_handshake(m, res) = stop(m, Client, TRUE)
      \/ client_on_handshake(m, res) = Post(v, Task("HANDSHAKE", Client))
  BY <1>2 DEF client_on_handshake
<1>4. /\ r \in Connections /\ r.encoded = 0
      /\ r.stopped = m.conn[Client].stopped /\ r.running = m.conn[Client].running
      /\ r.use_ssl = m.conn[Client].use_ssl /\ r.connected = m.conn[Client].connected
  BY <1>1 DEF Connections
<1>5. v = With(m, Client, r)
  OBVIOUS
<1> HIDE DEF r, v
<1>6. Standing(v) /\ v.ctx = m.ctx /\ v.conn[Client] = r
  BY <1>0, <1>4, <1>5, SetStanding DEF Standing, Always
<1>7. Ready(v, "HANDSHAKE", Client)
  BY <1>4, <1>6 DEF Ready
<1>8. Active(Post(v, Task("HANDSHAKE", Client)))
  BY <1>0, <1>6, <1>7, PostActive DEF Tasks, Events
<1> QED
  BY <1>0, <1>3, <1>8, StopActive

LEMMA OnResolveActive ==
  ASSUME NEW m, Standing(m), NEW s \in Servers, Ready(m, "resolve", s), NEW res
  PROVE  Active(on_resolve(m, s, res))
<1>0. s \in 0..m.ctx.server /\ Good(m) /\ Active(m) /\ s # Client
  BY ReadyServing, ServingIn, StandingActive DEF Serving, Standing
<1>1. Ready(m, "connect", s)
  BY <1>0 DEF Ready
<1> QED
  BY <1>0, <1>1, BeginActive, StopActive DEF on_resolve

LEMMA OnConnectActive ==
  ASSUME NEW m, Standing(m), NEW s \in Servers, Ready(m, "connect", s), NEW res
  PROVE  Active(on_connect(m, s, res))
<1> DEFINE r == [m.conn[s] EXCEPT !.connected = TRUE]
           v == With(m, s, r)
<1>0. /\ s \in 0..m.ctx.server /\ Good(m) /\ Active(m) /\ s # Client
      /\ s \in Conns /\ Serving(m, s)
  BY ReadyServing, ServingIn, StandingActive DEF Serving, Standing
<1>1. m.conn[s] \in Connections
  BY <1>0, ConnType
<1>2. \/ on_connect(m, s, res) = m
      \/ on_connect(m, s, res) = stop(m, s, TRUE)
      \/ on_connect(m, s, res) = Post(v, Task("CONNECT", s))
  BY DEF on_connect, With
<1>3. /\ r \in Connections /\ r.encoded = m.conn[s].encoded /\ r.connected
      /\ r.stopped = m.conn[s].stopped /\ r.running = m.conn[s].running
      /\ r.use_ssl = m.conn[s].use_ssl /\ r.message = m.conn[s].message
  BY <1>1 DEF Connections
<1>4. v = With(m, s, r) /\ m.conn[s].encoded \in {0, ReqLen}
  BY DEF Standing, Always
<1> HIDE DEF r, v
<1>5. /\ Standing(v) /\ v.ctx = m.ctx
      /\ v.conn[s] = r /\ \A k \in Conns \ {s} : v.conn[k] = m.conn[k]
  BY <1>0, <1>3, <1>4, SetStanding
<1>6. Ready(v, "CONNECT", s)
  BY <1>0, <1>3, <1>5, ClientIn DEF Ready
<1>7. Active(Post(v, Task("CONNECT", s)))
  BY <1>0, <1>5, <1>6, PostActive DEF Tasks, Events
<1> QED
  BY <1>0, <1>2, <1>7, StopActive

LEMMA ServerOnHandshakeActive ==
  ASSUME NEW m, Standing(m), NEW s \in Servers, Ready(m, "handshake", s), NEW res
  PROVE  Active(server_on_handshake(m, s, res))
<1>0. s \in 0..m.ctx.server /\ Good(m) /\ Active(m) /\ s # Client
  BY ReadyServing, ServingIn, StandingActive DEF Serving, Standing
<1>1. Ready(m, "HANDSHAKE", s)
  BY <1>0 DEF Ready
<1>2. Active(Post(m, Task("HANDSHAKE", s)))
  BY <1>0, <1>1, PostActive DEF Tasks, Events
<1> QED
  BY <1>0, <1>2, StopActive DEF server_on_handshake

LEMMA ServerOnReadActive ==
  ASSUME NEW m, Standing(m), NEW s \in Servers, Ready(m, "read", s), NEW res, NEW data \in Seq(Unit)
  PROVE  Active(server_on_read(m, s, res, data))
<1> DEFINE w == Decoded(m, s, data)
           r == [m.conn[s] EXCEPT !.connected = FALSE]
           ended == With(m, s, r)
<1>0. /\ s \in 0..m.ctx.server /\ Good(m) /\ Active(m) /\ s # Client
      /\ s \in Conns /\ Serving(m, s)
  BY ReadyServing, ServingIn, StandingActive DEF Serving, Standing
<1>1. m.conn[s] \in Connections
  BY <1>0, ConnType
<1>2. \/ server_on_read(m, s, res, data) = m
      \/ server_on_read(m, s, res, data) = stop(m, s, TRUE)
      \/ server_on_read(m, s, res, data) = stop(ended, s, TRUE)
      \/ server_on_read(m, s, res, data) = Abort(m, "decode_assert")
      \/ server_on_read(m, s, res, data) = Post(w, Task("READ", s))
  BY DEF server_on_read, With, Decoded
<1>3. Active(stop(m, s, TRUE)) /\ Active(Abort(m, "decode_assert"))
  BY <1>0, StopActive, AbortActive DEF Good, Asserted
<1>4. Active(Post(w, Task("READ", s)))
  <2>d. w = Decoded(m, s, data)
    OBVIOUS
  <2> HIDE DEF w
  <2>e. DecodedFrom(m, s, data, w)
    BY <1>0, <2>d, DecodedStanding
  <2>1. /\ Standing(w) /\ w.ctx = m.ctx /\ w.conn[s].message = m.conn[s].message \o data
        /\ w.conn[Client].encoded = m.conn[Client].encoded
    BY <1>0, <2>e, ClientIn DEF DecodedFrom
  <2>2. /\ m.conn[s].message \in Seq(Unit)
        /\ m.conn[Client].encoded \in Nat
    BY <1>0, ClientIn, MessageType, ConnType DEF Connections
  <2>3. m.conn[Client].encoded <= Len(w.conn[s].message)
    <3>1. Len(m.conn[s].message \o data) = Len(m.conn[s].message) + Len(data)
      BY <2>2
    <3>2. Len(m.conn[s].message) \in Nat /\ Len(data) \in Nat
      BY <2>2
    <3>3. m.conn[Client].encoded <= Len(m.conn[s].message)
      BY <1>0 DEF Serving
    <3> QED
      BY <2>1, <2>2, <3>1, <3>2, <3>3
  <2>4. Ready(w, "READ", s)
    BY <1>0, <2>1, <2>3 DEF Ready, Serving
  <2> QED
    BY <1>0, <2>1, <2>4, PostActive DEF Tasks, Events
<1>5. Active(stop(ended, s, TRUE))
  <2> DEFINE z == stop(ended, s, TRUE)
  <2>1. /\ r \in Connections /\ r.encoded = m.conn[s].encoded
        /\ r.stopped = m.conn[s].stopped /\ r.running = m.conn[s].running
        /\ r.use_ssl = m.conn[s].use_ssl /\ r.message = m.conn[s].message
    BY <1>1 DEF Connections
  <2> HIDE DEF r
  <2>2. /\ ended.ctx = m.ctx /\ ended.fault = m.fault /\ Same(m, ended)
        /\ ended.conn[s] = r /\ \A k \in Conns \ {s} : ended.conn[k] = m.conn[k]
    BY <1>0, SetFields DEF Good
  <2>3. Good(ended)
    BY <1>0, <2>1, WithGood DEF Quiet
  <2> HIDE DEF ended
  <2>4. Timed(ended) /\ NoStep(ended) /\ ~Replying(ended) /\ ended.fault \notin Asserted
    <3>1. Timed(ended)
      BY <2>1, <2>2 DEF Standing, Timed, Ticking, Same
    <3> QED
      BY <1>0, <2>2, <3>1, ClientIn DEF Standing, Idle, NoStep, Replying, Same
  <2>5. Silent(ended, z) /\ Stops(ended, z, s)
    BY <1>0, <2>2, <2>3, StopSilent, StopStops
  <2> HIDE DEF z
  <2>6. /\ Timed(z) /\ NoStep(z) /\ ~Replying(z) /\ z.fault \notin Asserted
    BY <2>4, <2>5, ClientIn DEF Silent, Calm, NoStep, Replying
  <2>7. Always(z)
    <3>1. z.conn[Client].connected \/ z.conn[Client].stopped
      BY <1>0, <2>2, <2>5, ClientIn DEF Silent, Calm, Standing, Always
    <3>2. ASSUME NEW t \in Servers
          PROVE  /\ z.conn[t].encoded \in {0, ReqLen}
                 /\ z.conn[t].use_ssl => z.conn[t].connected \/ z.conn[t].stopped
      <4>1. t \in Conns /\ t # Client
        BY ClientIn
      <4>2. m.conn[t].encoded \in {0, ReqLen} /\ (m.conn[t].use_ssl => m.conn[t].connected \/ m.conn[t].stopped)
        BY DEF Standing, Always
      <4>3. CASE t = s
        BY <2>1, <2>2, <2>5, <4>1, <4>2, <4>3 DEF Silent, Calm, Stops
      <4>4. CASE t # s
        BY <2>2, <2>5, <4>1, <4>2, <4>4 DEF Silent, Calm
      <4> QED
        BY <4>3, <4>4
    <3> QED
      BY <3>1, <3>2 DEF Always
  <2>8. Active(z)
    BY <2>6, <2>7, RestsActive
  <2> QED
    BY <2>8 DEF z
<1> QED
  BY <1>0, <1>2, <1>3, <1>4, <1>5

\* A change of the context between two steps.
LEMMA SetContextFields ==
  ASSUME NEW m, m \in Worlds, NEW k, NEW w, w = [m EXCEPT !.ctx = k]
  PROVE  /\ w.queue = m.queue /\ w.pending = m.pending /\ w.conn = m.conn
         /\ w.ctx = k /\ w.fault = m.fault
         /\ Same(m, w) /\ (Timed(m) => Timed(w)) /\ (NoStep(m) => NoStep(w))
         /\ (Always(m) => Always(w))
<1>1. /\ w.queue = m.queue /\ w.pending = m.pending /\ w.conn = m.conn
      /\ w.ctx = k /\ w.fault = m.fault
  BY DEF Worlds
<1>2. Same(m, w)
  BY <1>1, FieldsSame
<1>3. Timed(m) => Timed(w)
  BY <1>1, <1>2 DEF Timed, Ticking, Same
<1>4. NoStep(m) => NoStep(w)
  BY <1>2 DEF NoStep, Same
<1>5. Always(m) => Always(w)
  BY <1>1 DEF Always
<1> QED
  BY <1>1, <1>2, <1>3, <1>4, <1>5

LEMMA OnClientSecuredActive ==
  ASSUME NEW m, Standing(m), Ready(m, "HANDSHAKE", Client)
  PROVE  Active(on_client_secured(m))
<1> DEFINE k == [m.ctx EXCEPT !.ssl_setup = TRUE]
           w == [m EXCEPT !.ctx = k]
<1>1. on_client_secured(m) = read(w, Client)
  BY DEF on_client_secured
<1>2. k \in Contexts /\ k.server = m.ctx.server /\ k.ssl_setup /\ k.exchanged = m.ctx.exchanged
  BY ContextType DEF Contexts, Standing
<1> HIDE DEF k
<1>3. Good(w)
  BY <1>2, SetContext DEF Quiet, Standing
<1>w. w = [m EXCEPT !.ctx = k]
  OBVIOUS
<1> HIDE DEF w
<1>4. /\ w.conn = m.conn /\ w.ctx = k /\ w.fault = m.fault
      /\ Timed(w) /\ NoStep(w) /\ Always(w)
  BY <1>w, SetContextFields DEF Standing, Idle, Good
<1>5. Standing(w)
  BY <1>2, <1>3, <1>4 DEF Standing, Idle, Replying
<1>6. Ready(w, "read", Client)
  BY <1>4 DEF Ready
<1> QED
  BY <1>1, <1>5, <1>6, ReadActive

LEMMA ServerHandshakeActive ==
  ASSUME NEW m, Standing(m), NEW s \in Servers, Ready(m, "CONNECT", s)
  PROVE  Active(server_handshake(m, s)) /\ server_handshake(m, s).fault = m.fault
<1> DEFINE r == [m.conn[s] EXCEPT !.use_ssl = TRUE]
           v == With(m, s, r)
<1>0. /\ Good(m) /\ s # Client /\ s \in Conns /\ Serving(m, s)
  BY ReadyServing DEF Serving, Standing
<1>1. m.conn[s] \in Connections
  BY <1>0, ConnType
<1>2. ~m.conn[s].use_ssl
  BY <1>0 DEF Ready
<1>3. server_handshake(m, s) = Begin(v, "handshake", s, << >>)
  BY <1>2 DEF server_handshake, switch_to_ssl, With
<1>4. /\ r \in Connections /\ r.encoded = m.conn[s].encoded /\ r.use_ssl
      /\ r.stopped = m.conn[s].stopped /\ r.running = m.conn[s].running
      /\ r.connected = m.conn[s].connected /\ r.message = m.conn[s].message
  BY <1>1 DEF Connections
<1>5. v = With(m, s, r) /\ m.conn[s].encoded \in {0, ReqLen}
  BY DEF Standing, Always
<1>6. m.conn[s].connected \/ m.conn[s].stopped
  BY <1>0 DEF Ready
<1>f. v.fault = m.fault
  BY <1>0, SetFields DEF Good
<1> HIDE DEF r, v
<1>7. /\ Standing(v) /\ v.ctx = m.ctx
      /\ v.conn[s] = r /\ \A k \in Conns \ {s} : v.conn[k] = m.conn[k]
  BY <1>0, <1>4, <1>5, <1>6, SetStanding
<1>8. Ready(v, "handshake", s)
  BY <1>0, <1>4, <1>7, ClientIn DEF Ready, Serving
<1>9. Begin(v, "handshake", s, << >>).fault = v.fault
  BY <1>7, BeginFields DEF Standing, Good
<1> QED
  BY <1>3, <1>f, <1>7, <1>8, <1>9, BeginActive

LEMMA OnServerConnectedActive ==
  ASSUME NEW m, Standing(m), NEW s \in Servers
  PROVE  /\ Ready(m, "CONNECT", s) => Active(on_server_connected(m, s))
         /\ Ready(m, "HANDSHAKE", s) => Active(on_server_secured(m, s))
<1>1. ASSUME NEW fn, Ready(m, fn, s) PROVE Active(write_buffered(m, s))
  BY <1>1, ReadyServing, WriteBufferedActive
<1> QED
  BY <1>1, ServerHandshakeActive DEF on_server_connected, on_server_secured

LEMMA OnStopActive ==
  ASSUME NEW m, Good(m), Active(m), NEW c
  PROVE  Active(on_stop(m, c))
<1> DEFINE server == m.ctx.server
<1>1. \/ on_stop(m, c) = m
      \/ on_stop(m, c) = stop(m, Client, FALSE)
      \/ on_stop(m, c) = stop(m, server, FALSE)
  BY DEF on_stop
<1>2. server \in 0..m.ctx.server /\ Client \in 0..m.ctx.server
  BY ServerType, SizesAssumption DEF Conns, Client
<1> HIDE DEF server
<1> QED
  BY <1>1, <1>2, StopActive
\* connection::reset as one change of the connection.
Blank(r) == [r EXCEPT !.out = << >>, !.writing = FALSE, !.encoded = 0, !.message = << >>]

LEMMA WithTwice ==
  ASSUME NEW m, m \in Worlds, NEW c \in Conns, NEW r, NEW q
  PROVE  With(With(m, c, r), c, q) = With(m, c, q) /\ With(m, c, r).conn[c] = r
<1>1. m.conn \in [Conns -> Connections]
  BY DEF Worlds
<1>2. [[m.conn EXCEPT ![c] = r] EXCEPT ![c] = q] = [m.conn EXCEPT ![c] = q]
  BY <1>1
<1>3. [m.conn EXCEPT ![c] = r][c] = r
  BY <1>1
<1>4. \A f, g : [[m EXCEPT !.conn = f] EXCEPT !.conn = g] = [m EXCEPT !.conn = g]
  BY DEF Worlds
<1>5. \A f : [m EXCEPT !.conn = f].conn = f
  BY DEF Worlds
<1> QED
  BY <1>2, <1>3, <1>4, <1>5 DEF With

LEMMA ResetWith ==
  ASSUME NEW m, m \in Worlds, NEW c \in Conns
  PROVE  reset(m, c) = With(m, c, Blank(m.conn[c]))
<1> DEFINE r1 == [m.conn[c] EXCEPT !.out = << >>]
           m1 == With(m, c, r1)
           r2 == [m1.conn[c] EXCEPT !.writing = FALSE]
           m2 == With(m1, c, r2)
           r3 == [m2.conn[c] EXCEPT !.encoded = 0]
           m3 == With(m2, c, r3)
           r4 == [m3.conn[c] EXCEPT !.message = << >>]
<1>1. reset(m, c) = With(m3, c, r4)
  BY DEF reset, With
<1>2. m1.conn[c] = r1
  BY WithTwice
<1>3. m2 = With(m, c, r2) /\ m2.conn[c] = r2
  <2> HIDE DEF r1, r2
  <2> QED BY WithTwice
<1>4. m3 = With(m, c, r3) /\ m3.conn[c] = r3
  <2> HIDE DEF r2, r3, m2
  <2> QED BY <1>3, WithTwice
<1>5. With(m3, c, r4) = With(m, c, r4)
  <2> HIDE DEF r3, r4, m3
  <2> QED BY <1>4, WithTwice
<1>6. r4 = Blank(m.conn[c])
  <2> HIDE DEF m1, m2, m3
  <2> QED BY <1>2, <1>3, <1>4, ZenonT(30) DEF Blank
<1> QED
  BY <1>1, <1>5, <1>6

LEMMA BlankFields ==
  ASSUME NEW r \in Connections
  PROVE  /\ Blank(r) \in Connections /\ Blank(r).encoded = 0 /\ Blank(r).out = << >>
         /\ Blank(r).stopped = r.stopped /\ Blank(r).running = r.running
         /\ Blank(r).connected = r.connected /\ Blank(r).use_ssl = r.use_ssl
<1>1. << >> \in Seq(Unit) /\ << >> \in Seq(Seq(Unit))
  OBVIOUS
<1> QED
  BY <1>1 DEF Blank, Connections

LEMMA ServerResetActive ==
  ASSUME NEW m, Good(m), Always(m), Timed(m), m.fault \notin Asserted, NoStep(m),
         ~Replying(m), NEW s, s \in Servers, s = m.ctx.server
  PROVE  Active(server_reset(m, s))
<1> DEFINE r == Blank(m.conn[s])
           v == With(m, s, r)
<1>0. s \in Conns /\ s # Client /\ s \in 0..m.ctx.server
  BY ServingIn, ClientIn
<1>1. m.conn[s] \in Connections
  BY <1>0, ConnType
<1>2. /\ r \in Connections /\ r.encoded = 0
      /\ r.stopped = m.conn[s].stopped /\ r.running = m.conn[s].running
      /\ r.connected = m.conn[s].connected /\ r.use_ssl = m.conn[s].use_ssl
  BY <1>1, BlankFields
<1>3. reset(m, s) = v
  BY <1>0, ResetWith DEF Good
<1> HIDE DEF r
<1>4. /\ v.ctx = m.ctx /\ v.fault = m.fault /\ Same(m, v)
      /\ v.conn[s] = r /\ \A k \in Conns \ {s} : v.conn[k] = m.conn[k]
  BY <1>0, SetFields DEF Good
<1>5. Good(v) /\ s \in 0..v.ctx.server
  BY <1>0, <1>2, <1>4, WithGood DEF Quiet
<1> HIDE DEF v
<1>6. Timed(v)
  BY <1>2, <1>4 DEF Timed, Ticking, Same
<1>7. Always(v)
  BY <1>0, <1>2, <1>4, ClientIn DEF Always
<1>8. NoStep(v) /\ ~Replying(v)
  BY <1>0, <1>4, ClientIn DEF NoStep, Replying, Same
<1>9. Active(v)
  BY <1>4, <1>6, <1>7, <1>8, RestsActive
<1>10. server_reset(m, s) = timer_start(v, s)
  BY <1>3 DEF server_reset
<1> QED
  BY <1>5, <1>9, <1>10, TimerStartSilent, SilentActive

LEMMA OnServerMessageActive ==
  ASSUME NEW m, Standing(m), NEW s \in Servers, Ready(m, "READ", s), NEW keep_alive
  PROVE  Active(on_server_message(m, s, keep_alive))
<1> DEFINE response == m.conn[s].message
           completed == Completed(m, s)
           server == m.ctx.server
           written == write(m, Client, response, completed)
           k == [written.ctx EXCEPT !.exchanged = TRUE]
           exchanged == [written EXCEPT !.ctx = k]
<1>0. /\ Good(m) /\ Active(m) /\ s # Client /\ s \in Conns /\ Serving(m, s) /\ server = s
      /\ Client \in 0..m.ctx.server
  BY ReadyServing, StandingActive, ServerType, SizesAssumption DEF Serving, Standing, Conns, Client
<1>1. response \in Seq(Unit) /\ completed \in BOOLEAN /\ m.conn[Client].encoded <= Len(response)
  BY <1>0, MessageType DEF Completed, Serving
<1>2. \/ on_server_message(m, s, keep_alive) = Abort(m, "client_assert")
      \/ on_server_message(m, s, keep_alive) = Abort(m, "server_assert")
      \/ ~completed /\ on_server_message(m, s, keep_alive) = read(written, server)
      \/ on_server_message(m, s, keep_alive) = server_reset(exchanged, server)
      \/ on_server_message(m, s, keep_alive) = stop(exchanged, server, FALSE)
  BY DEF on_server_message
<1>3. Active(Abort(m, "client_assert")) /\ Active(Abort(m, "server_assert"))
  BY <1>0, AbortActive DEF Good, Asserted
<1>4. /\ Calm(m, written)
      /\ written.conn[Client].encoded \in
           {m.conn[Client].encoded, encoded_after(Client, m.conn[Client].encoded, response, completed)}
  BY <1>0, <1>1, WriteClientCalm DEF Standing
<1>5. Good(written)
  BY <1>0, <1>1, WriteQuiet DEF Quiet
<1>6. m.conn[Client].encoded \in Nat /\ Len(response) \in Nat
  BY <1>0, <1>1, ClientIn, ConnType DEF Connections
<1>7. ~completed => written.conn[Client].encoded <= Len(response)
  BY <1>1, <1>4, <1>6 DEF encoded_after
<1>8. written.conn[s].message = response /\ written.ctx = m.ctx
  BY <1>0, <1>4 DEF Calm
<1> HIDE DEF written, response, completed
<1>9. Standing(written)
  BY <1>4, <1>5, CalmStanding
<1>10. ~completed => Active(read(written, server))
  <2>1. ~completed => Ready(written, "read", s)
    BY <1>0, <1>7, <1>8 DEF Ready
  <2> QED
    BY <1>0, <1>9, <2>1, ReadActive
<1>11. k \in Contexts /\ k.server = written.ctx.server /\ k.https = written.ctx.https /\ k.ssl_setup = written.ctx.ssl_setup
  BY <1>5, ContextType DEF Contexts
<1> HIDE DEF k
<1>12. Good(exchanged) /\ s \in 0..exchanged.ctx.server /\ s = exchanged.ctx.server
  <2>1. Quiet(written, exchanged)
    BY <1>5, <1>11, SetContext
  <2> QED
    BY <1>0, <1>8, <2>1, ServingIn DEF Quiet, Serving
<1>e. exchanged = [written EXCEPT !.ctx = k]
  OBVIOUS
<1> HIDE DEF exchanged
<1>13. /\ exchanged.conn = written.conn /\ exchanged.ctx = k /\ exchanged.fault = written.fault
       /\ Timed(exchanged) /\ NoStep(exchanged) /\ Always(exchanged)
  BY <1>e, <1>9, SetContextFields DEF Standing, Idle, Good
<1>14. ~Replying(exchanged) /\ exchanged.fault \notin Asserted
  BY <1>9, <1>11, <1>13 DEF Standing, Idle, Replying
<1>15. Active(exchanged)
  BY <1>13, <1>14, RestsActive
<1>16. Active(server_reset(exchanged, s)) /\ Active(stop(exchanged, s, FALSE))
  BY <1>12, <1>13, <1>14, <1>15, ServerResetActive, StopActive
<1> QED
  BY <1>0, <1>2, <1>3, <1>10, <1>16

LEMMA ClientHandshakeActive ==
  ASSUME NEW m, Good(m), Active(m), m.ctx.https, ~m.ctx.ssl_setup, NEW certified
  PROVE  Active(client_handshake(m, certified))
<1> DEFINE r == [m.conn[Client] EXCEPT !.use_ssl = TRUE]
           v == With(m, Client, r)
<1>1. \/ client_handshake(m, certified) = Abort(m, "ssl_twice")
      \/ client_handshake(m, certified) = Abort(m, "no_certificate")
      \/ /\ ~m.conn[Client].use_ssl
         /\ client_handshake(m, certified) = Begin(v, "handshake", Client, << >>)
  BY DEF client_handshake, switch_to_ssl, With
<1>2. Active(Abort(m, "ssl_twice")) /\ Active(Abort(m, "no_certificate"))
  BY AbortActive DEF Good, Asserted
<1>3. CASE ~m.conn[Client].use_ssl
  <2>1. Replying(m) /\ NoStep(m) /\ ~m.ctx.exchanged
    BY <1>3 DEF Replying, Active, Single
  <2>2. m.conn[Client] \in Connections
    BY ClientIn, ConnType
  <2>3. /\ r \in Connections /\ r.use_ssl
        /\ r.stopped = m.conn[Client].stopped /\ r.running = m.conn[Client].running
        /\ r.connected = m.conn[Client].connected
    BY <2>2 DEF Connections
  <2> HIDE DEF r
  <2>4. /\ v.ctx = m.ctx /\ v.fault = m.fault /\ Same(m, v)
        /\ v.conn[Client] = r /\ \A k \in Conns \ {Client} : v.conn[k] = m.conn[k]
    BY ClientIn, SetFields DEF Good
  <2>5. Good(v)
    BY <2>3, ClientIn, WithGood DEF Quiet
  <2> HIDE DEF v
  <2>6. Timed(v)
    BY <2>3, <2>4 DEF Timed, Ticking, Same, Active
  <2>7. Always(v)
    BY <2>3, <2>4, ClientIn DEF Always, Active
  <2>8. NoStep(v) /\ ~Replying(v)
    BY <2>1, <2>3, <2>4 DEF NoStep, Replying, Same
  <2>9. Standing(v)
    BY <2>1, <2>4, <2>5, <2>6, <2>7, <2>8 DEF Standing, Idle, Active
  <2>10. Ready(v, "handshake", Client)
    BY DEF Ready
  <2> QED
    BY <1>1, <1>2, <2>9, <2>10, BeginActive
<1> QED
  BY <1>1, <1>2, <1>3

\* exchanged_ is reset after the read is started, which makes no difference.
Unexchanged(m) == [m EXCEPT !.ctx.exchanged = FALSE]

LEMMA UnexchangedRead ==
  ASSUME NEW m, m \in Worlds
  PROVE  Unexchanged(read(m, Client)) = read(Unexchanged(m), Client)
BY DEF Unexchanged, read, Begin, Abort, Worlds, Contexts

LEMMA ClientResetActive ==
  ASSUME NEW m, Good(m), Active(m), m.ctx.exchanged
  PROVE  Active(Unexchanged(client_reset(m)))
<1> DEFINE v == reset(m, Client)
           w == timer_start(v, Client)
           z == Unexchanged(w)
           r == Blank(m.conn[Client])
           k == [w.ctx EXCEPT !.exchanged = FALSE]
<1>0. Client \in Conns /\ Client \in 0..m.ctx.server
  BY ClientIn, ServerType, SizesAssumption DEF Conns, Client
<1>1. NoStep(m) /\ ~Replying(m)
  BY DEF Active, Single
<1>2. m.conn[Client] \in Connections
  BY <1>0, ConnType
<1>3. /\ r \in Connections /\ r.encoded = 0
      /\ r.stopped = m.conn[Client].stopped /\ r.running = m.conn[Client].running
      /\ r.connected = m.conn[Client].connected /\ r.use_ssl = m.conn[Client].use_ssl
  BY <1>2, BlankFields
<1>4. v = With(m, Client, r)
  BY <1>0, ResetWith DEF Good
<1>5. client_reset(m) = read(w, Client)
  BY DEF client_reset
<1> HIDE DEF r, v
<1>6. /\ v.ctx = m.ctx /\ v.fault = m.fault /\ Same(m, v)
      /\ v.conn[Client] = r /\ \A c \in Conns \ {Client} : v.conn[c] = m.conn[c]
  BY <1>0, <1>4, SetFields DEF Good
<1>7. Good(v) /\ Client \in 0..v.ctx.server
  BY <1>0, <1>3, <1>4, <1>6, WithGood DEF Quiet
<1>8. /\ Timed(v) /\ Always(v) /\ NoStep(v) /\ ~Replying(v) /\ v.fault \notin Asserted
  <2>1. Timed(v)
    BY <1>3, <1>6 DEF Timed, Ticking, Same, Active
  <2>2. Always(v)
    BY <1>3, <1>6, ClientIn DEF Always, Active
  <2>3. NoStep(v) /\ ~Replying(v)
    BY <1>1, <1>3, <1>6 DEF NoStep, Replying, Same
  <2> QED
    BY <1>6, <2>1, <2>2, <2>3 DEF Active
<1>9. Silent(v, w) /\ Good(w)
  BY <1>7, TimerStartSilent, TimerStartQuiet DEF Quiet
<1> HIDE DEF w
<1>10. /\ Timed(w) /\ Always(w) /\ NoStep(w) /\ ~Replying(w) /\ w.fault \notin Asserted
       /\ w.conn[Client].encoded = 0
  BY <1>3, <1>6, <1>8, <1>9, CalmAlways, ClientIn DEF Silent, Calm, NoStep, Replying
<1>11. /\ k \in Contexts /\ k.server = w.ctx.server /\ k.https = w.ctx.https
       /\ k.ssl_setup = w.ctx.ssl_setup /\ ~k.exchanged
  BY <1>9, ContextType DEF Contexts
<1>12. z = [w EXCEPT !.ctx = k]
  BY DEF Unexchanged
<1> HIDE DEF k, z
<1>13. Good(z)
  BY <1>9, <1>11, <1>12, SetContext DEF Quiet
<1>14. /\ z.conn = w.conn /\ z.ctx = k /\ z.fault = w.fault
       /\ Timed(z) /\ NoStep(z) /\ Always(z)
  BY <1>9, <1>10, <1>12, SetContextFields DEF Good
<1>15. Standing(z)
  BY <1>10, <1>11, <1>13, <1>14 DEF Standing, Idle, Replying
<1>16. Ready(z, "read", Client)
  BY <1>10, <1>14 DEF Ready
<1>17. Unexchanged(client_reset(m)) = read(z, Client)
  BY <1>5, <1>9, UnexchangedRead DEF z, Good
<1> QED
  BY <1>15, <1>16, <1>17, ReadActive

LEMMA OnClientWrittenActive ==
  ASSUME NEW m, Good(m), Active(m), NEW keep_alive, NEW certified
  PROVE  Active(on_client_written(m, keep_alive, certified))
<1>0. Client \in 0..m.ctx.server
  BY ServerType, SizesAssumption DEF Conns, Client
<1>1. CASE m.ctx.https /\ ~m.ctx.ssl_setup
  <2>1. Active(Abort(m, "server_assert"))
    BY AbortActive DEF Good, Asserted
  <2> QED
    BY <1>1, <2>1, ClientHandshakeActive DEF on_client_written
<1>2. CASE ~(m.ctx.https /\ ~m.ctx.ssl_setup)
  <2>1. \/ on_client_written(m, keep_alive, certified) = m
        \/ m.ctx.exchanged /\ on_client_written(m, keep_alive, certified) = Unexchanged(client_reset(m))
        \/ on_client_written(m, keep_alive, certified) = stop(m, Client, FALSE)
    BY <1>2 DEF on_client_written, Unexchanged
  <2> QED
    BY <1>0, <2>1, ClientResetActive, StopActive
<1> QED
  BY <1>1, <1>2

\* timer::start's handler: running_ is reset as the one handler there was runs.
LEMMA OnTimerActive ==
  ASSUME NEW m, Good(m), Always(m), Single(m), m.fault \notin Asserted,
         NEW c \in 0..m.ctx.server, NEW res,
         <<"wait", c>> \notin Kinds(m), \A k \in Conns : Alone(m, {<<"wait", k>>}),
         \A k \in Conns \ {c} : Ticking(m, k)
  PROVE  Active(on_timer(m, c, res))
<1> DEFINE r == [m.conn[c] EXCEPT !.running = FALSE]
           v == With(m, c, r)
           notify == (c = Client)
<1>0. c \in Conns /\ notify \in BOOLEAN
  BY ServerType
<1>1. m.conn[c] \in Connections
  BY <1>0, ConnType
<1>2. /\ r \in Connections /\ ~r.running
      /\ r.message = m.conn[c].message /\ r.use_ssl = m.conn[c].use_ssl
      /\ r.encoded = m.conn[c].encoded
      /\ r.connected = m.conn[c].connected /\ r.stopped = m.conn[c].stopped
  BY <1>1 DEF Connections
<1>3. on_timer(m, c, res) = v \/ on_timer(m, c, res) = stop(v, c, notify)
  BY DEF on_timer, With
<1> HIDE DEF r, notify
<1>4. /\ v.ctx = m.ctx /\ v.fault = m.fault /\ Same(m, v)
      /\ v.conn[c] = r /\ \A k \in Conns \ {c} : v.conn[k] = m.conn[k]
  BY <1>0, SetFields DEF Good
<1>5. Good(v) /\ c \in 0..v.ctx.server
  BY <1>0, <1>2, <1>4, WithGood DEF Quiet
<1> HIDE DEF v
<1>6. \A k \in Conns : /\ v.conn[k].message = m.conn[k].message
                       /\ v.conn[k].use_ssl = m.conn[k].use_ssl
                       /\ v.conn[k].encoded = m.conn[k].encoded
                       /\ v.conn[k].connected = m.conn[k].connected
                       /\ v.conn[k].stopped = m.conn[k].stopped
  BY <1>2, <1>4
<1>7. Timed(v)
  <2>1. ASSUME NEW k \in Conns PROVE Ticking(v, k)
    BY <1>2, <1>4, <2>1 DEF Ticking, Same
  <2> QED
    BY <2>1 DEF Timed
<1>8. Always(v)
  BY <1>6, ClientIn DEF Always
<1>9. Single(v)
  <2>1. Replying(v) <=> Replying(m)
    BY <1>4, <1>6, ClientIn DEF Replying
  <2>2. NoStep(v) <=> NoStep(m)
    BY <1>4 DEF NoStep, Same
  <2>3. ASSUME NEW fn \in Operations \cup Tasks, NEW k \in Conns, Ready(m, fn, k)
        PROVE  Ready(v, fn, k)
    BY <1>4, <1>6, <2>3, ClientIn DEF Ready, Completed
  <2> QED
    BY <1>4, <2>1, <2>2, <2>3 DEF Single, Same
<1>10. Active(v)
  BY <1>4, <1>7, <1>8, <1>9 DEF Active
<1> QED
  BY <1>0, <1>3, <1>5, <1>10, StopActive

\* A world in which the context has another server connection.
LEMMA OpenedFields ==
  ASSUME NEW m, Standing(m), NEW w, w \in Worlds,
         w.queue = m.queue, w.pending = m.pending, w.conn = m.conn, w.fault = m.fault,
         w.ctx.exchanged = m.ctx.exchanged
  PROVE  /\ Timed(w) /\ Always(w) /\ NoStep(w) /\ ~w.ctx.exchanged /\ w.fault \notin Asserted
<1>1. Same(m, w)
  BY FieldsSame
<1>2. Timed(w)
  BY <1>1 DEF Timed, Ticking, Same, Standing
<1>3. Always(w)
  BY DEF Always, Standing
<1> QED
  BY <1>1, <1>2, <1>3 DEF Standing, Idle, NoStep, Same

\* The ways on_client_message goes on with a request when the context has no
\* server connection.
Parsed(m, connect) == [m EXCEPT !.ctx.https = m.ctx.https \/ connect]
Opened(m, connect) ==
  add([Parsed(m, connect) EXCEPT !.ctx.server = m.ctx.server + 1], m.ctx.server + 1)
Reply(m) == << SslReply(m.conn[Client].message[1][1]) >>

OpenedFrom(m, connect, w) ==
  /\ Good(w) /\ w.ctx.server = m.ctx.server + 1 /\ w.ctx.server \in Servers
  /\ w.queue = m.queue /\ w.pending = m.pending /\ w.conn = m.conn
  /\ w.fault = m.fault /\ w.ctx.exchanged = m.ctx.exchanged
  /\ w.ctx.https = (m.ctx.https \/ connect) /\ w.ctx.ssl_setup = m.ctx.ssl_setup

LEMMA OpenedParts ==
  ASSUME NEW m, Good(m), m.managed = managed, m.ctx = ctx, ~LockServer,
         ctx.server < MaxServers, NEW connect \in BOOLEAN
  PROVE  OpenedFrom(m, connect, Opened(m, connect))
<1> DEFINE https == m.ctx.https \/ connect
           s == m.ctx.server + 1
           k == [m.ctx EXCEPT !.https = https, !.server = s]
           opened == Opened(m, connect)
<1>1. m \in Worlds /\ m.ctx \in Contexts /\ m.ctx.server \in Conns
  BY ServerType, ContextType DEF Good
<1>2. https \in BOOLEAN
  BY <1>1 DEF Contexts
<1>3. s = m.ctx.server + 1 /\ m.ctx.server < MaxServers
  OBVIOUS
<1>4. m.ctx.server \in Servers => m.conn[m.ctx.server].stopped
  BY <1>1, ServingIn, SizesAssumption DEF LockServer, Alive, Good, Registered, Conns
<1>5. opened = [m EXCEPT !.ctx = k, !.managed = @ \cup {s}]
  BY <1>1 DEF Opened, Parsed, add, Worlds, Contexts
<1>6. s \in Conns /\ s \in Servers
  BY <1>1, <1>3, SizesAssumption DEF Conns, Servers
<1>7. /\ k \in Contexts /\ k.server = s /\ k.exchanged = m.ctx.exchanged
      /\ k.https = https /\ k.ssl_setup = m.ctx.ssl_setup
  <2> HIDE DEF https, s
  <2> QED
    BY <1>1, <1>2, <1>6 DEF Contexts
<1> HIDE DEF opened, k, s
<1>8. Good(opened)
  BY <1>3, <1>4, <1>5, <1>7, OpenedGood
<1>9. /\ opened.queue = m.queue /\ opened.pending = m.pending /\ opened.conn = m.conn
      /\ opened.fault = m.fault /\ opened.ctx = k
  BY <1>1, <1>5 DEF Worlds
<1> QED
  BY <1>3, <1>6, <1>7, <1>8, <1>9 DEF OpenedFrom, opened

LEMMA ReplyType ==
  ASSUME NEW m, Good(m), Completed(m, Client)
  PROVE  Reply(m) \in Seq(Unit) /\ Len(Reply(m)) = 1
<1> DEFINE request == m.conn[Client].message
<1>1. request \in Seq(Unit) /\ Len(request) = ReqLen
  BY ClientIn, MessageType DEF Completed, InLen
<1>2. request[1] \in Unit
  <2>1. 1 \in 1..Len(request)
    BY <1>1, SizesAssumption
  <2> QED
    BY <1>1, <2>1, ElementOfSeq
<1>3. SslReply(request[1][1]) \in Unit
  BY <1>2 DEF Unit, SslReply
<1> QED
  BY <1>3 DEF Reply

LEMMA OnClientMessageActive ==
  ASSUME NEW m, Standing(m), Ready(m, "READ", Client), m.ctx = ctx, m.managed = managed,
         LockServer \/ ctx.server < MaxServers,
         NEW connect \in BOOLEAN, NEW destination
  PROVE  Active(on_client_message(m, connect, destination))
<1> DEFINE request == m.conn[Client].message
           https == m.ctx.https \/ connect
           s == m.ctx.server + 1
           parsed == Parsed(m, connect)
           opened == Opened(m, connect)
           reply == Reply(m)
<1>g. Good(m) /\ m \in Worlds /\ Active(m)
  BY StandingActive DEF Standing, Good
<1>0. request \in Seq(Unit) /\ m.ctx.server \in Conns
  BY <1>g, ClientIn, MessageType, ServerType
<1>1. https \in BOOLEAN
  BY <1>g, ContextType DEF Contexts
<1>2. Completed(m, Client) /\ m.conn[Client].encoded = 0
  BY DEF Ready
<1>3. CASE LockServer
  <2>1. on_client_message(m, connect, destination) = write(m, m.ctx.server, request, TRUE)
    BY <1>2, <1>3 DEF on_client_message
  <2> DEFINE server == m.ctx.server
  <2>2. server \in Servers /\ server = m.ctx.server
    BY <1>3 DEF LockServer
  <2> HIDE DEF request, server
  <2>3. Active(write(m, server, request, TRUE))
    BY <1>0, <1>2, <2>2, WriteServerActive
  <2> QED
    BY <2>1, <2>3 DEF server
<1>4. CASE ~LockServer
  <2>1. \/ on_client_message(m, connect, destination) = Abort(m, "host_assert")
        \/ on_client_message(m, connect, destination) = parsed
        \/ on_client_message(m, connect, destination) = write(opened, Client, reply, TRUE)
        \/ /\ ~(https /\ ~m.ctx.ssl_setup)
           /\ on_client_message(m, connect, destination) = write(opened, s, request, TRUE)
    BY <1>2, <1>4 DEF on_client_message, Parsed, Opened, Reply
  <2>2. Active(Abort(m, "host_assert"))
    BY <1>g, AbortActive DEF Asserted
  <2>3. Active(parsed)
    <3> DEFINE k == [m.ctx EXCEPT !.https = https]
    <3>1. k \in Contexts /\ k.exchanged = m.ctx.exchanged
      BY <1>g, <1>1, ContextType DEF Contexts
    <3>2. parsed = [m EXCEPT !.ctx = k]
      BY DEF Parsed
    <3> HIDE DEF k, parsed
    <3>3. /\ parsed.conn = m.conn /\ parsed.ctx = k /\ parsed.fault = m.fault
          /\ Timed(parsed) /\ NoStep(parsed) /\ Always(parsed)
      BY <1>g, <3>2, SetContextFields DEF Standing, Idle
    <3> QED
      BY <3>1, <3>3, RestsActive DEF Standing, Idle
  <2>5. /\ Good(opened) /\ opened.ctx.server = s /\ s \in Servers
        /\ opened.queue = m.queue /\ opened.pending = m.pending /\ opened.conn = m.conn
        /\ opened.fault = m.fault /\ opened.ctx.exchanged = m.ctx.exchanged
        /\ opened.ctx.https = https /\ opened.ctx.ssl_setup = m.ctx.ssl_setup
    BY <1>g, <1>4, OpenedParts DEF OpenedFrom
  <2>6. reply \in Seq(Unit) /\ Len(reply) = 1
    BY <1>g, <1>2, ReplyType
  <2> HIDE DEF opened, reply, request, parsed, s
  <2>7. /\ Timed(opened) /\ Always(opened) /\ NoStep(opened) /\ ~opened.ctx.exchanged
        /\ opened.fault \notin Asserted
    BY <2>5, OpenedFields DEF Good
  <2>8. Active(write(opened, Client, reply, TRUE))
    <3> DEFINE w == write(opened, Client, reply, TRUE)
    <3>e. opened.conn[Client].encoded <= Len(reply)
      BY <1>2, <2>5, <2>6
    <3>w. w = write(opened, Client, reply, TRUE) /\ TRUE \in BOOLEAN
      OBVIOUS
    <3> HIDE DEF w
    <3>1. Calm(opened, w)
      BY <2>5, <2>6, <2>7, <3>e, <3>w, WriteClientCalm
    <3>2. Always(w)
      BY <2>7, <3>1, CalmAlways
    <3>3. Timed(w) /\ NoStep(w) /\ ~w.ctx.exchanged /\ w.fault \notin Asserted
      BY <2>7, <3>1 DEF Calm, NoStep
    <3>4. Active(w)
      BY <3>2, <3>3, RestsActive
    <3> QED
      BY <3>4 DEF w
  <2>9. ~(https /\ ~m.ctx.ssl_setup) => Active(write(opened, s, request, TRUE))
    <3> SUFFICES ASSUME ~(https /\ ~m.ctx.ssl_setup) PROVE Active(write(opened, s, request, TRUE))
      OBVIOUS
    <3>1. ~Replying(opened)
      BY <2>5 DEF Replying
    <3>2. Standing(opened)
      BY <2>5, <2>7, <3>1 DEF Standing, Idle
    <3>3. opened.conn[Client].encoded = 0
      BY <1>2, <2>5
    <3> QED
      BY <1>0, <2>5, <3>2, <3>3, WriteServerActive
  <2> QED
    BY <2>1, <2>2, <2>3, <2>8, <2>9
<1> QED
  BY <1>3, <1>4

LEMMA StopAllActive ==
  ASSUME NEW m, Good(m), Active(m), m.ctx = ctx
  PROVE  LET stopped == IF Client \in managed THEN stop(m, Client, FALSE) ELSE m
             all == IF ctx.server \in managed THEN stop(stopped, ctx.server, FALSE) ELSE stopped
         IN  Active([all EXCEPT !.managed = {}])
<1> DEFINE server == ctx.server
           v == IF Client \in managed THEN stop(m, Client, FALSE) ELSE m
           w == IF server \in managed THEN stop(v, server, FALSE) ELSE v
           z == [w EXCEPT !.managed = {}]
<1>0. server \in 0..m.ctx.server /\ Client \in 0..m.ctx.server
  BY ServerType, SizesAssumption DEF Conns, Client
<1> HIDE DEF server
<1>1. Good(v) /\ Active(v) /\ v.ctx.server = m.ctx.server
  BY <1>0, StopActive, StopStops DEF Stops
<1> HIDE DEF v
<1>2. Good(w) /\ Active(w)
  BY <1>0, <1>1, StopActive, StopStops DEF Stops
<1> HIDE DEF w
<1>3. /\ z.queue = w.queue /\ z.pending = w.pending
      /\ z.conn = w.conn /\ z.ctx = w.ctx /\ z.fault = w.fault
  BY <1>2 DEF Good, Worlds
<1> HIDE DEF z
<1>4. Active(z)
  BY <1>2, <1>3, FieldsSame, SameSilent, SilentActive
<1> QED
  BY <1>4 DEF z, w, v, server

-----------------------------------------------------------------------------
\* The inductive invariant.
AInv == IInv /\ Active(World)

LEMMA BecomeActive ==
  ASSUME Good(World), Active(World), NEW m, Good(m), Active(m), Become(m)
  PROVE  Active(World)'
<1>1. CASE m.fault = "none"
  <2>1. World' = m
    BY <1>1 DEF Become, World, Good, Worlds
  <2>2. Active(World') <=> Active(m)
    BY <2>1
  <2> QED
    BY <2>1, <2>2
<1>2. CASE m.fault # "none"
  <2> DEFINE w == [World EXCEPT !.fault = m.fault]
  <2>1. World' = w
    BY <1>2 DEF Become, World
  <2>2. /\ w.queue = queue /\ w.pending = pending /\ w.conn = conn
        /\ w.ctx = ctx /\ w.fault = m.fault
    BY DEF World
  <2> HIDE DEF w
  <2>3. Same(World, w)
    BY <2>2, WorldFields, FieldsSame
  <2>4. Timed(World) => Timed(w)
    BY <2>2, <2>3, WorldFields DEF Timed, Ticking, Same
  <2>5. m.fault \notin Asserted
    BY DEF Active
  <2>6. Silent(World, w)
    BY <2>2, <2>3, <2>4, <2>5, WorldFields DEF Silent, Calm, Same
  <2>7. Active(w)
    BY <2>6, SilentActive
  <2> QED
    BY <2>1, <2>7
<1> QED
  BY <1>1, <1>2

\* A handler that was a step starts in a world without steps, with what the
\* step can rely on; any other handler starts in an active world.
LEMMA PoppedFields ==
  /\ Popped.queue = Tail(queue) /\ Popped.pending = pending /\ Popped.conn = conn
  /\ Popped.managed = managed /\ Popped.ctx = ctx /\ Popped.fault = fault
BY DEF Popped, World

LEMMA PoppedTimed ==
  ASSUME Good(World), Active(World), queue # << >>, Head(queue).fn # "wait"
  PROVE  Timed(Popped)
<1> DEFINE k == HandlerKind(Head(queue))
<1>1. /\ Kinds(Popped) \subseteq Kinds(World) /\ Kinds(World) \subseteq Kinds(Popped) \cup {k}
      /\ \A K : Alone(World, K) => Alone(Popped, K)
  BY PoppedKinds
<1>2. \A c : k # <<"wait", c>>
  BY DEF HandlerKind
<1> HIDE DEF k
<1> QED
  BY <1>1, <1>2, PoppedFields, WorldFields DEF Timed, Ticking, Active

LEMMA PoppedRest ==
  ASSUME Good(World), Active(World), queue # << >>
  PROVE  Always(Popped) /\ Popped.fault \notin Asserted
BY PoppedFields, WorldFields DEF Active, Always

LEMMA PoppedSingle ==
  ASSUME Good(World), Active(World), queue # << >>
  PROVE  Single(Popped)
<1> DEFINE k == HandlerKind(Head(queue))
<1>1. /\ Kinds(Popped) \subseteq Kinds(World)
      /\ \A K : Alone(World, K) => Alone(Popped, K)
  BY PoppedKinds
<1>2. Replying(Popped) <=> Replying(World)
  BY PoppedFields, WorldFields DEF Replying
<1>3. NoStep(World) => NoStep(Popped)
  BY <1>1 DEF NoStep
<1>4. \A fn, c : Ready(World, fn, c) => Ready(Popped, fn, c)
  BY PoppedFields, WorldFields DEF Ready, Completed
<1> QED
  BY <1>1, <1>2, <1>3, <1>4, PoppedFields, WorldFields DEF Active, Single

LEMMA PoppedStanding ==
  ASSUME Good(World), Active(World), queue # << >>,
         <<Head(queue).fn, Self>> \in StepKinds
  PROVE  Standing(Popped) /\ Ready(Popped, Head(queue).fn, Self)
<1> DEFINE k == HandlerKind(Head(queue))
<1>0. k = <<Head(queue).fn, Self>> /\ Head(queue).fn # "wait"
  BY DEF HandlerKind, Self, StepKinds, Going
<1>1. k \in Kinds(World) /\ \A K : Alone(World, K) /\ k \in K => Kinds(Popped) \cap K = {}
  BY PoppedKinds
<1> HIDE DEF k
<1>2. NoStep(Popped)
  BY <1>0, <1>1 DEF Active, Single, NoStep
<1>3. ~NoStep(World)
  BY <1>0, <1>1 DEF NoStep
<1>4. ~Popped.ctx.exchanged /\ ~Replying(Popped)
  BY <1>3, PoppedFields, WorldFields DEF Active, Single, Replying
<1>5. Head(queue).fn \in Operations \cup Tasks /\ Self \in Conns
  BY ClientIn DEF StepKinds, Going, Operations, Tasks, Events
<1>6. Ready(World, Head(queue).fn, Self)
  BY <1>0, <1>1, <1>5 DEF Active, Single
<1>7. Ready(Popped, Head(queue).fn, Self)
  BY <1>6, PoppedFields, WorldFields DEF Ready, Completed
<1> QED
  BY <1>0, <1>2, <1>4, <1>7, PoppedGood, PoppedTimed, PoppedRest DEF Standing, Idle

LEMMA ServerStep ==
  ASSUME NEW s \in Conns, s # Client, NEW fn \in Steps(s)
  PROVE  s \in Servers /\ <<fn, s>> \in StepKinds
BY ClientIn DEF Steps, StepKinds, Going

LEMMA ClientStep ==
  ASSUME NEW fn \in Steps(Client)
  PROVE  <<fn, Client>> \in StepKinds
BY ClientIn DEF Steps, StepKinds, Going

LEMMA OnTimerRuns ==
  ASSUME Good(World), Active(World), OnTimer
  PROVE  Active(on_timer(Popped, Self, Result))
<1> DEFINE k == HandlerKind(Head(queue))
<1>0. queue # << >> /\ Head(queue).fn = "wait"
  BY DEF OnTimer, Running
<1>1. Good(Popped) /\ Self \in 0..Popped.ctx.server /\ Self \in Conns
  BY <1>0, PoppedGood
<1>2. k = <<"wait", Self>>
  BY <1>0 DEF HandlerKind, Self
<1>3. /\ Kinds(Popped) \subseteq Kinds(World) /\ Kinds(World) \subseteq Kinds(Popped) \cup {k}
      /\ \A K : Alone(World, K) => Alone(Popped, K)
      /\ \A K : Alone(World, K) /\ k \in K => Kinds(Popped) \cap K = {}
  BY <1>0, PoppedKinds
<1> HIDE DEF k
<1>4. \A c \in Conns : Alone(World, {<<"wait", c>>})
  BY DEF Active, Timed, Ticking
<1>5. \A c \in Conns : Alone(Popped, {<<"wait", c>>})
  BY <1>3, <1>4
<1>6. <<"wait", Self>> \notin Kinds(Popped)
  BY <1>1, <1>2, <1>3, <1>4
<1>7. ASSUME NEW c \in Conns \ {Self} PROVE Ticking(Popped, c)
  <2>1. <<"wait", c>> # k
    BY <1>2
  <2> QED
    BY <1>3, <1>5, <2>1, PoppedFields, WorldFields DEF Active, Timed, Ticking
<1> QED
  BY <1>0, <1>1, <1>5, <1>6, <1>7, PoppedRest, PoppedSingle, OnTimerActive

LEMMA HandleEventActive ==
  ASSUME Good(World), Active(World), NEW m, Good(m), Active(m), HandleEvent(m)
  PROVE  Active(World)'
<1>1. Good(Abort(World, "freed_this")) /\ Active(Abort(World, "freed_this"))
  BY AbortQuiet, AbortActive DEF Quiet, Good, Faults, Asserted
<1> QED
  BY <1>1, BecomeActive DEF HandleEvent, Handle

LEMMA RunHandlerActive ==
  ASSUME Good(World), Active(World), RunHandler
  PROVE  Active(World)'
<1>0. queue # << >>
  BY DEF RunHandler, OnTimer, OnWrite, OnResolve, OnConnect, ClientOnRead, ClientOnHandshake,
         ServerOnRead, ServerOnHandshake, ClientRead, ServerRead, ClientWritten, ClientSecured,
         ServerConnected, ServerSecured, OnStop, StopAll, Running
<1>1. /\ Good(Popped) /\ Popped.ctx = ctx /\ Popped.managed = managed
      /\ Self \in 0..Popped.ctx.server /\ Self \in Conns
      /\ Data \in Seq(Unit)
  BY <1>0, PoppedGood
<1>a. Head(queue).fn # "wait" => Active(Popped)
  BY <1>0, PoppedTimed, PoppedRest, PoppedSingle DEF Active
<1>s. ASSUME Self # Client, NEW fn \in Steps(Self), Head(queue).fn = fn
      PROVE  Self \in Servers /\ Standing(Popped) /\ Ready(Popped, fn, Self)
  BY <1>0, <1>1, <1>s, ServerStep, PoppedStanding
<1>c. ASSUME Self = Client, NEW fn \in Steps(Client), Head(queue).fn = fn
      PROVE  Standing(Popped) /\ Ready(Popped, fn, Client)
  BY <1>0, <1>c, ClientStep, PoppedStanding
<1>2. CASE OnTimer
  BY <1>1, <1>2, OnTimerRuns, OnTimerGood, BecomeActive DEF OnTimer, Handle
<1>3. CASE OnWrite
  <2>0. Head(queue).fn = "write" /\ Become(on_write(Popped, Self, Result, Data))
    BY <1>3 DEF OnWrite, Running, Handle
  <2>1. CASE Self = Client
    <3>1. Active(on_write(Popped, Client, Result, Data))
      BY <1>1, <1>a, <2>0, OnWriteClientActive
    <3> QED
      BY <1>1, <2>0, <2>1, <3>1, OnWriteGood, BecomeActive
  <2>2. CASE Self # Client
    <3>1. "write" \in Steps(Self)
      BY <2>2 DEF Steps
    <3>2. Active(on_write(Popped, Self, Result, Data))
      BY <1>1, <1>s, <2>0, <2>2, <3>1, OnWriteServerActive
    <3> QED
      BY <1>1, <2>0, <3>2, OnWriteGood, BecomeActive
  <2> QED
    BY <2>1, <2>2

<1>4. CASE OnResolve
  <2>0. Head(queue).fn = "resolve" /\ Become(on_resolve(Popped, Self, Result)) /\ Self # Client
    BY <1>4, <1>c DEF OnResolve, Running, Handle, Steps, Going, Ready
  <2>1. Self \in Servers /\ Standing(Popped) /\ Ready(Popped, "resolve", Self)
    BY <1>s, <2>0 DEF Steps, Going
  <2> QED
    BY <1>1, <2>0, <2>1, OnResolveActive, OnResolveGood, BecomeActive
<1>5. CASE OnConnect
  <2>0. Head(queue).fn = "connect" /\ Become(on_connect(Popped, Self, Result)) /\ Self # Client
    BY <1>5, <1>c DEF OnConnect, Running, Handle, Steps, Going, Ready
  <2>1. Self \in Servers /\ Standing(Popped) /\ Ready(Popped, "connect", Self)
    BY <1>s, <2>0 DEF Steps, Going
  <2> QED
    BY <1>1, <2>0, <2>1, OnConnectActive, OnConnectGood, BecomeActive
<1>6. CASE ClientOnRead
  <2>0. Head(queue).fn = "read" /\ Become(client_on_read(Popped, Result, Data)) /\ Self = Client
    BY <1>6 DEF ClientOnRead, Running, Handle
  <2>1. Standing(Popped) /\ Ready(Popped, "read", Client)
    BY <1>c, <2>0 DEF Steps, Going
  <2> QED
    BY <1>1, <2>0, <2>1, ClientOnReadActive, ClientOnReadGood, BecomeActive
<1>7. CASE ClientOnHandshake
  <2>0. Head(queue).fn = "handshake" /\ Become(client_on_handshake(Popped, Result)) /\ Self = Client
    BY <1>7 DEF ClientOnHandshake, Running, Handle
  <2>1. Standing(Popped)
    BY <1>c, <2>0 DEF Steps, Going
  <2> QED
    BY <1>1, <2>0, <2>1, ClientOnHandshakeActive, ClientOnHandshakeGood, BecomeActive
<1>8. CASE ServerOnRead
  <2>0. Head(queue).fn = "read" /\ Become(server_on_read(Popped, Self, Result, Data)) /\ Self # Client
    BY <1>8 DEF ServerOnRead, Running, Handle
  <2>1. Self \in Servers /\ Standing(Popped) /\ Ready(Popped, "read", Self)
    BY <1>s, <2>0 DEF Steps, Going
  <2> QED
    BY <1>1, <2>0, <2>1, ServerOnReadActive, ServerOnReadGood, BecomeActive
<1>9. CASE ServerOnHandshake
  <2>0. Head(queue).fn = "handshake" /\ Become(server_on_handshake(Popped, Self, Result)) /\ Self # Client
    BY <1>9 DEF ServerOnHandshake, Running, Handle
  <2>1. Self \in Servers /\ Standing(Popped) /\ Ready(Popped, "handshake", Self)
    BY <1>s, <2>0 DEF Steps, Going
  <2> QED
    BY <1>1, <2>0, <2>1, ServerOnHandshakeActive, ServerOnHandshakeGood, BecomeActive
<1>10. CASE ClientRead
  <2>0. Head(queue).fn = "READ" /\ Self = Client /\ (LockServer \/ ctx.server < MaxServers)
    BY <1>10 DEF ClientRead, Running
  <2>1. PICK connect \in {FALSE, Https}, destination \in Destinations :
          HandleEvent(on_client_message(Popped, connect, destination))
    BY <1>10 DEF ClientRead
  <2>2. connect \in BOOLEAN
    BY EnvironmentAssumption
  <2>3. Standing(Popped) /\ Ready(Popped, "READ", Client)
    BY <1>c, <2>0 DEF Steps, Going
  <2>4. Good(on_client_message(Popped, connect, destination))
    BY <1>1, <2>0, <2>2, OnClientMessageGood
  <2>5. Active(on_client_message(Popped, connect, destination))
    BY <1>1, <2>0, <2>2, <2>3, OnClientMessageActive
  <2> QED
    BY <2>1, <2>4, <2>5, HandleEventActive
<1>11. CASE ServerRead
  <2>0. Head(queue).fn = "READ" /\ Self # Client
    BY <1>11 DEF ServerRead, Running
  <2>1. PICK keep_alive \in BOOLEAN : HandleEvent(on_server_message(Popped, Self, keep_alive))
    BY <1>11 DEF ServerRead
  <2>2. Self \in Servers /\ Standing(Popped) /\ Ready(Popped, "READ", Self)
    BY <1>s, <2>0 DEF Steps, Going
  <2> QED
    BY <1>1, <2>1, <2>2, OnServerMessageActive, OnServerMessageGood, HandleEventActive
<1>12. CASE ClientWritten
  <2>0. Head(queue).fn = "WRITE"
    BY <1>12 DEF ClientWritten, Running
  <2>1. PICK keep_alive \in BOOLEAN, certified \in {TRUE, "cert" \notin Failures} :
          HandleEvent(on_client_written(Popped, keep_alive, certified))
    BY <1>12 DEF ClientWritten
  <2> QED
    BY <1>1, <1>a, <2>0, <2>1, OnClientWrittenActive, OnClientWrittenGood, HandleEventActive
<1>13. CASE ClientSecured
  <2>0. Head(queue).fn = "HANDSHAKE" /\ HandleEvent(on_client_secured(Popped)) /\ Self = Client
    BY <1>13 DEF ClientSecured, Running
  <2>1. Standing(Popped) /\ Ready(Popped, "HANDSHAKE", Client)
    BY <1>c, <2>0 DEF Steps, Going
  <2> QED
    BY <1>1, <2>0, <2>1, OnClientSecuredActive, OnClientSecuredGood, HandleEventActive
<1>14. CASE ServerConnected
  <2>0. Head(queue).fn = "CONNECT" /\ HandleEvent(on_server_connected(Popped, Self)) /\ Self # Client
    BY <1>14, <1>c DEF ServerConnected, Running, Steps, Going, Ready
  <2>1. Self \in Servers /\ Standing(Popped) /\ Ready(Popped, "CONNECT", Self)
    BY <1>s, <2>0 DEF Steps, Going
  <2> QED
    BY <1>1, <2>0, <2>1, OnServerConnectedActive, OnServerConnectedGood, HandleEventActive
<1>15. CASE ServerSecured
  <2>0. Head(queue).fn = "HANDSHAKE" /\ HandleEvent(on_server_secured(Popped, Self)) /\ Self # Client
    BY <1>15 DEF ServerSecured, Running
  <2>1. Self \in Servers /\ Standing(Popped) /\ Ready(Popped, "HANDSHAKE", Self)
    BY <1>s, <2>0 DEF Steps, Going
  <2> QED
    BY <1>1, <2>0, <2>1, OnServerConnectedActive, OnServerConnectedGood, HandleEventActive
<1>16. CASE OnStop
  <2>0. Head(queue).fn = "on_stop" /\ Become(on_stop(Popped, Self))
    BY <1>16 DEF OnStop, Running, Handle
  <2> QED
    BY <1>1, <1>a, <2>0, OnStopActive, OnStopGood, BecomeActive
<1>17. CASE StopAll
  <2> DEFINE stopped == IF Client \in managed THEN stop(Popped, Client, FALSE) ELSE Popped
             all == IF ctx.server \in managed THEN stop(stopped, ctx.server, FALSE) ELSE stopped
             z == [all EXCEPT !.managed = {}]
  <2>0. Head(queue).fn = "stop_all" /\ Become(z)
    BY <1>17 DEF StopAll, Running, Handle
  <2>1. Good(z)
    BY <1>1, StopAllGood
  <2>2. Active(z)
    BY <1>1, <1>a, <2>0, StopAllActive
  <2> HIDE DEF z
  <2> QED
    BY <2>0, <2>1, <2>2, BecomeActive
<1> QED
  BY <1>2, <1>3, <1>4, <1>5, <1>6, <1>7, <1>8, <1>9, <1>10, <1>11, <1>12, <1>13,
     <1>14, <1>15, <1>16, <1>17 DEF RunHandler

-----------------------------------------------------------------------------
(* The environment: a completion takes the place of its operation.          *)
LEMMA CompletionActive ==
  ASSUME Good(World), Active(World), NEW p \in pending, NEW res \in Results,
         NEW data \in Seq(Unit), Complete(p, res, data)
  PROVE  Active(World)'
<1> DEFINE h == Completion(p.op, p.conn, res, data)
           w == World'
<1>1. p \in PendingOps /\ queue \in Seq(Handlers)
  BY WorldFields DEF Good, Worlds
<1>2. h \in Handlers /\ HandlerKind(h) = OpKind(p)
  BY <1>1 DEF PendingOps, Handlers, Completion, HandlerKind, OpKind
<1>3. /\ w.queue = Append(queue, h) /\ w.pending = pending \ {p} /\ w.conn = conn
      /\ w.ctx = ctx /\ w.fault = fault
  BY DEF Complete, World
<1> HIDE DEF h, w
<1>4. Same(World, w)
  <2>1. w.queue = Append(World.queue, h) /\ World.queue \in Seq(Handlers)
    BY <1>1, <1>3, WorldFields
  <2>2. p \in World.pending /\ w.pending = World.pending \ {p}
    BY <1>3, WorldFields
  <2>3. \A q \in World.pending : q \notin w.pending => OpKind(q) = OpKind(p)
    BY <2>2
  <2> QED
    BY <1>2, <2>1, <2>2, <2>3, CompletionSame
<1>5. Silent(World, w)
  BY <1>3, <1>4, WorldFields, SameSilent
<1>6. Active(w)
  BY <1>5, SilentActive
<1> QED
  BY <1>6 DEF w

LEMMA PeerReceivesActive ==
  ASSUME Good(World), Active(World), NEW p \in pending, NEW n \in 1..Len(p.data), PeerReceives(p, n)
  PROVE  Active(World)'
<1>1. CASE Dangling(p)
  <2>1. Good(Abort(World, "freed_buffer")) /\ Active(Abort(World, "freed_buffer"))
    BY AbortQuiet, AbortActive DEF Quiet, Good, Faults, Asserted
  <2> QED
    BY <1>1, <2>1, BecomeActive DEF PeerReceives
<1>2. CASE ~Dangling(p)
  <2> DEFINE sent == SubSeq(p.data, 1, n)
  <2>1. p.data \in Seq(Unit)
    BY WorldFields DEF Good, Worlds, PendingOps
  <2>2. sent \in Seq(Unit)
    <3>1. \A i \in 1..n : p.data[i] \in Unit
      BY <2>1, ElementOfSeq
    <3> QED
      BY <2>1, <3>1, SubSeqProperties
  <2>3. Complete(p, "ok", sent)
    BY <1>2 DEF PeerReceives
  <2> HIDE DEF sent
  <2> QED
    BY <2>2, <2>3, CompletionActive DEF Results
<1> QED
  BY <1>1, <1>2

LEMMA SignalActive ==
  ASSUME Good(World), Active(World), SignalArrives
  PROVE  Active(World)'
<1> DEFINE h == Task("stop_all", Client)
           w == World'
<1>1. h \in Handlers /\ HandlerKind(h) = <<"stop_all", Client>> /\ World.queue \in Seq(Handlers)
  BY TaskType, ClientIn DEF Task, HandlerKind, Handlers, Tasks, Results, Good, Worlds
<1>2. /\ w.queue = Append(queue, h) /\ w.pending = pending /\ w.conn = conn
      /\ w.ctx = ctx /\ w.fault = fault
  BY DEF SignalArrives, World
<1> HIDE DEF h, w
<1>3. Adds(World, w, <<"stop_all", Client>>)
  BY <1>1, <1>2, WorldFields, AppendKinds
<1>4. <<"stop_all", Client>> \notin StepKinds
  BY DEF StepKinds, Going
<1>5. Silent(World, w)
  BY <1>2, <1>3, <1>4, WorldFields, AddsSilent
<1> QED
  BY <1>5, SilentActive DEF w

LEMMA EnvironmentActive ==
  ASSUME IInv, Active(World), Environment
  PROVE  Active(World)'
<1>0. Good(World) /\ "ok" \in Results /\ << >> \in Seq(Unit)
  BY DEF IInv, Results
<1>1. CASE SignalArrives
  BY <1>0, <1>1, SignalActive
<1>2. ASSUME NEW p \in pending,
             \/ \E n \in 0..ReqLen : ClientSends(p, n)
             \/ \E n \in 0..RespLen : ServerSends(p, n)
             \/ \E n \in 1..Len(p.data) : PeerReceives(p, n)
             \/ Succeeds(p) \/ Fails(p) \/ Closes(p) \/ SendsJunk(p) \/ TimerExpires(p)
      PROVE  Active(World)'
  <2>0. p.conn \in Conns
    BY <1>0, WorldFields DEF Good, Worlds, PendingOps
  <2>1. ASSUME NEW n \in 0..ReqLen, ClientSends(p, n)
        PROVE  Active(World)'
    <3> DEFINE more == last[Client][2] < ReqLen
               r == IF more THEN last[Client][1] ELSE last[Client][1] + 1
               i == IF more THEN last[Client][2] ELSE 0
    <3>1. r \in Nat /\ i \in Nat /\ n \in Nat
      BY ClientIn, SizesAssumption DEF IInv, Unit
    <3>2. Complete(p, "ok", Units(r, i, n))
      BY <2>1 DEF ClientSends, Sends
    <3> QED
      BY <1>0, <3>1, <3>2, UnitsType, CompletionActive
  <2>2. ASSUME NEW n \in 0..RespLen, ServerSends(p, n)
        PROVE  Active(World)'
    <3> DEFINE sent == wire[p.conn]
               r == sent[Len(sent)][1]
               i == IF last[p.conn][1] = r THEN last[p.conn][2] ELSE 0
    <3>1. sent \in Seq(Unit) /\ sent # << >> /\ last[p.conn] \in Unit
      BY <2>0, <2>2 DEF IInv, ServerSends
    <3>2. sent[Len(sent)] \in Unit
      BY <3>1, ElementOfSeq
    <3>3. r \in Nat /\ i \in Nat /\ n \in Nat
      BY <3>1, <3>2, SizesAssumption DEF Unit
    <3>4. Complete(p, "ok", Units(r, i, n))
      BY <2>2 DEF ServerSends, Sends
    <3> QED
      BY <1>0, <3>3, <3>4, UnitsType, CompletionActive
  <2>3. CASE Succeeds(p) \/ Fails(p) \/ Closes(p) \/ SendsJunk(p) \/ TimerExpires(p)
    BY <1>0, <2>3, CompletionActive
       DEF Succeeds, Fails, Closes, SendsJunk, TimerExpires, Results
  <2> QED
    BY <1>0, <1>2, <2>1, <2>2, <2>3, PeerReceivesActive
<1> QED
  BY <1>1, <1>2 DEF Environment

LEMMA InitActive == Init => Active(World)
<1> SUFFICES ASSUME Init PROVE Active(World)
  OBVIOUS
<1> DEFINE p == [op |-> "read", conn |-> Client, data |-> << >>]
<1>1. /\ World.queue = << >> /\ World.pending = {p} /\ World.conn = conn
      /\ World.ctx = ctx /\ World.fault = "none"
  BY WorldFields DEF Init
<1>2. OpKind(p) = <<"read", Client>>
  BY DEF OpKind
<1> HIDE DEF p
<1>3. Kinds(World) = {<<"read", Client>>} /\ \A K : Alone(World, K)
  BY <1>1, <1>2 DEF Kinds, Alone
<1>4. \A c \in Conns : /\ conn[c].encoded = 0 /\ ~conn[c].running /\ ~conn[c].use_ssl
                       /\ c = Client => conn[c].connected
  BY DEF Init, NewConnection
<1>5. ~ctx.https /\ ~ctx.exchanged
  BY DEF Init, NewContext
<1>6. Always(World)
  BY <1>1, <1>4, ClientIn DEF Always
<1>7. Timed(World)
  BY <1>1, <1>3, <1>4 DEF Timed, Ticking
<1>8. Ready(World, "read", Client)
  BY <1>1, <1>4, ClientIn DEF Ready
<1>9. Single(World)
  <2>1. ASSUME NEW fn, NEW c, <<fn, c>> \in Kinds(World) PROVE Ready(World, fn, c)
    <3>1. fn = "read" /\ c = Client
      BY <1>3, <2>1
    <3> QED
      BY <1>8, <3>1
  <2> QED
    BY <1>1, <1>3, <1>5, <2>1 DEF Single, Replying
<1> QED
  BY <1>1, <1>6, <1>7, <1>9 DEF Active, Asserted

LEMMA NextActive == AInv /\ [Next]_vars => AInv'
<1> SUFFICES ASSUME AInv, [Next]_vars PROVE Active(World)'
  BY NextIInv DEF AInv
<1>1. CASE RunHandler
  BY <1>1, RunHandlerActive DEF AInv, IInv
<1>2. CASE Environment
  BY <1>2, EnvironmentActive DEF AInv
<1>3. CASE UNCHANGED vars
  <2>1. World' = World
    BY <1>3 DEF vars, World
  <2>2. Active(World') <=> Active(World)
    BY <2>1
  <2> QED
    BY <2>2 DEF AInv
<1> QED
  BY <1>1, <1>2, <1>3 DEF Next, Waits

-----------------------------------------------------------------------------
(* The theorems.                                                            *)

\* However requests, responses, timeouts, failures and signals interleave,
\* the handlers of a session keep it going one step at a time.
THEOREM ActiveInvariance == Spec => []AInv
<1>1. Init => AInv
  BY InitIInv, InitActive DEF AInv
<1> QED
  BY <1>1, NextActive, PTL DEF Spec

Begun(c, fn) == {p \in pending : p.op = fn /\ p.conn = c}

\* What is alone of its kind is one operation or one queued handler.
LEMMA CountAlone ==
  ASSUME NEW fn, NEW c, Alone(World, {<<fn, c>>})
  PROVE  Cardinality(Begun(c, fn)) + Cardinality(QueuedFor(c, fn))
           = IF <<fn, c>> \in Kinds(World) THEN 1 ELSE 0
<1> DEFINE k == <<fn, c>>
           A == Begun(c, fn)
           Q == QueuedFor(c, fn)
<1>1. \A p : p \in A <=> p \in pending /\ OpKind(p) = k
  BY DEF Begun, OpKind
<1>2. \A i : i \in Q <=> i \in 1..Len(queue) /\ HandlerKind(queue[i]) = k
  BY DEF QueuedFor, HandlerKind
<1> HIDE DEF k, A, Q
<1>3. k \in Kinds(World) <=> A # {} \/ Q # {}
  BY <1>1, <1>2, WorldFields DEF Kinds
<1>4. /\ \A p, q \in A : p = q
      /\ \A i, j \in Q : i = j
      /\ A = {} \/ Q = {}
  BY <1>1, <1>2, WorldFields DEF Alone, k
<1>5. (A = {} \/ \E p : A = {p}) /\ (Q = {} \/ \E i : Q = {i})
  BY <1>4
<1>6. /\ Cardinality(A) = IF A = {} THEN 0 ELSE 1
      /\ Cardinality(Q) = IF Q = {} THEN 0 ELSE 1
  BY <1>5, FS_EmptySet, FS_Singleton
<1>7. Cardinality(A) + Cardinality(Q) = IF k \in Kinds(World) THEN 1 ELSE 0
  BY <1>3, <1>4, <1>6
<1> QED
  BY <1>7 DEF A, Q, k

\* Starting, cancelling and expiring a timer keep timer::running_ exact: it is
\* set if and only if one handler of that timer is still to run, whatever else
\* happens between the cancel and the handler it makes run.
THEOREM TimerFlagExact == Spec => []TimerFlag
<1>1. AInv => TimerFlag
  <2> SUFFICES ASSUME AInv, NEW c \in Conns
               PROVE  Cardinality(Waiting(c)) + Cardinality(QueuedFor(c, "wait"))
                        = IF conn[c].running THEN 1 ELSE 0
    BY DEF TimerFlag
  <2>1. Alone(World, {<<"wait", c>>}) /\ (<<"wait", c>> \in Kinds(World) <=> conn[c].running)
    BY WorldFields DEF AInv, Active, Timed, Ticking
  <2>2. Waiting(c) = Begun(c, "wait")
    BY DEF Waiting, Begun
  <2> QED
    BY <2>1, <2>2, CountAlone
<1> QED
  BY <1>1, ActiveInvariance, PTL

\* No connection of a session ever reads into buffer_in_ twice at a time:
\* on_read, the messages it leads to and the writes that follow them begin
\* the next read only when the one before has been handled.
THEOREM OneReadAtATime == Spec => []OneRead
<1>1. AInv => OneRead
  <2> SUFFICES ASSUME AInv, NEW c \in Conns
               PROVE  Cardinality(Begun(c, "read")) + Cardinality(QueuedFor(c, "read")) <= 1
    BY DEF OneRead, Begun
  <2>1. <<"read", c>> \in StepKinds
    BY DEF StepKinds, Going
  <2>2. Alone(World, {<<"read", c>>})
    BY <2>1 DEF AInv, Active, Single, Alone
  <2>3. Cardinality(Begun(c, "read")) + Cardinality(QueuedFor(c, "read")) \in {0, 1}
    BY <2>2, CountAlone
  <2> QED
    BY <2>3
<1> QED
  BY <1>1, ActiveInvariance, PTL
=============================================================================
