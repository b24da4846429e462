---------------------------- MODULE ProxyProofs ----------------------------
(***************************************************************************)
(* Theorems about Proxy, for any number of connections, requests and       *)
(* exceptions, any origins and anything that may fail.                     *)
(***************************************************************************)
EXTENDS Proxy, TLAPS

\* Handlers that are ready.
Handlers == [kind : {"accept", "signal"}, conn : Nat, result : {"ok", "error", "aborted"}]

IsAccept(h) == h.kind = "accept"

Typed ==
  /\ phase \in {"init", "start", "running", "caught", "exited", "terminated", "stopped"}
  /\ acceptor \in BOOLEAN /\ waiting \in BOOLEAN
  /\ created \in Nat /\ current \in Nat
  /\ accepts \in Seq(Nat) /\ ready \in Seq(Handlers)

\* Connections are filled in the order they are made, each once: those that are
\* to be filled are neither filled nor new.
Filled ==
  /\ \A i \in DOMAIN accepts : accepts[i] \notin connected /\ accepts[i] <= created
  /\ \A i, j \in DOMAIN accepts : accepts[i] = accepts[j] => i = j
  /\ \A c \in connected : c \in Nat /\ c <= created
  /\ managed \subseteq connected

\* Until a session throws there is one accept, pending or to be handled.
OneAccept ==
  "session" \notin happened =>
    /\ phase \in {"init", "start", "caught"} =>
         accepts = << >> /\ \A i \in DOMAIN ready : ~IsAccept(ready[i])
    /\ accepts # << >> => Len(accepts) = 1 /\ accepts[1] = current /\ \A i \in DOMAIN ready : ~IsAccept(ready[i])
    /\ \A i, j \in DOMAIN ready : IsAccept(ready[i]) /\ IsAccept(ready[j]) => i = j

\* The acceptor is open until the signal is handled.
Open ==
  /\ phase \in {"start", "running", "caught"} /\ waiting => acceptor
  /\ \A i \in DOMAIN ready : ready[i].kind = "signal" => ~waiting
  /\ phase = "init" => ready = << >>

ServerInv == Typed /\ Filled /\ OneAccept /\ Open /\ KeepsAccepting
-----------------------------------------------------------------------------
LEMMA ServerInitially == Init => ServerInv
<1> SUFFICES ASSUME Init PROVE ServerInv
  OBVIOUS
<1>1. Typed
  <2>1. acceptor \in BOOLEAN /\ waiting \in BOOLEAN
    BY Zenon DEF Init
  <2>2. phase = "init" /\ created = 0 /\ current = 0 /\ accepts = << >> /\ ready = << >>
    BY DEF Init
  <2> QED
    BY <2>1, <2>2 DEF Typed
<1>2. Filled
  BY DEF Init, Filled
<1>3. OneAccept
  BY DEF Init, OneAccept
<1>4. Open
  BY DEF Init, Open
<1>5. KeepsAccepting
  BY DEF Init, KeepsAccepting
<1> QED
  BY <1>1, <1>2, <1>3, <1>4, <1>5 DEF ServerInv

\* What start_accept does to the accepts when nothing is pending or queued.
LEMMA StartAccept ==
  ASSUME Typed, Filled, NEW handlers \in Seq(Handlers), start_accept(handlers)
  PROVE  /\ created' = created + 1 /\ current' = created + 1
         /\ accepts' \in Seq(Nat) /\ ready' \in Seq(Handlers)
         /\ \A i \in DOMAIN accepts' : accepts'[i] \notin connected /\ accepts'[i] <= created'
         /\ \A i, j \in DOMAIN accepts' : accepts'[i] = accepts'[j] => i = j
         /\ acceptor => accepts' = Append(accepts, created + 1) /\ ready' = handlers
         /\ ~acceptor => /\ accepts' = accepts
                         /\ ready' = Append(handlers, Accepted(created + 1, "error"))
<1>1. Accepted(created + 1, "error") \in Handlers
  BY DEF Accepted, Handlers, Typed
<1>2. created + 1 \notin connected
  BY DEF Filled, Typed
<1>3. CASE acceptor
  <2>1. accepts' = Append(accepts, created + 1) /\ ready' = handlers
    BY <1>3 DEF start_accept
  <2>2. \A i \in DOMAIN accepts' : accepts'[i] \notin connected /\ accepts'[i] <= created + 1
    BY <2>1, <1>2 DEF Filled, Typed
  <2>3. \A i, j \in DOMAIN accepts' : accepts'[i] = accepts'[j] => i = j
    BY <2>1 DEF Filled, Typed
  <2> QED
    BY <1>3, <2>1, <2>2, <2>3 DEF start_accept, Typed
<1>4. CASE ~acceptor
  <2>1. accepts' = accepts /\ ready' = Append(handlers, Accepted(created + 1, "error"))
    BY <1>4 DEF start_accept
  <2>2. ready' \in Seq(Handlers)
    BY <2>1, <1>1
  <2> QED
    BY <1>4, <2>1, <2>2 DEF start_accept, Typed, Filled
<1> QED
  BY <1>3, <1>4

\* The handlers that are left when the first one runs, and when one is added.
LEMMA Rest ==
  ASSUME NEW T, NEW q \in Seq(T), q # << >>
  PROVE  /\ Tail(q) \in Seq(T) /\ Head(q) = q[1] /\ Head(q) \in T /\ 1 \in DOMAIN q
         /\ \A i \in DOMAIN Tail(q) : i \in Nat /\ i + 1 \in DOMAIN q /\ Tail(q)[i] = q[i + 1]
         /\ \A i \in DOMAIN q : i # 1 => i - 1 \in DOMAIN Tail(q) /\ Tail(q)[i - 1] = q[i]
  OBVIOUS

LEMMA More ==
  ASSUME NEW T, NEW q \in Seq(T), NEW h \in T
  PROVE  /\ Append(q, h) \in Seq(T)
         /\ Len(q) + 1 \in DOMAIN Append(q, h) /\ Append(q, h)[Len(q) + 1] = h
         /\ \A i \in DOMAIN q : i \in DOMAIN Append(q, h) /\ Append(q, h)[i] = q[i]
         /\ \A i \in DOMAIN Append(q, h) :
              (i \in DOMAIN q /\ Append(q, h)[i] = q[i]) \/ (i = Len(q) + 1 /\ Append(q, h)[i] = h)
  OBVIOUS

LEMMA Joined ==
  ASSUME NEW T, NEW p \in Seq(T), NEW q \in Seq(T)
  PROVE  /\ DOMAIN (p \o q) = 1..(Len(p) + Len(q))
         /\ \A i \in DOMAIN p : (p \o q)[i] = p[i]
  OBVIOUS

LEMMA AcceptedHandlers ==
  ASSUME NEW c \in Nat, NEW r \in {"ok", "error", "aborted"}
  PROVE  /\ Accepted(c, r) \in Handlers /\ IsAccept(Accepted(c, r))
         /\ Accepted(c, r).kind = "accept" /\ Accepted(c, r).result = r
  BY DEF Accepted, Handlers, IsAccept

LEMMA SignalHandler == Signal \in Handlers /\ ~IsAccept(Signal) /\ Signal.kind = "signal"
  BY DEF Signal, Handlers, IsAccept

-----------------------------------------------------------------------------
(* One lemma per action.                                                    *)

LEMMA InitFails == ServerInv /\ init_fails => ServerInv'
<1> SUFFICES ASSUME ServerInv, init_fails PROVE ServerInv'
  OBVIOUS
<1>1. phase = "init" /\ phase' \in {"exited", "terminated"}
  BY DEF init_fails
<1>2. UNCHANGED <<acceptor, created, current, accepts, ready, connected, managed, happened>>
  BY DEF init_fails
<1>3. waiting' \in BOOLEAN
  BY Zenon DEF init_fails, ServerInv, Typed
<1>4. Typed'
  BY <1>1, <1>2, <1>3 DEF ServerInv, Typed
<1>5. Filled'
  BY <1>2 DEF ServerInv, Filled
<1>6. OneAccept'
  BY <1>1, <1>2 DEF ServerInv, OneAccept
<1>7. Open'
  BY <1>1, <1>2 DEF ServerInv, Open
<1>8. KeepsAccepting'
  BY <1>1 DEF KeepsAccepting
<1> QED
  BY <1>4, <1>5, <1>6, <1>7, <1>8 DEF ServerInv

LEMMA Inits == ServerInv /\ init => ServerInv'
<1> SUFFICES ASSUME ServerInv, init PROVE ServerInv'
  OBVIOUS
<1>1. phase = "init" /\ phase' = "start"
  BY DEF init
<1>2. UNCHANGED <<created, current, accepts, ready, connected, managed, happened>>
  BY DEF init
<1>3. waiting' = TRUE /\ acceptor' = TRUE
  BY DEF init
<1>4. Typed'
  BY <1>1, <1>2, <1>3 DEF ServerInv, Typed
<1>5. Filled'
  BY <1>2 DEF ServerInv, Filled
<1>6. OneAccept'
  BY <1>1, <1>2 DEF ServerInv, OneAccept
<1>7. Open'
  BY <1>1, <1>2, <1>3 DEF ServerInv, Open
<1>8. KeepsAccepting'
  BY <1>1 DEF KeepsAccepting
<1> QED
  BY <1>4, <1>5, <1>6, <1>7, <1>8 DEF ServerInv

LEMMA Starts == ServerInv /\ start => ServerInv'
<1> SUFFICES ASSUME ServerInv, start PROVE ServerInv'
  OBVIOUS
<1>1. phase \in {"start", "caught"} /\ phase' = "running"
  BY DEF start
<1>2. UNCHANGED <<acceptor, waiting, connected, managed, happened>>
  BY DEF start
<1>3. /\ created' = created + 1 /\ current' = created + 1
      /\ accepts' \in Seq(Nat) /\ ready' \in Seq(Handlers)
      /\ \A i \in DOMAIN accepts' : accepts'[i] \notin connected /\ accepts'[i] <= created'
      /\ \A i, j \in DOMAIN accepts' : accepts'[i] = accepts'[j] => i = j
      /\ acceptor => accepts' = Append(accepts, created + 1) /\ ready' = ready
      /\ ~acceptor => /\ accepts' = accepts
                      /\ ready' = Append(ready, Accepted(created + 1, "error"))
  BY StartAccept DEF ServerInv, Typed, start
<1>a. created + 1 \in Nat
  BY DEF ServerInv, Typed
<1>4. Typed'
  BY <1>1, <1>2, <1>3 DEF ServerInv, Typed
<1>5. Filled'
  BY <1>2, <1>3 DEF ServerInv, Filled, Typed
<1>6. OneAccept'
  <2> SUFFICES ASSUME "session" \notin happened PROVE OneAccept'
    BY <1>2 DEF OneAccept
  <2>1. accepts = << >> /\ \A i \in DOMAIN ready : ~IsAccept(ready[i])
    BY <1>1 DEF ServerInv, OneAccept
  <2>2. CASE acceptor
    <3>1. accepts' = << created + 1 >> /\ ready' = ready
      BY <1>3, <2>1, <2>2
    <3> QED
      BY <1>1, <1>3, <2>1, <3>1 DEF OneAccept
  <2>3. CASE ~acceptor
    <3>1. accepts' = << >> /\ ready' = Append(ready, Accepted(created + 1, "error"))
      BY <1>3, <2>1, <2>3
    <3>2. \A i, j \in DOMAIN ready' : IsAccept(ready'[i]) /\ IsAccept(ready'[j]) => i = j
      BY <1>a, <2>1, <3>1, More, AcceptedHandlers DEF ServerInv, Typed
    <3> QED
      BY <1>1, <3>1, <3>2 DEF OneAccept
  <2> QED
    BY <2>2, <2>3
<1>7. Open'
  <2>1. \A i \in DOMAIN ready' : ready'[i].kind = "signal" => ~waiting
    <3>1. CASE acceptor
      BY <1>3, <3>1 DEF ServerInv, Open
    <3>2. CASE ~acceptor
      BY <1>a, <1>3, <3>2, More, AcceptedHandlers DEF ServerInv, Open, Typed
    <3> QED
      BY <3>1, <3>2
  <2> QED
    BY <1>1, <1>2, <2>1 DEF ServerInv, Open
<1>8. KeepsAccepting'
  <2> SUFFICES ASSUME waiting PROVE KeepsAccepting'
    BY <1>2 DEF KeepsAccepting
  <2>1. accepts' = Append(accepts, created + 1)
    BY <1>1, <1>3 DEF ServerInv, Open
  <2>2. accepts' # << >>
    BY <2>1 DEF ServerInv, Typed
  <2> QED
    BY <2>2 DEF KeepsAccepting
<1> QED
  BY <1>4, <1>5, <1>6, <1>7, <1>8 DEF ServerInv

LEMMA ClientConnects == ServerInv /\ client_connects => ServerInv'
<1> SUFFICES ASSUME ServerInv, client_connects PROVE ServerInv'
  OBVIOUS
<1>1. phase = "running" /\ phase' = phase /\ accepts # << >>
  BY DEF client_connects
<1>2. UNCHANGED <<acceptor, waiting, created, current, managed, happened>>
  BY DEF client_connects
<1>3. /\ accepts' = Tail(accepts) /\ connected' = connected \cup {Head(accepts)}
      /\ ready' = Append(ready, Accepted(Head(accepts), "ok"))
  BY DEF client_connects
<1>4. /\ accepts' \in Seq(Nat) /\ Head(accepts) = accepts[1] /\ Head(accepts) \in Nat
      /\ 1 \in DOMAIN accepts
      /\ \A i \in DOMAIN accepts' : i \in Nat /\ i + 1 \in DOMAIN accepts /\ accepts'[i] = accepts[i + 1]
  BY <1>1, <1>3, Rest DEF ServerInv, Typed
<1>5. Typed'
  BY <1>1, <1>2, <1>3, <1>4, More, AcceptedHandlers DEF ServerInv, Typed
<1>6. Filled'
  <2>1. \A i \in DOMAIN accepts' : accepts'[i] \notin connected' /\ accepts'[i] <= created'
    <3> TAKE i \in DOMAIN accepts'
    <3>1. i + 1 # 1
      BY <1>4
    <3> QED
      BY <1>2, <1>3, <1>4, <3>1 DEF ServerInv, Filled
  <2>2. \A i, j \in DOMAIN accepts' : accepts'[i] = accepts'[j] => i = j
    BY <1>4 DEF ServerInv, Filled
  <2>3. \A c \in connected' : c \in Nat /\ c <= created'
    BY <1>2, <1>3, <1>4 DEF ServerInv, Filled
  <2> QED
    BY <1>2, <1>3, <2>1, <2>2, <2>3 DEF ServerInv, Filled
<1>7. OneAccept'
  <2> SUFFICES ASSUME "session" \notin happened PROVE OneAccept'
    BY <1>2 DEF OneAccept
  <2>1. Len(accepts) = 1 /\ \A i \in DOMAIN ready : ~IsAccept(ready[i])
    BY <1>1 DEF ServerInv, OneAccept
  <2>2. accepts' = << >>
    BY <1>3, <2>1 DEF ServerInv, Typed
  <2>3. \A i, j \in DOMAIN ready' : IsAccept(ready'[i]) /\ IsAccept(ready'[j]) => i = j
    BY <1>3, <1>4, <2>1, More, AcceptedHandlers DEF ServerInv, Typed
  <2> QED
    BY <1>1, <2>2, <2>3 DEF OneAccept
<1>8. Open'
  <2>1. \A i \in DOMAIN ready' : ready'[i].kind = "signal" => ~waiting
    BY <1>3, <1>4, More, AcceptedHandlers DEF ServerInv, Typed, Open
  <2> QED
    BY <1>1, <1>2, <2>1 DEF ServerInv, Open
<1>9. KeepsAccepting'
  BY <1>3, <1>4, More, AcceptedHandlers, SMTT(30) DEF ServerInv, Typed, KeepsAccepting
<1> QED
  BY <1>5, <1>6, <1>7, <1>8, <1>9 DEF ServerInv

LEMMA AcceptFails == ServerInv /\ accept_fails => ServerInv'
<1> SUFFICES ASSUME ServerInv, accept_fails PROVE ServerInv'
  OBVIOUS
<1>1. phase = "running" /\ phase' = phase /\ accepts # << >>
  BY DEF accept_fails
<1>2. UNCHANGED <<acceptor, waiting, created, current, connected, managed>>
  BY DEF accept_fails
<1>3. /\ accepts' = Tail(accepts) /\ happened' = happened \cup {"accept"}
      /\ ready' = Append(ready, Accepted(Head(accepts), "error"))
  BY DEF accept_fails
<1>4. /\ accepts' \in Seq(Nat) /\ Head(accepts) \in Nat
      /\ \A i \in DOMAIN accepts' : i \in Nat /\ i + 1 \in DOMAIN accepts /\ accepts'[i] = accepts[i + 1]
  BY <1>1, <1>3, Rest DEF ServerInv, Typed
<1>5. Typed'
  BY <1>1, <1>2, <1>3, <1>4, More, AcceptedHandlers DEF ServerInv, Typed
<1>6. Filled'
  BY <1>2, <1>4 DEF ServerInv, Filled
<1>7. OneAccept'
  <2> SUFFICES ASSUME "session" \notin happened PROVE OneAccept'
    BY <1>3 DEF OneAccept
  <2>1. Len(accepts) = 1 /\ \A i \in DOMAIN ready : ~IsAccept(ready[i])
    BY <1>1 DEF ServerInv, OneAccept
  <2>2. accepts' = << >>
    BY <1>3, <2>1 DEF ServerInv, Typed
  <2>3. \A i, j \in DOMAIN ready' : IsAccept(ready'[i]) /\ IsAccept(ready'[j]) => i = j
    BY <1>3, <1>4, <2>1, More, AcceptedHandlers DEF ServerInv, Typed
  <2> QED
    BY <1>1, <2>2, <2>3 DEF OneAccept
<1>8. Open'
  <2>1. \A i \in DOMAIN ready' : ready'[i].kind = "signal" => ~waiting
    BY <1>3, <1>4, More, AcceptedHandlers DEF ServerInv, Typed, Open
  <2> QED
    BY <1>1, <1>2, <2>1 DEF ServerInv, Open
<1>9. KeepsAccepting'
  BY <1>3 DEF KeepsAccepting
<1> QED
  BY <1>5, <1>6, <1>7, <1>8, <1>9 DEF ServerInv

\* What every accept handler starts from.
LEMMA Popped ==
  ASSUME ServerInv, NEW kind, IsReady(kind)
  PROVE  /\ phase = "running" /\ Head(ready).kind = kind
         /\ Head(ready) = ready[1] /\ 1 \in DOMAIN ready /\ Tail(ready) \in Seq(Handlers)
         /\ \A i \in DOMAIN Tail(ready) :
              i \in Nat /\ i + 1 \in DOMAIN ready /\ Tail(ready)[i] = ready[i + 1]
         /\ \A i \in DOMAIN ready : i # 1 => i - 1 \in DOMAIN Tail(ready) /\ Tail(ready)[i - 1] = ready[i]
  BY Rest DEF IsReady, ServerInv, Typed

\* Until a session throws, the accept handler that runs is the only one and no
\* accept is pending.
LEMMA LastAccept ==
  ASSUME ServerInv, IsReady("accept"), "session" \notin happened
  PROVE  accepts = << >> /\ \A i \in DOMAIN Tail(ready) : ~IsAccept(Tail(ready)[i])
<1>1. IsAccept(ready[1]) /\ 1 \in DOMAIN ready
  BY Popped DEF IsAccept
<1>2. accepts = << >>
  BY <1>1 DEF ServerInv, OneAccept
<1>3. ASSUME NEW i \in DOMAIN Tail(ready), IsAccept(Tail(ready)[i])
      PROVE  FALSE
  <2>1. i \in Nat /\ i + 1 \in DOMAIN ready /\ IsAccept(ready[i + 1])
    BY <1>3, Popped
  <2>2. i + 1 = 1
    BY <1>1, <2>1 DEF ServerInv, OneAccept
  <2> QED
    BY <1>3, <2>1, <2>2, Popped
<1> QED
  BY <1>2, <1>3

LEMMA OnAccept == ServerInv /\ on_accept => ServerInv'
<1> SUFFICES ASSUME ServerInv, on_accept PROVE ServerInv'
  OBVIOUS
<1>1. IsReady("accept") /\ current \in connected /\ managed' = managed \cup {current} /\ phase' = phase
  BY DEF on_accept
<1>2. UNCHANGED <<acceptor, waiting, connected, happened>>
  BY DEF on_accept
<1>3. Tail(ready) \in Seq(Handlers) /\ phase = "running"
  BY <1>1, Popped
<1>4. /\ created' = created + 1 /\ current' = created + 1
      /\ accepts' \in Seq(Nat) /\ ready' \in Seq(Handlers)
      /\ \A i \in DOMAIN accepts' : accepts'[i] \notin connected /\ accepts'[i] <= created'
      /\ \A i, j \in DOMAIN accepts' : accepts'[i] = accepts'[j] => i = j
      /\ acceptor => accepts' = Append(accepts, created + 1) /\ ready' = Tail(ready)
      /\ ~acceptor => /\ accepts' = accepts
                      /\ ready' = Append(Tail(ready), Accepted(created + 1, "error"))
  BY <1>3, StartAccept DEF ServerInv, on_accept
<1>a. created + 1 \in Nat
  BY DEF ServerInv, Typed
<1>5. Typed'
  BY <1>1, <1>2, <1>3, <1>4 DEF ServerInv, Typed
<1>6. Filled'
  BY <1>1, <1>2, <1>4 DEF ServerInv, Filled, Typed
<1>7. OneAccept'
  <2> SUFFICES ASSUME "session" \notin happened PROVE OneAccept'
    BY <1>2 DEF OneAccept
  <2>1. accepts = << >> /\ \A i \in DOMAIN Tail(ready) : ~IsAccept(Tail(ready)[i])
    BY <1>1, LastAccept
  <2>2. CASE acceptor
    <3>1. accepts' = << created + 1 >> /\ ready' = Tail(ready)
      BY <1>4, <2>1, <2>2
    <3> QED
      BY <1>1, <1>3, <1>4, <2>1, <3>1 DEF OneAccept
  <2>3. CASE ~acceptor
    <3>1. accepts' = << >> /\ ready' = Append(Tail(ready), Accepted(created + 1, "error"))
      BY <1>4, <2>1, <2>3
    <3>2. \A i, j \in DOMAIN ready' : IsAccept(ready'[i]) /\ IsAccept(ready'[j]) => i = j
      BY <1>a, <1>3, <2>1, <3>1, More, AcceptedHandlers
    <3> QED
      BY <1>1, <1>3, <3>1, <3>2 DEF OneAccept
  <2> QED
    BY <2>2, <2>3
<1>8. Open'
  <2>1. \A i \in DOMAIN Tail(ready) : Tail(ready)[i].kind = "signal" => ~waiting
    BY <1>1, Popped DEF ServerInv, Open
  <2>2. \A i \in DOMAIN ready' : ready'[i].kind = "signal" => ~waiting
    <3>1. CASE acceptor
      BY <1>4, <2>1, <3>1
    <3>2. CASE ~acceptor
      <4>1. ready' = Append(Tail(ready), Accepted(created + 1, "error"))
        BY <1>4, <3>2
      <4>2. Accepted(created + 1, "error") \in Handlers /\ Accepted(created + 1, "error").kind = "accept"
        BY <1>a, AcceptedHandlers
      <4>3. \A i \in DOMAIN ready' : \/ i \in DOMAIN Tail(ready) /\ ready'[i] = Tail(ready)[i]
                                    \/ ready'[i] = Accepted(created + 1, "error")
        BY <1>3, <4>1, <4>2, More
      <4> QED
        BY <2>1, <4>2, <4>3
    <3> QED
      BY <3>1, <3>2
  <2> QED
    BY <1>1, <1>2, <1>3, <2>2 DEF ServerInv, Open
<1>9. KeepsAccepting'
  <2> SUFFICES ASSUME waiting PROVE KeepsAccepting'
    BY <1>2 DEF KeepsAccepting
  <2>1. accepts' = Append(accepts, created + 1)
    BY <1>3, <1>4 DEF ServerInv, Open
  <2>2. accepts' # << >>
    BY <2>1 DEF ServerInv, Typed
  <2> QED
    BY <2>2 DEF KeepsAccepting
<1> QED
  BY <1>5, <1>6, <1>7, <1>8, <1>9 DEF ServerInv

LEMMA OnAcceptThrows == ServerInv /\ on_accept_throws => ServerInv'
<1> SUFFICES ASSUME ServerInv, on_accept_throws PROVE ServerInv'
  OBVIOUS
<1>1. IsReady("accept") /\ phase' = "caught" /\ ready' = Tail(ready)
  BY DEF on_accept_throws
<1>2. UNCHANGED <<acceptor, waiting, created, current, accepts, connected, managed, happened>>
  BY DEF on_accept_throws
<1>3. Typed'
  BY <1>1, <1>2, Popped DEF ServerInv, Typed
<1>4. Filled'
  BY <1>2 DEF ServerInv, Filled
<1>5. OneAccept'
  <2> SUFFICES ASSUME "session" \notin happened PROVE OneAccept'
    BY <1>2 DEF OneAccept
  <2>1. accepts' = << >> /\ \A i \in DOMAIN ready' : ~IsAccept(ready'[i])
    BY <1>1, <1>2, LastAccept
  <2> QED
    BY <2>1 DEF OneAccept
<1>6. Open'
  <2>1. \A i \in DOMAIN ready' : ready'[i].kind = "signal" => ~waiting
    BY <1>1, Popped DEF ServerInv, Open
  <2>2. waiting => acceptor
    BY <1>1, Popped DEF ServerInv, Open
  <2> QED
    BY <1>1, <1>2, <2>1, <2>2 DEF Open
<1>7. KeepsAccepting'
  BY <1>1 DEF KeepsAccepting
<1> QED
  BY <1>3, <1>4, <1>5, <1>6, <1>7 DEF ServerInv

LEMMA OnAcceptError == ServerInv /\ on_accept_error => ServerInv'
<1> SUFFICES ASSUME ServerInv, on_accept_error PROVE ServerInv'
  OBVIOUS
<1>1. IsReady("accept") /\ Head(ready).result # "ok" /\ ready' = Tail(ready)
  BY DEF on_accept_error
<1>2. UNCHANGED <<phase, acceptor, waiting, created, current, accepts, connected, managed, happened>>
  BY DEF on_accept_error
<1>3. phase = "running"
  BY <1>1, Popped
<1>4. Typed'
  BY <1>1, <1>2, Popped DEF ServerInv, Typed
<1>5. Filled'
  BY <1>2 DEF ServerInv, Filled
<1>6. OneAccept'
  <2> SUFFICES ASSUME "session" \notin happened PROVE OneAccept'
    BY <1>2 DEF OneAccept
  <2>1. accepts' = << >> /\ \A i \in DOMAIN ready' : ~IsAccept(ready'[i])
    BY <1>1, <1>2, LastAccept
  <2> QED
    BY <2>1 DEF OneAccept
<1>7. Open'
  <2>1. \A i \in DOMAIN ready' : ready'[i].kind = "signal" => ~waiting
    BY <1>1, Popped DEF ServerInv, Open
  <2> QED
    BY <1>2, <1>3, <2>1 DEF ServerInv, Open
<1>8. KeepsAccepting'
  <2> SUFFICES ASSUME waiting, "accept" \notin happened, accepts = << >> PROVE KeepsAccepting'
    BY <1>2 DEF KeepsAccepting
  <2>1. PICK i \in DOMAIN ready : ready[i].kind = "accept" /\ ready[i].result = "ok"
    BY <1>3 DEF ServerInv, KeepsAccepting
  <2>2. i # 1
    BY <1>1, <2>1, Popped
  <2>3. i - 1 \in DOMAIN ready' /\ ready'[i - 1] = ready[i]
    BY <1>1, <2>2, Popped
  <2> QED
    BY <2>1, <2>3 DEF KeepsAccepting
<1> QED
  BY <1>4, <1>5, <1>6, <1>7, <1>8 DEF ServerInv

LEMMA SessionEnds == ServerInv /\ session_ends => ServerInv'
<1> SUFFICES ASSUME ServerInv, session_ends PROVE ServerInv'
  OBVIOUS
<1>1. UNCHANGED <<phase, acceptor, waiting, created, current, accepts, ready, connected, happened>>
  BY DEF session_ends
<1>2. managed' \subseteq managed
  BY DEF session_ends
<1>3. Typed' /\ OneAccept' /\ Open' /\ KeepsAccepting'
  BY <1>1 DEF ServerInv, Typed, OneAccept, Open, KeepsAccepting
<1>4. Filled'
  BY <1>1, <1>2 DEF ServerInv, Filled
<1> QED
  BY <1>3, <1>4 DEF ServerInv

LEMMA SessionThrows == ServerInv /\ session_throws => ServerInv'
<1> SUFFICES ASSUME ServerInv, session_throws PROVE ServerInv'
  OBVIOUS
<1>1. UNCHANGED <<acceptor, waiting, created, current, accepts, ready, connected, managed>>
  BY DEF session_throws
<1>2. phase = "running" /\ phase' = "caught" /\ "session" \in happened'
  BY DEF session_throws
<1>3. Typed'
  BY <1>1, <1>2 DEF ServerInv, Typed
<1>4. Filled'
  BY <1>1 DEF ServerInv, Filled
<1>5. OneAccept' /\ KeepsAccepting'
  BY <1>2 DEF OneAccept, KeepsAccepting
<1>6. Open'
  BY <1>1, <1>2 DEF ServerInv, Open
<1> QED
  BY <1>3, <1>4, <1>5, <1>6 DEF ServerInv

LEMMA Signals == ServerInv /\ signal => ServerInv'
<1> SUFFICES ASSUME ServerInv, signal PROVE ServerInv'
  OBVIOUS
<1>1. UNCHANGED <<phase, acceptor, created, current, accepts, connected, managed, happened>>
  BY DEF signal
<1>2. phase = "running" /\ waiting' = FALSE /\ ready' = Append(ready, Signal)
  BY DEF signal
<1>3. Typed'
  BY <1>1, <1>2, More, SignalHandler DEF ServerInv, Typed
<1>4. Filled'
  BY <1>1 DEF ServerInv, Filled
<1>5. OneAccept'
  <2>1. \A i \in DOMAIN ready' : IsAccept(ready'[i]) => i \in DOMAIN ready /\ ready'[i] = ready[i]
    BY <1>2, More, SignalHandler DEF ServerInv, Typed
  <2> QED
    BY <1>1, <1>2, <2>1 DEF ServerInv, OneAccept
<1>6. Open' /\ KeepsAccepting'
  BY <1>1, <1>2 DEF Open, KeepsAccepting
<1> QED
  BY <1>3, <1>4, <1>5, <1>6 DEF ServerInv

LEMMA OnSignal == ServerInv /\ on_signal => ServerInv'
<1> SUFFICES ASSUME ServerInv, on_signal PROVE ServerInv'
  OBVIOUS
<1> DEFINE aborts == [i \in DOMAIN accepts |-> Accepted(accepts[i], "aborted")]
<1>1. IsReady("signal") /\ managed' = {} /\ acceptor' = FALSE /\ accepts' = << >>
  BY DEF on_signal
<1>2. ready' = Tail(ready) \o aborts
  BY DEF on_signal
<1>3. UNCHANGED <<phase, waiting, created, current, connected, happened>>
  BY DEF on_signal
<1>4. phase = "running" /\ Tail(ready) \in Seq(Handlers)
  BY <1>1, Popped
<1>5. ~waiting
  BY <1>1, Popped DEF ServerInv, Open
<1>6. aborts \in Seq(Handlers) /\ Len(aborts) = Len(accepts)
  <2>1. DOMAIN accepts = 1..Len(accepts) /\ Len(accepts) \in Nat
    BY DEF ServerInv, Typed
  <2>2. \A i \in DOMAIN accepts : Accepted(accepts[i], "aborted") \in Handlers
    BY AcceptedHandlers DEF ServerInv, Typed
  <2> QED
    BY <2>1, <2>2
<1> HIDE DEF aborts
<1>7. Typed'
  <2>1. ready' \in Seq(Handlers)
    BY <1>2, <1>4, <1>6
  <2>2. acceptor' \in BOOLEAN
    BY <1>1, Zenon
  <2> QED
    BY <1>1, <1>3, <2>1, <2>2 DEF ServerInv, Typed
<1>8. Filled'
  BY <1>1, <1>3 DEF ServerInv, Filled
<1>9. OneAccept'
  <2> SUFFICES ASSUME "session" \notin happened
               PROVE  \A i, j \in DOMAIN ready' : IsAccept(ready'[i]) /\ IsAccept(ready'[j]) => i = j
    BY <1>1, <1>3, <1>4 DEF OneAccept
  <2>1. CASE accepts = << >>
    <3>1. ready' = Tail(ready)
      BY <1>2, <1>4, <1>6, <2>1
    <3>2. \A i, j \in DOMAIN ready : IsAccept(ready[i]) /\ IsAccept(ready[j]) => i = j
      BY DEF ServerInv, OneAccept
    <3> QED
      BY <1>1, <3>1, <3>2, Popped
  <2>2. CASE accepts # << >>
    <3>1. Len(aborts) = 1 /\ \A i \in DOMAIN ready : ~IsAccept(ready[i])
      BY <1>6, <2>2 DEF ServerInv, OneAccept
    <3>2. \A i \in DOMAIN Tail(ready) : ~IsAccept(Tail(ready)[i])
      BY <1>1, <3>1, Popped
    <3>3. \A i \in DOMAIN ready' : i = Len(Tail(ready)) + 1 \/ (i \in DOMAIN Tail(ready) /\ ready'[i] = Tail(ready)[i])
      <4>1. Len(Tail(ready)) \in Nat /\ DOMAIN Tail(ready) = 1..Len(Tail(ready))
        BY <1>4
      <4>2. DOMAIN ready' = 1..(Len(Tail(ready)) + 1)
        <5>1. DOMAIN (Tail(ready) \o aborts) = 1..(Len(Tail(ready)) + Len(aborts))
          BY <1>4, <1>6, Joined
        <5> QED
          BY <1>2, <3>1, <5>1, Zenon
      <4>3. \A i \in DOMAIN Tail(ready) : ready'[i] = Tail(ready)[i]
        BY <1>2, <1>4, <1>6, Joined
      <4> QED
        BY <4>1, <4>2, <4>3
    <3> QED
      BY <3>2, <3>3
  <2> QED
    BY <2>1, <2>2
<1>10. Open' /\ KeepsAccepting'
  BY <1>3, <1>4, <1>5 DEF Open, KeepsAccepting
<1> QED
  BY <1>7, <1>8, <1>9, <1>10 DEF ServerInv

\* The process ends: run() returns, or an assertion fails.
LEMMA Ends ==
  ASSUME ServerInv, phase = "running", phase' \in {"stopped", "terminated"},
         UNCHANGED <<acceptor, waiting, created, current, accepts, ready, connected, managed, happened>>
  PROVE  ServerInv'
  BY DEF ServerInv, Typed, Filled, OneAccept, Open, KeepsAccepting

LEMMA ServerStutters == ServerInv /\ UNCHANGED vars => ServerInv'
  BY DEF vars, ServerInv, Typed, Filled, OneAccept, Open, KeepsAccepting

LEMMA ServerStep == ServerInv /\ Next => ServerInv'
<1> SUFFICES ASSUME ServerInv, Next PROVE ServerInv'
  OBVIOUS
<1>1. CASE run_returns
  BY <1>1, Ends DEF run_returns
<1>2. CASE Over
  BY <1>2, ServerStutters DEF Over
<1> QED
  BY <1>1, <1>2, InitFails, Inits, Starts, ClientConnects, AcceptFails, OnAccept, OnAcceptThrows,
     OnAcceptError, SessionEnds, SessionThrows, Signals, OnSignal DEF Next, Handler

-----------------------------------------------------------------------------
(* Routing, for all origins.                                                *)

\* What a server connection for an origin leads to, opened for the first time
\* or again, from within the tunnel.
Reached(o, again) ==
  [host |-> o.host, port |-> IF again /\ NamedPort(o) = NoPort THEN DefaultPort ELSE o.port]
Served == awaits \in {"idle", "reply", "response"}

RouteTyped ==
  /\ https \in BOOLEAN /\ ssl_setup \in BOOLEAN /\ strayed \in BOOLEAN
  /\ reopened \in BOOLEAN
  /\ origin \in Origins \cup {NoOrigin}

\* Before its first request a client has nothing.
Fresh ==
  origin = NoOrigin =>
    /\ server = None /\ certificate = "none" /\ ~strayed /\ ~ssl_setup
    /\ awaits \notin {"reply", "response"} /\ (https => awaits = "unserved")

\* Both flags of the context follow the origin, ssl_setup_ after the handshake.
Flags ==
  /\ Served /\ origin # NoOrigin =>
       /\ https <=> origin.tls
       /\ ssl_setup <=> (origin.tls /\ awaits # "reply")
       /\ awaits = "reply" => origin.tls
  /\ strayed => ~origin.tls

\* The server connection there is leads to the origin, unless the client has
\* asked for another one since it was opened.
Leads ==
  /\ Served /\ server # None /\ ~strayed => server = Reached(origin, reopened)
  /\ awaits = "reply" => server = Reached(origin, reopened)
  /\ awaits = "response" /\ ~strayed => wrote = Reached(origin, reopened)

Certified == certificate # "none" => origin.tls /\ certificate = origin.host

RouteInv == RouteTyped /\ Fresh /\ Flags /\ Leads /\ Certified

LEMMA PortBound == MaxPort \in Nat /\ BadPort = MaxPort + 1
  BY SMT DEF MaxPort, BadPort

LEMMA OriginTyped ==
  ASSUME NEW o \in Origins
  PROVE  o.port \in 1..MaxPort /\ o.tls \in BOOLEAN /\ o # NoOrigin
<1>1. o.port \in 1..MaxPort /\ o.tls \in BOOLEAN
  BY RoutingAssumption, Zenon
<1>2. NoOrigin.port = 0
  BY DEF NoOrigin, NoPort
<1>3. o.port # 0
  BY <1>1, PortBound, SMT
<1> QED
  BY <1>1, <1>2, <1>3, Zenon

LEMMA NoOriginClear == ~NoOrigin.tls
  BY DEF NoOrigin

LEMMA RouteInitially == RoutingInit => RouteInv
<1> SUFFICES ASSUME RoutingInit PROVE RouteInv
  OBVIOUS
<1>1. RouteTyped
  BY Zenon DEF RoutingInit, RouteTyped
<1>2. Fresh
  BY DEF RoutingInit, Fresh
<1>3. Flags
  BY DEF RoutingInit, Flags
<1>4. Leads
  BY DEF RoutingInit, Leads
<1>5. Certified
  BY DEF RoutingInit, Certified
<1> QED
  BY <1>1, <1>2, <1>3, <1>4, <1>5 DEF RouteInv

\* What parse_destination makes of a request for an origin: of a CONNECT, of a
\* request in the tunnel, or of one for a clear origin.
LEMMA Parsed ==
  ASSUME NEW o \in Origins, NEW connect \in BOOLEAN, NEW again \in BOOLEAN,
         connect => o.tls, o.tls => (again <=> ~connect)
  PROVE  LET r == Request(connect, o.host, NamedPort(o))
         IN r.port # BadPort /\ r.host = o.host /\ (r.connect <=> connect)
            /\ parse_destination(r) = Reached(o, again) /\ parse_destination(r) # None
<1> DEFINE r == Request(connect, o.host, NamedPort(o))
<1>1. r.host = o.host /\ r.port = NamedPort(o)
  BY DEF Request
<1>2. r.connect <=> connect
  BY DEF Request
<1>3. o.port \in 1..MaxPort
  BY OriginTyped
<1>b. o.port # 0 /\ o.port \in Nat
  BY <1>3, PortBound, SMT
<1>4. NamedPort(o) # BadPort
  BY <1>3, PortBound, SMT DEF NamedPort, NoPort
<1>5. parse_destination(r).port = Reached(o, again).port /\ parse_destination(r).port # 0
  <2>1. CASE o.tls /\ o.port = 443
    <3>1. NamedPort(o) = 0
      BY <2>1 DEF NamedPort, NoPort
    <3>2. parse_destination(r).port = IF connect THEN 443 ELSE 80
      BY <1>1, <1>2, <3>1 DEF parse_destination, NoPort
    <3>3. Reached(o, again).port = IF connect THEN 443 ELSE 80
      BY <2>1, <3>1 DEF Reached, NoPort, DefaultPort
    <3> QED
      BY <3>2, <3>3
  <2>2. CASE ~o.tls /\ o.port = 80
    <3>1. NamedPort(o) = 0
      BY <2>2 DEF NamedPort, NoPort
    <3>2. parse_destination(r).port = 80
      BY <1>1, <1>2, <2>2, <3>1 DEF parse_destination, NoPort
    <3>3. Reached(o, again).port = 80
      BY <2>2, <3>1 DEF Reached, DefaultPort
    <3> QED
      BY <3>2, <3>3
  <2>3. CASE o.port # IF o.tls THEN 443 ELSE 80
    <3>1. NamedPort(o) = o.port /\ NamedPort(o) # NoPort
      BY <1>b, <2>3 DEF NamedPort, NoPort
    <3> QED
      BY <1>1, <1>b, <3>1 DEF parse_destination, Reached
  <2> QED
    BY <2>1, <2>2, <2>3
<1>6. parse_destination(r) = Reached(o, again)
  BY <1>1, <1>5 DEF parse_destination, Reached
<1>7. None.port = 0
  BY DEF None, NoPort
<1> QED
  BY <1>1, <1>2, <1>4, <1>5, <1>6, <1>7

\* on_client_message for a request that names o, when o is the origin.
LEMMA Routed ==
  ASSUME RouteTyped, awaits = "idle", NEW o \in Origins, NEW connect \in BOOLEAN,
         connect => o.tls, o.tls => (ssl_setup <=> ~connect),
         on_client_message(Request(connect, o.host, NamedPort(o)))
  PROVE  \/ /\ awaits' \in {"aborted", "unserved"} /\ https' \in BOOLEAN
            /\ server' = server /\ reopened' = reopened
         \/ /\ server # None /\ server' = server /\ wrote' = server /\ awaits' = "response"
            /\ https' = https /\ reopened' = reopened
         \/ /\ server' = Reached(o, ssl_setup) /\ reopened' = ssl_setup
            /\ (https' <=> (https \/ connect)) /\ https' \in BOOLEAN
            /\ \/ https' /\ ~ssl_setup /\ awaits' = "reply"
               \/ ~(https' /\ ~ssl_setup) /\ awaits' = "response" /\ wrote' = server'
<1> DEFINE r == Request(connect, o.host, NamedPort(o))
<1>0. ssl_setup \in BOOLEAN
  BY DEF RouteTyped
<1>1. r.port # BadPort /\ (r.connect <=> connect) /\ parse_destination(r) = Reached(o, ssl_setup)
  BY <1>0, Parsed
<1>2. on_client_message(r)
  OBVIOUS
<1> HIDE DEF r
<1>3. CASE server # None /\ wrote' = server /\ awaits' = "response" /\ UNCHANGED <<https, server, reopened>>
  BY <1>3
<1>4. CASE server = None /\ awaits' = "aborted" /\ UNCHANGED <<https, server, wrote, reopened>>
  BY <1>4 DEF RouteTyped
<1>5. CASE /\ server = None
           /\ server' = parse_destination(r) /\ https' = (https \/ r.connect)
           /\ reopened' = ssl_setup
           /\ IF https' /\ ~ssl_setup THEN awaits' = "reply" /\ UNCHANGED wrote
              ELSE wrote' = server' /\ awaits' = "response"
  <2>1. https' \in BOOLEAN
    BY <1>5, Zenon
  <2>2. https' <=> (https \/ connect)
    BY <1>1, <1>5, Zenon
  <2>3. \/ https' /\ ~ssl_setup /\ awaits' = "reply"
        \/ ~(https' /\ ~ssl_setup) /\ awaits' = "response" /\ wrote' = server'
    BY <1>5, Zenon
  <2> QED
    BY <1>1, <1>5, <2>1, <2>2, <2>3
<1> QED
  BY <1>1, <1>2, <1>3, <1>4, <1>5 DEF on_client_message

LEMMA RequestsFor ==
  ASSUME RouteInv, NEW o \in Origins, RequestFor(o)
  PROVE  RouteInv'
<1> DEFINE connect == o.tls /\ origin = NoOrigin
<1>1. awaits = "idle" /\ origin' = o /\ UNCHANGED <<ssl_setup, certificate>>
  BY DEF RequestFor
<1>2. origin \in {NoOrigin, o} \/ (~o.tls /\ ~origin.tls)
  BY DEF RequestFor
<1>3. strayed' \in BOOLEAN /\ (strayed' <=> (strayed \/ origin \notin {NoOrigin, o}))
  BY Zenon DEF RequestFor
<1>4. o # NoOrigin /\ o.tls \in BOOLEAN
  BY OriginTyped
<1>5. on_client_message(Request(connect, o.host, NamedPort(o)))
  BY DEF RequestFor
<1>6. connect \in BOOLEAN /\ (connect => o.tls) /\ (connect <=> (o.tls /\ origin = NoOrigin))
  BY <1>4, Zenon
<1> HIDE DEF connect
\* The flags as they are before the request.
<1>7. /\ https <=> (o.tls /\ origin = o)
      /\ ssl_setup <=> (o.tls /\ origin = o)
      /\ strayed => ~o.tls
  <2>1. CASE origin = NoOrigin
    BY <1>1, <1>4, <2>1 DEF RouteInv, Fresh
  <2>2. CASE origin # NoOrigin
    BY <1>1, <1>2, <2>2 DEF RouteInv, Flags, Served
  <2> QED
    BY <2>1, <2>2
<1>8. o.tls => (ssl_setup <=> ~connect)
  BY <1>2, <1>4, <1>6, <1>7, Zenon
<1>9. \/ /\ awaits' \in {"aborted", "unserved"} /\ https' \in BOOLEAN
         /\ server' = server /\ reopened' = reopened
      \/ /\ server # None /\ server' = server /\ wrote' = server /\ awaits' = "response"
         /\ https' = https /\ reopened' = reopened
      \/ /\ server' = Reached(o, ssl_setup) /\ reopened' = ssl_setup
         /\ (https' <=> (https \/ connect)) /\ https' \in BOOLEAN
         /\ \/ https' /\ ~ssl_setup /\ awaits' = "reply"
            \/ ~(https' /\ ~ssl_setup) /\ awaits' = "response" /\ wrote' = server'
  BY <1>1, <1>5, <1>6, <1>8, Routed DEF RouteInv
<1>10. https' \in BOOLEAN /\ reopened' \in BOOLEAN
  BY <1>9, Zenon DEF RouteInv, RouteTyped
<1>11. RouteTyped'
  BY <1>1, <1>3, <1>10, Zenon DEF RouteInv, RouteTyped
<1>12. Fresh'
  BY <1>1, <1>4 DEF Fresh
<1>13. (strayed' => ~o.tls) /\ (awaits' \in {"reply", "response"} => (https' <=> o.tls))
  <2>1. strayed' => ~o.tls
    BY <1>2, <1>3, <1>7, Zenon
  <2>2. awaits' = "response" /\ https' = https /\ server # None => (https' <=> o.tls)
    <3> SUFFICES ASSUME server # None, https' = https
                 PROVE  https' <=> o.tls
      BY Zenon
    <3>1. origin # NoOrigin
      BY DEF RouteInv, Fresh
    <3>2. CASE origin = o
      BY <1>7, <3>2, Zenon
    <3>3. CASE ~o.tls
      BY <1>7, <3>3, Zenon
    <3> QED
      BY <1>2, <3>1, <3>2, <3>3, Zenon
  <2>3. (https' <=> (https \/ connect)) => (https' <=> o.tls)
    BY <1>2, <1>6, <1>7, Zenon
  <2> QED
    BY <1>9, <2>1, <2>2, <2>3
<1>14. Flags'
  <2>1. awaits' = "reply" => ~ssl_setup /\ o.tls
    BY <1>9, <1>13
  <2>2. awaits' = "response" => (ssl_setup <=> o.tls)
    <3>1. CASE https' = https /\ server # None
      <4>1. origin # NoOrigin
        BY <3>1 DEF RouteInv, Fresh
      <4> QED
        BY <1>2, <1>7, <4>1, Zenon
    <3>2. CASE ~(https' /\ ~ssl_setup) /\ awaits' = "response"
      BY <1>7, <1>13, <3>2, Zenon
    <3> QED
      BY <1>9, <3>1, <3>2
  <2>3. awaits' # "idle"
    BY <1>9
  <2> QED
    BY <1>1, <1>13, <2>1, <2>2, <2>3 DEF Flags, Served
<1>15. Leads'
  <2>1. server # None /\ ~strayed' => server = Reached(o, reopened)
    BY <1>1, <1>3 DEF RouteInv, Leads, Served, Fresh
  <2>2. awaits' # "idle"
    BY <1>9
  <2> QED
    BY <1>1, <1>9, <2>1, <2>2 DEF Leads, Served
<1>16. Certified'
  BY <1>1, <1>2, NoOriginClear DEF RouteInv, Certified
<1> QED
  BY <1>11, <1>12, <1>14, <1>15, <1>16 DEF RouteInv

LEMMA RequestsMalformed ==
  ASSUME RouteInv, RequestMalformed
  PROVE  RouteInv'
<1>1. awaits = "idle" /\ UNCHANGED <<ssl_setup, certificate, origin, strayed>>
  BY DEF RequestMalformed
<1>2. PICK r \in {Request(FALSE, "none", NoPort), Request(FALSE, "h", BadPort),
                  Request(origin = NoOrigin, "h", BadPort)} : on_client_message(r)
  BY DEF RequestMalformed
<1>3. r.host = "none" \/ r.port = BadPort
  BY <1>2 DEF Request
<1>4. \/ server # None /\ wrote' = server /\ awaits' = "response" /\ UNCHANGED <<https, server, reopened>>
      \/ server = None /\ awaits' = "aborted" /\ UNCHANGED <<https, server, wrote, reopened>>
      \/ server = None /\ awaits' = "unserved" /\ https' = (https \/ r.connect) /\ UNCHANGED <<server, wrote, reopened>>
  BY <1>2, <1>3, Zenon DEF on_client_message
<1>5. CASE server # None /\ wrote' = server /\ awaits' = "response" /\ UNCHANGED <<https, server, reopened>>
  <2>1. RouteTyped' /\ Fresh' /\ Flags' /\ Certified'
    BY <1>1, <1>5 DEF RouteInv, RouteTyped, Fresh, Flags, Certified, Served
  <2>2. Leads'
    BY <1>1, <1>5 DEF RouteInv, Leads, Served
  <2> QED
    BY <2>1, <2>2 DEF RouteInv
<1>6. CASE server = None /\ awaits' = "aborted" /\ UNCHANGED <<https, server, wrote, reopened>>
  <2>1. RouteTyped' /\ Fresh'
    BY <1>1, <1>6 DEF RouteInv, RouteTyped, Fresh
  <2>2. Flags' /\ Leads' /\ Certified'
    BY <1>1, <1>6 DEF RouteInv, Flags, Leads, Certified, Served
  <2> QED
    BY <2>1, <2>2 DEF RouteInv
<1>7. CASE server = None /\ awaits' = "unserved" /\ https' = (https \/ r.connect) /\ UNCHANGED <<server, wrote, reopened>>
  <2>1. https' \in BOOLEAN
    BY <1>7, Zenon
  <2>2. RouteTyped'
    BY <1>1, <1>7, <2>1, Zenon DEF RouteInv, RouteTyped
  <2>3. Fresh' /\ Flags'
    BY <1>1, <1>7, Zenon DEF RouteInv, Fresh, Flags, Served
  <2>4. Leads' /\ Certified'
    BY <1>1, <1>7 DEF RouteInv, Leads, Certified, Served
  <2> QED
    BY <2>2, <2>3, <2>4 DEF RouteInv
<1> QED
  BY <1>4, <1>5, <1>6, <1>7

LEMMA Handshakes ==
  ASSUME RouteInv, Handshake
  PROVE  RouteInv'
<1>1. awaits = "reply" /\ awaits' = "idle" /\ certificate' = server.host /\ ssl_setup' = TRUE
  BY DEF Handshake
<1>2. UNCHANGED <<https, server, origin, wrote, requests, strayed, reopened>>
  BY DEF Handshake
<1>3. origin # NoOrigin /\ origin.tls /\ https /\ server = Reached(origin, reopened) /\ ~strayed
  BY <1>1 DEF RouteInv, Fresh, Flags, Leads, Served
<1>4. RouteTyped'
  BY <1>1, <1>2, Zenon DEF RouteInv, RouteTyped
<1>5. Fresh' /\ Flags'
  BY <1>1, <1>2, <1>3 DEF Fresh, Flags, Served
<1>6. Leads'
  BY <1>1, <1>2, <1>3 DEF Leads
<1>7. Certified'
  BY <1>1, <1>2, <1>3 DEF Certified, Reached
<1> QED
  BY <1>4, <1>5, <1>6, <1>7 DEF RouteInv

\* The end of a response, and the end of a server connection that is kept.
LEMMA Closes ==
  ASSUME RouteInv, Respond \/ ServerIdles
  PROVE  RouteInv'
<1>1. /\ awaits \in {"idle", "response"} /\ awaits' = "idle" /\ server' \in {server, None}
      /\ UNCHANGED <<https, ssl_setup, certificate, origin, wrote, requests, strayed, reopened>>
  BY DEF Respond, ServerIdles
<1>2. RouteTyped' /\ Certified'
  BY <1>1 DEF RouteInv, RouteTyped, Certified
<1>3. Fresh'
  BY <1>1 DEF RouteInv, Fresh
<1>4. Flags'
  BY <1>1 DEF RouteInv, Flags, Served
<1>5. Leads'
  BY <1>1 DEF RouteInv, Leads, Served
<1> QED
  BY <1>2, <1>3, <1>4, <1>5 DEF RouteInv

LEMMA RouteStep ==
  ASSUME RouteInv, RoutingNext
  PROVE  RouteInv'
  BY RequestsFor, RequestsMalformed, Handshakes, Closes DEF RoutingNext

LEMMA RouteStutters == RouteInv /\ UNCHANGED route => RouteInv'
  BY DEF route, RouteInv, RouteTyped, Fresh, Flags, Leads, Certified, Served

-----------------------------------------------------------------------------
(* The composition.                                                         *)

LEMMA SessionStep ==
  ASSUME ServerInv, FirstSession
  PROVE  ServerInv'
<1>1. phase = "running" /\ (RequestThrows \/ RequestAborts \/ RequestServed)
  BY DEF FirstSession
<1>2. CASE RequestThrows
  BY <1>2, SessionThrows DEF RequestThrows
<1>3. CASE RequestAborts
  BY <1>1, <1>3, Ends DEF RequestAborts
<1>4. CASE RequestServed
  BY <1>4, ServerStutters DEF RequestServed
<1> QED
  BY <1>1, <1>2, <1>3, <1>4

LEMMA ServerInvariant == ProxySpec => []ServerInv
<1>1. ProxyInit => ServerInv
  BY ServerInitially DEF ProxyInit
<1>2. ServerInv /\ [ProxyNext]_<<vars, route>> => ServerInv'
  <2> SUFFICES ASSUME ServerInv, [ProxyNext]_<<vars, route>> PROVE ServerInv'
    OBVIOUS
  <2>1. CASE Next
    BY <2>1, ServerStep
  <2>2. CASE FirstSession
    BY <2>2, SessionStep
  <2>3. CASE UNCHANGED <<vars, route>>
    BY <2>3, ServerStutters
  <2> QED
    BY <2>1, <2>2, <2>3 DEF ProxyNext
<1> QED
  BY <1>1, <1>2, PTL DEF ProxySpec

LEMMA RouteInvariant == ProxySpec => []RouteInv
<1>1. ProxyInit => RouteInv
  BY RouteInitially DEF ProxyInit
<1>2. RouteInv /\ [ProxyNext]_<<vars, route>> => RouteInv'
  <2> SUFFICES ASSUME RouteInv, [ProxyNext]_<<vars, route>> PROVE RouteInv'
    OBVIOUS
  <2>1. CASE UNCHANGED route
    BY <2>1, RouteStutters
  <2>2. CASE FirstSession
    BY <2>2, RouteStep DEF FirstSession
  <2> QED
    BY <2>1, <2>2 DEF ProxyNext
<1> QED
  BY <1>1, <1>2, PTL DEF ProxySpec

\* No connection is managed that no client was accepted on, nor one that the
\* next client is to be accepted on, whatever fails or throws and however often
\* main() calls start() again.
THEOREM ManagedAreAccepted == ProxySpec => []ManagedAccepted
<1>1. ServerInv => ManagedAccepted
  BY DEF ServerInv, Filled, ManagedAccepted
<1> QED
  BY <1>1, ServerInvariant, PTL

\* Until a session throws, the accept loop has at most one accept pending, and
\* that is for current_connection_.
THEOREM AcceptTargets == ProxySpec => []AcceptTargetHeld
<1>1. ServerInv => AcceptTargetHeld
  <2> SUFFICES ASSUME ServerInv, "session" \notin happened
               PROVE  Len(accepts) <= 1 /\ \A i \in DOMAIN accepts : accepts[i] = current
    BY DEF AcceptTargetHeld
  <2>1. CASE accepts = << >>
    BY <2>1
  <2>2. CASE accepts # << >>
    <3>1. Len(accepts) = 1 /\ accepts[1] = current
      BY <2>2 DEF ServerInv, OneAccept
    <3>2. DOMAIN accepts = 1..1
      BY <3>1 DEF ServerInv, Typed
    <3> QED
      BY <3>1, <3>2
  <2> QED
    BY <2>1, <2>2
<1> QED
  BY <1>1, ServerInvariant, PTL

\* Until it is signalled or an accept fails, the running proxy waits for the next
\* client or is about to.
THEOREM GoesOnAccepting == ProxySpec => []KeepsAccepting
<1>1. ServerInv => KeepsAccepting
  BY DEF ServerInv
<1> QED
  BY <1>1, ServerInvariant, PTL

\* Where every request of a client that keeps to one origin is written, for all
\* origins and over any number of server connections: to its host and port, with
\* TLS as it asked, and to port 80 if the connection to a TLS origin on 443 was
\* opened again.
THEOREM RequestsRouted == ProxySpec => []RightServer
<1>1. RouteInv => RightServer
  <2> SUFFICES ASSUME RouteInv, awaits = "response", ~strayed
               PROVE  wrote = Reached(origin, reopened) /\ https = origin.tls /\ ssl_setup = origin.tls
    BY DEF RightServer, Reached
  <2>1. origin # NoOrigin /\ origin \in Origins
    BY DEF RouteInv, Fresh, RouteTyped
  <2>2. wrote = Reached(origin, reopened)
    BY DEF RouteInv, Leads
  <2>3. (https <=> origin.tls) /\ (ssl_setup <=> origin.tls)
    BY <2>1 DEF RouteInv, Flags, Served
  <2>4. https \in BOOLEAN /\ ssl_setup \in BOOLEAN /\ origin.tls \in BOOLEAN
    BY <2>1, OriginTyped DEF RouteInv, RouteTyped
  <2> QED
    BY <2>2, <2>3, <2>4, Zenon
<1> QED
  BY <1>1, RouteInvariant, PTL

\* The certificate a client is shown is for the host of its CONNECT, whatever
\* its origins are.
THEOREM CertificatesForHost == ProxySpec => []CertificateForHost
<1>1. RouteInv => CertificateForHost
  BY DEF RouteInv, Certified, CertificateForHost
<1> QED
  BY <1>1, RouteInvariant, PTL
=============================================================================
