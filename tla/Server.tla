------------------------------- MODULE Server -------------------------------
(***************************************************************************)
(* main.cpp, server.cpp and config.hpp: start up, the accept loop on the   *)
(* connection held in current_connection_, the signal handler, and the     *)
(* loop of main() that calls start() again after an exception.  A session  *)
(* is here a client connection in its manager, which ends or throws.       *)
(***************************************************************************)
EXTENDS Naturals, Sequences

CONSTANTS ConfPort,        \* basic.port of xproxy.conf, 0 if it has no usable one
          Failures,        \* what may fail
          MaxConnections,  \* bound: connections created while clients connect
          MaxThrows        \* bound: exceptions of sessions and endpoints

ASSUME ServerAssumption ==
  /\ ConfPort \in 0..65535
  /\ Failures \subseteq {"config", "certificates", "bind", "accept", "endpoint", "session"}
  /\ MaxConnections \in Nat /\ MaxThrows \in Nat

VARIABLES phase,        \* what main() is doing
          port,         \* port_
          acceptor,     \* the acceptor is open
          waiting,      \* async_wait for a signal is pending
          created,      \* connections created so far; a connection is its number
          current,      \* current_connection_
          accepts,      \* the connections async_accept is to fill, in order
          ready,        \* handlers that are ready to run
          connected,    \* the connections a client has been accepted on
          managed,      \* client_conn_mgr_
          throws,       \* exceptions so far
          happened      \* of the failures, those that matter to the properties

vars == <<phase, port, acceptor, waiting, created, current, accepts, ready, connected, managed, throws, happened>>

DEFAULT_SERVER_PORT == 7077

Accepted(c, result) == [kind |-> "accept", conn |-> c, result |-> result]
Signal == [kind |-> "signal", conn |-> 0, result |-> "ok"]
IsReady(kind) == phase = "running" /\ ready # << >> /\ Head(ready).kind = kind

Init ==
  /\ phase = "init" /\ port = 0 /\ acceptor = FALSE /\ waiting = FALSE
  /\ created = 0 /\ current = 0 /\ accepts = << >> /\ ready = << >>
  /\ connected = {} /\ managed = {} /\ throws = 0 /\ happened = {}

-----------------------------------------------------------------------------
\* load_config or the certificate manager fails: main() returns -1.  The
\* acceptor cannot be bound: nothing catches what init() throws.
init_fails ==
  /\ phase = "init"
  /\ \/ Failures \cap {"config", "certificates"} # {} /\ phase' = "exited" /\ UNCHANGED waiting
     \/ "bind" \in Failures /\ phase' = "terminated" /\ waiting' = TRUE
  /\ UNCHANGED <<port, acceptor, created, current, accepts, ready, connected, managed, throws, happened>>

\* get_config("basic.port", port_), or the default.
configured_port == IF ConfPort # 0 THEN ConfPort ELSE DEFAULT_SERVER_PORT

\* init(): the signal handler waits and the acceptor listens.
init ==
  /\ phase = "init"
  /\ phase' = "start"
  /\ port' = configured_port
  /\ waiting' = TRUE
  /\ acceptor' = TRUE
  /\ UNCHANGED <<created, current, accepts, ready, connected, managed, throws, happened>>

\* A new connection takes the place of the current one, which is destroyed if
\* nothing else holds it, and is to be filled by the next accept.  An
\* async_accept on a closed acceptor completes with an error.
start_accept(handlers) ==
  /\ created' = created + 1
  /\ current' = created + 1
  /\ IF acceptor THEN accepts' = Append(accepts, created + 1) /\ ready' = handlers
     ELSE ready' = Append(handlers, Accepted(created + 1, "error")) /\ UNCHANGED accepts

\* start(), called first and after every exception.
start ==
  /\ phase \in {"start", "caught"}
  /\ phase' = "running"
  /\ start_accept(ready)
  /\ UNCHANGED <<port, acceptor, waiting, connected, managed, throws, happened>>

\* A client connects.  Its socket is stored in the connection the oldest
\* async_accept was given, whether that still exists or not.
client_connects ==
  /\ phase = "running" /\ accepts # << >> /\ created < MaxConnections
  /\ connected' = connected \cup {Head(accepts)}
  /\ ready' = Append(ready, Accepted(Head(accepts), "ok"))
  /\ accepts' = Tail(accepts)
  /\ UNCHANGED <<phase, port, acceptor, waiting, created, current, managed, throws, happened>>

accept_fails ==
  /\ "accept" \in Failures /\ phase = "running" /\ accepts # << >>
  /\ ready' = Append(ready, Accepted(Head(accepts), "error"))
  /\ accepts' = Tail(accepts)
  /\ happened' = happened \cup {"accept"}
  /\ UNCHANGED <<phase, port, acceptor, waiting, created, current, connected, managed, throws>>

\* Mutants of on_accept: the next client is accepted on the same connection;
\* there is no next client.
on_accept_reuses ==
  /\ IsReady("accept") /\ Head(ready).result = "ok" /\ current \in connected
  /\ managed' = managed \cup {current}
  /\ accepts' = Append(accepts, current) /\ ready' = Tail(ready)
  /\ UNCHANGED <<phase, port, acceptor, waiting, created, current, connected, throws, happened>>
on_accept_once ==
  /\ IsReady("accept") /\ Head(ready).result = "ok" /\ current \in connected
  /\ managed' = managed \cup {current}
  /\ ready' = Tail(ready)
  /\ UNCHANGED <<phase, port, acceptor, waiting, created, current, accepts, connected, throws, happened>>

\* The accept handler: it manages and starts the current connection, whichever
\* was accepted.
on_accept ==
  /\ IsReady("accept") /\ Head(ready).result = "ok" /\ current \in connected
  /\ managed' = managed \cup {current}
  /\ start_accept(Tail(ready))
  /\ UNCHANGED <<phase, port, acceptor, waiting, connected, throws, happened>>

\* Mutant of on_accept_throws: the next accept is started before the endpoint
\* is asked for.
on_accept_throws_late ==
  /\ IsReady("accept") /\ Head(ready).result = "ok"
  /\ \/ current \notin connected /\ UNCHANGED throws
     \/ "endpoint" \in Failures /\ throws < MaxThrows /\ throws' = throws + 1
  /\ phase' = "caught"
  /\ start_accept(Tail(ready))
  /\ UNCHANGED <<port, acceptor, waiting, connected, managed, happened>>

\* remote_endpoint throws if the socket is not connected, or no longer.
on_accept_throws ==
  /\ IsReady("accept") /\ Head(ready).result = "ok"
  /\ \/ current \notin connected /\ UNCHANGED throws
     \/ "endpoint" \in Failures /\ throws < MaxThrows /\ throws' = throws + 1
  /\ phase' = "caught"
  /\ ready' = Tail(ready)
  /\ UNCHANGED <<port, acceptor, waiting, created, current, accepts, connected, managed, happened>>

\* Whatever the error, the handler returns and accepts no more.
on_accept_error ==
  /\ IsReady("accept") /\ Head(ready).result # "ok"
  /\ ready' = Tail(ready)
  /\ UNCHANGED <<phase, port, acceptor, waiting, created, current, accepts, connected, managed, throws, happened>>

\* The session of a managed connection ends, or a handler of it throws.
session_ends ==
  /\ phase = "running"
  /\ \E c \in managed : managed' = managed \ {c}
  /\ UNCHANGED <<phase, port, acceptor, waiting, created, current, accepts, ready, connected, throws, happened>>

session_throws ==
  /\ "session" \in Failures /\ phase = "running" /\ managed # {}
  /\ throws < MaxThrows /\ throws' = throws + 1
  /\ happened' = happened \cup {"session"}
  /\ phase' = "caught"
  /\ UNCHANGED <<port, acceptor, waiting, created, current, accepts, ready, connected, managed>>

\* SIGINT or SIGTERM; the handler is not installed again, so later ones are
\* ignored.
signal ==
  /\ phase = "running" /\ waiting
  /\ waiting' = FALSE
  /\ ready' = Append(ready, Signal)
  /\ UNCHANGED <<phase, port, acceptor, created, current, accepts, connected, managed, throws, happened>>

\* Mutant of on_signal: the acceptor stays open.
on_signal_open ==
  /\ IsReady("signal")
  /\ managed' = {}
  /\ ready' = Tail(ready)
  /\ UNCHANGED <<phase, port, acceptor, waiting, created, current, accepts, connected, throws, happened>>

\* stop_all, and close() of the acceptor, which aborts what is pending.
on_signal ==
  /\ IsReady("signal")
  /\ managed' = {}
  /\ acceptor' = FALSE
  /\ ready' = Tail(ready) \o [i \in DOMAIN accepts |-> Accepted(accepts[i], "aborted")]
  /\ accepts' = << >>
  /\ UNCHANGED <<phase, port, waiting, created, current, connected, throws, happened>>

\* run() returns when there is nothing left to wait for.
run_returns ==
  /\ phase = "running"
  /\ ready = << >> /\ accepts = << >> /\ managed = {} /\ ~waiting
  /\ phase' = "stopped"
  /\ UNCHANGED <<port, acceptor, waiting, created, current, accepts, ready, connected, managed, throws, happened>>

Over == phase \in {"exited", "terminated", "stopped"} /\ UNCHANGED vars

Handler == on_accept \/ on_accept_throws \/ on_accept_error \/ on_signal
Next ==
  \/ init_fails \/ init \/ start \/ Handler \/ run_returns
  \/ client_connects \/ accept_fails \/ session_ends \/ session_throws \/ signal \/ Over

\* The process runs, and a session ends when its peers or its timers end it.
Fairness == WF_vars(init \/ start) /\ WF_vars(Handler) /\ WF_vars(session_ends) /\ WF_vars(run_returns)
Spec == Init /\ [][Next]_vars /\ Fairness

-----------------------------------------------------------------------------
TypeOK ==
  /\ phase \in {"init", "start", "running", "caught", "exited", "terminated", "stopped"}
  /\ port \in 0..65535
  /\ acceptor \in BOOLEAN /\ waiting \in BOOLEAN
  /\ created \in Nat /\ current \in 0..created
  /\ accepts \in Seq(1..created)
  /\ ready \in Seq([kind : {"accept", "signal"}, conn : 0..created, result : {"ok", "error", "aborted"}])
  /\ connected \subseteq 1..created /\ managed \subseteq 1..created
  /\ throws \in Nat /\ happened \subseteq {"accept", "session"}

\* The connection an accept is to fill is the current one, which exists and
\* which the handler will look at, and there is one such accept: whatever
\* fails, except that a session throws while an accept is pending.
AcceptTargetHeld ==
  phase = "running" /\ "session" \notin happened =>
    Len(accepts) <= 1 /\ \A i \in DOMAIN accepts : accepts[i] = current

\* "xProxy exception: ", and main() goes on with start(): the clients that
\* connect from then on are accepted into a connection that exists.
AcceptsIntoCurrent == phase = "running" => \A i \in DOMAIN accepts : accepts[i] = current

\* A managed connection is one a client has been accepted on, and never the
\* one that the next client is to be accepted on, whatever fails.
ManagedAccepted == \A c \in managed : c \in connected /\ \A i \in DOMAIN accepts : accepts[i] # c

\* Until it is signalled the running proxy waits for the next client, or is
\* about to, unless an accept has failed.
KeepsAccepting ==
  phase = "running" /\ waiting /\ "accept" \notin happened =>
    accepts # << >> \/ \E i \in DOMAIN ready : ready[i].kind = "accept" /\ ready[i].result = "ok"

\* A signalled proxy stops, with no session left, whatever fails, or has been
\* ended by a failed assertion.
SignalStops ==
  phase = "running" /\ ~waiting ~> (phase = "stopped" /\ managed = {}) \/ phase = "terminated"
=============================================================================
