-------------------------- MODULE ServerConnection --------------------------
(***************************************************************************)
(* server_connection.cpp: a connection the proxy opens to an origin server *)
(* on behalf of its client.  start and on_write() are with the base class, *)
(* in Connection; connect() is the resolve operation start begins.         *)
(***************************************************************************)
EXTENDS Connection

\* server_connection::handshake
server_handshake(m, s) == switch_to_ssl(m, s, TRUE)

\* Mutants of server_reset: it also reads, to see the server close; it resets
\* the client in passing.
server_reset_reads(m, s) == read(timer_start(reset(m, s), s), s)
server_reset_both(m, s) == timer_start(reset(reset(m, s), Client), s)

\* server_connection::reset: keep the connection for the next request.  No
\* read is started, so the server closing it meanwhile goes unnoticed.
server_reset(m, s) == timer_start(reset(m, s), s)

\* Mutant of on_resolve: no check of stopped_.
on_resolve_regardless(m, s, res) ==
  IF res # "ok" THEN stop(m, s, TRUE) ELSE Begin(m, "connect", s, << >>)

\* server_connection::on_resolve
on_resolve(m, s, res) ==
  IF m.conn[s].stopped THEN m
  ELSE IF res # "ok" THEN stop(m, s, TRUE)
  ELSE Begin(m, "connect", s, << >>)

\* server_connection::on_connect
on_connect(m, s, res) ==
  IF m.conn[s].stopped THEN m
  ELSE IF res # "ok" THEN stop(m, s, TRUE)
  ELSE Post([m EXCEPT !.conn[s].connected = TRUE], Task("CONNECT", s))

\* server_connection::on_handshake
server_on_handshake(m, s, res) ==
  IF m.conn[s].stopped THEN m
  ELSE IF res # "ok" THEN stop(m, s, TRUE)
  ELSE Post(m, Task("HANDSHAKE", s))

\* Mutants of server_on_read: EOF is handed on as data; EOF is not notified.
server_on_read_passes_eof(m, s, res, data) ==
  IF m.conn[s].stopped THEN m
  ELSE IF res = "error" THEN stop(m, s, TRUE)
  ELSE Post([m EXCEPT !.conn[s].connected = (res # "eof"),
                      !.conn[s].message = @ \o data], Task("READ", s))
server_on_read_silent(m, s, res, data) ==
  IF m.conn[s].stopped THEN m
  ELSE IF res # "ok" THEN stop(m, s, FALSE)
  ELSE Post([cancel_timer(m, s) EXCEPT !.conn[s].message = @ \o data], Task("READ", s))

\* server_connection::on_read.  EOF comes without data; every response is
\* deliverable, so what was decoded is handed to the context at once.
server_on_read(m, s, res, data) ==
  LET timed == cancel_timer(m, s)
      decoded == [timed EXCEPT !.conn[s].message = @ \o data]
  IN  IF m.conn[s].stopped THEN m
      ELSE IF res = "error" THEN stop(m, s, TRUE)
      ELSE IF res = "eof" THEN stop([m EXCEPT !.conn[s].connected = FALSE], s, TRUE)
      ELSE IF Completed(m, s) THEN stop(m, s, TRUE)
      ELSE IF res = "bad" THEN Abort(m, "decode_assert")
      ELSE Post(decoded, Task("READ", s))
=============================================================================
