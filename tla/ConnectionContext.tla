------------------------- MODULE ConnectionContext -------------------------
(***************************************************************************)
(* connection_context.cpp: the mediator that pairs a client connection     *)
(* with its current server connection.  It holds both by weak_ptr, so each *)
(* use starts with lock(), modelled by Alive in the state the handler      *)
(* found.  What a request says (its method, whether its destination can be *)
(* parsed, whether a message allows keep-alive) is a parameter, chosen by  *)
(* the specification.                                                      *)
(***************************************************************************)
EXTENDS ClientConnection, ServerConnection

\* connection_context's constructor.
NewContext == [https |-> FALSE, ssl_setup |-> FALSE, exchanged |-> FALSE, server |-> 0]

\* Mutant of on_client_message: a request never reuses the server connection.
on_client_message_reopens(m, connect, destination) ==
  LET s == m.ctx.server + 1
      opened == add([m EXCEPT !.ctx.server = s], s)
  IN  IF s \in Servers THEN write(opened, s, m.conn[Client].message, TRUE) ELSE m

\* connection_context::on_client_message.  `destination' is what
\* parse_destination makes of the request: "ok", "no_host" (no Host header in
\* a request other than CONNECT) or "bad_port" (lexical_cast throws: the
\* exception leaves run() and main() calls it again, so only the rest of this
\* handler is lost).  The client that delivered the message is alive, so
\* assert(client_conn) cannot fail here.
on_client_message(m, connect, destination) ==
  LET request == m.conn[Client].message
      https == m.ctx.https \/ connect
      s == m.ctx.server + 1
      parsed == [m EXCEPT !.ctx.https = https]
      opened == add([parsed EXCEPT !.ctx.server = s], s)
  IN  IF ~Completed(m, Client) THEN Abort(m, "request_assert")
      ELSE IF LockServer THEN write(m, m.ctx.server, request, TRUE)
      ELSE IF destination = "no_host" /\ ~connect THEN Abort(m, "host_assert")
      ELSE IF destination = "bad_port" THEN parsed
      ELSE IF https /\ ~m.ctx.ssl_setup THEN write(opened, Client, << SslReply(request[1][1]) >>, TRUE)
      ELSE write(opened, s, request, TRUE)

\* connection_context::on_server_message
on_server_message(m, s, keep_alive) ==
  LET response == m.conn[s].message
      completed == Completed(m, s)
      server == m.ctx.server
      written == write(m, Client, response, completed)
      exchanged == [written EXCEPT !.ctx.exchanged = TRUE]
  IN  IF ~Alive(Client) THEN Abort(m, "client_assert")
      ELSE IF ~LockServer THEN Abort(m, "server_assert")
      ELSE IF ~completed THEN read(written, server)
      ELSE IF keep_alive THEN server_reset(exchanged, server)
      ELSE stop(exchanged, server, FALSE)

\* The WRITE case of connection_context::on_event(event, client_connection&).
\* http_decoder::keep_alive is false before the headers of a request.
on_client_written(m, keep_alive, certified) ==
  IF m.ctx.https /\ ~m.ctx.ssl_setup
  THEN IF LockServer THEN client_handshake(m, certified) ELSE Abort(m, "server_assert")
  ELSE IF ~m.ctx.exchanged THEN m
  ELSE IF keep_alive /\ m.conn[Client].message # << >>
       THEN [client_reset(m) EXCEPT !.ctx.exchanged = FALSE]
  ELSE stop(m, Client, FALSE)

\* Mutant of on_client_secured: ssl_setup_ is not set.
on_client_secured_unset(m) == read(m, Client)

\* The HANDSHAKE case.
on_client_secured(m) == read([m EXCEPT !.ctx.ssl_setup = TRUE], Client)

\* Mutant of on_server_connected: https_ is not looked at.
on_server_connected_clear(m, s) == write_buffered(m, s)

\* The CONNECT and HANDSHAKE cases of on_event(event, server_connection&).
on_server_connected(m, s) ==
  IF m.ctx.https THEN server_handshake(m, s) ELSE write_buffered(m, s)
on_server_secured(m, s) == write_buffered(m, s)

\* Mutant of on_stop: the server connection is left running.
on_stop_one_way(m, c) ==
  IF c # Client /\ Alive(Client) THEN stop(m, Client, FALSE) ELSE m

\* connection_context::on_stop
on_stop(m, c) ==
  IF c = Client
  THEN IF LockServer THEN stop(m, m.ctx.server, FALSE) ELSE m
  ELSE IF Alive(Client) THEN stop(m, Client, FALSE) ELSE m
=============================================================================
