-------------------------- MODULE ClientConnection --------------------------
(***************************************************************************)
(* client_connection.cpp: the connection a browser opened to the proxy.    *)
(* start and on_write() are with the base class, in Connection.            *)
(***************************************************************************)
EXTENDS Connection

\* client_connection::handshake
client_handshake(m, certified) == switch_to_ssl(m, Client, certified)

\* client_connection::reset: wait for the next request, but not for ever.
client_reset(m) == read(timer_start(reset(m, Client), Client), Client)

\* Mutant of client_on_read: it reads on after a complete request.
client_on_read_reads_on(m, res, data) ==
  LET timed == cancel_timer(m, Client)
      decoded == [timed EXCEPT !.conn[Client].message = IF Completed(m, Client) THEN data ELSE @ \o data]
  IN  IF m.conn[Client].stopped THEN m
      ELSE IF res # "ok" THEN stop(m, Client, TRUE)
      ELSE IF ~Completed(decoded, Client) THEN read(decoded, Client)
      ELSE read(timer_start(Post(decoded, Task("READ", Client)), Client), Client)

\* client_connection::on_read.  "bad" is data the decoder does not consume.
client_on_read(m, res, data) ==
  LET timed == cancel_timer(m, Client)
      decoded == [timed EXCEPT !.conn[Client].message = @ \o data]
  IN  IF m.conn[Client].stopped THEN m
      ELSE IF res # "ok" \/ Completed(m, Client) THEN stop(m, Client, TRUE)
      ELSE IF ~Completed(decoded, Client) THEN read(decoded, Client)
      ELSE timer_start(Post(decoded, Task("READ", Client)), Client)

\* client_connection::on_handshake
client_on_handshake(m, res) ==
  IF m.conn[Client].stopped THEN m
  ELSE IF res # "ok" THEN stop(m, Client, TRUE)
  ELSE Post([m EXCEPT !.conn[Client].message = << >>, !.conn[Client].encoded = 0],
            Task("HANDSHAKE", Client))
=============================================================================
