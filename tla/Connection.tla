----------------------------- MODULE Connection -----------------------------
(***************************************************************************)
(* connection.hpp / connection.cpp, with timer.hpp, the socket_wrapper and *)
(* the connection_manager it calls, and the two overrides its own methods  *)
(* dispatch to (start and on_write of the client and server connections).  *)
(***************************************************************************)
EXTENDS EventLoop

\* The units a connection decodes from its peer, and encodes to it, per
\* message: requests come from the client, responses from a server.
InLen(c) == IF c = Client THEN ReqLen ELSE RespLen
OutLen(c) == IF c = Client THEN RespLen ELSE ReqLen

NewConnection ==
  [connected |-> FALSE,    \* connected_
   stopped   |-> FALSE,    \* stopped_
   writing   |-> FALSE,    \* writing_
   running   |-> FALSE,    \* timer_.running_
   use_ssl   |-> FALSE,    \* socket_->use_ssl_
   message   |-> << >>,    \* message_, as the units decoded so far
   encoded   |-> 0,        \* encoder_: units encoded; OutLen(c) is state END
   out       |-> << >>]    \* buffer_out_

Completed(m, c) == Len(m.conn[c].message) = InLen(c)

-----------------------------------------------------------------------------
\* timer::start.  The handler is the connection's; see on_timer.
timer_start(m, c) ==
  IF m.conn[c].running
  THEN m
  ELSE Begin([m EXCEPT !.conn[c].running = TRUE], "wait", c, << >>)

\* Mutant of cancel_timer: clears running_ at once.
cancel_timer_clears(m, c) ==
  IF m.conn[c].running
  THEN Cancel([m EXCEPT !.conn[c].running = FALSE], "wait", c)
  ELSE m

\* timer::cancel, called under `if (timer_.running())'.  running_ stays set
\* until the aborted handler runs.
cancel_timer(m, c) == IF m.conn[c].running THEN Cancel(m, "wait", c) ELSE m

\* socket_wrapper::close.
close(m, c) ==
  Cancel(Cancel(Cancel(Cancel(m, "read", c), "write", c), "handshake", c), "connect", c)

\* socket_wrapper::switch_to_ssl and async_handshake: as the TLS server, with
\* the certificate forged for the host, or as the client, where none is needed
\* and any certificate of the server will do.
switch_to_ssl(m, c, certified) ==
  IF m.conn[c].use_ssl THEN Abort(m, "ssl_twice")
  ELSE IF ~certified THEN Abort(m, "no_certificate")
  ELSE Begin([m EXCEPT !.conn[c].use_ssl = TRUE], "handshake", c, << >>)

\* connection_manager::add
add(m, c) == [m EXCEPT !.managed = @ \cup {c}]

\* Mutant of erase: the connection stays registered.
erase_forgotten(m, c) == m

\* connection_manager::erase
erase(m, c) == [m EXCEPT !.managed = @ \ {c}]

\* connection::stop
stop(m, c, notify) ==
  LET cancelled == cancel_timer(m, c)
      closed == IF m.conn[c].connected THEN close(cancelled, c) ELSE cancelled
      notified == IF notify THEN Post(closed, Task("on_stop", c)) ELSE closed
  IN  IF m.conn[c].stopped
      THEN m
      ELSE erase([notified EXCEPT !.conn[c].connected = FALSE,
                                  !.conn[c].stopped = TRUE], c)

\* connection::read.  buffer_in_ is not read before the handler runs.
read(m, c) ==
  IF m.conn[c].connected /\ ~m.conn[c].stopped
  THEN Begin(m, "read", c, << >>)
  ELSE Abort(m, "read_assert")

\* client_connection::start and server_connection::start, which connects.
start(m, c) ==
  IF c = Client
  THEN read([m EXCEPT !.conn[c].connected = TRUE], c)
  ELSE Begin([m EXCEPT !.ctx.server = c], "resolve", c, << >>)

\* connection::do_write
do_write(m, c) ==
  LET self == m.conn[c] IN
  IF self.writing \/ self.out = << >> THEN m
  ELSE IF ~self.connected THEN start(m, c)
  ELSE Begin([m EXCEPT !.conn[c].writing = TRUE], "write", c, Head(self.out))

\* connection::write()
write_buffered(m, c) ==
  IF m.conn[c].stopped
  THEN Abort(m, "write_assert")
  ELSE do_write(cancel_timer(m, c), c)

\* Mutant of encoded_after: body_encoded_ -= inc.
encoded_after_subtracts(c, done, msg, completed) ==
  IF completed \/ done = OutLen(c) THEN OutLen(c) ELSE done - (Len(msg) - done)

\* http_encoder: body_encoded_ after encoding msg, or END.
encoded_after(c, done, msg, completed) ==
  IF completed \/ done = OutLen(c) THEN OutLen(c) ELSE Len(msg)

\* connection::write(msg): http_encoder::encode appends to a fresh buffer the
\* units of msg it has not encoded yet, none once it has reached END.
write(m, c, msg, completed) ==
  LET done == m.conn[c].encoded
      buf == IF done = OutLen(c) THEN << >> ELSE SubSeq(msg, done + 1, Len(msg))
      ready == cancel_timer(m, c)
  IN  IF m.conn[c].stopped THEN Abort(m, "write_assert")
      ELSE IF done # OutLen(c) /\ done > Len(msg) THEN Abort(m, "encode_underflow")
      ELSE do_write([ready EXCEPT !.conn[c].encoded = encoded_after(c, done, msg, completed),
                                  !.conn[c].out = IF buf = << >> THEN @ ELSE Append(@, buf)], c)

\* connection::reset, and the codec and message resets that follow it in both
\* client_connection::reset and server_connection::reset.
reset(m, c) ==
  [m EXCEPT !.conn[c].out = << >>,
            !.conn[c].writing = FALSE,
            !.conn[c].encoded = 0,
            !.conn[c].message = << >>]

\* client_connection::on_write() and server_connection::on_write().
on_written(m, c) == IF c = Client THEN Post(m, Task("WRITE", c)) ELSE read(m, c)

\* Mutants of unsent: what was sent stays in the buffer, or a short write
\* counts as a full one, or a buffer sent in full is not removed.
unsent_keeps(out, n) == IF n < Len(Head(out)) THEN out ELSE Tail(out)
unsent_truncates(out, n) == Tail(out)
unsent_repeats(out, n) ==
  IF n < Len(Head(out)) THEN << SubSeq(Head(out), n + 1, Len(Head(out))) >> \o Tail(out)
  ELSE IF Tail(out) # << >> THEN out ELSE << >>

\* What on_write leaves of buffer_out_ when n units of its front were sent.
unsent(out, n) ==
  IF n < Len(Head(out))
  THEN << SubSeq(Head(out), n + 1, Len(Head(out))) >> \o Tail(out)
  ELSE Tail(out)

\* connection::on_write(e, length): the buffers are those the connection has
\* now, whichever buffer the operation was started with.
on_write(m, c, res, data) ==
  LET out == m.conn[c].out
      idle == [m EXCEPT !.conn[c].writing = FALSE]
      rest == [idle EXCEPT !.conn[c].out = unsent(out, Len(data))]
  IN  IF m.conn[c].stopped THEN idle
      ELSE IF res # "ok" THEN stop(idle, c, TRUE)
      ELSE IF out = << >> THEN Abort(m, "end_iterator")
      ELSE IF rest.conn[c].out # << >> THEN do_write(rest, c)
      ELSE on_written(rest, c)

\* The handler timer::start installs: a client that timed out notifies its
\* context, a server connection that was idle for too long does not.
on_timer(m, c, res) ==
  LET fired == [m EXCEPT !.conn[c].running = FALSE] IN
  IF res = "ok" THEN stop(fired, c, c = Client) ELSE fired
=============================================================================
