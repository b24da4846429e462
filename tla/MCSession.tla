----------------------------- MODULE MCSession -----------------------------
(***************************************************************************)
(* Small instances of Session for TLC.  Each configuration chooses how far *)
(* the environment may go wrong; these are its choices.                    *)
(***************************************************************************)
EXTENDS SessionExchange

\* Peers that close, reset and send junk, and a certificate that cannot be made.
AnyFailure == {"eof", "error", "bad", "cert"}
\* Peers that only close or become unreachable.
Disconnects == {"eof", "error"}
NoFailure == {}

AnyDestination == {"ok", "no_host", "bad_port"}
ValidDestination == {"ok"}
=============================================================================
