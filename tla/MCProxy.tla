------------------------------ MODULE MCProxy ------------------------------
(* Origins for Proxy.                                                       *)
EXTENDS Proxy

Origin(h, p, t) == [host |-> h, port |-> p, tls |-> t]

\* Clear origins on the default port and on another, and TLS origins on the
\* default port, and on one that a client names.
SomeOrigins ==
  {Origin("g", 80, FALSE), Origin("h", 80, FALSE), Origin("h", 8080, FALSE),
   Origin("g", 443, TRUE), Origin("h", 8443, TRUE)}

Anything == {"config", "certificates", "bind", "accept", "endpoint", "session"}
=============================================================================
