------------------------------ MODULE Routing ------------------------------
(***************************************************************************)
(* Where connection_context sends the requests of one client: the part of  *)
(* on_client_message and parse_destination that Session leaves out.  An    *)
(* origin is a host, a port and whether the client wants TLS to it; the    *)
(* client asks for clear origins with a Host header, and for the others    *)
(* with CONNECT and then, in the tunnel, with a Host header.               *)
(***************************************************************************)
EXTENDS Naturals

CONSTANTS Origins,    \* the origins the client asks for
          Malformed,  \* its requests may name no host, or a port that does not convert
          MaxRequests \* bound: requests of the client

MaxPort == 65535
NoPort == 0
BadPort == MaxPort + 1

ASSUME RoutingAssumption ==
  /\ \A o \in Origins : o.port \in 1..MaxPort /\ o.tls \in BOOLEAN
  /\ Malformed \in BOOLEAN /\ MaxRequests \in Nat

VARIABLES https, ssl_setup,  \* members of connection_context
          server,            \* host and port of server_conn_, None if it has expired
          certificate,       \* the host the client's TLS certificate was made for
          awaits,            \* what the client waits for
          origin,            \* the origin of its latest request
          wrote,             \* the server its latest request was written to
          requests,          \* requests so far
          strayed,           \* it has asked for a second origin
          reopened           \* the server connection was opened from within the tunnel

route == <<https, ssl_setup, server, certificate, awaits, origin, wrote, requests, strayed, reopened>>

None == [host |-> "none", port |-> NoPort]
NoOrigin == [host |-> "none", port |-> NoPort, tls |-> FALSE]

\* What a request names, in its URI or its Host header.
Request(connect, host, port) == [connect |-> connect, host |-> host, port |-> port]

\* Clients leave out the port that is the default of the scheme.
NamedPort(o) == IF o.port = (IF o.tls THEN 443 ELSE 80) THEN NoPort ELSE o.port

RoutingInit ==
  /\ https = FALSE /\ ssl_setup = FALSE /\ server = None /\ certificate = "none"
  /\ awaits = "idle" /\ origin = NoOrigin /\ wrote = None /\ requests = 0 /\ strayed = FALSE
  /\ reopened = FALSE

-----------------------------------------------------------------------------
\* Mutant of parse_destination: the port that is named is not used.
parse_destination_default(r) ==
  [host |-> r.host, port |-> IF r.port = BadPort THEN BadPort ELSE IF r.connect THEN 443 ELSE 80]

\* connection_context::parse_destination, without its assignment of https.
parse_destination(r) ==
  [host |-> r.host, port |-> IF r.port # NoPort THEN r.port ELSE IF r.connect THEN 443 ELSE 80]

\* connection_context::on_client_message: to the server connection there is,
\* else to a new one; a client that is not served waits for its timer.
on_client_message(r) ==
  \/ /\ server # None
     /\ wrote' = server /\ awaits' = "response"
     /\ UNCHANGED <<https, server, reopened>>
  \/ /\ server = None /\ r.host = "none"       \* assert(found)
     /\ awaits' = "aborted"
     /\ UNCHANGED <<https, server, wrote, reopened>>
  \/ /\ server = None /\ r.port = BadPort      \* lexical_cast throws
     /\ https' = (https \/ r.connect)
     /\ awaits' = "unserved"
     /\ UNCHANGED <<server, wrote, reopened>>
  \/ /\ server = None /\ r.host # "none" /\ r.port # BadPort
     /\ server' = parse_destination(r)
     /\ https' = (https \/ r.connect)
     /\ reopened' = ssl_setup
     /\ IF https' /\ ~ssl_setup THEN awaits' = "reply" /\ UNCHANGED wrote
        ELSE wrote' = server' /\ awaits' = "response"

\* The client asks for an origin: for the first time, with CONNECT if it wants
\* TLS; again, in the tunnel or not; or for another clear origin.
RequestFor(o) ==
  /\ awaits = "idle" /\ requests < MaxRequests
  /\ origin \in {NoOrigin, o} \/ (~o.tls /\ ~origin.tls)
  /\ origin' = o
  /\ strayed' = (strayed \/ origin \notin {NoOrigin, o})
  /\ requests' = requests + 1
  /\ on_client_message(Request(o.tls /\ origin = NoOrigin, o.host, NamedPort(o)))
  /\ UNCHANGED <<ssl_setup, certificate>>

RequestMalformed ==
  /\ Malformed /\ awaits = "idle" /\ requests < MaxRequests
  /\ requests' = requests + 1
  /\ \E r \in {Request(FALSE, "none", NoPort), Request(FALSE, "h", BadPort),
               Request(origin = NoOrigin, "h", BadPort)} : on_client_message(r)
  /\ UNCHANGED <<ssl_setup, certificate, origin, strayed>>

\* Mutant of Handshake: the certificate is made for the host of the client.
Handshake_client ==
  /\ awaits = "reply" /\ server # None
  /\ certificate' = "client"
  /\ ssl_setup' = TRUE
  /\ awaits' = "idle"
  /\ UNCHANGED <<https, server, origin, wrote, requests, strayed, reopened>>

\* The SSL reply has been written: the WRITE event, the handshake with the
\* certificate of the server connection's host, and the HANDSHAKE event.
Handshake ==
  /\ awaits = "reply" /\ server # None
  /\ certificate' = server.host
  /\ ssl_setup' = TRUE
  /\ awaits' = "idle"
  /\ UNCHANGED <<https, server, origin, wrote, requests, strayed, reopened>>

\* The response is complete and the server connection is kept, or not.
Respond ==
  /\ awaits = "response"
  /\ awaits' = "idle"
  /\ server' \in {server, None}
  /\ UNCHANGED <<https, ssl_setup, certificate, origin, wrote, requests, strayed, reopened>>

\* The idle timer of a server connection that is kept expires.
ServerIdles ==
  /\ awaits = "idle" /\ server # None /\ wrote # None
  /\ server' = None
  /\ UNCHANGED <<https, ssl_setup, certificate, awaits, origin, wrote, requests, strayed, reopened>>

RoutingNext ==
  \/ \E o \in Origins : RequestFor(o)
  \/ RequestMalformed \/ Handshake \/ Respond \/ ServerIdles

-----------------------------------------------------------------------------
RoutingTypeOK ==
  /\ https \in BOOLEAN /\ ssl_setup \in BOOLEAN /\ strayed \in BOOLEAN
  /\ reopened \in BOOLEAN
  /\ awaits \in {"idle", "reply", "response", "unserved", "aborted"}
  /\ origin \in Origins \cup {NoOrigin}
  /\ server.port \in 0..MaxPort /\ wrote.port \in 0..MaxPort /\ requests \in 0..MaxRequests

\* The Host header of a request in the tunnel to 443 names no port, and
\* parse_destination then takes that of the clear scheme.
DefaultPort == 80

\* Where the requests of a client that keeps to one origin are written, in every
\* case: to its host and its port, with TLS exactly if the client has it, over
\* the server connection there is or a new one; but over one that was opened
\* again for a TLS origin on 443, to port 80.  Where a client that has asked for
\* a second origin is led is left out.
RightServer ==
  awaits = "response" /\ ~strayed =>
    /\ wrote = [host |-> origin.host,
                port |-> IF reopened /\ NamedPort(origin) = NoPort THEN DefaultPort ELSE origin.port]
    /\ https = origin.tls /\ ssl_setup = origin.tls

\* The certificate the client is shown was made for the host of its CONNECT.
CertificateForHost == certificate # "none" => certificate = origin.host
=============================================================================
