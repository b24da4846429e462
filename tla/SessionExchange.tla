-------------------------- MODULE SessionExchange --------------------------
(***************************************************************************)
(* A session implements Exchange: the mapping from what its peers have     *)
(* sent and received to the progress of the requests.                      *)
(***************************************************************************)
EXTENDS Session, FiniteSetsExt

Received(c) == {wire[c][i] : i \in 1..Len(wire[c])}

\* The latest message of which all n units have been sent.
SentInFull(c, n) == IF last[c][2] = n THEN last[c][1] ELSE last[c][1] - 1

Asks == SentInFull(Client, ReqLen)
Forwards == Max({0} \cup {u[1] : u \in {v \in UNION {Received(s) : s \in Servers} : v[2] = ReqLen}})
Answers == Max({SentInFull(s, RespLen) : s \in Servers})
Deliveries == Max({0} \cup {u[1] : u \in {v \in Received(Client) : v[2] \in {0, RespLen}}})

X == INSTANCE Exchange WITH asked <- Asks, forwarded <- Forwards,
                            answered <- Answers, delivered <- Deliveries

\* Whatever fails, however the handlers of the connections interleave and
\* whichever server connections are opened and closed, requests and answers
\* take their turns as Exchange says.
OneExchangeAtATime == X!Spec
=============================================================================
