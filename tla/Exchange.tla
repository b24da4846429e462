------------------------------ MODULE Exchange ------------------------------
(***************************************************************************)
(* What a session promises its peers: requests are numbered as they come,  *)
(* one is in progress at a time, it is forwarded to a server once, and its *)
(* answer, or the proxy's own answer to a CONNECT, is delivered once and   *)
(* before the client's next request is taken.                              *)
(***************************************************************************)
EXTENDS Naturals

VARIABLES asked,      \* requests the client has sent in full
          forwarded,  \* the latest one a server has received in full
          answered,   \* the latest one a server has answered in full
          delivered   \* the latest one whose answer the client has in full

progress == <<asked, forwarded, answered, delivered>>

Init == asked = 0 /\ forwarded = 0 /\ answered = 0 /\ delivered = 0

Ask == /\ delivered = asked
       /\ asked' = asked + 1
       /\ UNCHANGED <<forwarded, answered, delivered>>

Forward == /\ forwarded < asked /\ delivered < asked
           /\ forwarded' = asked
           /\ UNCHANGED <<asked, answered, delivered>>

Answer == /\ answered < forwarded /\ forwarded = asked
          /\ answered' = forwarded
          /\ UNCHANGED <<asked, forwarded, delivered>>

\* The response of the server, or the reply to a CONNECT that has not been
\* forwarded.
Deliver == /\ delivered < asked
           /\ answered = asked \/ forwarded < asked
           /\ delivered' = asked
           /\ UNCHANGED <<asked, forwarded, answered>>

Next == Ask \/ Forward \/ Answer \/ Deliver
Spec == Init /\ [][Next]_progress
=============================================================================
