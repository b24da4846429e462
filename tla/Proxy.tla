------------------------------- MODULE Proxy -------------------------------
(***************************************************************************)
(* The proxy: the process of Server, in which the session of the first     *)
(* client is the one of Routing.  What its requests make the context do    *)
(* reaches the process: an exception leaves run(), a failed assertion ends *)
(* everything.                                                             *)
(***************************************************************************)
EXTENDS Server, Routing

First == 1

ProxyInit == Init /\ RoutingInit

\* parse_destination throws, and main() catches what leaves run().
RequestThrows == awaits' = "unserved" /\ session_throws

\* assert(found) fails.
RequestAborts ==
  /\ awaits' = "aborted" /\ phase' = "terminated"
  /\ UNCHANGED <<port, acceptor, waiting, created, current, accepts, ready, connected, managed, throws, happened>>

\* Any other step of the session is its own affair.
RequestServed == awaits' \notin {"unserved", "aborted"} /\ UNCHANGED vars

\* A step of the session of the first client, while it lasts.
FirstSession ==
  /\ phase = "running" /\ First \in managed
  /\ RoutingNext
  /\ RequestThrows \/ RequestAborts \/ RequestServed

ProxyNext == (Next /\ UNCHANGED route) \/ FirstSession

ProxySpec == ProxyInit /\ [][ProxyNext]_<<vars, route>> /\ Fairness
=============================================================================
