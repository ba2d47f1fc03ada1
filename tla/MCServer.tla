------------------------------ MODULE MCServer -------------------------------
(* Small instances of Server for TLC. *)
EXTENDS Server

\* Both ways to accept, with and without a ticker; the numbers of the loops
\* matter to the ticker only, and are stable but for the least-connections set.
AllOptions ==
  [reusePort : BOOLEAN, ticker : BOOLEAN, balancer : {"RoundRobin"}]
    \cup {[reusePort |-> FALSE, ticker |-> TRUE, balancer |-> "LeastConnections"]}
=============================================================================
