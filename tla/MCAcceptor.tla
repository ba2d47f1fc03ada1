----------------------------- MODULE MCAcceptor ------------------------------
(* Small instances of Acceptor for TLC. *)
EXTENDS Acceptor

\* A main reactor with each balancer; with SO_REUSEPORT no balancer is asked.
AllOptions ==
  [reusePort : {FALSE}, balancer : Balancers]
    \cup {[reusePort |-> TRUE, balancer |-> "RoundRobin"]}
=============================================================================
