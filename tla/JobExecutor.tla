----------------------------- MODULE JobExecutor -----------------------------
(***************************************************************************)
(* What an event loop promises to the goroutines that hand it jobs (the    *)
(* asynchronous writes, closes and accepts of gnet): it runs them one by   *)
(* one, in the order in which they were handed over, until it stops.       *)
(* Poller implements it.                                                   *)
(***************************************************************************)
EXTENDS Sequences

CONSTANTS Jobs,     \* the jobs that are ever handed over, once each
          Failing   \* those that return an error, which stops the loop

VARIABLES pending,  \* the jobs handed over and not run, oldest first
          ran,      \* those that have been run, in order
          stopped   \* whether the loop has stopped

vars == <<pending, ran, stopped>>

Init ==
  /\ pending = <<>>
  /\ ran = <<>>
  /\ stopped = FALSE

Submit(j) ==
  /\ pending' = Append(pending, j)
  /\ UNCHANGED <<ran, stopped>>

Run ==
  /\ ~stopped
  /\ pending # <<>>
  /\ ran' = Append(ran, Head(pending))
  /\ pending' = Tail(pending)
  /\ stopped' = (Head(pending) \in Failing)

Stop ==
  /\ stopped' = TRUE
  /\ UNCHANGED <<pending, ran>>

Next == (\E j \in Jobs : Submit(j)) \/ Run \/ Stop

Spec == Init /\ [][Next]_vars

=============================================================================
