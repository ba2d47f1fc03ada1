--------------------------- MODULE MCPoolWithFunc ---------------------------
(* Small instances of PoolWithFunc for TLC. *)
EXTENDS PoolWithFunc, TLC

Option(size, preAlloc, nonblocking, maxBlockingTasks, chanCap, ticks) ==
  [size |-> size, preAlloc |-> preAlloc, nonblocking |-> nonblocking,
   maxBlockingTasks |-> maxBlockingTasks, chanCap |-> chanCap, ticks |-> ticks]

\* One worker, no limit or a limit of one on the calls that block, and two
\* workers and no blocking, before the first heartbeat and with heartbeats.
AllOptions ==
  {Option(1, FALSE, FALSE, max, 1, ticks) : max \in {0, 1}, ticks \in BOOLEAN}
    \cup {Option(2, TRUE, TRUE, 0, 0, ticks) : ticks \in BOOLEAN}

Ticking == {Option(2, FALSE, FALSE, 0, 1, TRUE)}

WorkerSymmetry == Permutations(Workers)

WorkerAndCallSymmetry ==
  Permutations(Workers) \cup Permutations(Calls \ (Panicking \cup NilArgs))
=============================================================================
