----------------------------- MODULE MCAntsPool -----------------------------
(* Small instances of AntsPool for TLC. *)
EXTENDS AntsPool, TLC

Option(size, preAlloc, nonblocking, maxBlockingTasks, chanCap) ==
  [size |-> size, preAlloc |-> preAlloc, nonblocking |-> nonblocking,
   maxBlockingTasks |-> maxBlockingTasks, chanCap |-> chanCap]

\* Every Submit returns at once: both queues and a pool with no limit.  A stack
\* of one is one of two after Tune; a buffer in the channel allows no step more
\* where whoever sends finds the goroutine receiving.
NonblockingOptions ==
  {Option(2, FALSE, TRUE, 0, 0), Option(1, TRUE, TRUE, 0, 1),
   Option(2, TRUE, TRUE, 0, 0), Option(-1, FALSE, TRUE, 0, 1)}

\* Submit blocks, with and without a limit on the calls that may.
BlockingOptions ==
  {Option(1, FALSE, FALSE, max, 1) : max \in {0, 1}}

AllOptions == NonblockingOptions \cup BlockingOptions

TwoWorkers == {Option(2, FALSE, TRUE, 0, 1)}

WorkerAndTaskSymmetry ==
  Permutations(Workers) \cup Permutations(Tasks \ (Panicking \cup NilTasks))
=============================================================================
