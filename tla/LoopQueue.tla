----------------------------- MODULE LoopQueue -------------------------------
(***************************************************************************)
(* The circular queue of idle workers of a pool with PreAlloc              *)
(* (src/ants/worker_loop_queue.go), as operators on a record of its        *)
(* fields; items has the indexes 0 to size - 1.                            *)
(***************************************************************************)
EXTENDS Integers, Sequences

newWorkerLoopQueue(size, nil) ==
  [items |-> [i \in 0..(size - 1) |-> nil],
   size |-> size, head |-> 0, tail |-> 0, isFull |-> FALSE]

isEmpty(wq) == wq.head = wq.tail /\ ~wq.isFull

\* len
length(wq) ==
  IF wq.head = wq.tail THEN (IF wq.isFull THEN wq.size ELSE 0)
  ELSE IF wq.tail > wq.head THEN wq.tail - wq.head
  ELSE wq.size - wq.head + wq.tail

Following(wq, i) == IF i + 1 = wq.size THEN 0 ELSE i + 1

\* insert returns an error.
insertFails(wq) == wq.size = 0 \/ wq.isFull

\* Mutant of insert: isFull is not set.
insertNeverFull(wq, w) ==
  IF insertFails(wq) THEN wq
  ELSE [wq EXCEPT !.items[wq.tail] = w, !.tail = Following(wq, wq.tail)]

insert(wq, w) ==
  IF insertFails(wq) THEN wq
  ELSE [wq EXCEPT !.items[wq.tail] = w,
                  !.tail = Following(wq, wq.tail),
                  !.isFull = (Following(wq, wq.tail) = wq.head)]

\* detach; the worker is the one at the head.
detach(wq) ==
  IF isEmpty(wq) THEN wq
  ELSE [wq EXCEPT !.head = Following(wq, wq.head), !.isFull = FALSE]

\* retrieveExpiry: since no worker has a recycleTime, all of them are detached.
retrieveExpiry(wq) ==
  IF isEmpty(wq) THEN wq ELSE [wq EXCEPT !.head = wq.tail, !.isFull = FALSE]

\* The end of reset, when the workers have been detached.
reset(wq) ==
  [wq EXCEPT !.items = [i \in 0..(-1) |-> {}], !.size = 0, !.head = 0, !.tail = 0]

-----------------------------------------------------------------------------
\* Where the worker is that has i - 1 older ones.
Place(wq, i) ==
  IF wq.head + i - 1 < wq.size THEN wq.head + i - 1 ELSE wq.head + i - 1 - wq.size

\* The workers from the head to the tail.
Contents(wq) == [i \in 1..length(wq) |-> wq.items[Place(wq, i)]]

=============================================================================
