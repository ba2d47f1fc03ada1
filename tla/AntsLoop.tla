------------------------------ MODULE AntsLoop -------------------------------
(***************************************************************************)
(* AntsPool with the worker queue of a PreAlloc pool as the code keeps it: *)
(* what AntsPool does to its sequence of idle workers, the same step does  *)
(* to the fields of the loop queue.                                        *)
(***************************************************************************)
EXTENDS AntsPool, LoopQueue

VARIABLE wq  \* p.workers of a PreAlloc pool

loopVars == <<vars, wq>>

Queue(op) == wq' = IF opts.preAlloc THEN op ELSE wq

LoopInit ==
  /\ Init
  /\ wq = newWorkerLoopQueue(IF opts.preAlloc THEN opts.size ELSE 0, NoWorker)

LoopRetrieve(t) == RetrieveFast(t) /\ Queue(detach(wq))

LoopInsert(w) == RevertInsert(w) /\ Queue(insert(wq, w))

LoopExpire(p) == PurgeExpire(p) /\ Queue(retrieveExpiry(wq))

LoopReset ==
  \/ ReleaseSend /\ Queue(detach(wq))
  \/ ReleaseDone /\ Queue(reset(wq))

\* The steps that leave the queue of a PreAlloc pool alone; those of blocked
\* calls are of pools that have a stack.
Elsewhere ==
  \/ \E t \in Tasks :
       \/ Submit(t) \/ RetrieveCheck(t) \/ Wake(t) \/ Spawn(t)
       \/ UnlockedDetach(t) \/ UnlockedShrink(t) \/ UnlockedReenter(t) \/ Send(t)
  \/ \E w \in Workers : Receive(w) \/ RunTask(w) \/ RevertCheck(w) \/ Exit(w)
  \/ \E p \in Purgers :
       Reboot(p) \/ PurgeTick(p) \/ PurgeSend(p) \/ PurgeEnd(p) \/ PurgeBroadcast(p)
  \/ \E size \in TuneSizes : Tune(size)
  \/ ReleaseClose \/ ReleaseLock

LoopNext ==
  \/ \E t \in Tasks : LoopRetrieve(t)
  \/ \E w \in Workers : LoopInsert(w)
  \/ \E p \in Purgers : LoopExpire(p)
  \/ LoopReset
  \/ Elsewhere /\ UNCHANGED wq

LoopSpec == LoopInit /\ [][LoopNext]_loopVars

LoopFairSpec == LoopSpec /\ Fairness

-----------------------------------------------------------------------------
(* Properties.                                                             *)

\* Whatever calls, the purger, Release and Reboot have done to a PreAlloc
\* pool: from its head to its tail the loop queue holds the idle workers, in
\* the order they came, however often it has wrapped around; it is empty or
\* full exactly when they are none or size; and insert fails just when the
\* queue has been released or is full (worker_loop_queue.go:24-118).
LoopHoldsItems ==
  opts.preAlloc =>
    /\ wq.size = slots
    /\ Contents(wq) = items
    /\ isEmpty(wq) <=> items = <<>>
    /\ insertFails(wq) <=> InsertFails

=============================================================================
