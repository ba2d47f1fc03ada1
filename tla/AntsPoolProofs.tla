--------------------------- MODULE AntsPoolProofs ---------------------------
(***************************************************************************)
(* Proofs about AntsPool and AntsLoop: for every set of tasks, workers,    *)
(* purgers and options, and loop queues of every size.                     *)
(***************************************************************************)
EXTENDS AntsLoop, FiniteSetTheorems, SequenceTheorems, TLAPS

\* What detach returns and leaves behind, on either queue.
LEMMA DetachTypes ==
  ASSUME TypeOK, items # <<>>
  PROVE  /\ items[DetachIndex(items)] \in Workers
         /\ Detached(items) \in Seq(Workers)
BY SubSeqProperties, HeadTailProperties DEF TypeOK, DetachIndex, Detached

\* Reentry keeps the types of what it changes, with or without the lock.
LEMMA ReenterTypes ==
  ASSUME TypeOK, NEW t \in Tasks, NEW blocked \in Int,
         NEW increments \in SUBSET Int, Reenter(t, cond, blocked, increments)
  PROVE  /\ lock' \in BOOLEAN
         /\ cond' \in Seq(Tasks)
         /\ blockingNum' \in Int
         /\ sub' \in [Tasks -> SubStates]
         /\ \A u \in Tasks : sub'[u] \in {"send", "writing"} => sub'[u] = sub[u]
<1>1. CASE opts.maxBlockingTasks # 0 /\ blocked >= opts.maxBlockingTasks
  BY <1>1 DEF TypeOK, Reenter, SubStates
<1>2. CASE ~(opts.maxBlockingTasks # 0 /\ blocked >= opts.maxBlockingTasks)
  <2>1. cond' = Append(cond, t) /\ sub' = [sub EXCEPT ![t] = "waiting"] /\ lock' = FALSE
    BY <1>2 DEF Reenter
  <2>2. PICK k \in increments : blockingNum' = blocked + k
    BY <1>2 DEF Reenter
  <2>3. cond' \in Seq(Tasks)
    BY <2>1, AppendProperties DEF TypeOK
  <2>4. blockingNum' \in Int
    BY <2>2
  <2>5. /\ sub' \in [Tasks -> SubStates]
        /\ \A u \in Tasks : sub'[u] \in {"send", "writing"} => sub'[u] = sub[u]
    BY <2>1 DEF TypeOK, SubStates
  <2> QED
    BY <2>1, <2>3, <2>4, <2>5
<1> QED
  BY <1>1, <1>2

\* A sequence is a function on an interval from 1.
LEMMA FunctionIsSeq ==
  ASSUME NEW S, NEW n \in Nat, NEW f \in [1..n -> S]
  PROVE  f \in Seq(S)
BY SeqDef

\* A slice that another purger overwrites still holds workers only.
LEMMA OverwrittenType ==
  ASSUME NEW list \in Seq(Workers), NEW new \in Seq(Workers)
  PROVE  Overwritten(list, new) \in Seq(Workers)
<1>1. \A i \in 1..Len(list) : list[i] \in Workers
  BY ElementOfSeq
<1>2. \A i \in 1..Len(list) : i <= Len(new) => new[i] \in Workers
  BY LenProperties, ElementOfSeq
<1>3. Overwritten(list, new) \in [1..Len(list) -> Workers]
  BY <1>1, <1>2 DEF Overwritten
<1> QED
  BY <1>3, LenProperties, FunctionIsSeq

LEMMA InitType == Init => TypeOK
<1> SUFFICES ASSUME Init PROVE TypeOK
  OBVIOUS
<1>1. opts \in OptionSet /\ capacity \in Int /\ slots \in Nat /\ told \in Nat
  BY OptionsAssumption DEF Init, Options
<1>2. /\ items \in Seq(Workers) /\ cond \in Seq(Tasks)
      /\ snap \in [Tasks -> Seq(Workers)] /\ plist \in [Purgers -> Seq(Workers)]
  BY EmptySeq DEF Init
<1>3. /\ sub \in [Tasks -> SubStates] /\ hold \in [Tasks -> Workers \cup {NoWorker}]
      /\ \A t \in Tasks : sub[t] = "send" => hold[t] \in Workers
      /\ \A t \in Tasks : sub[t] = "writing" => snap[t] # <<>> /\ hold[t] \in Workers
  BY DEF Init, SubStates
<1>4. /\ wk \in [Workers -> WorkerStates] /\ inbox \in [Workers -> Tasks \cup {Nil, Nothing}]
      /\ job \in [Workers -> Tasks \cup {Nothing}] /\ runs \in [Tasks -> Nat]
      /\ \A w \in Workers : wk[w] = "run" => job[w] \in Tasks
  BY DEF Init, WorkerStates
<1>5. /\ pg \in [Purgers -> PurgerStates] /\ pidx \in [Purgers -> Nat \ {0}]
      /\ shared \in [Purgers -> BOOLEAN] /\ expiryCap \in Nat
  BY DEF Init, PurgerStates
<1>6. running \in Int /\ blockingNum \in Int
  BY DEF Init
<1>7. state \in {"OPENED", "CLOSED"} /\ lock \in BOOLEAN /\ rel \in {"idle", "lock", "reset"}
  BY Zenon DEF Init
<1> QED
  BY <1>1, <1>2, <1>3, <1>4, <1>5, <1>6, <1>7 DEF TypeOK

LEMMA StepType ==
  ASSUME TypeOK, [Next]_vars
  PROVE  TypeOK'
<1> USE ConstantsAssumption
<1>1. ASSUME NEW t \in Tasks, Submit(t) PROVE TypeOK'
  BY <1>1 DEF TypeOK, Submit, SubStates, poolVars, queueVars, condVars, workerVars, purgeVars
<1>2. ASSUME NEW t \in Tasks, RetrieveFast(t) PROVE TypeOK'
  BY <1>2, DetachTypes DEF TypeOK, RetrieveFast, SubStates, poolVars, condVars, workerVars, purgeVars
<1>3. ASSUME NEW t \in Tasks, RetrieveCheck(t) PROVE TypeOK'
  <2>1. CASE Reenter(t, cond, blockingNum, {1})
    <3>1. blockingNum \in Int /\ {1} \in SUBSET Int
      BY DEF TypeOK
    <3> QED
      BY <1>3, <2>1, <3>1, ReenterTypes DEF TypeOK, RetrieveCheck, poolVars, queueVars, workerVars, purgeVars
  <2>2. CASE /\ sub' = [sub EXCEPT ![t] = "spawn"] \/ sub' = [sub EXCEPT ![t] = "overload"]
             /\ lock' = FALSE
             /\ UNCHANGED condVars
    BY <1>3, <2>2 DEF TypeOK, RetrieveCheck, SubStates, poolVars, queueVars, condVars, workerVars, purgeVars
  <2> QED
    BY <1>3, <2>1, <2>2 DEF RetrieveCheck
<1>4. ASSUME NEW t \in Tasks, Wake(t) PROVE TypeOK'
  <2>1. CASE running # 0 /\ items = <<>>
    <3>1. /\ blockingNum - 1 \in Int /\ {1} \in SUBSET Int
          /\ Reenter(t, cond, blockingNum - 1, {1}) /\ UNCHANGED <<items, hold>>
      BY <1>4, <2>1 DEF TypeOK, Wake
    <3> QED
      BY <1>4, <3>1, ReenterTypes DEF TypeOK, Wake, poolVars, workerVars, purgeVars
  <2>2. CASE running # 0 /\ items # <<>>
    <3>1. /\ hold' = [hold EXCEPT ![t] = items[DetachIndex(items)]]
          /\ items' = Detached(items) /\ UNCHANGED <<lock, cond>>
          /\ sub' = [sub EXCEPT ![t] = "send"] /\ blockingNum' = blockingNum - 1
      BY <1>4, <2>2 DEF Wake
    <3>2. items[DetachIndex(items)] \in Workers /\ items' \in Seq(Workers)
      BY <2>2, <3>1, DetachTypes
    <3> QED
      BY <1>4, <3>1, <3>2 DEF TypeOK, Wake, SubStates, poolVars, workerVars, purgeVars
  <2>3. CASE running = 0
    <3>1. /\ UNCHANGED <<lock, items, cond, hold>>
          /\ sub' = [sub EXCEPT ![t] = "respawn"] /\ blockingNum' = blockingNum - 1
      BY <1>4, <2>3 DEF Wake
    <3> QED
      BY <1>4, <3>1 DEF TypeOK, Wake, SubStates, poolVars, workerVars, purgeVars
  <2> QED
    BY <2>1, <2>2, <2>3
<1>5. ASSUME NEW t \in Tasks, Spawn(t) PROVE TypeOK'
  BY <1>5 DEF TypeOK, Spawn, SubStates, WorkerStates, incRunning, poolVars, queueVars, condVars, purgeVars
<1>6. ASSUME NEW t \in Tasks, UnlockedDetach(t) PROVE TypeOK'
  <2>1. items # <<>> => items[Len(items)] \in Workers
    BY EmptySeq, ElementOfSeq DEF TypeOK
  <2>2. /\ snap' \in [Tasks -> Seq(Workers)] /\ snap'[t] = items
        /\ \A u \in Tasks \ {t} : snap'[u] = snap[u] /\ sub'[u] = sub[u] /\ hold'[u] = hold[u]
    BY <1>6 DEF TypeOK, UnlockedDetach
  <2>3. /\ hold' \in [Tasks -> Workers \cup {NoWorker}]
        /\ sub' \in [Tasks -> SubStates] /\ sub'[t] # "send"
        /\ sub'[t] = "writing" => snap'[t] # <<>> /\ hold'[t] \in Workers
    <3>1. CASE items = <<>>
      <4>1. sub' = [sub EXCEPT ![t] = "reentry"] /\ hold' = [hold EXCEPT ![t] = NoWorker]
        BY <1>6, <3>1 DEF UnlockedDetach
      <4> QED
        BY <4>1 DEF TypeOK, SubStates
    <3>2. CASE items # <<>>
      <4>1. /\ sub' = [sub EXCEPT ![t] = "writing"]
            /\ hold' = [hold EXCEPT ![t] = items[Len(items)]]
        BY <1>6, <3>2 DEF UnlockedDetach
      <4> QED
        BY <2>1, <2>2, <3>2, <4>1 DEF TypeOK, SubStates
    <3> QED
      BY <3>1, <3>2
  <2>4. \A u \in Tasks :
          /\ sub'[u] = "send" => hold'[u] \in Workers
          /\ sub'[u] = "writing" => snap'[u] # <<>> /\ hold'[u] \in Workers
    BY <2>2, <2>3 DEF TypeOK
  <2> QED
    BY <1>6, <2>2, <2>3, <2>4 DEF TypeOK, UnlockedDetach, poolVars, queueVars, condVars, workerVars, purgeVars
<1>7. ASSUME NEW t \in Tasks, UnlockedShrink(t) PROVE TypeOK'
  <2>1. snap[t] \in Seq(Workers) /\ snap[t] # <<>> /\ items \in Seq(Workers)
    BY <1>7 DEF TypeOK, UnlockedShrink
  <2>2. Len(snap[t]) - 1 \in Nat /\ \A i \in 1..(Len(snap[t]) - 1) : snap[t][i] \in Workers
    BY <2>1, EmptySeq, ElementOfSeq
  <2>3. \A i \in 1..(Len(snap[t]) - 1) : i <= Len(items) => items[i] \in Workers
    BY <2>1, LenProperties, ElementOfSeq
  <2>4. items' \in [1..(Len(snap[t]) - 1) -> Workers]
    BY <1>7, <2>2, <2>3 DEF UnlockedShrink
  <2>5. items' \in Seq(Workers)
    BY <2>2, <2>4, FunctionIsSeq
  <2> QED
    BY <1>7, <2>5, EmptySeq DEF TypeOK, UnlockedShrink, SubStates, poolVars, condVars, workerVars, purgeVars
<1>8. ASSUME NEW t \in Tasks, UnlockedReenter(t) PROVE TypeOK'
  BY <1>8, ReenterTypes DEF TypeOK, UnlockedReenter, poolVars, queueVars, condVars, workerVars, purgeVars
<1>9. ASSUME NEW t \in Tasks, Send(t) PROVE TypeOK'
  BY <1>9 DEF TypeOK, Send, Message, SubStates, poolVars, queueVars, condVars, purgeVars
<1>10. ASSUME NEW w \in Workers, Receive(w) PROVE TypeOK'
  BY <1>10 DEF TypeOK, Receive, Ends, WorkerStates, poolVars, queueVars, condVars, subVars, purgeVars
<1>11. ASSUME NEW w \in Workers, RunTask(w) PROVE TypeOK'
  <2>1. /\ job[w] \in Tasks /\ runs' = [runs EXCEPT ![job[w]] = @ + 1]
        /\ job' = [job EXCEPT ![w] = Nothing]
        /\ wk' = [wk EXCEPT ![w] = "revert"] \/ wk' = [wk EXCEPT ![w] = "exit"]
    BY <1>11 DEF TypeOK, RunTask
  <2>2. runs' \in [Tasks -> Nat]
    BY <2>1 DEF TypeOK
  <2>3. /\ job' \in [Workers -> Tasks \cup {Nothing}] /\ wk' \in [Workers -> WorkerStates]
        /\ \A v \in Workers : wk'[v] = "run" => job'[v] \in Tasks
    BY <2>1 DEF TypeOK, WorkerStates
  <2> QED
    BY <1>11, <2>2, <2>3 DEF TypeOK, RunTask, poolVars, queueVars, condVars, subVars, purgeVars
<1>12. ASSUME NEW w \in Workers, RevertCheck(w) PROVE TypeOK'
  BY <1>12 DEF TypeOK, RevertCheck, WorkerStates, poolVars, queueVars, condVars, subVars, purgeVars
<1>13. ASSUME NEW w \in Workers, RevertInsert(w) PROVE TypeOK'
  <2>1. Signal => cond' \in Seq(Tasks) /\ sub' \in [Tasks -> SubStates]
                  /\ \A u \in Tasks : sub'[u] \in {"send", "writing"} => sub'[u] = sub[u]
    <3>1. CASE cond = <<>>
      BY <3>1 DEF TypeOK, Signal
    <3>2. CASE cond # <<>>
      <4>1. Head(cond) \in Tasks /\ Tail(cond) \in Seq(Tasks)
        BY <3>2, HeadTailProperties DEF TypeOK
      <4> QED
        BY <3>2, <4>1 DEF TypeOK, Signal, SubStates
    <3> QED
      BY <3>1, <3>2
  <2>2. Append(items, w) \in Seq(Workers)
    BY AppendProperties DEF TypeOK
  <2> QED
    BY <1>13, <2>1, <2>2 DEF TypeOK, RevertInsert, WorkerStates, poolVars, purgeVars
<1>14. ASSUME NEW w \in Workers, Exit(w) PROVE TypeOK'
  BY <1>14 DEF TypeOK, Exit, decRunning, WorkerStates, poolVars, queueVars, condVars, subVars, purgeVars
<1>15. ASSUME NEW size \in TuneSizes, Tune(size) PROVE TypeOK'
  BY <1>15 DEF TypeOK, Tune, queueVars, condVars, subVars, workerVars, purgeVars
<1>16. CASE ReleaseClose
  BY <1>16 DEF TypeOK, ReleaseClose, queueVars, condVars, subVars, workerVars, purgeVars
<1>17. CASE ReleaseLock
  BY <1>17 DEF TypeOK, ReleaseLock, poolVars, queueVars, condVars, subVars, workerVars, purgeVars
<1>18. CASE ReleaseSend
  <2>1. items' \in Seq(Workers) /\ told' \in Nat
    <3>1. CASE opts.preAlloc
      <4>1. Idle # <<>> /\ items' = Detached(items) /\ told' = told
        BY <1>18, <3>1 DEF ReleaseSend
      <4>2. items # <<>>
        BY <4>1, EmptySeq, SubSeqEmpty DEF TypeOK, Idle
      <4> QED
        BY <4>1, <4>2, DetachTypes DEF TypeOK
    <3>2. CASE ~opts.preAlloc
      BY <1>18, <3>2 DEF TypeOK, ReleaseSend
    <3> QED
      BY <3>1, <3>2
  <2> QED
    BY <1>18, <2>1 DEF TypeOK, ReleaseSend, poolVars, condVars, subVars, purgeVars
<1>19. CASE ReleaseDone
  BY <1>19, EmptySeq DEF TypeOK, ReleaseDone, poolVars, condVars, subVars, workerVars, purgeVars
<1>20. ASSUME NEW p \in Purgers, Reboot(p) PROVE TypeOK'
  BY <1>20 DEF TypeOK, Reboot, PurgerStates, queueVars, condVars, subVars, workerVars
<1>21. ASSUME NEW p \in Purgers, PurgeTick(p) PROVE TypeOK'
  BY <1>21 DEF TypeOK, PurgeTick, PurgerStates, poolVars, queueVars, condVars, subVars, workerVars
<1>22. ASSUME NEW p \in Purgers, PurgeExpire(p) PROVE TypeOK'
  <2>1. \A q \in Purgers : Overwritten(plist[q], items) \in Seq(Workers)
    BY OverwrittenType DEF TypeOK
  <2>2. items' \in Seq(Workers) /\ Len(items) \in Nat
    BY <1>22, EmptySeq, LenProperties DEF TypeOK, PurgeExpire, Unexpired
  <2>3. plist' \in [Purgers -> Seq(Workers)]
    <3>1. <<>> \in Seq(Workers)
      BY EmptySeq
    <3>2. CASE items = <<>>
      BY <1>22, <3>1, <3>2 DEF TypeOK, PurgeExpire
    <3>3. CASE items # <<>>
      <4>1. \A q \in Purgers :
              (IF q = p THEN items
               ELSE IF shared[q] /\ Len(items) <= expiryCap
                      THEN Overwritten(plist[q], items)
                      ELSE plist[q]) \in Seq(Workers)
        BY <2>1 DEF TypeOK
      <4> QED
        BY <1>22, <3>3, <4>1 DEF PurgeExpire
    <3> QED
      BY <3>2, <3>3
  <2>4. shared' \in [Purgers -> BOOLEAN] /\ expiryCap' \in Nat
    BY <1>22, <2>2 DEF TypeOK, PurgeExpire
  <2> QED
    BY <1>22, <2>2, <2>3, <2>4 DEF TypeOK, PurgeExpire, PurgerStates, poolVars, condVars, subVars, workerVars
<1>23. ASSUME NEW p \in Purgers, PurgeSend(p) PROVE TypeOK'
  BY <1>23 DEF TypeOK, PurgeSend, poolVars, queueVars, condVars, subVars
<1>24. ASSUME NEW p \in Purgers, PurgeEnd(p) PROVE TypeOK'
  BY <1>24 DEF TypeOK, PurgeEnd, PurgerStates, poolVars, queueVars, condVars, subVars, workerVars
<1>25. ASSUME NEW p \in Purgers, PurgeBroadcast(p) PROVE TypeOK'
  BY <1>25 DEF TypeOK, PurgeBroadcast, SubStates, PurgerStates, poolVars, queueVars, workerVars
<1>26. CASE UNCHANGED vars
  BY <1>26 DEF TypeOK, vars, poolVars, queueVars, condVars, subVars, workerVars, purgeVars
<1> QED
  BY <1>1, <1>2, <1>3, <1>4, <1>5, <1>6, <1>7, <1>8, <1>9, <1>10, <1>11, <1>12, <1>13,
     <1>14, <1>15, <1>16, <1>17, <1>18, <1>19, <1>20, <1>21, <1>22, <1>23, <1>24, <1>25,
     <1>26
  DEF Next, Proceed, Serve, Purge, Reset

\* The types of the pool's state hold in every reachable state.
THEOREM TypeCorrect == Spec => []TypeOK
<1>1. Init => TypeOK
  BY InitType
<1>2. TypeOK /\ [Next]_vars => TypeOK'
  BY StepType
<1> QED
  BY <1>1, <1>2, PTL DEF Spec

-----------------------------------------------------------------------------
(* The running counter.  Only a spawn and an exit change it, and they change *)
(* the set of goroutines by the worker they are about.                       *)

LEMMA LiveFinite == TypeOK => IsFiniteSet(Live)
BY FS_Subset, ConstantsAssumption DEF Live

LEMMA InitCount == Init => RunningCountsLive
<1> SUFFICES ASSUME Init PROVE RunningCountsLive
  OBVIOUS
<1>1. running = 0 /\ wk = [w \in Workers |-> "none"]
  BY DEF Init
<1>2. Live = {}
  BY <1>1 DEF Live
<1> QED
  BY <1>1, <1>2, FS_EmptySet DEF RunningCountsLive

LEMMA SpawnCount ==
  ASSUME TypeOK, RunningCountsLive, NEW t \in Tasks, Spawn(t)
  PROVE  RunningCountsLive'
<1>1. PICK w \in Workers : wk[w] = "none" /\ wk' = [wk EXCEPT ![w] = "recv"]
  BY DEF Spawn
<1>2. w \notin Live /\ Live' = Live \cup {w}
  BY <1>1 DEF TypeOK, Live
<1>3. Cardinality(Live') = Cardinality(Live) + 1
  BY <1>2, LiveFinite, FS_AddElement
<1> QED
  BY <1>3 DEF RunningCountsLive, Spawn, incRunning

LEMMA ExitCount ==
  ASSUME TypeOK, RunningCountsLive, NEW w \in Workers, Exit(w)
  PROVE  RunningCountsLive'
<1>1. w \in Live /\ Live' = Live \ {w}
  BY DEF TypeOK, Live, Exit
<1>2. Cardinality(Live') = Cardinality(Live) - 1
  BY <1>1, LiveFinite, FS_RemoveElement
<1> QED
  BY <1>2 DEF RunningCountsLive, Exit, decRunning

\* Every other step leaves both the counter and the goroutines alone.
LEMMA OtherCount ==
  ASSUME TypeOK, [Next]_vars, RunningCountsLive,
         \A t \in Tasks : ~Spawn(t), \A w \in Workers : ~Exit(w)
  PROVE  RunningCountsLive'
<1> SUFFICES running' = running /\ Live' = Live
  BY DEF RunningCountsLive
<1>1. ASSUME NEW t \in Tasks, Submit(t) \/ Proceed(t) PROVE running' = running /\ wk' = wk
  BY <1>1 DEF Submit, Proceed, RetrieveFast, RetrieveCheck, Wake, UnlockedDetach,
     UnlockedShrink, UnlockedReenter, Send, workerVars
<1>2. ASSUME NEW w \in Workers, Serve(w) PROVE running' = running /\ Live' = Live
  BY <1>2 DEF Serve, Receive, RunTask, RevertCheck, RevertInsert, Live, TypeOK
<1>3. ASSUME NEW p \in Purgers, Reboot(p) \/ Purge(p) PROVE running' = running /\ wk' = wk
  BY <1>3 DEF Reboot, Purge, PurgeTick, PurgeExpire, PurgeSend, PurgeEnd, PurgeBroadcast,
     workerVars
<1>4. ASSUME NEW size \in TuneSizes, Tune(size) PROVE running' = running /\ wk' = wk
  BY <1>4 DEF Tune, workerVars
<1>5. CASE ReleaseClose \/ Reset
  BY <1>5 DEF ReleaseClose, Reset, ReleaseLock, ReleaseSend, ReleaseDone, workerVars, Live
<1>6. CASE UNCHANGED vars
  BY <1>6 DEF vars, workerVars, Live
<1> QED
  BY <1>1, <1>2, <1>3, <1>4, <1>5, <1>6 DEF Next, Live

\* p.running is at all times the number of worker goroutines.
THEOREM CounterExact == Spec => []RunningCountsLive
<1>1. Init => RunningCountsLive
  BY InitCount
<1>2. TypeOK /\ RunningCountsLive /\ [Next]_vars => RunningCountsLive'
  BY SpawnCount, ExitCount, OtherCount
<1> QED
  BY <1>1, <1>2, TypeCorrect, PTL DEF Spec

-----------------------------------------------------------------------------
(* Who may send to a worker.  The four ownership properties are inductive    *)
(* together with the facts below: without blocking there is no waiter and    *)
(* nobody detaches without the lock, a caller holds a worker only between    *)
(* retrieveWorker and the send, a purger has a list only while it sends, and *)
(* a goroutine that is not receiving has taken what was in its channel.      *)

NoWaiters ==
  /\ cond = <<>>
  /\ \A t \in Tasks :
       sub[t] \in {"new", "lock", "check", "spawn", "send", "ok", "overload", "closed"}

HoldsToSend == \A t \in Tasks : sub[t] # "send" => hold[t] = NoWorker

EmptyUnlessReceiving == \A w \in Workers : wk[w] # "recv" => inbox[w] = Nothing

Owned(w) ==
  \/ w \in Range(Idle)
  \/ \E t \in Tasks : hold[t] = w
  \/ \E p \in Purgers : w \in Remaining(p)

\* Only Release has a part of the queue told, and a loop queue never has.
ToldWhileReset == rel # "reset" \/ opts.preAlloc => told = 0

\* Without blocking, the lock is held by Release while it sends, or by one call
\* that has found no worker, and never by both.
LockHolders ==
  /\ rel = "reset" => lock
  /\ \A t \in Tasks : sub[t] = "check" => lock /\ rel # "reset"
  /\ \A t, u \in Tasks : sub[t] = "check" /\ sub[u] = "check" => t = u

Ownership ==
  /\ HeldByOneCaller
  /\ HeldNotQueued
  /\ PurgedAlone
  /\ IdleIsReceiving
  /\ EmptyUnlessReceiving

IInv == TypeOK /\ NoWaiters /\ HoldsToSend /\ ToldWhileReset /\ LockHolders /\ Ownership

\* What this section assumes: the pool is nonblocking, and Reboot waits for
\* the purger of before to exit.
OnePurger == \A p, q \in Purgers : p = q
NonblockingOnePurger == opts.nonblocking /\ OnePurger

\* Whenever nobody is being told, the idle workers are the queue.
LEMMA IdleIsQueue ==
  ASSUME NEW s \in Seq(Workers)
  PROVE  SubSeq(s, 0 + 1, Len(s)) = s
BY SubSeqFull

LEMMA IdleType ==
  ASSUME TypeOK
  PROVE  Idle \in Seq(Workers)
<1>1. \A i \in (told + 1)..Len(items) : items[i] \in Workers
  BY ElementOfSeq, LenProperties DEF TypeOK
<1> QED
  BY <1>1, LenProperties, SubSeqProperties DEF TypeOK, Idle

\* Whoever finds the lock free finds the whole queue idle, and leaves it so.
LEMMA WholeQueue ==
  ASSUME TypeOK, TypeOK', told = 0, UNCHANGED told
  PROVE  Idle = items /\ Idle' = items'
<1>1. items \in Seq(Workers) /\ items' \in Seq(Workers)
  BY DEF TypeOK
<1>2. SubSeq(items, 0 + 1, Len(items)) = items /\ SubSeq(items', 0 + 1, Len(items')) = items'
  BY <1>1, IdleIsQueue
<1> QED
  BY <1>2 DEF Idle

\* A worker that detach returns was in the queue and is there no more; the
\* rest of the queue is as it was, each worker in it once.
LEMMA DetachOwnership ==
  ASSUME TypeOK, told = 0, HeldNotQueued, items # <<>>
  PROVE  /\ items[DetachIndex(items)] \in Range(items)
         /\ items[DetachIndex(items)] \notin Range(Detached(items))
         /\ Range(Detached(items)) \subseteq Range(items)
         /\ \A i, j \in 1..Len(Detached(items)) :
               Detached(items)[i] = Detached(items)[j] => i = j
<1> DEFINE q == Detached(items)
           n == Len(items)
<1>1. /\ items \in Seq(Workers) /\ n \in Nat \ {0}
      /\ \A i, j \in 1..n : items[i] = items[j] => i = j
      /\ Range(items) = {items[i] : i \in 1..n}
  <2>1. items \in Seq(Workers) /\ Idle = items
    BY IdleIsQueue DEF TypeOK, Idle
  <2> QED
    BY <2>1, EmptySeq, RangeEquality DEF HeldNotQueued
<1>2. /\ q \in Seq(Workers) /\ Len(q) = n - 1
      /\ \A i \in 1..(n - 1) : q[i] = IF opts.preAlloc THEN items[i + 1] ELSE items[i]
  <2>1. CASE opts.preAlloc
    BY <1>1, <2>1, HeadTailProperties DEF Detached
  <2>2. CASE ~opts.preAlloc
    <3>1. \A i \in 1..(n - 1) : items[i] \in Workers
      BY <1>1, ElementOfSeq
    <3>2. /\ SubSeq(items, 1, n - 1) \in Seq(Workers)
          /\ Len(SubSeq(items, 1, n - 1)) = IF 1 <= n - 1 THEN n - 1 - 1 + 1 ELSE 0
          /\ \A i \in 1..(n - 1 - 1 + 1) : SubSeq(items, 1, n - 1)[i] = items[1 + i - 1]
      BY <1>1, <3>1, SubSeqProperties
    <3>3. Detached(items) = SubSeq(items, 1, n - 1)
      BY <2>2 DEF Detached
    <3>4. Len(SubSeq(items, 1, n - 1)) = n - 1
      <4>1. CASE n = 1
        BY <3>2, <4>1
      <4>2. CASE n # 1
        <5>1. n \in Nat \ {0} /\ n # 1
          BY <1>1, <4>2
        <5> HIDE DEF n
        <5>2. 1 <= n - 1 /\ n - 1 - 1 + 1 = n - 1
          BY <5>1
        <5> QED
          BY <3>2, <5>2
      <4> QED
        BY <4>1, <4>2
    <3>5. \A i \in 1..(n - 1) : SubSeq(items, 1, n - 1)[i] = items[i]
      BY <1>1, <3>2
    <3> QED
      BY <2>2, <3>2, <3>3, <3>4, <3>5
  <2> QED
    BY <2>1, <2>2
<1>3. Range(q) = {q[i] : i \in 1..(n - 1)}
  BY <1>2, RangeEquality
<1>4. DetachIndex(items) = IF opts.preAlloc THEN 1 ELSE n
  BY DEF DetachIndex
<1> QED
  BY <1>1, <1>2, <1>3, <1>4

\* A step that changes no holder, no queue and no goroutine.
LEMMA OwnershipKept ==
  ASSUME Ownership, UNCHANGED <<items, told, hold, wk, inbox, plist, pidx>>
  PROVE  Ownership'
<1>1. Idle' = Idle
  BY DEF Idle
<1>2. \A p \in Purgers : Remaining(p)' = Remaining(p)
  BY DEF Remaining
<1> QED
  BY <1>1, <1>2 DEF Ownership, HeldByOneCaller, HeldNotQueued, PurgedAlone, IdleIsReceiving,
     EmptyUnlessReceiving

\* A step of a goroutine whose worker nobody else can send to.
LEMMA LonelyStep ==
  ASSUME TypeOK, Ownership, NEW w \in Workers, ~Owned(w),
         UNCHANGED <<items, told, hold, plist, pidx>>,
         \A v \in Workers \ {w} : wk'[v] = wk[v] /\ inbox'[v] = inbox[v],
         wk'[w] # "recv" => inbox'[w] = Nothing
  PROVE  Ownership'
<1>0. Idle' = Idle
  BY DEF Idle
<1>1. HeldByOneCaller' /\ HeldNotQueued' /\ PurgedAlone'
  BY <1>0 DEF Ownership, HeldByOneCaller, HeldNotQueued, PurgedAlone, Remaining
<1>2. IdleIsReceiving'
  BY <1>0 DEF Ownership, IdleIsReceiving, Owned, Remaining
<1>3. EmptyUnlessReceiving'
  BY DEF Ownership, EmptyUnlessReceiving
<1> QED
  BY <1>1, <1>2, <1>3 DEF Ownership

\* A worker that is not receiving, or whose channel is not empty, has no owner.
LEMMA BusyIsNotOwned ==
  ASSUME Ownership, NEW w \in Workers, wk[w] # "recv" \/ inbox[w] # Nothing
  PROVE  ~Owned(w)
BY DEF Ownership, IdleIsReceiving, Owned

LEMMA RemainingAreWorkers ==
  ASSUME TypeOK, NEW p \in Purgers
  PROVE  Remaining(p) \subseteq Workers
BY ElementOfSeq DEF TypeOK, Remaining

LEMMA RetrieveFastOwnership ==
  ASSUME IInv, TypeOK', NEW t \in Tasks, RetrieveFast(t)
  PROVE  Ownership'
<1>1. CASE items = <<>>
  <2>1. UNCHANGED <<items, told, hold, wk, inbox, plist, pidx>>
    BY <1>1 DEF RetrieveFast, workerVars, purgeVars
  <2> QED
    BY <2>1, OwnershipKept DEF IInv
<1>2. CASE items # <<>>
  <2> DEFINE w == items[DetachIndex(items)]
  <2>1. /\ hold' = [hold EXCEPT ![t] = w] /\ items' = Detached(items)
        /\ UNCHANGED <<told, wk, inbox, plist, pidx>>
    BY <1>2 DEF RetrieveFast, workerVars, purgeVars
  <2>2. told = 0
    BY DEF IInv, ToldWhileReset, LockHolders, RetrieveFast
  <2>3. Idle = items /\ Idle' = items'
    BY <2>1, <2>2, WholeQueue DEF IInv
  <2>4. /\ w \in Range(items) /\ w \notin Range(items') /\ Range(items') \subseteq Range(items)
        /\ \A i, j \in 1..Len(items') : items'[i] = items'[j] => i = j
    BY <1>2, <2>1, <2>2, DetachOwnership DEF IInv, Ownership
  <2>5. w \in Workers /\ hold \in [Tasks -> Workers \cup {NoWorker}]
    BY <1>2, DetachTypes DEF IInv, TypeOK
  <2>6. /\ w \in Range(Idle) /\ w \notin Range(Idle)' /\ Range(Idle)' \subseteq Range(Idle)
        /\ \A i, j \in 1..Len(Idle') : Idle'[i] = Idle'[j] => i = j
    BY <2>3, <2>4
  <2> HIDE DEF w
  <2>7. HeldByOneCaller' /\ HeldNotQueued'
    BY <2>1, <2>5, <2>6 DEF IInv, Ownership, HeldByOneCaller, HeldNotQueued
  <2>8. PurgedAlone'
    BY <2>1, <2>5, <2>6 DEF IInv, Ownership, PurgedAlone, Remaining
  <2>9. IdleIsReceiving' /\ EmptyUnlessReceiving'
    BY <2>1, <2>5, <2>6 DEF IInv, Ownership, IdleIsReceiving, EmptyUnlessReceiving, Remaining
  <2> QED
    BY <2>7, <2>8, <2>9 DEF Ownership
<1> QED
  BY <1>1, <1>2

LEMMA SpawnOwnership ==
  ASSUME IInv, NEW t \in Tasks, Spawn(t)
  PROVE  Ownership'
<1>1. PICK w \in Workers : /\ wk[w] = "none" /\ wk' = [wk EXCEPT ![w] = "recv"]
                           /\ hold' = [hold EXCEPT ![t] = w]
  BY DEF Spawn
<1>2. UNCHANGED <<inbox, plist, pidx>> /\ Idle' = Idle
  BY DEF Spawn, Idle, queueVars, purgeVars
<1>3. ~Owned(w) /\ inbox[w] = Nothing
  BY <1>1, BusyIsNotOwned DEF IInv, Ownership, EmptyUnlessReceiving
<1>4. hold \in [Tasks -> Workers \cup {NoWorker}] /\ wk \in [Workers -> WorkerStates]
  BY DEF IInv, TypeOK
<1>5. HeldByOneCaller' /\ HeldNotQueued'
  BY <1>1, <1>2, <1>3, <1>4 DEF IInv, Ownership, HeldByOneCaller, HeldNotQueued, Owned
<1>6. PurgedAlone'
  BY <1>1, <1>2, <1>3, <1>4 DEF IInv, Ownership, PurgedAlone, Remaining, Owned
<1>7. IdleIsReceiving' /\ EmptyUnlessReceiving'
  BY <1>1, <1>2, <1>3, <1>4
  DEF IInv, Ownership, IdleIsReceiving, EmptyUnlessReceiving, Remaining
<1> QED
  BY <1>5, <1>6, <1>7 DEF Ownership

LEMMA SendOwnership ==
  ASSUME IInv, NEW t \in Tasks, Send(t)
  PROVE  Ownership'
<1> DEFINE w == hold[t]
<1>1. /\ w \in Workers /\ hold' = [hold EXCEPT ![t] = NoWorker]
      /\ inbox' = [inbox EXCEPT ![w] = Message(t)]
      /\ UNCHANGED <<wk, plist, pidx>> /\ Idle' = Idle
  BY DEF IInv, TypeOK, Send, Idle, queueVars, purgeVars
<1>2. /\ \A u \in Tasks \ {t} : hold[u] # w
      /\ w \notin Range(Idle) /\ \A p \in Purgers : w \notin Remaining(p)
      /\ wk[w] = "recv"
  BY <1>1, ConstantsAssumption
  DEF IInv, Ownership, HeldByOneCaller, HeldNotQueued, PurgedAlone, IdleIsReceiving
<1>3. /\ hold \in [Tasks -> Workers \cup {NoWorker}] /\ NoWorker \notin Workers
      /\ inbox \in [Workers -> Tasks \cup {Nil, Nothing}] /\ Idle \in Seq(Workers)
      /\ \A p \in Purgers : Remaining(p)' = Remaining(p)
  BY <1>1, ConstantsAssumption, IdleType DEF IInv, TypeOK, Remaining
<1>4. Range(Idle) \subseteq Workers
  BY <1>3, RangeOfSeq
<1>5. HeldByOneCaller' /\ HeldNotQueued'
  BY <1>1, <1>3, <1>4 DEF IInv, Ownership, HeldByOneCaller, HeldNotQueued
<1>6. PurgedAlone'
  <2>1. \A p \in Purgers : NoWorker \notin Remaining(p)
    BY <1>3, RemainingAreWorkers DEF IInv
  <2> QED
    BY <1>1, <1>3, <2>1 DEF IInv, Ownership, PurgedAlone
<1>7. IdleIsReceiving' /\ EmptyUnlessReceiving'
  BY <1>1, <1>2, <1>3 DEF IInv, Ownership, IdleIsReceiving, EmptyUnlessReceiving
<1> QED
  BY <1>5, <1>6, <1>7 DEF Ownership

LEMMA RevertInsertOwnership ==
  ASSUME IInv, TypeOK', NEW w \in Workers, RevertInsert(w)
  PROVE  Ownership'
<1>1. ~Owned(w) /\ inbox[w] = Nothing
  BY BusyIsNotOwned DEF IInv, Ownership, EmptyUnlessReceiving, RevertInsert
<1>2. UNCHANGED <<hold, inbox, plist, pidx>> /\ wk \in [Workers -> WorkerStates]
  BY DEF IInv, TypeOK, RevertInsert, purgeVars
<1>3. CASE InsertFails
  <2>1. /\ UNCHANGED <<items, told, hold, plist, pidx>> /\ inbox'[w] = Nothing
        /\ \A v \in Workers \ {w} : wk'[v] = wk[v] /\ inbox'[v] = inbox[v]
    BY <1>1, <1>2, <1>3 DEF RevertInsert
  <2> QED
    BY <1>1, <2>1, LonelyStep DEF IInv
<1>4. CASE ~InsertFails
  <2>1. items' = Append(items, w) /\ wk' = [wk EXCEPT ![w] = "recv"]
    BY <1>4 DEF RevertInsert
  <2>2. items \in Seq(Workers)
    BY DEF IInv, TypeOK
  <2>3. /\ items' \in Seq(Workers) /\ Len(items') = Len(items) + 1 /\ Len(items) \in Nat
        /\ \A i \in 1..Len(items) : items'[i] = items[i]
        /\ items'[Len(items) + 1] = w
    BY <2>1, <2>2, AppendProperties, LenProperties
  <2>4. Range(items) = {items[i] : i \in 1..Len(items)}
    BY <2>2, RangeEquality
  <2>5. Range(items') = {items'[i] : i \in 1..Len(items')}
    BY <2>3, RangeEquality
  <2>6. Range(items') = Range(items) \cup {w}
    BY <2>3, <2>4, <2>5
  <2>7. told = 0 /\ UNCHANGED told
    BY DEF IInv, ToldWhileReset, LockHolders, RevertInsert
  <2>8. Idle = items /\ Idle' = items'
    BY <2>7, WholeQueue DEF IInv
  <2>9. \A i \in 1..Len(items) : items[i] # w
    BY <1>1, <2>4, <2>8 DEF Owned
  <2>10. \A i, j \in 1..Len(items) : items[i] = items[j] => i = j
    BY <2>8 DEF IInv, Ownership, HeldNotQueued
  <2>11. \A i, j \in 1..Len(items') : items'[i] = items'[j] => i = j
    BY <2>3, <2>9, <2>10
  <2>12. /\ Range(Idle)' = Range(Idle) \cup {w}
         /\ \A i, j \in 1..Len(Idle') : Idle'[i] = Idle'[j] => i = j
    BY <2>6, <2>8, <2>11
  <2>13. HeldByOneCaller' /\ HeldNotQueued'
    BY <1>1, <1>2, <2>12 DEF IInv, Ownership, HeldByOneCaller, HeldNotQueued, Owned
  <2>14. PurgedAlone'
    BY <1>1, <1>2, <2>12 DEF IInv, Ownership, PurgedAlone, Remaining, Owned
  <2>15. IdleIsReceiving' /\ EmptyUnlessReceiving'
    BY <1>1, <1>2, <2>1, <2>12
    DEF IInv, Ownership, IdleIsReceiving, EmptyUnlessReceiving, Remaining
  <2> QED
    BY <2>13, <2>14, <2>15 DEF Ownership
<1> QED
  BY <1>3, <1>4

\* What reset does to the queue: the first of the idle workers is told.
LEMMA ReleaseSendTells ==
  ASSUME TypeOK, TypeOK', ToldWhileReset, ReleaseSend
  PROVE  Idle' = Tail(Idle)
<1>1. CASE opts.preAlloc
  <2>1. told = 0 /\ UNCHANGED told /\ items' = Tail(items)
    BY <1>1 DEF ToldWhileReset, ReleaseSend, Detached
  <2>2. Idle = items /\ Idle' = items'
    BY <2>1, WholeQueue
  <2> QED
    BY <2>1, <2>2
<1>2. CASE ~opts.preAlloc
  <2>1. told' = told + 1 /\ items' = items /\ Idle # <<>> /\ told \in Nat
        /\ items \in Seq(Workers)
    BY <1>2 DEF TypeOK, ReleaseSend
  <2>2. Len(items) \in Nat /\ told + 1 \in 1..Len(items)
    BY <2>1, LenProperties, SubSeqEmpty DEF Idle
  <2>3. Tail(SubSeq(items, told + 1, Len(items))) = SubSeq(items, told + 1 + 1, Len(items))
    BY <2>1, <2>2, HeadTailOfSubSeq
  <2> QED
    BY <2>1, <2>3 DEF Idle
<1> QED
  BY <1>1, <1>2

LEMMA ReleaseSendOwnership ==
  ASSUME IInv, TypeOK', ReleaseSend
  PROVE  Ownership'
<1> DEFINE w == Head(Idle)
<1>1. /\ Idle \in Seq(Workers) /\ Idle # <<>> /\ Idle' = Tail(Idle)
      /\ inbox' = [inbox EXCEPT ![w] = Nil] /\ UNCHANGED <<hold, wk, plist, pidx>>
      /\ inbox \in [Workers -> Tasks \cup {Nil, Nothing}]
  BY IdleType, ReleaseSendTells DEF IInv, TypeOK, ReleaseSend, subVars, purgeVars
<1>2. /\ w \in Workers /\ w = Idle[1] /\ Len(Idle) \in Nat \ {0}
      /\ Tail(Idle) \in Seq(Workers) /\ Len(Tail(Idle)) = Len(Idle) - 1
      /\ \A i \in 1..(Len(Idle) - 1) : Tail(Idle)[i] = Idle[i + 1]
  BY <1>1, HeadTailProperties, EmptySeq
<1>3. Range(Idle) = {Idle[i] : i \in 1..Len(Idle)}
  BY <1>1, RangeEquality
<1>4. Range(Idle') = {Idle'[i] : i \in 1..Len(Idle')}
  <2>1. Idle' \in Seq(Workers)
    BY <1>1, <1>2
  <2> QED
    BY <2>1, RangeEquality
<1>5. \A i, j \in 1..Len(Idle) : Idle[i] = Idle[j] => i = j
  BY DEF IInv, Ownership, HeldNotQueued
<1>6. w \in Range(Idle) /\ w \notin Range(Idle') /\ Range(Idle') \subseteq Range(Idle)
  BY <1>1, <1>2, <1>3, <1>4, <1>5
<1>7. \A i, j \in 1..Len(Idle') : Idle'[i] = Idle'[j] => i = j
  BY <1>1, <1>2, <1>5
<1>8. HeldByOneCaller' /\ HeldNotQueued'
  BY <1>1, <1>6, <1>7 DEF IInv, Ownership, HeldByOneCaller, HeldNotQueued
<1>9. PurgedAlone'
  BY <1>1, <1>6 DEF IInv, Ownership, PurgedAlone, Remaining
<1>10. /\ wk[w] = "recv" /\ \A t \in Tasks : hold[t] # w
       /\ \A p \in Purgers : w \notin Remaining(p)
  BY <1>2, <1>6 DEF IInv, Ownership, HeldNotQueued, PurgedAlone, IdleIsReceiving
<1>11. IdleIsReceiving'
  BY <1>1, <1>2, <1>6, <1>10 DEF IInv, Ownership, IdleIsReceiving, Remaining
<1>12. EmptyUnlessReceiving'
  BY <1>1, <1>10 DEF IInv, Ownership, EmptyUnlessReceiving
<1> QED
  BY <1>8, <1>9, <1>11, <1>12 DEF Ownership

\* The list of the only purger is the whole queue, which is then empty.
LEMMA PurgeExpireOwnership ==
  ASSUME NonblockingOnePurger, IInv, TypeOK', NEW p \in Purgers, PurgeExpire(p)
  PROVE  Ownership'
<1>1. /\ plist'[p] = items /\ pidx'[p] = 1 /\ items' = <<>>
      /\ UNCHANGED <<hold, wk, inbox>> /\ items \in Seq(Workers)
      /\ \A q \in Purgers : q = p
  BY DEF NonblockingOnePurger, OnePurger, IInv, TypeOK, PurgeExpire, Unexpired, subVars, workerVars
<1>2. Idle = items /\ Idle' = items'
  <2>1. told = 0 /\ UNCHANGED told
    BY DEF IInv, ToldWhileReset, LockHolders, PurgeExpire
  <2> QED
    BY <2>1, WholeQueue DEF IInv
<1>3. Range(items) = {items[i] : i \in 1..Len(items)}
  BY <1>1, RangeEquality
<1>4. Range(Idle)' = {} /\ \A i, j \in 1..Len(Idle') : i = j
  <2>1. items' \in Seq(Workers) /\ Len(items') = 0
    BY <1>1, EmptySeq
  <2>2. Range(items') = {items'[i] : i \in 1..Len(items')}
    BY <2>1, RangeEquality
  <2> QED
    BY <1>2, <2>1, <2>2
<1>5. \A q \in Purgers : Remaining(q)' = Range(Idle)
  BY <1>1, <1>3, <1>2 DEF Remaining
<1>6. HeldByOneCaller' /\ HeldNotQueued'
  BY <1>1, <1>4 DEF IInv, Ownership, HeldByOneCaller, HeldNotQueued
<1>7. PurgedAlone'
  BY <1>1, <1>4, <1>5, <1>2 DEF IInv, Ownership, HeldNotQueued, PurgedAlone
<1>8. IdleIsReceiving'
  BY <1>1, <1>4, <1>5 DEF IInv, Ownership, IdleIsReceiving
<1>9. EmptyUnlessReceiving'
  BY <1>1 DEF IInv, Ownership, EmptyUnlessReceiving
<1> QED
  BY <1>6, <1>7, <1>8, <1>9 DEF Ownership

LEMMA PurgeSendOwnership ==
  ASSUME NonblockingOnePurger, IInv, NEW p \in Purgers, PurgeSend(p)
  PROVE  Ownership'
<1> DEFINE w == plist[p][pidx[p]]
<1>1. /\ inbox' = [inbox EXCEPT ![w] = Nil] /\ pidx' = [pidx EXCEPT ![p] = @ + 1]
      /\ UNCHANGED <<hold, wk, plist>> /\ Idle' = Idle
      /\ pidx[p] \in 1..Len(plist[p]) /\ pidx[p] \in Nat /\ Len(plist[p]) \in Nat
      /\ pidx \in [Purgers -> Nat \ {0}] /\ inbox \in [Workers -> Tasks \cup {Nil, Nothing}]
      /\ \A q \in Purgers : q = p
  BY LenProperties DEF NonblockingOnePurger, OnePurger, IInv, TypeOK, PurgeSend, Idle, queueVars, subVars
<1>2. w \in Remaining(p) /\ Remaining(p) \subseteq Workers
  BY <1>1, RemainingAreWorkers DEF IInv, Remaining
<1>3. \A i, j \in pidx[p]..Len(plist[p]) : plist[p][i] = plist[p][j] => i = j
  BY DEF IInv, Ownership, PurgedAlone
<1>4. Remaining(p)' \subseteq Remaining(p) /\ w \notin Remaining(p)'
  BY <1>1, <1>3 DEF Remaining
<1>5. /\ wk[w] = "recv" /\ w \notin Range(Idle) /\ \A t \in Tasks : hold[t] # w
  BY <1>2 DEF IInv, Ownership, PurgedAlone, IdleIsReceiving
<1>6. HeldByOneCaller' /\ HeldNotQueued'
  BY <1>1 DEF IInv, Ownership, HeldByOneCaller, HeldNotQueued
<1>7. PurgedAlone'
  BY <1>1, <1>3, <1>4 DEF IInv, Ownership, PurgedAlone
<1>8. IdleIsReceiving'
  BY <1>1, <1>2, <1>4, <1>5 DEF IInv, Ownership, IdleIsReceiving
<1>9. EmptyUnlessReceiving'
  BY <1>1, <1>5 DEF IInv, Ownership, EmptyUnlessReceiving
<1> QED
  BY <1>6, <1>7, <1>8, <1>9 DEF Ownership

LEMMA PurgeEndOwnership ==
  ASSUME NonblockingOnePurger, IInv, NEW p \in Purgers, PurgeEnd(p)
  PROVE  Ownership'
<1>1. /\ plist'[p] = <<>> /\ pidx'[p] = 1 /\ UNCHANGED <<hold, wk, inbox>> /\ Idle' = Idle
      /\ \A q \in Purgers : q = p
  BY DEF NonblockingOnePurger, OnePurger, IInv, TypeOK, PurgeEnd, Idle, queueVars, subVars, workerVars
<1>2. \A q \in Purgers : /\ Remaining(q)' = {}
                         /\ \A i \in pidx'[q]..Len(plist'[q]) : FALSE
  BY <1>1, EmptySeq DEF Remaining
<1> QED
  BY <1>1, <1>2
  DEF IInv, Ownership, HeldByOneCaller, HeldNotQueued, PurgedAlone, IdleIsReceiving,
      EmptyUnlessReceiving

LEMMA InitInv == Init => IInv
<1> SUFFICES ASSUME Init PROVE IInv
  OBVIOUS
<1>1. TypeOK
  BY InitType
<1>2. /\ items = <<>> /\ told = 0 /\ rel = "idle" /\ cond = <<>> /\ sub = [t \in Tasks |-> "new"]
      /\ hold = [t \in Tasks |-> NoWorker] /\ inbox = [w \in Workers |-> Nothing]
      /\ plist = [p \in Purgers |-> <<>>] /\ pidx = [p \in Purgers |-> 1]
  BY DEF Init
<1>3. NoWaiters /\ HoldsToSend /\ ToldWhileReset /\ LockHolders
  BY <1>2 DEF NoWaiters, HoldsToSend, ToldWhileReset, LockHolders
<1>4. Range(Idle) = {} /\ Len(Idle) = 0
  <2>1. items \in Seq(Workers) /\ Idle = items
    BY <1>1, <1>2, IdleIsQueue DEF TypeOK, Idle
  <2>2. Range(items) = {items[i] : i \in 1..Len(items)}
    BY <2>1, RangeEquality
  <2> QED
    BY <1>2, <2>1, <2>2, EmptySeq
<1>5. \A p \in Purgers : Remaining(p) = {} /\ \A i \in pidx[p]..Len(plist[p]) : FALSE
  BY <1>2, EmptySeq DEF Remaining
<1>6. \A t \in Tasks : hold[t] = NoWorker
  BY <1>2
<1>7. HeldByOneCaller /\ HeldNotQueued /\ PurgedAlone
  BY <1>4, <1>5, <1>6 DEF HeldByOneCaller, HeldNotQueued, PurgedAlone
<1>8. IdleIsReceiving /\ EmptyUnlessReceiving
  BY <1>2, <1>4, <1>5, <1>6, ConstantsAssumption DEF IdleIsReceiving, EmptyUnlessReceiving
<1> QED
  BY <1>1, <1>3, <1>7, <1>8 DEF IInv, Ownership

\* Nobody waits: with Nonblocking, a full pool refuses the call.
LEMMA StepNoWaiters ==
  ASSUME opts.nonblocking, TypeOK, NoWaiters, HoldsToSend, [Next]_vars
  PROVE  NoWaiters' /\ HoldsToSend'
<1>1. opts.nonblocking /\ cond = <<>>
  BY DEF NoWaiters
<1>2. ASSUME NEW t \in Tasks, Submit(t) \/ Proceed(t) PROVE NoWaiters' /\ HoldsToSend'
  <2>1. CASE Submit(t)
    BY <2>1 DEF TypeOK, NoWaiters, HoldsToSend, Submit, condVars
  <2>2. CASE RetrieveFast(t)
    BY <2>2 DEF TypeOK, NoWaiters, HoldsToSend, RetrieveFast, condVars
  <2>3. CASE RetrieveCheck(t)
    <3>1. /\ sub' = [sub EXCEPT ![t] = "spawn"] \/ sub' = [sub EXCEPT ![t] = "overload"]
          /\ UNCHANGED <<cond, hold>> /\ sub[t] = "check"
      BY <1>1, <2>3 DEF RetrieveCheck, condVars
    <3> QED
      BY <3>1 DEF TypeOK, NoWaiters, HoldsToSend
  <2>4. CASE Spawn(t)
    <3>1. /\ sub' = [sub EXCEPT ![t] = "send"] /\ cond' = cond
          /\ \A u \in Tasks \ {t} : hold'[u] = hold[u]
      BY <2>4 DEF TypeOK, NoWaiters, Spawn, condVars
    <3> QED
      BY <3>1 DEF TypeOK, NoWaiters, HoldsToSend
  <2>5. CASE Send(t)
    BY <2>5 DEF TypeOK, NoWaiters, HoldsToSend, Send, condVars
  <2>6. CASE Wake(t) \/ UnlockedDetach(t) \/ UnlockedShrink(t) \/ UnlockedReenter(t)
    BY <2>6 DEF NoWaiters, Wake, UnlockedDetach, UnlockedShrink, UnlockedReenter
  <2> QED
    BY <1>2, <2>1, <2>2, <2>3, <2>4, <2>5, <2>6 DEF Proceed
<1>3. ASSUME NEW w \in Workers, Serve(w) PROVE UNCHANGED <<cond, sub, hold>>
  BY <1>1, <1>3 DEF Serve, Receive, RunTask, RevertCheck, RevertInsert, Exit, Signal,
     condVars, subVars
<1>4. ASSUME NEW p \in Purgers, Reboot(p) \/ Purge(p) PROVE NoWaiters' /\ HoldsToSend'
  <2>1. CASE PurgeBroadcast(p)
    <3>1. cond' = <<>> /\ hold' = hold /\ \A t \in Tasks : sub'[t] = sub[t]
      BY <2>1 DEF NoWaiters, PurgeBroadcast
    <3> QED
      BY <3>1 DEF NoWaiters, HoldsToSend
  <2>2. CASE ~PurgeBroadcast(p)
    <3>1. UNCHANGED <<cond, sub, hold>>
      BY <1>4, <2>2 DEF Reboot, Purge, PurgeTick, PurgeExpire, PurgeSend, PurgeEnd,
         condVars, subVars
    <3> QED
      BY <3>1 DEF NoWaiters, HoldsToSend
  <2> QED
    BY <2>1, <2>2
<1>5. ASSUME NEW size \in TuneSizes, Tune(size) PROVE UNCHANGED <<cond, sub, hold>>
  BY <1>5 DEF Tune, condVars, subVars
<1>6. CASE ReleaseClose \/ Reset
  BY <1>6 DEF NoWaiters, HoldsToSend, ReleaseClose, Reset, ReleaseLock, ReleaseSend,
     ReleaseDone, condVars, subVars
<1>7. CASE UNCHANGED vars
  BY <1>7 DEF NoWaiters, HoldsToSend, vars, condVars, subVars
<1> QED
  BY <1>2, <1>3, <1>4, <1>5, <1>6, <1>7 DEF Next, NoWaiters, HoldsToSend

LEMMA StepTold ==
  ASSUME TypeOK, ToldWhileReset, [Next]_vars
  PROVE  ToldWhileReset'
<1>1. ASSUME NEW t \in Tasks, Submit(t) \/ Proceed(t) PROVE UNCHANGED <<opts, rel, told>>
  BY <1>1 DEF Submit, Proceed, RetrieveFast, RetrieveCheck, Wake, Spawn, UnlockedDetach,
     UnlockedShrink, UnlockedReenter, Send, poolVars, queueVars
<1>2. ASSUME NEW w \in Workers, Serve(w) PROVE UNCHANGED <<opts, rel, told>>
  BY <1>2 DEF Serve, Receive, RunTask, RevertCheck, RevertInsert, Exit, poolVars, queueVars
<1>3. ASSUME NEW p \in Purgers, Reboot(p) \/ Purge(p) PROVE UNCHANGED <<opts, rel, told>>
  BY <1>3 DEF Reboot, Purge, PurgeTick, PurgeExpire, PurgeSend, PurgeEnd, PurgeBroadcast,
     poolVars, queueVars
<1>4. ASSUME NEW size \in TuneSizes, Tune(size) PROVE UNCHANGED <<opts, rel, told>>
  BY <1>4 DEF Tune, queueVars
<1>5. CASE ReleaseClose \/ Reset
  BY <1>5 DEF ToldWhileReset, ReleaseClose, Reset, ReleaseLock, ReleaseSend, ReleaseDone,
     poolVars, queueVars
<1>6. CASE UNCHANGED vars
  BY <1>6 DEF vars, poolVars, queueVars, ToldWhileReset
<1> QED
  BY <1>1, <1>2, <1>3, <1>4, <1>5, <1>6 DEF Next, ToldWhileReset

\* A nonblocking call gives the lock back that it took, Release only its own.
LEMMA StepLock ==
  ASSUME opts.nonblocking, TypeOK, NoWaiters, LockHolders, [Next]_vars
  PROVE  LockHolders'
<1>1. ASSUME NEW t \in Tasks, Submit(t) \/ Proceed(t) PROVE LockHolders'
  <2>1. CASE RetrieveFast(t)
    BY <2>1 DEF TypeOK, LockHolders, RetrieveFast
  <2>2. CASE RetrieveCheck(t)
    <3>1. /\ sub' = [sub EXCEPT ![t] = "spawn"] \/ sub' = [sub EXCEPT ![t] = "overload"]
          /\ UNCHANGED rel /\ sub[t] = "check"
      BY <2>2 DEF RetrieveCheck
    <3> QED
      BY <3>1 DEF TypeOK, LockHolders
  <2>3. CASE Submit(t) \/ Spawn(t) \/ Send(t)
    <3>1. UNCHANGED <<lock, rel>> /\ \A u \in Tasks : sub'[u] = "check" => sub[u] = "check"
      BY <2>3 DEF TypeOK, Submit, Spawn, Send
    <3> QED
      BY <3>1 DEF LockHolders
  <2>4. CASE Wake(t) \/ UnlockedDetach(t) \/ UnlockedShrink(t) \/ UnlockedReenter(t)
    BY <2>4 DEF NoWaiters, Wake, UnlockedDetach, UnlockedShrink, UnlockedReenter
  <2> QED
    BY <1>1, <2>1, <2>2, <2>3, <2>4 DEF Proceed
<1>2. ASSUME NEW w \in Workers, Serve(w) PROVE UNCHANGED <<sub, lock, rel>>
  BY <1>2 DEF Serve, Receive, RunTask, RevertCheck, RevertInsert, Exit, Signal, NoWaiters,
     subVars
<1>3. ASSUME NEW p \in Purgers, Reboot(p) \/ Purge(p) PROVE LockHolders'
  <2>1. UNCHANGED <<lock, rel>> /\ \A u \in Tasks : sub'[u] = "check" => sub[u] = "check"
    BY <1>3 DEF TypeOK, Reboot, Purge, PurgeTick, PurgeExpire, PurgeSend, PurgeEnd,
       PurgeBroadcast, subVars
  <2> QED
    BY <2>1 DEF LockHolders
<1>4. ASSUME NEW size \in TuneSizes, Tune(size) PROVE UNCHANGED <<sub, lock, rel>>
  BY <1>4 DEF Tune, subVars
<1>5. CASE ReleaseClose \/ Reset
  BY <1>5 DEF LockHolders, ReleaseClose, Reset, ReleaseLock, ReleaseSend, ReleaseDone, subVars
<1>6. CASE UNCHANGED vars
  BY <1>6 DEF vars, subVars, LockHolders
<1> QED
  BY <1>1, <1>2, <1>3, <1>4, <1>5, <1>6 DEF Next, LockHolders

LEMMA StepOwnership ==
  ASSUME NonblockingOnePurger, IInv, TypeOK', [Next]_vars
  PROVE  Ownership'
<1>1. ASSUME NEW t \in Tasks, Submit(t) \/ Proceed(t) PROVE Ownership'
  <2>1. CASE Submit(t) \/ RetrieveCheck(t)
    <3>1. UNCHANGED <<items, told, hold, wk, inbox, plist, pidx>>
      BY <2>1 DEF Submit, RetrieveCheck, queueVars, workerVars, purgeVars
    <3> QED
      BY <3>1, OwnershipKept DEF IInv
  <2>2. CASE Wake(t) \/ UnlockedDetach(t) \/ UnlockedShrink(t) \/ UnlockedReenter(t)
    BY <2>2 DEF IInv, NoWaiters, Wake, UnlockedDetach, UnlockedShrink, UnlockedReenter
  <2> QED
    BY <1>1, <2>1, <2>2, RetrieveFastOwnership, SpawnOwnership, SendOwnership DEF Proceed
<1>2. ASSUME NEW w \in Workers, Serve(w) PROVE Ownership'
  <2>1. CASE RevertInsert(w)
    BY <2>1, RevertInsertOwnership
  <2>2. CASE Receive(w) \/ RunTask(w) \/ RevertCheck(w) \/ Exit(w)
    <3>1. ~Owned(w)
      BY <2>2, BusyIsNotOwned DEF IInv, Receive, RunTask, RevertCheck, Exit
    <3>2. /\ UNCHANGED <<items, told, hold, plist, pidx>>
          /\ \A v \in Workers \ {w} : wk'[v] = wk[v] /\ inbox'[v] = inbox[v]
      BY <2>2 DEF IInv, TypeOK, Receive, RunTask, RevertCheck, Exit, queueVars, subVars, purgeVars
    <3>3. inbox'[w] = Nothing
      <4>1. CASE Receive(w)
        BY <4>1 DEF IInv, TypeOK, Receive
      <4>2. CASE RunTask(w) \/ RevertCheck(w) \/ Exit(w)
        BY <4>2 DEF IInv, Ownership, EmptyUnlessReceiving, RunTask, RevertCheck, Exit
      <4> QED
        BY <2>2, <4>1, <4>2
    <3> QED
      BY <3>1, <3>2, <3>3, LonelyStep DEF IInv
  <2> QED
    BY <1>2, <2>1, <2>2 DEF Serve
<1>3. ASSUME NEW p \in Purgers, Reboot(p) \/ Purge(p) PROVE Ownership'
  <2>1. CASE Reboot(p) \/ PurgeTick(p) \/ PurgeBroadcast(p)
    <3>1. UNCHANGED <<items, told, hold, wk, inbox, plist, pidx>>
      BY <2>1 DEF Reboot, PurgeTick, PurgeBroadcast, queueVars, subVars, workerVars
    <3> QED
      BY <3>1, OwnershipKept DEF IInv
  <2> QED
    BY <1>3, <2>1, PurgeExpireOwnership, PurgeSendOwnership, PurgeEndOwnership DEF Purge
<1>4. ASSUME NEW size \in TuneSizes, Tune(size) PROVE Ownership'
  BY <1>4, OwnershipKept DEF IInv, Tune, queueVars, subVars, workerVars, purgeVars
<1>5. CASE ReleaseSend
  BY <1>5, ReleaseSendOwnership
<1>6. CASE ReleaseDone
  <2>1. /\ Idle = <<>> /\ items' = <<>> /\ told' = 0
        /\ UNCHANGED <<hold, wk, inbox, plist, pidx>> /\ items' \in Seq(Workers)
    BY <1>6 DEF TypeOK, ReleaseDone, subVars, workerVars, purgeVars
  <2>2. Idle' = Idle
    BY <2>1, IdleIsQueue DEF Idle
  <2> QED
    BY <2>1, <2>2 DEF IInv, Ownership, HeldByOneCaller, HeldNotQueued, PurgedAlone,
       IdleIsReceiving, EmptyUnlessReceiving, Remaining
<1>7. CASE ReleaseClose \/ ReleaseLock
  <2>1. UNCHANGED <<items, told, hold, wk, inbox, plist, pidx>>
    BY <1>7 DEF ReleaseClose, ReleaseLock, queueVars, subVars, workerVars, purgeVars
  <2> QED
    BY <2>1, OwnershipKept DEF IInv
<1>8. CASE UNCHANGED vars
  BY <1>8, OwnershipKept DEF IInv, vars, queueVars, subVars, workerVars, purgeVars
<1> QED
  BY <1>1, <1>2, <1>3, <1>4, <1>5, <1>7, <1>8, <1>6 DEF Next, Reset

\* The options are never assigned after NewPool.
LEMMA OptionsConstant ==
  ASSUME [Next]_vars
  PROVE  opts' = opts
<1>1. ASSUME NEW t \in Tasks, Submit(t) \/ Proceed(t) PROVE opts' = opts
  BY <1>1 DEF Submit, Proceed, RetrieveFast, RetrieveCheck, Wake, Spawn, UnlockedDetach,
     UnlockedShrink, UnlockedReenter, Send, poolVars
<1>2. ASSUME NEW w \in Workers, Serve(w) PROVE opts' = opts
  BY <1>2 DEF Serve, Receive, RunTask, RevertCheck, RevertInsert, Exit, poolVars
<1>3. ASSUME NEW p \in Purgers, Reboot(p) \/ Purge(p) PROVE opts' = opts
  BY <1>3 DEF Reboot, Purge, PurgeTick, PurgeExpire, PurgeSend, PurgeEnd, PurgeBroadcast, poolVars
<1>4. ASSUME NEW size \in TuneSizes, Tune(size) PROVE opts' = opts
  BY <1>4 DEF Tune
<1>5. CASE ReleaseClose \/ Reset
  BY <1>5 DEF ReleaseClose, Reset, ReleaseLock, ReleaseSend, ReleaseDone, poolVars
<1>6. CASE UNCHANGED vars
  BY <1>6 DEF vars, poolVars
<1> QED
  BY <1>1, <1>2, <1>3, <1>4, <1>5, <1>6 DEF Next

LEMMA SpecInv ==
  ASSUME OnePurger
  PROVE  Spec => [](opts.nonblocking => IInv)
<1> DEFINE Inv == opts.nonblocking => IInv
<1>1. Init => Inv
  BY InitInv
<1>2. Inv /\ [Next]_vars => Inv'
  <2> SUFFICES ASSUME opts'.nonblocking, Inv, [Next]_vars PROVE IInv'
    OBVIOUS
  <2>1. NonblockingOnePurger /\ IInv
    BY OptionsConstant, OnePurger DEF NonblockingOnePurger
  <2> QED
    BY <2>1, StepType, StepNoWaiters, StepTold, StepLock, StepOwnership
    DEF IInv, NonblockingOnePurger
<1> QED
  BY <1>1, <1>2, PTL DEF Spec

\* In a nonblocking pool with one purger at a time a worker has one owner at
\* most: a caller of Submit, the queue or the purger (ants.go:45-46).
THEOREM WorkerOwnership ==
  ASSUME OnePurger
  PROVE  Spec => []NonblockingOneOwner
<1>1. (opts.nonblocking => IInv) => NonblockingOneOwner
  BY DEF IInv, Ownership, NonblockingOneOwner, OneOwner
<1> QED
  BY <1>1, SpecInv, PTL

\* In a nonblocking pool with one purger at a time whoever owns a worker sends
\* to a goroutine that is receiving on an empty channel: neither Submit, nor
\* Release with the spinlock held, nor the purger waits for a function to end
\* (ants.go:47-48).
THEOREM OwnersDoNotWait ==
  ASSUME OnePurger
  PROVE  Spec => []NonblockingIdleIsReceiving
<1>1. (opts.nonblocking => IInv) => NonblockingIdleIsReceiving
  BY DEF IInv, Ownership, NonblockingIdleIsReceiving
<1> QED
  BY <1>1, SpecInv, PTL

-----------------------------------------------------------------------------
(* A function is run once at most, in every mode of the pool: also with     *)
(* waiters, in the branch without the lock, and with several purgers.       *)

\* The condition variable holds each waiter once, and only waiters: Signal
\* wakes no call that has gone on.
CondHoldsWaiters ==
  /\ \A i \in 1..Len(cond) : sub[cond[i]] = "waiting"
  /\ \A i, j \in 1..Len(cond) : cond[i] = cond[j] => i = j

\* A worker has a function only while it runs it.
JobWhileRunning == \A w \in Workers : wk[w] # "run" => job[w] = Nothing

Absent(t) == \A w \in Workers : inbox[w] # t /\ job[w] # t

\* What RunsAtMostOnce says of one function.
OnceAtMost(t) ==
  /\ \A v, w \in Workers : inbox[v] = t /\ inbox[w] = t => v = w
  /\ \A v, w \in Workers : job[v] = t /\ job[w] = t => v = w
  /\ \A v, w \in Workers : ~(inbox[v] = t /\ job[w] = t)
  /\ runs[t] # 0 => runs[t] = 1 /\ Absent(t)
  /\ sub[t] # "ok" => Absent(t) /\ runs[t] = 0

OnceInv ==
  /\ CondHoldsWaiters
  /\ JobWhileRunning
  /\ \A t \in Tasks \ NilTasks : OnceAtMost(t)

\* An accepted function is with one worker at most, waits for no second run,
\* and a function whose Submit returned an error is nowhere.
RunsAtMostOnce ==
  \A t \in Tasks \ NilTasks :
    LET places == {w \in Workers : inbox[w] = t} \cup {w \in Workers : job[w] = t}
    IN  /\ Cardinality(places) <= 1
        /\ \A w \in places : inbox[w] # job[w]
        /\ runs[t] # 0 => runs[t] = 1 /\ places = {}
        /\ sub[t] # "ok" => places = {} /\ runs[t] = 0

\* A step of a call of Submit that is not asleep.
LEMMA WaitersKept ==
  ASSUME TypeOK, CondHoldsWaiters, NEW t \in Tasks, sub[t] # "waiting",
         \/ cond' = cond /\ \A u \in Tasks \ {t} : sub'[u] = sub[u]
         \/ cond' = Append(cond, t) /\ sub' = [sub EXCEPT ![t] = "waiting"]
  PROVE  CondHoldsWaiters'
<1>1. /\ cond \in Seq(Tasks) /\ Len(cond) \in Nat
      /\ \A i \in 1..Len(cond) : cond[i] \in Tasks /\ cond[i] # t
  BY LenProperties, ElementOfSeq DEF TypeOK, CondHoldsWaiters
<1>2. CASE cond' = cond /\ \A u \in Tasks \ {t} : sub'[u] = sub[u]
  BY <1>1, <1>2 DEF CondHoldsWaiters
<1>3. CASE cond' = Append(cond, t) /\ sub' = [sub EXCEPT ![t] = "waiting"]
  <2>1. /\ Len(cond') = Len(cond) + 1 /\ cond'[Len(cond) + 1] = t
        /\ \A i \in 1..Len(cond) : cond'[i] = cond[i]
    BY <1>1, <1>3, AppendProperties
  <2>2. \A i \in 1..Len(cond') : i \in 1..Len(cond) \/ i = Len(cond) + 1
    BY <1>1, <2>1
  <2>3. sub'[t] = "waiting" /\ \A u \in Tasks \ {t} : sub'[u] = sub[u]
    BY <1>3 DEF TypeOK
  <2>4. \A i \in 1..Len(cond') : sub'[cond'[i]] = "waiting"
    BY <1>1, <2>1, <2>2, <2>3 DEF CondHoldsWaiters
  <2>5. ASSUME NEW i \in 1..Len(cond'), NEW j \in 1..Len(cond'), cond'[i] = cond'[j]
        PROVE  i = j
    BY <1>1, <2>1, <2>2, <2>5 DEF CondHoldsWaiters
  <2> QED
    BY <2>4, <2>5 DEF CondHoldsWaiters
<1> QED
  BY <1>2, <1>3

\* Signal takes the first waiter, which is no longer waiting.
LEMMA SignalKept ==
  ASSUME TypeOK, CondHoldsWaiters, Signal
  PROVE  /\ CondHoldsWaiters'
         /\ \A t \in Tasks : sub'[t] = "ok" <=> sub[t] = "ok"
<1>1. CASE cond = <<>>
  BY <1>1 DEF Signal, CondHoldsWaiters
<1>2. CASE cond # <<>>
  <2>1. /\ cond \in Seq(Tasks) /\ Len(cond) \in Nat /\ Len(cond) >= 1
        /\ Head(cond) = cond[1] /\ Head(cond) \in Tasks
        /\ \A i \in 1..Len(cond) : cond[i] \in Tasks
    BY <1>2, LenProperties, ElementOfSeq, EmptySeq, HeadTailProperties DEF TypeOK
  <2>2. /\ cond' = Tail(cond) /\ Len(Tail(cond)) = Len(cond) - 1
        /\ \A i \in 1..(Len(cond) - 1) : Tail(cond)[i] = cond[i + 1]
    BY <1>2, <2>1, HeadTailProperties DEF Signal
  <2>3. sub'[cond[1]] = "woken" /\ \A u \in Tasks \ {cond[1]} : sub'[u] = sub[u]
    BY <1>2, <2>1 DEF Signal, TypeOK
  <2>4. \A i \in 1..Len(cond') : i + 1 \in 1..Len(cond) /\ i + 1 # 1 /\ cond'[i] = cond[i + 1]
    BY <2>1, <2>2
  <2>5. 1 \in 1..Len(cond) /\ sub[cond[1]] = "waiting"
    BY <2>1 DEF CondHoldsWaiters
  <2>6. \A i \in 1..Len(cond') : cond'[i] # cond[1] /\ cond'[i] \in Tasks
    BY <2>1, <2>4, <2>5 DEF CondHoldsWaiters
  <2>7. \A i \in 1..Len(cond') : sub'[cond'[i]] = "waiting"
    BY <2>3, <2>4, <2>6 DEF CondHoldsWaiters
  <2>8. ASSUME NEW i \in 1..Len(cond'), NEW j \in 1..Len(cond'), cond'[i] = cond'[j]
        PROVE  i = j
    <3>1. i + 1 = j + 1 /\ i \in Int /\ j \in Int
      BY <2>4, <2>8 DEF CondHoldsWaiters
    <3> QED
      BY <3>1
  <2> QED
    BY <2>3, <2>5, <2>7, <2>8 DEF CondHoldsWaiters
<1> QED
  BY <1>1, <1>2

\* A step that moves no function.
LEMMA FunctionsKept ==
  ASSUME OnceInv, UNCHANGED <<inbox, job, runs>>,
         \A t \in Tasks : sub'[t] = "ok" <=> sub[t] = "ok"
  PROVE  \A t \in Tasks \ NilTasks : OnceAtMost(t)'
BY DEF OnceInv, OnceAtMost, Absent

\* nil is sent to a worker whose channel is empty.
LEMMA NilKept ==
  ASSUME TypeOK, OnceInv, NEW w \in Workers, inbox[w] = Nothing,
         inbox' = [inbox EXCEPT ![w] = Nil], UNCHANGED <<job, runs, sub, wk, cond>>
  PROVE  OnceInv'
<1>1. \A v \in Workers : inbox'[v] = IF v = w THEN Nil ELSE inbox[v]
  BY DEF TypeOK
<1>2. \A t \in Tasks : t # Nil
  BY ConstantsAssumption
<1>3. \A t \in Tasks \ NilTasks : OnceAtMost(t)'
  BY <1>1, <1>2 DEF OnceInv, OnceAtMost, Absent
<1> QED
  BY <1>3 DEF OnceInv, CondHoldsWaiters, JobWhileRunning

LEMMA InitOnce == Init => OnceInv
<1> SUFFICES ASSUME Init PROVE OnceInv
  OBVIOUS
<1>1. /\ cond = <<>> /\ inbox = [w \in Workers |-> Nothing]
      /\ job = [w \in Workers |-> Nothing] /\ runs = [t \in Tasks |-> 0]
  BY DEF Init
<1>2. \A t \in Tasks : OnceAtMost(t)
  BY <1>1, ConstantsAssumption DEF OnceAtMost, Absent
<1> QED
  BY <1>1, <1>2, EmptySeq DEF OnceInv, CondHoldsWaiters, JobWhileRunning

\* Only a call that has not returned yet sends its function: it was nowhere.
LEMMA SendOnce ==
  ASSUME TypeOK, OnceInv, NEW t \in Tasks, Send(t)
  PROVE  OnceInv'
<1>1. /\ sub[t] = "send" /\ hold[t] \in Workers /\ inbox[hold[t]] = Nothing
      /\ sub' = [sub EXCEPT ![t] = "ok"] /\ UNCHANGED <<cond, job, runs, wk>>
  BY DEF TypeOK, Send, CanSend, condVars
<1>2. \A v \in Workers : inbox'[v] = IF v = hold[t] THEN Message(t) ELSE inbox[v]
  BY DEF TypeOK, Send
<1>3. sub'[t] = "ok" /\ \A u \in Tasks \ {t} : sub'[u] = sub[u]
  BY <1>1 DEF TypeOK
<1>4. Nil \notin Tasks /\ Nothing \notin Tasks
  BY ConstantsAssumption
<1>5. ASSUME NEW u \in Tasks \ NilTasks PROVE OnceAtMost(u)'
  <2>1. OnceAtMost(u)
    BY DEF OnceInv
  <2>2. CASE u = t
    <3>1. Absent(t) /\ runs[t] = 0 /\ Message(t) = t
      BY <1>1, <2>1, <2>2 DEF OnceAtMost, Message
    <3> QED
      BY <1>1, <1>2, <1>3, <2>2, <3>1 DEF OnceAtMost, Absent
  <2>3. CASE u # t
    <3>1. Message(t) # u
      BY <1>4, <2>3 DEF Message
    <3> QED
      BY <1>1, <1>2, <1>3, <1>4, <2>1, <2>3, <3>1 DEF OnceAtMost, Absent
  <2> QED
    BY <2>2, <2>3
<1>6. CondHoldsWaiters'
  BY <1>1, <1>3, WaitersKept DEF OnceInv
<1> QED
  BY <1>1, <1>5, <1>6 DEF OnceInv, JobWhileRunning

\* The function goes from the channel to the goroutine.
LEMMA ReceiveOnce ==
  ASSUME TypeOK, OnceInv, NEW w \in Workers, Receive(w)
  PROVE  OnceInv'
<1>1. /\ wk[w] = "recv" /\ UNCHANGED <<cond, sub, runs>>
      /\ \A v \in Workers : inbox'[v] = IF v = w THEN Nothing ELSE inbox[v]
  BY DEF TypeOK, Receive, condVars, subVars
<1>2. job[w] = Nothing
  BY <1>1 DEF OnceInv, JobWhileRunning
<1>3. \A v \in Workers \ {w} : job'[v] = job[v] /\ wk'[v] = wk[v]
  BY DEF TypeOK, Receive
<1>4. \/ inbox[w] = Nil /\ wk'[w] = "exit" /\ job'[w] = job[w]
      \/ wk'[w] = "run" /\ job'[w] = inbox[w]
  BY DEF TypeOK, Receive, Ends
<1>5. Nil \notin Tasks /\ Nothing \notin Tasks
  BY ConstantsAssumption
<1>6. ASSUME NEW t \in Tasks \ NilTasks PROVE OnceAtMost(t)'
  <2>1. OnceAtMost(t)
    BY DEF OnceInv
  <2> QED
    BY <1>1, <1>2, <1>3, <1>4, <1>5, <2>1 DEF OnceAtMost, Absent
<1>7. JobWhileRunning'
  BY <1>2, <1>3, <1>4 DEF OnceInv, JobWhileRunning
<1> QED
  BY <1>1, <1>6, <1>7 DEF OnceInv, CondHoldsWaiters

\* The function leaves the goroutine, and has run.
LEMMA RunTaskOnce ==
  ASSUME TypeOK, OnceInv, NEW w \in Workers, RunTask(w)
  PROVE  OnceInv'
<1>1. /\ wk[w] = "run" /\ UNCHANGED <<cond, sub, inbox>>
      /\ \A t \in Tasks : runs'[t] = IF t = job[w] THEN runs[t] + 1 ELSE runs[t]
      /\ \A v \in Workers : job'[v] = IF v = w THEN Nothing ELSE job[v]
      /\ \A v \in Workers \ {w} : wk'[v] = wk[v]
  BY DEF TypeOK, RunTask, condVars, subVars
<1>2. Nothing \notin Tasks
  BY ConstantsAssumption
<1>3. ASSUME NEW t \in Tasks \ NilTasks PROVE OnceAtMost(t)'
  <2>1. OnceAtMost(t)
    BY DEF OnceInv
  <2> QED
    BY <1>1, <1>2, <2>1 DEF OnceAtMost, Absent
<1>4. JobWhileRunning'
  BY <1>1 DEF OnceInv, JobWhileRunning
<1> QED
  BY <1>1, <1>3, <1>4 DEF OnceInv, CondHoldsWaiters

\* What a call does before it sends, asleep and awake.
LEMMA RetrieveOnce ==
  ASSUME TypeOK, OnceInv, NEW t \in Tasks, Submit(t) \/ Proceed(t), ~Send(t)
  PROVE  OnceInv'
<1>1. /\ sub[t] # "waiting" /\ sub[t] # "ok"
      /\ UNCHANGED <<inbox, job, runs>>
  BY DEF Submit, Proceed, RetrieveFast, RetrieveCheck, Wake, Spawn, UnlockedDetach,
     UnlockedShrink, UnlockedReenter, workerVars
<1>2. /\ \/ cond' = cond /\ \A u \in Tasks \ {t} : sub'[u] = sub[u]
         \/ cond' = Append(cond, t) /\ sub' = [sub EXCEPT ![t] = "waiting"]
      /\ sub'[t] # "ok"
  <2>1. CASE Submit(t)
    BY <2>1 DEF TypeOK, Submit, condVars
  <2>2. CASE RetrieveFast(t)
    BY <2>2 DEF TypeOK, RetrieveFast, condVars
  <2>3. ASSUME NEW blocked, NEW increments, Reenter(t, cond, blocked, increments)
        PROVE  /\ \/ cond' = cond /\ \A u \in Tasks \ {t} : sub'[u] = sub[u]
                  \/ cond' = Append(cond, t) /\ sub' = [sub EXCEPT ![t] = "waiting"]
               /\ sub'[t] # "ok"
    BY <2>3 DEF TypeOK, Reenter
  <2>4. CASE RetrieveCheck(t)
    BY <2>3, <2>4 DEF TypeOK, RetrieveCheck, condVars
  <2>5. CASE Wake(t)
    BY <2>3, <2>5 DEF TypeOK, Wake
  <2>6. CASE Spawn(t)
    BY <2>6 DEF TypeOK, Spawn, condVars
  <2>7. CASE UnlockedDetach(t)
    BY <2>7 DEF TypeOK, UnlockedDetach, condVars
  <2>8. CASE UnlockedShrink(t)
    BY <2>8 DEF TypeOK, UnlockedShrink, condVars
  <2>9. CASE UnlockedReenter(t)
    BY <2>3, <2>9 DEF UnlockedReenter
  <2> QED
    BY <2>1, <2>2, <2>4, <2>5, <2>6, <2>7, <2>8, <2>9 DEF Proceed
<1>3. \A u \in Tasks : sub'[u] = "ok" <=> sub[u] = "ok"
  BY <1>1, <1>2 DEF TypeOK
<1>4. CondHoldsWaiters'
  BY <1>1, <1>2, WaitersKept DEF OnceInv
<1>5. \A u \in Tasks \ NilTasks : OnceAtMost(u)'
  BY <1>1, <1>3, FunctionsKept
<1>6. \A w \in Workers : wk'[w] = wk[w] \/ job[w] = Nothing
  <2>1. CASE Spawn(t)
    <3>1. PICK w \in Workers : wk[w] = "none" /\ wk' = [wk EXCEPT ![w] = "recv"]
      BY <2>1 DEF Spawn
    <3> QED
      BY <3>1 DEF TypeOK, OnceInv, JobWhileRunning
  <2>2. CASE ~Spawn(t)
    BY <2>2 DEF Submit, Proceed, RetrieveFast, RetrieveCheck, Wake, UnlockedDetach,
       UnlockedShrink, UnlockedReenter, workerVars
  <2> QED
    BY <2>1, <2>2
<1>7. JobWhileRunning'
  BY <1>1, <1>6 DEF OnceInv, JobWhileRunning
<1> QED
  BY <1>4, <1>5, <1>7 DEF OnceInv

\* The worker's way back to the queue, and its end.
LEMMA RevertOnce ==
  ASSUME TypeOK, OnceInv, NEW w \in Workers, RevertCheck(w) \/ RevertInsert(w) \/ Exit(w)
  PROVE  OnceInv'
<1>1. /\ UNCHANGED <<inbox, job, runs>> /\ wk[w] # "run"
      /\ \A v \in Workers \ {w} : wk'[v] = wk[v]
  BY DEF TypeOK, RevertCheck, RevertInsert, Exit
<1>2. JobWhileRunning'
  BY <1>1 DEF OnceInv, JobWhileRunning
<1>3. CondHoldsWaiters' /\ \A t \in Tasks : sub'[t] = "ok" <=> sub[t] = "ok"
  <2>1. CASE UNCHANGED <<cond, sub>>
    BY <2>1 DEF OnceInv, CondHoldsWaiters
  <2>2. CASE Signal
    BY <2>2, SignalKept DEF OnceInv
  <2> QED
    BY <2>1, <2>2 DEF RevertCheck, RevertInsert, Exit, condVars, subVars
<1>4. \A t \in Tasks \ NilTasks : OnceAtMost(t)'
  BY <1>1, <1>3, FunctionsKept
<1> QED
  BY <1>2, <1>3, <1>4 DEF OnceInv

LEMMA StepOnce ==
  ASSUME TypeOK, OnceInv, [Next]_vars
  PROVE  OnceInv'
<1>1. ASSUME UNCHANGED <<cond, sub, wk, inbox, job, runs>> PROVE OnceInv'
  BY <1>1 DEF OnceInv, CondHoldsWaiters, JobWhileRunning, OnceAtMost, Absent
<1>2. ASSUME NEW t \in Tasks, Submit(t) \/ Proceed(t) PROVE OnceInv'
  BY <1>2, SendOnce, RetrieveOnce
<1>3. ASSUME NEW w \in Workers, Serve(w) PROVE OnceInv'
  BY <1>3, ReceiveOnce, RunTaskOnce, RevertOnce DEF Serve
<1>4. ASSUME NEW p \in Purgers, Reboot(p) \/ Purge(p) PROVE OnceInv'
  <2>1. CASE PurgeSend(p)
    <3>1. plist[p] \in Seq(Workers) /\ pidx[p] \in 1..Len(plist[p])
      BY <2>1, LenProperties DEF TypeOK, PurgeSend
    <3>2. plist[p][pidx[p]] \in Workers /\ inbox[plist[p][pidx[p]]] = Nothing
      BY <2>1, <3>1, ElementOfSeq DEF PurgeSend, CanSend
    <3> QED
      BY <2>1, <3>2, NilKept DEF PurgeSend, condVars, subVars
  <2>2. CASE PurgeBroadcast(p)
    <3>1. /\ cond' = <<>> /\ UNCHANGED <<wk, inbox, job, runs>>
          /\ \A t \in Tasks : sub'[t] = "ok" <=> sub[t] = "ok"
      BY <2>2 DEF PurgeBroadcast, workerVars
    <3>2. \A t \in Tasks \ NilTasks : OnceAtMost(t)'
      BY <3>1, FunctionsKept
    <3>3. CondHoldsWaiters' /\ JobWhileRunning'
      BY <3>1, EmptySeq DEF OnceInv, CondHoldsWaiters, JobWhileRunning
    <3> QED
      BY <3>2, <3>3 DEF OnceInv
  <2>3. CASE Reboot(p) \/ PurgeTick(p) \/ PurgeExpire(p) \/ PurgeEnd(p)
    BY <1>1, <2>3 DEF Reboot, PurgeTick, PurgeExpire, PurgeEnd, condVars, subVars, workerVars
  <2> QED
    BY <1>4, <2>1, <2>2, <2>3 DEF Purge
<1>5. ASSUME NEW size \in TuneSizes, Tune(size) PROVE OnceInv'
  BY <1>1, <1>5 DEF Tune, condVars, subVars, workerVars
<1>6. CASE ReleaseSend
  <2>1. Head(Idle) \in Workers /\ inbox[Head(Idle)] = Nothing
    BY <1>6, IdleType, HeadTailProperties DEF ReleaseSend, CanSend
  <2> QED
    BY <1>6, <2>1, NilKept DEF ReleaseSend, condVars, subVars
<1>7. CASE ReleaseClose \/ ReleaseLock \/ ReleaseDone
  BY <1>1, <1>7 DEF ReleaseClose, ReleaseLock, ReleaseDone, condVars, subVars, workerVars
<1>8. CASE UNCHANGED vars
  BY <1>1, <1>8 DEF vars, condVars, subVars, workerVars
<1> QED
  BY <1>2, <1>3, <1>4, <1>5, <1>6, <1>7, <1>8 DEF Next, Reset

\* One place at most is a set of one element at most.
LEMMA OnceCounted ==
  ASSUME OnceInv
  PROVE  RunsAtMostOnce
<1> SUFFICES ASSUME NEW t \in Tasks \ NilTasks
             PROVE  LET places == {w \in Workers : inbox[w] = t} \cup {w \in Workers : job[w] = t}
                    IN  /\ Cardinality(places) <= 1
                        /\ \A w \in places : inbox[w] # job[w]
                        /\ runs[t] # 0 => runs[t] = 1 /\ places = {}
                        /\ sub[t] # "ok" => places = {} /\ runs[t] = 0
  BY DEF RunsAtMostOnce
<1> DEFINE places == {w \in Workers : inbox[w] = t} \cup {w \in Workers : job[w] = t}
<1>1. OnceAtMost(t)
  BY DEF OnceInv
<1>2. \A v, w \in places : v = w
  BY <1>1 DEF OnceAtMost
<1>3. Cardinality(places) <= 1
  <2>1. CASE places = {}
    BY <2>1, FS_EmptySet
  <2>2. CASE places # {}
    <3>1. PICK w \in places : TRUE
      BY <2>2
    <3>2. places = {w}
      BY <1>2, <3>1
    <3>3. Cardinality(places) = 1
      BY <3>2, FS_Singleton
    <3> QED
      BY <3>3
  <2> QED
    BY <2>1, <2>2
<1>4. \A w \in places : inbox[w] # job[w]
  BY <1>1, ConstantsAssumption DEF OnceAtMost
<1>5. Absent(t) => places = {}
  BY DEF Absent
<1>6. /\ runs[t] # 0 => runs[t] = 1 /\ places = {}
      /\ sub[t] # "ok" => places = {} /\ runs[t] = 0
  BY <1>1, <1>5 DEF OnceAtMost
<1> QED
  BY <1>3, <1>4, <1>6

\* Whatever the options, with any number of purgers and also in the branch of
\* retrieveWorker that has lost the lock, a function that Submit accepts is with
\* one worker at most and runs once at most, and one that Submit refuses does not
\* run (pool.go:109-119, worker.go:33-44).
THEOREM FunctionsRunOnce == Spec => []RunsAtMostOnce
<1>1. Init => TypeOK /\ OnceInv
  BY InitType, InitOnce
<1>2. TypeOK /\ OnceInv /\ [Next]_vars => (TypeOK /\ OnceInv)'
  BY StepType, StepOnce
<1>3. TypeOK /\ OnceInv => RunsAtMostOnce
  BY OnceCounted
<1> QED
  BY <1>1, <1>2, <1>3, PTL DEF Spec

-----------------------------------------------------------------------------
(* The loop queue.  The first lemmas are about the indexes alone: a ring of *)
(* n cells with its head at h and its tail at t, which is full when f is    *)
(* TRUE.                                                                    *)

Sized(n, h, t, f) ==
  IF h = t THEN (IF f THEN n ELSE 0) ELSE IF t > h THEN t - h ELSE n - h + t

At(n, h, i) == IF h + i - 1 < n THEN h + i - 1 ELSE h + i - 1 - n

After(n, i) == IF i + 1 = n THEN 0 ELSE i + 1

\* The cells of the ring, and no other, are reached from its head.
LEMMA IndexRange ==
  ASSUME NEW n \in Nat \ {0}, NEW h \in 0..(n - 1), NEW t \in 0..(n - 1), NEW f \in BOOLEAN
  PROVE  /\ Sized(n, h, t, f) \in 0..n
         /\ \A i \in 1..Sized(n, h, t, f) : At(n, h, i) \in 0..(n - 1)
<1>1. Sized(n, h, t, f) \in 0..n
  BY DEF Sized
<1>2. ASSUME NEW i \in 1..n PROVE At(n, h, i) \in 0..(n - 1)
  BY DEF At
<1> QED
  BY <1>1, <1>2

\* The head moves on: the second oldest becomes the oldest.
LEMMA HeadForward ==
  ASSUME NEW n \in Nat \ {0}, NEW h \in 0..(n - 1), NEW t \in 0..(n - 1), NEW f \in BOOLEAN,
         f => h = t, ~(h = t /\ ~f)
  PROVE  /\ After(n, h) \in 0..(n - 1)
         /\ Sized(n, After(n, h), t, FALSE) = Sized(n, h, t, f) - 1
         /\ \A i \in 1..(Sized(n, h, t, f) - 1) : At(n, After(n, h), i) = At(n, h, i + 1)
<1>1. After(n, h) \in 0..(n - 1)
  BY DEF After
<1>2. CASE h = t
  <2>1. Sized(n, h, t, f) = n
    BY <1>2 DEF Sized
  <2>2. Sized(n, After(n, h), t, FALSE) = n - 1
    BY <1>2 DEF Sized, After
  <2>3. \A i \in 1..(n - 1) : At(n, After(n, h), i) = At(n, h, i + 1)
    BY DEF At, After
  <2> QED
    BY <1>1, <2>1, <2>2, <2>3
<1>3. CASE h # t
  <2>1. Sized(n, h, t, f) = IF t > h THEN t - h ELSE n - h + t
    BY <1>3 DEF Sized
  <2>2. Sized(n, After(n, h), t, FALSE) = (IF t > h THEN t - h ELSE n - h + t) - 1
    BY <1>3 DEF Sized, After
  <2>3. \A i \in 1..((IF t > h THEN t - h ELSE n - h + t) - 1) :
          At(n, After(n, h), i) = At(n, h, i + 1)
    BY <1>3 DEF At, After
  <2> QED
    BY <1>1, <2>1, <2>2, <2>3
<1> QED
  BY <1>2, <1>3

\* The tail moves on from a cell that holds nothing that is in the queue.
LEMMA TailForward ==
  ASSUME NEW n \in Nat \ {0}, NEW h \in 0..(n - 1), NEW t \in 0..(n - 1)
  PROVE  /\ After(n, t) \in 0..(n - 1)
         /\ After(n, t) = h => Sized(n, h, h, TRUE) = Sized(n, h, t, FALSE) + 1
         /\ After(n, t) # h =>
              Sized(n, h, After(n, t), FALSE) = Sized(n, h, t, FALSE) + 1
         /\ At(n, h, Sized(n, h, t, FALSE) + 1) = t
         /\ \A i \in 1..Sized(n, h, t, FALSE) : At(n, h, i) # t
<1> DEFINE k == IF h = t THEN 0 ELSE IF t > h THEN t - h ELSE n - h + t
<1>1. After(n, t) \in 0..(n - 1)
  BY DEF After
<1>2. Sized(n, h, t, FALSE) = k
  BY DEF Sized
<1>3. At(n, h, k + 1) = t
  BY DEF At
<1>4. \A i \in 1..k : At(n, h, i) # t
  BY DEF At
<1>5. ASSUME After(n, t) = h PROVE Sized(n, h, h, TRUE) = k + 1
  <2>1. Sized(n, h, h, TRUE) = n
    BY DEF Sized
  <2>2. k + 1 = n
    BY <1>5 DEF After
  <2> QED
    BY <2>1, <2>2, Zenon
<1>6. ASSUME After(n, t) # h PROVE Sized(n, h, After(n, t), FALSE) = k + 1
  <2>1. Sized(n, h, After(n, t), FALSE)
          = IF After(n, t) > h THEN After(n, t) - h ELSE n - h + After(n, t)
    BY <1>6 DEF Sized
  <2>2. (IF After(n, t) > h THEN After(n, t) - h ELSE n - h + After(n, t)) = k + 1
    BY <1>6 DEF After
  <2> QED
    BY <2>1, <2>2, Zenon
<1> HIDE DEF k
<1> QED
  BY <1>1, <1>2, <1>3, <1>4, <1>5, <1>6, Zenon

-----------------------------------------------------------------------------
(* The queue.                                                              *)

Cells == Workers \cup {NoWorker}

\* The fields of a queue of n cells.
Queues(n) ==
  [items : [0..(n - 1) -> Cells], size : {n}, head : Nat, tail : Nat, isFull : BOOLEAN]

Indexes(n, l) ==
  /\ n \in Nat
  /\ l \in Queues(n)
  /\ IF n = 0 THEN l.head = 0 /\ l.tail = 0 /\ ~l.isFull
     ELSE l.head \in 0..(n - 1) /\ l.tail \in 0..(n - 1)
  /\ l.isFull => l.head = l.tail

\* The queue l of n cells holds the workers of s, oldest first.
Holds(n, l, s) ==
  /\ Indexes(n, l)
  /\ s \in Seq(Workers)
  /\ Len(s) = Sized(n, l.head, l.tail, l.isFull)
  /\ \A i \in 1..Len(s) : s[i] = l.items[At(n, l.head, i)]

LEMMA HeldFields ==
  ASSUME NEW n, NEW l, Indexes(n, l)
  PROVE  /\ l.size = n /\ l.items \in [0..(n - 1) -> Cells]
         /\ l.head \in Nat /\ l.tail \in Nat /\ l.isFull \in BOOLEAN
         /\ length(l) = Sized(n, l.head, l.tail, l.isFull)
         /\ \A i \in Nat : Place(l, i) = At(n, l.head, i)
         /\ \A i \in Nat : Following(l, i) = After(n, i)
<1>1. /\ l.size = n /\ l.items \in [0..(n - 1) -> Cells]
      /\ l.head \in Nat /\ l.tail \in Nat /\ l.isFull \in BOOLEAN
  BY DEF Indexes, Queues
<1>2. length(l) = Sized(n, l.head, l.tail, l.isFull)
  BY <1>1 DEF length, Sized
<1>3. \A i \in Nat : Place(l, i) = At(n, l.head, i) /\ Following(l, i) = After(n, i)
  BY <1>1, Zenon DEF Place, At, Following, After
<1> QED
  BY <1>1, <1>2, <1>3

\* What the run checks of the queue.
LEMMA HeldMeans ==
  ASSUME NEW n, NEW l, NEW s, Holds(n, l, s)
  PROVE  /\ Contents(l) = s
         /\ isEmpty(l) <=> s = <<>>
         /\ insertFails(l) <=> n = 0 \/ Len(s) = n
<1>1. Indexes(n, l) /\ s \in Seq(Workers) /\ Len(s) \in Nat
  BY LenProperties DEF Holds
<1>2. length(l) = Len(s)
  BY <1>1, HeldFields DEF Holds
<1>3. \A i \in 1..Len(s) : l.items[Place(l, i)] = s[i]
  BY <1>1, HeldFields DEF Holds
<1>4. Contents(l) = s
  <2>1. Contents(l) = [i \in 1..Len(s) |-> s[i]]
    BY <1>2, <1>3, Zenon DEF Contents
  <2>2. s = [i \in 1..Len(s) |-> s[i]]
    BY <1>1
  <2> QED
    BY <2>1, <2>2
<1> DEFINE h == l.head
           t == l.tail
           f == l.isFull
           k == Len(s)
<1>5. /\ n \in Nat /\ f \in BOOLEAN /\ k = Sized(n, h, t, f) /\ l.size = n
      /\ f => h = t /\ n # 0
      /\ h = t \/ (n \in Nat \ {0} /\ h \in 0..(n - 1) /\ t \in 0..(n - 1))
  BY <1>1, HeldFields DEF Holds, Indexes
<1>6. s = <<>> <=> k = 0
  BY <1>1, EmptySeq
<1>7. isEmpty(l) <=> h = t /\ ~f
  BY DEF isEmpty
<1>8. insertFails(l) <=> n = 0 \/ f
  BY <1>5 DEF insertFails
<1> HIDE DEF h, t, f, k
<1>9. /\ k = 0 <=> h = t /\ ~f
      /\ (n = 0 \/ f) <=> (n = 0 \/ k = n)
  <2>1. CASE h = t /\ f
    BY <1>5, <2>1 DEF Sized
  <2>2. CASE h = t /\ ~f
    BY <1>5, <2>2 DEF Sized
  <2>3. CASE h # t
    BY <1>5, <2>3 DEF Sized
  <2> QED
    BY <2>1, <2>2, <2>3
<1> QED
  BY <1>4, <1>6, <1>7, <1>8, <1>9 DEF k

LEMMA EmptyHolds ==
  ASSUME NEW n, NEW l, Indexes(n, l), l.head = l.tail, ~l.isFull
  PROVE  Holds(n, l, <<>>)
<1>1. <<>> \in Seq(Workers) /\ Len(<<>>) = 0
  BY EmptySeq
<1>2. Sized(n, l.head, l.tail, l.isFull) = 0
  BY DEF Sized
<1> QED
  BY <1>1, <1>2 DEF Holds

LEMMA NewHolds ==
  ASSUME NEW n \in Nat
  PROVE  Holds(n, newWorkerLoopQueue(n, NoWorker), <<>>)
<1> DEFINE l == newWorkerLoopQueue(n, NoWorker)
<1>1. /\ l \in Queues(n) /\ l.head = 0 /\ l.tail = 0 /\ l.isFull = FALSE
  BY DEF newWorkerLoopQueue, Queues, Cells
<1> HIDE DEF l
<1>2. Indexes(n, l)
  BY <1>1 DEF Indexes
<1>3. Holds(n, l, <<>>)
  BY <1>1, <1>2, EmptyHolds
<1> QED
  BY <1>3 DEF l

LEMMA DetachHolds ==
  ASSUME NEW n, NEW l, NEW s, Holds(n, l, s), s # <<>>
  PROVE  Holds(n, detach(l), Tail(s))
<1> DEFINE h == l.head
           t == l.tail
           f == l.isFull
           d == detach(l)
<1>1. Indexes(n, l) /\ s \in Seq(Workers) /\ ~isEmpty(l)
  BY HeldMeans DEF Holds
<1>2. /\ n \in Nat \ {0} /\ h \in 0..(n - 1) /\ t \in 0..(n - 1) /\ f \in BOOLEAN
      /\ f => h = t
      /\ ~(h = t /\ ~f)
  BY <1>1, HeldFields DEF Indexes, isEmpty
<1>3. /\ After(n, h) \in 0..(n - 1)
      /\ Sized(n, After(n, h), t, FALSE) = Sized(n, h, t, f) - 1
      /\ \A i \in 1..(Sized(n, h, t, f) - 1) : At(n, After(n, h), i) = At(n, h, i + 1)
  BY <1>2, HeadForward
<1>4. d = [l EXCEPT !.head = After(n, h), !.isFull = FALSE]
  BY <1>1, <1>2, HeldFields DEF detach
<1> HIDE DEF d
<1>5. l \in Queues(n) /\ After(n, h) \in Nat
  BY <1>1, <1>2, <1>3 DEF Indexes
<1>6. /\ d \in Queues(n) /\ d.head = After(n, h) /\ d.tail = t /\ d.isFull = FALSE
      /\ d.items = l.items
  BY <1>4, <1>5 DEF Queues
<1>7. Indexes(n, d)
  BY <1>2, <1>3, <1>6 DEF Indexes
<1>8. /\ Tail(s) \in Seq(Workers) /\ Len(Tail(s)) = Len(s) - 1 /\ Len(s) \in Nat
      /\ \A i \in 1..(Len(s) - 1) : Tail(s)[i] = s[i + 1]
  BY <1>1, HeadTailProperties, LenProperties
<1>9. Len(s) = Sized(n, h, t, f) /\ \A i \in 1..Len(s) : s[i] = l.items[At(n, h, i)]
  BY DEF Holds
<1>10. \A i \in 1..(Len(s) - 1) : i + 1 \in 1..Len(s)
  BY <1>8
<1> HIDE DEF h, t, f
<1>11. \A i \in 1..Len(Tail(s)) : Tail(s)[i] = d.items[At(n, d.head, i)]
  BY <1>3, <1>6, <1>8, <1>9, <1>10, Zenon
<1>12. Len(Tail(s)) = Sized(n, d.head, d.tail, d.isFull)
  BY <1>3, <1>6, <1>8, <1>9, Zenon
<1> QED
  BY <1>7, <1>8, <1>11, <1>12 DEF Holds, d

LEMMA InsertHolds ==
  ASSUME NEW n, NEW l, NEW s, Holds(n, l, s), NEW w \in Workers, n # 0, Len(s) # n
  PROVE  Holds(n, insert(l, w), Append(s, w))
<1> DEFINE h == l.head
           t == l.tail
           x == [l.items EXCEPT ![t] = w]
           d == insert(l, w)
           f == IF After(n, t) = h THEN TRUE ELSE FALSE
<1>1. Indexes(n, l) /\ s \in Seq(Workers) /\ ~insertFails(l) /\ l.size = n
  BY HeldMeans, HeldFields DEF Holds
<1>2. /\ n \in Nat \ {0} /\ h \in 0..(n - 1) /\ t \in 0..(n - 1) /\ l.isFull = FALSE
      /\ l.items \in [0..(n - 1) -> Cells] /\ l \in Queues(n)
  BY <1>1, HeldFields DEF Indexes, insertFails
<1>3. /\ After(n, t) \in 0..(n - 1)
      /\ After(n, t) = h => Sized(n, h, h, TRUE) = Sized(n, h, t, FALSE) + 1
      /\ After(n, t) # h =>
           Sized(n, h, After(n, t), FALSE) = Sized(n, h, t, FALSE) + 1
      /\ At(n, h, Sized(n, h, t, FALSE) + 1) = t
      /\ \A i \in 1..Sized(n, h, t, FALSE) : At(n, h, i) # t
  <2>1. n \in Nat \ {0} /\ h \in 0..(n - 1) /\ t \in 0..(n - 1)
    BY <1>2
  <2> HIDE DEF h, t, x, d, f
  <2> QED
    BY <2>1, TailForward, Zenon
<1>4. d = [l EXCEPT !.items = x, !.tail = After(n, t), !.isFull = f]
  <2>1. Following(l, t) = After(n, t)
    BY <1>1, <1>2, HeldFields
  <2> QED
    BY <1>1, <2>1 DEF insert
<1>5. x \in [0..(n - 1) -> Cells] /\ x[t] = w /\ \A i \in 0..(n - 1) : i # t => x[i] = l.items[i]
  BY <1>2 DEF Cells
<1>12. /\ f \in BOOLEAN
       /\ f => After(n, t) = h
       /\ After(n, t) = h => f = TRUE
       /\ After(n, t) # h => f = FALSE
  OBVIOUS
<1> HIDE DEF d, x, f
<1>6. /\ d \in Queues(n) /\ d.head = h /\ d.tail = After(n, t)
      /\ d.items = x /\ d.isFull = f
  <2>1. After(n, t) \in Nat /\ f \in BOOLEAN
    BY <1>3, <1>12
  <2> QED
    BY <1>2, <1>4, <1>5, <2>1 DEF Queues
<1>7. Indexes(n, d)
  BY <1>2, <1>3, <1>6, <1>12 DEF Indexes
<1>8. /\ Append(s, w) \in Seq(Workers) /\ Len(Append(s, w)) = Len(s) + 1 /\ Len(s) \in Nat
      /\ \A i \in 1..Len(s) : Append(s, w)[i] = s[i]
      /\ Append(s, w)[Len(s) + 1] = w
  BY <1>1, AppendProperties, LenProperties
<1>9. Len(s) = Sized(n, h, t, FALSE) /\ \A i \in 1..Len(s) : s[i] = l.items[At(n, h, i)]
  BY <1>2 DEF Holds
<1>10. Len(Append(s, w)) = Sized(n, d.head, d.tail, d.isFull)
  BY <1>3, <1>6, <1>8, <1>9, <1>12, Zenon
<1>11. ASSUME NEW i \in 1..Len(Append(s, w)) PROVE Append(s, w)[i] = d.items[At(n, h, i)]
  <2>1. CASE i = Len(s) + 1
    BY <1>3, <1>5, <1>6, <1>8, <1>9, <2>1, Zenon
  <2>2. CASE i \in 1..Len(s)
    <3>1. At(n, h, i) \in 0..(n - 1) /\ At(n, h, i) # t
      <4>1. \A j \in 1..Sized(n, h, t, FALSE) : At(n, h, j) \in 0..(n - 1)
        BY <1>2, IndexRange
      <4> QED
        BY <1>3, <1>9, <2>2, <4>1, Zenon
    <3> QED
      BY <1>5, <1>6, <1>8, <1>9, <2>2, <3>1, Zenon
  <2>3. i = Len(s) + 1 \/ i \in 1..Len(s)
    BY <1>8
  <2> QED
    BY <2>1, <2>2, <2>3
<1> QED
  BY <1>6, <1>7, <1>8, <1>10, <1>11, Zenon DEF Holds, d

LEMMA ExpireHolds ==
  ASSUME NEW n, NEW l, NEW s, Holds(n, l, s)
  PROVE  Holds(n, retrieveExpiry(l), <<>>)
<1> DEFINE d == retrieveExpiry(l)
<1>1. Indexes(n, l)
  BY DEF Holds
<1>2. /\ d \in Queues(n) /\ d.head = l.tail /\ d.tail = l.tail /\ d.isFull = FALSE
  <2>1. CASE isEmpty(l)
    BY <1>1, <2>1 DEF retrieveExpiry, Indexes, Queues, isEmpty
  <2>2. CASE ~isEmpty(l)
    BY <1>1, <2>2 DEF retrieveExpiry, Indexes, Queues
  <2> QED
    BY <2>1, <2>2
<1> HIDE DEF d
<1>3. Indexes(n, d)
  BY <1>1, <1>2 DEF Indexes
<1> QED
  BY <1>2, <1>3, EmptyHolds DEF d

LEMMA ResetHolds ==
  ASSUME NEW n, NEW l, Holds(n, l, <<>>)
  PROVE  Holds(0, reset(l), <<>>)
<1> DEFINE d == reset(l)
<1>1. Indexes(n, l) /\ isEmpty(l)
  BY HeldMeans DEF Holds
<1>2. /\ d \in Queues(0) /\ d.head = 0 /\ d.tail = 0 /\ d.isFull = FALSE
  <2>1. [i \in 0..(-1) |-> {}] \in [0..(0 - 1) -> Cells]
    OBVIOUS
  <2> QED
    BY <1>1, <2>1 DEF reset, Indexes, Queues, isEmpty
<1> HIDE DEF d
<1>3. Indexes(0, d)
  BY <1>2 DEF Indexes
<1> QED
  BY <1>2, <1>3, EmptyHolds DEF d
-----------------------------------------------------------------------------
(* The pool.                                                               *)

\* A pool with a loop queue is nonblocking, so that nobody takes a worker but
\* with the lock, and its queue holds the idle workers.
PreAllocInv ==
  opts.preAlloc => NoWaiters /\ HoldsToSend /\ told = 0 /\ Holds(slots, wq, items)

LEMMA PreAllocOptions ==
  ASSUME TypeOK, opts.preAlloc
  PROVE  opts.nonblocking
BY OptionsAssumption DEF TypeOK

LEMMA LoopStepIsStep == [LoopNext]_loopVars => [Next]_vars
BY DEF LoopNext, LoopRetrieve, LoopInsert, LoopExpire, LoopReset, Elsewhere, loopVars,
   Next, Proceed, Serve, Purge, Reset

LEMMA LoopInitInv == LoopInit => TypeOK /\ PreAllocInv
<1> SUFFICES ASSUME LoopInit PROVE TypeOK /\ PreAllocInv
  OBVIOUS
<1>1. Init
  BY DEF LoopInit
<1>2. TypeOK
  BY <1>1, InitType
<1>3. NoWaiters /\ HoldsToSend /\ told = 0
  BY <1>1 DEF Init, NoWaiters, HoldsToSend
<1>4. ASSUME opts.preAlloc PROVE Holds(slots, wq, items)
  <2>1. slots \in Nat /\ wq = newWorkerLoopQueue(slots, NoWorker) /\ items = <<>>
    BY <1>1, <1>2, <1>4 DEF LoopInit, Init, TypeOK
  <2>2. Holds(slots, newWorkerLoopQueue(slots, NoWorker), <<>>)
    BY <2>1, NewHolds
  <2> QED
    BY <2>1, <2>2, Zenon
<1> QED
  BY <1>2, <1>3, <1>4 DEF PreAllocInv

\* A step of the pool that takes the oldest worker, if there is one.
LEMMA DetachStep ==
  ASSUME opts.preAlloc, Holds(slots, wq, items), UNCHANGED slots, wq' = detach(wq),
         items' = IF items = <<>> THEN items ELSE Tail(items)
  PROVE  Holds(slots', wq', items')
<1>1. CASE items = <<>>
  <2>1. isEmpty(wq)
    BY <1>1, HeldMeans
  <2> QED
    BY <1>1, <2>1 DEF detach
<1>2. CASE items # <<>>
  <2>1. Holds(slots, detach(wq), Tail(items))
    BY <1>2, DetachHolds
  <2> QED
    BY <1>2, <2>1, Zenon
<1> QED
  BY <1>1, <1>2

LEMMA LoopStepHolds ==
  ASSUME TypeOK, opts.preAlloc, NoWaiters, told = 0, Holds(slots, wq, items),
         [LoopNext]_loopVars
  PROVE  Holds(slots', wq', items')
<1>1. ASSUME NEW t \in Tasks, LoopRetrieve(t) PROVE Holds(slots', wq', items')
  <2>1. items' = IF items = <<>> THEN items ELSE Tail(items)
    BY <1>1 DEF LoopRetrieve, RetrieveFast, Detached
  <2>2. wq' = detach(wq) /\ UNCHANGED slots
    BY <1>1 DEF LoopRetrieve, RetrieveFast, Queue
  <2> QED
    BY <2>1, <2>2, DetachStep
<1>2. ASSUME NEW w \in Workers, LoopInsert(w) PROVE Holds(slots', wq', items')
  <2>1. wq' = insert(wq, w) /\ UNCHANGED slots
    BY <1>2 DEF LoopInsert, RevertInsert, Queue
  <2>2. CASE InsertFails
    <3>1. insertFails(wq)
      BY <2>2, HeldMeans DEF InsertFails
    <3>2. items' = items
      BY <1>2, <2>2 DEF LoopInsert, RevertInsert
    <3>3. insert(wq, w) = wq
      BY <3>1 DEF insert
    <3> QED
      BY <2>1, <3>2, <3>3, Zenon
  <2>3. CASE ~InsertFails
    <3>1. slots # 0 /\ Len(items) # slots
      BY <2>3 DEF InsertFails
    <3>2. items' = Append(items, w)
      BY <1>2, <2>3 DEF LoopInsert, RevertInsert
    <3>3. Holds(slots, insert(wq, w), Append(items, w))
      BY <3>1, InsertHolds
    <3> QED
      BY <2>1, <3>2, <3>3, Zenon
  <2> QED
    BY <2>2, <2>3
<1>3. ASSUME NEW p \in Purgers, LoopExpire(p) PROVE Holds(slots', wq', items')
  <2>1. wq' = retrieveExpiry(wq) /\ items' = <<>> /\ UNCHANGED slots
    BY <1>3 DEF LoopExpire, PurgeExpire, Unexpired, Queue
  <2>2. Holds(slots, retrieveExpiry(wq), <<>>)
    BY ExpireHolds
  <2> QED
    BY <2>1, <2>2, Zenon
<1>4. CASE ReleaseSend /\ Queue(detach(wq))
  <2>1. items' = IF items = <<>> THEN items ELSE Tail(items)
    <3>1. Idle = items
      BY IdleIsQueue DEF TypeOK, Idle
    <3> QED
      BY <1>4, <3>1 DEF ReleaseSend, Detached
  <2>2. wq' = detach(wq) /\ UNCHANGED slots
    BY <1>4 DEF ReleaseSend, Queue
  <2> QED
    BY <2>1, <2>2, DetachStep
<1>5. CASE ReleaseDone /\ Queue(reset(wq))
  <2>1. items = <<>> /\ items' = <<>> /\ slots' = 0 /\ wq' = reset(wq)
    <3>1. Idle = items
      BY IdleIsQueue DEF TypeOK, Idle
    <3> QED
      BY <1>5, <3>1 DEF ReleaseDone, Queue
  <2>2. Holds(0, reset(wq), <<>>)
    BY <2>1, ResetHolds
  <2> QED
    BY <2>1, <2>2, Zenon
<1>6. CASE Elsewhere /\ UNCHANGED wq
  <2>1. UNCHANGED <<items, slots>>
    <3>1. ASSUME NEW t \in Tasks,
                 \/ Submit(t) \/ RetrieveCheck(t) \/ Wake(t) \/ Spawn(t)
                 \/ UnlockedDetach(t) \/ UnlockedShrink(t) \/ UnlockedReenter(t) \/ Send(t)
          PROVE  UNCHANGED <<items, slots>>
      <4>1. sub[t] # "woken" /\ sub[t] # "writing"
        BY DEF NoWaiters
      <4> QED
        BY <3>1, <4>1 DEF Submit, RetrieveCheck, Wake, Spawn, UnlockedDetach, UnlockedShrink,
           UnlockedReenter, Send, queueVars
    <3>2. ASSUME NEW w \in Workers, Receive(w) \/ RunTask(w) \/ RevertCheck(w) \/ Exit(w)
          PROVE  UNCHANGED <<items, slots>>
      BY <3>2 DEF Receive, RunTask, RevertCheck, Exit, queueVars
    <3>3. ASSUME NEW p \in Purgers,
                 Reboot(p) \/ PurgeTick(p) \/ PurgeSend(p) \/ PurgeEnd(p) \/ PurgeBroadcast(p)
          PROVE  UNCHANGED <<items, slots>>
      BY <3>3 DEF Reboot, PurgeTick, PurgeSend, PurgeEnd, PurgeBroadcast, queueVars
    <3>4. ASSUME (\E size \in TuneSizes : Tune(size)) \/ ReleaseClose \/ ReleaseLock
          PROVE  UNCHANGED <<items, slots>>
      BY <3>4 DEF Tune, ReleaseClose, ReleaseLock, queueVars
    <3> QED
      BY <1>6, <3>1, <3>2, <3>3, <3>4 DEF Elsewhere
  <2> QED
    BY <1>6, <2>1, Zenon
<1>7. CASE UNCHANGED loopVars
  <2>1. UNCHANGED <<wq, items, slots>>
    BY <1>7 DEF loopVars, vars, queueVars
  <2> QED
    BY <2>1, Zenon
<1> QED
  BY <1>1, <1>2, <1>3, <1>4, <1>5, <1>6, <1>7 DEF LoopNext, LoopReset

LEMMA LoopStepInv == TypeOK /\ PreAllocInv /\ [LoopNext]_loopVars => TypeOK' /\ PreAllocInv'
<1> SUFFICES ASSUME TypeOK, PreAllocInv, [LoopNext]_loopVars PROVE TypeOK' /\ PreAllocInv'
  OBVIOUS
<1>1. [Next]_vars
  BY LoopStepIsStep
<1>2. TypeOK' /\ opts' = opts
  BY <1>1, StepType, OptionsConstant
<1>3. ASSUME opts.preAlloc
      PROVE  NoWaiters' /\ HoldsToSend' /\ told' = 0 /\ Holds(slots', wq', items')
  <2>1. NoWaiters /\ HoldsToSend /\ told = 0 /\ Holds(slots, wq, items)
    BY <1>3 DEF PreAllocInv
  <2>2. opts.nonblocking
    BY <1>3, PreAllocOptions
  <2>3. NoWaiters' /\ HoldsToSend'
    BY <1>1, <2>1, <2>2, StepNoWaiters
  <2>4. Holds(slots', wq', items')
    BY <1>3, <2>1, LoopStepHolds
  <2>5. told' = 0
    BY <1>1, <1>2, <1>3, <2>1, StepTold DEF ToldWhileReset
  <2> QED
    BY <2>3, <2>4, <2>5
<1> QED
  BY <1>2, <1>3 DEF PreAllocInv

\* From its head to its tail the loop queue of a PreAlloc pool of any size
\* holds the idle workers in the order they came, however often it has wrapped
\* around, and insert fails just when the queue has been released or is full
\* (worker_loop_queue.go:24-118).
THEOREM LoopQueueIsQueue == LoopSpec => []LoopHoldsItems
<1>1. TypeOK /\ PreAllocInv => LoopHoldsItems
  <2> SUFFICES ASSUME PreAllocInv, opts.preAlloc
               PROVE  /\ wq.size = slots
                      /\ Contents(wq) = items
                      /\ isEmpty(wq) <=> items = <<>>
                      /\ insertFails(wq) <=> InsertFails
    BY DEF LoopHoldsItems
  <2>1. Holds(slots, wq, items)
    BY DEF PreAllocInv
  <2>2. wq.size = slots
    BY <2>1, HeldFields DEF Holds
  <2> QED
    BY <2>1, <2>2, HeldMeans DEF InsertFails
<1> QED
  BY <1>1, LoopInitInv, LoopStepInv, PTL DEF LoopSpec

\* AntsLoop is AntsPool: what is proved of a pool holds of one whose queue is
\* kept as the code keeps it.
LEMMA LoopPoolIsPool == LoopSpec => Spec
<1>1. LoopInit => Init
  BY DEF LoopInit
<1> QED
  BY <1>1, LoopStepIsStep, PTL DEF LoopSpec, Spec

-----------------------------------------------------------------------------
(* The promises of TaskPool.  A call moves to its next phase in the steps of *)
(* retrieveWorker and when its function has been sent; the function runs in  *)
(* the hands of a worker that has it alone.                                  *)

Seen == [t \in Tasks |-> Phase(t)]

\* A nil function is never with a worker: Submit sends nil instead.
NoNilTask == \A w \in Workers : inbox[w] \notin NilTasks /\ job[w] \notin NilTasks

LEMMA InitNoNil == Init => NoNilTask
BY ConstantsAssumption DEF Init, NoNilTask

LEMMA StepNoNil ==
  ASSUME TypeOK, NoNilTask, [Next]_vars
  PROVE  NoNilTask'
<1>1. Nil \notin NilTasks /\ Nothing \notin NilTasks
  BY ConstantsAssumption
<1>2. ASSUME UNCHANGED <<inbox, job>> PROVE NoNilTask'
  BY <1>2 DEF NoNilTask
<1>3. ASSUME NEW t \in Tasks, Submit(t) \/ Proceed(t) PROVE NoNilTask'
  <2>1. CASE Send(t)
    <3>1. /\ job' = job /\ \A w \in Workers : inbox'[w] \in {inbox[w], Message(t)}
      BY <2>1 DEF TypeOK, Send
    <3>2. Message(t) \notin NilTasks
      BY <1>1 DEF Message
    <3> QED
      BY <3>1, <3>2 DEF NoNilTask
  <2>2. CASE ~Send(t)
    BY <1>2, <1>3, <2>2 DEF Submit, Proceed, RetrieveFast, RetrieveCheck, Wake, Spawn,
       UnlockedDetach, UnlockedShrink, UnlockedReenter, workerVars
  <2> QED
    BY <2>1, <2>2
<1>4. ASSUME NEW w \in Workers, Serve(w) PROVE NoNilTask'
  BY <1>1, <1>4 DEF TypeOK, NoNilTask, Serve, Receive, RunTask, RevertCheck, RevertInsert, Exit
<1>5. ASSUME NEW p \in Purgers, Reboot(p) \/ Purge(p) PROVE NoNilTask'
  BY <1>1, <1>5 DEF TypeOK, NoNilTask, Reboot, Purge, PurgeTick, PurgeExpire, PurgeSend,
     PurgeEnd, PurgeBroadcast, workerVars
<1>6. ASSUME NEW size \in TuneSizes, Tune(size) PROVE NoNilTask'
  BY <1>2, <1>6 DEF Tune, workerVars
<1>7. CASE ReleaseClose \/ Reset \/ UNCHANGED vars
  BY <1>1, <1>7 DEF TypeOK, NoNilTask, ReleaseClose, Reset, ReleaseLock, ReleaseSend,
     ReleaseDone, vars, workerVars
<1> QED
  BY <1>3, <1>4, <1>5, <1>6, <1>7 DEF Next

LEMMA PhaseOf ==
  ASSUME NEW t \in Tasks
  PROVE  /\ sub[t] \in {"lock", "check"} => Phase(t) = "begun"
         /\ sub[t] \in {"waiting", "woken", "respawn", "racing", "writing", "reentry"}
              => Phase(t) = "blocked"
         /\ sub[t] \in {"spawn", "send"} => Phase(t) = "served"
         /\ sub[t] \in {"new", "ok", "overload", "closed"} => Phase(t) = sub[t]
BY DEF Phase

\* The call t goes on to s, and is seen there.
LEMMA SeenMoves ==
  ASSUME TypeOK, NEW t \in Tasks, NEW s, sub' = [sub EXCEPT ![t] = s]
  PROVE  Seen' = [Seen EXCEPT ![t] = Phase(t)']
<1>1. \A u \in Tasks \ {t} : sub'[u] = sub[u]
  BY DEF TypeOK
<1>2. \A u \in Tasks \ {t} : Phase(u)' = Phase(u)
  BY <1>1 DEF Phase
<1> QED
  BY <1>2 DEF Seen

LEMMA SeenKept ==
  ASSUME \A t \in Tasks : sub'[t] = sub[t] \/ (sub[t] = "waiting" /\ sub'[t] = "woken")
  PROVE  Seen' = Seen
<1>1. ASSUME NEW t \in Tasks PROVE Phase(t)' = Phase(t)
  BY DEF Phase
<1> QED
  BY <1>1 DEF Seen

\* From Reentry on.
LEMMA ReenterPromise ==
  ASSUME TypeOK, NEW t \in Tasks, NEW waiters, NEW blocked, NEW increments,
         Reenter(t, waiters, blocked, increments), UNCHANGED <<opts, state, runs>>,
         Phase(t) \in {"begun", "blocked"}, Phase(t) = "begun" => ~opts.nonblocking
  PROVE  [Promise!Call(t)]_(Promise!vars)
<1>1. Seen[t] = Phase(t)
  BY DEF Seen
<1>2. CASE opts.maxBlockingTasks # 0 /\ blocked >= opts.maxBlockingTasks
  <2>1. sub' = [sub EXCEPT ![t] = "overload"]
    BY <1>2 DEF Reenter
  <2>2. Phase(t)' = "overload"
    BY <2>1 DEF TypeOK, Phase
  <2>3. Seen' = [Seen EXCEPT ![t] = "overload"]
    BY <2>1, <2>2, SeenMoves
  <2> QED
    BY <1>1, <1>2, <2>3 DEF Seen, Promise!Call, Promise!Overload, Promise!Goes, Promise!Limited,
       Promise!Full
<1>3. CASE ~(opts.maxBlockingTasks # 0 /\ blocked >= opts.maxBlockingTasks)
  <2>1. sub' = [sub EXCEPT ![t] = "waiting"]
    BY <1>3 DEF Reenter
  <2>2. Phase(t)' = "blocked"
    BY <2>1 DEF TypeOK, Phase
  <2>3. Seen' = [Seen EXCEPT ![t] = "blocked"]
    BY <2>1, <2>2, SeenMoves
  <2>4. CASE Phase(t) = "begun"
    BY <1>1, <2>3, <2>4 DEF Seen, Promise!Call, Promise!Block, Promise!Goes
  <2>5. CASE Phase(t) = "blocked"
    <3>1. Seen' = Seen
      BY <1>1, <2>3, <2>5 DEF Seen
    <3> QED
      BY <3>1 DEF Seen, Promise!vars
  <2> QED
    BY <2>4, <2>5
<1> QED
  BY <1>2, <1>3

\* A call of Submit until its function is sent.
LEMMA SubmitPromise ==
  ASSUME TypeOK, NEW t \in Tasks, Submit(t) \/ Proceed(t)
  PROVE  [Promise!Call(t)]_(Promise!vars)
<1>1. Seen[t] = Phase(t) /\ UNCHANGED <<opts, state, runs>>
  BY DEF Seen, Submit, Proceed, RetrieveFast, RetrieveCheck, Wake, Spawn, UnlockedDetach,
     UnlockedShrink, UnlockedReenter, Send, poolVars, workerVars
<1>2. ASSUME NEW s, sub' = [sub EXCEPT ![t] = s]
      PROVE  sub'[t] = s /\ Seen' = [Seen EXCEPT ![t] = Phase(t)']
  BY <1>2, SeenMoves DEF TypeOK
<1>3. ASSUME NEW s, sub' = [sub EXCEPT ![t] = s], Phase(t)' = Phase(t)
      PROVE  UNCHANGED Promise!vars
  <2>1. Seen' = Seen
    BY <1>1, <1>2, <1>3 DEF Seen
  <2> QED
    BY <1>1, <2>1 DEF Seen, Promise!vars
<1>4. ASSUME NEW s \in {"spawn", "send"}, sub' = [sub EXCEPT ![t] = s],
             Phase(t) \in {"begun", "blocked"}
      PROVE  Promise!Take(t)
  <2>1. Phase(t)' = "served"
    BY <1>2, <1>4 DEF Phase
  <2>2. Seen' = [Seen EXCEPT ![t] = "served"]
    BY <1>2, <1>4, <2>1
  <2> QED
    BY <1>1, <1>4, <2>2 DEF Seen, Promise!Take, Promise!Goes
<1>5. CASE Submit(t)
  <2> DEFINE s == IF state = "CLOSED" THEN "closed" ELSE "lock"
  <2>1. Phase(t) = "new" /\ sub' = [sub EXCEPT ![t] = s]
    BY <1>5, PhaseOf DEF Submit
  <2>2. Phase(t)' = IF state = "CLOSED" THEN "closed" ELSE "begun"
    BY <1>2, <2>1 DEF Phase
  <2>3. Seen' = [Seen EXCEPT ![t] = IF state = "CLOSED" THEN "closed" ELSE "begun"]
    BY <1>2, <2>1, <2>2
  <2> QED
    BY <1>1, <2>1, <2>3 DEF Seen, Promise!Call, Promise!Begin, Promise!Goes
<1>6. CASE RetrieveFast(t)
  <2>1. Phase(t) = "begun"
    BY <1>6, PhaseOf DEF RetrieveFast
  <2>2. CASE sub' = [sub EXCEPT ![t] = "check"]
    <3>1. Phase(t)' = "begun"
      BY <1>2, <2>2 DEF Phase
    <3> QED
      BY <1>3, <2>1, <2>2, <3>1
  <2>3. CASE sub' = [sub EXCEPT ![t] = "spawn"] \/ sub' = [sub EXCEPT ![t] = "send"]
    BY <1>4, <2>1, <2>3 DEF Promise!Call
  <2> QED
    BY <1>6, <2>2, <2>3 DEF RetrieveFast
<1>7. CASE RetrieveCheck(t)
  <2>1. Phase(t) = "begun"
    BY <1>7, PhaseOf DEF RetrieveCheck
  <2>2. CASE sub' = [sub EXCEPT ![t] = "spawn"]
    BY <1>4, <2>1, <2>2 DEF Promise!Call
  <2>3. CASE sub' = [sub EXCEPT ![t] = "overload"] /\ opts.nonblocking
    <3>1. Phase(t)' = "overload"
      BY <1>2, <2>3 DEF Phase
    <3>2. Seen' = [Seen EXCEPT ![t] = "overload"]
      BY <1>2, <2>3, <3>1
    <3> QED
      BY <1>1, <2>1, <2>3, <3>2 DEF Seen, Promise!Call, Promise!Overload, Promise!Goes
  <2>4. CASE Reenter(t, cond, blockingNum, {1}) /\ ~opts.nonblocking
    BY <1>1, <2>1, <2>4, ReenterPromise
  <2> QED
    BY <1>7, <2>2, <2>3, <2>4 DEF RetrieveCheck
<1>8. CASE Wake(t)
  <2>1. Phase(t) = "blocked"
    BY <1>8, PhaseOf DEF Wake
  <2>2. CASE sub' = [sub EXCEPT ![t] = "respawn"]
    <3>1. Phase(t)' = "blocked"
      BY <1>2, <2>2 DEF Phase
    <3> QED
      BY <1>3, <2>1, <2>2, <3>1
  <2>3. CASE sub' = [sub EXCEPT ![t] = "send"]
    BY <1>4, <2>1, <2>3 DEF Promise!Call
  <2>4. CASE Reenter(t, cond, blockingNum - 1, {1})
    BY <1>1, <2>1, <2>4, ReenterPromise
  <2> QED
    BY <1>8, <2>2, <2>3, <2>4 DEF Wake
<1>9. CASE Spawn(t)
  <2>1. CASE sub[t] = "spawn"
    <3>1. sub' = [sub EXCEPT ![t] = "send"]
      BY <1>9, <2>1 DEF Spawn
    <3>2. Phase(t) = "served" /\ Phase(t)' = "served"
      BY <1>2, <2>1, <3>1, PhaseOf DEF Phase
    <3> QED
      BY <1>3, <3>1, <3>2
  <2>2. CASE sub[t] = "respawn"
    <3>1. sub' = [sub EXCEPT ![t] = "racing"]
      BY <1>9, <2>2 DEF Spawn
    <3>2. Phase(t) = "blocked" /\ Phase(t)' = "blocked"
      BY <1>2, <2>2, <3>1, PhaseOf DEF Phase
    <3> QED
      BY <1>3, <3>1, <3>2
  <2> QED
    BY <1>9, <2>1, <2>2 DEF Spawn
<1>10. CASE UnlockedDetach(t)
  <2>1. PICK s \in {"reentry", "writing"} : sub' = [sub EXCEPT ![t] = s]
    BY <1>10 DEF UnlockedDetach
  <2>2. Phase(t) = "blocked" /\ Phase(t)' = "blocked"
    BY <1>2, <1>10, <2>1, PhaseOf DEF UnlockedDetach, Phase
  <2> QED
    BY <1>3, <2>1, <2>2
<1>11. CASE UnlockedShrink(t)
  <2>1. Phase(t) = "blocked" /\ sub' = [sub EXCEPT ![t] = "send"]
    BY <1>11, PhaseOf DEF UnlockedShrink
  <2> QED
    BY <1>4, <2>1 DEF Promise!Call
<1>12. CASE UnlockedReenter(t)
  <2>1. Phase(t) = "blocked" /\ Reenter(t, cond, blockingNum, {0, 1, 2})
    BY <1>12, PhaseOf DEF UnlockedReenter
  <2> QED
    BY <1>1, <2>1, ReenterPromise
<1>13. CASE Send(t)
  <2>1. Phase(t) = "served" /\ sub' = [sub EXCEPT ![t] = "ok"]
    BY <1>13, PhaseOf DEF Send
  <2>2. Phase(t)' = "ok"
    BY <1>2, <2>1 DEF Phase
  <2>3. Seen' = [Seen EXCEPT ![t] = "ok"]
    BY <1>2, <2>1, <2>2
  <2> QED
    BY <1>1, <2>1, <2>3 DEF Seen, Promise!Call, Promise!Return, Promise!Goes
<1> QED
  BY <1>5, <1>6, <1>7, <1>8, <1>9, <1>10, <1>11, <1>12, <1>13 DEF Proceed

\* The function that a worker runs has been accepted and has not run.
LEMMA RunPromise ==
  ASSUME TypeOK, OnceInv, NoNilTask, NEW w \in Workers, RunTask(w)
  PROVE  Promise!Run(job[w])
<1>1. /\ job[w] \in Tasks \ NilTasks /\ runs' = [runs EXCEPT ![job[w]] = @ + 1]
      /\ UNCHANGED <<opts, state, sub>>
  BY DEF TypeOK, NoNilTask, RunTask, poolVars, subVars
<1>2. OnceAtMost(job[w]) /\ ~Absent(job[w])
  BY <1>1 DEF OnceInv, Absent
<1>3. sub[job[w]] = "ok" /\ runs[job[w]] = 0
  BY <1>2 DEF OnceAtMost
<1>4. Seen' = Seen
  BY <1>1, SeenKept
<1>5. Seen[job[w]] = "ok"
  BY <1>1, <1>3, PhaseOf DEF Seen
<1> QED
  BY <1>1, <1>3, <1>4, <1>5 DEF Seen, Promise!Run

LEMMA StepPromise ==
  ASSUME TypeOK, OnceInv, NoNilTask, [Next]_vars
  PROVE  [Promise!Next]_(Promise!vars)
<1>1. ASSUME Seen' = Seen, UNCHANGED <<opts, state, runs>> PROVE UNCHANGED Promise!vars
  BY <1>1 DEF Seen, Promise!vars
<1>2. sub' = sub => Seen' = Seen
  BY SeenKept
<1>3. ASSUME NEW t \in Tasks, Submit(t) \/ Proceed(t) PROVE [Promise!Next]_(Promise!vars)
  <2>1. [Promise!Call(t)]_(Promise!vars)
    BY <1>3, SubmitPromise
  <2>2. Promise!Call(t) => UNCHANGED <<opts, state, runs>>
    BY DEF Promise!Call, Promise!Begin, Promise!Block, Promise!Overload, Promise!Take,
       Promise!Return, Promise!Goes
  <2>3. CASE Promise!Call(t) /\ Seen' = Seen
    BY <1>1, <2>2, <2>3
  <2>4. CASE Promise!Call(t) /\ Seen' # Seen
    BY <2>4 DEF Seen, Promise!Next
  <2> QED
    BY <2>1, <2>3, <2>4
<1>4. ASSUME NEW w \in Workers, Serve(w) PROVE [Promise!Next]_(Promise!vars)
  <2>1. CASE RunTask(w)
    <3>1. job[w] \in Tasks
      BY <2>1 DEF TypeOK, RunTask
    <3> QED
      BY <2>1, <3>1, RunPromise DEF Promise!Next
  <2>2. CASE RevertInsert(w)
    <3>1. UNCHANGED <<opts, state, runs>>
      BY <2>2 DEF RevertInsert, poolVars
    <3>2. \A t \in Tasks : sub'[t] = sub[t] \/ (sub[t] = "waiting" /\ sub'[t] = "woken")
      <4>1. CASE cond = <<>> \/ InsertFails
        BY <2>2, <4>1 DEF RevertInsert, Signal
      <4>2. CASE cond # <<>> /\ ~InsertFails
        <5>1. sub' = [sub EXCEPT ![Head(cond)] = "woken"]
          BY <2>2, <4>2 DEF RevertInsert, Signal
        <5>2. cond \in Seq(Tasks) /\ Head(cond) = cond[1] /\ 1 \in 1..Len(cond)
          BY <4>2, HeadTailProperties, EmptySeq, LenProperties DEF TypeOK
        <5>3. sub[Head(cond)] = "waiting"
          BY <5>2 DEF OnceInv, CondHoldsWaiters
        <5> QED
          BY <5>1, <5>3 DEF TypeOK
      <4> QED
        BY <4>1, <4>2
    <3> QED
      BY <1>1, <3>1, <3>2, SeenKept
  <2>3. CASE Receive(w) \/ RevertCheck(w) \/ Exit(w)
    BY <1>1, <1>2, <2>3 DEF Receive, RevertCheck, Exit, poolVars, subVars
  <2> QED
    BY <1>4, <2>1, <2>2, <2>3 DEF Serve
<1>5. ASSUME NEW p \in Purgers, Reboot(p) \/ Purge(p) PROVE [Promise!Next]_(Promise!vars)
  <2>1. CASE Reboot(p)
    <3>1. /\ state = "CLOSED" /\ state' = "OPENED" /\ UNCHANGED <<opts, sub, runs>>
      BY <2>1 DEF Reboot, subVars, workerVars
    <3> QED
      BY <1>2, <3>1 DEF Seen, Promise!Next, Promise!Reboot
  <2>2. CASE PurgeBroadcast(p)
    BY <1>1, <2>2, SeenKept DEF PurgeBroadcast, poolVars, workerVars
  <2>3. CASE PurgeTick(p) \/ PurgeExpire(p) \/ PurgeSend(p) \/ PurgeEnd(p)
    BY <1>1, <1>2, <2>3 DEF PurgeTick, PurgeExpire, PurgeSend, PurgeEnd, poolVars, subVars,
       workerVars
  <2> QED
    BY <1>5, <2>1, <2>2, <2>3 DEF Purge
<1>6. ASSUME NEW size \in TuneSizes, Tune(size) PROVE [Promise!Next]_(Promise!vars)
  BY <1>1, <1>2, <1>6 DEF Tune, subVars, workerVars
<1>7. CASE ReleaseClose
  <2>1. state' = "CLOSED" /\ UNCHANGED <<opts, sub, runs>>
    BY <1>7 DEF ReleaseClose, subVars, workerVars
  <2> QED
    BY <1>2, <2>1 DEF Seen, Promise!Next, Promise!Release
<1>8. CASE Reset \/ UNCHANGED vars
  BY <1>1, <1>2, <1>8 DEF Reset, ReleaseLock, ReleaseSend, ReleaseDone, vars, poolVars, subVars,
     workerVars
<1> QED
  BY <1>3, <1>4, <1>5, <1>6, <1>7, <1>8 DEF Next

LEMMA InitPromise == Init => Promise!Init
<1> SUFFICES ASSUME Init PROVE Promise!Init
  OBVIOUS
<1>1. /\ opts \in Options /\ state = "OPENED" /\ runs = [t \in Tasks |-> 0]
      /\ \A t \in Tasks : sub[t] = "new"
  BY OptionsAssumption DEF Init
<1>2. Seen = [t \in Tasks |-> "new"]
  BY <1>1, PhaseOf DEF Seen
<1> QED
  BY <1>1, <1>2 DEF Options, Seen, Promise!Init

\* For every set of options, any number of purgers and every order of calls,
\* Tune, Release and Reboot: an accepted function runs once at most, after its
\* Submit has returned, and a refused one never; only a closed pool refuses with
\* ErrPoolClosed, a nonblocking pool never blocks, and one that blocks without a
\* limit never refuses
\* (pool.go:109-190, worker.go:14-46).
THEOREM PoolKeepsPromises == Spec => PoolSpec
<1>1. Init => TypeOK /\ OnceInv /\ NoNilTask /\ Promise!Init
  BY InitType, InitOnce, InitNoNil, InitPromise
<1>2. TypeOK /\ OnceInv /\ NoNilTask /\ [Next]_vars => (TypeOK /\ OnceInv /\ NoNilTask)'
  BY StepType, StepOnce, StepNoNil
<1>3. TypeOK /\ OnceInv /\ NoNilTask /\ [Next]_vars => [Promise!Next]_(Promise!vars)
  BY StepPromise
<1> QED
  BY <1>1, <1>2, <1>3, PTL DEF Spec, PoolSpec, Promise!Spec

\* So does a PreAlloc pool with the fields of its circular queue
\* (worker_loop_queue.go:24-118).
THEOREM LoopKeepsPromises == LoopSpec => PoolSpec
BY LoopPoolIsPool, PoolKeepsPromises

=============================================================================
