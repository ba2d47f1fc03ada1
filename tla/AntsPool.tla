------------------------------ MODULE AntsPool ------------------------------
(***************************************************************************)
(* The goroutine pool of src/ants/pool.go with its workers (worker.go) and *)
(* the two worker queues it can use (worker_stack.go and                   *)
(* worker_loop_queue.go, seen here as a sequence of idle workers).         *)
(*                                                                         *)
(* A task stands for one call of Submit and for the function it submits.   *)
(* A worker stands for a goWorker: its channel (inbox), and the goroutine  *)
(* that serves it, if there is one.  A goroutine is at one atomic load,    *)
(* store or critical section at a time: what happens under the spinlock    *)
(* is one step, except where the code also reads a shared counter or sends *)
(* on a channel in there; the lock is then kept between the steps.         *)
(*                                                                         *)
(* No code ever assigns goWorker.recycleTime, so that every idle worker    *)
(* has the zero time and is expired whenever the purger looks.             *)
(***************************************************************************)
EXTENDS Integers, Sequences, FiniteSets, Functions

CONSTANTS Tasks,      \* the calls of Submit
          NilTasks,   \* those that submit a nil function
          Panicking,  \* those whose function may panic
          Workers,    \* the goWorkers the program ever allocates
          Purgers,    \* the instances of periodicallyPurge
          OptionSet,  \* the parameters NewPool may be called with
          TuneSizes,  \* the sizes Tune may be called with
          NoWorker,   \* a nil *goWorker
          Nil,        \* the nil function in a worker's channel
          Nothing     \* an empty channel, or a worker with no function to run

\* What NewPool is given, and the capacity of the workers' channels, which
\* GOMAXPROCS decides (workerChanCap).  The unlocked branch of retrieveWorker
\* is modelled for the stack only; NewPool(-1) with PreAlloc panics in make.
Options == [size : Int, preAlloc : BOOLEAN, nonblocking : BOOLEAN,
            maxBlockingTasks : Nat, chanCap : {0, 1}]

ASSUME OptionsAssumption ==
  /\ OptionSet \subseteq Options
  /\ \A o \in OptionSet : o.preAlloc => o.nonblocking /\ o.size \in Nat

ASSUME ConstantsAssumption ==
  /\ NilTasks \subseteq Tasks
  /\ Panicking \subseteq Tasks
  /\ IsFiniteSet(Workers)
  /\ NoWorker \notin Workers
  /\ Nil \notin Tasks
  /\ Nothing \notin Tasks
  /\ Nil # Nothing
  /\ TuneSizes \subseteq Nat

VARIABLES
  opts,         \* p.options, the size and workerChanCap
  state,        \* p.state
  capacity,     \* p.capacity
  running,      \* p.running
  lock,         \* p.lock: whether the spinlock is taken
  items,        \* p.workers: the idle workers, oldest first
  told,         \* reset's index i: the idle workers Release has sent nil to
  slots,        \* loopQueue.size
  cond,         \* the waiters of p.cond, in the order of their tickets
  blockingNum,  \* p.blockingNum
  sub,          \* where each call of Submit is
  hold,         \* its variable w
  snap,         \* the workers it saw when it detached one without the lock
  wk,           \* where each worker's goroutine is
  inbox,        \* each worker's channel
  job,          \* the function each worker is running
  runs,         \* how often each function has run
  pg,           \* where each purger is
  plist,        \* its expiredWorkers
  pidx,         \* its index i in expiredWorkers
  shared,       \* whether its slice still has the array of wq.expiry
  expiryCap,    \* the capacity of the array of wq.expiry
  rel           \* where the call of Release is

poolVars   == <<opts, state, capacity>>
queueVars  == <<items, told, slots>>
condVars   == <<cond, blockingNum>>
subVars    == <<sub, hold, snap>>
workerVars == <<wk, inbox, job, runs>>
purgeVars  == <<pg, plist, pidx, shared, expiryCap>>
vars == <<poolVars, running, lock, queueVars, condVars, subVars, workerVars,
          purgeVars, rel>>

SubStates == {"new", "lock", "check", "spawn", "send", "waiting", "woken",
              "respawn", "racing", "writing", "reentry",
              "ok", "overload", "closed"}
WorkerStates == {"none", "recv", "run", "revert", "insert", "exit"}
PurgerStates == {"off", "tick", "lock", "send", "broadcast"}

Message(t) == IF t \in NilTasks THEN Nil ELSE t

\* A worker exists as a goroutine from run() to the end of its deferred call.
Live == {w \in Workers : wk[w] # "none"}

Init ==
  /\ opts \in OptionSet
  /\ state = "OPENED"
  /\ capacity = opts.size
  /\ running = 0
  /\ lock = FALSE
  /\ items = <<>>
  /\ told = 0
  /\ slots = IF opts.preAlloc THEN opts.size ELSE 0
  /\ cond = <<>>
  /\ blockingNum = 0
  /\ sub = [t \in Tasks |-> "new"]
  /\ hold = [t \in Tasks |-> NoWorker]
  /\ snap = [t \in Tasks |-> <<>>]
  /\ wk = [w \in Workers |-> "none"]
  /\ inbox = [w \in Workers |-> Nothing]
  /\ job = [w \in Workers |-> Nothing]
  /\ runs = [t \in Tasks |-> 0]
  /\ \E first \in Purgers :
        pg = [p \in Purgers |-> IF p = first THEN "tick" ELSE "off"]
  /\ plist = [p \in Purgers |-> <<>>]
  /\ pidx = [p \in Purgers |-> 1]
  /\ shared = [p \in Purgers |-> FALSE]
  /\ expiryCap = 0
  /\ rel = "idle"

-----------------------------------------------------------------------------
(* The worker queue.                                                       *)

infinite == opts.size < 0

\* The index detach takes from: the top of the stack, the head of the loop.
DetachIndex(q) == IF opts.preAlloc THEN 1 ELSE Len(q)

\* The idle workers in the queue: reset leaves those it has told to end in the
\* slice until it has told them all.
Idle == SubSeq(items, told + 1, Len(items))

\* Mutant of Detached: the worker at the other end goes.
WrongEnd(q) == IF opts.preAlloc THEN SubSeq(q, 1, Len(q) - 1) ELSE Tail(q)

\* The queue that detach leaves behind.
Detached(q) == IF opts.preAlloc THEN Tail(q) ELSE SubSeq(q, 1, Len(q) - 1)

\* Mutant of Unexpired: the expired workers stay in the queue.
AllKept(q) == q

\* The queue that retrieveExpiry leaves behind: with a recycleTime of zero,
\* Before is false of every worker.
Unexpired(q) == <<>>

\* loopQueue.insert fails on a queue that was released or is full.
InsertFails == opts.preAlloc /\ (slots = 0 \/ Len(items) = slots)

\* w.task <- m can proceed: there is room, or the goroutine is receiving.
CanSend(w) == inbox[w] = Nothing /\ (opts.chanCap = 0 => wk[w] = "recv")

\* Mutant of decRunning: the counter is not decremented.
NoDecrement == UNCHANGED running

incRunning == running' = running + 1
decRunning == running' = running - 1

-----------------------------------------------------------------------------
(* Submit and retrieveWorker.                                              *)

Submit(t) ==
  /\ sub[t] = "new"
  /\ sub' = [sub EXCEPT ![t] = IF state = "CLOSED" THEN "closed" ELSE "lock"]
  /\ UNCHANGED <<poolVars, running, lock, queueVars, condVars, hold, snap,
                 workerVars, purgeVars, rel>>

\* Lock, detach; a worker, or an infinite pool, ends the critical section.
RetrieveFast(t) ==
  /\ sub[t] = "lock"
  /\ ~lock
  /\ IF items # <<>>
       THEN /\ hold' = [hold EXCEPT ![t] = items[DetachIndex(items)]]
            /\ items' = Detached(items)
            /\ sub' = [sub EXCEPT ![t] = "send"]
            /\ UNCHANGED lock
       ELSE /\ sub' = [sub EXCEPT ![t] = IF infinite THEN "spawn" ELSE "check"]
            /\ lock' = ~infinite
            /\ UNCHANGED <<items, hold>>
  /\ UNCHANGED <<poolVars, running, told, slots, condVars, snap, workerVars,
                 purgeVars, rel>>

\* From Reentry on: give up, or join the waiters of the condition variable.
\* Wait unlocks whoever holds the lock; a ++ that races may count for none or
\* for two.
Reenter(t, waiters, blocked, increments) ==
  /\ lock' = FALSE
  /\ IF opts.maxBlockingTasks # 0 /\ blocked >= opts.maxBlockingTasks
       THEN /\ sub' = [sub EXCEPT ![t] = "overload"]
            /\ cond' = waiters
            /\ blockingNum' = blocked
       ELSE /\ sub' = [sub EXCEPT ![t] = "waiting"]
            /\ cond' = Append(waiters, t)
            /\ \E k \in increments : blockingNum' = blocked + k

\* p.Running() < p.Cap(), read with the lock held; running itself is counted
\* outside of the lock.
RetrieveCheck(t) ==
  /\ sub[t] = "check"
  /\ \/ /\ running < capacity
        /\ sub' = [sub EXCEPT ![t] = "spawn"]
        /\ lock' = FALSE
        /\ UNCHANGED condVars
     \/ /\ running >= capacity
        /\ opts.nonblocking
        /\ sub' = [sub EXCEPT ![t] = "overload"]
        /\ lock' = FALSE
        /\ UNCHANGED condVars
     \/ /\ running >= capacity
        /\ ~opts.nonblocking
        /\ Reenter(t, cond, blockingNum, {1})
  /\ UNCHANGED <<poolVars, running, queueVars, hold, snap, workerVars,
                 purgeVars, rel>>

\* The end of p.cond.Wait(): lock again, and look for a worker.
Wake(t) ==
  /\ sub[t] = "woken"
  /\ ~lock
  /\ \/ /\ running = 0
        /\ sub' = [sub EXCEPT ![t] = "respawn"]
        /\ blockingNum' = blockingNum - 1
        /\ UNCHANGED <<lock, items, cond, hold>>
     \/ /\ running # 0
        /\ items # <<>>
        /\ hold' = [hold EXCEPT ![t] = items[DetachIndex(items)]]
        /\ items' = Detached(items)
        /\ sub' = [sub EXCEPT ![t] = "send"]
        /\ blockingNum' = blockingNum - 1
        /\ UNCHANGED <<lock, cond>>
     \/ /\ running # 0
        /\ items = <<>>
        /\ Reenter(t, cond, blockingNum - 1, {1})
        /\ UNCHANGED <<items, hold>>
  /\ UNCHANGED <<poolVars, running, told, slots, snap, workerVars, purgeVars, rel>>

\* workerCache.Get() and w.run(): any worker that has no goroutine, those that
\* were never used included.
Spawn(t) ==
  /\ sub[t] \in {"spawn", "respawn"}
  /\ \E w \in Workers :
        /\ wk[w] = "none"
        /\ wk' = [wk EXCEPT ![w] = "recv"]
        /\ hold' = [hold EXCEPT ![t] = w]
  /\ incRunning
  /\ sub' = [sub EXCEPT ![t] = IF sub[t] = "spawn" THEN "send" ELSE "racing"]
  /\ UNCHANGED <<poolVars, lock, queueVars, condVars, snap, inbox, job, runs,
                 purgeVars, rel>>

\* There is no return after the spawnWorker of the Running() == 0 branch: the
\* call goes on to detach a worker, which replaces the one it has spawned,
\* though it holds the lock no more.
UnlockedDetach(t) ==
  /\ sub[t] = "racing"
  /\ snap' = [snap EXCEPT ![t] = items]
  /\ IF items = <<>>
       THEN /\ sub' = [sub EXCEPT ![t] = "reentry"]
            /\ hold' = [hold EXCEPT ![t] = NoWorker]
       ELSE /\ sub' = [sub EXCEPT ![t] = "writing"]
            /\ hold' = [hold EXCEPT ![t] = items[Len(items)]]
  /\ UNCHANGED <<poolVars, running, lock, queueVars, condVars, workerVars,
                 purgeVars, rel>>

\* wq.items = wq.items[:l-1] with the l of the snapshot, whatever the stack is
\* by now: the cells beyond its length still hold what the snapshot saw.
UnlockedShrink(t) ==
  /\ sub[t] = "writing"
  /\ items' = [i \in 1..(Len(snap[t]) - 1) |->
                  IF i <= Len(items) THEN items[i] ELSE snap[t][i]]
  /\ snap' = [snap EXCEPT ![t] = <<>>]
  /\ lock' = FALSE
  /\ sub' = [sub EXCEPT ![t] = "send"]
  /\ UNCHANGED <<poolVars, running, told, slots, condVars, hold, workerVars,
                 purgeVars, rel>>

UnlockedReenter(t) ==
  /\ sub[t] = "reentry"
  /\ Reenter(t, cond, blockingNum, {0, 1, 2})
  /\ UNCHANGED <<poolVars, running, queueVars, hold, snap, workerVars,
                 purgeVars, rel>>

\* w.task <- task, and Submit returns nil.
Send(t) ==
  /\ sub[t] = "send"
  /\ CanSend(hold[t])
  /\ inbox' = [inbox EXCEPT ![hold[t]] = Message(t)]
  /\ sub' = [sub EXCEPT ![t] = "ok"]
  /\ hold' = [hold EXCEPT ![t] = NoWorker]
  /\ UNCHANGED <<poolVars, running, lock, queueVars, condVars, snap, wk, job,
                 runs, purgeVars, rel>>

-----------------------------------------------------------------------------
(* The worker's goroutine.                                                 *)

\* Mutant of Ends: a nil function is called like any other.
NeverEnds(f) == FALSE

\* if f == nil { return }
Ends(f) == f = Nil

\* for f := range w.task.
Receive(w) ==
  /\ wk[w] = "recv"
  /\ inbox[w] # Nothing
  /\ inbox' = [inbox EXCEPT ![w] = Nothing]
  /\ IF Ends(inbox[w])
       THEN /\ wk' = [wk EXCEPT ![w] = "exit"]
            /\ UNCHANGED job
       ELSE /\ wk' = [wk EXCEPT ![w] = "run"]
            /\ job' = [job EXCEPT ![w] = inbox[w]]
  /\ UNCHANGED <<poolVars, running, lock, queueVars, condVars, subVars, runs,
                 purgeVars, rel>>

\* Mutant of RunTask: a function that panics is tried once more.
RunAgain(w) ==
  /\ wk[w] = "run"
  /\ runs' = [runs EXCEPT ![job[w]] = @ + 1]
  /\ IF job[w] \in Panicking /\ runs[job[w]] = 0
       THEN UNCHANGED <<job, wk>>
       ELSE job' = [job EXCEPT ![w] = Nothing] /\ wk' = [wk EXCEPT ![w] = "revert"]
  /\ UNCHANGED <<poolVars, running, lock, queueVars, condVars, subVars, inbox,
                 purgeVars, rel>>

\* f(), which may panic: the deferred function then ends the goroutine.
RunTask(w) ==
  /\ wk[w] = "run"
  /\ runs' = [runs EXCEPT ![job[w]] = @ + 1]
  /\ job' = [job EXCEPT ![w] = Nothing]
  /\ \/ wk' = [wk EXCEPT ![w] = "revert"]
     \/ job[w] \in Panicking /\ wk' = [wk EXCEPT ![w] = "exit"]
  /\ UNCHANGED <<poolVars, running, lock, queueVars, condVars, subVars, inbox,
                 purgeVars, rel>>

\* revertWorker's test of the state and of the capacity, before the lock.
RevertCheck(w) ==
  /\ wk[w] = "revert"
  /\ wk' = [wk EXCEPT ![w] =
               IF state = "CLOSED" \/ (~infinite /\ running > capacity)
                 THEN "exit" ELSE "insert"]
  /\ UNCHANGED <<poolVars, running, lock, queueVars, condVars, subVars, inbox,
                 job, runs, purgeVars, rel>>

\* p.cond.Signal() wakes the waiter with the oldest ticket.
Signal ==
  IF cond = <<>>
    THEN UNCHANGED <<cond, sub>>
    ELSE /\ cond' = Tail(cond)
         /\ sub' = [sub EXCEPT ![Head(cond)] = "woken"]

\* The rest of revertWorker, with the lock.
RevertInsert(w) ==
  /\ wk[w] = "insert"
  /\ ~lock
  /\ \/ /\ InsertFails
        /\ wk' = [wk EXCEPT ![w] = "exit"]
        /\ UNCHANGED <<items, cond, sub>>
     \/ /\ ~InsertFails
        /\ items' = Append(items, w)
        /\ Signal
        /\ wk' = [wk EXCEPT ![w] = "recv"]
  /\ UNCHANGED <<poolVars, running, lock, told, slots, blockingNum, hold, snap,
                 inbox, job, runs, purgeVars, rel>>

\* The deferred function: decRunning, and the worker goes to the cache.
Exit(w) ==
  /\ wk[w] = "exit"
  /\ decRunning
  /\ wk' = [wk EXCEPT ![w] = "none"]
  /\ UNCHANGED <<poolVars, lock, queueVars, condVars, subVars, inbox, job,
                 runs, purgeVars, rel>>

-----------------------------------------------------------------------------
(* Tune, Release and Reboot.                                               *)

Tune(size) ==
  /\ size # capacity
  /\ ~opts.preAlloc
  /\ capacity' = size
  /\ UNCHANGED <<opts, state, running, lock, queueVars, condVars, subVars,
                 workerVars, purgeVars, rel>>

ReleaseClose ==
  /\ rel = "idle"
  /\ state' = "CLOSED"
  /\ rel' = "lock"
  /\ UNCHANGED <<opts, capacity, running, lock, queueVars, condVars, subVars,
                 workerVars, purgeVars>>

\* Mutant of ReleaseLock: the early return of an empty queue keeps the lock.
LockKept ==
  /\ rel = "lock"
  /\ ~lock
  /\ rel' = IF items = <<>> THEN "idle" ELSE "reset"
  /\ lock' = TRUE
  /\ UNCHANGED <<poolVars, running, queueVars, condVars, subVars, workerVars,
                 purgeVars>>

\* reset() of an empty queue returns at once.
ReleaseLock ==
  /\ rel = "lock"
  /\ ~lock
  /\ IF items = <<>>
       THEN rel' = "idle" /\ UNCHANGED lock
       ELSE rel' = "reset" /\ lock' = TRUE
  /\ UNCHANGED <<poolVars, running, queueVars, condVars, subVars, workerVars,
                 purgeVars>>

\* reset() sends nil to each idle worker in turn, with the lock: the loop queue
\* detaches it first, the stack goes on to the next index.
ReleaseSend ==
  /\ rel = "reset"
  /\ Idle # <<>>
  /\ CanSend(Head(Idle))
  /\ inbox' = [inbox EXCEPT ![Head(Idle)] = Nil]
  /\ IF opts.preAlloc
       THEN items' = Detached(items) /\ UNCHANGED told
       ELSE told' = told + 1 /\ UNCHANGED items
  /\ UNCHANGED <<poolVars, running, lock, slots, condVars, subVars, wk, job,
                 runs, purgeVars, rel>>

\* The queue is empty; a loop queue that had a worker is left with size 0.
ReleaseDone ==
  /\ rel = "reset"
  /\ Idle = <<>>
  /\ items' = <<>>
  /\ told' = 0
  /\ slots' = 0
  /\ lock' = FALSE
  /\ rel' = "idle"
  /\ UNCHANGED <<poolVars, running, condVars, subVars, workerVars, purgeVars>>

\* Mutant of Reboot: no purger is started.
RebootOnly(p) ==
  /\ state = "CLOSED"
  /\ pg[p] = "off"
  /\ state' = "OPENED"
  /\ UNCHANGED <<opts, capacity, running, lock, queueVars, condVars, subVars,
                 workerVars, purgeVars, rel>>

\* Reboot starts a purger; the one of before may not have ticked yet.
Reboot(p) ==
  /\ state = "CLOSED"
  /\ pg[p] = "off"
  /\ state' = "OPENED"
  /\ pg' = [pg EXCEPT ![p] = "tick"]
  /\ UNCHANGED <<opts, capacity, running, lock, queueVars, condVars, subVars,
                 workerVars, plist, pidx, shared, expiryCap, rel>>

-----------------------------------------------------------------------------
(* periodicallyPurge.                                                      *)

PurgeTick(p) ==
  /\ pg[p] = "tick"
  /\ pg' = [pg EXCEPT ![p] = IF state = "CLOSED" THEN "off" ELSE "lock"]
  /\ UNCHANGED <<poolVars, running, lock, queueVars, condVars, subVars,
                 workerVars, plist, pidx, shared, expiryCap, rel>>

\* The cells of list, of which the first are those of the array new is in.
Overwritten(list, new) ==
  [i \in 1..Len(list) |-> IF i <= Len(new) THEN new[i] ELSE list[i]]

\* retrieveExpiry takes every idle worker.  append(wq.expiry[:0], ...) reuses
\* the array the previous call returned, if it is large enough, even if
\* another purger is still going through it.
PurgeExpire(p) ==
  /\ pg[p] = "lock"
  /\ ~lock
  /\ IF items = <<>>
       THEN /\ plist' = [plist EXCEPT ![p] = <<>>]
            /\ UNCHANGED <<shared, expiryCap>>
       ELSE /\ expiryCap' = IF Len(items) > expiryCap THEN Len(items) ELSE expiryCap
            /\ shared' = [q \in Purgers |->
                            q = p \/ (shared[q] /\ Len(items) <= expiryCap)]
            /\ plist' = [q \in Purgers |->
                            IF q = p THEN items
                            ELSE IF shared[q] /\ Len(items) <= expiryCap
                                   THEN Overwritten(plist[q], items)
                                   ELSE plist[q]]
  /\ pidx' = [pidx EXCEPT ![p] = 1]
  /\ items' = Unexpired(items)
  /\ pg' = [pg EXCEPT ![p] = "send"]
  /\ UNCHANGED <<poolVars, running, lock, told, slots, condVars, subVars,
                 workerVars, rel>>

\* expiredWorkers[i].task <- nil
PurgeSend(p) ==
  /\ pg[p] = "send"
  /\ pidx[p] <= Len(plist[p])
  /\ CanSend(plist[p][pidx[p]])
  /\ inbox' = [inbox EXCEPT ![plist[p][pidx[p]]] = Nil]
  /\ pidx' = [pidx EXCEPT ![p] = @ + 1]
  /\ UNCHANGED <<poolVars, running, lock, queueVars, condVars, subVars, wk,
                 job, runs, pg, plist, shared, expiryCap, rel>>

\* The end of the round: the slice is dropped, Running() is read.
PurgeEnd(p) ==
  /\ pg[p] = "send"
  /\ pidx[p] > Len(plist[p])
  /\ pg' = [pg EXCEPT ![p] = IF running = 0 THEN "broadcast" ELSE "tick"]
  /\ plist' = [plist EXCEPT ![p] = <<>>]
  /\ pidx' = [pidx EXCEPT ![p] = 1]
  /\ shared' = [shared EXCEPT ![p] = FALSE]
  /\ UNCHANGED <<poolVars, running, lock, queueVars, condVars, subVars,
                 workerVars, expiryCap, rel>>

\* With no worker running, every waiter is woken.
PurgeBroadcast(p) ==
  /\ pg[p] = "broadcast"
  /\ cond' = <<>>
  /\ sub' = [t \in Tasks |-> IF sub[t] = "waiting" THEN "woken" ELSE sub[t]]
  /\ pg' = [pg EXCEPT ![p] = "tick"]
  /\ UNCHANGED <<poolVars, running, lock, queueVars, blockingNum, hold, snap,
                 workerVars, plist, pidx, shared, expiryCap, rel>>

-----------------------------------------------------------------------------
(* The specification.                                                      *)

\* What a call of Submit does once it has begun.
Proceed(t) ==
  \/ RetrieveFast(t) \/ RetrieveCheck(t) \/ Wake(t) \/ Spawn(t)
  \/ UnlockedDetach(t) \/ UnlockedShrink(t) \/ UnlockedReenter(t) \/ Send(t)

Serve(w) ==
  Receive(w) \/ RunTask(w) \/ RevertCheck(w) \/ RevertInsert(w) \/ Exit(w)

Purge(p) ==
  \/ PurgeTick(p) \/ PurgeExpire(p) \/ PurgeSend(p) \/ PurgeEnd(p)
  \/ PurgeBroadcast(p)

Reset == ReleaseLock \/ ReleaseSend \/ ReleaseDone

Next ==
  \/ \E t \in Tasks : Submit(t) \/ Proceed(t)
  \/ \E w \in Workers : Serve(w)
  \/ \E p \in Purgers : Reboot(p) \/ Purge(p)
  \/ \E size \in TuneSizes : Tune(size)
  \/ ReleaseClose \/ Reset

Spec == Init /\ [][Next]_vars

\* Goroutines are scheduled: each that can take its next step does so at some
\* time.  Nobody has to call Submit, Tune, Release or Reboot.
Fairness ==
  /\ \A t \in Tasks : WF_vars(Proceed(t))
  /\ \A w \in Workers : WF_vars(Serve(w))
  /\ \A p \in Purgers : WF_vars(Purge(p))
  /\ WF_vars(Reset)

FairSpec == Spec /\ Fairness

-----------------------------------------------------------------------------
(* Properties.                                                             *)

\* The variables have the types of the fields they stand for, the queues and
\* the variables of the goroutines hold allocated workers only.
TypeOK ==
  /\ opts \in OptionSet
  /\ state \in {"OPENED", "CLOSED"}
  /\ capacity \in Int
  /\ running \in Int
  /\ lock \in BOOLEAN
  /\ items \in Seq(Workers)
  /\ told \in Nat
  /\ slots \in Nat
  /\ cond \in Seq(Tasks)
  /\ blockingNum \in Int
  /\ sub \in [Tasks -> SubStates]
  /\ hold \in [Tasks -> Workers \cup {NoWorker}]
  /\ \A t \in Tasks : sub[t] = "send" => hold[t] \in Workers
  /\ snap \in [Tasks -> Seq(Workers)]
  /\ \A t \in Tasks : sub[t] = "writing" => snap[t] # <<>> /\ hold[t] \in Workers
  /\ wk \in [Workers -> WorkerStates]
  /\ inbox \in [Workers -> Tasks \cup {Nil, Nothing}]
  /\ job \in [Workers -> Tasks \cup {Nothing}]
  /\ \A w \in Workers : wk[w] = "run" => job[w] \in Tasks
  /\ runs \in [Tasks -> Nat]
  /\ pg \in [Purgers -> PurgerStates]
  /\ plist \in [Purgers -> Seq(Workers)]
  /\ pidx \in [Purgers -> Nat \ {0}]
  /\ shared \in [Purgers -> BOOLEAN]
  /\ expiryCap \in Nat
  /\ rel \in {"idle", "lock", "reset"}

\* The counter that decides whether a Submit may spawn, blocks or is refused
\* (p.running, read in pool.go:153, 178, 194 and 103) is the number of worker
\* goroutines, however they end.
RunningCountsLive == running = Cardinality(Live)

\* The workers a purger has yet to send nil to.
Remaining(p) == {plist[p][i] : i \in pidx[p]..Len(plist[p])}

\* ants.go:45-46: a worker is held by one caller of Submit at a time.
HeldByOneCaller ==
  \A t, u \in Tasks : hold[t] = hold[u] /\ hold[t] # NoWorker => t = u

\* A worker that a caller holds is not idle in the queue, where the next caller
\* would find it, and an idle one is there once.
HeldNotQueued ==
  /\ \A i, j \in 1..Len(Idle) : Idle[i] = Idle[j] => i = j
  /\ \A t \in Tasks : hold[t] \notin Range(Idle)

\* A purger ends only workers that nobody else can reach: none it has still
\* to send nil to is in the queue, held by a caller, or in its list twice.
PurgedAlone ==
  \A p \in Purgers :
    /\ \A i, j \in pidx[p]..Len(plist[p]) : plist[p][i] = plist[p][j] => i = j
    /\ Remaining(p) \cap Range(Idle) = {}
    /\ \A t \in Tasks : hold[t] \notin Remaining(p)

\* A worker is with one caller, in the queue, or with a purger.
OneOwner == HeldByOneCaller /\ HeldNotQueued /\ PurgedAlone

\* Whoever will send to a worker (a caller that holds it, one that will take
\* it from the queue, a purger) sends to a goroutine that is receiving and has
\* nothing before that message: ants.go:47-48, a buffer of one is enough.
IdleIsReceiving ==
  \A w \in Workers :
    (\/ w \in Range(Idle)
     \/ \E t \in Tasks : hold[t] = w
     \/ \E p \in Purgers : w \in Remaining(p))
       => wk[w] = "recv" /\ inbox[w] = Nothing

\* The scheduling of ants, where no caller gets to detach without the lock.
NonblockingOneOwner == opts.nonblocking => OneOwner
NonblockingIdleIsReceiving == opts.nonblocking => IdleIsReceiving

\* What the caller of Submit sees of it: it has begun, is blocked, has a worker,
\* or has returned.
Phase(t) ==
  CASE sub[t] \in {"lock", "check"} -> "begun"
    [] sub[t] \in {"waiting", "woken", "respawn", "racing", "writing", "reentry"} -> "blocked"
    [] sub[t] \in {"spawn", "send"} -> "served"
    [] OTHER -> sub[t]

Promise == INSTANCE TaskPool WITH
  Runnable <- Tasks \ NilTasks, Exact <- FALSE, phase <- [t \in Tasks |-> Phase(t)]

\* The pool keeps the promises of TaskPool: an accepted function runs once at
\* most, after its Submit has returned, and a refused one never; only a CLOSED pool
\* refuses with ErrPoolClosed, a nonblocking pool never blocks, and one without
\* MaxBlockingTasks never refuses a call that may block (ants.go:30-40,
\* pool.go:109-190).  That an accepted function runs is AcceptedRuns.  The branch
\* without the lock counts the blocked calls wrong, so that the number of them is
\* not promised.
PoolSpec == Promise!Spec

\* Submit returned nil: the function will have run, once, whatever is tuned,
\* released, rebooted or purged meanwhile.
AcceptedRuns ==
  \A t \in Tasks \ NilTasks : (sub[t] = "ok") ~> (runs[t] = 1)

\* Release sends to the idle workers with the spinlock held, and returns.
ReleaseReturns == (rel # "idle") ~> (rel = "idle")

AllReturned == \A t \in Tasks : sub[t] \in {"new", "ok", "overload", "closed"}

\* If no call of Submit is under way any more and the pool stays open, the
\* purger ends every worker: no goroutine leaks.
PurgeDrains ==
  <>[](state = "OPENED" /\ AllReturned) => <>[](running = 0)

=============================================================================
