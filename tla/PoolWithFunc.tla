---------------------------- MODULE PoolWithFunc ----------------------------
(***************************************************************************)
(* The pool of src/ants/pool_func.go, whose workers (worker_func.go) all   *)
(* run the same function: a call of Invoke hands one of them its argument. *)
(* Idle workers are a stack.  Unlike AntsPool, a call that was blocked     *)
(* returns as soon as it has spawned a worker, recycleTime is assigned,    *)
(* and each purger has a slice of its own.                                 *)
(*                                                                         *)
(* Steps are those of AntsPool: one atomic operation or one critical       *)
(* section, cut where the code reads a shared counter or sends with the    *)
(* lock held.                                                              *)
(***************************************************************************)
EXTENDS Integers, Sequences, FiniteSets, Functions

CONSTANTS Calls,      \* the calls of Invoke, each with its argument
          NilArgs,    \* those whose argument is nil
          Panicking,  \* those on whose argument the function may panic
          Workers,    \* the goWorkerWithFuncs the program ever allocates
          Purgers,    \* the instances of periodicallyPurge
          OptionSet,  \* the parameters NewPoolWithFunc may be called with
          TuneSizes,  \* the sizes Tune may be called with
          NoWorker,   \* a nil *goWorkerWithFunc
          Nil,        \* the nil argument in a worker's channel
          Nothing     \* an empty channel, or a worker with nothing to run

\* What NewPoolWithFunc is given and the capacity of the channels.  ticks is
\* FALSE for an ExpiryDuration longer than what is looked at: no heartbeat.
Options == [size : Nat, preAlloc : BOOLEAN, nonblocking : BOOLEAN,
            maxBlockingTasks : Nat, chanCap : {0, 1}, ticks : BOOLEAN]

ASSUME OptionsAssumption == OptionSet \subseteq Options

ASSUME ConstantsAssumption ==
  /\ NilArgs \subseteq Calls
  /\ Panicking \subseteq Calls
  /\ IsFiniteSet(Calls)
  /\ IsFiniteSet(Workers)
  /\ NoWorker \notin Workers
  /\ Nil \notin Calls
  /\ Nothing \notin Calls
  /\ Nil # Nothing
  /\ TuneSizes \subseteq Nat

VARIABLES
  opts,         \* p.options, the size and workerChanCap
  state,        \* p.state
  capacity,     \* p.capacity
  running,      \* p.running
  lock,         \* p.lock: whether the spinlock is taken
  workers,      \* p.workers: the idle workers, oldest first
  cond,         \* the waiters of p.cond, in the order of their tickets
  blockingNum,  \* p.blockingNum
  inv,          \* where each call of Invoke is
  hold,         \* its variable w
  wk,           \* where each worker's goroutine is
  args,         \* each worker's channel
  job,          \* the argument each worker's function is running on
  runs,         \* how often the function has run on each argument
  pg,           \* where each purger is
  expired,      \* what is left of its expiredWorkers
  rel           \* where the call of Release is

poolVars   == <<opts, state, capacity>>
condVars   == <<cond, blockingNum>>
callVars   == <<inv, hold>>
workerVars == <<wk, args, job, runs>>
purgeVars  == <<pg, expired>>
vars == <<poolVars, running, lock, workers, condVars, callVars, workerVars,
          purgeVars, rel>>

CallStates == {"new", "lock", "check", "spawn", "send", "waiting", "woken",
               "ok", "overload", "closed"}
WorkerStates == {"none", "recv", "run", "revert", "insert", "exit"}
PurgerStates == {"off", "tick", "lock", "send", "broadcast"}

Argument(c) == IF c \in NilArgs THEN Nil ELSE c

\* A worker exists as a goroutine from run() to the end of its deferred call.
Live == {w \in Workers : wk[w] # "none"}

Init ==
  /\ opts \in OptionSet
  /\ state = "OPENED"
  /\ capacity = opts.size
  /\ running = 0
  /\ lock = FALSE
  /\ workers = <<>>
  /\ cond = <<>>
  /\ blockingNum = 0
  /\ inv = [c \in Calls |-> "new"]
  /\ hold = [c \in Calls |-> NoWorker]
  /\ wk = [w \in Workers |-> "none"]
  /\ args = [w \in Workers |-> Nothing]
  /\ job = [w \in Workers |-> Nothing]
  /\ runs = [c \in Calls |-> 0]
  /\ \E first \in Purgers :
       pg = [p \in Purgers |-> IF opts.ticks /\ p = first THEN "tick" ELSE "off"]
  /\ expired = [p \in Purgers |-> <<>>]
  /\ rel = "idle"

\* The top of the stack, and what is below it.
Top == workers[Len(workers)]

\* Mutant of Below: the oldest worker is dropped in place of the top.
WrongEnd == Tail(workers)

Below == SubSeq(workers, 1, Len(workers) - 1)

\* w.args <- a can proceed: there is room, or the goroutine is receiving.
CanSend(w) == args[w] = Nothing /\ (opts.chanCap = 0 => wk[w] = "recv")

\* Mutant of decRunning: the counter is not decremented.
NoDecrement == UNCHANGED running

incRunning == running' = running + 1
decRunning == running' = running - 1

-----------------------------------------------------------------------------
(* Invoke and retrieveWorker.                                              *)

Invoke(c) ==
  /\ inv[c] = "new"
  /\ inv' = [inv EXCEPT ![c] = IF state = "CLOSED" THEN "closed" ELSE "lock"]
  /\ UNCHANGED <<poolVars, running, lock, workers, condVars, hold, workerVars,
                 purgeVars, rel>>

\* Take the idle worker on top, with the lock.
Pop(c) ==
  /\ workers # <<>>
  /\ hold' = [hold EXCEPT ![c] = Top]
  /\ workers' = Below
  /\ inv' = [inv EXCEPT ![c] = "send"]

RetrieveFast(c) ==
  /\ inv[c] = "lock"
  /\ ~lock
  /\ \/ Pop(c) /\ UNCHANGED lock
     \/ /\ workers = <<>>
        /\ inv' = [inv EXCEPT ![c] = "check"]
        /\ lock' = TRUE
        /\ UNCHANGED <<workers, hold>>
  /\ UNCHANGED <<poolVars, running, condVars, workerVars, purgeVars, rel>>

\* Mutant of Full: one more call than MaxBlockingTasks may block.
FullLate(blocked) == opts.maxBlockingTasks # 0 /\ blocked > opts.maxBlockingTasks

Full(blocked) == opts.maxBlockingTasks # 0 /\ blocked >= opts.maxBlockingTasks

\* From Reentry on: give up, or join the waiters of the condition variable.
\* Both end the critical section.
Reenter(c, blocked) ==
  /\ lock' = FALSE
  /\ IF Full(blocked)
       THEN /\ inv' = [inv EXCEPT ![c] = "overload"]
            /\ blockingNum' = blocked
            /\ UNCHANGED cond
       ELSE /\ inv' = [inv EXCEPT ![c] = "waiting"]
            /\ blockingNum' = blocked + 1
            /\ cond' = Append(cond, c)

\* p.Running() < p.Cap(), read with the lock held; running itself is counted
\* outside of the lock.
RetrieveCheck(c) ==
  /\ inv[c] = "check"
  /\ \/ /\ running < capacity
        /\ inv' = [inv EXCEPT ![c] = "spawn"]
        /\ lock' = FALSE
        /\ UNCHANGED condVars
     \/ /\ running >= capacity
        /\ opts.nonblocking
        /\ inv' = [inv EXCEPT ![c] = "overload"]
        /\ lock' = FALSE
        /\ UNCHANGED condVars
     \/ /\ running >= capacity
        /\ ~opts.nonblocking
        /\ Reenter(c, blockingNum)
  /\ UNCHANGED <<poolVars, running, workers, hold, workerVars, purgeVars, rel>>

Unblocked == blockingNum - 1

\* The end of p.cond.Wait(): lock again, and look for a worker.
Wake(c) ==
  /\ inv[c] = "woken"
  /\ ~lock
  /\ \/ /\ running = 0
        /\ inv' = [inv EXCEPT ![c] = "spawn"]
        /\ blockingNum' = Unblocked
        /\ UNCHANGED <<lock, workers, cond, hold>>
     \/ /\ running # 0
        /\ Pop(c)
        /\ blockingNum' = Unblocked
        /\ UNCHANGED <<lock, cond>>
     \/ /\ running # 0
        /\ workers = <<>>
        /\ Reenter(c, Unblocked)
        /\ UNCHANGED <<workers, hold>>
  /\ UNCHANGED <<poolVars, running, workerVars, purgeVars, rel>>

\* workerCache.Get() and w.run(): any worker that has no goroutine, those that
\* were never used included.
Spawn(c) ==
  /\ inv[c] = "spawn"
  /\ \E w \in Workers :
        /\ wk[w] = "none"
        /\ wk' = [wk EXCEPT ![w] = "recv"]
        /\ hold' = [hold EXCEPT ![c] = w]
  /\ incRunning
  /\ inv' = [inv EXCEPT ![c] = "send"]
  /\ UNCHANGED <<poolVars, lock, workers, condVars, args, job, runs, purgeVars,
                 rel>>

\* w.args <- args, and Invoke returns nil.
Send(c) ==
  /\ inv[c] = "send"
  /\ CanSend(hold[c])
  /\ args' = [args EXCEPT ![hold[c]] = Argument(c)]
  /\ inv' = [inv EXCEPT ![c] = "ok"]
  /\ hold' = [hold EXCEPT ![c] = NoWorker]
  /\ UNCHANGED <<poolVars, running, lock, workers, condVars, wk, job, runs,
                 purgeVars, rel>>

-----------------------------------------------------------------------------
(* The worker's goroutine.                                                 *)

\* Mutant of Ends: the function is called on a nil argument like on any other.
NeverEnds(a) == FALSE

\* if args == nil { return }
Ends(a) == a = Nil

\* for args := range w.args.
Receive(w) ==
  /\ wk[w] = "recv"
  /\ args[w] # Nothing
  /\ args' = [args EXCEPT ![w] = Nothing]
  /\ IF Ends(args[w])
       THEN /\ wk' = [wk EXCEPT ![w] = "exit"]
            /\ UNCHANGED job
       ELSE /\ wk' = [wk EXCEPT ![w] = "run"]
            /\ job' = [job EXCEPT ![w] = args[w]]
  /\ UNCHANGED <<poolVars, running, lock, workers, condVars, callVars, runs,
                 purgeVars, rel>>

\* Mutant of RunFunc: the function is tried once more when it panics.
RunAgain(w) ==
  /\ wk[w] = "run"
  /\ runs' = [runs EXCEPT ![job[w]] = @ + 1]
  /\ IF job[w] \in Panicking /\ runs[job[w]] = 0
       THEN UNCHANGED <<job, wk>>
       ELSE job' = [job EXCEPT ![w] = Nothing] /\ wk' = [wk EXCEPT ![w] = "revert"]
  /\ UNCHANGED <<poolVars, running, lock, workers, condVars, callVars, args,
                 purgeVars, rel>>

\* poolFunc(args), which may panic: the deferred function then ends the
\* goroutine.
RunFunc(w) ==
  /\ wk[w] = "run"
  /\ runs' = [runs EXCEPT ![job[w]] = @ + 1]
  /\ job' = [job EXCEPT ![w] = Nothing]
  /\ \/ wk' = [wk EXCEPT ![w] = "revert"]
     \/ job[w] \in Panicking /\ wk' = [wk EXCEPT ![w] = "exit"]
  /\ UNCHANGED <<poolVars, running, lock, workers, condVars, callVars, args,
                 purgeVars, rel>>

\* revertWorker's test of the state and of the capacity, before the lock.
RevertCheck(w) ==
  /\ wk[w] = "revert"
  /\ wk' = [wk EXCEPT ![w] = IF state = "CLOSED" \/ running > capacity
                               THEN "exit" ELSE "insert"]
  /\ UNCHANGED <<poolVars, running, lock, workers, condVars, callVars, args,
                 job, runs, purgeVars, rel>>

\* p.cond.Signal() wakes the waiter with the oldest ticket.
Signal ==
  IF cond = <<>>
    THEN UNCHANGED <<cond, inv>>
    ELSE /\ cond' = Tail(cond)
         /\ inv' = [inv EXCEPT ![Head(cond)] = "woken"]

\* Mutant of RevertInsert: nobody is woken.
InsertSilently(w) ==
  /\ wk[w] = "insert"
  /\ ~lock
  /\ workers' = Append(workers, w)
  /\ wk' = [wk EXCEPT ![w] = "recv"]
  /\ UNCHANGED <<poolVars, running, lock, blockingNum, cond, inv, hold, args, job,
                 runs, purgeVars, rel>>

\* The rest of revertWorker, with the lock.
RevertInsert(w) ==
  /\ wk[w] = "insert"
  /\ ~lock
  /\ workers' = Append(workers, w)
  /\ Signal
  /\ wk' = [wk EXCEPT ![w] = "recv"]
  /\ UNCHANGED <<poolVars, running, lock, blockingNum, hold, args, job, runs,
                 purgeVars, rel>>

\* The deferred function: decRunning, and the worker goes to the cache.
Exit(w) ==
  /\ wk[w] = "exit"
  /\ decRunning
  /\ wk' = [wk EXCEPT ![w] = "none"]
  /\ UNCHANGED <<poolVars, lock, workers, condVars, callVars, args, job, runs,
                 purgeVars, rel>>

-----------------------------------------------------------------------------
(* Tune, Release and Reboot.                                               *)

Tune(size) ==
  /\ size # capacity
  /\ ~opts.preAlloc
  /\ capacity' = size
  /\ UNCHANGED <<opts, state, running, lock, workers, condVars, callVars,
                 workerVars, purgeVars, rel>>

ReleaseClose ==
  /\ rel = "idle"
  /\ state' = "CLOSED"
  /\ rel' = "lock"
  /\ UNCHANGED <<opts, capacity, running, lock, workers, condVars, callVars,
                 workerVars, purgeVars>>

ReleaseLock ==
  /\ rel = "lock"
  /\ ~lock
  /\ lock' = TRUE
  /\ rel' = "reset"
  /\ UNCHANGED <<poolVars, running, workers, condVars, callVars, workerVars,
                 purgeVars>>

\* nil to each idle worker in turn, with the lock.
ReleaseSend ==
  /\ rel = "reset"
  /\ workers # <<>>
  /\ CanSend(Head(workers))
  /\ args' = [args EXCEPT ![Head(workers)] = Nil]
  /\ workers' = Tail(workers)
  /\ UNCHANGED <<poolVars, running, lock, condVars, callVars, wk, job, runs,
                 purgeVars, rel>>

ReleaseDone ==
  /\ rel = "reset"
  /\ workers = <<>>
  /\ lock' = FALSE
  /\ rel' = "idle"
  /\ UNCHANGED <<poolVars, running, workers, condVars, callVars, workerVars,
                 purgeVars>>

Reboot(p) ==
  /\ state = "CLOSED"
  /\ pg[p] = "off"
  /\ state' = "OPENED"
  /\ pg' = [pg EXCEPT ![p] = IF opts.ticks THEN "tick" ELSE "off"]
  /\ UNCHANGED <<opts, capacity, running, lock, workers, condVars, callVars,
                 workerVars, expired, rel>>

-----------------------------------------------------------------------------
(* periodicallyPurge.                                                      *)

PurgeTick(p) ==
  /\ pg[p] = "tick"
  /\ pg' = [pg EXCEPT ![p] = IF state = "CLOSED" THEN "off" ELSE "lock"]
  /\ UNCHANGED <<poolVars, running, lock, workers, condVars, callVars,
                 workerVars, expired, rel>>

\* The i oldest workers have been idle for long enough.  They are the ones
\* that leave p.workers; the others are both kept there and sent nil.
PurgeExpire(p) ==
  /\ pg[p] = "lock"
  /\ ~lock
  /\ \E i \in 0..Len(workers) :
        /\ expired' = [expired EXCEPT ![p] = SubSeq(workers, i + 1, Len(workers))]
        /\ workers' = SubSeq(workers, i + 1, Len(workers))
  /\ pg' = [pg EXCEPT ![p] = "send"]
  /\ UNCHANGED <<poolVars, running, lock, condVars, callVars, workerVars, rel>>

\* w.args <- nil
PurgeSend(p) ==
  /\ pg[p] = "send"
  /\ expired[p] # <<>>
  /\ CanSend(Head(expired[p]))
  /\ args' = [args EXCEPT ![Head(expired[p])] = Nil]
  /\ expired' = [expired EXCEPT ![p] = Tail(@)]
  /\ UNCHANGED <<poolVars, running, lock, workers, condVars, callVars, wk, job,
                 runs, pg, rel>>

PurgeEnd(p) ==
  /\ pg[p] = "send"
  /\ expired[p] = <<>>
  /\ pg' = [pg EXCEPT ![p] = IF running = 0 THEN "broadcast" ELSE "tick"]
  /\ UNCHANGED <<poolVars, running, lock, workers, condVars, callVars,
                 workerVars, expired, rel>>

\* With no worker running, every waiter is woken.
PurgeBroadcast(p) ==
  /\ pg[p] = "broadcast"
  /\ cond' = <<>>
  /\ inv' = [c \in Calls |-> IF inv[c] = "waiting" THEN "woken" ELSE inv[c]]
  /\ pg' = [pg EXCEPT ![p] = "tick"]
  /\ UNCHANGED <<poolVars, running, lock, workers, blockingNum, hold,
                 workerVars, expired, rel>>

-----------------------------------------------------------------------------
(* The specification.                                                      *)

\* What a call of Invoke does once it has begun.
Proceed(c) ==
  RetrieveFast(c) \/ RetrieveCheck(c) \/ Wake(c) \/ Spawn(c) \/ Send(c)

Serve(w) ==
  Receive(w) \/ RunFunc(w) \/ RevertCheck(w) \/ RevertInsert(w) \/ Exit(w)

Purge(p) ==
  \/ PurgeTick(p) \/ PurgeExpire(p) \/ PurgeSend(p) \/ PurgeEnd(p)
  \/ PurgeBroadcast(p)

Reset == ReleaseLock \/ ReleaseSend \/ ReleaseDone

Next ==
  \/ \E c \in Calls : Invoke(c) \/ Proceed(c)
  \/ \E w \in Workers : Serve(w)
  \/ \E p \in Purgers : Reboot(p) \/ Purge(p)
  \/ \E size \in TuneSizes : Tune(size)
  \/ ReleaseClose \/ Reset

Spec == Init /\ [][Next]_vars

-----------------------------------------------------------------------------
(* Properties.                                                             *)

\* The variables have the types of the fields they stand for, the queues and
\* the variables of the goroutines hold allocated workers only.
TypeOK ==
  /\ opts \in OptionSet
  /\ state \in {"OPENED", "CLOSED"}
  /\ capacity \in Nat
  /\ running \in Int
  /\ lock \in BOOLEAN
  /\ workers \in Seq(Workers)
  /\ cond \in Seq(Calls)
  /\ blockingNum \in Int
  /\ inv \in [Calls -> CallStates]
  /\ hold \in [Calls -> Workers \cup {NoWorker}]
  /\ \A c \in Calls : inv[c] = "send" => hold[c] \in Workers
  /\ wk \in [Workers -> WorkerStates]
  /\ args \in [Workers -> Calls \cup {Nil, Nothing}]
  /\ job \in [Workers -> Calls \cup {Nothing}]
  /\ \A w \in Workers : wk[w] = "run" => job[w] \in Calls
  /\ runs \in [Calls -> Nat]
  /\ pg \in [Purgers -> PurgerStates]
  /\ expired \in [Purgers -> Seq(Workers)]
  /\ rel \in {"idle", "lock", "reset"}

\* p.running is the number of worker goroutines, however they end, even when
\* the purger ends them behind the back of the stack.
RunningCountsLive == running = Cardinality(Live)

\* The calls inside p.cond.Wait(), woken or not.
Blocked == {c \in Calls : inv[c] \in {"waiting", "woken"}}

\* blockingNum (pool_func.go:184-190) counts the calls that are blocked, each
\* of which holds one ticket, and MaxBlockingTasks bounds them.
BlockedCountExact ==
  /\ blockingNum = Cardinality(Blocked)
  /\ opts.maxBlockingTasks # 0 => blockingNum <= opts.maxBlockingTasks
  /\ \A c \in Calls : inv[c] = "waiting" <=> c \in Range(cond)
  /\ \A i, j \in 1..Len(cond) : cond[i] = cond[j] => i = j

\* A worker has one owner: a caller of Invoke, or the stack, where it is once.
OneOwner ==
  /\ \A i, j \in 1..Len(workers) : workers[i] = workers[j] => i = j
  /\ \A c, d \in Calls : hold[c] = hold[d] /\ hold[c] # NoWorker => c = d
  /\ \A c \in Calls : hold[c] \notin Range(workers)

\* Its owner sends to a goroutine that receives on an empty channel: the workers
\* that the purger keeps because they have not expired (pool_func.go:84-85) are
\* still there to be used.
IdleIsReceiving ==
  \A w \in Workers :
    w \in Range(workers) \/ (\E c \in Calls : hold[c] = w)
      => wk[w] = "recv" /\ args[w] = Nothing

\* Before the first heartbeat, blocking included: a worker has one owner and
\* is alive.
OneOwnerUntilTick == ~opts.ticks => OneOwner /\ IdleIsReceiving

\* Before the first heartbeat, no waiter sleeps while a worker is idle: there
\* are as many calls woken to fetch the idle workers as there are of these.
NoIdleWhileWaiting ==
  ~opts.ticks /\ cond # <<>> =>
    Len(workers) <= Cardinality({c \in Calls : inv[c] = "woken"})

\* What the caller of Invoke sees of it: it has begun, is blocked, has a worker,
\* or has returned.
Phase(c) ==
  CASE inv[c] \in {"lock", "check"}     -> "begun"
    [] inv[c] \in {"waiting", "woken"} -> "blocked"
    [] inv[c] \in {"spawn", "send"}    -> "served"
    [] OTHER -> inv[c]

Promise == INSTANCE TaskPool WITH
  Tasks <- Calls, Runnable <- Calls \ NilArgs, Exact <- TRUE,
  phase <- [c \in Calls |-> Phase(c)]

\* The pool keeps the promises of TaskPool, those about the blocked calls
\* included: at most MaxBlockingTasks block, a call is refused with
\* ErrPoolOverload when that many do or may not block at all, and never once it
\* has blocked; on an accepted argument the function runs once at most, and never
\* on a refused one, although the purger ends workers that are still in the stack
\* (ants.go:30-40, pool_func.go:149-204).  It does not say that no argument is
\* lost: a worker that the purger has ended keeps the one sent to it until it is
\* spawned again, if ever.
PoolSpec == Promise!Spec

=============================================================================
