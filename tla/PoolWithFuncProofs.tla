------------------------- MODULE PoolWithFuncProofs -------------------------
(***************************************************************************)
(* Proofs about PoolWithFunc: for every set of calls, workers, purgers and *)
(* options.                                                                *)
(***************************************************************************)
EXTENDS PoolWithFunc, FiniteSetTheorems, SequenceTheorems, TLAPS

-----------------------------------------------------------------------------
(* Queues without duplicates: the stack of idle workers and the tickets of  *)
(* the condition variable.                                                  *)

Distinct(s) == \A i, j \in 1..Len(s) : s[i] = s[j] => i = j

LEMMA TailOfDistinct ==
  ASSUME NEW S, NEW s \in Seq(S), s # <<>>, Distinct(s)
  PROVE  /\ Head(s) \in S /\ Head(s) \in Range(s)
         /\ Tail(s) \in Seq(S) /\ Distinct(Tail(s)) /\ Len(Tail(s)) = Len(s) - 1
         /\ Range(Tail(s)) = Range(s) \ {Head(s)}
<1>1. /\ Head(s) = s[1] /\ Head(s) \in S /\ Len(s) \in Nat \ {0}
      /\ Tail(s) \in Seq(S) /\ Len(Tail(s)) = Len(s) - 1
      /\ \A i \in 1..(Len(s) - 1) : Tail(s)[i] = s[i + 1]
  BY HeadTailProperties, EmptySeq, LenProperties
<1>2. /\ Range(s) = {s[i] : i \in 1..Len(s)}
      /\ Range(Tail(s)) = {Tail(s)[i] : i \in 1..Len(Tail(s))}
  BY <1>1, RangeEquality
<1>3. Distinct(Tail(s))
  BY <1>1 DEF Distinct
<1>4. Range(Tail(s)) \subseteq Range(s) \ {s[1]}
  BY <1>1, <1>2 DEF Distinct
<1>5. ASSUME NEW x \in Range(s) \ {s[1]} PROVE x \in Range(Tail(s))
  <2>1. PICK i \in 1..Len(s) : x = s[i] /\ i # 1
    BY <1>2
  <2>2. i - 1 \in 1..(Len(s) - 1) /\ Tail(s)[i - 1] = s[i]
    BY <1>1, <2>1
  <2> QED
    BY <1>1, <1>2, <2>1, <2>2
<1>6. Head(s) \in Range(s)
  BY <1>1, <1>2
<1> QED
  BY <1>1, <1>3, <1>4, <1>5, <1>6

LEMMA AppendToDistinct ==
  ASSUME NEW S, NEW s \in Seq(S), Distinct(s), NEW x \in S, x \notin Range(s)
  PROVE  /\ Append(s, x) \in Seq(S) /\ Distinct(Append(s, x))
         /\ Len(Append(s, x)) = Len(s) + 1
         /\ Range(Append(s, x)) = Range(s) \cup {x}
<1> DEFINE q == Append(s, x)
<1>1. /\ q \in Seq(S) /\ Len(q) = Len(s) + 1 /\ Len(s) \in Nat
      /\ \A i \in 1..Len(s) : q[i] = s[i]
      /\ q[Len(s) + 1] = x
  BY AppendProperties, LenProperties
<1>2. /\ Range(s) = {s[i] : i \in 1..Len(s)}
      /\ Range(q) = {q[i] : i \in 1..Len(q)}
  BY <1>1, RangeEquality
<1>3. \A i \in 1..Len(s) : s[i] # x
  BY <1>2
<1> HIDE DEF q
<1>4. Distinct(q)
  BY <1>1, <1>3 DEF Distinct
<1>5. Range(q) = Range(s) \cup {x}
  BY <1>1, <1>2
<1> QED
  BY <1>1, <1>4, <1>5 DEF q

\* The worker on top of the stack, and what is left when it is taken.
LEMMA BelowTheTop ==
  ASSUME workers \in Seq(Workers), workers # <<>>
  PROVE  /\ Top \in Workers /\ Top \in Range(workers)
         /\ Below \in Seq(Workers) /\ Len(Below) = Len(workers) - 1
         /\ \A i \in 1..Len(Below) : Below[i] = workers[i]
         /\ Range(Below) \subseteq Range(workers)
         /\ Distinct(workers) => Distinct(Below) /\ Top \notin Range(Below)
<1> DEFINE n == Len(workers)
<1>1. n \in Nat \ {0} /\ Range(workers) = {workers[i] : i \in 1..n}
  BY EmptySeq, LenProperties, RangeEquality
<1>2. \A i \in 1..n : workers[i] \in Workers
  BY ElementOfSeq
<1>3. /\ Below \in Seq(Workers)
      /\ Len(Below) = IF 1 <= n - 1 THEN n - 1 - 1 + 1 ELSE 0
      /\ \A i \in 1..(n - 1 - 1 + 1) : Below[i] = workers[1 + i - 1]
  BY <1>1, <1>2, SubSeqProperties DEF Below
<1> HIDE DEF n
<1>4. Len(Below) = n - 1
  BY <1>1, <1>3
<1>5. \A i \in 1..(n - 1) : Below[i] = workers[i]
  BY <1>1, <1>3
<1>6. Range(Below) = {Below[i] : i \in 1..Len(Below)}
  BY <1>3, RangeEquality
<1>7. Top = workers[n]
  BY DEF Top, n
<1>8. Distinct(workers) => Distinct(Below) /\ Top \notin Range(Below)
  BY <1>1, <1>4, <1>5, <1>6, <1>7 DEF Distinct, n
<1> QED
  BY <1>1, <1>2, <1>3, <1>4, <1>5, <1>6, <1>7, <1>8 DEF n

-----------------------------------------------------------------------------
(* Types.                                                                   *)

\* Reentry keeps the types of what it changes.
LEMMA ReenterTypes ==
  ASSUME TypeOK, NEW c \in Calls, NEW blocked \in Int, Reenter(c, blocked)
  PROVE  /\ lock' \in BOOLEAN
         /\ cond' \in Seq(Calls)
         /\ blockingNum' \in Int
         /\ inv' \in [Calls -> CallStates]
         /\ \A d \in Calls : inv'[d] = "send" => inv[d] = "send"
<1>1. CASE Full(blocked)
  BY <1>1 DEF TypeOK, Reenter, CallStates
<1>2. CASE ~Full(blocked)
  <2>1. Append(cond, c) \in Seq(Calls)
    BY AppendProperties DEF TypeOK
  <2>2. /\ lock' = FALSE /\ blockingNum' = blocked + 1 /\ cond' = Append(cond, c)
        /\ inv' = [inv EXCEPT ![c] = "waiting"]
    BY <1>2 DEF Reenter
  <2>4. cond' \in Seq(Calls)
    BY <2>1, <2>2, Zenon
  <2>5. blockingNum' \in Int
    BY <2>2
  <2>3. /\ inv' \in [Calls -> CallStates]
        /\ \A d \in Calls : inv'[d] = "send" => inv[d] = "send"
    BY <2>2 DEF TypeOK, CallStates
  <2> QED
    BY <2>2, <2>3, <2>4, <2>5
<1> QED
  BY <1>1, <1>2

LEMMA InitType == Init => TypeOK
<1> SUFFICES ASSUME Init PROVE TypeOK
  OBVIOUS
<1>1. opts \in OptionSet /\ capacity \in Nat
  BY OptionsAssumption DEF Init, Options
<1>2. /\ workers \in Seq(Workers) /\ cond \in Seq(Calls)
      /\ expired \in [Purgers -> Seq(Workers)]
  BY EmptySeq DEF Init
<1>3. /\ inv \in [Calls -> CallStates] /\ hold \in [Calls -> Workers \cup {NoWorker}]
      /\ \A c \in Calls : inv[c] = "send" => hold[c] \in Workers
  BY DEF Init, CallStates
<1>4. /\ wk \in [Workers -> WorkerStates] /\ args \in [Workers -> Calls \cup {Nil, Nothing}]
      /\ job \in [Workers -> Calls \cup {Nothing}] /\ runs \in [Calls -> Nat]
      /\ \A w \in Workers : wk[w] = "run" => job[w] \in Calls
  BY DEF Init, WorkerStates
<1>5. pg \in [Purgers -> PurgerStates]
  BY DEF Init, PurgerStates
<1>6. running \in Int /\ blockingNum \in Int
  BY DEF Init
<1>7. state \in {"OPENED", "CLOSED"} /\ lock \in BOOLEAN /\ rel \in {"idle", "lock", "reset"}
  BY Zenon DEF Init
<1> QED
  BY <1>1, <1>2, <1>3, <1>4, <1>5, <1>6, <1>7 DEF TypeOK

LEMMA StepType ==
  ASSUME TypeOK, [Next]_vars
  PROVE  TypeOK'
<1> USE ConstantsAssumption
<1>1. ASSUME NEW c \in Calls, Invoke(c) PROVE TypeOK'
  BY <1>1 DEF TypeOK, Invoke, CallStates, poolVars, condVars, workerVars, purgeVars
<1>2. ASSUME NEW c \in Calls, RetrieveFast(c) PROVE TypeOK'
  <2>1. CASE Pop(c) /\ UNCHANGED lock
    <3>1. Top \in Workers /\ Below \in Seq(Workers)
      BY <2>1, BelowTheTop DEF TypeOK, Pop
    <3> QED
      BY <1>2, <2>1, <3>1
      DEF TypeOK, RetrieveFast, Pop, CallStates, poolVars, condVars, workerVars, purgeVars
  <2>2. CASE /\ inv' = [inv EXCEPT ![c] = "check"]
             /\ lock' = TRUE
             /\ UNCHANGED <<workers, hold>>
    BY <1>2, <2>2
    DEF TypeOK, RetrieveFast, CallStates, poolVars, condVars, workerVars, purgeVars
  <2> QED
    BY <1>2, <2>1, <2>2 DEF RetrieveFast
<1>3. ASSUME NEW c \in Calls, RetrieveCheck(c) PROVE TypeOK'
  <2>1. CASE Reenter(c, blockingNum)
    <3>1. blockingNum \in Int
      BY DEF TypeOK
    <3> QED
      BY <1>3, <2>1, <3>1, ReenterTypes
      DEF TypeOK, RetrieveCheck, poolVars, workerVars, purgeVars
  <2>2. CASE /\ inv' = [inv EXCEPT ![c] = "spawn"] \/ inv' = [inv EXCEPT ![c] = "overload"]
             /\ lock' = FALSE
             /\ UNCHANGED condVars
    BY <1>3, <2>2
    DEF TypeOK, RetrieveCheck, CallStates, poolVars, condVars, workerVars, purgeVars
  <2> QED
    BY <1>3, <2>1, <2>2 DEF RetrieveCheck
<1>4. ASSUME NEW c \in Calls, Wake(c) PROVE TypeOK'
  <2>1. CASE Reenter(c, Unblocked) /\ UNCHANGED <<workers, hold>>
    <3>1. Unblocked \in Int
      BY DEF TypeOK, Unblocked
    <3> QED
      BY <1>4, <2>1, <3>1, ReenterTypes DEF TypeOK, Wake, poolVars, workerVars, purgeVars
  <2>2. CASE Pop(c) /\ blockingNum' = Unblocked /\ UNCHANGED <<lock, cond>>
    <3>1. Top \in Workers /\ Below \in Seq(Workers)
      BY <2>2, BelowTheTop DEF TypeOK, Pop
    <3> QED
      BY <1>4, <2>2, <3>1
      DEF TypeOK, Wake, Pop, Unblocked, CallStates, poolVars, workerVars, purgeVars
  <2>3. CASE /\ inv' = [inv EXCEPT ![c] = "spawn"] /\ blockingNum' = Unblocked
             /\ UNCHANGED <<lock, workers, cond, hold>>
    BY <1>4, <2>3 DEF TypeOK, Wake, Unblocked, CallStates, poolVars, workerVars, purgeVars
  <2> QED
    BY <1>4, <2>1, <2>2, <2>3 DEF Wake
<1>5. ASSUME NEW c \in Calls, Spawn(c) PROVE TypeOK'
  BY <1>5 DEF TypeOK, Spawn, CallStates, WorkerStates, incRunning, poolVars, condVars, purgeVars
<1>6. ASSUME NEW c \in Calls, Send(c) PROVE TypeOK'
  BY <1>6 DEF TypeOK, Send, Argument, CallStates, poolVars, condVars, purgeVars
<1>7. ASSUME NEW w \in Workers, Receive(w) PROVE TypeOK'
  BY <1>7 DEF TypeOK, Receive, Ends, WorkerStates, poolVars, condVars, callVars, purgeVars
<1>8. ASSUME NEW w \in Workers, RunFunc(w) PROVE TypeOK'
  <2>1. /\ job[w] \in Calls /\ runs' = [runs EXCEPT ![job[w]] = @ + 1]
        /\ job' = [job EXCEPT ![w] = Nothing]
        /\ wk' = [wk EXCEPT ![w] = "revert"] \/ wk' = [wk EXCEPT ![w] = "exit"]
    BY <1>8 DEF TypeOK, RunFunc
  <2>2. runs' \in [Calls -> Nat]
    BY <2>1 DEF TypeOK
  <2>3. /\ job' \in [Workers -> Calls \cup {Nothing}] /\ wk' \in [Workers -> WorkerStates]
        /\ \A v \in Workers : wk'[v] = "run" => job'[v] \in Calls
    BY <2>1 DEF TypeOK, WorkerStates
  <2> QED
    BY <1>8, <2>2, <2>3 DEF TypeOK, RunFunc, poolVars, condVars, callVars, purgeVars
<1>9. ASSUME NEW w \in Workers, RevertCheck(w) PROVE TypeOK'
  BY <1>9 DEF TypeOK, RevertCheck, WorkerStates, poolVars, condVars, callVars, purgeVars
<1>10. ASSUME NEW w \in Workers, RevertInsert(w) PROVE TypeOK'
  <2>1. /\ cond' \in Seq(Calls) /\ inv' \in [Calls -> CallStates]
        /\ \A d \in Calls : inv'[d] = "send" => inv[d] = "send"
    <3>1. CASE cond = <<>>
      BY <1>10, <3>1 DEF TypeOK, RevertInsert, Signal
    <3>2. CASE cond # <<>>
      <4>1. Head(cond) \in Calls /\ Tail(cond) \in Seq(Calls)
        BY <3>2, HeadTailProperties DEF TypeOK
      <4> QED
        BY <1>10, <3>2, <4>1 DEF TypeOK, RevertInsert, Signal, CallStates
    <3> QED
      BY <3>1, <3>2
  <2>2. Append(workers, w) \in Seq(Workers)
    BY AppendProperties DEF TypeOK
  <2> QED
    BY <1>10, <2>1, <2>2 DEF TypeOK, RevertInsert, WorkerStates, poolVars, purgeVars
<1>11. ASSUME NEW w \in Workers, Exit(w) PROVE TypeOK'
  BY <1>11 DEF TypeOK, Exit, decRunning, WorkerStates, poolVars, condVars, callVars, purgeVars
<1>12. ASSUME NEW size \in TuneSizes, Tune(size) PROVE TypeOK'
  BY <1>12 DEF TypeOK, Tune, condVars, callVars, workerVars, purgeVars
<1>13. CASE ReleaseClose
  BY <1>13 DEF TypeOK, ReleaseClose, condVars, callVars, workerVars, purgeVars
<1>14. CASE ReleaseLock
  BY <1>14 DEF TypeOK, ReleaseLock, poolVars, condVars, callVars, workerVars, purgeVars
<1>15. CASE ReleaseSend
  BY <1>15, HeadTailProperties DEF TypeOK, ReleaseSend, poolVars, condVars, callVars, purgeVars
<1>16. CASE ReleaseDone
  BY <1>16 DEF TypeOK, ReleaseDone, poolVars, condVars, callVars, workerVars, purgeVars
<1>17. ASSUME NEW p \in Purgers, Reboot(p) PROVE TypeOK'
  BY <1>17 DEF TypeOK, Reboot, PurgerStates, condVars, callVars, workerVars
<1>18. ASSUME NEW p \in Purgers, PurgeTick(p) PROVE TypeOK'
  BY <1>18 DEF TypeOK, PurgeTick, PurgerStates, poolVars, condVars, callVars, workerVars
<1>19. ASSUME NEW p \in Purgers, PurgeExpire(p) PROVE TypeOK'
  <2>1. PICK i \in 0..Len(workers) :
          /\ expired' = [expired EXCEPT ![p] = SubSeq(workers, i + 1, Len(workers))]
          /\ workers' = SubSeq(workers, i + 1, Len(workers))
    BY <1>19 DEF PurgeExpire
  <2>2. SubSeq(workers, i + 1, Len(workers)) \in Seq(Workers)
    <3>1. Len(workers) \in Nat /\ i + 1 \in Int /\ workers \in Seq(Workers)
      BY LenProperties DEF TypeOK
    <3>2. \A j \in (i + 1)..Len(workers) : workers[j] \in Workers
      BY <3>1, ElementOfSeq
    <3> QED
      BY <3>1, <3>2, SubSeqProperties
  <2> QED
    BY <1>19, <2>1, <2>2
    DEF TypeOK, PurgeExpire, PurgerStates, poolVars, condVars, callVars, workerVars
<1>20. ASSUME NEW p \in Purgers, PurgeSend(p) PROVE TypeOK'
  <2>1. Tail(expired[p]) \in Seq(Workers)
    BY <1>20, HeadTailProperties DEF TypeOK, PurgeSend
  <2> QED
    BY <1>20, <2>1 DEF TypeOK, PurgeSend, poolVars, condVars, callVars
<1>21. ASSUME NEW p \in Purgers, PurgeEnd(p) PROVE TypeOK'
  BY <1>21 DEF TypeOK, PurgeEnd, PurgerStates, poolVars, condVars, callVars, workerVars
<1>22. ASSUME NEW p \in Purgers, PurgeBroadcast(p) PROVE TypeOK'
  BY <1>22 DEF TypeOK, PurgeBroadcast, CallStates, PurgerStates, poolVars, workerVars
<1>23. CASE UNCHANGED vars
  BY <1>23 DEF TypeOK, vars, poolVars, condVars, callVars, workerVars, purgeVars
<1> QED
  BY <1>1, <1>2, <1>3, <1>4, <1>5, <1>6, <1>7, <1>8, <1>9, <1>10, <1>11, <1>12, <1>13,
     <1>14, <1>15, <1>16, <1>17, <1>18, <1>19, <1>20, <1>21, <1>22, <1>23
  DEF Next, Proceed, Serve, Purge, Reset

\* The types of the state of the pool hold in every reachable state: whatever a
\* purger ends behind the back of the stack, the stack, the slices of the purgers
\* and the variable w of a caller about to send hold allocated workers.
THEOREM TypeCorrect == Spec => []TypeOK
<1>1. Init => TypeOK
  BY InitType
<1>2. TypeOK /\ [Next]_vars => TypeOK'
  BY StepType
<1> QED
  BY <1>1, <1>2, PTL DEF Spec

-----------------------------------------------------------------------------
(* The running counter.  Only a spawn and an exit change it, and they change *)
(* the set of goroutines by the worker they are about.                       *)

LEMMA InitCount == Init => RunningCountsLive
<1> SUFFICES ASSUME Init PROVE RunningCountsLive
  OBVIOUS
<1>1. running = 0 /\ Live = {}
  BY DEF Init, Live
<1> QED
  BY <1>1, FS_EmptySet DEF RunningCountsLive

LEMMA StepCount ==
  ASSUME TypeOK, RunningCountsLive, [Next]_vars
  PROVE  RunningCountsLive'
<1>1. IsFiniteSet(Live)
  BY FS_Subset, ConstantsAssumption DEF Live
<1>2. ASSUME NEW c \in Calls, Spawn(c) PROVE RunningCountsLive'
  <2>1. PICK w \in Workers : wk[w] = "none" /\ wk' = [wk EXCEPT ![w] = "recv"]
    BY <1>2 DEF Spawn
  <2>2. w \notin Live /\ Live' = Live \cup {w}
    BY <2>1 DEF TypeOK, Live
  <2> QED
    BY <1>1, <1>2, <2>2, FS_AddElement DEF RunningCountsLive, Spawn, incRunning
<1>3. ASSUME NEW w \in Workers, Exit(w) PROVE RunningCountsLive'
  <2>1. w \in Live /\ Live' = Live \ {w}
    BY <1>3 DEF TypeOK, Live, Exit
  <2> QED
    BY <1>1, <1>3, <2>1, FS_RemoveElement DEF RunningCountsLive, Exit, decRunning
<1>4. ASSUME NEW w \in Workers, Serve(w), ~Exit(w) PROVE running' = running /\ Live' = Live
  BY <1>4 DEF Serve, Receive, RunFunc, RevertCheck, RevertInsert, Live, TypeOK
<1>5. ASSUME NEW c \in Calls, Invoke(c) \/ Proceed(c), ~Spawn(c)
      PROVE  running' = running /\ wk' = wk
  BY <1>5 DEF Invoke, Proceed, RetrieveFast, RetrieveCheck, Wake, Send, workerVars
<1>6. ASSUME NEW p \in Purgers, Reboot(p) \/ Purge(p) PROVE running' = running /\ wk' = wk
  BY <1>6 DEF Reboot, Purge, PurgeTick, PurgeExpire, PurgeSend, PurgeEnd, PurgeBroadcast,
     workerVars
<1>7. ASSUME NEW size \in TuneSizes, Tune(size) PROVE running' = running /\ wk' = wk
  BY <1>7 DEF Tune, workerVars
<1>8. CASE ReleaseClose \/ Reset \/ UNCHANGED vars
  BY <1>8 DEF ReleaseClose, Reset, ReleaseLock, ReleaseSend, ReleaseDone, vars, workerVars,
     RunningCountsLive, Live
<1> QED
  BY <1>2, <1>3, <1>4, <1>5, <1>6, <1>7, <1>8 DEF Next, Proceed, Serve, RunningCountsLive, Live

\* p.running, which decides whether a call of Invoke may spawn, blocks or is
\* refused, is at all times the number of worker goroutines.
THEOREM CounterExact == Spec => []RunningCountsLive
<1>1. Init => RunningCountsLive
  BY InitCount
<1>2. TypeOK /\ RunningCountsLive /\ [Next]_vars => RunningCountsLive'
  BY StepCount
<1> QED
  BY <1>1, <1>2, TypeCorrect, PTL DEF Spec

-----------------------------------------------------------------------------
(* The calls that block.  BlockedCountExact is inductive: a call counts in   *)
(* blockingNum and has a ticket from the moment it joins the waiters, with   *)
(* the lock, to the end of p.cond.Wait().                                    *)

\* The options are never assigned after NewPoolWithFunc.
LEMMA OptionsConstant ==
  ASSUME [Next]_vars
  PROVE  opts' = opts
<1>1. ASSUME NEW c \in Calls, Invoke(c) \/ Proceed(c) PROVE opts' = opts
  BY <1>1 DEF Invoke, Proceed, RetrieveFast, RetrieveCheck, Wake, Spawn, Send, poolVars
<1>2. ASSUME NEW w \in Workers, Serve(w) PROVE opts' = opts
  BY <1>2 DEF Serve, Receive, RunFunc, RevertCheck, RevertInsert, Exit, poolVars
<1>3. ASSUME NEW p \in Purgers, Reboot(p) \/ Purge(p) PROVE opts' = opts
  BY <1>3 DEF Reboot, Purge, PurgeTick, PurgeExpire, PurgeSend, PurgeEnd, PurgeBroadcast,
     poolVars
<1>4. ASSUME NEW size \in TuneSizes, Tune(size) PROVE opts' = opts
  BY <1>4 DEF Tune
<1>5. CASE ReleaseClose \/ Reset \/ UNCHANGED vars
  BY <1>5 DEF ReleaseClose, Reset, ReleaseLock, ReleaseSend, ReleaseDone, vars, poolVars
<1> QED
  BY <1>1, <1>2, <1>3, <1>4, <1>5 DEF Next

LEMMA BlockedIsFinite == IsFiniteSet(Blocked) /\ Cardinality(Blocked) \in Nat
BY FS_Subset, FS_CardinalityType, ConstantsAssumption DEF Blocked

\* A step that neither blocks a call nor wakes one.
LEMMA CountKept ==
  ASSUME BlockedCountExact, UNCHANGED <<opts, cond, blockingNum>>,
         \A c \in Calls : inv'[c] # inv[c] =>
           {inv[c], inv'[c]} \cap {"waiting", "woken"} = {}
  PROVE  BlockedCountExact'
<1>1. \A c \in Calls : /\ inv'[c] = "waiting" <=> inv[c] = "waiting"
                       /\ inv'[c] = "woken" <=> inv[c] = "woken"
  OBVIOUS
<1>2. Blocked' = Blocked
  BY <1>1 DEF Blocked
<1> QED
  BY <1>1, <1>2 DEF BlockedCountExact

\* From Reentry on, with the other calls that block counted in blocked.
LEMMA ReenterCount ==
  ASSUME TypeOK, BlockedCountExact, NEW c \in Calls, inv[c] # "waiting",
         NEW blocked \in Int, Reenter(c, blocked), opts' = opts,
         blocked = Cardinality(Blocked \ {c}),
         opts.maxBlockingTasks # 0 => blocked <= opts.maxBlockingTasks
  PROVE  BlockedCountExact'
<1>1. inv \in [Calls -> CallStates] /\ cond \in Seq(Calls) /\ opts.maxBlockingTasks \in Nat
  BY OptionsAssumption DEF TypeOK, Options
<1>2. IsFiniteSet(Blocked \ {c})
  BY BlockedIsFinite, FS_Subset
<1>3. Distinct(cond) /\ \A d \in Calls : inv[d] = "waiting" <=> d \in Range(cond)
  BY DEF BlockedCountExact, Distinct
<1>4. CASE Full(blocked)
  <2>1. inv' = [inv EXCEPT ![c] = "overload"] /\ blockingNum' = blocked /\ cond' = cond
    BY <1>4 DEF Reenter
  <2>2. Blocked' = Blocked \ {c}
    BY <1>1, <2>1 DEF Blocked
  <2>3. \A d \in Calls : inv'[d] = "waiting" <=> d \in Range(cond)'
    BY <1>1, <1>3, <2>1
  <2> QED
    BY <1>3, <2>1, <2>2, <2>3 DEF BlockedCountExact, Distinct
<1>5. CASE ~Full(blocked)
  <2>1. /\ inv' = [inv EXCEPT ![c] = "waiting"] /\ blockingNum' = blocked + 1
        /\ cond' = Append(cond, c)
    BY <1>5 DEF Reenter
  <2>2. Blocked' = (Blocked \ {c}) \cup {c}
    BY <1>1, <2>1 DEF Blocked
  <2>3. Cardinality(Blocked') = blocked + 1
    BY <1>2, <2>2, FS_AddElement
  <2>4. opts.maxBlockingTasks # 0 => blocked + 1 <= opts.maxBlockingTasks
    BY <1>1, <1>5 DEF Full
  <2>5. Distinct(cond') /\ Range(cond') = Range(cond) \cup {c}
    BY <1>1, <1>3, <2>1, AppendToDistinct
  <2>6. \A d \in Calls : inv'[d] = "waiting" <=> d \in Range(cond)'
    BY <1>1, <1>3, <2>1, <2>5
  <2> QED
    BY <2>1, <2>3, <2>4, <2>5, <2>6 DEF BlockedCountExact, Distinct
<1> QED
  BY <1>4, <1>5

\* The call is among the blocked ones until it has looked for a worker.
LEMMA WokenCount ==
  ASSUME TypeOK, BlockedCountExact, NEW c \in Calls, inv[c] = "woken"
  PROVE  /\ Unblocked \in Nat
         /\ Unblocked = Cardinality(Blocked \ {c})
         /\ opts.maxBlockingTasks # 0 => Unblocked < opts.maxBlockingTasks
<1>1. c \in Blocked
  BY DEF Blocked
<1>2. /\ Cardinality(Blocked \ {c}) = Cardinality(Blocked) - 1
      /\ Cardinality(Blocked \ {c}) \in Nat
  BY <1>1, BlockedIsFinite, FS_RemoveElement, FS_CardinalityType
<1>3. opts.maxBlockingTasks \in Nat /\ blockingNum \in Int
  BY OptionsAssumption DEF TypeOK, Options
<1> QED
  BY <1>2, <1>3, BlockedIsFinite DEF BlockedCountExact, Unblocked

\* A call that wakes up and leaves the blocked ones.
LEMMA UnblockCount ==
  ASSUME TypeOK, BlockedCountExact, NEW c \in Calls, inv[c] = "woken",
         blockingNum' = Unblocked, UNCHANGED <<opts, cond>>,
         \E s \in {"spawn", "send"} : inv' = [inv EXCEPT ![c] = s]
  PROVE  BlockedCountExact'
<1>1. inv \in [Calls -> CallStates] /\ opts.maxBlockingTasks \in Nat /\ blockingNum' \in Nat
  BY WokenCount, OptionsAssumption DEF TypeOK, Options
<1>2. Blocked' = Blocked \ {c}
  BY <1>1 DEF Blocked
<1>3. \A d \in Calls : inv'[d] = "waiting" <=> inv[d] = "waiting"
  BY <1>1
<1>4. opts.maxBlockingTasks # 0 => blockingNum' <= opts.maxBlockingTasks
  <2>1. Unblocked \in Nat /\ (opts.maxBlockingTasks # 0 => Unblocked < opts.maxBlockingTasks)
    BY WokenCount
  <2> QED
    BY <1>1, <2>1
<1>5. blockingNum' = Cardinality(Blocked')
  BY <1>2, WokenCount
<1>6. \A i, j \in 1..Len(cond') : cond'[i] = cond'[j] => i = j
  BY DEF BlockedCountExact
<1>7. \A d \in Calls : inv'[d] = "waiting" <=> d \in Range(cond')
  BY <1>3 DEF BlockedCountExact
<1> QED
  BY <1>4, <1>5, <1>6, <1>7 DEF BlockedCountExact

LEMMA SignalCount ==
  ASSUME TypeOK, BlockedCountExact, Signal, UNCHANGED <<opts, blockingNum>>
  PROVE  BlockedCountExact'
<1>1. CASE cond = <<>>
  <2>1. UNCHANGED <<cond, inv>>
    BY <1>1 DEF Signal
  <2> QED
    BY <2>1, CountKept
<1>2. CASE cond # <<>>
  <2>1. cond' = Tail(cond) /\ inv' = [inv EXCEPT ![Head(cond)] = "woken"]
    BY <1>2 DEF Signal
  <2>2. cond \in Seq(Calls) /\ inv \in [Calls -> CallStates]
    BY DEF TypeOK
  <2>3. Distinct(cond) /\ \A d \in Calls : inv[d] = "waiting" <=> d \in Range(cond)
    BY DEF BlockedCountExact, Distinct
  <2>4. /\ Head(cond) \in Calls /\ Head(cond) \in Range(cond) /\ Distinct(cond')
        /\ Range(cond') = Range(cond) \ {Head(cond)}
    BY <1>2, <2>1, <2>2, <2>3, TailOfDistinct
  <2>5. inv[Head(cond)] = "waiting"
    BY <2>3, <2>4
  <2>6. Blocked' = Blocked
    BY <2>1, <2>2, <2>4, <2>5 DEF Blocked
  <2>7. \A d \in Calls : inv'[d] = "waiting" <=> d \in Range(cond)'
    BY <2>1, <2>2, <2>3, <2>4
  <2> QED
    BY <2>4, <2>6, <2>7 DEF BlockedCountExact, Distinct
<1> QED
  BY <1>1, <1>2

LEMMA BroadcastCount ==
  ASSUME TypeOK, BlockedCountExact, NEW p \in Purgers, PurgeBroadcast(p)
  PROVE  BlockedCountExact'
<1>1. /\ cond' = <<>> /\ UNCHANGED <<opts, blockingNum>>
      /\ inv' = [c \in Calls |-> IF inv[c] = "waiting" THEN "woken" ELSE inv[c]]
  BY DEF PurgeBroadcast, poolVars
<1>2. Blocked' = Blocked
  BY <1>1 DEF Blocked
<1>3. cond' \in Seq(Calls) /\ Len(cond') = 0
  BY <1>1, EmptySeq
<1>4. Range(cond') = {}
  <2>1. Range(cond') = {cond'[i] : i \in 1..Len(cond')}
    BY <1>3, RangeEquality
  <2> QED
    BY <1>3, <2>1
<1>5. \A c \in Calls : inv'[c] # "waiting"
  BY <1>1
<1>6. \A i, j \in 1..Len(cond') : cond'[i] = cond'[j] => i = j
  BY <1>3
<1>7. \A c \in Calls : inv'[c] = "waiting" <=> c \in Range(cond')
  BY <1>4, <1>5
<1>8. /\ blockingNum' = Cardinality(Blocked')
      /\ opts'.maxBlockingTasks # 0 => blockingNum' <= opts'.maxBlockingTasks
  BY <1>1, <1>2 DEF BlockedCountExact
<1> QED
  BY <1>6, <1>7, <1>8 DEF BlockedCountExact

LEMMA InitBlocked == Init => BlockedCountExact
<1> SUFFICES ASSUME Init PROVE BlockedCountExact
  OBVIOUS
<1>1. /\ cond = <<>> /\ blockingNum = 0 /\ Blocked = {} /\ \A c \in Calls : inv[c] = "new"
      /\ opts.maxBlockingTasks \in Nat
  BY OptionsAssumption DEF Init, Blocked, Options
<1>2. cond \in Seq(Calls) /\ Len(cond) = 0
  BY <1>1, EmptySeq
<1>3. Range(cond) = {}
  <2>1. Range(cond) = {cond[i] : i \in 1..Len(cond)}
    BY <1>2, RangeEquality
  <2> QED
    BY <1>2, <2>1
<1>4. blockingNum = Cardinality(Blocked)
  BY <1>1, FS_EmptySet
<1>5. \A i, j \in 1..Len(cond) : cond[i] = cond[j] => i = j
  BY <1>2
<1> QED
  BY <1>1, <1>3, <1>4, <1>5 DEF BlockedCountExact

LEMMA StepBlocked ==
  ASSUME TypeOK, BlockedCountExact, [Next]_vars
  PROVE  BlockedCountExact'
<1>1. opts' = opts /\ inv \in [Calls -> CallStates]
  BY OptionsConstant DEF TypeOK
<1>2. ASSUME NEW c \in Calls, Invoke(c) \/ RetrieveFast(c) \/ Spawn(c) \/ Send(c)
      PROVE  BlockedCountExact'
  <2>1. UNCHANGED <<cond, blockingNum>>
    BY <1>2 DEF Invoke, RetrieveFast, Spawn, Send, condVars
  <2>2. PICK s \in CallStates \ {"waiting", "woken"} : inv' = [inv EXCEPT ![c] = s]
    <3>1. CASE Invoke(c)
      BY <3>1 DEF Invoke, CallStates
    <3>2. CASE RetrieveFast(c)
      BY <3>2 DEF RetrieveFast, Pop, CallStates
    <3>3. CASE Spawn(c) \/ Send(c)
      BY <3>3 DEF Spawn, Send, CallStates
    <3> QED
      BY <1>2, <3>1, <3>2, <3>3
  <2>3. inv[c] \notin {"waiting", "woken"}
    BY <1>2 DEF Invoke, RetrieveFast, Spawn, Send
  <2>4. \A d \in Calls : inv'[d] # inv[d] => {inv[d], inv'[d]} \cap {"waiting", "woken"} = {}
    BY <1>1, <2>2, <2>3
  <2> QED
    BY <1>1, <2>1, <2>4, CountKept
<1>3. ASSUME NEW c \in Calls, RetrieveCheck(c) PROVE BlockedCountExact'
  <2>1. CASE Reenter(c, blockingNum)
    <3>1. inv[c] = "check"
      BY <1>3 DEF RetrieveCheck
    <3>2. Blocked \ {c} = Blocked
      BY <3>1 DEF Blocked
    <3>3. /\ blockingNum \in Int /\ blockingNum = Cardinality(Blocked \ {c})
          /\ opts.maxBlockingTasks # 0 => blockingNum <= opts.maxBlockingTasks
      BY <3>2 DEF TypeOK, BlockedCountExact
    <3> QED
      BY <1>1, <2>1, <3>1, <3>3, ReenterCount
  <2>2. CASE /\ inv' = [inv EXCEPT ![c] = "spawn"] \/ inv' = [inv EXCEPT ![c] = "overload"]
             /\ UNCHANGED condVars
    <3>1. UNCHANGED <<cond, blockingNum>> /\ inv[c] = "check"
      BY <1>3, <2>2 DEF RetrieveCheck, condVars
    <3>2. \A d \in Calls : inv'[d] # inv[d] => {inv[d], inv'[d]} \cap {"waiting", "woken"} = {}
      BY <1>1, <2>2, <3>1
    <3> QED
      BY <1>1, <3>1, <3>2, CountKept
  <2> QED
    BY <1>3, <2>1, <2>2 DEF RetrieveCheck
<1>4. ASSUME NEW c \in Calls, Wake(c) PROVE BlockedCountExact'
  <2>1. inv[c] = "woken"
    BY <1>4 DEF Wake
  <2>2. CASE Reenter(c, Unblocked)
    <3>1. opts.maxBlockingTasks \in Nat
      BY OptionsAssumption DEF TypeOK, Options
    <3>2. /\ Unblocked \in Int /\ Unblocked = Cardinality(Blocked \ {c})
          /\ opts.maxBlockingTasks # 0 => Unblocked <= opts.maxBlockingTasks
      BY <2>1, <3>1, WokenCount
    <3> QED
      BY <1>1, <2>1, <2>2, <3>2, ReenterCount
  <2>3. CASE ~Reenter(c, Unblocked)
    BY <1>1, <1>4, <2>1, <2>3, UnblockCount DEF Wake, Pop
  <2> QED
    BY <2>2, <2>3
<1>5. ASSUME NEW w \in Workers, Serve(w) PROVE BlockedCountExact'
  <2>1. CASE RevertInsert(w)
    BY <1>1, <2>1, SignalCount DEF RevertInsert
  <2>2. CASE Receive(w) \/ RunFunc(w) \/ RevertCheck(w) \/ Exit(w)
    <3>1. UNCHANGED <<cond, blockingNum, inv>>
      BY <2>2 DEF Receive, RunFunc, RevertCheck, Exit, condVars, callVars
    <3> QED
      BY <1>1, <3>1, CountKept
  <2> QED
    BY <1>5, <2>1, <2>2 DEF Serve
<1>6. ASSUME NEW p \in Purgers, Reboot(p) \/ Purge(p) PROVE BlockedCountExact'
  <2>1. CASE ~PurgeBroadcast(p)
    <3>1. UNCHANGED <<cond, blockingNum, inv>>
      BY <1>6, <2>1 DEF Reboot, Purge, PurgeTick, PurgeExpire, PurgeSend, PurgeEnd, condVars,
         callVars
    <3> QED
      BY <1>1, <3>1, CountKept
  <2> QED
    BY <2>1, BroadcastCount
<1>7. ASSUME NEW size \in TuneSizes, Tune(size) PROVE BlockedCountExact'
  BY <1>1, <1>7, CountKept DEF Tune, condVars, callVars
<1>8. CASE ReleaseClose \/ Reset \/ UNCHANGED vars
  <2>1. UNCHANGED <<cond, blockingNum, inv>>
    BY <1>8 DEF ReleaseClose, Reset, ReleaseLock, ReleaseSend, ReleaseDone, vars, condVars,
       callVars
  <2> QED
    BY <1>1, <2>1, CountKept
<1> QED
  BY <1>2, <1>3, <1>4, <1>5, <1>6, <1>7, <1>8 DEF Next, Proceed

\* p.blockingNum is the number of the calls inside p.cond.Wait(), each with one
\* ticket, and never exceeds MaxBlockingTasks: the broadcast of the purger, which
\* wakes every waiter at once, included.
THEOREM BlockingNumExact == Spec => []BlockedCountExact
<1>1. Init => BlockedCountExact
  BY InitBlocked
<1>2. TypeOK /\ BlockedCountExact /\ [Next]_vars => BlockedCountExact'
  BY StepBlocked
<1> QED
  BY <1>1, <1>2, TypeCorrect, PTL DEF Spec

\* Signal only wakes.
LEMMA SignalWakes ==
  ASSUME TypeOK, BlockedCountExact, Signal
  PROVE  \A c \in Calls : inv'[c] = inv[c] \/ (inv[c] = "waiting" /\ inv'[c] = "woken")
<1>1. CASE cond = <<>>
  BY <1>1 DEF Signal
<1>2. CASE cond # <<>>
  <2>1. Head(cond) \in Calls /\ Head(cond) \in Range(cond)
    BY <1>2, TailOfDistinct DEF TypeOK, BlockedCountExact, Distinct
  <2>2. inv[Head(cond)] = "waiting"
    BY <2>1 DEF BlockedCountExact
  <2> QED
    BY <1>2, <2>2 DEF TypeOK, Signal
<1> QED
  BY <1>1, <1>2

-----------------------------------------------------------------------------
(* An argument is run on once at most, in every mode of the pool: also when  *)
(* the purger ends workers behind the back of their owners.                  *)

\* A worker has an argument only while it runs on it.
JobWhileRunning == \A w \in Workers : wk[w] # "run" => job[w] = Nothing

Absent(c) == \A w \in Workers : args[w] # c /\ job[w] # c

\* An accepted argument is with one worker at most and waits for no second run;
\* the argument of a call that has not returned nil is nowhere.
OnceAtMost(c) ==
  /\ \A v, w \in Workers : args[v] = c /\ args[w] = c => v = w
  /\ \A v, w \in Workers : job[v] = c /\ job[w] = c => v = w
  /\ \A v, w \in Workers : ~(args[v] = c /\ job[w] = c)
  /\ runs[c] # 0 => runs[c] = 1 /\ Absent(c)
  /\ inv[c] # "ok" => Absent(c) /\ runs[c] = 0

\* A nil argument is never with a worker: the nil that ends it is.
NoNilArgument == \A w \in Workers : args[w] \notin NilArgs /\ job[w] \notin NilArgs

OnceInv ==
  /\ JobWhileRunning
  /\ NoNilArgument
  /\ \A c \in Calls \ NilArgs : OnceAtMost(c)

\* A step that moves no argument.
LEMMA ArgumentsKept ==
  ASSUME OnceInv, UNCHANGED <<args, job, runs>>,
         \A w \in Workers : wk'[w] = wk[w] \/ job[w] = Nothing,
         \A c \in Calls : inv'[c] = "ok" <=> inv[c] = "ok"
  PROVE  OnceInv'
<1>1. \A c \in Calls \ NilArgs : OnceAtMost(c)'
  BY DEF OnceInv, OnceAtMost, Absent
<1>2. JobWhileRunning' /\ NoNilArgument'
  BY DEF OnceInv, JobWhileRunning, NoNilArgument
<1> QED
  BY <1>1, <1>2 DEF OnceInv

\* nil is sent to a worker whose channel is empty.
LEMMA NilOnce ==
  ASSUME TypeOK, OnceInv, NEW w \in Workers, args[w] = Nothing,
         args' = [args EXCEPT ![w] = Nil], UNCHANGED <<job, runs, inv, wk>>
  PROVE  OnceInv'
<1>1. \A v \in Workers : args'[v] = IF v = w THEN Nil ELSE args[v]
  BY DEF TypeOK
<1>2. Nil \notin Calls /\ Nil \notin NilArgs
  BY ConstantsAssumption
<1>3. \A c \in Calls \ NilArgs : OnceAtMost(c)'
  BY <1>1, <1>2 DEF OnceInv, OnceAtMost, Absent
<1> QED
  BY <1>1, <1>2, <1>3 DEF OnceInv, JobWhileRunning, NoNilArgument

LEMMA InitOnce == Init => OnceInv
<1> SUFFICES ASSUME Init PROVE OnceInv
  OBVIOUS
<1>1. /\ args = [w \in Workers |-> Nothing] /\ job = [w \in Workers |-> Nothing]
      /\ runs = [c \in Calls |-> 0] /\ Nothing \notin Calls /\ Nothing \notin NilArgs
  BY ConstantsAssumption DEF Init
<1>2. \A c \in Calls : OnceAtMost(c)
  BY <1>1 DEF OnceAtMost, Absent
<1> QED
  BY <1>1, <1>2 DEF OnceInv, JobWhileRunning, NoNilArgument

\* Only a call that has not returned yet sends its argument: it was nowhere.
LEMMA SendOnce ==
  ASSUME TypeOK, OnceInv, NEW c \in Calls, Send(c)
  PROVE  OnceInv'
<1>1. /\ inv[c] = "send" /\ hold[c] \in Workers /\ args[hold[c]] = Nothing
      /\ inv' = [inv EXCEPT ![c] = "ok"] /\ UNCHANGED <<job, runs, wk>>
  BY DEF TypeOK, Send, CanSend
<1>2. \A v \in Workers : args'[v] = IF v = hold[c] THEN Argument(c) ELSE args[v]
  BY DEF TypeOK, Send
<1>3. inv'[c] = "ok" /\ \A d \in Calls \ {c} : inv'[d] = inv[d]
  BY <1>1 DEF TypeOK
<1>4. Nil \notin Calls /\ Nothing \notin Calls /\ Nil \notin NilArgs
  BY ConstantsAssumption
<1>5. ASSUME NEW d \in Calls \ NilArgs PROVE OnceAtMost(d)'
  <2>1. OnceAtMost(d)
    BY DEF OnceInv
  <2>2. CASE d = c
    <3>1. Absent(c) /\ runs[c] = 0 /\ Argument(c) = c
      BY <1>1, <2>1, <2>2 DEF OnceAtMost, Argument
    <3> QED
      BY <1>1, <1>2, <1>3, <2>2, <3>1 DEF OnceAtMost, Absent
  <2>3. CASE d # c
    <3>1. Argument(c) # d
      BY <1>4, <2>3 DEF Argument
    <3> QED
      BY <1>1, <1>2, <1>3, <1>4, <2>1, <2>3, <3>1 DEF OnceAtMost, Absent
  <2> QED
    BY <2>2, <2>3
<1>6. Argument(c) \notin NilArgs
  BY <1>4 DEF Argument
<1>7. JobWhileRunning' /\ NoNilArgument'
  BY <1>1, <1>2, <1>6 DEF OnceInv, JobWhileRunning, NoNilArgument
<1> QED
  BY <1>5, <1>7 DEF OnceInv

\* The argument goes from the channel to the goroutine.
LEMMA ReceiveOnce ==
  ASSUME TypeOK, OnceInv, NEW w \in Workers, Receive(w)
  PROVE  OnceInv'
<1>1. /\ wk[w] = "recv" /\ UNCHANGED <<inv, runs>>
      /\ \A v \in Workers : args'[v] = IF v = w THEN Nothing ELSE args[v]
  BY DEF TypeOK, Receive, callVars
<1>2. job[w] = Nothing
  BY <1>1 DEF OnceInv, JobWhileRunning
<1>3. \A v \in Workers \ {w} : job'[v] = job[v] /\ wk'[v] = wk[v]
  BY DEF TypeOK, Receive
<1>4. \/ args[w] = Nil /\ wk'[w] = "exit" /\ job'[w] = job[w]
      \/ wk'[w] = "run" /\ job'[w] = args[w]
  BY DEF TypeOK, Receive, Ends
<1>5. Nil \notin Calls /\ Nothing \notin Calls /\ Nothing \notin NilArgs
  BY ConstantsAssumption
<1>6. ASSUME NEW c \in Calls \ NilArgs PROVE OnceAtMost(c)'
  <2>1. OnceAtMost(c)
    BY DEF OnceInv
  <2> QED
    BY <1>1, <1>2, <1>3, <1>4, <1>5, <2>1 DEF OnceAtMost, Absent
<1>7. JobWhileRunning' /\ NoNilArgument'
  BY <1>1, <1>2, <1>3, <1>4, <1>5 DEF OnceInv, JobWhileRunning, NoNilArgument
<1> QED
  BY <1>6, <1>7 DEF OnceInv

\* The argument leaves the goroutine, and has been run on.
LEMMA RunFuncOnce ==
  ASSUME TypeOK, OnceInv, NEW w \in Workers, RunFunc(w)
  PROVE  OnceInv'
<1>1. /\ wk[w] = "run" /\ UNCHANGED <<inv, args>>
      /\ \A c \in Calls : runs'[c] = IF c = job[w] THEN runs[c] + 1 ELSE runs[c]
      /\ \A v \in Workers : job'[v] = IF v = w THEN Nothing ELSE job[v]
      /\ \A v \in Workers \ {w} : wk'[v] = wk[v]
  BY DEF TypeOK, RunFunc, callVars
<1>2. Nothing \notin Calls /\ Nothing \notin NilArgs
  BY ConstantsAssumption
<1>3. ASSUME NEW c \in Calls \ NilArgs PROVE OnceAtMost(c)'
  <2>1. OnceAtMost(c)
    BY DEF OnceInv
  <2> QED
    BY <1>1, <1>2, <2>1 DEF OnceAtMost, Absent
<1>4. JobWhileRunning' /\ NoNilArgument'
  BY <1>1, <1>2 DEF OnceInv, JobWhileRunning, NoNilArgument
<1> QED
  BY <1>3, <1>4 DEF OnceInv

\* What a call does before it sends.
LEMMA RetrieveOnce ==
  ASSUME TypeOK, OnceInv, NEW c \in Calls, Invoke(c) \/ Proceed(c), ~Send(c)
  PROVE  OnceInv'
<1>1. inv[c] # "ok" /\ UNCHANGED <<args, job, runs>>
  BY DEF Invoke, Proceed, RetrieveFast, RetrieveCheck, Wake, Spawn, workerVars
<1>2. PICK s : s # "ok" /\ inv' = [inv EXCEPT ![c] = s]
  BY DEF Invoke, Proceed, RetrieveFast, RetrieveCheck, Wake, Spawn, Pop, Reenter
<1>3. \A d \in Calls : inv'[d] = "ok" <=> inv[d] = "ok"
  BY <1>1, <1>2 DEF TypeOK
<1>4. \A w \in Workers : wk'[w] = wk[w] \/ job[w] = Nothing
  <2>1. CASE Spawn(c)
    <3>1. PICK w \in Workers : wk[w] = "none" /\ wk' = [wk EXCEPT ![w] = "recv"]
      BY <2>1 DEF Spawn
    <3> QED
      BY <3>1 DEF TypeOK, OnceInv, JobWhileRunning
  <2>2. CASE ~Spawn(c)
    BY <2>2 DEF Invoke, Proceed, RetrieveFast, RetrieveCheck, Wake, workerVars
  <2> QED
    BY <2>1, <2>2
<1> QED
  BY <1>1, <1>3, <1>4, ArgumentsKept

\* The worker's way back to the stack, and its end.
LEMMA RevertOnce ==
  ASSUME TypeOK, BlockedCountExact, OnceInv, NEW w \in Workers,
         RevertCheck(w) \/ RevertInsert(w) \/ Exit(w)
  PROVE  OnceInv'
<1>1. UNCHANGED <<args, job, runs>> /\ wk[w] # "run"
  BY DEF RevertCheck, RevertInsert, Exit
<1>2. \A v \in Workers : wk'[v] = wk[v] \/ job[v] = Nothing
  BY <1>1 DEF TypeOK, RevertCheck, RevertInsert, Exit, OnceInv, JobWhileRunning
<1>3. \A c \in Calls : inv'[c] = inv[c] \/ (inv[c] = "waiting" /\ inv'[c] = "woken")
  BY SignalWakes DEF RevertCheck, RevertInsert, Exit, callVars
<1> QED
  BY <1>1, <1>2, <1>3, ArgumentsKept

LEMMA StepOnce ==
  ASSUME TypeOK, BlockedCountExact, OnceInv, [Next]_vars
  PROVE  OnceInv'
<1>1. ASSUME UNCHANGED <<inv, wk, args, job, runs>> PROVE OnceInv'
  BY <1>1, ArgumentsKept
<1>2. ASSUME NEW c \in Calls, Invoke(c) \/ Proceed(c) PROVE OnceInv'
  BY <1>2, SendOnce, RetrieveOnce
<1>3. ASSUME NEW w \in Workers, Serve(w) PROVE OnceInv'
  BY <1>3, ReceiveOnce, RunFuncOnce, RevertOnce DEF Serve
<1>4. ASSUME NEW p \in Purgers, Reboot(p) \/ Purge(p) PROVE OnceInv'
  <2>1. CASE PurgeSend(p)
    <3>1. expired[p] \in Seq(Workers) /\ expired[p] # <<>>
      BY <2>1 DEF TypeOK, PurgeSend
    <3>2. Head(expired[p]) \in Workers
      BY <3>1, HeadTailProperties
    <3> QED
      BY <2>1, <3>2, NilOnce DEF PurgeSend, CanSend, callVars
  <2>2. CASE PurgeBroadcast(p)
    <3>1. /\ UNCHANGED <<wk, args, job, runs>>
          /\ \A c \in Calls : inv'[c] = "ok" <=> inv[c] = "ok"
      BY <2>2 DEF PurgeBroadcast, workerVars
    <3> QED
      BY <3>1, ArgumentsKept
  <2>3. CASE Reboot(p) \/ PurgeTick(p) \/ PurgeExpire(p) \/ PurgeEnd(p)
    BY <1>1, <2>3 DEF Reboot, PurgeTick, PurgeExpire, PurgeEnd, callVars, workerVars
  <2> QED
    BY <1>4, <2>1, <2>2, <2>3 DEF Purge
<1>5. ASSUME NEW size \in TuneSizes, Tune(size) PROVE OnceInv'
  BY <1>1, <1>5 DEF Tune, callVars, workerVars
<1>6. CASE ReleaseSend
  <2>1. Head(workers) \in Workers
    BY <1>6, HeadTailProperties DEF TypeOK, ReleaseSend
  <2> QED
    BY <1>6, <2>1, NilOnce DEF ReleaseSend, CanSend, callVars
<1>7. CASE ReleaseClose \/ ReleaseLock \/ ReleaseDone \/ UNCHANGED vars
  BY <1>1, <1>7 DEF ReleaseClose, ReleaseLock, ReleaseDone, callVars, workerVars, vars
<1> QED
  BY <1>2, <1>3, <1>4, <1>5, <1>6, <1>7 DEF Next, Reset

-----------------------------------------------------------------------------
(* The promises of TaskPool.  The abstract pool blocks the calls that are    *)
(* inside p.cond.Wait(): BlockedCountExact makes of the tests of blockingNum *)
(* the tests of their number.                                                *)

Seen == [c \in Calls |-> Phase(c)]

LEMMA PhaseOf ==
  ASSUME NEW c \in Calls
  PROVE  /\ inv[c] \in {"lock", "check"} => Phase(c) = "begun"
         /\ inv[c] \in {"waiting", "woken"} => Phase(c) = "blocked"
         /\ inv[c] \in {"spawn", "send"} => Phase(c) = "served"
         /\ inv[c] \in {"new", "ok", "overload", "closed"} => Phase(c) = inv[c]
BY DEF Phase

LEMMA SameBlocked ==
  ASSUME TypeOK
  PROVE  Promise!Cardinality(Promise!Blocked) = Cardinality(Blocked)
<1>1. ASSUME NEW c \in Calls
      PROVE  Seen[c] = "blocked" <=> inv[c] \in {"waiting", "woken"}
  BY DEF TypeOK, CallStates, Phase, Seen
<1>2. Promise!Blocked = Blocked
  BY <1>1 DEF Promise!Blocked, Blocked, Seen
<1>3. ASSUME NEW S PROVE Promise!Cardinality(S) = Cardinality(S)
  BY Zenon DEF Cardinality, Promise!Cardinality
<1> QED
  BY <1>2, <1>3

\* The call c goes on to s, and is seen there.
LEMMA SeenMoves ==
  ASSUME TypeOK, NEW c \in Calls, NEW s, inv' = [inv EXCEPT ![c] = s]
  PROVE  Seen' = [Seen EXCEPT ![c] = Phase(c)']
<1>1. \A d \in Calls \ {c} : inv'[d] = inv[d]
  BY DEF TypeOK
<1>2. \A d \in Calls \ {c} : Phase(d)' = Phase(d)
  BY <1>1 DEF Phase
<1> QED
  BY <1>2 DEF Seen

LEMMA SeenKept ==
  ASSUME \A c \in Calls : inv'[c] = inv[c] \/ (inv[c] = "waiting" /\ inv'[c] = "woken")
  PROVE  Seen' = Seen
<1>1. ASSUME NEW c \in Calls PROVE Phase(c)' = Phase(c)
  BY DEF Phase
<1> QED
  BY <1>1 DEF Seen

\* A call that has not blocked yet does so, or is refused because as many have.
LEMMA BlockPromise ==
  ASSUME TypeOK, BlockedCountExact, NEW c \in Calls, Reenter(c, blockingNum),
         UNCHANGED <<opts, state, runs>>, Phase(c) = "begun", ~opts.nonblocking
  PROVE  Promise!Call(c)
<1>1. Seen[c] = "begun" /\ inv \in [Calls -> CallStates]
  BY DEF Seen, TypeOK
<1>2. /\ Promise!Cardinality(Promise!Blocked) = blockingNum
      /\ blockingNum \in Int /\ opts.maxBlockingTasks \in Nat
  BY SameBlocked, OptionsAssumption DEF BlockedCountExact, TypeOK, Options
<1>3. CASE Full(blockingNum)
  <2>1. inv' = [inv EXCEPT ![c] = "overload"]
    BY <1>3 DEF Reenter
  <2>2. Phase(c)' = "overload"
    BY <1>1, <2>1 DEF Phase
  <2>3. Seen' = [Seen EXCEPT ![c] = "overload"]
    BY <2>1, <2>2, SeenMoves
  <2>4. Promise!Full
    BY <1>2, <1>3 DEF Full, Promise!Full, Promise!Limited
  <2> QED
    BY <1>1, <2>3, <2>4 DEF Seen, Promise!Call, Promise!Overload, Promise!Goes
<1>4. CASE ~Full(blockingNum)
  <2>1. inv' = [inv EXCEPT ![c] = "waiting"]
    BY <1>4 DEF Reenter
  <2>2. Phase(c)' = "blocked"
    BY <1>1, <2>1 DEF Phase
  <2>3. Seen' = [Seen EXCEPT ![c] = "blocked"]
    BY <2>1, <2>2, SeenMoves
  <2>4. Promise!Limited => Promise!Cardinality(Promise!Blocked) < opts.maxBlockingTasks
    BY <1>2, <1>4 DEF Full, Promise!Limited
  <2> QED
    BY <1>1, <2>3, <2>4 DEF Seen, Promise!Call, Promise!Block, Promise!Goes
<1> QED
  BY <1>3, <1>4

\* A call that finds no worker when it wakes up blocks again: it left its place
\* among the blocked ones in the same critical section, so there is room for it.
LEMMA AdmittedStays ==
  ASSUME TypeOK, BlockedCountExact, NEW c \in Calls, inv[c] = "woken",
         Reenter(c, Unblocked)
  PROVE  Seen' = Seen
<1>1. Unblocked \in Nat /\ (opts.maxBlockingTasks # 0 => Unblocked < opts.maxBlockingTasks)
  BY WokenCount
<1>2. opts.maxBlockingTasks \in Nat
  BY OptionsAssumption DEF TypeOK, Options
<1>3. inv' = [inv EXCEPT ![c] = "waiting"]
  BY <1>1, <1>2 DEF Reenter, Full
<1>4. Phase(c)' = "blocked" /\ Phase(c) = "blocked"
  BY <1>3, PhaseOf DEF TypeOK, Phase
<1>5. Seen' = [Seen EXCEPT ![c] = "blocked"]
  BY <1>3, <1>4, SeenMoves
<1> QED
  BY <1>4, <1>5 DEF Seen

\* A call of Invoke until its argument is sent.
LEMMA InvokePromise ==
  ASSUME TypeOK, BlockedCountExact, NEW c \in Calls, Invoke(c) \/ Proceed(c)
  PROVE  [Promise!Call(c)]_(Promise!vars)
<1>1. Seen[c] = Phase(c) /\ UNCHANGED <<opts, state, runs>>
  BY DEF Seen, Invoke, Proceed, RetrieveFast, RetrieveCheck, Wake, Spawn, Send, poolVars,
     workerVars
<1>2. ASSUME NEW s, inv' = [inv EXCEPT ![c] = s]
      PROVE  inv'[c] = s /\ Seen' = [Seen EXCEPT ![c] = Phase(c)']
  BY <1>2, SeenMoves DEF TypeOK
<1>3. ASSUME Seen' = Seen PROVE UNCHANGED Promise!vars
  BY <1>1, <1>3 DEF Seen, Promise!vars
<1>4. ASSUME NEW s \in {"spawn", "send"}, inv' = [inv EXCEPT ![c] = s],
             Phase(c) \in {"begun", "blocked"}
      PROVE  Promise!Take(c)
  <2>1. Phase(c)' = "served"
    BY <1>2, <1>4 DEF Phase
  <2>2. Seen' = [Seen EXCEPT ![c] = "served"]
    BY <1>2, <1>4, <2>1
  <2> QED
    BY <1>1, <1>4, <2>2 DEF Seen, Promise!Take, Promise!Goes
<1>5. ASSUME NEW s, inv' = [inv EXCEPT ![c] = s], Phase(c)' = Phase(c)
      PROVE  UNCHANGED Promise!vars
  <2>1. Seen' = Seen
    BY <1>1, <1>2, <1>5 DEF Seen
  <2> QED
    BY <1>3, <2>1
<1>6. CASE Invoke(c)
  <2> DEFINE s == IF state = "CLOSED" THEN "closed" ELSE "lock"
  <2>1. Phase(c) = "new" /\ inv' = [inv EXCEPT ![c] = s]
    BY <1>6, PhaseOf DEF Invoke
  <2>2. Phase(c)' = IF state = "CLOSED" THEN "closed" ELSE "begun"
    BY <1>2, <2>1 DEF Phase
  <2>3. Seen' = [Seen EXCEPT ![c] = IF state = "CLOSED" THEN "closed" ELSE "begun"]
    BY <1>2, <2>1, <2>2
  <2> QED
    BY <1>1, <2>1, <2>3 DEF Seen, Promise!Call, Promise!Begin, Promise!Goes
<1>7. CASE RetrieveFast(c)
  <2>1. Phase(c) = "begun"
    BY <1>7, PhaseOf DEF RetrieveFast
  <2>2. CASE inv' = [inv EXCEPT ![c] = "check"]
    <3>1. Phase(c)' = "begun"
      BY <1>2, <2>2 DEF Phase
    <3> QED
      BY <1>5, <2>1, <2>2, <3>1
  <2>3. CASE inv' = [inv EXCEPT ![c] = "send"]
    BY <1>4, <2>1, <2>3 DEF Promise!Call
  <2> QED
    BY <1>7, <2>2, <2>3 DEF RetrieveFast, Pop
<1>8. CASE RetrieveCheck(c)
  <2>1. Phase(c) = "begun"
    BY <1>8, PhaseOf DEF RetrieveCheck
  <2>2. CASE inv' = [inv EXCEPT ![c] = "spawn"]
    BY <1>4, <2>1, <2>2 DEF Promise!Call
  <2>3. CASE inv' = [inv EXCEPT ![c] = "overload"] /\ opts.nonblocking
    <3>1. Phase(c)' = "overload"
      BY <1>2, <2>3 DEF Phase
    <3>2. Seen' = [Seen EXCEPT ![c] = "overload"]
      BY <1>2, <2>3, <3>1
    <3> QED
      BY <1>1, <2>1, <2>3, <3>2 DEF Seen, Promise!Call, Promise!Overload, Promise!Goes
  <2>4. CASE Reenter(c, blockingNum) /\ ~opts.nonblocking
    BY <1>1, <2>1, <2>4, BlockPromise
  <2> QED
    BY <1>8, <2>2, <2>3, <2>4 DEF RetrieveCheck
<1>9. CASE Wake(c)
  <2>1. inv[c] = "woken" /\ Phase(c) = "blocked"
    BY <1>9, PhaseOf DEF Wake
  <2>2. CASE inv' = [inv EXCEPT ![c] = "spawn"] \/ inv' = [inv EXCEPT ![c] = "send"]
    BY <1>4, <2>1, <2>2 DEF Promise!Call
  <2>3. CASE Reenter(c, Unblocked)
    BY <1>3, <2>1, <2>3, AdmittedStays
  <2> QED
    BY <1>9, <2>2, <2>3 DEF Wake, Pop
<1>10. CASE Spawn(c)
  <2>1. Phase(c) = "served" /\ inv' = [inv EXCEPT ![c] = "send"]
    BY <1>10, PhaseOf DEF Spawn
  <2>2. Phase(c)' = "served"
    BY <1>2, <2>1 DEF Phase
  <2> QED
    BY <1>5, <2>1, <2>2
<1>11. CASE Send(c)
  <2>1. Phase(c) = "served" /\ inv' = [inv EXCEPT ![c] = "ok"]
    BY <1>11, PhaseOf DEF Send
  <2>2. Phase(c)' = "ok"
    BY <1>2, <2>1 DEF Phase
  <2>3. Seen' = [Seen EXCEPT ![c] = "ok"]
    BY <1>2, <2>1, <2>2
  <2> QED
    BY <1>1, <2>1, <2>3 DEF Seen, Promise!Call, Promise!Return, Promise!Goes
<1> QED
  BY <1>6, <1>7, <1>8, <1>9, <1>10, <1>11 DEF Proceed

\* The argument that a worker runs on has been accepted and has not been run on.
LEMMA RunPromise ==
  ASSUME TypeOK, OnceInv, NEW w \in Workers, RunFunc(w)
  PROVE  Promise!Run(job[w])
<1>1. /\ job[w] \in Calls \ NilArgs /\ runs' = [runs EXCEPT ![job[w]] = @ + 1]
      /\ UNCHANGED <<opts, state, inv>>
  BY DEF TypeOK, OnceInv, NoNilArgument, RunFunc, poolVars, callVars
<1>2. OnceAtMost(job[w]) /\ ~Absent(job[w])
  BY <1>1 DEF OnceInv, Absent
<1>3. inv[job[w]] = "ok" /\ runs[job[w]] = 0
  BY <1>2 DEF OnceAtMost
<1>4. Seen' = Seen
  BY <1>1, SeenKept
<1>5. Seen[job[w]] = "ok"
  BY <1>1, <1>3, PhaseOf DEF Seen
<1> QED
  BY <1>1, <1>3, <1>4, <1>5 DEF Seen, Promise!Run

LEMMA StepPromise ==
  ASSUME TypeOK, BlockedCountExact, OnceInv, [Next]_vars
  PROVE  [Promise!Next]_(Promise!vars)
<1>1. ASSUME Seen' = Seen, UNCHANGED <<opts, state, runs>> PROVE UNCHANGED Promise!vars
  BY <1>1 DEF Seen, Promise!vars
<1>2. inv' = inv => Seen' = Seen
  BY SeenKept
<1>3. ASSUME NEW c \in Calls, Invoke(c) \/ Proceed(c) PROVE [Promise!Next]_(Promise!vars)
  <2>1. [Promise!Call(c)]_(Promise!vars)
    BY <1>3, InvokePromise
  <2>2. Promise!Call(c) => UNCHANGED <<opts, state, runs>>
    BY DEF Promise!Call, Promise!Begin, Promise!Block, Promise!Overload, Promise!Take,
       Promise!Return, Promise!Goes
  <2>3. CASE Promise!Call(c) /\ Seen' = Seen
    BY <1>1, <2>2, <2>3
  <2>4. CASE Promise!Call(c) /\ Seen' # Seen
    BY <2>4 DEF Seen, Promise!Next
  <2> QED
    BY <2>1, <2>3, <2>4
<1>4. ASSUME NEW w \in Workers, Serve(w) PROVE [Promise!Next]_(Promise!vars)
  <2>1. CASE RunFunc(w)
    <3>1. job[w] \in Calls
      BY <2>1 DEF TypeOK, RunFunc
    <3> QED
      BY <2>1, <3>1, RunPromise DEF Promise!Next
  <2>2. CASE RevertInsert(w)
    <3>1. UNCHANGED <<opts, state, runs>> /\ Signal
      BY <2>2 DEF RevertInsert, poolVars
    <3> QED
      BY <1>1, <3>1, SignalWakes, SeenKept
  <2>3. CASE Receive(w) \/ RevertCheck(w) \/ Exit(w)
    BY <1>1, <1>2, <2>3 DEF Receive, RevertCheck, Exit, poolVars, callVars
  <2> QED
    BY <1>4, <2>1, <2>2, <2>3 DEF Serve
<1>5. ASSUME NEW p \in Purgers, Reboot(p) \/ Purge(p) PROVE [Promise!Next]_(Promise!vars)
  <2>1. CASE Reboot(p)
    <3>1. /\ state = "CLOSED" /\ state' = "OPENED" /\ UNCHANGED <<opts, inv, runs>>
      BY <2>1 DEF Reboot, callVars, workerVars
    <3> QED
      BY <1>2, <3>1 DEF Seen, Promise!Next, Promise!Reboot
  <2>2. CASE PurgeBroadcast(p)
    BY <1>1, <2>2, SeenKept DEF PurgeBroadcast, poolVars, workerVars
  <2>3. CASE PurgeTick(p) \/ PurgeExpire(p) \/ PurgeSend(p) \/ PurgeEnd(p)
    BY <1>1, <1>2, <2>3 DEF PurgeTick, PurgeExpire, PurgeSend, PurgeEnd, poolVars, callVars,
       workerVars
  <2> QED
    BY <1>5, <2>1, <2>2, <2>3 DEF Purge
<1>6. ASSUME NEW size \in TuneSizes, Tune(size) PROVE [Promise!Next]_(Promise!vars)
  BY <1>1, <1>2, <1>6 DEF Tune, callVars, workerVars
<1>7. CASE ReleaseClose
  <2>1. state' = "CLOSED" /\ UNCHANGED <<opts, inv, runs>>
    BY <1>7 DEF ReleaseClose, callVars, workerVars
  <2> QED
    BY <1>2, <2>1 DEF Seen, Promise!Next, Promise!Release
<1>8. CASE Reset \/ UNCHANGED vars
  BY <1>1, <1>2, <1>8 DEF Reset, ReleaseLock, ReleaseSend, ReleaseDone, vars, poolVars, callVars,
     workerVars
<1> QED
  BY <1>3, <1>4, <1>5, <1>6, <1>7, <1>8 DEF Next

LEMMA InitPromise == Init => Promise!Init
<1> SUFFICES ASSUME Init PROVE Promise!Init
  OBVIOUS
<1>1. /\ opts \in Options /\ state = "OPENED" /\ runs = [c \in Calls |-> 0]
      /\ \A c \in Calls : inv[c] = "new"
  BY OptionsAssumption DEF Init
<1>2. Seen = [c \in Calls |-> "new"]
  BY <1>1, PhaseOf DEF Seen
<1> QED
  BY <1>1, <1>2 DEF Options, Seen, Promise!Init

\* For every set of options, any number of purgers and every order of calls,
\* Tune, Release and Reboot: at most MaxBlockingTasks calls block, a call is
\* refused when that many do or may not block at all and never once it has
\* blocked, and on an accepted argument the function runs once at most, on a
\* refused one never (pool_func.go:124-204, worker_func.go:14-46).  It need not
\* run at all: an argument in the channel of a worker that is ended is lost.
THEOREM PoolKeepsPromises == Spec => PoolSpec
<1>1. Init => TypeOK /\ BlockedCountExact /\ OnceInv /\ Promise!Init
  BY InitType, InitBlocked, InitOnce, InitPromise
<1>2. TypeOK /\ BlockedCountExact /\ OnceInv /\ [Next]_vars
        => (TypeOK /\ BlockedCountExact /\ OnceInv)'
  BY StepType, StepBlocked, StepOnce
<1>3. TypeOK /\ BlockedCountExact /\ OnceInv /\ [Next]_vars
        => [Promise!Next]_(Promise!vars)
  BY StepPromise
<1> QED
  BY <1>1, <1>2, <1>3, PTL DEF Spec, PoolSpec, Promise!Spec

-----------------------------------------------------------------------------
(* The critical sections.  The lock is held by the call that found the stack *)
(* empty and has not looked at the capacity yet, or by Release while it      *)
(* sends, and by one of them at a time: the stack stays empty for the call.  *)

LockHolders ==
  /\ \A c \in Calls : inv[c] = "check" => lock /\ workers = <<>> /\ rel # "reset"
  /\ \A c, d \in Calls : inv[c] = "check" /\ inv[d] = "check" => c = d
  /\ rel = "reset" => lock

LEMMA InitHolders == Init => LockHolders
BY DEF Init, LockHolders

LEMMA HoldersKept ==
  ASSUME LockHolders, UNCHANGED <<lock, workers, rel>>,
         \A c \in Calls : inv'[c] = "check" => inv[c] = "check"
  PROVE  LockHolders'
BY DEF LockHolders

\* A critical section that another may not overlap.
LEMMA HoldersWhenFree ==
  ASSUME LockHolders, ~lock, UNCHANGED <<lock, rel>>,
         \A c \in Calls : inv'[c] = "check" => inv[c] = "check"
  PROVE  LockHolders'
BY DEF LockHolders

\* The end of the critical section of a call.
LEMMA HoldersWhenLeft ==
  ASSUME LockHolders, NEW c \in Calls, inv[c] = "check", inv'[c] # "check", UNCHANGED rel,
         \A d \in Calls \ {c} : inv'[d] = inv[d]
  PROVE  LockHolders'
BY DEF LockHolders

LEMMA StepHolders ==
  ASSUME TypeOK, LockHolders, [Next]_vars
  PROVE  LockHolders'
<1>1. inv \in [Calls -> CallStates]
  BY DEF TypeOK
<1>2. ASSUME NEW c \in Calls, Invoke(c) \/ Spawn(c) \/ Send(c) PROVE LockHolders'
  BY <1>1, <1>2, HoldersKept DEF Invoke, Spawn, Send
<1>3. ASSUME NEW c \in Calls, RetrieveFast(c) PROVE LockHolders'
  <2>1. CASE Pop(c) /\ UNCHANGED lock
    BY <1>1, <1>3, <2>1, HoldersWhenFree DEF RetrieveFast, Pop
  <2>2. CASE workers = <<>> /\ inv' = [inv EXCEPT ![c] = "check"] /\ lock' = TRUE
             /\ UNCHANGED workers
    <3>1. ~lock /\ rel' = rel
      BY <1>3 DEF RetrieveFast
    <3> QED
      BY <1>1, <2>2, <3>1 DEF LockHolders
  <2> QED
    BY <1>3, <2>1, <2>2 DEF RetrieveFast
<1>4. ASSUME NEW c \in Calls, RetrieveCheck(c) PROVE LockHolders'
  <2>1. PICK s \in {"spawn", "overload", "waiting"} : inv' = [inv EXCEPT ![c] = s]
    BY <1>4 DEF RetrieveCheck, Reenter
  <2> QED
    BY <1>1, <1>4, <2>1, HoldersWhenLeft DEF RetrieveCheck
<1>5. ASSUME NEW c \in Calls, Wake(c) PROVE LockHolders'
  <2>1. PICK s \in {"spawn", "send", "overload", "waiting"} : inv' = [inv EXCEPT ![c] = s]
    BY <1>5 DEF Wake, Pop, Reenter
  <2>2. \A d \in Calls : inv'[d] = "check" => inv[d] = "check"
    BY <1>1, <2>1
  <2>3. ~lock /\ UNCHANGED <<lock, rel>>
    BY <1>5 DEF Wake, Reenter, TypeOK
  <2> QED
    BY <2>2, <2>3, HoldersWhenFree
<1>6. ASSUME NEW w \in Workers, Serve(w) PROVE LockHolders'
  <2>1. CASE RevertInsert(w)
    <3>1. \A d \in Calls : inv'[d] = "check" => inv[d] = "check"
      BY <1>1, <2>1 DEF RevertInsert, Signal
    <3> QED
      BY <2>1, <3>1, HoldersWhenFree DEF RevertInsert
  <2>2. CASE ~RevertInsert(w)
    BY <1>6, <2>2, HoldersKept DEF Serve, Receive, RunFunc, RevertCheck, Exit, callVars
  <2> QED
    BY <2>1, <2>2
<1>7. ASSUME NEW p \in Purgers, Reboot(p) \/ Purge(p) PROVE LockHolders'
  <2>1. CASE PurgeExpire(p)
    BY <2>1, HoldersWhenFree DEF PurgeExpire, callVars
  <2>2. CASE PurgeBroadcast(p)
    BY <2>2, HoldersKept DEF PurgeBroadcast
  <2>3. CASE Reboot(p) \/ PurgeTick(p) \/ PurgeSend(p) \/ PurgeEnd(p)
    BY <2>3, HoldersKept DEF Reboot, PurgeTick, PurgeSend, PurgeEnd, callVars
  <2> QED
    BY <1>7, <2>1, <2>2, <2>3 DEF Purge
<1>8. ASSUME NEW size \in TuneSizes, Tune(size) PROVE LockHolders'
  BY <1>8, HoldersKept DEF Tune, callVars
<1>9. CASE ReleaseClose \/ Reset \/ UNCHANGED vars
  <2>1. inv' = inv
    BY <1>9 DEF ReleaseClose, Reset, ReleaseLock, ReleaseSend, ReleaseDone, vars, callVars
  <2>2. CASE ReleaseClose
    BY <2>1, <2>2 DEF LockHolders, ReleaseClose
  <2>3. CASE ReleaseLock
    BY <2>1, <2>3 DEF LockHolders, ReleaseLock
  <2>4. CASE ReleaseSend
    BY <2>1, <2>4 DEF LockHolders, ReleaseSend
  <2>5. CASE ReleaseDone
    BY <2>1, <2>5 DEF LockHolders, ReleaseDone
  <2>6. CASE UNCHANGED vars
    BY <2>1, <2>6, HoldersKept DEF vars
  <2> QED
    BY <1>9, <2>2, <2>3, <2>4, <2>5, <2>6 DEF Reset
<1> QED
  BY <1>2, <1>3, <1>4, <1>5, <1>6, <1>7, <1>8, <1>9 DEF Next, Proceed

-----------------------------------------------------------------------------
(* Who may send to a worker, as long as no purger does.  OneOwner and        *)
(* IdleIsReceiving are inductive together with three facts: the purgers are  *)
(* off, a caller holds a worker only between retrieveWorker and the send,    *)
(* and a goroutine that is not receiving has taken what was in its channel.  *)

Quiet == \A p \in Purgers : pg[p] = "off"

HoldsToSend == \A c \in Calls : inv[c] # "send" => hold[c] = NoWorker

EmptyUnlessReceiving == \A w \in Workers : wk[w] # "recv" => args[w] = Nothing

Owned(w) == w \in Range(workers) \/ \E c \in Calls : hold[c] = w

Ownership == OneOwner /\ IdleIsReceiving /\ EmptyUnlessReceiving

IInv == TypeOK /\ BlockedCountExact /\ Quiet /\ HoldsToSend /\ Ownership

\* A step that changes no holder, no stack and no goroutine.
LEMMA OwnershipKept ==
  ASSUME Ownership, UNCHANGED <<workers, hold, wk, args>>
  PROVE  Ownership'
BY DEF Ownership, OneOwner, IdleIsReceiving, EmptyUnlessReceiving

\* A step of a goroutine whose worker nobody else can send to.
LEMMA LonelyStep ==
  ASSUME Ownership, NEW w \in Workers, ~Owned(w), UNCHANGED <<workers, hold>>,
         \A v \in Workers \ {w} : wk'[v] = wk[v] /\ args'[v] = args[v],
         wk'[w] # "recv" => args'[w] = Nothing
  PROVE  Ownership'
<1>1. OneOwner'
  BY DEF Ownership, OneOwner
<1>2. IdleIsReceiving'
  BY DEF Ownership, IdleIsReceiving, Owned
<1>3. EmptyUnlessReceiving'
  BY DEF Ownership, EmptyUnlessReceiving
<1> QED
  BY <1>1, <1>2, <1>3 DEF Ownership

\* A worker that is not receiving, or whose channel is not empty, has no owner.
LEMMA BusyIsNotOwned ==
  ASSUME Ownership, NEW w \in Workers, wk[w] # "recv" \/ args[w] # Nothing
  PROVE  ~Owned(w)
BY DEF Ownership, IdleIsReceiving, Owned

\* Detach: the worker on top goes from the stack to the caller.
LEMMA PopOwnership ==
  ASSUME IInv, NEW c \in Calls, Pop(c), UNCHANGED <<wk, args>>
  PROVE  Ownership'
<1>1. /\ hold' = [hold EXCEPT ![c] = Top] /\ workers' = Below
      /\ workers \in Seq(Workers) /\ workers # <<>>
      /\ hold \in [Calls -> Workers \cup {NoWorker}]
  BY DEF Pop, IInv, TypeOK
<1>2. Distinct(workers)
  BY DEF IInv, Ownership, OneOwner, Distinct
<1>3. /\ Top \in Workers /\ Top \in Range(workers) /\ Distinct(workers')
      /\ Range(workers') \subseteq Range(workers) /\ Top \notin Range(workers')
  BY <1>1, <1>2, BelowTheTop
<1>4. \A i, j \in 1..Len(workers') : workers'[i] = workers'[j] => i = j
  BY <1>3 DEF Distinct
<1>5. /\ \A d \in Calls : hold[d] # Top
      /\ \A d, e \in Calls : hold[d] = hold[e] /\ hold[d] # NoWorker => d = e
      /\ \A d \in Calls : hold[d] \notin Range(workers)
  BY <1>3 DEF IInv, Ownership, OneOwner
<1>6. OneOwner'
  BY <1>1, <1>3, <1>4, <1>5 DEF OneOwner
<1>7. IdleIsReceiving'
  BY <1>1, <1>3 DEF IInv, Ownership, IdleIsReceiving
<1>8. EmptyUnlessReceiving'
  BY DEF IInv, Ownership, EmptyUnlessReceiving
<1> QED
  BY <1>6, <1>7, <1>8 DEF Ownership

LEMMA SpawnOwnership ==
  ASSUME IInv, NEW c \in Calls, Spawn(c)
  PROVE  Ownership'
<1>1. PICK w \in Workers : /\ wk[w] = "none" /\ wk' = [wk EXCEPT ![w] = "recv"]
                           /\ hold' = [hold EXCEPT ![c] = w]
  BY DEF Spawn
<1>2. UNCHANGED <<workers, args>>
  BY DEF Spawn
<1>3. ~Owned(w) /\ args[w] = Nothing
  BY <1>1, BusyIsNotOwned DEF IInv, Ownership, EmptyUnlessReceiving
<1>4. hold \in [Calls -> Workers \cup {NoWorker}] /\ wk \in [Workers -> WorkerStates]
  BY DEF IInv, TypeOK
<1>5. OneOwner'
  BY <1>1, <1>2, <1>3, <1>4 DEF IInv, Ownership, OneOwner, Owned
<1>6. IdleIsReceiving' /\ EmptyUnlessReceiving'
  BY <1>1, <1>2, <1>3, <1>4 DEF IInv, Ownership, IdleIsReceiving, EmptyUnlessReceiving
<1> QED
  BY <1>5, <1>6 DEF Ownership

LEMMA SendOwnership ==
  ASSUME IInv, NEW c \in Calls, Send(c)
  PROVE  Ownership'
<1> DEFINE w == hold[c]
<1>1. /\ w \in Workers /\ hold' = [hold EXCEPT ![c] = NoWorker]
      /\ args' = [args EXCEPT ![w] = Argument(c)]
      /\ UNCHANGED <<workers, wk>>
  BY DEF IInv, TypeOK, Send
<1>2. /\ \A d \in Calls \ {c} : hold[d] # w
      /\ w \notin Range(workers) /\ wk[w] = "recv"
  BY <1>1, ConstantsAssumption DEF IInv, Ownership, OneOwner, IdleIsReceiving
<1>3. /\ hold \in [Calls -> Workers \cup {NoWorker}] /\ NoWorker \notin Workers
      /\ args \in [Workers -> Calls \cup {Nil, Nothing}] /\ workers \in Seq(Workers)
  BY ConstantsAssumption DEF IInv, TypeOK
<1>4. Range(workers) \subseteq Workers
  BY <1>3, RangeOfSeq
<1>5. OneOwner'
  BY <1>1, <1>3, <1>4 DEF IInv, Ownership, OneOwner
<1>6. IdleIsReceiving'
  BY <1>1, <1>2, <1>3 DEF IInv, Ownership, IdleIsReceiving
<1>7. EmptyUnlessReceiving'
  BY <1>1, <1>2, <1>3 DEF IInv, Ownership, EmptyUnlessReceiving
<1> QED
  BY <1>5, <1>6, <1>7 DEF Ownership

LEMMA RevertInsertOwnership ==
  ASSUME IInv, NEW w \in Workers, RevertInsert(w)
  PROVE  Ownership'
<1>1. ~Owned(w) /\ args[w] = Nothing
  BY BusyIsNotOwned DEF IInv, Ownership, EmptyUnlessReceiving, RevertInsert
<1>2. /\ workers' = Append(workers, w) /\ wk' = [wk EXCEPT ![w] = "recv"]
      /\ UNCHANGED <<hold, args>>
      /\ workers \in Seq(Workers) /\ wk \in [Workers -> WorkerStates]
  BY DEF IInv, TypeOK, RevertInsert
<1>3. Distinct(workers) /\ w \notin Range(workers)
  BY <1>1 DEF IInv, Ownership, OneOwner, Distinct, Owned
<1>4. Distinct(workers') /\ Range(workers') = Range(workers) \cup {w}
  BY <1>2, <1>3, AppendToDistinct
<1>5. \A i, j \in 1..Len(workers') : workers'[i] = workers'[j] => i = j
  BY <1>4 DEF Distinct
<1>6. OneOwner'
  BY <1>1, <1>2, <1>4, <1>5 DEF IInv, Ownership, OneOwner, Owned
<1>7. IdleIsReceiving' /\ EmptyUnlessReceiving'
  BY <1>1, <1>2, <1>4 DEF IInv, Ownership, IdleIsReceiving, EmptyUnlessReceiving
<1> QED
  BY <1>6, <1>7 DEF Ownership

LEMMA ReleaseSendOwnership ==
  ASSUME IInv, ReleaseSend
  PROVE  Ownership'
<1> DEFINE w == Head(workers)
<1>1. /\ workers \in Seq(Workers) /\ workers # <<>> /\ workers' = Tail(workers)
      /\ args' = [args EXCEPT ![w] = Nil] /\ UNCHANGED <<hold, wk>>
      /\ args \in [Workers -> Calls \cup {Nil, Nothing}]
  BY DEF IInv, TypeOK, ReleaseSend, callVars
<1>2. Distinct(workers)
  BY DEF IInv, Ownership, OneOwner, Distinct
<1>3. /\ w \in Workers /\ w \in Range(workers) /\ Distinct(workers')
      /\ Range(workers') = Range(workers) \ {w}
  BY <1>1, <1>2, TailOfDistinct
<1>4. \A i, j \in 1..Len(workers') : workers'[i] = workers'[j] => i = j
  BY <1>3 DEF Distinct
<1>5. wk[w] = "recv" /\ \A c \in Calls : hold[c] # w
  BY <1>3 DEF IInv, Ownership, OneOwner, IdleIsReceiving
<1>6. OneOwner'
  BY <1>1, <1>3, <1>4 DEF IInv, Ownership, OneOwner
<1>7. IdleIsReceiving'
  BY <1>1, <1>3, <1>5 DEF IInv, Ownership, IdleIsReceiving
<1>8. EmptyUnlessReceiving'
  BY <1>1, <1>5 DEF IInv, Ownership, EmptyUnlessReceiving
<1> QED
  BY <1>6, <1>7, <1>8 DEF Ownership

LEMMA StepOwnership ==
  ASSUME IInv, [Next]_vars
  PROVE  Ownership'
<1>1. ASSUME NEW c \in Calls, Invoke(c) \/ Proceed(c) PROVE Ownership'
  <2>1. CASE Invoke(c) \/ RetrieveCheck(c)
    <3>1. UNCHANGED <<workers, hold, wk, args>>
      BY <2>1 DEF Invoke, RetrieveCheck, workerVars
    <3> QED
      BY <3>1, OwnershipKept DEF IInv
  <2>2. CASE RetrieveFast(c) \/ Wake(c)
    <3>1. UNCHANGED <<wk, args>>
      BY <2>2 DEF RetrieveFast, Wake, workerVars
    <3>2. Pop(c) \/ UNCHANGED <<workers, hold>>
      BY <2>2 DEF RetrieveFast, Wake
    <3> QED
      BY <3>1, <3>2, PopOwnership, OwnershipKept DEF IInv
  <2> QED
    BY <1>1, <2>1, <2>2, SpawnOwnership, SendOwnership DEF Proceed
<1>2. ASSUME NEW w \in Workers, Serve(w) PROVE Ownership'
  <2>1. CASE RevertInsert(w)
    BY <2>1, RevertInsertOwnership
  <2>2. CASE Receive(w) \/ RunFunc(w) \/ RevertCheck(w) \/ Exit(w)
    <3>1. ~Owned(w)
      BY <2>2, BusyIsNotOwned DEF IInv, Receive, RunFunc, RevertCheck, Exit
    <3>2. /\ UNCHANGED <<workers, hold>>
          /\ \A v \in Workers \ {w} : wk'[v] = wk[v] /\ args'[v] = args[v]
      BY <2>2 DEF IInv, TypeOK, Receive, RunFunc, RevertCheck, Exit, callVars
    <3>3. args'[w] = Nothing
      <4>1. CASE Receive(w)
        BY <4>1 DEF IInv, TypeOK, Receive
      <4>2. CASE RunFunc(w) \/ RevertCheck(w) \/ Exit(w)
        BY <4>2 DEF IInv, Ownership, EmptyUnlessReceiving, RunFunc, RevertCheck, Exit
      <4> QED
        BY <2>2, <4>1, <4>2
    <3> QED
      BY <3>1, <3>2, <3>3, LonelyStep DEF IInv
  <2> QED
    BY <1>2, <2>1, <2>2 DEF Serve
<1>3. ASSUME NEW p \in Purgers, Reboot(p) \/ Purge(p) PROVE Ownership'
  <2>1. Reboot(p)
    BY <1>3 DEF IInv, Quiet, Purge, PurgeTick, PurgeExpire, PurgeSend, PurgeEnd, PurgeBroadcast
  <2> QED
    BY <2>1, OwnershipKept DEF IInv, Reboot, callVars, workerVars
<1>4. ASSUME NEW size \in TuneSizes, Tune(size) PROVE Ownership'
  BY <1>4, OwnershipKept DEF IInv, Tune, callVars, workerVars
<1>5. CASE ReleaseSend
  BY <1>5, ReleaseSendOwnership
<1>6. CASE ReleaseClose \/ ReleaseLock \/ ReleaseDone \/ UNCHANGED vars
  <2>1. UNCHANGED <<workers, hold, wk, args>>
    BY <1>6 DEF ReleaseClose, ReleaseLock, ReleaseDone, vars, callVars, workerVars
  <2> QED
    BY <2>1, OwnershipKept DEF IInv
<1> QED
  BY <1>1, <1>2, <1>3, <1>4, <1>5, <1>6 DEF Next, Reset

\* Without heartbeats the purgers stay off, and only a caller about to send
\* holds a worker.
LEMMA StepQuiet ==
  ASSUME ~opts.ticks, IInv, [Next]_vars
  PROVE  Quiet' /\ HoldsToSend'
<1>1. /\ inv \in [Calls -> CallStates] /\ hold \in [Calls -> Workers \cup {NoWorker}]
      /\ pg \in [Purgers -> PurgerStates]
  BY DEF IInv, TypeOK
<1>2. ASSUME NEW c \in Calls, Invoke(c) \/ Proceed(c) PROVE pg' = pg /\ HoldsToSend'
  <2>1. pg' = pg
    BY <1>2 DEF Invoke, Proceed, RetrieveFast, RetrieveCheck, Wake, Spawn, Send, purgeVars
  <2>2. CASE Invoke(c) \/ RetrieveCheck(c)
    <3>1. PICK s \in CallStates : inv' = [inv EXCEPT ![c] = s]
      <4>1. CASE Invoke(c)
        BY <4>1 DEF Invoke, CallStates
      <4>2. CASE RetrieveCheck(c)
        BY <4>2 DEF RetrieveCheck, Reenter, CallStates
      <4> QED
        BY <2>2, <4>1, <4>2
    <3>2. hold' = hold /\ inv[c] # "send"
      BY <2>2 DEF Invoke, RetrieveCheck
    <3> QED
      BY <1>1, <2>1, <3>1, <3>2 DEF IInv, HoldsToSend
  <2>3. CASE RetrieveFast(c) \/ Wake(c)
    <3>1. CASE Pop(c)
      BY <1>1, <2>1, <3>1 DEF IInv, HoldsToSend, Pop
    <3>2. CASE ~Pop(c)
      <4>1. hold' = hold /\ inv[c] # "send"
        BY <2>3, <3>2 DEF RetrieveFast, Wake
      <4>2. PICK s \in CallStates : inv' = [inv EXCEPT ![c] = s]
        BY <2>3, <3>2 DEF RetrieveFast, Wake, Reenter, CallStates
      <4> QED
        BY <1>1, <2>1, <4>1, <4>2 DEF IInv, HoldsToSend
    <3> QED
      BY <3>1, <3>2
  <2>4. CASE Spawn(c)
    <3>1. /\ inv' = [inv EXCEPT ![c] = "send"]
          /\ \A d \in Calls \ {c} : hold'[d] = hold[d]
      BY <1>1, <2>4 DEF Spawn
    <3> QED
      BY <1>1, <2>1, <3>1 DEF IInv, HoldsToSend
  <2>5. CASE Send(c)
    BY <1>1, <2>1, <2>5 DEF IInv, HoldsToSend, Send
  <2> QED
    BY <1>2, <2>1, <2>2, <2>3, <2>4, <2>5 DEF Proceed
<1>3. ASSUME NEW w \in Workers, Serve(w) PROVE pg' = pg /\ HoldsToSend'
  <2>1. UNCHANGED <<pg, hold>>
    BY <1>3 DEF Serve, Receive, RunFunc, RevertCheck, RevertInsert, Exit, callVars, purgeVars
  <2>2. \A c \in Calls : inv[c] = "send" => inv'[c] = "send"
    <3>1. CASE cond # <<>> /\ RevertInsert(w)
      <4>1. Head(cond) \in Calls /\ Head(cond) \in Range(cond)
        BY <3>1, TailOfDistinct DEF IInv, TypeOK, BlockedCountExact, Distinct
      <4>2. inv[Head(cond)] = "waiting"
        BY <4>1 DEF IInv, BlockedCountExact
      <4> QED
        BY <1>1, <3>1, <4>1, <4>2 DEF RevertInsert, Signal
    <3>2. CASE ~(cond # <<>> /\ RevertInsert(w))
      BY <1>3, <3>2 DEF Serve, Receive, RunFunc, RevertCheck, RevertInsert, Exit, Signal,
         callVars
    <3> QED
      BY <3>1, <3>2
  <2> QED
    BY <2>1, <2>2 DEF IInv, HoldsToSend
<1>4. ASSUME NEW p \in Purgers, Reboot(p) \/ Purge(p) PROVE Quiet' /\ HoldsToSend'
  <2>1. Reboot(p)
    BY <1>4 DEF IInv, Quiet, Purge, PurgeTick, PurgeExpire, PurgeSend, PurgeEnd, PurgeBroadcast
  <2>2. UNCHANGED <<inv, hold>> /\ pg' = [pg EXCEPT ![p] = "off"]
    BY <2>1 DEF Reboot, callVars
  <2> QED
    BY <1>1, <2>2 DEF IInv, Quiet, HoldsToSend
<1>5. ASSUME NEW size \in TuneSizes, Tune(size) PROVE UNCHANGED <<pg, inv, hold>>
  BY <1>5 DEF Tune, callVars, purgeVars
<1>6. CASE ReleaseClose \/ Reset \/ UNCHANGED vars
  <2>1. UNCHANGED <<pg, inv, hold>>
    BY <1>6 DEF ReleaseClose, Reset, ReleaseLock, ReleaseSend, ReleaseDone, vars, callVars,
       purgeVars
  <2> QED
    BY <2>1 DEF IInv, Quiet, HoldsToSend
<1> QED
  BY <1>2, <1>3, <1>4, <1>5, <1>6 DEF Next, IInv, Quiet, HoldsToSend

LEMMA InitInv ==
  ASSUME Init, ~opts.ticks
  PROVE  IInv
<1>1. TypeOK /\ BlockedCountExact
  BY InitType, InitBlocked
<1>2. /\ workers = <<>> /\ hold = [c \in Calls |-> NoWorker]
      /\ args = [w \in Workers |-> Nothing]
  BY DEF Init
<1>3. Quiet /\ HoldsToSend
  BY <1>2 DEF Init, Quiet, HoldsToSend
<1>4. Range(workers) = {} /\ Len(workers) = 0
  <2>1. workers \in Seq(Workers)
    BY <1>1 DEF TypeOK
  <2>2. Range(workers) = {workers[i] : i \in 1..Len(workers)}
    BY <2>1, RangeEquality
  <2> QED
    BY <1>2, <2>2, EmptySeq
<1>5. OneOwner
  BY <1>2, <1>4 DEF OneOwner
<1>6. IdleIsReceiving /\ EmptyUnlessReceiving
  BY <1>2, <1>4, ConstantsAssumption DEF IdleIsReceiving, EmptyUnlessReceiving
<1> QED
  BY <1>1, <1>3, <1>5, <1>6 DEF IInv, Ownership

LEMMA StepInv ==
  ASSUME ~opts.ticks, IInv, [Next]_vars
  PROVE  IInv'
<1>1. TypeOK' /\ BlockedCountExact'
  BY StepType, StepBlocked DEF IInv
<1> QED
  BY <1>1, StepQuiet, StepOwnership DEF IInv

LEMMA InvUntilTick == Spec => [](~opts.ticks => IInv)
<1>1. Init => (~opts.ticks => IInv)
  BY InitInv
<1>2. (~opts.ticks => IInv) /\ [Next]_vars => (~opts.ticks => IInv)'
  BY OptionsConstant, StepInv
<1> QED
  BY <1>1, <1>2, PTL DEF Spec

\* Before the first heartbeat, blocking, Tune, Release and Reboot included, a
\* worker is with one caller or once in the stack, and whoever will send to it
\* sends to a goroutine that receives on an empty channel.
THEOREM WorkerOwnership == Spec => []OneOwnerUntilTick
<1>1. (~opts.ticks => IInv) => OneOwnerUntilTick
  BY DEF IInv, Ownership, OneOwnerUntilTick
<1> QED
  BY <1>1, InvUntilTick, PTL

-----------------------------------------------------------------------------
(* No waiter is forgotten.  A call joins the waiters only in a critical      *)
(* section in which the stack is empty, each worker put back wakes one of    *)
(* them, and a woken call takes one worker away, or finds none because no    *)
(* goroutine is left.                                                        *)

Woken == {c \in Calls : inv[c] = "woken"}

EnoughWoken == cond # <<>> => Len(workers) <= Cardinality(Woken)

LEMMA WokenIsFinite == IsFiniteSet(Woken) /\ Cardinality(Woken) \in Nat
BY FS_Subset, FS_CardinalityType, ConstantsAssumption DEF Woken

\* With no goroutine, the stack is empty.
LEMMA NoGoroutineNoIdle ==
  ASSUME IInv, RunningCountsLive, running = 0
  PROVE  workers = <<>>
<1>1. IsFiniteSet(Live)
  BY FS_Subset, ConstantsAssumption DEF Live
<1>2. Live = {}
  BY <1>1, FS_EmptySet DEF RunningCountsLive
<1>3. workers \in Seq(Workers)
  BY DEF IInv, TypeOK
<1>4. ASSUME workers # <<>> PROVE FALSE
  <2>1. Top \in Workers /\ Top \in Range(workers)
    BY <1>3, <1>4, BelowTheTop
  <2>2. wk[Top] = "recv"
    BY <2>1 DEF IInv, Ownership, IdleIsReceiving
  <2> QED
    BY <1>2, <2>1, <2>2 DEF Live
<1> QED
  BY <1>4

\* A step that adds no waiter, no idle worker, and takes no call from those woken.
LEMMA EnoughKept ==
  ASSUME EnoughWoken, cond' # <<>> => cond # <<>>,
         Len(workers) \in Nat, Len(workers') \in Nat, Len(workers') <= Len(workers),
         \A c \in Calls : inv'[c] = "woken" <=> inv[c] = "woken"
  PROVE  EnoughWoken'
<1>1. Woken' = Woken
  BY DEF Woken
<1> QED
  BY <1>1, WokenIsFinite DEF EnoughWoken

\* A call that is woken takes a worker.
LEMMA WakePopEnough ==
  ASSUME IInv, EnoughWoken, NEW c \in Calls, inv[c] = "woken", Pop(c), cond' = cond
  PROVE  EnoughWoken'
<1>1. /\ workers \in Seq(Workers) /\ workers # <<>> /\ workers' = Below
      /\ inv' = [inv EXCEPT ![c] = "send"] /\ inv \in [Calls -> CallStates]
  BY DEF IInv, TypeOK, Pop
<1>2. Len(workers) \in Nat /\ Len(workers') = Len(workers) - 1
  BY <1>1, BelowTheTop, LenProperties
<1>3. c \in Woken /\ Woken' = Woken \ {c}
  BY <1>1 DEF Woken
<1>4. Cardinality(Woken') = Cardinality(Woken) - 1
  BY <1>3, WokenIsFinite, FS_RemoveElement
<1> QED
  BY <1>2, <1>4, WokenIsFinite DEF EnoughWoken

\* Whatever becomes of the calls, an empty stack needs nobody.
LEMMA EmptyEnough ==
  ASSUME workers' = <<>>
  PROVE  EnoughWoken'
<1>1. Len(workers') = 0
  BY EmptySeq
<1>2. IsFiniteSet(Woken') /\ Cardinality(Woken') \in Nat
  <2>1. Woken' \subseteq Calls
    BY DEF Woken
  <2> QED
    BY <2>1, FS_Subset, FS_CardinalityType, ConstantsAssumption
<1> QED
  BY <1>1, <1>2 DEF EnoughWoken

\* A worker that goes back wakes the oldest waiter.
LEMMA InsertEnough ==
  ASSUME IInv, EnoughWoken, NEW w \in Workers, RevertInsert(w)
  PROVE  EnoughWoken'
<1>1. CASE cond = <<>>
  BY <1>1 DEF RevertInsert, Signal, EnoughWoken
<1>2. CASE cond # <<>>
  <2>1. /\ workers' = Append(workers, w) /\ cond' = Tail(cond)
        /\ inv' = [inv EXCEPT ![Head(cond)] = "woken"]
    BY <1>2 DEF RevertInsert, Signal
  <2>2. /\ workers \in Seq(Workers) /\ cond \in Seq(Calls) /\ inv \in [Calls -> CallStates]
        /\ Distinct(cond) /\ \A d \in Calls : inv[d] = "waiting" <=> d \in Range(cond)
    BY DEF IInv, TypeOK, BlockedCountExact, Distinct
  <2>3. Head(cond) \in Calls /\ inv[Head(cond)] = "waiting"
    BY <1>2, <2>2, TailOfDistinct
  <2>4. Head(cond) \notin Woken /\ Woken' = Woken \cup {Head(cond)}
    BY <2>1, <2>2, <2>3 DEF Woken
  <2>5. Cardinality(Woken') = Cardinality(Woken) + 1
    BY <2>4, WokenIsFinite, FS_AddElement
  <2>6. Len(workers') = Len(workers) + 1 /\ Len(workers) \in Nat
    BY <2>1, <2>2, AppendProperties, LenProperties
  <2> QED
    BY <1>2, <2>5, <2>6, WokenIsFinite DEF EnoughWoken
<1> QED
  BY <1>1, <1>2

LEMMA StepEnough ==
  ASSUME ~opts.ticks, IInv, RunningCountsLive, LockHolders, EnoughWoken, [Next]_vars
  PROVE  EnoughWoken'
<1>1. /\ inv \in [Calls -> CallStates] /\ workers \in Seq(Workers)
      /\ Len(workers) \in Nat
  BY LenProperties DEF IInv, TypeOK
<1>2. ASSUME NEW c \in Calls, Invoke(c) \/ Spawn(c) \/ Send(c) PROVE EnoughWoken'
  <2>1. UNCHANGED <<workers, cond>>
    BY <1>2 DEF Invoke, Spawn, Send, condVars
  <2>2. \A d \in Calls : inv'[d] = "woken" <=> inv[d] = "woken"
    BY <1>1, <1>2 DEF Invoke, Spawn, Send
  <2> QED
    BY <1>1, <2>1, <2>2, EnoughKept
<1>3. ASSUME NEW c \in Calls, RetrieveFast(c) PROVE EnoughWoken'
  <2>1. cond' = cond /\ \A d \in Calls : inv'[d] = "woken" <=> inv[d] = "woken"
    BY <1>1, <1>3 DEF RetrieveFast, Pop, condVars
  <2>2. Len(workers') \in Nat /\ Len(workers') <= Len(workers)
    <3>1. CASE Pop(c)
      BY <1>1, <3>1, BelowTheTop DEF Pop
    <3>2. CASE ~Pop(c)
      BY <1>1, <1>3, <3>2 DEF RetrieveFast
    <3> QED
      BY <3>1, <3>2
  <2> QED
    BY <1>1, <2>1, <2>2, EnoughKept
<1>4. ASSUME NEW c \in Calls, RetrieveCheck(c) PROVE EnoughWoken'
  BY <1>4, EmptyEnough DEF RetrieveCheck, LockHolders
<1>5. ASSUME NEW c \in Calls, Wake(c) PROVE EnoughWoken'
  <2>1. CASE Pop(c) /\ cond' = cond
    BY <1>5, <2>1, WakePopEnough DEF Wake
  <2>2. CASE running = 0 /\ workers' = workers
    BY <2>2, NoGoroutineNoIdle, EmptyEnough
  <2>3. CASE workers = <<>> /\ workers' = workers
    BY <2>3, EmptyEnough
  <2> QED
    BY <1>5, <2>1, <2>2, <2>3 DEF Wake
<1>6. ASSUME NEW w \in Workers, Serve(w) PROVE EnoughWoken'
  <2>1. CASE RevertInsert(w)
    BY <2>1, InsertEnough
  <2>2. CASE ~RevertInsert(w)
    <3>1. UNCHANGED <<workers, cond, inv>>
      BY <1>6, <2>2 DEF Serve, Receive, RunFunc, RevertCheck, Exit, condVars, callVars
    <3> QED
      BY <1>1, <3>1, EnoughKept
  <2> QED
    BY <2>1, <2>2
<1>7. ASSUME NEW p \in Purgers, Reboot(p) \/ Purge(p) PROVE EnoughWoken'
  <2>1. Reboot(p)
    BY <1>7 DEF IInv, Quiet, Purge, PurgeTick, PurgeExpire, PurgeSend, PurgeEnd, PurgeBroadcast
  <2>2. UNCHANGED <<workers, cond, inv>>
    BY <2>1 DEF Reboot, condVars, callVars
  <2> QED
    BY <1>1, <2>2, EnoughKept
<1>8. ASSUME NEW size \in TuneSizes, Tune(size) PROVE EnoughWoken'
  <2>1. UNCHANGED <<workers, cond, inv>>
    BY <1>8 DEF Tune, condVars, callVars
  <2> QED
    BY <1>1, <2>1, EnoughKept
<1>9. CASE ReleaseClose \/ Reset \/ UNCHANGED vars
  <2>1. UNCHANGED <<cond, inv>>
    BY <1>9 DEF ReleaseClose, Reset, ReleaseLock, ReleaseSend, ReleaseDone, vars, condVars,
       callVars
  <2>2. Len(workers') \in Nat /\ Len(workers') <= Len(workers)
    <3>1. CASE ReleaseSend
      <4>1. workers # <<>> /\ workers' = Tail(workers)
        BY <3>1 DEF ReleaseSend
      <4> QED
        BY <1>1, <4>1, HeadTailProperties, EmptySeq
    <3>2. CASE ~ReleaseSend
      BY <1>1, <1>9, <3>2 DEF ReleaseClose, Reset, ReleaseLock, ReleaseDone, vars
    <3> QED
      BY <3>1, <3>2
  <2> QED
    BY <1>1, <2>1, <2>2, EnoughKept
<1> QED
  BY <1>2, <1>3, <1>4, <1>5, <1>6, <1>7, <1>8, <1>9 DEF Next, Proceed

\* Before the first heartbeat, no waiter sleeps while a worker is idle: there are
\* as many calls woken to fetch the idle workers as there are of these.
THEOREM WaitersAreWoken == Spec => []NoIdleWhileWaiting
<1> DEFINE Inv == ~opts.ticks => EnoughWoken
<1>1. Init => Inv /\ LockHolders
  BY InitHolders DEF Init, EnoughWoken
<1>2. TypeOK /\ LockHolders /\ [Next]_vars => LockHolders'
  BY StepHolders
<1>3. (~opts.ticks => IInv) /\ RunningCountsLive /\ LockHolders /\ Inv /\ [Next]_vars => Inv'
  BY OptionsConstant, StepEnough
<1>4. Inv => NoIdleWhileWaiting
  BY DEF EnoughWoken, Woken, NoIdleWhileWaiting
<1> QED
  BY <1>1, <1>2, <1>3, <1>4, TypeCorrect, CounterExact, InvUntilTick, PTL DEF Spec

=============================================================================
