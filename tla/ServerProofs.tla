---------------------------- MODULE ServerProofs -----------------------------
(***************************************************************************)
(* Proofs about Server: for every number of event loops, of renumberings   *)
(* and every set of options.                                               *)
(***************************************************************************)
EXTENDS Server, SequenceTheorems, TLAPS

-----------------------------------------------------------------------------
(* Types.                                                                   *)

LEMMA ChannelTypes ==
  ASSUME NEW c \in Chan
  PROVE  /\ Send(c) \in Chan /\ Send(c).closed = c.closed
         /\ Receive(c) \in Chan /\ Receive(c).closed = c.closed
         /\ Close(c) \in Chan /\ Close(c).closed
<1>1. c = [n |-> c.n, closed |-> c.closed] /\ c.n \in 0..1 /\ c.closed \in BOOLEAN
  BY DEF Chan
<1>2. Send(c) \in Chan /\ Send(c).closed = c.closed
  BY <1>1 DEF Send, Chan
<1>3. Receive(c) \in Chan /\ Receive(c).closed = c.closed
  BY <1>1 DEF Receive, Chan
<1>4. Close(c) \in Chan /\ Close(c).closed
  BY <1>1 DEF Close, Chan
<1> QED
  BY <1>2, <1>3, <1>4

\* The numbers that registration gives to the loops are one each.
LEMMA FirstNumbers == [l \in Loops |-> l - 1] \in Bijection(Loops, 0..(NumEventLoop - 1))
<1> DEFINE f == [l \in Loops |-> l - 1]
<1>1. NumEventLoop \in Nat \ {0}
  BY ServerAssumption
<1>2. f \in [Loops -> 0..(NumEventLoop - 1)]
  BY <1>1 DEF Loops
<1>3. \A a, b \in Loops : f[a] = f[b] => a = b
  BY <1>1 DEF Loops
<1>4. \A t \in 0..(NumEventLoop - 1) : \E s \in Loops : f[s] = t
  <2> TAKE t \in 0..(NumEventLoop - 1)
  <2>1. t + 1 \in Loops /\ f[t + 1] = t
    BY <1>1 DEF Loops
  <2> QED
    BY <2>1
<1> HIDE DEF f
<1>5. f \in Injection(Loops, 0..(NumEventLoop - 1))
  BY <1>2, <1>3 DEF Injection, IsInjective
<1>6. f \in Surjection(Loops, 0..(NumEventLoop - 1))
  BY <1>2, <1>4 DEF Surjection
<1> QED
  BY <1>5, <1>6 DEF Bijection, f

LEMMA InitType == Init => TypeOK
<1> SUFFICES ASSUME Init PROVE TypeOK
  OBVIOUS
<1>1. /\ opts \in OptionSet /\ serve \in ServePlaces /\ failed \in BOOLEAN
      /\ sig \in {"none", "receive", "signal", "done"} /\ fired \in BOOLEAN
      /\ main \in LoopPlaces /\ listening \in BOOLEAN
      /\ fate \in {"alive", "interrupt", "sent on closed", "closed twice"}
  BY Zenon DEF Init, ServePlaces, LoopPlaces
<1>2. interrupt \in Chan /\ ticktock \in Chan
  BY DEF Init, Chan
<1>3. /\ loop \in [Loops -> LoopPlaces] /\ kq \in [Loops -> {"none", "open", "closed"}]
      /\ tick \in [Loops -> TickPlaces]
  BY DEF Init, LoopPlaces, TickPlaces
<1>4. jobs \in [Loops -> Seq({"tick", "stop"})] /\ mainJobs \in Seq({"stop"})
  BY EmptySeq DEF Init
<1>5. idx \in Bijection(Loops, 0..(NumEventLoop - 1))
  BY FirstNumbers DEF Init
<1>6. renumbered \in 0..MaxRenumber
  BY ServerAssumption DEF Init
<1> QED
  BY <1>1, <1>2, <1>3, <1>4, <1>5, <1>6 DEF TypeOK

\* signalShutdown may only take the caller of Serve from cond.Wait to stop.
LEMMA SignalTypes ==
  ASSUME serve \in ServePlaces, signalShutdown
  PROVE  serve' \in ServePlaces /\ fired' \in BOOLEAN
BY DEF signalShutdown, ServePlaces

LEMMA ServeType ==
  ASSUME TypeOK, Serve
  PROVE  TypeOK'
<1>1. CASE OnInitComplete
  BY <1>1 DEF TypeOK, OnInitComplete, ServePlaces, loopVars, numbering, tickVars
<1>2. CASE activateLoops
  <2>1. /\ serve' \in ServePlaces /\ failed' \in BOOLEAN /\ loop' \in [Loops -> LoopPlaces]
        /\ kq' \in [Loops -> {"none", "open", "closed"}]
    <3>1. CASE /\ kq' = [l \in Loops |-> "open"] /\ loop' = [l \in Loops |-> "started"]
               /\ serve' \in {"wait", "main"} /\ failed' = failed
      BY <3>1 DEF TypeOK, ServePlaces, LoopPlaces
    <3>2. CASE /\ serve' = "failed" /\ failed' = TRUE /\ loop' = loop
               /\ \E n \in 0..(NumEventLoop - 1) :
                    kq' = [l \in Loops |-> IF l <= n THEN "open" ELSE "none"]
      BY <3>2 DEF TypeOK, ServePlaces
    <3> QED
      BY <1>2, <3>1, <3>2 DEF activateLoops
  <2> QED
    BY <1>2, <2>1 DEF TypeOK, activateLoops, signalVars, numbering, mainVars, tickVars
<1>3. CASE activateMainReactor
  BY <1>3 DEF TypeOK, activateMainReactor, ServePlaces, LoopPlaces, signalVars, loopVars,
     numbering, tickVars
<1>4. CASE startFailed \/ closeLoops
  <2>1. serve' = "deferred" /\ kq' \in [Loops -> {"none", "open", "closed"}]
    BY <1>4 DEF TypeOK, startFailed, closeLoops, ClosedAll
  <2> QED
    BY <1>4, <2>1 DEF TypeOK, startFailed, closeLoops, ServePlaces, signalVars, numbering,
       mainVars, tickVars
<1>5. CASE waitForShutdown \/ waitGroup
  BY <1>5 DEF TypeOK, waitForShutdown, waitGroup, ServePlaces, signalVars, loopVars,
     numbering, mainVars, tickVars
<1>6. CASE stopLoops
  <2>1. \A l \in Loops : Append(jobs[l], "stop") \in Seq({"tick", "stop"})
    BY AppendProperties DEF TypeOK
  <2> QED
    BY <1>6, <2>1 DEF TypeOK, stopLoops, ServePlaces, signalVars, numbering, mainVars, tickVars
<1>7. CASE stopMain
  <2>1. Append(mainJobs, "stop") \in Seq({"stop"})
    BY AppendProperties DEF TypeOK
  <2> QED
    BY <1>7, <2>1 DEF TypeOK, stopMain, ServePlaces, signalVars, loopVars, numbering, tickVars
<1>8. CASE closeShutdown
  BY <1>8, ChannelTypes DEF TypeOK, closeShutdown, ServePlaces, loopVars, numbering, mainVars,
     tickVars
<1>9. CASE OnShutdown
  BY <1>9 DEF TypeOK, OnShutdown, ServePlaces, signalVars, loopVars, numbering, tickVars
<1> QED
  BY <1>1, <1>2, <1>3, <1>4, <1>5, <1>6, <1>7, <1>8, <1>9 DEF Serve

LEMMA SignalGoroutineType ==
  ASSUME TypeOK, Interrupt \/ ReceiveInterrupt \/ SignalInterrupt
  PROVE  TypeOK'
<1>1. CASE Interrupt
  BY <1>1, ChannelTypes DEF TypeOK, Interrupt, loopVars, numbering, mainVars, tickVars
<1>2. CASE ReceiveInterrupt
  BY <1>2, ChannelTypes DEF TypeOK, ReceiveInterrupt, loopVars, numbering, mainVars, tickVars
<1>3. CASE SignalInterrupt
  BY <1>3, SignalTypes DEF TypeOK, SignalInterrupt, loopVars, numbering, mainVars, tickVars
<1> QED
  BY <1>1, <1>2, <1>3

LEMMA EventLoopType ==
  ASSUME TypeOK, NEW l \in Loops, EventLoop(l) \/ CallbackFails(l)
  PROVE  TypeOK'
<1>1. CASE StartLoop(l)
  BY <1>1 DEF TypeOK, StartLoop, LoopPlaces, TickPlaces, signalVars, numbering, mainVars
<1>2. CASE CallbackFails(l)
  BY <1>2 DEF TypeOK, CallbackFails, LoopPlaces, signalVars, numbering, mainVars, tickVars
<1>3. ASSUME NEW j, NextJob(l, j) PROVE jobs' \in [Loops -> Seq({"tick", "stop"})]
  BY <1>3, HeadTailProperties DEF TypeOK, NextJob
<1>4. CASE StopJob(l)
  BY <1>3, <1>4 DEF TypeOK, StopJob, LoopPlaces, signalVars, numbering, mainVars, tickVars
<1>5. CASE TickJob(l)
  <2>1. loop' \in [Loops -> LoopPlaces]
    BY <1>5 DEF TypeOK, TickJob, LoopPlaces
  <2>2. ticktock' \in Chan /\ fate' \in {"alive", "interrupt", "sent on closed", "closed twice"}
    BY <1>5, ChannelTypes DEF TypeOK, TickJob
  <2> QED
    BY <1>3, <1>5, <2>1, <2>2 DEF TypeOK, TickJob, signalVars, numbering, mainVars
<1>6. CASE ExitLoop(l)
  <2>1. loop' \in [Loops -> LoopPlaces]
    BY <1>6 DEF TypeOK, ExitLoop, LoopPlaces
  <2>2. ticktock' \in Chan /\ fate' \in {"alive", "interrupt", "sent on closed", "closed twice"}
    BY <1>6, ChannelTypes DEF TypeOK, ExitLoop
  <2> QED
    BY <1>6, <2>1, <2>2 DEF TypeOK, ExitLoop, signalVars, numbering, mainVars
<1>7. CASE SignalLoop(l)
  BY <1>7, SignalTypes DEF TypeOK, SignalLoop, LoopPlaces, signalVars, numbering, mainVars,
     tickVars
<1>8. CASE LeaveLoop(l)
  BY <1>8 DEF TypeOK, LeaveLoop, LoopPlaces, signalVars, numbering, mainVars, tickVars
<1> QED
  BY <1>1, <1>2, <1>4, <1>5, <1>6, <1>7, <1>8 DEF EventLoop

LEMMA TickerType ==
  ASSUME TypeOK, NEW l \in Loops, Ticker(l)
  PROVE  TypeOK'
<1>1. CASE TriggerTick(l)
  <2>1. Append(jobs[l], "tick") \in Seq({"tick", "stop"})
    BY AppendProperties DEF TypeOK
  <2>2. jobs' \in [Loops -> Seq({"tick", "stop"})] /\ tick' \in [Loops -> TickPlaces]
    BY <1>1, <2>1 DEF TypeOK, TriggerTick, TickPlaces
  <2> QED
    BY <1>1, <2>2 DEF TypeOK, TriggerTick, signalVars, numbering, mainVars
<1>2. CASE ReceiveDelay(l)
  <2>1. tick' \in [Loops -> TickPlaces] /\ ticktock' \in Chan
    BY <1>2, ChannelTypes DEF TypeOK, ReceiveDelay, TickPlaces
  <2> QED
    BY <1>2, <2>1 DEF TypeOK, ReceiveDelay, signalVars, loopVars, numbering, mainVars
<1>3. CASE Sleep(l)
  BY <1>3 DEF TypeOK, Sleep, TickPlaces, signalVars, loopVars, numbering, mainVars
<1> QED
  BY <1>1, <1>2, <1>3 DEF Ticker

LEMMA MainType ==
  ASSUME TypeOK, MainReactor \/ AcceptFails \/ Renumber
  PROVE  TypeOK'
<1>1. CASE StopMainJob
  <2>1. Tail(mainJobs) \in Seq({"stop"})
    BY <1>1, HeadTailProperties DEF TypeOK, StopMainJob
  <2> QED
    BY <1>1, <2>1 DEF TypeOK, StopMainJob, LoopPlaces, signalVars, loopVars, numbering, tickVars
<1>2. CASE SignalMain
  BY <1>2, SignalTypes DEF TypeOK, SignalMain, LoopPlaces, signalVars, loopVars, numbering,
     tickVars
<1>3. CASE LeaveMain \/ AcceptFails
  BY <1>3 DEF TypeOK, LeaveMain, AcceptFails, LoopPlaces, signalVars, loopVars, numbering,
     tickVars
<1>4. CASE Renumber
  <2>1. idx' \in Bijection(Loops, 0..(NumEventLoop - 1))
    BY <1>4 DEF Renumber
  <2>2. renumbered' \in 0..MaxRenumber
    <3>1. renumbered \in 0..MaxRenumber /\ renumbered < MaxRenumber /\ renumbered' = renumbered + 1
      BY <1>4 DEF TypeOK, Renumber
    <3>2. MaxRenumber \in Nat
      BY ServerAssumption
    <3> QED
      BY <3>1, <3>2
  <2> QED
    BY <1>4, <2>1, <2>2 DEF TypeOK, Renumber, signalVars, mainVars, tickVars
<1> QED
  BY <1>1, <1>2, <1>3, <1>4 DEF MainReactor

LEMMA StepType ==
  ASSUME TypeOK, [Next]_vars
  PROVE  TypeOK'
<1>1. CASE UNCHANGED vars
  BY <1>1 DEF TypeOK, vars, signalVars, loopVars, numbering, mainVars, tickVars
<1> QED
  BY <1>1, ServeType, SignalGoroutineType, EventLoopType, TickerType, MainType DEF Next

\* The types of the server's state hold in every reachable state; in particular
\* the numbers of the loops stay a bijection through every rebuild of the heap.
THEOREM TypeCorrect == Spec => []TypeOK
<1>1. Init => TypeOK
  BY InitType
<1>2. TypeOK /\ [Next]_vars => TypeOK'
  BY StepType
<1> QED
  BY <1>1, <1>2, PTL DEF Spec

-----------------------------------------------------------------------------
(* The order of the shutdown.  OnShutdownLast is inductive with what holds   *)
(* on the way there: a start that fails is the only way into "failed", the   *)
(* pollers are open from activateLoops to closeLoops, and nothing runs any   *)
(* more once the wait group has let the caller of Serve go on.               *)

Ended == {"deferred", "onshutdown", "returned"}

ShutdownOrder ==
  ~failed =>
    /\ serve # "failed"
    /\ serve = "init" => sig = "none"
    /\ serve \notin {"init", "open", "returned"} => \A l \in Loops : kq[l] # "none"
    /\ \A l \in Loops : kq[l] = "closed" => loop[l] = "done"
    /\ serve = "close" => AllDone
    /\ sig # "none" /\ serve \in Ended => AllDone /\ \A l \in Loops : kq[l] = "closed"

LEMMA InitOrder == Init => ShutdownOrder
BY DEF Init, ShutdownOrder, Ended

\* A step of a goroutine other than the caller of Serve: it ends loops and the
\* main reactor, but revives none, and may wake the caller.
LEMMA OrderKept ==
  ASSUME ShutdownOrder, UNCHANGED <<failed, kq>>,
         serve' = serve \/ (serve = "waiting" /\ serve' = "stopping"),
         sig = "none" => sig' = "none",
         \A l \in Loops : loop[l] = "done" => loop'[l] = "done",
         main \in {"none", "done"} => main' = main
  PROVE  ShutdownOrder'
<1>1. AllDone => AllDone'
  BY DEF AllDone
<1> QED
  BY <1>1 DEF ShutdownOrder, Ended

LEMMA ServeOrder ==
  ASSUME TypeOK, ShutdownOrder, Serve
  PROVE  ShutdownOrder'
<1>1. CASE OnInitComplete
  <2>1. CASE serve' = "returned" /\ sig' = sig
    BY <1>1, <2>1 DEF ShutdownOrder, OnInitComplete, Ended, loopVars
  <2>2. CASE serve' = "open"
    BY <1>1, <2>2 DEF ShutdownOrder, OnInitComplete, Ended, loopVars
  <2> QED
    BY <1>1, <2>1, <2>2 DEF OnInitComplete
<1>2. CASE activateLoops
  <2>1. CASE failed'
    BY <2>1 DEF ShutdownOrder
  <2>2. CASE ~failed'
    <3>1. kq' = [l \in Loops |-> "open"] /\ serve' \in {"wait", "main"}
      BY <1>2, <2>2 DEF activateLoops
    <3> QED
      BY <3>1 DEF ShutdownOrder, Ended
  <2> QED
    BY <2>1, <2>2
<1>3. CASE activateMainReactor
  BY <1>3 DEF ShutdownOrder, activateMainReactor, Ended, loopVars, signalVars
<1>4. CASE startFailed
  BY <1>4 DEF ShutdownOrder, startFailed
<1>5. CASE closeLoops
  <2>1. ~failed => AllDone /\ \A l \in Loops : kq[l] # "none"
    BY <1>5 DEF ShutdownOrder, closeLoops
  <2>2. kq' = ClosedAll /\ serve' = "deferred" /\ UNCHANGED <<failed, loop, main>>
    BY <1>5 DEF closeLoops, mainVars
  <2>3. ~failed => \A l \in Loops : kq'[l] = "closed"
    BY <2>1, <2>2 DEF TypeOK, ClosedAll
  <2>4. AllDone => AllDone'
    BY <2>2 DEF AllDone
  <2> QED
    BY <2>1, <2>2, <2>3, <2>4 DEF ShutdownOrder, AllDone, Ended
<1>6. CASE waitGroup
  BY <1>6 DEF ShutdownOrder, waitGroup, AllDone, Ended, loopVars, mainVars
<1>7. CASE waitForShutdown \/ stopLoops \/ stopMain
  BY <1>7 DEF ShutdownOrder, waitForShutdown, stopLoops, stopMain, Ended, loopVars, signalVars
<1>8. CASE closeShutdown \/ OnShutdown
  <2>1. serve \in Ended \ {"returned"} /\ serve' \in Ended
    BY <1>8 DEF closeShutdown, OnShutdown, Ended
  <2>2. UNCHANGED <<failed, sig, loop, kq, main>>
    BY <1>8 DEF closeShutdown, OnShutdown, signalVars, loopVars, mainVars
  <2>3. AllDone' = AllDone
    BY <2>2 DEF AllDone
  <2> QED
    BY <2>1, <2>2, <2>3 DEF ShutdownOrder, Ended
<1> QED
  BY <1>1, <1>2, <1>3, <1>4, <1>5, <1>6, <1>7, <1>8 DEF Serve

LEMMA StepOrder ==
  ASSUME TypeOK, ShutdownOrder, [Next]_vars
  PROVE  ShutdownOrder'
<1>1. loop \in [Loops -> LoopPlaces]
  BY DEF TypeOK
<1>2. CASE Serve
  BY <1>2, ServeOrder
<1>3. CASE Interrupt \/ ReceiveInterrupt \/ SignalInterrupt
  BY <1>3, OrderKept DEF Interrupt, ReceiveInterrupt, SignalInterrupt, signalShutdown,
     loopVars, mainVars
<1>4. ASSUME NEW l \in Loops, EventLoop(l) \/ CallbackFails(l) PROVE ShutdownOrder'
  <2>1. UNCHANGED <<failed, sig, kq, main>>
    BY <1>4 DEF EventLoop, StartLoop, StopJob, TickJob, ExitLoop, SignalLoop, LeaveLoop,
       CallbackFails, signalVars, mainVars
  <2>2. serve' = serve \/ (serve = "waiting" /\ serve' = "stopping")
    BY <1>4 DEF EventLoop, StartLoop, StopJob, TickJob, ExitLoop, SignalLoop, LeaveLoop,
       CallbackFails, signalShutdown
  <2>3. \A k \in Loops : loop[k] = "done" => loop'[k] = "done"
    BY <1>1, <1>4 DEF EventLoop, StartLoop, StopJob, TickJob, ExitLoop, SignalLoop, LeaveLoop,
       CallbackFails, NextJob, Polling
  <2> QED
    BY <2>1, <2>2, <2>3, OrderKept
<1>5. ASSUME NEW l \in Loops, Ticker(l) PROVE ShutdownOrder'
  <2>1. UNCHANGED <<failed, serve, sig, kq, main, loop>>
    BY <1>5 DEF Ticker, TriggerTick, ReceiveDelay, Sleep, signalVars, mainVars, loopVars
  <2> QED
    BY <2>1, OrderKept
<1>6. CASE MainReactor \/ AcceptFails \/ Renumber
  <2>1. UNCHANGED <<failed, sig, kq, loop>>
    BY <1>6 DEF MainReactor, StopMainJob, SignalMain, LeaveMain, AcceptFails, Renumber,
       signalVars, loopVars
  <2>2. serve' = serve \/ (serve = "waiting" /\ serve' = "stopping")
    BY <1>6 DEF MainReactor, StopMainJob, SignalMain, LeaveMain, AcceptFails, Renumber,
       signalShutdown
  <2>3. main \in {"none", "done"} => main' = main
    BY <1>6 DEF MainReactor, StopMainJob, SignalMain, LeaveMain, AcceptFails, Renumber,
       mainVars
  <2> QED
    BY <2>1, <2>2, <2>3, OrderKept
<1>7. CASE UNCHANGED vars
  <2>1. UNCHANGED <<failed, serve, sig, kq, main, loop>>
    BY <1>7 DEF vars, signalVars, mainVars, loopVars
  <2> QED
    BY <2>1, OrderKept
<1> QED
  BY <1>2, <1>3, <1>4, <1>5, <1>6, <1>7 DEF Next

\* For every number of loops, whatever made the server stop and whichever
\* goroutine signalled first: OnShutdown is called after every event loop and the
\* main reactor have ended, and no poller is closed under the loop that polls it,
\* unless the start has failed.
THEOREM ShutdownIsLast == Spec => []OnShutdownLast
<1>1. Init => ShutdownOrder
  BY InitOrder
<1>2. TypeOK /\ ShutdownOrder /\ [Next]_vars => ShutdownOrder'
  BY StepOrder
<1>3. ShutdownOrder => OnShutdownLast
  BY DEF ShutdownOrder, OnShutdownLast, Ended, AllDone
<1> QED
  BY <1>1, <1>2, <1>3, TypeCorrect, PTL DEF Spec

-----------------------------------------------------------------------------
(* The channel of the ticker.  As long as the loops keep their numbers, the  *)
(* first loop is the only one with a ticker: no other is sent its jobs, and  *)
(* the channel is open until that loop has left its Polling.                 *)

FirstLoopTicks ==
  StableIndex =>
    /\ \A l \in Loops : idx[l] = l - 1
    /\ \A l \in Loops \ {1} : tick[l] = "none" /\ jobs[l] \in Seq({"stop"})
    /\ ticktock.closed => loop[1] \in {"signal", "leaving", "done"}
    /\ fate \notin {"sent on closed", "closed twice"}

LEMMA InitTicks == Init => FirstLoopTicks
<1> SUFFICES ASSUME Init PROVE FirstLoopTicks
  OBVIOUS
<1>1. \A l \in Loops : idx[l] = l - 1 /\ tick[l] = "none" /\ jobs[l] = <<>>
  BY DEF Init
<1>2. \A l \in Loops : jobs[l] \in Seq({"stop"})
  BY <1>1, EmptySeq
<1>3. ~ticktock.closed /\ fate = "alive"
  BY DEF Init
<1> QED
  BY <1>1, <1>2, <1>3 DEF FirstLoopTicks

\* With SO_REUSEPORT every loop has a listener, and there is no main reactor; no
\* loop runs before activateLoops.
StartOrder ==
  /\ opts.reusePort => serve # "main" /\ main = "none"
  /\ serve \in {"init", "open"} => \A l \in Loops : loop[l] = "none"

\* The options are never assigned, and only the least-connections set renumbers,
\* when the main reactor asks it for the next loop.
LEMMA StableStep ==
  ASSUME StartOrder, [Next]_vars
  PROVE  opts' = opts /\ (StableIndex => idx' = idx)
<1>1. CASE Serve
  BY <1>1 DEF Serve, OnInitComplete, activateLoops, activateMainReactor, startFailed,
     waitForShutdown, stopLoops, stopMain, waitGroup, closeLoops, closeShutdown, OnShutdown,
     loopVars, numbering
<1>2. CASE Interrupt \/ ReceiveInterrupt \/ SignalInterrupt
  BY <1>2 DEF Interrupt, ReceiveInterrupt, SignalInterrupt, loopVars, numbering
<1>3. ASSUME NEW l \in Loops, EventLoop(l) \/ CallbackFails(l)
      PROVE  opts' = opts /\ (StableIndex => idx' = idx)
  BY <1>3 DEF EventLoop, StartLoop, StopJob, TickJob, ExitLoop, SignalLoop, LeaveLoop,
     CallbackFails, numbering
<1>4. ASSUME NEW l \in Loops, Ticker(l) PROVE opts' = opts /\ (StableIndex => idx' = idx)
  BY <1>4 DEF Ticker, TriggerTick, ReceiveDelay, Sleep, loopVars, numbering
<1>5. CASE MainReactor \/ AcceptFails
  BY <1>5 DEF MainReactor, StopMainJob, SignalMain, LeaveMain, AcceptFails, loopVars, numbering
<1>6. CASE Renumber
  <2>1. ASSUME StableIndex PROVE idx' = idx
    BY <1>6, <2>1 DEF Renumber, StableIndex, StartOrder
  <2> QED
    BY <1>6, <2>1 DEF Renumber
<1>7. CASE UNCHANGED vars
  BY <1>7 DEF vars, loopVars, numbering
<1> QED
  BY <1>1, <1>2, <1>3, <1>4, <1>5, <1>6, <1>7 DEF Next

LEMMA StepStart ==
  ASSUME TypeOK, StartOrder, [Next]_vars
  PROVE  StartOrder'
<1>1. opts' = opts
  BY StableStep
<1>2. CASE Serve
  <2>1. ASSUME opts.reusePort PROVE serve' # "main" /\ main' = "none"
    BY <1>2, <2>1 DEF StartOrder, Serve, OnInitComplete, activateLoops, activateMainReactor,
       startFailed, waitForShutdown, stopLoops, stopMain, waitGroup, closeLoops, closeShutdown,
       OnShutdown, mainVars
  <2>2. ASSUME serve' \in {"init", "open"} PROVE loop' = loop /\ serve = "init"
    BY <1>2, <2>2 DEF Serve, OnInitComplete, activateLoops, activateMainReactor,
       startFailed, waitForShutdown, stopLoops, stopMain, waitGroup, closeLoops, closeShutdown,
       OnShutdown, loopVars
  <2> QED
    BY <1>1, <2>1, <2>2 DEF StartOrder
<1>3. ASSUME UNCHANGED <<loop, main>>,
             serve' = serve \/ (serve = "waiting" /\ serve' = "stopping")
      PROVE  StartOrder'
  BY <1>1, <1>3 DEF StartOrder
<1>4. CASE Interrupt \/ ReceiveInterrupt \/ SignalInterrupt
  BY <1>3, <1>4 DEF Interrupt, ReceiveInterrupt, SignalInterrupt, signalShutdown, mainVars,
     loopVars
<1>5. ASSUME NEW l \in Loops, EventLoop(l) \/ CallbackFails(l) PROVE StartOrder'
  <2>1. main' = main /\ loop[l] # "none"
    BY <1>5 DEF EventLoop, StartLoop, StopJob, TickJob, ExitLoop, SignalLoop, LeaveLoop,
       CallbackFails, NextJob, Polling, mainVars
  <2>2. serve' = serve \/ (serve = "waiting" /\ serve' = "stopping")
    BY <1>5 DEF EventLoop, StartLoop, StopJob, TickJob, ExitLoop, SignalLoop, LeaveLoop,
       CallbackFails, signalShutdown
  <2> QED
    BY <1>1, <2>1, <2>2 DEF StartOrder
<1>6. ASSUME NEW l \in Loops, Ticker(l) PROVE StartOrder'
  BY <1>3, <1>6 DEF Ticker, TriggerTick, ReceiveDelay, Sleep, mainVars, loopVars
<1>7. CASE MainReactor \/ AcceptFails \/ Renumber
  <2>1. loop' = loop /\ (opts.reusePort => main # "none")
    BY <1>7 DEF MainReactor, StopMainJob, SignalMain, LeaveMain, AcceptFails, Renumber, loopVars
  <2>2. serve' = serve \/ (serve = "waiting" /\ serve' = "stopping")
    BY <1>7 DEF MainReactor, StopMainJob, SignalMain, LeaveMain, AcceptFails, Renumber,
       signalShutdown
  <2> QED
    BY <1>1, <2>1, <2>2 DEF StartOrder
<1>8. CASE UNCHANGED vars
  BY <1>3, <1>8 DEF vars, mainVars, loopVars
<1> QED
  BY <1>2, <1>4, <1>5, <1>6, <1>7, <1>8 DEF Next

\* A step that does not touch the ticker of a loop, its jobs or its channel.
LEMMA TicksKept ==
  ASSUME FirstLoopTicks, StartOrder, [Next]_vars, UNCHANGED <<tick, jobs, ticktock>>,
         fate' = fate \/ fate' = "interrupt",
         loop[1] \in {"signal", "leaving", "done"} => loop'[1] \in {"signal", "leaving", "done"}
  PROVE  FirstLoopTicks'
<1>1. opts' = opts /\ (StableIndex => idx' = idx) /\ StableIndex' = StableIndex
  BY StableStep DEF StableIndex
<1> QED
  BY <1>1 DEF FirstLoopTicks

LEMMA FirstLoop == 1 \in Loops /\ \A l \in Loops : l \in Int
BY ServerAssumption DEF Loops

\* A step of an event loop: the first one closes the channel and is then done.
LEMMA EventLoopTicks ==
  ASSUME TypeOK, StartOrder, FirstLoopTicks, [Next]_vars,
         NEW l \in Loops, EventLoop(l) \/ CallbackFails(l)
  PROVE  FirstLoopTicks'
<1>1. opts' = opts /\ (StableIndex => idx' = idx) /\ StableIndex' = StableIndex
  BY StableStep DEF StableIndex
<1>2. /\ loop \in [Loops -> LoopPlaces] /\ ticktock \in Chan /\ 1 \in Loops
      /\ tick \in [Loops -> TickPlaces] /\ jobs \in [Loops -> Seq({"tick", "stop"})]
  BY FirstLoop DEF TypeOK
<1>3. StableIndex /\ HasTicker(l) => l = 1
  <2>1. StableIndex /\ HasTicker(l) => l - 1 = 0
    BY DEF FirstLoopTicks, HasTicker
  <2> QED
    BY <2>1, FirstLoop
<1>4. ASSUME NEW j, NextJob(l, j), StableIndex
      PROVE  /\ \A k \in Loops \ {1} : jobs'[k] \in Seq({"stop"})
             /\ l = 1 \/ j = "stop"
  <2>1. jobs[l] # <<>> /\ j = Head(jobs[l]) /\ jobs' = [jobs EXCEPT ![l] = Tail(jobs[l])]
    BY <1>4 DEF NextJob
  <2>2. CASE l = 1
    BY <1>2, <1>4, <2>1, <2>2 DEF FirstLoopTicks
  <2>3. CASE l # 1
    <3>1. jobs[l] \in Seq({"stop"})
      BY <1>4, <2>3 DEF FirstLoopTicks
    <3>2. Head(jobs[l]) \in {"stop"} /\ Tail(jobs[l]) \in Seq({"stop"})
      BY <2>1, <3>1, HeadTailProperties
    <3> QED
      BY <1>2, <1>4, <2>1, <3>2 DEF FirstLoopTicks
  <2> QED
    BY <2>2, <2>3
<1>5. CASE StartLoop(l)
  <2>1. /\ loop[l] = "started" /\ loop' = [loop EXCEPT ![l] = "polling"]
        /\ tick' = [tick EXCEPT ![l] = IF HasTicker(l) THEN "trigger" ELSE tick[l]]
        /\ UNCHANGED <<jobs, ticktock, fate>>
    BY <1>5 DEF StartLoop
  <2>2. StableIndex => \A k \in Loops \ {1} : tick'[k] = "none"
    BY <1>2, <1>3, <2>1 DEF FirstLoopTicks
  <2>3. loop[1] \in {"signal", "leaving", "done"} => loop'[1] = loop[1]
    BY <1>2, <2>1
  <2> QED
    BY <1>1, <2>1, <2>2, <2>3 DEF FirstLoopTicks
<1>6. CASE CallbackFails(l) \/ SignalLoop(l) \/ LeaveLoop(l)
  <2>1. UNCHANGED <<tick, jobs, ticktock, fate>>
    BY <1>6 DEF CallbackFails, SignalLoop, LeaveLoop, tickVars
  <2>2. loop[1] \in {"signal", "leaving", "done"} => loop'[1] \in {"signal", "leaving", "done"}
    BY <1>2, <1>6 DEF CallbackFails, SignalLoop, LeaveLoop, Polling
  <2> QED
    BY <2>1, <2>2, TicksKept
<1>7. CASE StopJob(l)
  <2>1. UNCHANGED <<tick, ticktock, fate>> /\ NextJob(l, "stop")
    BY <1>7 DEF StopJob, tickVars
  <2>2. loop[1] \in {"signal", "leaving", "done"} => loop'[1] = loop[1]
    BY <1>2, <1>7 DEF StopJob, NextJob, Polling
  <2> QED
    BY <1>1, <1>4, <2>1, <2>2 DEF FirstLoopTicks
<1>8. CASE TickJob(l)
  <2>1. tick' = tick /\ NextJob(l, "tick") /\ loop[l] = "polling"
    BY <1>8 DEF TickJob, NextJob, Polling
  <2> SUFFICES ASSUME StableIndex PROVE FirstLoopTicks'
    BY <1>1 DEF FirstLoopTicks
  <2>2. l = 1
    BY <1>4, <2>1
  <2>5. ~ticktock.closed
    BY <2>1, <2>2 DEF FirstLoopTicks
  <2>3. fate' = fate /\ ticktock' = Send(ticktock)
    BY <1>8, <2>5 DEF TickJob
  <2>4. ~ticktock'.closed
    BY <1>2, <2>5, <2>3, ChannelTypes
  <2> QED
    BY <1>1, <1>4, <2>1, <2>3, <2>4 DEF FirstLoopTicks
<1>9. CASE ExitLoop(l)
  <2>1. UNCHANGED <<tick, jobs>> /\ loop[l] = "exit"
    BY <1>9 DEF ExitLoop
  <2> SUFFICES ASSUME StableIndex PROVE FirstLoopTicks'
    BY <1>1 DEF FirstLoopTicks
  <2>2. HasTicker(l) => l = 1 /\ ~ticktock.closed
    BY <1>3, <2>1 DEF FirstLoopTicks
  <2>3. /\ fate' = fate /\ loop' = [loop EXCEPT ![l] = "signal"]
        /\ ticktock' = IF HasTicker(l) THEN Close(ticktock) ELSE ticktock
    BY <1>9, <2>2 DEF ExitLoop
  <2>4. loop'[1] = IF l = 1 THEN "signal" ELSE loop[1]
    BY <1>2, <2>3
  <2>5. ticktock'.closed => loop'[1] \in {"signal", "leaving", "done"}
    BY <2>2, <2>3, <2>4 DEF FirstLoopTicks
  <2> QED
    BY <1>1, <2>1, <2>3, <2>5 DEF FirstLoopTicks
<1> QED
  BY <1>5, <1>6, <1>7, <1>8, <1>9 DEF EventLoop

LEMMA TickerTicks ==
  ASSUME TypeOK, StartOrder, FirstLoopTicks, [Next]_vars, NEW l \in Loops, Ticker(l)
  PROVE  FirstLoopTicks'
<1>1. opts' = opts /\ (StableIndex => idx' = idx) /\ StableIndex' = StableIndex
  BY StableStep DEF StableIndex
<1>2. /\ ticktock \in Chan /\ 1 \in Loops
      /\ tick \in [Loops -> TickPlaces] /\ jobs \in [Loops -> Seq({"tick", "stop"})]
  BY FirstLoop DEF TypeOK
<1>3. UNCHANGED <<loop, fate>>
  BY DEF Ticker, TriggerTick, ReceiveDelay, Sleep, loopVars
<1> SUFFICES ASSUME StableIndex PROVE FirstLoopTicks'
  BY <1>1 DEF FirstLoopTicks
<1>4. l = 1
  BY DEF FirstLoopTicks, Ticker, TriggerTick, ReceiveDelay, Sleep
<1>5. \A k \in Loops \ {1} : tick'[k] = tick[k] /\ jobs'[k] = jobs[k]
  BY <1>2, <1>4 DEF Ticker, TriggerTick, ReceiveDelay, Sleep, loopVars
<1>6. ticktock'.closed = ticktock.closed
  BY <1>2, ChannelTypes DEF Ticker, TriggerTick, ReceiveDelay, Sleep
<1> QED
  BY <1>1, <1>3, <1>5, <1>6 DEF FirstLoopTicks

LEMMA ServeTicks ==
  ASSUME TypeOK, StartOrder, FirstLoopTicks, [Next]_vars, Serve
  PROVE  FirstLoopTicks'
<1>1. opts' = opts /\ (StableIndex => idx' = idx) /\ StableIndex' = StableIndex
  BY StableStep DEF StableIndex
<1>2. UNCHANGED <<tick, ticktock, fate>>
  BY DEF Serve, OnInitComplete, activateLoops, activateMainReactor, startFailed,
     waitForShutdown, stopLoops, stopMain, waitGroup, closeLoops, closeShutdown, OnShutdown,
     tickVars
<1>3. CASE stopLoops
  <2>1. \A l \in Loops : jobs[l] \in Seq({"stop"}) => jobs'[l] \in Seq({"stop"})
    BY <1>3, AppendProperties DEF stopLoops
  <2>2. loop' = loop
    BY <1>3 DEF stopLoops
  <2> QED
    BY <1>1, <1>2, <2>1, <2>2 DEF FirstLoopTicks
<1>4. CASE activateLoops
  <2>1. jobs' = jobs /\ loop[1] = "none"
    BY <1>4, ServerAssumption DEF activateLoops, StartOrder, Loops
  <2> QED
    BY <1>2, <2>1, TicksKept
<1>5. CASE ~stopLoops /\ ~activateLoops
  <2>1. UNCHANGED <<jobs, loop>>
    BY <1>5 DEF Serve, OnInitComplete, activateMainReactor, startFailed,
       waitForShutdown, stopMain, waitGroup, closeLoops, closeShutdown, OnShutdown, loopVars
  <2> QED
    BY <1>2, <2>1, TicksKept
<1> QED
  BY <1>3, <1>4, <1>5

LEMMA StepTicks ==
  ASSUME TypeOK, StartOrder, FirstLoopTicks, [Next]_vars
  PROVE  FirstLoopTicks'
<1>1. CASE Interrupt \/ ReceiveInterrupt \/ SignalInterrupt
  <2>1. UNCHANGED <<tick, jobs, ticktock, loop>> /\ (fate' = fate \/ fate' = "interrupt")
    BY <1>1 DEF Interrupt, ReceiveInterrupt, SignalInterrupt, loopVars, tickVars
  <2> QED
    BY <2>1, TicksKept
<1>2. CASE MainReactor \/ AcceptFails \/ Renumber \/ UNCHANGED vars
  <2>1. UNCHANGED <<tick, jobs, ticktock, loop, fate>>
    BY <1>2 DEF MainReactor, StopMainJob, SignalMain, LeaveMain, AcceptFails, Renumber, vars,
       loopVars, tickVars
  <2> QED
    BY <2>1, TicksKept
<1> QED
  BY <1>1, <1>2, ServeTicks, EventLoopTicks, TickerTicks DEF Next

\* For every number of loops that keep their numbers: the channel of the ticker is
\* closed once, and no tick is sent after that, in whatever order the loops start,
\* run their jobs and end.
THEOREM TickerChannelSafe == Spec => []TicktockClosedOnce
<1>1. Init => StartOrder /\ FirstLoopTicks
  BY InitTicks DEF Init, StartOrder
<1>2. TypeOK /\ StartOrder /\ FirstLoopTicks /\ [Next]_vars => StartOrder' /\ FirstLoopTicks'
  BY StepStart, StepTicks
<1>3. FirstLoopTicks => TicktockClosedOnce
  BY DEF FirstLoopTicks, TicktockClosedOnce
<1> QED
  BY <1>1, <1>2, <1>3, TypeCorrect, PTL DEF Spec

=============================================================================
