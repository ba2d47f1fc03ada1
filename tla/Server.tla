------------------------------- MODULE Server --------------------------------
(***************************************************************************)
(* The life of a gnet server, from Serve (src/gnet/gnet.go) and serve      *)
(* (src/gnet/server_unix.go) to the return of both: its goroutines are the *)
(* caller of Serve, the one that waits for an interrupt, the event loops   *)
(* (reactor_bsd.go or, with SO_REUSEPORT, eventloop_unix.go), the main     *)
(* reactor and the ticker.                                                 *)
(*                                                                         *)
(* Connections are left to Acceptor and Connection: here a callback of a   *)
(* loop may end it at any time. The jobs of a poller are the sequence that *)
(* JobExecutor specifies. What serve does without another goroutine being  *)
(* able to tell is one step, a loop over the event loops for instance.     *)
(***************************************************************************)
EXTENDS Integers, Sequences, FiniteSets, Functions

CONSTANTS NumEventLoop,  \* the number of event loops
          MaxRenumber,   \* bound on the times that the loops are renumbered
          OptionSet      \* the options that Serve may be called with

Options == [reusePort : BOOLEAN, ticker : BOOLEAN,
            balancer : {"RoundRobin", "LeastConnections", "SourceAddrHash"}]

ASSUME ServerAssumption ==
  /\ NumEventLoop \in Nat \ {0}
  /\ MaxRenumber \in Nat
  /\ OptionSet \subseteq Options

Loops == 1..NumEventLoop

VARIABLES
  opts,       \* svr.opts
  serve,      \* where the caller of Serve is
  failed,     \* start has returned an error
  interrupt,  \* the channel shutdown: [n, closed]; closed before Notify as well
  sig,        \* where the goroutine is that receives from it
  fired,      \* svr.once is done
  loop,       \* where each event loop is
  idx,        \* el.idx
  renumbered, \* how often these were changed
  jobs,       \* the jobs of each loop's poller
  kq,         \* each loop's kqueue
  main,       \* where the main reactor is
  mainJobs,   \* the jobs of its poller
  listening,  \* the listener is open
  tick,       \* where the ticker started by each loop is
  ticktock,   \* svr.ticktock: [n, closed]
  fate        \* "alive", or what the process panicked on

signalVars == <<interrupt, sig>>
numbering  == <<idx, renumbered>>
loopVars   == <<loop, numbering, jobs, kq>>
mainVars   == <<main, mainJobs, listening>>
tickVars   == <<tick, ticktock>>
vars == <<opts, serve, failed, signalVars, fired, loopVars, mainVars, tickVars, fate>>

Chan == [n : 0..1, closed : BOOLEAN]
ServePlaces == {"init", "open", "main", "failed", "wait", "waiting", "stopping",
                "stopmain", "wg", "close", "deferred", "onshutdown", "returned"}
LoopPlaces == {"none", "started", "polling", "exit", "signal", "leaving", "done"}
TickPlaces == {"none", "trigger", "receive", "sleep", "done"}

Init ==
  /\ opts \in OptionSet
  /\ serve = "init"
  /\ failed = FALSE
  /\ interrupt = [n |-> 0, closed |-> FALSE]
  /\ sig = "none"
  /\ fired = FALSE
  /\ loop = [l \in Loops |-> "none"]
  /\ idx = [l \in Loops |-> l - 1]
  /\ renumbered = 0
  /\ jobs = [l \in Loops |-> <<>>]
  /\ kq = [l \in Loops |-> "none"]
  /\ main = "none"
  /\ mainJobs = <<>>
  /\ listening = TRUE
  /\ tick = [l \in Loops |-> "none"]
  /\ ticktock = [n |-> 0, closed |-> FALSE]
  /\ fate = "alive"

Send(c) == [c EXCEPT !.n = 1]
Receive(c) == [c EXCEPT !.n = 0]
Close(c) == [c EXCEPT !.closed = TRUE]

-----------------------------------------------------------------------------
(* signalShutdown and waitForShutdown.                                     *)

\* The Once lets only the first call signal, and a Signal wakes only who waits
\* at that time: before waitForShutdown it is lost.
signalShutdown ==
  /\ fired' = TRUE
  /\ serve' = IF ~fired /\ serve = "waiting" THEN "stopping" ELSE serve

\* cond.Wait, which joins the waiters before it lets go of the lock.
waitForShutdown ==
  /\ serve = "wait"
  /\ serve' = "waiting"
  /\ UNCHANGED <<opts, failed, signalVars, fired, loopVars, mainVars, tickVars, fate>>

-----------------------------------------------------------------------------
(* The caller of Serve.                                                    *)

\* OnInitComplete may return Shutdown; otherwise interrupts are asked for.
OnInitComplete ==
  /\ serve = "init"
  /\ \/ /\ serve' = "returned"
        /\ listening' = FALSE
        /\ UNCHANGED sig
     \/ /\ serve' = "open"
        /\ sig' = "receive"
        /\ UNCHANGED listening
  /\ UNCHANGED <<opts, failed, interrupt, fired, loopVars, main, mainJobs, tickVars, fate>>

\* OpenPoller and register for each loop, then startReactors or startLoops;
\* when a poller cannot be opened no loop has been started.
activateLoops ==
  /\ serve = "open"
  /\ \/ /\ kq' = [l \in Loops |-> "open"]
        /\ loop' = [l \in Loops |-> "started"]
        /\ serve' = IF opts.reusePort THEN "wait" ELSE "main"
        /\ UNCHANGED failed
     \/ \E opened \in 0..(NumEventLoop - 1) :
        /\ kq' = [l \in Loops |-> IF l <= opened THEN "open" ELSE "none"]
        /\ serve' = "failed"
        /\ failed' = TRUE
        /\ UNCHANGED loop
  /\ UNCHANGED <<opts, signalVars, fired, numbering, jobs, mainVars, tickVars, fate>>

\* The end of activateReactors: the poller of the main reactor.
activateMainReactor ==
  /\ serve = "main"
  /\ \/ /\ main' = "polling"
        /\ serve' = "wait"
        /\ UNCHANGED failed
     \/ /\ serve' = "failed"
        /\ failed' = TRUE
        /\ UNCHANGED main
  /\ UNCHANGED <<opts, signalVars, fired, loopVars, mainJobs, listening, tickVars, fate>>

ClosedAll == [l \in Loops |-> IF kq[l] = "open" THEN "closed" ELSE kq[l]]

\* serve, when start has failed: closeLoops, even under loops that run.
startFailed ==
  /\ serve = "failed"
  /\ kq' = ClosedAll
  /\ serve' = "deferred"
  /\ UNCHANGED <<opts, failed, signalVars, fired, loop, numbering, jobs, mainVars, tickVars, fate>>

\* stop: errServerShutdown is triggered on every loop.
stopLoops ==
  /\ serve = "stopping"
  /\ jobs' = [l \in Loops |-> Append(jobs[l], "stop")]
  /\ serve' = IF opts.reusePort THEN "wg" ELSE "stopmain"
  /\ UNCHANGED <<opts, failed, signalVars, fired, loop, numbering, kq, mainVars, tickVars, fate>>

\* Mutant of stopMain: the main reactor is not told.
closeListenerOnly ==
  /\ serve = "stopmain"
  /\ listening' = FALSE
  /\ serve' = "wg"
  /\ UNCHANGED <<opts, failed, signalVars, fired, loopVars, main, mainJobs, tickVars, fate>>

\* stop: ln.close, and errServerShutdown on the main reactor.
stopMain ==
  /\ serve = "stopmain"
  /\ listening' = FALSE
  /\ mainJobs' = Append(mainJobs, "stop")
  /\ serve' = "wg"
  /\ UNCHANGED <<opts, failed, signalVars, fired, loopVars, main, tickVars, fate>>

\* Mutant of AllDone: the main reactor is not in the wait group.
LoopsDone == \A l \in Loops : loop[l] = "done"

AllDone == (\A l \in Loops : loop[l] = "done") /\ main \in {"none", "done"}

\* stop: svr.wg.Wait.
waitGroup ==
  /\ serve = "wg"
  /\ AllDone
  /\ serve' = "close"
  /\ UNCHANGED <<opts, failed, signalVars, fired, loopVars, mainVars, tickVars, fate>>

\* stop: closeLoops, and the poller of the main reactor.
closeLoops ==
  /\ serve = "close"
  /\ kq' = ClosedAll
  /\ serve' = "deferred"
  /\ UNCHANGED <<opts, failed, signalVars, fired, loop, numbering, jobs, mainVars, tickVars, fate>>

\* defer close(shutdown)
closeShutdown ==
  /\ serve = "deferred"
  /\ interrupt' = Close(interrupt)
  /\ serve' = "onshutdown"
  /\ UNCHANGED <<opts, failed, sig, fired, loopVars, mainVars, tickVars, fate>>

\* defer OnShutdown, and then the ln.close that Serve has deferred.
OnShutdown ==
  /\ serve = "onshutdown"
  /\ listening' = FALSE
  /\ serve' = "returned"
  /\ UNCHANGED <<opts, failed, signalVars, fired, loopVars, main, mainJobs, tickVars, fate>>

Serve ==
  \/ OnInitComplete \/ activateLoops \/ activateMainReactor \/ startFailed
  \/ waitForShutdown \/ stopLoops \/ stopMain \/ waitGroup \/ closeLoops
  \/ closeShutdown \/ OnShutdown

-----------------------------------------------------------------------------
(* The goroutine that waits for an interrupt.                              *)

\* The process gets SIGINT or SIGTERM: os/signal sends without blocking, on a
\* channel that nobody has taken back with signal.Stop.
Interrupt ==
  /\ sig # "none"
  /\ IF interrupt.closed
       THEN fate' = "interrupt" /\ UNCHANGED interrupt
       ELSE interrupt' = Send(interrupt) /\ UNCHANGED fate
  /\ UNCHANGED <<opts, serve, failed, sig, fired, loopVars, mainVars, tickVars>>

ReceiveInterrupt ==
  /\ sig = "receive"
  /\ interrupt.n = 1 \/ interrupt.closed
  /\ sig' = IF interrupt.n = 1 THEN "signal" ELSE "done"
  /\ interrupt' = Receive(interrupt)
  /\ UNCHANGED <<opts, serve, failed, fired, loopVars, mainVars, tickVars, fate>>

SignalInterrupt ==
  /\ sig = "signal"
  /\ signalShutdown
  /\ sig' = "done"
  /\ UNCHANGED <<opts, failed, interrupt, loopVars, mainVars, tickVars, fate>>

-----------------------------------------------------------------------------
(* An event loop: activateSubReactor and loopRun.                          *)

\* Mutant of HasTicker: the index is not looked at.
EveryLoop(l) == opts.ticker

HasTicker(l) == idx[l] = 0 /\ opts.ticker

StartLoop(l) ==
  /\ loop[l] = "started"
  /\ loop' = [loop EXCEPT ![l] = "polling"]
  /\ tick' = [tick EXCEPT ![l] = IF HasTicker(l) THEN "trigger" ELSE @]
  /\ UNCHANGED <<opts, serve, failed, signalVars, fired, numbering, jobs, kq, mainVars, ticktock, fate>>

\* With its kqueue closed, Polling goes round without ever running anything.
Polling(l) == loop[l] = "polling" /\ kq[l] = "open"

\* A callback has returned an error: Shutdown by the event handler, or an error
\* of accept.
CallbackFails(l) ==
  /\ Polling(l)
  /\ loop' = [loop EXCEPT ![l] = "exit"]
  /\ UNCHANGED <<opts, serve, failed, signalVars, fired, numbering, jobs, kq, mainVars, tickVars, fate>>

NextJob(l, j) ==
  /\ Polling(l)
  /\ jobs[l] # <<>> /\ Head(jobs[l]) = j
  /\ jobs' = [jobs EXCEPT ![l] = Tail(@)]

\* The job of stop.
StopJob(l) ==
  /\ NextJob(l, "stop")
  /\ loop' = [loop EXCEPT ![l] = "exit"]
  /\ UNCHANGED <<opts, serve, failed, signalVars, fired, numbering, kq, mainVars, tickVars, fate>>

\* The job of loopTicker: Tick, and its delay into a channel that has room for
\* one; Tick may return Shutdown.
TickJob(l) ==
  /\ NextJob(l, "tick")
  /\ IF ticktock.closed
       THEN fate' = "sent on closed" /\ UNCHANGED <<loop, ticktock>>
       ELSE /\ ticktock.n = 0
            /\ ticktock' = Send(ticktock)
            /\ loop' \in {loop, [loop EXCEPT ![l] = "exit"]}
            /\ UNCHANGED fate
  /\ UNCHANGED <<opts, serve, failed, signalVars, fired, numbering, kq, mainVars, tick>>

\* The deferred function: closeAllConns, and close(ticktock).
ExitLoop(l) ==
  /\ loop[l] = "exit"
  /\ IF HasTicker(l) /\ ticktock.closed
       THEN fate' = "closed twice" /\ UNCHANGED <<loop, ticktock>>
       ELSE /\ loop' = [loop EXCEPT ![l] = "signal"]
            /\ ticktock' = IF HasTicker(l) THEN Close(ticktock) ELSE ticktock
            /\ UNCHANGED fate
  /\ UNCHANGED <<opts, serve, failed, signalVars, fired, numbering, jobs, kq, mainVars, tick>>

SignalLoop(l) ==
  /\ loop[l] = "signal"
  /\ signalShutdown
  /\ loop' = [loop EXCEPT ![l] = "leaving"]
  /\ UNCHANGED <<opts, failed, signalVars, numbering, jobs, kq, mainVars, tickVars, fate>>

\* svr.wg.Done
LeaveLoop(l) ==
  /\ loop[l] = "leaving"
  /\ loop' = [loop EXCEPT ![l] = "done"]
  /\ UNCHANGED <<opts, serve, failed, signalVars, fired, numbering, jobs, kq, mainVars, tickVars, fate>>

EventLoop(l) ==
  StartLoop(l) \/ StopJob(l) \/ TickJob(l) \/ ExitLoop(l) \/ SignalLoop(l) \/ LeaveLoop(l)

-----------------------------------------------------------------------------
(* The main reactor.                                                       *)

\* acceptNewConnection returns an error, at any time when descriptors run out
\* and always once the listener is closed.
AcceptFails ==
  /\ main = "polling"
  /\ main' = "signal"
  /\ UNCHANGED <<opts, serve, failed, signalVars, fired, loopVars, mainJobs, listening, tickVars, fate>>

\* Mutant of Renumber: a swap changes one of the two numbers.
SwapHalf ==
  /\ main = "polling"
  /\ opts.balancer = "LeastConnections"
  /\ renumbered < MaxRenumber
  /\ renumbered' = renumbered + 1
  /\ \E l, k \in Loops : l # k /\ idx' = [idx EXCEPT ![l] = idx[k]]
  /\ UNCHANGED <<opts, serve, failed, signalVars, fired, loop, jobs, kq, mainVars, tickVars, fate>>

\* acceptNewConnection asks for the next loop, and the least-connections set
\* rebuilds its heap, which renumbers the loops.
Renumber ==
  /\ main = "polling"
  /\ opts.balancer = "LeastConnections"
  /\ renumbered < MaxRenumber
  /\ renumbered' = renumbered + 1
  /\ idx' \in Bijection(Loops, 0..(NumEventLoop - 1)) \ {idx}
  /\ UNCHANGED <<opts, serve, failed, signalVars, fired, loop, jobs, kq, mainVars, tickVars, fate>>

StopMainJob ==
  /\ main = "polling"
  /\ mainJobs # <<>>
  /\ mainJobs' = Tail(mainJobs)
  /\ main' = "signal"
  /\ UNCHANGED <<opts, serve, failed, signalVars, fired, loopVars, listening, tickVars, fate>>

SignalMain ==
  /\ main = "signal"
  /\ signalShutdown
  /\ main' = "leaving"
  /\ UNCHANGED <<opts, failed, signalVars, loopVars, mainJobs, listening, tickVars, fate>>

LeaveMain ==
  /\ main = "leaving"
  /\ main' = "done"
  /\ UNCHANGED <<opts, serve, failed, signalVars, fired, loopVars, mainJobs, listening, tickVars, fate>>

MainReactor == StopMainJob \/ SignalMain \/ LeaveMain

-----------------------------------------------------------------------------
(* The ticker of loop l: loopTicker.                                       *)

\* Trigger fails if it has to wake a kqueue that is closed.
TriggerTick(l) ==
  /\ tick[l] = "trigger"
  /\ jobs' = [jobs EXCEPT ![l] = Append(@, "tick")]
  /\ tick' = [tick EXCEPT ![l] =
                IF jobs[l] = <<>> /\ kq[l] = "closed" THEN "done" ELSE "receive"]
  /\ UNCHANGED <<opts, serve, failed, signalVars, fired, loop, numbering, kq, mainVars, ticktock, fate>>

ReceiveDelay(l) ==
  /\ tick[l] = "receive"
  /\ ticktock.n = 1 \/ ticktock.closed
  /\ tick' = [tick EXCEPT ![l] = IF ticktock.n = 1 THEN "sleep" ELSE "done"]
  /\ ticktock' = Receive(ticktock)
  /\ UNCHANGED <<opts, serve, failed, signalVars, fired, loopVars, mainVars, fate>>

Sleep(l) ==
  /\ tick[l] = "sleep"
  /\ tick' = [tick EXCEPT ![l] = "trigger"]
  /\ UNCHANGED <<opts, serve, failed, signalVars, fired, loopVars, mainVars, ticktock, fate>>

Ticker(l) == TriggerTick(l) \/ ReceiveDelay(l) \/ Sleep(l)

-----------------------------------------------------------------------------
Next ==
  /\ fate = "alive"
  /\ \/ Serve
     \/ Interrupt \/ ReceiveInterrupt \/ SignalInterrupt
     \/ \E l \in Loops : EventLoop(l) \/ CallbackFails(l) \/ Ticker(l)
     \/ MainReactor \/ AcceptFails \/ Renumber

Spec == Init /\ [][Next]_vars

\* Every goroutine that can run does; interrupts, failures of callbacks and of
\* accept are up to the environment.
Fairness ==
  /\ WF_vars(fate = "alive" /\ Serve)
  /\ WF_vars(fate = "alive" /\ (ReceiveInterrupt \/ SignalInterrupt))
  /\ WF_vars(fate = "alive" /\ MainReactor)
  /\ \A l \in Loops : WF_vars(fate = "alive" /\ EventLoop(l)) /\ WF_vars(fate = "alive" /\ Ticker(l))

LiveSpec == Spec /\ Fairness

-----------------------------------------------------------------------------
(* Properties.                                                             *)

TypeOK ==
  /\ opts \in OptionSet
  /\ serve \in ServePlaces
  /\ failed \in BOOLEAN
  /\ interrupt \in Chan
  /\ sig \in {"none", "receive", "signal", "done"}
  /\ fired \in BOOLEAN
  /\ loop \in [Loops -> LoopPlaces]
  /\ idx \in Bijection(Loops, 0..(NumEventLoop - 1))
  /\ renumbered \in 0..MaxRenumber
  /\ jobs \in [Loops -> Seq({"tick", "stop"})]
  /\ kq \in [Loops -> {"none", "open", "closed"}]
  /\ main \in LoopPlaces
  /\ mainJobs \in Seq({"stop"})
  /\ listening \in BOOLEAN
  /\ tick \in [Loops -> TickPlaces]
  /\ ticktock \in Chan
  /\ fate \in {"alive", "interrupt", "sent on closed", "closed twice"}

\* OnShutdown is called after every event loop has ended and closed its
\* connections (gnet.go:116), the main reactor has ended too, and no poller is
\* closed under the loop that polls it (server_unix.go:152-158), whatever made
\* the server stop and whichever goroutine signalled first. A start that fails
\* with the loops running is the exception (server_unix.go:233-237).
OnShutdownLast ==
  ~failed =>
    /\ \A l \in Loops : kq[l] = "closed" => loop[l] = "done"
    /\ sig # "none" /\ serve \in {"deferred", "onshutdown", "returned"} =>
         main \in {"none", "done"} /\ \A l \in Loops : kq[l] = "closed"

\* The numbers of the loops do not change while the server runs.
StableIndex == opts.reusePort \/ opts.balancer # "LeastConnections"

\* The channel of the ticker is closed by one loop, once, and no tick is sent
\* after that, although starting the ticker, its jobs and the close are decided
\* by loops that end in any order (eventloop_unix.go:108-121, 132-138,
\* reactor_bsd.go:16-27); it takes loops that keep their numbers.
TicktockClosedOnce == StableIndex => fate \notin {"sent on closed", "closed twice"}

\* Once serve has been woken, Serve returns and the tickers end: no goroutine
\* of the server is left waiting for another (server_unix.go:135-159,
\* eventloop_unix.go:144-149), unless the process has died.
StopReturns ==
  serve = "stopping" ~>
    \/ fate # "alive"
    \/ /\ serve = "returned"
       /\ StableIndex => \A l \in Loops : tick[l] \in {"none", "done"}

=============================================================================
