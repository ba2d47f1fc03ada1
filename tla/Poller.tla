------------------------------- MODULE Poller --------------------------------
(***************************************************************************)
(* The poller of an event loop (src/gnet/internal/netpoll/kqueue.go,       *)
(* kqueue_events.go) and its queue of asynchronous jobs                    *)
(* (src/gnet/internal/queue.go): one goroutine polls, any other calls      *)
(* Trigger, and the kernel reports which file descriptors are ready.       *)
(*                                                                         *)
(* A step is one system call, one section under the spinlock of the queue, *)
(* one callback or one job.                                                *)
(***************************************************************************)
EXTENDS Integers, Sequences, FiniteSets, Functions

CONSTANTS Fds,         \* the file descriptors registered with the kqueue
          Jobs,        \* the jobs, with one call of Trigger each
          Failing,     \* the jobs that return an error
          Hanging,     \* descriptors on which the callback returns an error
          InitEvents,  \* InitEvents: 64 in the code
          User         \* the user event, whose Ident is 0

ASSUME PollerAssumption ==
  /\ IsFiniteSet(Fds)
  /\ User \notin Fds
  /\ Failing \subseteq Jobs
  /\ Hanging \subseteq Fds
  /\ InitEvents \in Nat

VARIABLES
  jobs,     \* q.jobs
  call,     \* where each call of Trigger is
  ready,    \* the kernel: the descriptors that are ready
  wake,     \* the kernel: whether the user event has been triggered
  poll,     \* where the polling goroutine is
  size,     \* el.size
  batch,    \* the events that Kevent returned and that are not handled yet
  full,     \* n == el.size
  wakenUp,  \* wakenUp
  todo,     \* ForEach: the jobs that were taken and have not been run
  ran       \* the jobs that have been run, in order

kernelVars == <<ready, wake>>
queueVars  == <<jobs, todo, ran>>
loopVars   == <<size, batch, full, wakenUp>>
vars == <<queueVars, call, kernelVars, poll, loopVars>>

CallStates == {"new", "push", "returned"}
PollStates == {"kevent", "events", "jobs", "grow", "returned"}

Init ==
  /\ jobs = <<>>
  /\ call = [j \in Jobs |-> "new"]
  /\ ready = {}
  /\ wake = FALSE
  /\ poll = "kevent"
  /\ size = InitEvents
  /\ batch = <<>>
  /\ full = FALSE
  /\ wakenUp = FALSE
  /\ todo = <<>>
  /\ ran = <<>>

-----------------------------------------------------------------------------
(* Trigger, by any goroutine.                                              *)

\* Mutant of FirstOf: the event is triggered when the queue was not empty.
NotFirstOf(q) == q # <<>>

\* Push returned 1.
FirstOf(q) == q = <<>>

\* Push: the caller goes on to trigger the event when its job is the only one.
Push(j) ==
  /\ call[j] = "new"
  /\ jobs' = Append(jobs, j)
  /\ call' = [call EXCEPT ![j] = IF FirstOf(jobs) THEN "push" ELSE "returned"]
  /\ UNCHANGED <<todo, ran, kernelVars, poll, loopVars>>

\* Kevent(wakeChanges) on the user event.
Wake(j) ==
  /\ call[j] = "push"
  /\ wake' = TRUE
  /\ call' = [call EXCEPT ![j] = "returned"]
  /\ UNCHANGED <<queueVars, ready, poll, loopVars>>

-----------------------------------------------------------------------------
(* The kernel.                                                             *)

BecomeReady(fd) ==
  /\ fd \notin ready
  /\ ready' = ready \cup {fd}
  /\ UNCHANGED <<queueVars, call, wake, poll, loopVars>>

\* The idents of the events that are pending.
Pending == ready \cup (IF wake THEN {User} ELSE {})

-----------------------------------------------------------------------------
(* Polling.                                                                *)

\* Kevent returns as many pending events as there is room for, at least one
\* unless there is no room; it clears the user event (EV_CLEAR).
Kevent ==
  /\ poll = "kevent"
  /\ Pending # {} \/ size = 0
  /\ \E n \in {IF Cardinality(Pending) < size THEN Cardinality(Pending) ELSE size} :
        \E events \in [1..n -> Pending] :
          /\ IsInjective(events)
          /\ batch' = events
          /\ wake' = (wake /\ User \notin Range(events))
          /\ full' = (n = size)
  /\ poll' = "events"
  /\ UNCHANGED <<queueVars, call, ready, size, wakenUp>>

\* callback(fd, filter): it consumes what made the descriptor ready, all of it
\* or a part.
Callback ==
  /\ poll = "events"
  /\ batch # <<>>
  /\ Head(batch) # User
  /\ ready' \in {ready, ready \ {Head(batch)}}
  /\ batch' = Tail(batch)
  /\ poll' \in {"events"} \cup (IF Head(batch) \in Hanging THEN {"returned"} ELSE {})
  /\ UNCHANGED <<queueVars, call, wake, size, full, wakenUp>>

UserEvent ==
  /\ poll = "events"
  /\ batch # <<>>
  /\ Head(batch) = User
  /\ wakenUp' = TRUE
  /\ batch' = Tail(batch)
  /\ UNCHANGED <<queueVars, call, kernelVars, poll, size, full>>

\* Mutant of Taken: the jobs that ForEach has taken stay in the queue.
TakenAndKept == todo' = jobs /\ UNCHANGED jobs

\* ForEach: jobs := q.jobs; q.jobs = nil
Taken == todo' = jobs /\ jobs' = <<>>

\* Mutant of AwakeReset: the next batch finds wakenUp still set.
AwakeKept == UNCHANGED wakenUp

AwakeReset == wakenUp' = FALSE

\* The batch is handled: ForEach takes the jobs if the user event was in it.
EventsDone ==
  /\ poll = "events"
  /\ batch = <<>>
  /\ IF wakenUp THEN Taken /\ poll' = "jobs"
                ELSE UNCHANGED <<jobs, todo>> /\ poll' = "grow"
  /\ AwakeReset
  /\ UNCHANGED <<ran, call, kernelVars, size, batch, full>>

\* jobs[i](): an error ends Polling, and the jobs after it are lost.
RunJob ==
  /\ poll = "jobs"
  /\ todo # <<>>
  /\ ran' = Append(ran, Head(todo))
  /\ todo' = Tail(todo)
  /\ poll' = IF Head(todo) \in Failing THEN "returned" ELSE "jobs"
  /\ UNCHANGED <<jobs, call, kernelVars, loopVars>>

JobsDone ==
  /\ poll = "jobs"
  /\ todo = <<>>
  /\ poll' = "grow"
  /\ UNCHANGED <<queueVars, call, kernelVars, loopVars>>

\* n == el.size
Filled == full

\* Mutant of increase: the list keeps room for one event.
KeepOne == size' = IF size > 1 THEN size \div 2 ELSE size

\* el.increase(): the list is halved.
increase == size' = size \div 2

Grow ==
  /\ poll = "grow"
  /\ IF Filled THEN increase ELSE UNCHANGED size
  /\ poll' = "kevent"
  /\ UNCHANGED <<queueVars, call, kernelVars, batch, full, wakenUp>>

-----------------------------------------------------------------------------
Polling ==
  Kevent \/ Callback \/ UserEvent \/ EventsDone \/ RunJob \/ JobsDone \/ Grow

Next ==
  \/ \E j \in Jobs : Push(j) \/ Wake(j)
  \/ \E fd \in Fds : BecomeReady(fd)
  \/ Polling

Spec == Init /\ [][Next]_vars

\* The goroutine that polls runs, and a caller that has pushed its job triggers
\* the event: both are ready to run and wait for nobody.
Fairness == WF_vars(Polling) /\ \A j \in Jobs : WF_vars(Wake(j))

LiveSpec == Spec /\ Fairness

-----------------------------------------------------------------------------
(* Properties.                                                             *)

\* The variables have their types; the locals of an iteration (the batch, what
\* it said of the user event, the jobs taken) are live only in the part of it
\* that uses them.
TypeOK ==
  /\ jobs \in Seq(Jobs)
  /\ call \in [Jobs -> CallStates]
  /\ ready \subseteq Fds
  /\ wake \in BOOLEAN
  /\ poll \in PollStates
  /\ size \in Nat
  /\ batch \in Seq(Fds \cup {User})
  /\ full \in BOOLEAN
  /\ wakenUp \in BOOLEAN
  /\ todo \in Seq(Jobs)
  /\ ran \in Seq(Jobs)
  /\ batch # <<>> \/ wakenUp => poll \in {"events", "returned"}
  /\ todo # <<>> => poll \in {"jobs", "returned"}

\* No wake-up is lost although only the goroutine whose job is the first of
\* the queue triggers the event (kqueue.go:103): while jobs are queued, the
\* event is triggered, being handled or about to be triggered, whatever the
\* order in which the others pushed, triggered and were drained.
NoLostWakeup ==
  jobs # <<>> /\ poll # "returned" =>
    \/ wake
    \/ wakenUp
    \/ User \in Range(batch)
    \/ \E j \in Jobs : call[j] = "push"

\* Jobs are run in the order in which Trigger accepted them, each once, and
\* none after one that failed.
Executor == INSTANCE JobExecutor WITH pending <- todo \o jobs,
                                      stopped <- poll = "returned"
ExecutorSpec == Executor!Spec

\* No batch can hold an event any more: each one that fills the list of events
\* halves it (kqueue_events.go:30), down to none.
NoRoom == size = 0

\* A job that Trigger has accepted (conn.AsyncWrite, gnet.go:88-90) is run,
\* unless a callback or a job makes the loop return or the list loses all room.
JobsAreRun ==
  \A j \in Jobs : j \in Range(jobs) ~> (j \in Range(ran) \/ poll = "returned" \/ NoRoom)

\* A descriptor that stays ready is not starved by the others or by jobs: it
\* is part of a later batch, even when batches fill the list, as long as it has
\* room at all.
ReadyIsReported ==
  \A fd \in Fds :
    [](fd \in ready =>
         <>(fd \in Range(batch) \/ fd \notin ready \/ poll = "returned" \/ NoRoom))

=============================================================================
