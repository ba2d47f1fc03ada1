------------------------------ MODULE TaskPool -------------------------------
(***************************************************************************)
(* What a pool of ants promises to the callers of Submit or Invoke: a call *)
(* is refused for the reasons of ants.go:30-40 only, it blocks if and as   *)
(* far as the options let it, what was accepted runs once at most, and     *)
(* what was refused never, however the pool is tuned, released, rebooted   *)
(* or purged.  AntsPool and PoolWithFunc implement it.  It knows no        *)
(* worker, queue, lock or counter, and does not say that what was accepted *)
(* runs at all: AcceptedRuns of AntsPool does.                             *)
(***************************************************************************)
EXTENDS Integers, FiniteSets

CONSTANTS Tasks,     \* the calls
          Runnable,  \* those that submit something to run
          Exact      \* whether the pool counts its blocked calls exactly

VARIABLES opts,   \* nonblocking and maxBlockingTasks
          state,  \* "OPENED" or "CLOSED"
          phase,  \* where each call is
          runs    \* how often the function of each has run

vars == <<opts, state, phase, runs>>

Phases == {"new", "begun", "blocked", "served", "ok", "overload", "closed"}

Init ==
  /\ opts.nonblocking \in BOOLEAN
  /\ opts.maxBlockingTasks \in Nat
  /\ state = "OPENED"
  /\ phase = [t \in Tasks |-> "new"]
  /\ runs = [t \in Tasks |-> 0]

Blocked == {t \in Tasks : phase[t] = "blocked"}

Limited == opts.maxBlockingTasks # 0

\* As many calls are blocked as may be.
Full == Limited /\ (Exact => Cardinality(Blocked) >= opts.maxBlockingTasks)

Goes(t, to) ==
  /\ phase' = [phase EXCEPT ![t] = to]
  /\ UNCHANGED <<opts, state, runs>>

Begin(t) ==
  /\ phase[t] = "new"
  /\ Goes(t, IF state = "CLOSED" THEN "closed" ELSE "begun")

Block(t) ==
  /\ phase[t] = "begun"
  /\ ~opts.nonblocking
  /\ Limited /\ Exact => Cardinality(Blocked) < opts.maxBlockingTasks
  /\ Goes(t, "blocked")

\* ErrPoolOverload: a call that was let in and blocked is not refused any more,
\* unless the count is wrong.
Overload(t) ==
  /\ \/ phase[t] = "begun" /\ (opts.nonblocking \/ Full)
     \/ phase[t] = "blocked" /\ Limited /\ ~Exact
  /\ Goes(t, "overload")

\* The call has a worker.
Take(t) ==
  /\ phase[t] \in {"begun", "blocked"}
  /\ Goes(t, "served")

Return(t) ==
  /\ phase[t] = "served"
  /\ Goes(t, "ok")

\* A second run would be no step of this specification, nor a stutter.
Run(t) ==
  /\ t \in Runnable
  /\ phase[t] = "ok"
  /\ runs[t] = 0
  /\ runs' = [runs EXCEPT ![t] = 1]
  /\ UNCHANGED <<opts, state, phase>>

Release ==
  /\ state' = "CLOSED"
  /\ UNCHANGED <<opts, phase, runs>>

Reboot ==
  /\ state = "CLOSED"
  /\ state' = "OPENED"
  /\ UNCHANGED <<opts, phase, runs>>

Call(t) == Begin(t) \/ Block(t) \/ Overload(t) \/ Take(t) \/ Return(t)

\* A pool also takes steps that its callers do not see: the first conjunct spares
\* TLC the rest of the disjunct then.
Next ==
  \/ phase' # phase /\ \E t \in Tasks : Call(t)
  \/ \E t \in Tasks : Run(t)
  \/ Release
  \/ Reboot

Spec == Init /\ [][Next]_vars

=============================================================================
