---------------------------- MODULE PollerProofs -----------------------------
(***************************************************************************)
(* For all sets of descriptors and jobs and every InitEvents, whatever     *)
(* size the event list shrinks to: the wake-up of the poller is never      *)
(* lost, and the poller implements JobExecutor.                            *)
(***************************************************************************)
EXTENDS Poller, SequenceTheorems, FiniteSetTheorems, TLAPS

LEMMA SeqFacts ==
  ASSUME NEW S, NEW q \in Seq(S), q # <<>>
  PROVE  /\ Head(q) \in S
         /\ Tail(q) \in Seq(S)
         /\ Range(q) = {Head(q)} \cup Range(Tail(q))
<1> DEFINE h == <<Head(q)>>
           t == Tail(q)
<1>1. Head(q) \in S /\ t \in Seq(S)
  BY HeadTailProperties
<1>2. q = h \o t
  BY <1>1
<1>3. h \in Seq(S) /\ Range(h) = {Head(q)}
  BY <1>1 DEF Range
<1>4. Range(h \o t) = Range(h) \cup Range(t)
  <2> HIDE DEF h, t
  <2> QED
    BY <1>1, <1>3, RangeConcatenation
<1> QED
  BY <1>1, <1>2, <1>3, <1>4, Zenon

LEMMA ConcatHeadTail ==
  ASSUME NEW S, NEW s \in Seq(S), NEW t \in Seq(S), s # <<>>
  PROVE  /\ s \o t # <<>>
         /\ Head(s \o t) = Head(s)
         /\ Tail(s \o t) = Tail(s) \o t
OBVIOUS

LEMMA ConcatAppend ==
  ASSUME NEW S, NEW s \in Seq(S), NEW t \in Seq(S), NEW x \in S
  PROVE  s \o Append(t, x) = Append(s \o t, x)
OBVIOUS

\* The kernel's events fit the list: Kevent returns a sequence of them.
LEMMA PendingFinite ==
  ASSUME TypeOK
  PROVE  IsFiniteSet(Pending) /\ Pending \subseteq Fds \cup {User}
<1>1. IsFiniteSet(ready)
  BY PollerAssumption, FS_Subset DEF TypeOK
<1> QED
  BY <1>1, FS_AddElement, FS_EmptySet, FS_Union DEF TypeOK, Pending

-----------------------------------------------------------------------------
(* Types.                                                                  *)

LEMMA TypeInductive == TypeOK /\ [Next]_vars => TypeOK'
<1> SUFFICES ASSUME TypeOK, [Next]_vars PROVE TypeOK'
  OBVIOUS
<1> USE DEF TypeOK, CallStates, PollStates, kernelVars, queueVars, loopVars
<1>1. ASSUME NEW j \in Jobs, Push(j) PROVE TypeOK'
  BY <1>1, AppendProperties DEF Push
<1>2. ASSUME NEW j \in Jobs, Wake(j) PROVE TypeOK'
  BY <1>2 DEF Wake
<1>3. ASSUME NEW fd \in Fds, BecomeReady(fd) PROVE TypeOK'
  BY <1>3 DEF BecomeReady
<1>4. CASE Kevent
  <2>1. PICK n \in {IF Cardinality(Pending) < size THEN Cardinality(Pending) ELSE size} :
          \E events \in [1..n -> Pending] :
            /\ batch' = events
            /\ wake' = (wake /\ User \notin Range(events))
            /\ full' = (n = size)
    BY <1>4, Zenon DEF Kevent
  <2>2. Cardinality(Pending) \in Nat
    BY PendingFinite, FS_CardinalityType
  <2>3. n \in Nat
    BY <2>1, <2>2
  <2>4. batch' \in Seq(Fds \cup {User})
    BY <2>1, <2>3, PendingFinite, SeqDef
  <2>5. wake' \in BOOLEAN /\ full' \in BOOLEAN
    BY <2>1, Zenon
  <2> QED
    BY <1>4, <2>4, <2>5 DEF Kevent
<1>5. CASE Callback
  BY <1>5, SeqFacts DEF Callback
<1>6. CASE UserEvent
  BY <1>6, SeqFacts DEF UserEvent
<1>7. CASE EventsDone
  BY <1>7 DEF EventsDone, Taken, AwakeReset
<1>8. CASE RunJob
  <2>1. Head(todo) \in Jobs /\ Tail(todo) \in Seq(Jobs)
    BY <1>8, SeqFacts DEF RunJob
  <2> QED
    BY <1>8, <2>1, AppendProperties DEF RunJob
<1>9. CASE JobsDone
  BY <1>9 DEF JobsDone
<1>10. CASE Grow
  BY <1>10 DEF Grow, increase
<1>11. CASE UNCHANGED vars
  BY <1>11 DEF vars
<1> QED
  BY <1>1, <1>2, <1>3, <1>4, <1>5, <1>6, <1>7, <1>8, <1>9, <1>10, <1>11
     DEF Next, Polling

\* The variables of the poller keep their types and the locals of an iteration
\* of Polling do not survive it (kqueue.go:113-145).
THEOREM PollerTypeCorrect == Spec => []TypeOK
<1>1. Init => TypeOK
  <2>1. ASSUME Init
        PROVE  /\ jobs \in Seq(Jobs) /\ todo \in Seq(Jobs) /\ ran \in Seq(Jobs)
               /\ batch \in Seq(Fds \cup {User})
               /\ call \in [Jobs -> CallStates]
               /\ ready \subseteq Fds /\ size \in Nat /\ poll \in PollStates
    BY <2>1, PollerAssumption DEF Init, CallStates, PollStates
  <2> QED
    BY <2>1, Zenon DEF Init, TypeOK
<1> QED
  BY <1>1, TypeInductive, PTL DEF Spec

-----------------------------------------------------------------------------
(* The wake-up.                                                            *)

\* NoLostWakeup is inductive with the types: jobs are queued only after a
\* Push that found the queue empty, and the queue is emptied only after the
\* event has been taken.
LEMMA WakeupInductive == TypeOK /\ NoLostWakeup /\ [Next]_vars => NoLostWakeup'
<1> SUFFICES ASSUME TypeOK, NoLostWakeup, [Next]_vars PROVE NoLostWakeup'
  OBVIOUS
<1> USE DEF NoLostWakeup, kernelVars, queueVars, loopVars
<1>1. ASSUME NEW j \in Jobs, Push(j) PROVE NoLostWakeup'
  <2>1. CASE jobs = <<>>
    <3>1. call'[j] = "push"
      BY <1>1, <2>1 DEF Push, FirstOf, TypeOK
    <3> QED
      BY <3>1
  <2>2. CASE jobs # <<>>
    <3>1. ASSUME NEW k \in Jobs, call[k] = "push" PROVE call'[k] = "push"
      BY <1>1, <3>1 DEF Push, TypeOK
    <3> QED
      BY <1>1, <2>2, <3>1 DEF Push
  <2> QED
    BY <2>1, <2>2
<1>2. ASSUME NEW j \in Jobs, Wake(j) PROVE NoLostWakeup'
  BY <1>2 DEF Wake
<1>3. ASSUME NEW fd \in Fds, BecomeReady(fd) PROVE NoLostWakeup'
  BY <1>3 DEF BecomeReady
<1>4. CASE Kevent
  <2>1. wake /\ User \notin Range(batch') => wake'
    BY <1>4, Zenon DEF Kevent
  <2>2. batch = <<>>
    BY <1>4 DEF Kevent, TypeOK
  <2>3. User \notin Range(batch)
    BY <2>2 DEF Range
  <2> QED
    BY <1>4, <2>1, <2>3 DEF Kevent
<1>5. CASE Callback
  <2>1. User \in Range(batch) => User \in Range(batch')
    BY <1>5, SeqFacts DEF Callback, TypeOK
  <2> QED
    BY <1>5, <2>1 DEF Callback
<1>6. CASE UserEvent
  BY <1>6 DEF UserEvent
<1>7. CASE EventsDone
  <2>1. CASE wakenUp
    BY <1>7, <2>1 DEF EventsDone, Taken
  <2>2. CASE ~wakenUp
    BY <1>7, <2>2 DEF EventsDone, TypeOK
  <2> QED
    BY <2>1, <2>2
<1>8. CASE RunJob
  BY <1>8 DEF RunJob
<1>9. CASE JobsDone
  BY <1>9 DEF JobsDone
<1>10. CASE Grow
  BY <1>10 DEF Grow
<1>11. CASE UNCHANGED vars
  BY <1>11 DEF vars
<1> QED
  BY <1>1, <1>2, <1>3, <1>4, <1>5, <1>6, <1>7, <1>8, <1>9, <1>10, <1>11
     DEF Next, Polling

\* While jobs are queued the user event is triggered, being handled, or about
\* to be triggered by the goroutine whose Push returned 1 (kqueue.go:102-108).
THEOREM WakeupNeverLost == Spec => []NoLostWakeup
<1>1. Init => NoLostWakeup
  BY DEF Init, NoLostWakeup
<1> QED
  BY <1>1, PollerTypeCorrect, WakeupInductive, PTL DEF Spec

-----------------------------------------------------------------------------
(* The queue of jobs.                                                      *)

LEMMA StepImplements ==
  TypeOK /\ [Next]_vars => [Executor!Next]_(Executor!vars)
<1> SUFFICES ASSUME TypeOK, [Next]_vars
             PROVE  [Executor!Next]_(Executor!vars)
  OBVIOUS
<1> USE DEF kernelVars, queueVars, loopVars, Executor!vars, Executor!Next
<1> todo \in Seq(Jobs) /\ jobs \in Seq(Jobs)
  BY DEF TypeOK
<1>1. ASSUME NEW j \in Jobs, Push(j) PROVE Executor!Submit(j)
  BY <1>1, ConcatAppend DEF Push, Executor!Submit
<1>2. ASSUME NEW j \in Jobs, Wake(j) PROVE UNCHANGED Executor!vars
  BY <1>2 DEF Wake
<1>3. ASSUME NEW fd \in Fds, BecomeReady(fd) PROVE UNCHANGED Executor!vars
  BY <1>3 DEF BecomeReady
<1>4. CASE Kevent
  BY <1>4 DEF Kevent
<1>5. CASE Callback
  <2>1. poll' = "returned" => Executor!Stop
    BY <1>5 DEF Callback, Executor!Stop
  <2>2. poll' # "returned" => UNCHANGED Executor!vars
    BY <1>5 DEF Callback
  <2> QED
    BY <2>1, <2>2
<1>6. CASE UserEvent
  BY <1>6 DEF UserEvent
<1>7. CASE EventsDone
  <2>1. todo = <<>>
    BY <1>7 DEF EventsDone, TypeOK
  <2>2. CASE wakenUp
    <3>1. todo' \o jobs' = todo \o jobs
      BY <1>7, <2>1, <2>2, ConcatEmptySeq DEF EventsDone, Taken
    <3> QED
      BY <1>7, <2>2, <3>1 DEF EventsDone
  <2>3. CASE ~wakenUp
    BY <1>7, <2>3 DEF EventsDone
  <2> QED
    BY <2>2, <2>3
<1>8. CASE RunJob
  <2>1. /\ todo \o jobs # <<>>
        /\ Head(todo \o jobs) = Head(todo)
        /\ Tail(todo \o jobs) = Tail(todo) \o jobs
    BY <1>8, ConcatHeadTail DEF RunJob
  <2>2. Executor!Run
    BY <1>8, <2>1 DEF RunJob, Executor!Run
  <2> QED
    BY <2>2
<1>9. CASE JobsDone
  BY <1>9 DEF JobsDone
<1>10. CASE Grow
  BY <1>10 DEF Grow
<1>11. CASE UNCHANGED vars
  BY <1>11 DEF vars
<1> QED
  BY <1>1, <1>2, <1>3, <1>4, <1>5, <1>6, <1>7, <1>8, <1>9, <1>10, <1>11
     DEF Next, Polling

\* Jobs are run one by one in the order in which Trigger accepted them, and
\* none after one that returned an error (queue.go:14-33).
THEOREM PollerImplementsExecutor == Spec => ExecutorSpec
<1>1. Init => Executor!Init
  BY DEF Init, Executor!Init
<1>2. QED
  BY <1>1, StepImplements, PollerTypeCorrect, PTL
     DEF Spec, ExecutorSpec, Executor!Spec
=============================================================================
