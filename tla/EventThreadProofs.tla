-------------------------- MODULE EventThreadProofs --------------------------
(***************************************************************************)
(* Proofs about EventThread for any number of calling threads, any queue   *)
(* size, pipe size and receive buffer.                                     *)
(***************************************************************************)
EXTENDS EventThread, SequenceTheorems, TLAPS

\* The task an AddTask call brings is well formed.
LEMMA NewTask ==
    ASSUME TypeOK, NEW t \in Threads, AddTask(t)
    PROVE  Len(accepted) + 1 \in Task
  BY EventThreadAssumption DEF TypeOK, AddTask, MayCall, Task

\* The initial state is well typed.
LEMMA TypeInit == Init => TypeOK
  BY EventThreadAssumption
     DEF Init, TypeOK, OwnerStates, LoopStates, Task

\* Every step keeps the variables in their ranges.
LEMMA TypeInductive == TypeOK /\ [Next]_vars => TypeOK'
<1> USE EventThreadAssumption DEF TypeOK, OwnerStates, LoopStates
<1> SUFFICES ASSUME TypeOK, [Next]_vars PROVE TypeOK'
  OBVIOUS
<1> USE DEF loopVars, ownerVars, addVars
<1>1. CASE InitThread
  BY <1>1 DEF InitThread, NewPipe
<1>2. CASE Start
  BY <1>2 DEF Start, NewPipe
<1>3. CASE Stop
  BY <1>3 DEF Stop, Notify, Min2
<1>4. CASE Join
  BY <1>4 DEF Join
<1>5. CASE Close
  BY <1>5 DEF Close
<1>6. CASE Destroy
  BY <1>6 DEF Destroy, ClosedPipe
<1>7. ASSUME NEW t \in Threads, AddTask(t) PROVE TypeOK'
  <2>1. Len(accepted) + 1 \in Task
    BY <1>7, NewTask
  <2>4. CASE tasks # <<>> /\ Len(tasks) >= QueueSize
    BY <1>7, <2>4 DEF AddTask, Full, NeedNotify
  <2>5. CASE ~(tasks # <<>> /\ Len(tasks) >= QueueSize)
    <3> DEFINE task == Len(accepted) + 1
    <3>0. tasks' = Append(tasks, task) /\ accepted' = Append(accepted, task)
      BY <1>7, <2>5 DEF AddTask, Full, NeedNotify
    <3> HIDE DEF task
    <3>1. tasks' \in Seq(Task) /\ accepted' \in Seq(Task)
      BY <2>1, <3>0 DEF task
    <3>2. caller' \in [Threads -> {"idle", "notify"}]
      BY <1>7, <2>5 DEF AddTask, Full, NeedNotify
    <3> QED
      BY <1>7, <3>1, <3>2 DEF AddTask, Full, NeedNotify
  <2> QED
    BY <2>4, <2>5
<1>8. ASSUME NEW t \in Threads, AddTaskNotify(t) PROVE TypeOK'
  BY <1>8 DEF AddTaskNotify, Notify, Min2
<1>9. CASE TaskReadable
  BY <1>9 DEF TaskReadable, Drain, Min2
<1>10. CASE StopReadable
  BY <1>10 DEF StopReadable, Drain, Min2
<1>11. CASE HandleTask
  BY <1>11 DEF HandleTask
<1>12. CASE RunTask
  BY <1>12 DEF RunTask
<1>13. CASE BatchDone
  BY <1>13 DEF BatchDone
<1>14. CASE HandleStop
  BY <1>14 DEF HandleStop
<1>15. CASE UNCHANGED vars
  BY <1>15 DEF vars
<1> QED
  BY <1>1, <1>2, <1>3, <1>4, <1>5, <1>6, <1>7, <1>8, <1>9, <1>10, <1>11,
     <1>12, <1>13, <1>14, <1>15 DEF Next, OwnerStep, LoopStep


-----------------------------------------------------------------------------
\* The owner's view of the thread and the thread's own position agree (Start,
\* Stop and Close against the event loop).
LEMMA PhasesInductive ==
    TypeOK /\ PhasesAgree /\ CloseAfterExit /\ [Next]_vars
        => PhasesAgree' /\ CloseAfterExit'
<1> SUFFICES ASSUME TypeOK, PhasesAgree, CloseAfterExit, [Next]_vars
             PROVE PhasesAgree' /\ CloseAfterExit'
  OBVIOUS
<1> USE DEF PhasesAgree, CloseAfterExit, loopVars, ownerVars, addVars
<1>1. CASE OwnerStep
  BY <1>1 DEF OwnerStep, InitThread, Start, Stop, Join, Close, Destroy, NewPipe
<1>2. ASSUME NEW t \in Threads, AddTask(t) \/ AddTaskNotify(t)
      PROVE PhasesAgree' /\ CloseAfterExit'
  BY <1>2 DEF AddTask, MayCall, AddTaskNotify
<1>3. CASE LoopStep
  BY <1>3 DEF LoopStep, TaskReadable, StopReadable, HandleTask, RunTask,
              BatchDone, HandleStop, TypeOK, OwnerStates
<1>4. CASE UNCHANGED vars
  BY <1>4 DEF vars
<1> QED
  BY <1>1, <1>2, <1>3, <1>4 DEF Next

\* A byte is in the task pipe or owed whenever tasks wait: AddTask against
\* HandlerFn, HandleTask and HandleStop.
LEMMA WakeupInductive ==
    TypeOK /\ PhasesAgree /\ NoLostWakeup /\ [Next]_vars => NoLostWakeup'
<1> SUFFICES ASSUME TypeOK, PhasesAgree, NoLostWakeup, [Next]_vars
             PROVE NoLostWakeup'
  OBVIOUS
<1> USE EventThreadAssumption DEF NoLostWakeup, loopVars, ownerVars, addVars
<1>1. CASE OwnerStep
  BY <1>1 DEF OwnerStep, InitThread, Start, Stop, Join, Close, Destroy, NewPipe,
              PhasesAgree
<1>2. ASSUME NEW t \in Threads, AddTask(t) PROVE NoLostWakeup'
  <2>1. CASE tasks = <<>>
    <3>1. caller'[t] = "notify"
      BY <1>2, <2>1 DEF AddTask, Full, NeedNotify, TypeOK
    <3> QED
      BY <3>1
  <2>2. CASE tasks # <<>>
    BY <1>2, <2>2 DEF AddTask, Full, NeedNotify
  <2> QED
    BY <2>1, <2>2
<1>3. ASSUME NEW t \in Threads, AddTaskNotify(t) PROVE NoLostWakeup'
  BY <1>3 DEF AddTaskNotify, Notify, Min2, TypeOK
<1>4. CASE LoopStep
  BY <1>4 DEF LoopStep, TaskReadable, StopReadable, HandleTask, RunTask,
              BatchDone, HandleStop
<1>5. CASE UNCHANGED vars
  BY <1>5 DEF vars
<1> QED
  BY <1>1, <1>2, <1>3, <1>4, <1>5 DEF Next

\* AddTask is the only step that lengthens tasks_, and it has seen room.
LEMMA QueueInductive ==
    TypeOK /\ QueueBounded /\ [Next]_vars => QueueBounded'
<1> SUFFICES ASSUME TypeOK, QueueBounded, [Next]_vars PROVE QueueBounded'
  OBVIOUS
<1> USE EventThreadAssumption DEF QueueBounded, loopVars, ownerVars, addVars
<1>1. CASE OwnerStep
  BY <1>1 DEF OwnerStep, InitThread, Start, Stop, Join, Close, Destroy, NewPipe
<1>2. ASSUME NEW t \in Threads, AddTask(t) PROVE QueueBounded'
  <2>1. CASE tasks # <<>> /\ Len(tasks) >= QueueSize
    BY <1>2, <2>1 DEF AddTask, Full, NeedNotify
  <2>2. CASE ~(tasks # <<>> /\ Len(tasks) >= QueueSize)
    <3>1. Len(tasks) + 1 <= QueueSize
      BY <2>2 DEF TypeOK
    <3>2. \E task : tasks' = Append(tasks, task)
      BY <1>2, <2>2 DEF AddTask, Full, NeedNotify
    <3> QED
      BY <3>1, <3>2 DEF TypeOK
  <2> QED
    BY <2>1, <2>2
<1>3. ASSUME NEW t \in Threads, AddTaskNotify(t) PROVE QueueBounded'
  BY <1>3 DEF AddTaskNotify
<1>4. CASE LoopStep
  BY <1>4 DEF LoopStep, TaskReadable, StopReadable, HandleTask, RunTask,
              BatchDone, HandleStop
<1>5. CASE UNCHANGED vars
  BY <1>5 DEF vars
<1> QED
  BY <1>1, <1>2, <1>3, <1>4, <1>5 DEF Next

-----------------------------------------------------------------------------
\* Facts about concatenation used below.
LEMMA AppendConcat ==
    ASSUME NEW S, NEW a \in Seq(S), NEW b \in Seq(S), NEW x \in S
    PROVE  a \o Append(b, x) = Append(a \o b, x)
  OBVIOUS

LEMMA ShiftConcat ==
    ASSUME NEW S, NEW a \in Seq(S), NEW b \in Seq(S), b # <<>>
    PROVE  Append(a, Head(b)) \o Tail(b) = a \o b
  OBVIOUS

\* What AddTask accepted is, in order: run, in the local batch, or queued.
LEMMA OrderInductive ==
    TypeOK /\ PhasesAgree /\ BatchLocal /\ RunsInOrder /\ [Next]_vars
        => BatchLocal' /\ RunsInOrder'
<1> SUFFICES ASSUME TypeOK, PhasesAgree, BatchLocal, RunsInOrder, [Next]_vars
             PROVE BatchLocal' /\ RunsInOrder'
  OBVIOUS
<1> USE DEF BatchLocal, RunsInOrder, loopVars, ownerVars, addVars
<1>1. CASE OwnerStep
  BY <1>1 DEF OwnerStep, InitThread, Start, Stop, Join, Close, Destroy, NewPipe,
              PhasesAgree
<1>2. ASSUME NEW t \in Threads, AddTask(t) PROVE BatchLocal' /\ RunsInOrder'
  <2>1. CASE UNCHANGED <<tasks, accepted>>
    BY <1>2, <2>1 DEF AddTask, Full, NeedNotify
  <2>2. CASE ~UNCHANGED <<tasks, accepted>>
    <3> DEFINE task == Len(accepted) + 1
    <3>1. tasks' = Append(tasks, task) /\ accepted' = Append(accepted, task)
      BY <1>2, <2>2 DEF AddTask, Full, NeedNotify
    <3>2. task \in Task
      BY <1>2, NewTask
    <3> DEFINE taken == executed \o batch
    <3>3. taken \in Seq(Task) /\ tasks \in Seq(Task)
      BY DEF TypeOK
    <3> HIDE DEF task, taken
    <3>4. taken \o Append(tasks, task) = Append(taken \o tasks, task)
      BY <3>2, <3>3, AppendConcat
    <3> QED
      BY <1>2, <3>1, <3>4 DEF AddTask, Full, NeedNotify, taken
  <2> QED
    BY <2>1, <2>2
<1>3. ASSUME NEW t \in Threads, AddTaskNotify(t) PROVE BatchLocal' /\ RunsInOrder'
  BY <1>3 DEF AddTaskNotify
<1>4. CASE TaskReadable \/ StopReadable \/ BatchDone \/ HandleStop
  BY <1>4 DEF TaskReadable, StopReadable, BatchDone, HandleStop
<1>5. CASE HandleTask
  <2>1. batch = <<>> /\ batch' = tasks /\ tasks' = <<>> /\ loop' = "run"
    BY <1>5 DEF HandleTask
  <2>2. (executed \o <<>>) \o tasks = (executed \o tasks) \o <<>>
    BY DEF TypeOK
  <2> QED
    BY <1>5, <2>1, <2>2 DEF HandleTask
<1>6. CASE RunTask
  <2>1. Append(executed, Head(batch)) \o Tail(batch) = executed \o batch
    BY <1>6, ShiftConcat DEF RunTask, TypeOK
  <2> QED
    BY <1>6, <2>1 DEF RunTask
<1>7. CASE UNCHANGED vars
  BY <1>7 DEF vars
<1> QED
  BY <1>1, <1>2, <1>3, <1>4, <1>5, <1>6, <1>7 DEF Next, LoopStep

\* Nothing that was accepted before Stop is left behind when the loop exits:
\* HandleStop leaves its while loop only with tasks_ empty.
LEMMA DrainInductive ==
    TypeOK /\ PhasesAgree /\ BatchLocal /\ RunsInOrder /\ ExitDrained
        /\ [Next]_vars => ExitDrained'
<1> SUFFICES ASSUME TypeOK, PhasesAgree, BatchLocal, RunsInOrder, ExitDrained,
                    [Next]_vars
             PROVE ExitDrained'
  OBVIOUS
<1> USE DEF ExitDrained, loopVars, ownerVars, addVars
<1>1. CASE OwnerStep
  BY <1>1 DEF OwnerStep, InitThread, Start, Stop, Join, Close, Destroy, NewPipe,
              PhasesAgree, TypeOK
<1>2. ASSUME NEW t \in Threads, AddTask(t) PROVE ExitDrained'
  <2>1. Len(accepted') >= Len(accepted) /\ Len(accepted') \in Nat
    <3>1. CASE UNCHANGED accepted
      BY <3>1 DEF TypeOK
    <3>2. CASE ~UNCHANGED accepted
      BY <1>2, <3>2 DEF AddTask, Full, NeedNotify, TypeOK
    <3> QED
      BY <3>1, <3>2
  <2> QED
    BY <1>2, <2>1 DEF AddTask, Full, NeedNotify, TypeOK
<1>3. ASSUME NEW t \in Threads, AddTaskNotify(t) PROVE ExitDrained'
  BY <1>3 DEF AddTaskNotify
<1>4. CASE TaskReadable \/ StopReadable \/ HandleTask \/ BatchDone
  BY <1>4 DEF TaskReadable, StopReadable, HandleTask, BatchDone, TypeOK
<1>5. CASE RunTask
  BY <1>5 DEF RunTask, TypeOK
<1>6. CASE HandleStop
  <2>1. CASE tasks # <<>>
    BY <1>6, <2>1 DEF HandleStop
  <2>2. CASE tasks = <<>>
    <3>1. batch = <<>>
      BY <1>6 DEF HandleStop, BatchLocal
    <3>2. (executed \o <<>>) \o <<>> = executed
      BY DEF TypeOK
    <3>3. executed = accepted
      BY <2>2, <3>1, <3>2 DEF RunsInOrder
    <3> QED
      BY <1>6, <3>3 DEF HandleStop, TypeOK
  <2> QED
    BY <2>1, <2>2
<1>7. CASE UNCHANGED vars
  BY <1>7 DEF vars
<1> QED
  BY <1>1, <1>2, <1>3, <1>4, <1>5, <1>6, <1>7 DEF Next, LoopStep

-----------------------------------------------------------------------------
\* The inductive invariant holds in every reachable state of EventThread.
THEOREM Invariance == Spec => []IInv
<1>1. Init => IInv
  <2>1. Init => TypeOK
    BY TypeInit
  <2>2. (<<>> \o <<>>) \o <<>> = <<>>
    OBVIOUS
  <2> QED
    BY <2>1, <2>2, EventThreadAssumption DEF Init, IInv, PhasesAgree, CloseAfterExit, NoLostWakeup,
                      QueueBounded, BatchLocal, RunsInOrder, ExitDrained
<1>2. IInv /\ [Next]_vars => IInv'
  BY TypeInductive, PhasesInductive, WakeupInductive, QueueInductive,
     OrderInductive, DrainInductive DEF IInv
<1> QED
  BY <1>1, <1>2, PTL DEF Spec

\* The variables stay in their ranges (the state of util::EventThread).
THEOREM TypeCorrect == Spec => []TypeOK
<1>1. IInv => TypeOK
  BY DEF IInv
<1> QED
  BY <1>1, Invariance, PTL

\* The wakeup protocol of AddTask and HandleTask loses no wakeup, for every
\* number of threads, queue size, pipe size and receive buffer.
THEOREM WakeupTheorem == Spec => []NoLostWakeup
<1>1. IInv => NoLostWakeup
  BY DEF IInv
<1> QED
  BY <1>1, Invariance, PTL

\* AddTask, HandleTask and HandleStop run every accepted task at most once and
\* in acceptance order.
THEOREM OrderTheorem == Spec => []RunsInOrder
<1>1. IInv => RunsInOrder
  BY DEF IInv
<1> QED
  BY <1>1, Invariance, PTL

\* The queue bound that AddTask tests under the mutex is never exceeded.
THEOREM QueueTheorem == Spec => []QueueBounded
<1>1. IInv => QueueBounded
  BY DEF IInv
<1> QED
  BY <1>1, Invariance, PTL

\* When Stop returns, all that was accepted before it was called has run.
THEOREM DrainTheorem == Spec => []StopDrains
<1>1. IInv => StopDrains
  BY DEF IInv, PhasesAgree, ExitDrained, StopDrains
<1> QED
  BY <1>1, Invariance, PTL

-----------------------------------------------------------------------------
\* EventThread implements TaskExecutor: AddTask accepts, RunTask executes the
\* next task in line, every other step changes neither history.
THEOREM Refinement == Spec => ImplementsExecutor
<1>1. Init => Executor!Init
  BY DEF Init, Executor!Init
<1>2. IInv /\ [Next]_vars => [Executor!Next]_(Executor!execVars)
  <2> SUFFICES ASSUME IInv, [Next]_vars
               PROVE Executor!Next \/ UNCHANGED <<accepted, executed>>
    BY DEF Executor!execVars
  <2> USE DEF loopVars, ownerVars, addVars
  <2>1. CASE OwnerStep
    BY <2>1 DEF OwnerStep, InitThread, Start, Stop, Join, Close, Destroy, NewPipe
  <2>2. ASSUME NEW t \in Threads, AddTask(t)
        PROVE Executor!Next \/ UNCHANGED <<accepted, executed>>
    <3>1. Len(accepted) + 1 \in Task
      BY <2>2, NewTask DEF IInv
    <3> QED
      BY <2>2, <3>1 DEF AddTask, Full, NeedNotify, Executor!Next, Executor!Accept
  <2>3. ASSUME NEW t \in Threads, AddTaskNotify(t)
        PROVE UNCHANGED <<accepted, executed>>
    BY <2>3 DEF AddTaskNotify
  <2>4. CASE TaskReadable \/ StopReadable \/ HandleTask \/ BatchDone \/ HandleStop
    BY <2>4 DEF TaskReadable, StopReadable, HandleTask, BatchDone, HandleStop
  <2>5. CASE RunTask
    <3>1. executed \in Seq(Task) /\ batch \in Seq(Task) /\ tasks \in Seq(Task)
      BY DEF IInv, TypeOK
    <3>2. batch # <<>> /\ (executed \o batch) \o tasks = accepted
      BY <2>5 DEF RunTask, IInv, RunsInOrder
    <3>3. /\ Len(executed) < Len(accepted)
          /\ accepted[Len(executed) + 1] = Head(batch)
      BY <3>1, <3>2
    <3> QED
      BY <2>5, <3>3 DEF RunTask, Executor!Next, Executor!Execute
  <2>6. CASE UNCHANGED vars
    BY <2>6 DEF vars
  <2> QED
    BY <2>1, <2>2, <2>3, <2>4, <2>5, <2>6 DEF Next, LoopStep
<1> QED
  BY <1>1, <1>2, Invariance, PTL DEF Spec, ImplementsExecutor, Executor!Spec

=============================================================================
