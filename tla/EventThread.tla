----------------------------- MODULE EventThread -----------------------------
(***************************************************************************)
(* helper/event_thread_pool: util::EventThread and the PipedEventWatcher   *)
(* that wakes it.                                                          *)
(*                                                                         *)
(* One loop thread sits in event_base_loop.  Any thread may call AddTask,  *)
(* which appends to tasks_ under the mutex and, only when tasks_ was       *)
(* empty, writes one byte to the socket pair of task_watcher_ AFTER the    *)
(* mutex is released.  The loop thread reads at most RecvMax bytes, swaps  *)
(* the whole vector out under the mutex and runs the batch unlocked; a     *)
(* running task may itself call AddTask.  The owner calls Init, Start,     *)
(* Stop (a byte on stop_watcher_, then pthread_join), Close and finally    *)
(* destroys the object.                                                    *)
(*                                                                         *)
(* A critical section is one step.  tasks_.empty() in HandleStop is read   *)
(* without the mutex; only push_back runs concurrently with it, so what it *)
(* reads is the vector before or after that push: an atomic read.          *)
(***************************************************************************)
EXTENDS Naturals, Sequences, FiniteSets

CONSTANTS Callers,    \* threads that call AddTask from outside the loop
          Loop,       \* the thread created by Start
          QueueSize,  \* queue_size_
          RecvMax,    \* sizeof(buf) in PipedEventWatcher::HandlerFn
          PipeSize,   \* bytes the socket pair holds before send() fails
          MaxTasks    \* bound: tasks accepted in a behaviour

ASSUME EventThreadAssumption ==
    /\ Loop \notin Callers
    /\ QueueSize \in Nat \ {0}
    /\ RecvMax \in Nat \ {0}
    /\ PipeSize \in Nat \ {0}
    /\ MaxTasks \in Nat

VARIABLES owner,      \* how far the owner has taken the object; running_ is
                      \* set exactly in state "running"
          tasks,      \* tasks_
          taskPipe,   \* bytes waiting in task_watcher_
          stopPipe,   \* bytes waiting in stop_watcher_
          loop,       \* where the loop thread is
          return,     \* where HandleTask returns to: the event loop, or the
                      \* while loop of HandleStop
          batch,      \* the local vector of HandleTask, still to run
          caller,     \* where each thread is inside AddTask
          accepted,   \* history: the tasks AddTask took, in mutex order
          executed,   \* history: the tasks that ran, in order
          atStop      \* history: Len(accepted) when Stop was called

vars == <<owner, tasks, taskPipe, stopPipe, loop, return, batch,
          caller, accepted, executed, atStop>>

loopVars  == <<loop, return, batch, executed>>
ownerVars == <<owner, atStop>>
addVars   == <<caller, accepted>>

Threads == Callers \cup {Loop}

\* Tasks are told apart by the order in which AddTask takes the mutex.
Task == 1..MaxTasks

OwnerStates == {"new", "failed", "inited", "running", "joining", "stopped",
                "closed", "destroyed"}

LoopStates == {"none", "dispatch", "HandleTask", "run", "HandleStop", "exited"}

Min2(a, b) == IF a < b THEN a ELSE b

Init ==
    /\ owner = "new"
    /\ tasks = <<>>
    /\ taskPipe = 0
    /\ stopPipe = 0
    /\ loop = "none"
    /\ return = "dispatch"
    /\ batch = <<>>
    /\ caller = [t \in Threads |-> "idle"]
    /\ accepted = <<>>
    /\ executed = <<>>
    /\ atStop = 0

-----------------------------------------------------------------------------
(* PipedEventWatcher *)

\* Init and Watch of a watcher: a socket pair with nothing in it.
NewPipe == 0

\* Cancel and DoClose: the event is removed and both ends are closed.
ClosedPipe == 0

\* send() of one byte; when the socket buffer is full the error is ignored.
Notify(pipe) == Min2(pipe + 1, PipeSize)

\* recv() of at most RecvMax bytes from a socket that is readable.
Drain(pipe) == pipe - Min2(pipe, RecvMax)

-----------------------------------------------------------------------------
(* The owner *)

\* Init succeeds, or closes what it had opened and returns false; its asserts
\* let it be tried again.
InitThread ==
    /\ owner \in {"new", "failed"}
    /\ owner' \in {"inited", "failed"}
    /\ taskPipe' = NewPipe
    /\ UNCHANGED <<atStop, tasks, stopPipe, loopVars, addVars>>

\* stop_watcher_ is (re)created before the thread; when it cannot be set up
\* Start returns false and nothing has changed.  The asserts of Start let a
\* stopped object be started again.
Start ==
    /\ owner \in {"inited", "stopped"}
    /\ owner' = "running"
    /\ stopPipe' = NewPipe
    /\ loop' = "dispatch"
    /\ return' = "dispatch"
    /\ UNCHANGED <<atStop, tasks, taskPipe, batch, executed, addVars>>

\* Mutant: Stop clears running_ and joins without notifying.
StopSilent ==
    /\ owner = "running"
    /\ owner' = "joining"
    /\ atStop' = Len(accepted)
    /\ UNCHANGED <<tasks, taskPipe, stopPipe, loopVars, addVars>>

\* running_ is cleared and the stop byte is sent; the owner then joins.
Stop ==
    /\ owner = "running"
    /\ owner' = "joining"
    /\ stopPipe' = Notify(stopPipe)
    /\ atStop' = Len(accepted)
    /\ UNCHANGED <<tasks, taskPipe, loopVars, addVars>>

\* Mutant: the thread is not joined (as for detach_).
JoinDetached ==
    /\ owner = "joining"
    /\ owner' = "stopped"
    /\ UNCHANGED <<atStop, tasks, taskPipe, stopPipe>>
    /\ UNCHANGED <<loopVars, addVars>>

\* pthread_join returns.
Join ==
    /\ owner = "joining"
    /\ loop = "exited"
    /\ owner' = "stopped"
    /\ UNCHANGED <<atStop, tasks, taskPipe, stopPipe>>
    /\ UNCHANGED <<loopVars, addVars>>

\* event_base_free.
Close ==
    /\ owner \in {"inited", "stopped"}
    /\ owner' = "closed"
    /\ UNCHANGED <<atStop, tasks, taskPipe, stopPipe>>
    /\ UNCHANGED <<loopVars, addVars>>

\* The destructor closes the socket pair of task_watcher_.  No call may still
\* be inside AddTask: the object belongs to shared_ptrs.
Destroy ==
    /\ owner \in {"new", "failed", "inited", "stopped", "closed"}
    /\ \A t \in Threads : caller[t] = "idle"
    /\ owner' = "destroyed"
    /\ taskPipe' = ClosedPipe
    /\ UNCHANGED <<atStop, tasks, stopPipe, loopVars, addVars>>

-----------------------------------------------------------------------------
(* AddTask *)

\* Who may be calling: any outside thread once Init has made task_watcher_
\* (AddTask tests neither running_ nor event_base_), and the loop thread from
\* inside a task it is running.
MayCall(t) ==
    /\ caller[t] = "idle"
    /\ Len(accepted) < MaxTasks
    /\ IF t = Loop THEN loop = "run" /\ batch # <<>>
                   ELSE owner \in {"inited", "running", "joining", "stopped",
                                   "closed"}

\* The vector is not empty and has no room.
Full == tasks # <<>> /\ Len(tasks) >= QueueSize

\* Mutant: a byte is sent only to a loop that is not in a handler.
NeedNotifyIdle == tasks = <<>> /\ loop = "dispatch"

\* need_notify: the vector was empty when the mutex was taken.
NeedNotify == tasks = <<>>

\* The critical section: refuse when full, otherwise append; a byte is owed
\* exactly when the vector was empty.
AddTask(t) ==
    /\ MayCall(t)
    /\ IF Full
       THEN UNCHANGED <<tasks, caller, accepted>>
       ELSE LET task == Len(accepted) + 1 IN
            /\ tasks' = Append(tasks, task)
            /\ accepted' = Append(accepted, task)
            /\ caller' = IF NeedNotify
                         THEN [caller EXCEPT ![t] = "notify"]
                         ELSE caller
    /\ UNCHANGED <<ownerVars, taskPipe, stopPipe, loopVars>>

\* task_watcher_->Notify(), outside the mutex.
AddTaskNotify(t) ==
    /\ caller[t] = "notify"
    /\ caller' = [caller EXCEPT ![t] = "idle"]
    /\ taskPipe' = Notify(taskPipe)
    /\ UNCHANGED <<ownerVars, tasks, stopPipe, loopVars, accepted>>

-----------------------------------------------------------------------------
(* The loop thread *)

\* event_base_loop finds task_watcher_ readable and HandlerFn empties it.
TaskReadable ==
    /\ loop = "dispatch"
    /\ taskPipe > 0
    /\ taskPipe' = Drain(taskPipe)
    /\ loop' = "HandleTask"
    /\ UNCHANGED <<ownerVars, tasks, stopPipe, return, batch, executed,
                   addVars>>

\* The same for stop_watcher_.
StopReadable ==
    /\ loop = "dispatch"
    /\ stopPipe > 0
    /\ stopPipe' = Drain(stopPipe)
    /\ loop' = "HandleStop"
    /\ return' = "HandleStop"
    /\ UNCHANGED <<ownerVars, tasks, taskPipe, batch, executed, addVars>>

\* HandleTask swaps the vector out under the mutex.
HandleTask ==
    /\ loop = "HandleTask"
    /\ batch' = tasks
    /\ tasks' = <<>>
    /\ loop' = "run"
    /\ UNCHANGED <<ownerVars, taskPipe, stopPipe, return, executed, addVars>>

\* Mutant: the batch is run from its back.
RunTaskBackwards ==
    /\ loop = "run"
    /\ batch # <<>>
    /\ caller[Loop] = "idle"
    /\ executed' = Append(executed, batch[Len(batch)])
    /\ batch' = SubSeq(batch, 1, Len(batch) - 1)
    /\ UNCHANGED <<ownerVars, tasks, taskPipe, stopPipe, loop, return,
                   addVars>>

\* One task of the batch returns.
RunTask ==
    /\ loop = "run"
    /\ batch # <<>>
    /\ caller[Loop] = "idle"
    /\ executed' = Append(executed, Head(batch))
    /\ batch' = Tail(batch)
    /\ UNCHANGED <<ownerVars, tasks, taskPipe, stopPipe, loop, return,
                   addVars>>

\* HandleTask returns to the event loop, or to the while loop of HandleStop.
BatchDone ==
    /\ loop = "run"
    /\ batch = <<>>
    /\ loop' = return
    /\ UNCHANGED <<ownerVars, tasks, taskPipe, stopPipe, return, batch,
                   executed, addVars>>

\* while (!tasks_.empty()) HandleTask(); then event_base_loopbreak, Main ends.
HandleStop ==
    /\ loop = "HandleStop"
    /\ loop' = IF tasks # <<>> THEN "HandleTask" ELSE "exited"
    /\ UNCHANGED <<ownerVars, tasks, taskPipe, stopPipe, return, batch,
                   executed, addVars>>

LoopStep ==
    \/ TaskReadable
    \/ StopReadable
    \/ HandleTask
    \/ RunTask
    \/ BatchDone
    \/ HandleStop

OwnerStep == InitThread \/ Start \/ Stop \/ Join \/ Close \/ Destroy

Next ==
    \/ OwnerStep
    \/ LoopStep
    \/ \E t \in Threads : AddTask(t) \/ AddTaskNotify(t)

Spec == Init /\ [][Next]_vars

\* The loop thread and a thread inside AddTask keep running, and pthread_join
\* returns once the loop thread is gone.  Nobody has to call anything.
Fairness ==
    /\ WF_vars(LoopStep)
    /\ WF_vars(Join)
    /\ \A t \in Threads : WF_vars(AddTaskNotify(t))

FairSpec == Spec /\ Fairness

-----------------------------------------------------------------------------
(* Properties *)

\* Every variable stays in its range.
TypeOK ==
    /\ owner \in OwnerStates
    /\ tasks \in Seq(Task)
    /\ taskPipe \in 0..PipeSize
    /\ stopPipe \in 0..PipeSize
    /\ loop \in LoopStates
    /\ return \in {"dispatch", "HandleStop"}
    /\ batch \in Seq(Task)
    /\ caller \in [Threads -> {"idle", "notify"}]
    /\ accepted \in Seq(Task)
    /\ executed \in Seq(Task)
    /\ atStop \in Nat

\* No wakeup is lost although AddTask notifies only on the empty -> non-empty
\* transition, after releasing the mutex, and ignores send errors: while tasks
\* wait and the loop thread is not already about to swap them out, a byte is
\* in the pipe or some thread still owes one.  This includes a stopped thread,
\* so a restart finds what was added in between.
NoLostWakeup ==
    (tasks # <<>> /\ loop # "HandleTask" /\ owner # "destroyed")
        => (taskPipe > 0 \/ \E t \in Threads : caller[t] = "notify")

\* What AddTask accepted runs exactly once and in the order of the mutex, over
\* any number of swaps, drains by HandleStop and restarts.
RunsInOrder == executed \o batch \o tasks = accepted

\* tasks_ never outgrows queue_size_, although AddTask tests emptiness first.
QueueBounded == Len(tasks) <= QueueSize

\* When Stop returns, every task accepted before Stop was called has run.
StopDrains == owner = "stopped" => Len(executed) >= atStop

\* event_base_free is only reached when no loop thread is inside the base.
CloseAfterExit == owner \in {"closed", "destroyed"} => loop \in {"none", "exited"}

\* The owner and the loop thread agree on the phase of the thread's life: a
\* thread the owner believes to be running has seen no stop byte, and the owner
\* leaves pthread_join only when the thread is gone.  Nothing is queued before
\* Init has made the pipe that announces it.
PhasesAgree ==
    /\ owner \in {"new", "failed"} => tasks = <<>>
    /\ owner \in {"new", "failed", "inited"} => loop = "none"
    /\ owner = "running" =>
         loop \in {"dispatch", "HandleTask", "run"} /\ return = "dispatch" /\ stopPipe = 0
    /\ owner = "joining" => loop # "none"
    /\ owner = "stopped" => loop = "exited"

\* HandleTask's local vector is non-empty only while it is being run.
BatchLocal == batch # <<>> => loop = "run"

\* A thread that has left HandleStop has run all that Stop found accepted.
ExitDrained ==
    /\ atStop <= Len(accepted)
    /\ loop = "exited" => Len(executed) >= atStop

\* The inductive invariant: each part of it is inductive given the ones before.
IInv ==
    /\ TypeOK
    /\ PhasesAgree
    /\ CloseAfterExit
    /\ NoLostWakeup
    /\ QueueBounded
    /\ BatchLocal
    /\ RunsInOrder
    /\ ExitDrained

\* The thread is a TaskExecutor: nothing runs that was not accepted, nothing
\* runs twice, and nothing overtakes.
Executor == INSTANCE TaskExecutor

ImplementsExecutor == Executor!Spec

\* While the thread is up, an accepted task is eventually run (or the owner
\* stops the thread).
AcceptedRuns ==
    \A n \in Task :
        (Len(accepted) >= n /\ owner = "running")
            ~> (Len(executed) >= n \/ owner # "running")

\* Stop returns: the stop byte reaches the loop, which drains and exits.
StopReturns == owner = "joining" ~> owner = "stopped"

=============================================================================
