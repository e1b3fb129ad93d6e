------------------------------ MODULE ThreadPool ------------------------------
(***************************************************************************)
(* multi_thread/boost_thread_pool.cc: ThreadPool, worker threads fed from  *)
(* one deque.  Callers of Run wait on the same condition when the deque is *)
(* full as workers do when it is empty, and neither tests again after the  *)
(* wait.  run_flag_ is read and written without the mutex.                 *)
(*                                                                         *)
(* main() is one of the callers; it starts and stops the pool.             *)
(***************************************************************************)
EXTENDS Integers, Sequences, FiniteSets

CONSTANTS Callers,      \* threads that call Run
          Workers,      \* the threads of the pool, none of the callers
          main,         \* the caller that starts and stops the pool
          MaxQueue,     \* max_queue_size_, 0 for no limit
          MaxRuns,      \* bound: calls of Run by one caller
          MaxSpurious   \* bound: waits that end without a notification

Threads == Callers \cup Workers

VARIABLES run_flag,  \* run_flag_, "on" or "off"
          queue,     \* queue_
          at,        \* where each thread is
          task,      \* the task each worker has taken, or <<>>
          runs,      \* calls of Run by each caller
          pushed,    \* all tasks put into the queue, in order
          taken,     \* all tasks taken from it, in order
          process,   \* "up" or "terminated" by an exception
          spurious   \* waits that ended by themselves

vars == <<run_flag, queue, at, task, runs, pushed, taken, process, spurious>>

Waiting == {t \in Threads : at[t] \in {"fullwait", "emptywait"}}

Init ==
    /\ run_flag = "off"
    /\ queue = <<>>
    /\ at = [t \in Threads |->
               IF t = main THEN "new" ELSE IF t \in Callers THEN "idle" ELSE "none"]
    /\ task = [w \in Workers |-> <<>>]
    /\ runs = [c \in Callers |-> 0]
    /\ pushed = <<>>
    /\ taken = <<>>
    /\ process = "up"
    /\ spurious = 0

Up == process = "up"

Start ==
    /\ Up
    /\ at[main] = "new"
    /\ run_flag' = "on"
    /\ at' = [t \in Threads |->
                IF t = main THEN "idle" ELSE IF t \in Workers THEN "loop" ELSE at[t]]
    /\ UNCHANGED <<queue, task, runs, pushed, taken, process, spurious>>


\* cond_.notify_one(): one of the waiting threads, worker or caller, leaves its
\* wait; moved is what the notifying thread itself does.
Notify(moved) ==
    IF Waiting = {}
    THEN at' = moved
    ELSE \E t \in Waiting :
            at' = [moved EXCEPT ![t] =
                      IF @ = "fullwait" THEN "fullwoken" ELSE "emptywoken"]

\* Run reads run_flag_: without a running pool the task is run at once.
RunBegin(c) ==
    /\ Up
    /\ at[c] = "idle"
    /\ runs[c] < MaxRuns
    /\ runs' = [runs EXCEPT ![c] = @ + 1]
    /\ at' = [at EXCEPT ![c] = IF run_flag = "on" THEN "run" ELSE "idle"]
    /\ UNCHANGED <<run_flag, queue, task, pushed, taken, process, spurious>>

IsFull == MaxQueue > 0 /\ Len(queue) >= MaxQueue

Push(c) ==
    LET new == <<c, runs[c]>> IN
    /\ queue' = Append(queue, new)
    /\ pushed' = Append(pushed, new)
    /\ Notify([at EXCEPT ![c] = "idle"])
    /\ UNCHANGED <<run_flag, task, runs, taken, process, spurious>>

\* Run with the mutex: a full queue is waited for once.
RunLocked(c) ==
    /\ Up
    /\ at[c] = "run"
    /\ \/ ~IsFull /\ Push(c)
       \/ /\ IsFull
          /\ at' = [at EXCEPT ![c] = "fullwait"]
          /\ UNCHANGED <<run_flag, queue, task, runs, pushed, taken, process, spurious>>

RunResume(c) == Up /\ at[c] = "fullwoken" /\ Push(c)

\* The loop of RunInThread tests run_flag_.
RunInThread(w) ==
    /\ Up
    /\ at[w] = "loop"
    /\ at' = [at EXCEPT ![w] = IF run_flag = "on" THEN "take" ELSE "exit"]
    /\ UNCHANGED <<run_flag, queue, task, runs, pushed, taken, process, spurious>>

TakeFront(w) ==
    /\ task' = [task EXCEPT ![w] = Head(queue)]
    /\ taken' = Append(taken, Head(queue))
    /\ queue' = Tail(queue)
    /\ Notify([at EXCEPT ![w] = "busy"])
    /\ UNCHANGED <<run_flag, runs, pushed, process, spurious>>

\* GetTake with the mutex: an empty queue is waited for once.
GetTake(w) ==
    /\ Up
    /\ at[w] = "take"
    /\ \/ queue # <<>> /\ TakeFront(w)
       \/ /\ queue = <<>>
          /\ at' = [at EXCEPT ![w] = "emptywait"]
          /\ UNCHANGED <<run_flag, queue, task, runs, pushed, taken, process, spurious>>

\* After the wait.  On an empty queue GetTake returns an empty function, and
\* calling it throws in the worker thread.
TakeResume(w) ==
    /\ Up
    /\ at[w] = "emptywoken"
    /\ \/ queue # <<>> /\ TakeFront(w)
       \/ /\ queue = <<>>
          /\ process' = "terminated"
          /\ UNCHANGED <<run_flag, queue, at, task, runs, pushed, taken, spurious>>

\* The task runs and ends.
RunTask(w) ==
    /\ Up
    /\ at[w] = "busy"
    /\ task' = [task EXCEPT ![w] = <<>>]
    /\ at' = [at EXCEPT ![w] = "loop"]
    /\ UNCHANGED <<run_flag, queue, runs, pushed, taken, process, spurious>>

\* Stop clears run_flag_ and joins; nobody is notified.
StopBegin ==
    /\ Up
    /\ at[main] = "idle"
    /\ runs[main] = MaxRuns
    /\ run_flag' = "off"
    /\ at' = [at EXCEPT ![main] = "join"]
    /\ UNCHANGED <<queue, task, runs, pushed, taken, process, spurious>>

StopDone ==
    /\ Up
    /\ at[main] = "join"
    /\ \A w \in Workers : at[w] = "exit"
    /\ at' = [at EXCEPT ![main] = "stopped"]
    /\ UNCHANGED <<run_flag, queue, task, runs, pushed, taken, process, spurious>>

\* A wait ends without a notification.
Wake(t) ==
    /\ Up
    /\ t \in Waiting
    /\ spurious < MaxSpurious
    /\ spurious' = spurious + 1
    /\ at' = [at EXCEPT ![t] =
                 IF @ = "fullwait" THEN "fullwoken" ELSE "emptywoken"]
    /\ UNCHANGED <<run_flag, queue, task, runs, pushed, taken, process>>

CallerStep(c) == RunLocked(c) \/ RunResume(c)

WorkerStep(w) == RunInThread(w) \/ GetTake(w) \/ TakeResume(w) \/ RunTask(w)

Next ==
    \/ Start \/ StopBegin \/ StopDone
    \/ \E c \in Callers : RunBegin(c) \/ CallerStep(c)
    \/ \E w \in Workers : WorkerStep(w)
    \/ \E t \in Threads : Wake(t)

Spec == Init /\ [][Next]_vars

\* Threads run until they wait; main goes through its loop and stops the pool.
Fairness ==
    /\ WF_vars(Start) /\ WF_vars(StopBegin) /\ WF_vars(StopDone)
    /\ WF_vars(RunBegin(main))
    /\ \A c \in Callers : WF_vars(CallerStep(c))
    /\ \A w \in Workers : WF_vars(WorkerStep(w))

FairSpec == Spec /\ Fairness

-----------------------------------------------------------------------------
(* Properties *)

\* Tasks are taken once each, in the order Run put them into the queue,
\* whichever workers and callers the one condition wakes.
InOrder == taken \o queue = pushed


\* main() gets past Stop, or has died before.
StopReturns ==
    at[main] = "join" ~> (at[main] = "stopped" \/ process = "terminated")

=============================================================================
