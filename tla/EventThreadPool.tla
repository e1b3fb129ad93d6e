--------------------------- MODULE EventThreadPool ---------------------------
(***************************************************************************)
(* helper/event_thread_pool: util::EventThreadPool, a vector of            *)
(* EventThreads used round robin.                                          *)
(*                                                                         *)
(* Each EventThread appears with what EventThread.tla establishes about    *)
(* it: it runs the tasks it accepted in order, and once asked to stop it   *)
(* exits when nothing is queued.  The pool itself has no lock.  Outside    *)
(* threads call AddTask while the pool is up and are done before Stop (the *)
(* destructor runs it); the tasks running in the pool may call AddTask at  *)
(* any time, also while Stop works through the vector.                     *)
(***************************************************************************)
EXTENDS Naturals, Sequences

CONSTANTS Callers,     \* outside threads that call AddTask
          NumThreads,  \* numThreads
          MaxAdds,     \* bound: AddTask calls per thread
          MaxStarts    \* bound: calls of Start

ASSUME PoolAssumption ==
    /\ NumThreads \in Nat \ {0}
    /\ MaxAdds \in Nat
    /\ MaxStarts \in Nat
    /\ Callers \cap (1..NumThreads) = {}

VARIABLES owner,    \* what the owner of the pool is doing
          at,       \* the index i of the loop in Start or Stop
          starts,   \* calls of Start so far
          started,  \* started
          next,     \* next
          life,     \* eventThreadPtrVec: the state of the thread in each slot
          pending,  \* tasks each thread has accepted and not begun
          running,  \* the task each thread is running, or <<>>
          pc,       \* where each thread is inside AddTask
          tnext,    \* its local variable tnext
          adds,     \* AddTask calls made by each thread
          accepted, \* history: tasks the threads of the vector have accepted
          done,     \* history: tasks that ran
          mustRun   \* history: accepted when Stop was called

vars == <<owner, at, starts, started, next, life, pending, running, pc, tnext,
          adds, accepted, done, mustRun>>

Slots == 1..NumThreads

\* A pool thread is known by its slot.
Threads == Callers \cup Slots

Task == Threads \X (1..MaxAdds)

ownerVars  == <<owner, at, starts, started, mustRun>>
callVars   == <<next, pc, tnext, adds>>
threadVars == <<life, pending, running, accepted, done>>

Init ==
    /\ owner = "new"
    /\ at = 1
    /\ starts = 0
    /\ started = FALSE
    /\ next = 0
    /\ life = [s \in Slots |-> "null"]
    /\ pending = [s \in Slots |-> <<>>]
    /\ running = [s \in Slots |-> <<>>]
    /\ pc = [t \in Threads |-> "idle"]
    /\ tnext = [t \in Threads |-> 0]
    /\ adds = [t \in Threads |-> 0]
    /\ accepted = {}
    /\ done = {}
    /\ mustRun = {}

-----------------------------------------------------------------------------
(* The owner: Start *)

\* Start on a pool that is not started.  A Start that failed is followed by
\* Stop, not by another Start.
StartBegin ==
    /\ owner \in {"new", "stopped"}
    /\ starts < MaxStarts
    /\ owner' = "starting"
    /\ starts' = starts + 1
    /\ at' = 1
    /\ UNCHANGED <<started, mustRun, callVars, threadVars>>

\* One EventThread is initialised, started and stored.
StartOne ==
    /\ owner = "starting"
    /\ at <= NumThreads
    /\ life' = [life EXCEPT ![at] = "running"]
    /\ at' = at + 1
    /\ UNCHANGED <<owner, starts, started, mustRun, callVars, pending, running,
                   accepted, done>>

\* Init or Start of an EventThread fails: Start returns false, the threads
\* stored so far keep running.
StartFail ==
    /\ owner = "starting"
    /\ at <= NumThreads
    /\ owner' = "failed"
    /\ UNCHANGED <<at, starts, started, mustRun, callVars, threadVars>>

StartDone ==
    /\ owner = "starting"
    /\ at > NumThreads
    /\ started' = TRUE
    /\ owner' = "up"
    /\ UNCHANGED <<at, starts, mustRun, callVars, threadVars>>

-----------------------------------------------------------------------------
(* The owner: Stop, also called by the destructor *)

StopBegin ==
    /\ owner \in {"up", "failed", "new"}
    /\ \A c \in Callers : pc[c] = "idle"
    /\ started' = FALSE
    /\ owner' = "stopping"
    /\ at' = 1
    /\ mustRun' = accepted
    /\ UNCHANGED <<starts, callVars, threadVars>>

\* EventThread::Stop of a slot: the stop byte is sent, the owner joins.
StopThread ==
    /\ owner = "stopping"
    /\ at <= NumThreads
    /\ life[at] = "running"
    /\ life' = [life EXCEPT ![at] = "stopping"]
    /\ UNCHANGED <<ownerVars, callVars, pending, running, accepted, done>>

\* Mutant: an empty slot is waited for like any other.
CloseThreadNoNull ==
    /\ owner = "stopping"
    /\ at <= NumThreads
    /\ life[at] = "exited"
    /\ life' = [life EXCEPT ![at] = "closed"]
    /\ at' = at + 1
    /\ UNCHANGED <<owner, starts, started, mustRun, callVars, pending, running,
                   accepted, done>>

\* The thread is joined and closed; an empty slot is passed over.
CloseThread ==
    /\ owner = "stopping"
    /\ at <= NumThreads
    /\ life[at] \in {"exited", "null"}
    /\ life' = [life EXCEPT ![at] = IF @ = "null" THEN "null" ELSE "closed"]
    /\ at' = at + 1
    /\ UNCHANGED <<owner, starts, started, mustRun, callVars, pending, running,
                   accepted, done>>

\* Mutant: the last slot is forgotten.
StopDoneEarly ==
    /\ owner = "stopping"
    /\ at >= NumThreads
    /\ owner' = "stopped"
    /\ life' = [s \in Slots |-> "null"]
    /\ pending' = [s \in Slots |-> <<>>]
    /\ accepted' = {}
    /\ UNCHANGED <<at, starts, started, mustRun, callVars, running, done>>

\* eventThreadPtrVec.clear() destroys the threads and what they still queue.
StopDone ==
    /\ owner = "stopping"
    /\ at > NumThreads
    /\ owner' = "stopped"
    /\ life' = [s \in Slots |-> "null"]
    /\ pending' = [s \in Slots |-> <<>>]
    /\ accepted' = {}
    /\ UNCHANGED <<at, starts, started, mustRun, callVars, running, done>>

-----------------------------------------------------------------------------
(* AddTask of the pool; GetNextEventThread runs without a lock *)

\* An outside thread calls before the owner begins to stop; a pool thread
\* calls from the task it is running.
MayCall(t) ==
    /\ pc[t] = "idle"
    /\ adds[t] < MaxAdds
    /\ IF t \in Slots THEN running[t] # <<>>
                      ELSE owner \in {"starting", "up", "failed"}


\* The test of started; a pool that is not started refuses.
AddBegin(t) ==
    /\ MayCall(t)
    /\ adds' = [adds EXCEPT ![t] = @ + 1]
    /\ pc' = IF started THEN [pc EXCEPT ![t] = "started"] ELSE pc
    /\ UNCHANGED <<ownerVars, threadVars, next, tnext>>

\* uint64_t tnext = next
AddReadNext(t) ==
    /\ pc[t] = "started"
    /\ tnext' = [tnext EXCEPT ![t] = next]
    /\ pc' = [pc EXCEPT ![t] = "tnext"]
    /\ UNCHANGED <<ownerVars, threadVars, next, adds>>

\* next++ is a load and a store: it may use the value read above or a fresh
\* one, so increments of other threads may be lost.
AddBumpNext(t) ==
    /\ pc[t] = "tnext"
    /\ next' \in {tnext[t] + 1, next + 1}
    /\ pc' = [pc EXCEPT ![t] = "slot"]
    /\ UNCHANGED <<ownerVars, threadVars, tnext, adds>>

\* eventThreadPtrVec[tnext % size], the reference AddTask holds
SlotOf(t) == (tnext[t] % NumThreads) + 1

\* EventThread::AddTask of that slot accepts, or refuses because it is full.
AddToThread(t) ==
    /\ pc[t] = "slot"
    /\ pc' = [pc EXCEPT ![t] = "idle"]
    /\ tnext' = [tnext EXCEPT ![t] = 0]
    /\ \/ LET task == <<t, adds[t]>> IN
          /\ pending' = [pending EXCEPT ![SlotOf(t)] = Append(@, task)]
          /\ accepted' = accepted \cup {task}
       \/ UNCHANGED <<pending, accepted>>
    /\ UNCHANGED <<ownerVars, life, running, done, next, adds>>

-----------------------------------------------------------------------------
(* The EventThreads, as EventThread.tla shows them *)

BeginTask(s) ==
    /\ life[s] \in {"running", "stopping"}
    /\ running[s] = <<>>
    /\ pending[s] # <<>>
    /\ running' = [running EXCEPT ![s] = Head(pending[s])]
    /\ pending' = [pending EXCEPT ![s] = Tail(@)]
    /\ UNCHANGED <<ownerVars, callVars, life, accepted, done>>

FinishTask(s) ==
    /\ running[s] # <<>>
    /\ pc[s] = "idle"
    /\ done' = done \cup {running[s]}
    /\ running' = [running EXCEPT ![s] = <<>>]
    /\ UNCHANGED <<ownerVars, callVars, life, pending, accepted>>

Exit(s) ==
    /\ life[s] = "stopping"
    /\ running[s] = <<>>
    /\ pending[s] = <<>>
    /\ life' = [life EXCEPT ![s] = "exited"]
    /\ UNCHANGED <<ownerVars, callVars, pending, running, accepted, done>>

OwnerStep ==
    \/ StartBegin
    \/ StartOne
    \/ StartFail
    \/ StartDone
    \/ StopBegin
    \/ StopThread
    \/ CloseThread
    \/ StopDone

AddStep(t) == AddReadNext(t) \/ AddBumpNext(t) \/ AddToThread(t)

ThreadStep(s) == BeginTask(s) \/ FinishTask(s) \/ Exit(s)

Next ==
    \/ OwnerStep
    \/ \E t \in Threads : AddBegin(t) \/ AddStep(t)
    \/ \E s \in Slots : ThreadStep(s)

Spec == Init /\ [][Next]_vars

\* Threads that are inside AddTask or have tasks keep running, and so does the
\* owner inside Stop.
Fairness ==
    /\ \A t \in Threads : WF_vars(AddStep(t))
    /\ \A s \in Slots : WF_vars(ThreadStep(s))
    /\ WF_vars(StopThread) /\ WF_vars(CloseThread) /\ WF_vars(StopDone)

FairSpec == Spec /\ Fairness

-----------------------------------------------------------------------------
(* Properties *)

\* Every variable stays in its range.
TypeOK ==
    /\ owner \in {"new", "starting", "up", "failed", "stopping", "stopped"}
    /\ at \in 1..(NumThreads + 1)
    /\ starts \in 0..MaxStarts
    /\ started \in BOOLEAN
    /\ next \in Nat
    /\ life \in [Slots -> {"null", "running", "stopping", "exited", "closed"}]
    /\ pending \in [Slots -> Seq(Task)]
    /\ running \in [Slots -> Task \cup {<<>>}]
    /\ pc \in [Threads -> {"idle", "started", "tnext", "slot"}]
    /\ tnext \in [Threads -> Nat]
    /\ adds \in [Threads -> 0..MaxAdds]
    /\ accepted \in SUBSET Task
    /\ done \in SUBSET Task
    /\ mustRun \in SUBSET Task

\* Whoever is past the test of started inside AddTask finds a thread in every
\* slot, so the reference GetNextEventThread returned stays valid, although a
\* task running in the pool may race with Stop: the vector is cleared only
\* after every thread that could be inside AddTask has been joined.
SlotsAlive ==
    \A t \in Threads :
        pc[t] # "idle" => \A s \in Slots : life[s] # "null"

\* When Stop returns, every task accepted before it was called has run.
StopDrains == owner = "stopped" => mustRun \subseteq done


\* A task accepted while the pool is up is run, whatever the owner does next.
AcceptedRuns ==
    \A task \in Task :
        (task \in accepted /\ owner = "up") ~> task \in done

\* Stop returns: each thread drains and exits although the others may still
\* hand it tasks.
StopReturns == owner = "stopping" ~> owner = "stopped"

=============================================================================
