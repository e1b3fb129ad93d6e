------------------------------ MODULE MCQueues ------------------------------
(***************************************************************************)
(* The two queues between threads, MsgQueueCond and that of the boost      *)
(* ThreadPool, for TLC.  part says which of them a behaviour runs.         *)
(***************************************************************************)
EXTENDS MsgQueueCond

CONSTANTS main, c2, w1, w2, r1, r2, r3,
          Callers, Workers, MaxQueue, MaxRuns, MaxSpurious

VARIABLES part, run_flag, tasks, at, task, runs, pushed, taken, process, spurious

Pool == INSTANCE ThreadPool WITH queue <- tasks

poolVars == <<run_flag, tasks, at, task, runs, pushed, taken, process, spurious>>
mcVars   == <<part, vars, poolVars>>

MCInit == part \in {"queue", "pool"} /\ Init /\ Pool!Init

Queue(A)   == part = "queue" /\ A /\ UNCHANGED <<part, poolVars>>
Threads(A) == part = "pool" /\ A /\ UNCHANGED <<part, vars>>

MCNext == Queue(Next) \/ Threads(Pool!Next)

\* The fairness of both modules.
MCSpec ==
    /\ MCInit /\ [][MCNext]_mcVars
    /\ \A r \in Readers : /\ WF_mcVars(Queue(get_msg(r)))
                          /\ WF_mcVars(Queue(Resume(r) \/ ResumeTimed(r)))
    /\ WF_mcVars(Threads(Pool!Start)) /\ WF_mcVars(Threads(Pool!StopBegin))
    /\ WF_mcVars(Threads(Pool!StopDone)) /\ WF_mcVars(Threads(Pool!RunBegin(main)))
    /\ \A c \in Callers : WF_mcVars(Threads(Pool!CallerStep(c)))
    /\ \A w \in Workers : WF_mcVars(Threads(Pool!WorkerStep(w)))


=============================================================================
