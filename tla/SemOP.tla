------------------------------- MODULE SemOP -------------------------------
(***************************************************************************)
(* The System V semaphore of util/sem_op.cc, used as a lock by several     *)
(* processes that start, crash and start again in any order.  The kernel   *)
(* object outlives them; it is never removed (no code removes it).         *)
(***************************************************************************)
EXTENDS Integers, FiniteSets

CONSTANT Process

VARIABLES
    sem,     \* value of the semaphore, Missing before anybody created it
    idZero,  \* the kernel gave it the identifier 0, a legal one
    undo,    \* what SEM_UNDO adds when a process ends
    pc       \* where each process is in Init, Lock and UnLock

vars == <<sem, idZero, undo, pc>>

Missing == -1

Init ==
    /\ sem = Missing
    /\ idZero \in BOOLEAN
    /\ undo = [p \in Process |-> 0]
    /\ pc = [p \in Process |-> "off"]

Goto(p, where) == pc' = [pc EXCEPT ![p] = where]

\* SemOP::Init asks for the semaphore first: found means ready.  The test is
\* "> 0", so identifier 0 goes on to the creation.
Find(p) ==
    /\ pc[p] = "off"
    /\ Goto(p, IF sem # Missing /\ ~idZero THEN "ready" ELSE "create")
    /\ UNCHANGED <<sem, idZero, undo>>

\* A creation that forgets IPC_EXCL hands the existing semaphore to a second
\* "creator", which sets its value again.
CreateShared(p) ==
    /\ pc[p] = "create"
    /\ sem' = IF sem = Missing THEN 0 ELSE sem
    /\ Goto(p, "setval")
    /\ UNCHANGED <<idZero, undo>>

\* semget with IPC_CREAT|IPC_EXCL: one process creates (value 0), the others
\* get EEXIST, ask again and are ready.  Any other error ends Init.
Create(p) ==
    /\ pc[p] = "create"
    /\ \/ sem = Missing /\ sem' = 0 /\ Goto(p, "setval")
       \/ sem # Missing /\ sem' = sem /\ Goto(p, "ready")
       \/ sem' = sem /\ Goto(p, "failed")
    /\ UNCHANGED <<idZero, undo>>

\* semctl(SETVAL, 1), which also clears every process' undo value; or it
\* fails and Init returns false.
SetVal(p) ==
    /\ pc[p] = "setval"
    /\ \/ /\ sem' = 1
          /\ undo' = [q \in Process |-> 0]
          /\ Goto(p, "ready")
       \/ /\ Goto(p, "failed")
          /\ UNCHANGED <<sem, undo>>
    /\ UNCHANGED idZero

\* semop(num) with SEM_UNDO: blocks while the value would go below zero.
op(p, num) ==
    /\ sem + num >= 0
    /\ sem' = sem + num
    /\ undo' = [undo EXCEPT ![p] = @ - num]
    /\ UNCHANGED idZero

Lock(p) ==
    /\ pc[p] = "ready"
    /\ op(p, -1)
    /\ Goto(p, "inside")

UnLock(p) ==
    /\ pc[p] = "inside"
    /\ op(p, 1)
    /\ Goto(p, "ready")

\* The process ends, normally or not: the kernel applies its undo value.
End(p) ==
    /\ pc[p] # "off"
    /\ sem' = IF sem = Missing THEN sem ELSE sem + undo[p]
    /\ undo' = [undo EXCEPT ![p] = 0]
    /\ Goto(p, "off")
    /\ UNCHANGED idZero

Next == \E p \in Process :
    Find(p) \/ Create(p) \/ SetVal(p) \/ Lock(p) \/ UnLock(p) \/ End(p)

Spec == Init /\ [][Next]_vars

-----------------------------------------------------------------------------
Inside == {p \in Process : pc[p] = "inside"}

TypeOK ==
    /\ sem \in {Missing, 0, 1}
    /\ idZero \in BOOLEAN
    /\ undo \in [Process -> {0, 1}]
    /\ pc \in [Process -> {"off", "create", "setval", "ready", "inside", "failed"}]

\* At most one process is between Lock and UnLock, whoever created the
\* semaphore, in whatever order they started and whoever died inside.
OneInside == \A p, q \in Inside : p = q

\* The semaphore and its holder add up: while its creator still has to set
\* the value it is 0 and nobody is inside; a free semaphore has no holder, a
\* held one no second; what a process' end would undo is exactly its lock.
IInv ==
    /\ TypeOK
    /\ \A p, q \in Process : pc[p] = "setval" /\ pc[q] = "setval" => p = q
    /\ (\E p \in Process : pc[p] = "setval") => sem = 0 /\ Inside = {}
    /\ sem # 0 => Inside = {}
    /\ sem = Missing => \A p \in Process : pc[p] \in {"off", "create", "failed"}
    /\ \A p \in Process : undo[p] = IF pc[p] = "inside" THEN 1 ELSE 0
    /\ OneInside
=============================================================================
