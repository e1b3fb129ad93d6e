---------------------------- MODULE SemOPProofs ----------------------------
(***************************************************************************)
(* Proofs about SemOP: the semaphore excludes for any set of processes,    *)
(* any order of starting and dying and either kind of identifier.          *)
(***************************************************************************)
EXTENDS SemOP, TLAPS

\* Before the first semget there is no semaphore and no process.
LEMMA InitInv == Init => IInv
  BY DEF Init, IInv, TypeOK, Inside, OneInside, Missing

\* Asking for the semaphore changes nothing but where the process is.
LEMMA FindInv == ASSUME IInv, NEW p \in Process, Find(p) PROVE IInv'
<1> USE DEF IInv, TypeOK, Inside, OneInside, Missing, Find, Goto
<1>1. /\ pc' \in [Process -> {"off", "create", "setval", "ready", "inside", "failed"}]
      /\ \A q \in Process \ {p} : pc'[q] = pc[q]
      /\ pc[p] = "off" /\ pc'[p] \in {"ready", "create"}
      /\ sem = Missing => pc'[p] = "create"
  OBVIOUS
<1> QED
  BY <1>1

\* IPC_EXCL makes one creator; before it nobody can hold anything.
LEMMA CreateInv == ASSUME IInv, NEW p \in Process, Create(p) PROVE IInv'
<1> USE DEF IInv, TypeOK, Inside, OneInside, Missing, Create, Goto
<1>1. CASE sem = Missing /\ sem' = 0
  <2>1. /\ undo' = undo /\ idZero' = idZero
        /\ pc' = [pc EXCEPT ![p] = "setval"]
        /\ \A q \in Process : pc[q] \in {"off", "create", "failed"}
    BY <1>1
  <2> QED
    BY <1>1, <2>1
<1>2. CASE sem' = sem
  <2>1. /\ undo' = undo /\ idZero' = idZero /\ pc[p] = "create"
        /\ \/ pc' = [pc EXCEPT ![p] = "ready"] /\ sem # Missing
           \/ pc' = [pc EXCEPT ![p] = "failed"]
    BY <1>2
  <2>2. Inside' = Inside
    BY <2>1
  <2> QED
    BY <1>2, <2>1, <2>2
<1> QED
  BY <1>1, <1>2

\* SETVAL makes the semaphore free while nobody is inside.
LEMMA SetValInv == ASSUME IInv, NEW p \in Process, SetVal(p) PROVE IInv'
<1> USE DEF IInv, TypeOK, Inside, OneInside, Missing, SetVal, Goto
<1>1. sem = 0 /\ (\A q \in Process : pc[q] # "inside") /\ pc[p] = "setval"
  OBVIOUS
<1>2. \A q \in Process : pc'[q] # "inside" /\ pc'[q] # "setval"
  BY <1>1
<1>3. \A q \in Process : undo[q] = 0
  BY <1>1
<1> QED
  BY <1>1, <1>2, <1>3

\* semop(-1) succeeds on a free semaphore only, semop(1) is its holder's.
LEMMA OpInv == ASSUME IInv, NEW p \in Process, Lock(p) \/ UnLock(p) PROVE IInv'
<1> USE DEF IInv, TypeOK, Inside, OneInside, Missing, Goto, op
<1>1. CASE Lock(p)
  <2>0. undo[p] = 0 /\ undo[p] - (-1) = 1
    BY <1>1 DEF Lock
  <2>1. /\ sem = 1 /\ sem' = 0 /\ pc[p] = "ready"
        /\ pc' = [pc EXCEPT ![p] = "inside"]
        /\ undo' = [undo EXCEPT ![p] = 1]
        /\ idZero' = idZero
    BY <1>1, <2>0 DEF Lock
  <2>2. \A q \in Process : pc[q] # "inside" /\ pc[q] # "setval" /\ undo[q] = 0
    BY <2>1
  <2> QED
    BY <2>1, <2>2
<1>2. CASE UnLock(p)
  <2>1. /\ sem = 0 /\ sem' = 1 /\ pc[p] = "inside"
        /\ pc' = [pc EXCEPT ![p] = "ready"]
        /\ undo' = [undo EXCEPT ![p] = @ - 1]
        /\ idZero' = idZero
    BY <1>2 DEF UnLock
  <2>2. \A q \in Process : pc'[q] # "inside" /\ pc'[q] # "setval" /\ undo'[q] = 0
    BY <2>1
  <2> QED
    BY <2>1, <2>2
<1> QED
  BY <1>1, <1>2

\* A process that ends inside gives back exactly what it held.
LEMMA EndInv == ASSUME IInv, NEW p \in Process, End(p) PROVE IInv'
<1> USE DEF IInv, TypeOK, Inside, OneInside, Missing, Goto, End
<1>1. /\ pc' = [pc EXCEPT ![p] = "off"] /\ undo' = [undo EXCEPT ![p] = 0]
      /\ idZero' = idZero
  OBVIOUS
<1>2. CASE pc[p] = "inside"
  <2>1. sem = 0 /\ sem' = 1
    BY <1>2
  <2>2. \A q \in Process : pc'[q] # "inside" /\ pc'[q] # "setval" /\ undo'[q] = 0
    BY <1>1, <1>2
  <2> QED
    BY <1>1, <2>1, <2>2
<1>3. CASE pc[p] # "inside"
  <2>1. sem' = sem
    BY <1>3
  <2>2. Inside' = Inside
    BY <1>1, <1>3
  <2>3. \A q \in Process : undo'[q] = IF pc'[q] = "inside" THEN 1 ELSE 0
    BY <1>1
  <2> QED
    BY <1>1, <2>1, <2>2, <2>3
<1> QED
  BY <1>2, <1>3

\* The semaphore and its holder always add up.
THEOREM Invariance == Spec => []IInv
<1>1. IInv /\ [Next]_vars => IInv'
  <2> SUFFICES ASSUME IInv, [Next]_vars PROVE IInv'
    OBVIOUS
  <2>1. CASE Next
    BY <2>1, FindInv, CreateInv, SetValInv, OpInv, EndInv DEF Next
  <2>2. CASE UNCHANGED vars
    BY <2>2 DEF vars, IInv, TypeOK, Inside, OneInside
  <2> QED
    BY <2>1, <2>2
<1> QED
  BY InitInv, <1>1, PTL DEF Spec

\* Lock and UnLock exclude: at most one process is between them, whoever
\* created the semaphore and whoever died inside.
THEOREM Exclusion == Spec => []OneInside
<1>1. IInv => OneInside
  BY DEF IInv
<1> QED
  BY Invariance, <1>1, PTL
=============================================================================
