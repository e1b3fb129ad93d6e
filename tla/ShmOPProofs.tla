---------------------------- MODULE ShmOPProofs ----------------------------
(***************************************************************************)
(* Proofs about ShmOP, for any processes, sizes and number of tries: Init  *)
(* hands out finished memory only, and never clears memory in use.         *)
(***************************************************************************)
EXTENDS ShmOP, TLAPS

\* Before the first shmget there is nothing.
LEMMA InitInv == Init => IInv
  BY DEF Init, IInv, TypeOK, Creating, Seen, Fields, NoSeg

\* Looking for the segment: a creator whose shmat failed finds its own.
LEMMA StartInv == ASSUME Sizes \subseteq Nat, IInv, NEW p \in Process, Start(p) PROVE IInv'
<1> USE DEF IInv, TypeOK
<1>1. PICK size \in Sizes \cup {0}, where \in {"shmat", "create", "failed"} :
         /\ req' = [req EXCEPT ![p] = size] /\ pc' = [pc EXCEPT ![p] = where]
         /\ pc[p] # "off" => size = req[p]
         /\ create_[p] => where = "shmat"
  BY DEF Start, Goto, Creating
<1>2. UNCHANGED <<seg, idZero, header, body, create_>> /\ pc[p] \in {"off", "failed"}
  BY DEF Start
<1>3. TypeOK'
  BY <1>1, <1>2 DEF Fields
<1>4. ASSUME NEW q \in Process PROVE Creating(q)' /\ Seen(q)'
  <2>1. CASE q = p
    BY <1>1, <1>2, <2>1 DEF Creating, Seen
  <2>2. CASE q # p
    <3>1. pc'[q] = pc[q] /\ req'[q] = req[q]
      BY <1>1, <2>2
    <3> QED
      BY <1>2, <3>1 DEF Creating, Seen
  <2> QED
    BY <2>1, <2>2
<1> QED
  BY <1>2, <1>3, <1>4

\* IPC_EXCL: whoever makes the segment is the first and only creator.
LEMMA CreateInv == ASSUME Sizes \subseteq Nat, IInv, NEW p \in Process, CreateShm(p) PROVE IInv'
<1> USE DEF IInv, TypeOK
<1>1. UNCHANGED <<idZero, header, body, req>> /\ pc[p] = "create" /\ ~create_[p]
  BY DEF CreateShm, Creating
<1>2. PICK where \in {"shmat", "failed"} : pc' = [pc EXCEPT ![p] = where]
  BY DEF CreateShm, Goto
<1>3. CASE UNCHANGED <<seg, create_>>
  <2>1. TypeOK'
    BY <1>1, <1>2, <1>3
  <2>2. \A q \in Process : Creating(q)' /\ Seen(q)'
    BY <1>1, <1>2, <1>3 DEF Creating, Seen
  <2> QED
    BY <1>1, <1>3, <2>1, <2>2
<1>4. CASE /\ seg = NoSeg /\ seg' = req[p] /\ create_' = [create_ EXCEPT ![p] = ~idZero]
           /\ Goto(p, IF idZero THEN "failed" ELSE "shmat")
  <2>1. header = {} /\ \A q \in Process : ~create_[q]
    BY <1>4 DEF Creating
  <2>2. \A q \in Process : pc[q] \notin {"version", "size", "in"}
    BY <2>1 DEF Seen
  <2>3. TypeOK' /\ seg' # NoSeg
    BY <1>1, <1>2, <1>4 DEF NoSeg
  <2>4. \A q \in Process : Seen(q)'
    BY <1>1, <1>2, <2>2 DEF Seen
  <2>5. ASSUME NEW q \in Process PROVE Creating(q)'
    <3>1. CASE q = p
      BY <1>1, <1>4, <2>1, <2>3, <3>1 DEF Creating, Goto
    <3>2. CASE q # p
      BY <1>2, <1>4, <2>1, <3>2 DEF Creating
    <3> QED
      BY <3>1, <3>2
  <2>6. \A q, r \in Process : create_'[q] /\ create_'[r] => q = r
    BY <1>4, <2>1
  <2> QED
    BY <1>1, <2>1, <2>3, <2>4, <2>5, <2>6
<1> QED
  BY <1>3, <1>4 DEF CreateShm

\* The creator goes on to clear, the others to check.
LEMMA ShmatInv == ASSUME IInv, NEW p \in Process, Shmat(p) PROVE IInv'
<1> USE DEF IInv, TypeOK
<1>1. PICK where \in {"bzero", "magic", "failed"} :
         /\ pc' = [pc EXCEPT ![p] = where]
         /\ where = "bzero" => create_[p]
         /\ where = "magic" => ~create_[p]
  BY DEF Shmat, Goto
<1>2. UNCHANGED <<seg, idZero, header, body, req, create_>> /\ pc[p] = "shmat"
  BY DEF Shmat
<1>3. TypeOK'
  BY <1>1, <1>2 DEF Fields
<1>4. \A q \in Process : Creating(q)' /\ Seen(q)'
  BY <1>1, <1>2 DEF Creating, Seen
<1> QED
  BY <1>2, <1>3, <1>4

\* The creator clears a header that is still empty, and memory nobody has
\* written to.
LEMMA BzeroInv == ASSUME IInv, NEW p \in Process, Bzero(p) PROVE IInv' /\ body' = body
<1> USE DEF IInv, TypeOK
<1>1. create_[p] /\ header = {} /\ body = {} /\ seg # NoSeg
  BY DEF Bzero, Creating
<1>2. /\ UNCHANGED <<seg, idZero, header, body, req, create_>> /\ pc[p] = "bzero"
      /\ pc' = [pc EXCEPT ![p] = "store"]
  BY <1>1 DEF Bzero, Goto
<1>3. TypeOK'
  BY <1>2
<1>4. \A q \in Process : Creating(q)' /\ Seen(q)'
  BY <1>1, <1>2 DEF Creating, Seen, Fields
<1> QED
  BY <1>2, <1>3, <1>4

\* The stores only add to the header.
LEMMA StoreInv == ASSUME IInv, NEW p \in Process, Store(p) PROVE IInv'
<1> USE DEF IInv, TypeOK
<1>1. PICK f \in Fields \ header :
         /\ header' = header \cup {f}
         /\ pc' = [pc EXCEPT ![p] = IF header' = Fields THEN "in" ELSE "store"]
  BY DEF Store, Goto
<1>2. UNCHANGED <<seg, idZero, body, req, create_>> /\ pc[p] = "store"
  BY DEF Store
<1>3. create_[p] /\ seg # NoSeg /\ req[p] = seg
  BY <1>2 DEF Creating
<1>4. TypeOK'
  BY <1>1, <1>2
<1>5. ASSUME NEW q \in Process PROVE Creating(q)' /\ Seen(q)'
  <2>1. CASE q = p
    BY <1>1, <1>2, <1>3, <2>1 DEF Creating, Seen, Fields
  <2>2. CASE q # p
    <3>1. pc'[q] = pc[q] /\ ~create_[q] /\ header \subseteq header'
      BY <1>1, <1>3, <2>2
    <3> QED
      BY <1>2, <3>1 DEF Creating, Seen
  <2> QED
    BY <2>1, <2>2
<1>6. header' # {}
  BY <1>1
<1> QED
  BY <1>2, <1>3, <1>4, <1>5, <1>6

\* A comparison that succeeds has seen the field; the others start over.
LEMMA CheckInv == ASSUME IInv, NEW p \in Process, Check(p) PROVE IInv'
<1> USE DEF IInv, TypeOK
<1>1. UNCHANGED <<seg, idZero, header, body, req, create_>> /\ pc[p] \in Fields
  BY DEF Check
<1>2. PICK where \in {"magic", "version", "size", "in", "failed"} :
         /\ pc' = [pc EXCEPT ![p] = where]
         /\ \/ where \in {"magic", "failed"}
            \/ FieldOk(p, pc[p]) /\ where = After[pc[p]]
  <2>1. CASE FieldOk(p, pc[p])
    BY <1>1, <2>1 DEF Check, Goto, After, Fields
  <2>2. CASE ~FieldOk(p, pc[p])
    BY <1>1, <2>2 DEF Check, Goto
  <2> QED
    BY <2>1, <2>2
<1>3. TypeOK'
  BY <1>1, <1>2 DEF Fields
<1>4. ~create_[p]
  BY <1>1 DEF Creating, Fields
<1>5. ASSUME NEW q \in Process PROVE Creating(q)' /\ Seen(q)'
  <2>1. CASE q = p
    BY <1>1, <1>2, <1>4, <2>1 DEF Creating, Seen, FieldOk, After, Fields
  <2>2. CASE q # p
    BY <1>1, <1>2, <2>2 DEF Creating, Seen
  <2> QED
    BY <2>1, <2>2
<1> QED
  BY <1>1, <1>3, <1>5

\* Using the memory needs a header; a process that ends takes create_ along.
LEMMA UseEndInv == ASSUME IInv, NEW p \in Process, Use(p) \/ End(p) PROVE IInv'
<1> USE DEF IInv, TypeOK
<1>1. CASE Use(p)
  <2>1. "magic" \in header
    BY <1>1 DEF Use, Seen
  <2> QED
    BY <1>1, <2>1 DEF Use, Creating, Seen
<1>2. CASE End(p)
  <2>1. /\ pc' = [pc EXCEPT ![p] = "off"] /\ create_' = [create_ EXCEPT ![p] = FALSE]
        /\ req' = [req EXCEPT ![p] = 0]
        /\ UNCHANGED <<seg, idZero, header, body>>
    BY <1>2 DEF End, Goto
  <2>2. TypeOK'
    BY <2>1
  <2>3. \A q \in Process : Creating(q)' /\ Seen(q)'
    BY <2>1 DEF Creating, Seen
  <2> QED
    BY <2>1, <2>2, <2>3
<1> QED
  BY <1>1, <1>2

\* The inductive step, of whatever process.
LEMMA StepInv == ASSUME Sizes \subseteq Nat, IInv, [Next]_vars PROVE IInv'
<1>1. CASE Next
  BY <1>1, StartInv, CreateInv, ShmatInv, BzeroInv, StoreInv, CheckInv, UseEndInv DEF Next
<1>2. CASE UNCHANGED vars
  BY <1>2 DEF vars, IInv, TypeOK, Creating, Seen
<1> QED
  BY <1>1, <1>2

\* One creator, a header that only grows, and no marks before the clearing.
THEOREM Invariance == ASSUME Sizes \subseteq Nat PROVE Spec => []IInv
<1>1. IInv /\ [Next]_vars => IInv'
  BY StepInv
<1> QED
  BY InitInv, <1>1, PTL DEF Spec

\* A process whose Init returned true has memory of its size with a finished
\* header, and no creator is still about to clear or to fill it.
THEOREM AttachedTheorem == ASSUME Sizes \subseteq Nat PROVE Spec => []Attached
<1>1. IInv => Attached
  BY DEF IInv, Attached, Creating, Seen, Fields, TypeOK
<1> QED
  BY Invariance, <1>1, PTL

\* What the users of the memory wrote is never cleared by an Init.
THEOREM NeverWipedTheorem == ASSUME Sizes \subseteq Nat PROVE Spec => NeverWiped
<1>1. IInv /\ [Next]_vars => [body \subseteq body']_vars
  <2> SUFFICES ASSUME IInv, Next PROVE body \subseteq body'
    OBVIOUS
  <2>1. ASSUME NEW p \in Process, Bzero(p) PROVE body \subseteq body'
    BY <2>1, BzeroInv
  <2> QED
    BY <2>1 DEF Next, Start, CreateShm, Shmat, Store, Check, Use, End
<1> QED
  BY Invariance, <1>1, PTL DEF Spec, NeverWiped
=============================================================================
