------------------------------- MODULE ShmOP -------------------------------
(***************************************************************************)
(* The shared memory of util/shm_op.{h,cc}: several processes Init the     *)
(* same key, one creates the segment and writes its header while the       *)
(* others attach and check it.  A process may end at any step; the segment *)
(* stays.  Checks, stores and the clearing interleave freely.              *)
(***************************************************************************)
EXTENDS Integers, FiniteSets

CONSTANTS
    Process,
    Sizes,      \* the sizes asked for; 0 is "whatever it has"
    Tries       \* 3 in the code: how often an attacher checks the header

VARIABLES
    seg,      \* size of the segment, NoSeg before shmget creates it
    idZero,   \* the kernel gave it the identifier 0, which the code refuses
    header,   \* the fields of ShmContext that hold their final value
    body,     \* marks left in the memory by its users since it was cleared
    pc, req, create_,
    count     \* failed checks of the running Init

vars == <<seg, idZero, header, body, pc, req, count, create_>>

NoSeg == -1
Fields == {"magic", "version", "size"}

Init ==
    /\ seg = NoSeg
    /\ idZero \in BOOLEAN
    /\ header = {}
    /\ body = {}
    /\ pc = [p \in Process |-> "off"]
    /\ req = [p \in Process |-> 0]
    /\ count = [p \in Process |-> 0]
    /\ create_ = [p \in Process |-> FALSE]

Goto(p, where) == pc' = [pc EXCEPT ![p] = where]

\* ShmOP::Init(size, flag) on an object that is not initialised (init_ false),
\* a second try after a failed one included: create_ keeps its value then, and
\* the caller asks for the same size again (Bzero and the size it stores are the
\* request's, which would otherwise differ from the segment's).
\* CreateShm first looks for an existing segment and takes only id > 0.
Start(p) ==
    /\ pc[p] \in {"off", "failed"}
    /\ \E size \in IF pc[p] = "off" THEN Sizes ELSE {req[p]}, flag \in BOOLEAN :
         /\ req' = [req EXCEPT ![p] = size]
         /\ Goto(p, IF seg # NoSeg /\ ~idZero THEN "shmat"
                    ELSE IF flag THEN "create" ELSE "failed")
    /\ UNCHANGED <<seg, idZero, header, body, count, create_>>

\* A CreateShm without IPC_EXCL believes it created what was there already.
CreateShmShared(p) ==
    /\ pc[p] = "create"
    /\ seg' = IF seg = NoSeg THEN req[p] ELSE seg
    /\ create_' = [create_ EXCEPT ![p] = ~idZero]
    /\ Goto(p, IF idZero THEN "failed" ELSE "shmat")
    /\ UNCHANGED <<idZero, header, body, req, count>>

\* shmget with IPC_EXCL: the one that creates sets create_ (unless the new
\* identifier is 0: then it gives up), the others meet EEXIST and get it.  Any
\* other error ends Init.
CreateShm(p) ==
    /\ pc[p] = "create"
    /\ \/ /\ seg = NoSeg
          /\ seg' = req[p]
          /\ create_' = [create_ EXCEPT ![p] = ~idZero]
          /\ Goto(p, IF idZero THEN "failed" ELSE "shmat")
       \/ /\ seg # NoSeg
          /\ Goto(p, IF idZero THEN "failed" ELSE "shmat")
          /\ UNCHANGED <<seg, create_>>
       \/ Goto(p, "failed") /\ UNCHANGED <<seg, create_>>
    /\ UNCHANGED <<idZero, header, body, req, count>>

\* shmat fails, or the creator goes on to clear and the others to check.
Shmat(p) ==
    /\ pc[p] = "shmat"
    /\ \/ Goto(p, IF create_[p] THEN "bzero" ELSE "magic")
       \/ Goto(p, "failed")
    /\ UNCHANGED <<seg, idZero, header, body, req, count, create_>>

Bzero(p) ==
    /\ pc[p] = "bzero"
    /\ header' = {}
    /\ body' = {}
    /\ Goto(p, "store")
    /\ UNCHANGED <<seg, idZero, req, count, create_>>

\* The three plain stores, visible to the others in any order.
Store(p) ==
    /\ pc[p] = "store"
    /\ \E f \in Fields \ header :
         /\ header' = header \cup {f}
         /\ Goto(p, IF header \cup {f} = Fields THEN "in" ELSE "store")
    /\ UNCHANGED <<seg, idZero, body, req, count, create_>>

\* What the next field has to hold: the size is not compared when 0 was asked.
FieldOk(p, f) ==
    \/ f \in header /\ (f = "size" => req[p] = seg)
    \/ f = "size" /\ req[p] = 0

After == [magic |-> "version", version |-> "size", size |-> "in"]

\* One comparison of the checking loop: on to the next field, or sleep and
\* start over, or give up (shmdt) after the last try.
Check(p) ==
    /\ pc[p] \in Fields
    /\ IF FieldOk(p, pc[p])
         THEN /\ Goto(p, After[pc[p]])
              /\ count' = IF pc[p] = "size" THEN [count EXCEPT ![p] = 0] ELSE count
         ELSE /\ Goto(p, IF count[p] + 1 = Tries THEN "failed" ELSE "magic")
              /\ count' = [count EXCEPT ![p] = (@ + 1) % Tries]
    /\ UNCHANGED <<seg, idZero, header, body, req, create_>>

\* A process whose Init returned true uses GetPtr's memory.
Use(p) ==
    /\ pc[p] = "in"
    /\ body' = body \cup {p}
    /\ UNCHANGED <<seg, idZero, header, pc, req, count, create_>>

\* The process ends anywhere; its next ShmOP is a new object.
End(p) ==
    /\ pc[p] # "off"
    /\ Goto(p, "off")
    /\ create_' = [create_ EXCEPT ![p] = FALSE]
    /\ req' = [req EXCEPT ![p] = 0]
    /\ count' = [count EXCEPT ![p] = 0]
    /\ UNCHANGED <<seg, idZero, header, body>>

Next == \E p \in Process :
    \/ Start(p) \/ CreateShm(p) \/ Shmat(p) \/ Bzero(p) \/ Store(p)
    \/ Check(p) \/ Use(p) \/ End(p)

Spec == Init /\ [][Next]_vars

-----------------------------------------------------------------------------
\* Whoever's Init returned true sees a finished header and memory of the size
\* it asked for, and while it uses that memory nobody is still to clear it.
Attached ==
    \A p \in Process : pc[p] = "in" =>
        /\ {"magic", "version"} \subseteq header
        /\ req[p] \in {0, seg}
        /\ \A q \in Process : ~create_[q] \/ pc[q] = "in" \/ (req[p] = 0 /\ pc[q] = "store")

\* What the users of the memory wrote is never cleared under them.
NeverWiped == [][body \subseteq body']_vars

TypeOK ==
    /\ seg \in Sizes \cup {NoSeg, 0}
    /\ idZero \in BOOLEAN
    /\ header \subseteq Fields
    /\ body \subseteq Process
    /\ pc \in [Process -> {"off", "create", "shmat", "bzero", "store", "in", "failed"}
                           \cup Fields]
    /\ req \in [Process -> Sizes \cup {0}]
    /\ create_ \in [Process -> BOOLEAN]

\* Where a process with create_ set can be, and what the header holds then:
\* nothing before the stores, not everything during them.
Creating(p) ==
    IF create_[p]
    THEN /\ ~idZero /\ seg # NoSeg /\ req[p] = seg
         /\ pc[p] \in {"shmat", "bzero", "failed", "store", "in"}
         /\ pc[p] \in {"shmat", "bzero", "failed"} => header = {}
         /\ pc[p] = "store" => header # Fields
    ELSE pc[p] \notin {"bzero", "store"}

\* What an attaching process has seen of the header is still there.
Seen(p) ==
    /\ pc[p] \in {"version", "size", "in"} => "magic" \in header
    /\ pc[p] \in {"size", "in"} => "version" \in header
    /\ pc[p] = "in" => /\ req[p] \in {0, seg}
                       /\ "size" \in header \/ (req[p] = 0 /\ ~create_[p])

\* There is one creator at most, the header only grows, and marks are in the
\* memory only after the clearing.
IInv ==
    /\ TypeOK
    /\ \A p, q \in Process : create_[p] /\ create_[q] => p = q
    /\ \A p \in Process : Creating(p)
    /\ \A p \in Process : Seen(p)
    /\ seg = NoSeg => header = {}
    /\ body # {} => header # {}
=============================================================================
