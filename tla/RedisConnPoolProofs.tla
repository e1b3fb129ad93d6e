------------------------- MODULE RedisConnPoolProofs -------------------------
(***************************************************************************)
(* Proofs about RedisConnPool for any set of threads and any pool size.    *)
(***************************************************************************)
EXTENDS RedisConnPool, FiniteSetTheorems, TLAPS

\* Every step keeps the variables in their ranges.
LEMMA TypeInductive == TypeOK /\ [Next]_vars => TypeOK'
<1> SUFFICES ASSUME TypeOK, [Next]_vars PROVE TypeOK'
  OBVIOUS
<1> USE PoolAssumption DEF TypeOK
<1>1. CASE Construct
  BY <1>1 DEF Construct, Connected
<1>2. CASE Destroy
  BY <1>2 DEF Destroy, Ready
<1>3. ASSUME NEW b \in Borrowers, BorrowFree(b) PROVE TypeOK'
  BY <1>3 DEF BorrowFree, Ready
<1>4. ASSUME NEW b \in Borrowers, BorrowNew(b) PROVE TypeOK'
  BY <1>4 DEF BorrowNew, Ready, Connected
<1>5. ASSUME NEW b \in Borrowers, BorrowFails(b) PROVE TypeOK'
  BY <1>5 DEF BorrowFails, Ready
<1>6. ASSUME NEW b \in Borrowers, UseFails(b) PROVE TypeOK'
  BY <1>6 DEF UseFails, Ready
<1>7. ASSUME NEW b \in Borrowers, ReturnGood(b) PROVE TypeOK'
  BY <1>7 DEF ReturnGood, Ready
<1>8. ASSUME NEW b \in Borrowers, ReturnBad(b) PROVE TypeOK'
  BY <1>8 DEF ReturnBad, Ready
<1>9. CASE UNCHANGED vars
  BY <1>9 DEF vars
<1> QED
  BY <1>1, <1>2, <1>3, <1>4, <1>5, <1>6, <1>7, <1>8, <1>9 DEF Next

\* What each operation does to the set of threads that hold a context.
LEMMA HoldersGrow ==
    ASSUME TypeOK, NEW b \in Borrowers, held[b] = NULL, NEW c \in Conns,
           held' = [held EXCEPT ![b] = c]
    PROVE  Holders' = Holders \cup {b} /\ b \notin Holders
  BY PoolAssumption DEF TypeOK, Holders

\* And a Return takes the thread out of it.
LEMMA HoldersShrink ==
    ASSUME TypeOK, NEW b \in Borrowers, held[b] # NULL,
           held' = [held EXCEPT ![b] = NULL]
    PROVE  Holders' = Holders \ {b} /\ b \in Holders
  BY PoolAssumption DEF TypeOK, Holders

\* busy_conn_num_ follows the set of holders through Borrow and Return.
LEMMA BusyInductive ==
    TypeOK /\ BusyCounts /\ [Next]_vars => BusyCounts'
<1> SUFFICES ASSUME TypeOK, BusyCounts, [Next]_vars PROVE BusyCounts'
  OBVIOUS
<1> USE DEF BusyCounts
<1>1. IsFiniteSet(Holders)
  BY PoolAssumption, FS_Subset DEF Holders
<1>2. ASSUME NEW b \in Borrowers, held[b] = NULL, NEW c \in Conns,
             held' = [held EXCEPT ![b] = c], busy' = busy + 1
      PROVE BusyCounts'
  <2>1. Holders' = Holders \cup {b} /\ b \notin Holders
    BY <1>2, HoldersGrow
  <2>2. Cardinality(Holders \cup {b}) = Cardinality(Holders) + 1
    BY <1>1, <2>1, FS_AddElement
  <2> QED
    BY <1>2, <2>1, <2>2
<1>3. ASSUME NEW b \in Borrowers, held[b] # NULL,
             held' = [held EXCEPT ![b] = NULL], busy' = busy - 1
      PROVE BusyCounts'
  <2>1. Holders' = Holders \ {b} /\ b \in Holders
    BY <1>3, HoldersShrink
  <2>2. Cardinality(Holders \ {b}) = Cardinality(Holders) - 1
    BY <1>1, <2>1, FS_RemoveElement
  <2> QED
    BY <1>3, <2>1, <2>2
<1>4. ASSUME UNCHANGED <<held, busy>> PROVE BusyCounts'
  BY <1>4 DEF Holders
<1>5. ASSUME NEW b \in Borrowers, BorrowFree(b) PROVE BusyCounts'
  <2>1. Head(free) \in Conns
    BY <1>5 DEF BorrowFree, TypeOK
  <2> QED
    BY <1>5, <1>2, <2>1 DEF BorrowFree
<1>6. ASSUME NEW b \in Borrowers, BorrowNew(b) PROVE BusyCounts'
  BY <1>6, <1>2 DEF BorrowNew
<1>7. ASSUME NEW b \in Borrowers, ReturnGood(b) PROVE BusyCounts'
  BY <1>7, <1>3 DEF ReturnGood
<1>8. ASSUME NEW b \in Borrowers, ReturnBad(b) PROVE BusyCounts'
  BY <1>8, <1>3, PoolAssumption DEF ReturnBad, TypeOK
<1>9. CASE Construct \/ Destroy \/ UNCHANGED vars
  BY <1>9, <1>4 DEF Construct, Destroy, vars
<1>10. ASSUME NEW b \in Borrowers, BorrowFails(b) \/ UseFails(b)
       PROVE BusyCounts'
  BY <1>10, <1>4 DEF BorrowFails, UseFails
<1> QED
  BY <1>5, <1>6, <1>7, <1>8, <1>9, <1>10 DEF Next

-----------------------------------------------------------------------------
\* The number of contexts the pool owns, in the free list and lent out, never
\* exceeds the constructor's attempts and so pool_size_.
LEMMA OwnedInductive == TypeOK /\ Owned /\ [Next]_vars => Owned'
<1> SUFFICES ASSUME TypeOK, Owned, [Next]_vars PROVE Owned'
  OBVIOUS
<1> USE PoolAssumption DEF TypeOK, Owned
<1>1. CASE Construct
  BY <1>1 DEF Construct
<1>2. CASE Destroy
  BY <1>2 DEF Destroy
<1>3. ASSUME NEW b \in Borrowers, BorrowFree(b) PROVE Owned'
  <2>1. Len(free') = Len(free) - 1
    BY <1>3 DEF BorrowFree
  <2> QED
    BY <1>3, <2>1 DEF BorrowFree
<1>4. ASSUME NEW b \in Borrowers, BorrowNew(b) PROVE Owned'
  <2>1. Len(free) = 0 /\ built = PoolSize
    BY <1>4 DEF BorrowNew, Ready
  <2> QED
    BY <1>4, <2>1 DEF BorrowNew, Room
<1>5. ASSUME NEW b \in Borrowers, ReturnGood(b) PROVE Owned'
  <2>1. Len(free') = Len(free) + 1
    BY <1>5 DEF ReturnGood
  <2> QED
    BY <1>5, <2>1 DEF ReturnGood
<1>6. ASSUME NEW b \in Borrowers, ReturnBad(b) PROVE Owned'
  <2>1. Len(free') = Len(free) + 1 \/ free' = free
    BY <1>6 DEF ReturnBad
  <2> QED
    BY <1>6, <2>1 DEF ReturnBad
<1>7. ASSUME NEW b \in Borrowers, BorrowFails(b) \/ UseFails(b) PROVE Owned'
  BY <1>7 DEF BorrowFails, UseFails
<1>8. CASE UNCHANGED vars
  BY <1>8 DEF vars
<1> QED
  BY <1>1, <1>2, <1>3, <1>4, <1>5, <1>6, <1>7, <1>8 DEF Next

\* push_back adds one context to the free list.
LEMMA FreeAppend ==
    ASSUME TypeOK, NEW c \in Conns, free' = Append(free, c)
    PROVE  Free' = Free \cup {c}
  BY DEF TypeOK, Free

\* pop_front removes the context at the front and no other.
LEMMA FreeTail ==
    ASSUME TypeOK, NoSharing, free # <<>>, free' = Tail(free)
    PROVE  Free' = Free \ {Head(free)} /\ Head(free) \in Free
<1>1. /\ Len(free) \in Nat /\ Len(free) >= 1
      /\ Len(free') = Len(free) - 1
      /\ \A i \in 1..Len(free') : free'[i] = free[i + 1]
      /\ Head(free) = free[1]
  BY DEF TypeOK
<1>2. \A x \in Free' : x \in Free /\ x # Head(free)
  BY <1>1 DEF Free, NoSharing
<1>3. \A x \in Free \ {Head(free)} : x \in Free'
  <2> SUFFICES ASSUME NEW x \in Free \ {Head(free)} PROVE x \in Free'
    OBVIOUS
  <2>1. PICK i \in 1..Len(free) : x = free[i]
    BY DEF Free
  <2>2. i - 1 \in 1..Len(free') /\ free'[i - 1] = x
    BY <1>1, <2>1
  <2> QED
    BY <2>2 DEF Free
<1> QED
  BY <1>1, <1>2, <1>3 DEF Free

\* Ownership: every live context is free once or held by one thread, and only
\* held ones can be broken.
LEMMA OwnershipInductive ==
    TypeOK /\ NoSharing /\ NoLeak /\ ErrHeld /\ [Next]_vars
        => NoSharing' /\ NoLeak' /\ ErrHeld'
<1> SUFFICES ASSUME TypeOK, NoSharing, NoLeak, ErrHeld, [Next]_vars
             PROVE NoSharing' /\ NoLeak' /\ ErrHeld'
  OBVIOUS
<1> DEFINE Out == {held[b] : b \in Holders}
<1>0. Free \subseteq Conns /\ Out \subseteq Conns /\ Free \cap Out = {}
  BY DEF TypeOK, Free, Holders, NoSharing
<1>1. CASE Construct
  <2>1. Holders' = Holders /\ Out' = Out
    BY <1>1 DEF Construct, Holders
  <2>2. CASE UNCHANGED <<free, live>>
    BY <1>1, <2>1, <2>2 DEF Construct, NoSharing, NoLeak, ErrHeld, Free
  <2>3. ASSUME NEW c \in Conns, Connected(c), free' = Append(free, c),
               live' = live \cup {c}
        PROVE NoSharing' /\ NoLeak' /\ ErrHeld'
    <3>1. Free' = Free \cup {c}
      BY <2>3, FreeAppend
    <3>2. c \notin Free /\ c \notin Out
      BY <2>3 DEF Connected, NoLeak
    <3>3. NoSharing'
      BY <1>1, <2>1, <2>3, <3>1, <3>2
         DEF Construct, NoSharing, Free, TypeOK
    <3> QED
      BY <1>1, <2>1, <2>3, <3>1, <3>3 DEF Construct, NoLeak, ErrHeld
  <2> QED
    BY <1>1, <2>2, <2>3 DEF Construct
<1>2. CASE Destroy
  <2>1. Holders' = {} /\ Free' = {} /\ Out = {}
    BY <1>2 DEF Destroy, Holders, Free
  <2> QED
    BY <1>2, <2>1 DEF Destroy, NoSharing, NoLeak, ErrHeld
<1>3. ASSUME NEW b \in Borrowers, BorrowFree(b)
      PROVE NoSharing' /\ NoLeak' /\ ErrHeld'
  <2>1. Free' = Free \ {Head(free)} /\ Head(free) \in Free
    BY <1>3, FreeTail DEF BorrowFree
  <2>2. Holders' = Holders \cup {b} /\ b \notin Holders
    BY <1>0, <1>3, <2>1, HoldersGrow DEF BorrowFree
  <2>3. held'[b] = Head(free) /\ \A d \in Holders : held'[d] = held[d]
    BY <1>3, <2>2 DEF BorrowFree, TypeOK, Holders
  <2>4. Out' = Out \cup {Head(free)}
    BY <2>2, <2>3
  <2>5. \A i, j \in 1..Len(free') : free'[i] = free'[j] => i = j
    BY <1>3 DEF BorrowFree, NoSharing, TypeOK
  <2>6. NoSharing'
    BY <1>0, <2>1, <2>2, <2>3, <2>5 DEF NoSharing
  <2> QED
    BY <1>3, <2>1, <2>4, <2>6 DEF BorrowFree, NoLeak, ErrHeld
<1>4. ASSUME NEW b \in Borrowers, BorrowNew(b)
      PROVE NoSharing' /\ NoLeak' /\ ErrHeld'
  <2>1. PICK c \in Conns : /\ Connected(c)
                           /\ held' = [held EXCEPT ![b] = c]
                           /\ live' = live \cup {c}
    BY <1>4 DEF BorrowNew
  <2>2. Holders' = Holders \cup {b} /\ b \notin Holders
    BY <1>4, <2>1, HoldersGrow DEF BorrowNew
  <2>3. held'[b] = c /\ \A d \in Holders : held'[d] = held[d]
    BY <2>1, <2>2 DEF TypeOK, Holders
  <2>4. Out' = Out \cup {c} /\ Free' = Free
    BY <1>4, <2>2, <2>3 DEF BorrowNew, Free
  <2>5. c \notin Free /\ c \notin Out
    BY <2>1 DEF Connected, NoLeak
  <2>6. NoSharing'
    BY <1>4, <2>2, <2>3, <2>4, <2>5 DEF BorrowNew, NoSharing
  <2> QED
    BY <1>4, <2>1, <2>4, <2>6 DEF BorrowNew, NoLeak, ErrHeld
<1>5. ASSUME NEW b \in Borrowers, ReturnGood(b)
      PROVE NoSharing' /\ NoLeak' /\ ErrHeld'
  <2>1. held[b] \in Conns /\ b \in Holders
    BY <1>5 DEF ReturnGood, TypeOK, Holders
  <2>2. Holders' = Holders \ {b}
    BY <1>5, HoldersShrink DEF ReturnGood
  <2>3. \A d \in Holders' : held'[d] = held[d]
    BY <1>5, <2>2 DEF ReturnGood, TypeOK, Holders
  <2>4. Out' = Out \ {held[b]}
    BY <2>1, <2>2, <2>3 DEF NoSharing
  <2>5. Free' = Free \cup {held[b]}
    BY <1>5, <2>1, FreeAppend DEF ReturnGood
  <2>6. NoSharing'
    BY <1>5, <2>1, <2>2, <2>3, <2>5 DEF ReturnGood, NoSharing, Free, TypeOK
  <2> QED
    BY <1>5, <2>1, <2>4, <2>5, <2>6 DEF ReturnGood, NoLeak, ErrHeld
<1>6. ASSUME NEW b \in Borrowers, ReturnBad(b)
      PROVE NoSharing' /\ NoLeak' /\ ErrHeld'
  <2>1. held[b] \in Conns /\ b \in Holders
    BY <1>6, PoolAssumption DEF ReturnBad, TypeOK, Holders
  <2>2. Holders' = Holders \ {b}
    BY <1>6, <2>1, HoldersShrink DEF ReturnBad, Holders
  <2>3. \A d \in Holders' : held'[d] = held[d]
    BY <1>6, <2>2 DEF ReturnBad, TypeOK, Holders
  <2>4. Out' = Out \ {held[b]}
    BY <2>1, <2>2, <2>3 DEF NoSharing
  <2>5. ErrHeld'
    BY <1>6, <2>4 DEF ReturnBad, ErrHeld
  <2>6. CASE live' = live \ {held[b]} /\ UNCHANGED free
    BY <1>0, <2>2, <2>3, <2>4, <2>5, <2>6, <2>1 DEF NoSharing, NoLeak, Free
  <2>7. ASSUME NEW c \in Conns \ (live \ {held[b]}), free' = Append(free, c),
               live' = (live \ {held[b]}) \cup {c}
        PROVE NoSharing' /\ NoLeak' /\ ErrHeld'
    <3>1. Free' = Free \cup {c}
      BY <2>7, FreeAppend
    <3>2. c \notin Free /\ c \notin Out'
      BY <1>0, <2>1, <2>4, <2>7 DEF NoLeak
    <3>3. NoSharing'
      BY <2>2, <2>3, <2>7, <3>1, <3>2 DEF NoSharing, Free, TypeOK
    <3> QED
      BY <1>0, <2>1, <2>4, <2>5, <2>7, <3>1, <3>3 DEF NoLeak
  <2> QED
    BY <1>6, <2>6, <2>7 DEF ReturnBad
<1>7. ASSUME NEW b \in Borrowers, BorrowFails(b) \/ UseFails(b)
      PROVE NoSharing' /\ NoLeak' /\ ErrHeld'
  BY <1>7 DEF BorrowFails, UseFails, NoSharing, NoLeak, ErrHeld, Free, Holders
<1>8. CASE UNCHANGED vars
  BY <1>8 DEF vars, NoSharing, NoLeak, ErrHeld, Free, Holders
<1> QED
  BY <1>1, <1>2, <1>3, <1>4, <1>5, <1>6, <1>7, <1>8 DEF Next

-----------------------------------------------------------------------------
\* The invariant holds before the constructor has run.
LEMMA PoolInit == Init => IInv
<1> SUFFICES ASSUME Init PROVE IInv
  OBVIOUS
<1>1. Holders = {} /\ Free = {}
  BY DEF Init, Holders, Free
<1>2. TypeOK
  BY PoolAssumption DEF Init, TypeOK
<1>3. BusyCounts
  BY <1>1, FS_EmptySet DEF Init, BusyCounts
<1> QED
  BY <1>1, <1>2, <1>3 DEF Init, IInv, Owned, NoSharing, NoLeak, ErrHeld

\* Every step of the pool keeps it.
LEMMA PoolInductive == IInv /\ [Next]_vars => IInv'
  BY TypeInductive, BusyInductive, OwnedInductive, OwnershipInductive DEF IInv

\* The inductive invariant holds in every reachable state of the pool.
THEOREM Invariance == Spec => []IInv
  BY PoolInit, PoolInductive, PTL DEF Spec

\* No slot is lost: busy_conn_num_ is the number of threads holding a context.
THEOREM BusyTheorem == Spec => []BusyCounts
<1>1. IInv => BusyCounts
  BY DEF IInv
<1> QED
  BY <1>1, Invariance, PTL

\* The pool keeps at most pool_size_ connections.
THEOREM CapacityTheorem == Spec => []Capacity
<1>1. IInv => Capacity
  BY PoolAssumption DEF IInv, Owned, Capacity, TypeOK
<1> QED
  BY <1>1, Invariance, PTL

\* No context is used by two threads, and none is leaked.
THEOREM OwnershipTheorem == Spec => [](NoSharing /\ NoLeak)
<1>1. IInv => NoSharing /\ NoLeak
  BY DEF IInv
<1> QED
  BY <1>1, Invariance, PTL

\* BorrowRedisConn never hands out a context with an error pending.
THEOREM HealthTheorem == Spec => []FreeHealthy
<1>1. IInv => FreeHealthy
  BY DEF IInv, NoSharing, ErrHeld, FreeHealthy
<1> QED
  BY <1>1, Invariance, PTL

=============================================================================
