---------------------------- MODULE RedisConnPool ----------------------------
(***************************************************************************)
(* helper/redis_helper: util::RedisConnPool, a pool of blocking hiredis    *)
(* contexts shared by the threads of a process.                            *)
(*                                                                         *)
(* BorrowRedisConn and ReturnRedisConn hold the mutex throughout, so each  *)
(* is one step.  While a context is out its owner runs commands on it, and *)
(* hiredis sets its err field when a command fails for good.  Contexts are *)
(* heap objects: an address is reused after redisFree.                     *)
(***************************************************************************)
EXTENDS Integers, Sequences, FiniteSets

CONSTANTS Borrowers,  \* threads that use the pool
          Conns,      \* addresses of redisContext objects
          NULL,       \* no context
          PoolSize    \* pool_size_

ASSUME PoolAssumption ==
    /\ IsFiniteSet(Borrowers)
    /\ NULL \notin Conns
    /\ PoolSize \in Nat

VARIABLES process,  \* "up", "crashed" by a NULL dereference, or "destroyed"
          built,    \* connection attempts made by the constructor
          free,     \* free_conns_
          busy,     \* busy_conn_num_
          held,     \* the context each thread has borrowed
          live,     \* the contexts that are allocated
          err       \* the contexts whose err field is set

vars == <<process, built, free, busy, held, live, err>>

Holders == {b \in Borrowers : held[b] # NULL}

Free == {free[i] : i \in 1..Len(free)}

Init ==
    /\ process = "up"
    /\ built = 0
    /\ free = <<>>
    /\ busy = 0
    /\ held = [b \in Borrowers |-> NULL]
    /\ live = {}
    /\ err = {}

-----------------------------------------------------------------------------
\* Connect either returns a newly allocated context with err clear or, the
\* failed one freed, NULL.
Connected(c) == c \in Conns \ live

\* One turn of the constructor's loop; a failed attempt is not repeated.
Construct ==
    /\ process = "up"
    /\ built < PoolSize
    /\ built' = built + 1
    /\ \/ \E c \in Conns :
             /\ Connected(c)
             /\ free' = Append(free, c)
             /\ live' = live \cup {c}
       \/ UNCHANGED <<free, live>>
    /\ UNCHANGED <<process, busy, held, err>>

Ready == process = "up" /\ built = PoolSize

\* Mutant: the context is handed out without being taken off the list.
BorrowFreeKept(b) ==
    /\ Ready
    /\ held[b] = NULL
    /\ free # <<>>
    /\ busy' = busy + 1
    /\ held' = [held EXCEPT ![b] = Head(free)]
    /\ UNCHANGED <<process, built, free, live, err>>

\* BorrowRedisConn, first branch: the front of the free list.
BorrowFree(b) ==
    /\ Ready
    /\ held[b] = NULL
    /\ free # <<>>
    /\ busy' = busy + 1
    /\ held' = [held EXCEPT ![b] = Head(free)]
    /\ free' = Tail(free)
    /\ UNCHANGED <<process, built, live, err>>

\* busy_conn_num_ < pool_size_
Room == busy < PoolSize

\* Second branch, the connection succeeds.
BorrowNew(b) ==
    /\ Ready
    /\ held[b] = NULL
    /\ free = <<>>
    /\ Room
    /\ \E c \in Conns :
          /\ Connected(c)
          /\ held' = [held EXCEPT ![b] = c]
          /\ live' = live \cup {c}
    /\ busy' = busy + 1
    /\ UNCHANGED <<process, built, free, err>>

\* Second branch, Connect returns NULL: the test of conn->err that follows
\* dereferences it.
BorrowFails(b) ==
    /\ Ready
    /\ held[b] = NULL
    /\ free = <<>>
    /\ Room
    /\ process' = "crashed"
    /\ UNCHANGED <<built, free, busy, held, live, err>>

\* A command on a borrowed context fails and hiredis sets err.
UseFails(b) ==
    /\ Ready
    /\ held[b] # NULL
    /\ err' = err \cup {held[b]}
    /\ UNCHANGED <<process, built, free, busy, held, live>>

\* ReturnRedisConn of a healthy context.
ReturnGood(b) ==
    /\ Ready
    /\ held[b] # NULL
    /\ held[b] \notin err
    /\ free' = Append(free, held[b])
    /\ busy' = busy - 1
    /\ held' = [held EXCEPT ![b] = NULL]
    /\ UNCHANGED <<process, built, live, err>>

\* ReturnRedisConn of a broken context: it is freed, and a new connection,
\* when there is one, takes its place in the free list.
ReturnBad(b) ==
    /\ Ready
    /\ held[b] \in err
    /\ LET rest == live \ {held[b]} IN
       \/ \E c \in Conns \ rest :
             /\ free' = Append(free, c)
             /\ live' = rest \cup {c}
       \/ live' = rest /\ UNCHANGED free
    /\ err' = err \ {held[b]}
    /\ busy' = busy - 1
    /\ held' = [held EXCEPT ![b] = NULL]
    /\ UNCHANGED <<process, built>>

\* The destructor; a borrowed context keeps the pool alive (RedisConnect holds
\* a shared_ptr to it).
Destroy ==
    /\ Ready
    /\ Holders = {}
    /\ process' = "destroyed"
    /\ live' = live \ Free
    /\ free' = <<>>
    /\ UNCHANGED <<built, busy, held, err>>

Next ==
    \/ Construct
    \/ Destroy
    \/ \E b \in Borrowers :
          \/ BorrowFree(b) \/ BorrowNew(b) \/ BorrowFails(b)
          \/ UseFails(b)
          \/ ReturnGood(b) \/ ReturnBad(b)

Spec == Init /\ [][Next]_vars

-----------------------------------------------------------------------------
(* Properties *)

\* Every variable stays in its range.
TypeOK ==
    /\ process \in {"up", "crashed", "destroyed"}
    /\ built \in 0..PoolSize
    /\ free \in Seq(Conns)
    /\ busy \in Int
    /\ held \in [Borrowers -> Conns \cup {NULL}]
    /\ live \in SUBSET Conns
    /\ err \in SUBSET Conns

\* busy_conn_num_ is the number of threads that hold a context, whatever
\* sequence of failures and reconnects has gone by: no slot is ever lost, and
\* so a pool with fewer than pool_size_ holders can always try to serve.
BusyCounts == busy = Cardinality(Holders)

\* The pool never owns more than pool_size_ connections to the server.
Capacity == busy + Len(free) <= PoolSize

\* A context is held by one thread or listed once as free, never both.
NoSharing ==
    /\ \A b, c \in Holders : held[b] = held[c] => b = c
    /\ \A i, j \in 1..Len(free) : free[i] = free[j] => i = j
    /\ \A b \in Holders : held[b] \notin Free

\* What the next borrower gets has no error pending.
FreeHealthy == Free \cap err = {}

\* Every allocated context can still be reached: none leaks.
NoLeak == live = Free \cup {held[b] : b \in Holders}

\* Only contexts that are out can have an error pending.
ErrHeld == err \subseteq {held[b] : b \in Holders}

\* The constructor's attempts bound what the pool owns.
Owned == busy + Len(free) <= built

\* The inductive invariant.
IInv == TypeOK /\ BusyCounts /\ Owned /\ NoSharing /\ NoLeak /\ ErrHeld

=============================================================================
