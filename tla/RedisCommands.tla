---------------------------- MODULE RedisCommands ----------------------------
(***************************************************************************)
(* helper/redis_helper: the hash commands of RedisCliPool and              *)
(* RedisCliPoolImpl, run by several threads over the contexts of one       *)
(* RedisConnPool (the pool's own steps are those of RedisConnPool.tla).    *)
(*                                                                         *)
(* HSet, HMDel, HGet and HMGet (HGetAll is HMGet without fields) send one  *)
(* command and wait for its reply; HMSet appends one command per field and *)
(* then reads as many replies.  A command that fails is tried again on     *)
(* another borrow, up to max_try_times.  Replies carry no tag: a reply     *)
(* belongs to the oldest unanswered command of its connection.             *)
(*                                                                         *)
(* A context is its output buffer, the requests on their way to the server *)
(* and the replies on their way back (in the network or in the reader).    *)
(* When it is freed, requests already sent may still reach the server; no  *)
(* caller can tell, so they may as well be executed at that moment.        *)
(***************************************************************************)
EXTENDS RedisConnPool

CONSTANTS MaxTry,  \* max_try_times
          Fields,  \* fields of an HMSet, each a command of its pipeline
          MaxOps   \* bound: calls per thread

ASSUME CommandsAssumption ==
    /\ MaxTry \in 1..10
    /\ Fields \in Nat \ {0}
    /\ MaxOps \in Nat

VARIABLES pc,      \* where each thread is
          kind,    \* the command it is running
          ops,     \* its calls so far
          try,     \* i of the retry loop, from 1
          asks,    \* borrows of this try that returned NULL
          todo,    \* commands it has still to append
          due,     \* its requests that wait for a reply, oldest first
          reply,   \* what the last read gave it
          ptr,     \* its local variable reply in HMSetImpl
          result,  \* what its last call returned
          obuf,    \* obuf of each context
          wire,    \* requests sent on each context and not served
          back,    \* replies sent on each context and not read
          applied, \* history: the requests of running calls that the server
                   \* executed, where the verdict depends on it
          heap     \* "corrupt" once a reply has been freed twice

threadVars == <<pc, kind, ops, try, asks, todo, due, reply, ptr, result>>
connVars   == <<obuf, wire, back>>
allVars    == <<vars, threadVars, connVars, applied, heap>>

Kinds == {"HSet", "HMDel", "HGet", "HMGet", "HMSet"}

\* A request: who sent it, in which call and try, and its place in the try.
Request == Borrowers \X (1..MaxOps) \X (1..MaxTry) \X (1..Fields)

\* What comes back: the reply the caller expects, an error reply, or a reply
\* of a type it does not expect.
Reply == [req : Request, type : {"value", "error", "other"}]

CmdInit ==
    /\ Init
    /\ pc = [b \in Borrowers |-> "idle"]
    /\ kind = [b \in Borrowers |-> "HSet"]
    /\ ops = [b \in Borrowers |-> 0]
    /\ try = [b \in Borrowers |-> 1]
    /\ asks = [b \in Borrowers |-> 0]
    /\ todo = [b \in Borrowers |-> 0]
    /\ due = [b \in Borrowers |-> <<>>]
    /\ reply = [b \in Borrowers |-> "none"]
    /\ ptr = [b \in Borrowers |-> "null"]
    /\ result = [b \in Borrowers |-> "none"]
    /\ obuf = [c \in Conns |-> <<>>]
    /\ wire = [c \in Conns |-> <<>>]
    /\ back = [c \in Conns |-> <<>>]
    /\ applied = {}
    /\ heap = "ok"

-----------------------------------------------------------------------------
(* Calling and borrowing *)

Call(b) ==
    /\ Ready
    /\ pc[b] = "idle"
    /\ ops[b] < MaxOps
    /\ \E k \in Kinds : kind' = [kind EXCEPT ![b] = k]
    /\ ops' = [ops EXCEPT ![b] = @ + 1]
    /\ try' = [try EXCEPT ![b] = 1]
    /\ asks' = [asks EXCEPT ![b] = 0]
    /\ result' = [result EXCEPT ![b] = "none"]
    /\ applied' = {r \in applied : r[1] # b}
    /\ pc' = [pc EXCEPT ![b] = "borrow"]
    /\ UNCHANGED <<vars, connVars, todo, due, reply, ptr, heap>>

\* RedisCliPoolImpl::BorrowRedisConn is given a context.
Borrow(b) ==
    /\ pc[b] = "borrow"
    /\ BorrowFree(b) \/ BorrowNew(b)
    /\ pc' = [pc EXCEPT ![b] = "append"]
    /\ todo' = [todo EXCEPT ![b] = IF kind[b] = "HMSet" THEN Fields ELSE 1]
    /\ due' = [due EXCEPT ![b] = <<>>]
    /\ UNCHANGED <<connVars, reply, ptr, kind, ops, try, asks, result, applied, heap>>

BorrowCrashes(b) ==
    /\ pc[b] = "borrow"
    /\ BorrowFails(b)
    /\ UNCHANGED <<connVars, threadVars, applied, heap>>

\* What a call does after a try that did or did not succeed.
EndTry(b, succeeded) ==
    /\ asks' = [asks EXCEPT ![b] = 0]
    /\ IF succeeded \/ try[b] = MaxTry
       THEN /\ pc' = [pc EXCEPT ![b] = "idle"]
            /\ result' = [result EXCEPT ![b] =
                             IF succeeded THEN "succ" ELSE "fail"]
            /\ UNCHANGED try
       ELSE /\ pc' = [pc EXCEPT ![b] = "borrow"]
            /\ try' = [try EXCEPT ![b] = @ + 1]
            /\ UNCHANGED result

\* The pool is exhausted and gives NULL: it is asked a second time, then the
\* try has failed.
BorrowNull(b) ==
    /\ Ready
    /\ pc[b] = "borrow"
    /\ free = <<>> /\ ~Room
    /\ \/ asks[b] = 0 /\ asks' = [asks EXCEPT ![b] = 1]
                      /\ UNCHANGED <<pc, try, result>>
       \/ asks[b] = 1 /\ EndTry(b, FALSE)
    /\ UNCHANGED <<vars, connVars, kind, ops, todo, due, reply, ptr, applied, heap>>

-----------------------------------------------------------------------------
(* One exchange: redisAppendCommand, redisGetReply *)

\* The commands are appended to the output buffer.  Without memory hiredis
\* sets err: redisCommand then returns NULL, HMSetImpl goes on to the next
\* field.
Append1(b) ==
    /\ Ready
    /\ pc[b] = "append"
    /\ todo' = [todo EXCEPT ![b] = @ - 1]
    /\ LET c   == held[b]
           req == <<b, ops[b], try[b], todo[b]>> IN
       \/ /\ obuf' = [obuf EXCEPT ![c] = Append(@, req)]
          /\ due' = [due EXCEPT ![b] = Append(@, req)]
          /\ UNCHANGED err
       \/ /\ err' = err \cup {c}
          /\ UNCHANGED <<obuf, due>>
    /\ pc' = [pc EXCEPT ![b] =
                IF todo[b] > 1 THEN "append"
                ELSE IF due'[b] = <<>> THEN "finish" ELSE "write"]
    /\ UNCHANGED <<process, built, free, busy, held, live>>
    /\ UNCHANGED <<wire, back, kind, ops, try, asks, reply, ptr, result, applied, heap>>

\* redisGetReply finds no reply in the reader and writes the whole buffer.
Write(b) ==
    /\ Ready
    /\ pc[b] = "write"
    /\ LET c == held[b] IN
       /\ c \notin err
       /\ wire' = [wire EXCEPT ![c] = @ \o obuf[c]]
       /\ obuf' = [obuf EXCEPT ![c] = <<>>]
    /\ pc' = [pc EXCEPT ![b] = "read"]
    /\ UNCHANGED <<vars, back, kind, ops, try, asks, todo, due, reply, ptr,
                   result, applied, heap>>

\* A write fails, at once when err is set, else after any part was sent.
WriteFails(b) ==
    /\ Ready
    /\ pc[b] = "write"
    /\ LET c == held[b] IN
       /\ err' = err \cup {c}
       /\ \E n \in 0..Len(obuf[c]) :
             /\ c \in err => n = 0
             /\ wire' = [wire EXCEPT ![c] = @ \o SubSeq(obuf[c], 1, n)]
             /\ obuf' = [obuf EXCEPT ![c] = SubSeq(@, n + 1, Len(@))]
    /\ reply' = [reply EXCEPT ![b] = "lost"]
    /\ pc' = [pc EXCEPT ![b] = "finish"]
    /\ UNCHANGED <<process, built, free, busy, held, live>>
    /\ UNCHANGED <<back, kind, ops, try, asks, todo, due, ptr, result, applied, heap>>

\* redisGetReply returns the oldest reply.  HMSetImpl takes any reply, frees
\* it and goes on; the other commands keep it for their verdict.
Read(b) ==
    /\ Ready
    /\ pc[b] = "read"
    /\ LET c == held[b] IN
       /\ back[c] # <<>>
       /\ reply' = [reply EXCEPT ![b] = Head(back[c]).type]
       /\ back' = [back EXCEPT ![c] = Tail(@)]
    /\ due' = [due EXCEPT ![b] = Tail(@)]
    /\ pc' = [pc EXCEPT ![b] = IF Len(due[b]) > 1 THEN "read" ELSE "finish"]
    /\ ptr' = [ptr EXCEPT ![b] = IF kind[b] = "HMSet" THEN "freed" ELSE "live"]
    /\ UNCHANGED <<vars, obuf, wire, kind, ops, try, asks, todo, result, applied, heap>>

\* Mutant: a receive timeout is not noted in err.
ReadFailsQuietly(b) ==
    /\ Ready
    /\ pc[b] = "read"
    /\ reply' = [reply EXCEPT ![b] = "lost"]
    /\ pc' = [pc EXCEPT ![b] = "finish"]
    /\ UNCHANGED <<vars, connVars, kind, ops, try, asks, todo, due, ptr, result,
                   applied, heap>>

\* Mutant: the error path frees the context it has borrowed.
ReadFailsFrees(b) ==
    /\ Ready
    /\ pc[b] = "read"
    /\ err' = err \cup {held[b]}
    /\ live' = live \ {held[b]}
    /\ reply' = [reply EXCEPT ![b] = "lost"]
    /\ pc' = [pc EXCEPT ![b] = "finish"]
    /\ UNCHANGED <<process, built, free, busy, held>>
    /\ UNCHANGED <<connVars, kind, ops, try, asks, todo, due, ptr, result,
                   applied, heap>>

\* The receive timeout expires, the server closes or the answer cannot be
\* parsed: hiredis sets err and leaves *reply alone.
ReadFails(b) ==
    /\ Ready
    /\ pc[b] = "read"
    /\ err' = err \cup {held[b]}
    /\ reply' = [reply EXCEPT ![b] = "lost"]
    /\ pc' = [pc EXCEPT ![b] = "finish"]
    /\ UNCHANGED <<process, built, free, busy, held, live>>
    /\ UNCHANGED <<connVars, kind, ops, try, asks, todo, due, ptr, result,
                   applied, heap>>

-----------------------------------------------------------------------------
(* The verdict and the return of the context *)

Unbroken(b) == held[b] \notin err

\* Mutant: any reply is a success.
HSetImplAny(b) == Unbroken(b)

HSetImpl(b) == Unbroken(b) /\ reply[b] = "value"

\* An error reply makes HMDelImpl return false, that is 0.
HMDelImpl(b) == Unbroken(b) /\ reply[b] \in {"value", "error"}

\* A reply of another type is logged and still returns true.
HGetImpl(b) == Unbroken(b) /\ reply[b] \in {"value", "other"}

HMGetImpl(b) == Unbroken(b) /\ reply[b] \in {"value", "other"}

\* Replies are counted, not looked at; only a failed read returns false.
HMSetImpl(b) == reply[b] # "lost"

\* What the retry loop takes for a success.
Succeeded(b) ==
    CASE kind[b] = "HSet"  -> HSetImpl(b)
      [] kind[b] = "HMDel" -> HMDelImpl(b)
      [] kind[b] = "HGet"  -> HGetImpl(b)
      [] kind[b] = "HMGet" -> HMGetImpl(b)
      [] kind[b] = "HMSet" -> HMSetImpl(b)

\* HMSetImpl frees reply after a failed redisGetReply, which did not set it:
\* from the second reply on this frees the previous reply again.
FreesStale(b) == kind[b] = "HMSet" /\ reply[b] = "lost" /\ ptr[b] = "freed"

\* The requests of calls whose verdict says something of the server's side.
Telling(reqs) == {r \in reqs : kind[r[1]] \in {"HSet", "HMDel"}}

\* Every path of the Impl functions returns the context, and their locals are
\* gone.  A broken context is freed; any part of what was sent on it may still
\* be executed.
Finish(b) ==
    /\ pc[b] = "finish"
    /\ \/ ReturnGood(b) /\ UNCHANGED <<connVars, applied>>
       \/ LET c == held[b] IN
          /\ ReturnBad(b)
          /\ obuf' = [obuf EXCEPT ![c] = <<>>]
          /\ wire' = [wire EXCEPT ![c] = <<>>]
          /\ back' = [back EXCEPT ![c] = <<>>]
          /\ \E late \in SUBSET Telling({wire[c][i] : i \in 1..Len(wire[c])}) :
                applied' = applied \cup late
    /\ heap' = IF FreesStale(b) THEN "corrupt" ELSE heap
    /\ EndTry(b, Succeeded(b))
    /\ due' = [due EXCEPT ![b] = <<>>]
    /\ reply' = [reply EXCEPT ![b] = "none"]
    /\ ptr' = [ptr EXCEPT ![b] = "null"]
    /\ UNCHANGED <<kind, ops, todo>>

-----------------------------------------------------------------------------
(* The server *)

\* It serves the requests of a connection in order: executes one and replies,
\* or replies without executing it.
Serve(c) ==
    /\ wire[c] # <<>>
    /\ \E t \in {"value", "error", "other"} :
          /\ back' = [back EXCEPT ![c] =
                         Append(@, [req |-> Head(wire[c]), type |-> t])]
          /\ applied' = IF t = "value" THEN applied \cup Telling({Head(wire[c])})
                                       ELSE applied
    /\ wire' = [wire EXCEPT ![c] = Tail(@)]
    /\ UNCHANGED <<vars, threadVars, obuf, heap>>

\* The pool is built before the threads run and destroyed after them.
PoolStep ==
    /\ Construct \/ (Destroy /\ \A b \in Borrowers : pc[b] = "idle")
    /\ UNCHANGED <<threadVars, connVars, applied, heap>>

Exchange(b) ==
    Append1(b) \/ Write(b) \/ WriteFails(b) \/ Read(b) \/ ReadFails(b)

CmdNext ==
    \/ PoolStep
    \/ \E c \in Conns : Serve(c)
    \/ \E b \in Borrowers :
          \/ Call(b) \/ Borrow(b) \/ BorrowCrashes(b) \/ BorrowNull(b)
          \/ Exchange(b) \/ Finish(b)

CmdSpec == CmdInit /\ [][CmdNext]_allVars

-----------------------------------------------------------------------------
(* Properties *)

\* Every variable stays in its range.
CmdTypeOK ==
    /\ TypeOK
    /\ pc \in [Borrowers -> {"idle", "borrow", "append", "write", "read",
                             "finish"}]
    /\ kind \in [Borrowers -> Kinds]
    /\ ops \in [Borrowers -> 0..MaxOps]
    /\ try \in [Borrowers -> 1..MaxTry]
    /\ asks \in [Borrowers -> {0, 1}]
    /\ todo \in [Borrowers -> 0..Fields]
    /\ due \in [Borrowers -> Seq(Request)]
    /\ reply \in [Borrowers -> {"none", "value", "error", "other", "lost"}]
    /\ ptr \in [Borrowers -> {"null", "live", "freed"}]
    /\ result \in [Borrowers -> {"none", "succ", "fail"}]
    /\ obuf \in [Conns -> Seq(Request)]
    /\ wire \in [Conns -> Seq(Request)]
    /\ back \in [Conns -> Seq(Reply)]
    /\ applied \in SUBSET Request
    /\ heap \in {"ok", "corrupt"}

Reqs(replies) == [i \in 1..Len(replies) |-> replies[i].req]

\* The requests of a context that will be answered, oldest first: answered and
\* not read, sent and not answered, appended and not sent.
Pipe(c) == Reqs(back[c]) \o wire[c] \o obuf[c]

\* Replies are untagged, yet a thread only ever reads replies to its own
\* requests, oldest first: on a healthy context the replies under way, the
\* requests under way and those not yet written are exactly what it waits for.
\* A context in the free list carries no request and no reply of its last
\* user, whatever way the exchange ended.
RepliesMatch ==
    /\ \A b \in Borrowers :
          (held[b] # NULL /\ held[b] \notin err) => Pipe(held[b]) = due[b]
    /\ \A c \in Free : obuf[c] = <<>> /\ wire[c] = <<>> /\ back[c] = <<>>

\* When HSet returns a count the server has executed the command of the last
\* try, although earlier tries may have been lost or may still arrive.
HSetDone ==
    \A b \in Borrowers :
        (kind[b] = "HSet" /\ result[b] = "succ")
            => <<b, ops[b], try[b], 1>> \in applied

\* A thread holds a context from its borrow to its return, and has a call, a
\* command to append and a reply to wait for where it says so.
Holding(b) ==
    /\ held[b] # NULL <=> pc[b] \in {"append", "write", "read", "finish"}
    /\ pc[b] # "idle" => ops[b] > 0
    /\ pc[b] = "append" => todo[b] > 0
    /\ pc[b] \in {"write", "read"} => due[b] # <<>>

\* What a thread waits for is what its healthy context will answer: nothing
\* more when it is about to return it.
Matches(b) ==
    (held[b] # NULL /\ held[b] \notin err) =>
        /\ Pipe(held[b]) = due[b]
        /\ pc[b] = "finish" => due[b] = <<>>

\* A context nobody holds, freed ones included, carries nothing.
Clean(c) ==
    (\A b \in Borrowers : held[b] # c)
        => obuf[c] = <<>> /\ wire[c] = <<>> /\ back[c] = <<>>

\* With the invariant of the pool, this is inductive.
CmdIInv ==
    /\ CmdTypeOK
    /\ \A b \in Borrowers : Holding(b) /\ Matches(b)
    /\ \A c \in Conns : Clean(c)

\* No reply object is freed twice.
FreesOnce == heap = "ok"

\* The commands use the pool as RedisConnPool allows.
ImplementsPool == Spec

=============================================================================
