----------------------------- MODULE AsyncMapCli -----------------------------
(***************************************************************************)
(* thrift_sync_async_demo/cli built with DAsyncMapCli: ComputeReqWithTimeOut*)
(* requests that AsyncMapCliMgn spreads over clients, each bound to an      *)
(* EventThread, and the load loop of main.cpp, in which every answer starts *)
(* the next request.                                                        *)
(*                                                                          *)
(* An EventThread appears as EventThread.tla establishes it: AddTask queues *)
(* a task or refuses it, and the loop swaps the queue out and runs it in    *)
(* order.  A request is owned by shared pointers: that of its maker, that   *)
(* of its task and that in the callback its channel keeps.                  *)
(***************************************************************************)
EXTENDS Naturals, Sequences, FiniteSets

CONSTANTS Main,        \* the main thread
          NumThreads,  \* thread_num: event threads
          NumClients,  \* asyncMapCliPtrVec.size()
          Concurrent,  \* FLAGS_concurrent: requests main starts
          QueueSize,   \* queue_size_ of an EventThread
          IndexMod,    \* atomic_index is counted modulo this (2^64 in the code)
          MaxReqs      \* bound: requests made in a behaviour

Threads == 0..(NumThreads - 1)
Workers == Threads \cup {Main}
Req     == 1..MaxReqs
Members == {"tAsyncChannelPtr", "tBinaryProtocolFactoryPtr", "cobClientPtr"}

VARIABLES atomicIndex, \* AsyncMapCliMgn::atomic_index
          pc,          \* what each thread is doing
          left,        \* requests the loop of main has still to start
          made,        \* requests constructed so far
          cur,         \* the request each thread is in ProcessReq for, 0 for none
          cob,         \* the request each event thread is in Cob for, 0 for none
          thread,      \* the event thread of each request's client
          status,      \* status
          members,     \* members of each request that are not null
          holders,     \* who owns each request
          freed,       \* requests destroyed
          heap,        \* "corrupt" once a destroyed request was touched
          tasks,       \* tasks_ of each event thread
          batch,       \* tasks its HandleTask has swapped out and not run
          chan,        \* each request's channel
          result,      \* results given to each request's callback
          lost,        \* requests whose callback will never run
          totalSend, totalRecv, totalError   \* g_total_*

vars == <<atomicIndex, pc, left, made, cur, cob, thread, status, members, holders,
          freed, heap, tasks, batch, chan, result, lost, totalSend, totalRecv,
          totalError>>

ownVars  == <<members, holders, freed, heap>>
loopVars == <<tasks, batch>>
netVars  == <<chan>>
statVars == <<totalSend, totalRecv, totalError>>

\* AsyncMapCliMgn::Init: clients take the threads of the pool in turn.
ClientThread(c) == c % NumThreads

\* atomic_index is not initialised.
Init ==
    /\ atomicIndex \in 0..(IndexMod - 1)
    /\ pc = [w \in Workers |-> IF w = Main THEN "ProcessReq" ELSE "loop"]
    /\ left = Concurrent - 1
    /\ made = 0
    /\ cur = [w \in Workers |-> 0]
    /\ cob = [t \in Threads |-> 0]
    /\ thread = [r \in Req |-> 0]
    /\ status = [r \in Req |-> "none"]
    /\ members = [r \in Req |-> {}]
    /\ holders = [r \in Req |-> {}]
    /\ freed = {}
    /\ heap = "ok"
    /\ tasks = [t \in Threads |-> <<>>]
    /\ batch = [t \in Threads |-> <<>>]
    /\ chan = [r \in Req |-> "none"]
    /\ result = [r \in Req |-> <<>>]
    /\ lost = {}
    /\ totalSend = 0
    /\ totalRecv = 0
    /\ totalError = 0

-----------------------------------------------------------------------------
(* Ownership *)

\* Owners who leave; a request without owners is destroyed.
Release(r, gone) ==
    /\ holders' = [holders EXCEPT ![r] = @ \ gone]
    /\ freed' = IF holders[r] # {} /\ holders[r] \subseteq gone
                THEN freed \cup {r} ELSE freed

UnInitOrder == <<"tAsyncChannelPtr", "tBinaryProtocolFactoryPtr", "cobClientPtr">>

\* Mutant: the protocol factory is released last.
UnInitFactoryLast(r) ==
    /\ members' = [members EXCEPT ![r] = {}]
    /\ Release(r, {"channel"})
    /\ heap' = IF r \in freed \/ holders[r] = {"channel"} THEN "corrupt" ELSE heap

\* UnInit resets the members in this order.  The channel goes with the last
\* of the two that own it, and with the channel the callback that owns the
\* request: if that was the last owner, no member may be reset after it.
UnInit(r) ==
    LET dies  == CHOOSE k \in 1..3 :
                    /\ UnInitOrder[k] \in {"tAsyncChannelPtr", "cobClientPtr"}
                    /\ \A j \in (k + 1)..3 :
                         UnInitOrder[j] \notin {"tAsyncChannelPtr", "cobClientPtr"}
    IN  /\ members' = [members EXCEPT ![r] = {}]
        /\ Release(r, {"channel"})
        /\ heap' = IF r \in freed \/ (dies < 3 /\ holders[r] = {"channel"})
                   THEN "corrupt" ELSE heap

-----------------------------------------------------------------------------
(* ProcessReq, by main or by an answer's callback *)

\* The constructor and Compute's Init.  The client is the next one.
MakeRequest(w) ==
    /\ pc[w] = "ProcessReq"
    /\ made < MaxReqs
    /\ made' = made + 1
    /\ totalSend' = totalSend + 1
    /\ atomicIndex' = (atomicIndex + 1) % IndexMod
    /\ thread' = [thread EXCEPT ![made + 1] = ClientThread(atomicIndex % NumClients)]
    /\ status' = [status EXCEPT ![made + 1] = "kBeg"]
    /\ members' = [members EXCEPT ![made + 1] = Members]
    /\ holders' = [holders EXCEPT ![made + 1] = {"maker"}]
    /\ cur' = [cur EXCEPT ![w] = made + 1]
    /\ pc' = [pc EXCEPT ![w] = "AddTask"]
    /\ UNCHANGED <<left, cob, freed, heap, loopVars, netVars, result, lost,
                   totalRecv, totalError>>

\* Past the bound nothing more is started.
Bounded(w) ==
    /\ pc[w] = "ProcessReq"
    /\ made = MaxReqs
    /\ pc' = [pc EXCEPT ![w] = IF w = Main THEN "sleep" ELSE "UnInit"]
    /\ UNCHANGED <<atomicIndex, left, made, cur, cob, thread, status, ownVars,
                   loopVars, netVars, result, lost, statVars>>

\* Mutant: a refused task is treated as an error of the request.
AddTaskChecked(w) ==
    LET r == cur[w]  t == thread[r]
        full == tasks[t] # <<>> /\ Len(tasks[t]) >= QueueSize
    IN  /\ pc[w] = "AddTask"
        /\ pc' = [pc EXCEPT ![w] = "return"]
        /\ IF full
           THEN /\ lost' = lost \cup {r} /\ totalError' = totalError + 1
                /\ UNCHANGED <<tasks, holders>>
           ELSE /\ tasks' = [tasks EXCEPT ![t] = Append(@, r)]
                /\ holders' = [holders EXCEPT ![r] = @ \cup {"task"}]
                /\ UNCHANGED <<lost, totalError>>
        /\ UNCHANGED <<atomicIndex, left, made, cur, cob, thread, status, members,
                       freed, heap, batch, netVars, result, totalSend, totalRecv>>

\* The task goes to the client's event thread.  What AddTask returns is not
\* looked at: a request whose task is refused is dropped without a word.
AddTask(w) ==
    LET r == cur[w]  t == thread[r]
        full == tasks[t] # <<>> /\ Len(tasks[t]) >= QueueSize
    IN  /\ pc[w] = "AddTask"
        /\ pc' = [pc EXCEPT ![w] = "return"]
        /\ IF full
           THEN lost' = lost \cup {r} /\ UNCHANGED <<tasks, holders>>
           ELSE /\ tasks' = [tasks EXCEPT ![t] = Append(@, r)]
                /\ holders' = [holders EXCEPT ![r] = @ \cup {"task"}]
                /\ UNCHANGED lost
        /\ UNCHANGED <<atomicIndex, left, made, cur, cob, thread, status, members,
                       freed, heap, batch, netVars, result, statVars>>

\* ProcessReq returns and creq_ptr goes.  main starts its next request; an
\* event thread goes on after the callback.
Return(w) ==
    /\ pc[w] = "return"
    /\ Release(cur[w], {"maker"})
    /\ cur' = [cur EXCEPT ![w] = 0]
    /\ left' = IF w = Main /\ left > 0 THEN left - 1 ELSE left
    /\ pc' = [pc EXCEPT ![w] = IF w # Main THEN "UnInit"
                               ELSE IF left > 0 THEN "ProcessReq" ELSE "sleep"]
    /\ UNCHANGED <<atomicIndex, made, cob, thread, status, members, heap, loopVars,
                   netVars, result, lost, statVars>>

-----------------------------------------------------------------------------
(* The event loop: tasks *)

HandleTask(t) ==
    /\ pc[t] = "loop"
    /\ batch[t] = <<>> /\ tasks[t] # <<>>
    /\ batch' = [batch EXCEPT ![t] = tasks[t]]
    /\ tasks' = [tasks EXCEPT ![t] = <<>>]
    /\ UNCHANGED <<atomicIndex, pc, left, made, cur, cob, thread, status, ownVars,
                   netVars, result, lost, statVars>>

\* ComputeHandle hands the request and the callback to the channel, which
\* keeps the callback also when it cannot make the request: the exception is
\* caught, and nobody is told.  The task is released with its batch.
ComputeHandle(t) ==
    LET r == Head(batch[t])
    IN  /\ pc[t] = "loop"
        /\ batch[t] # <<>>
        /\ batch' = [batch EXCEPT ![t] = Tail(@)]
        /\ holders' = [holders EXCEPT ![r] = (@ \ {"task"}) \cup {"channel"}]
        /\ \/ chan' = [chan EXCEPT ![r] = "sent"] /\ UNCHANGED lost
           \/ lost' = lost \cup {r} /\ UNCHANGED chan
        /\ heap' = IF "cobClientPtr" \notin members[r] THEN "corrupt" ELSE heap
        /\ UNCHANGED <<atomicIndex, pc, left, made, cur, cob, thread, status,
                       members, freed, tasks, result, statVars>>

-----------------------------------------------------------------------------
(* The event loop: answers *)

\* The server answers: a result, its ServiceException or another exception.
Serve(r) ==
    /\ chan[r] = "sent"
    /\ \E a \in {"success", "se", "exception"} : chan' = [chan EXCEPT ![r] = a]
    /\ UNCHANGED <<atomicIndex, pc, left, made, cur, cob, thread, status, ownVars,
                   loopVars, result, lost, statVars>>

\* The connection fails, before or after the answer: the channel calls back
\* with an empty buffer.
Break(r) ==
    /\ chan[r] \in {"sent", "success", "se", "exception"}
    /\ chan' = [chan EXCEPT ![r] = "empty"]
    /\ UNCHANGED <<atomicIndex, pc, left, made, cur, cob, thread, status, ownVars,
                   loopVars, result, lost, statVars>>

\* Cob up to the callback: recv_compute gives the result or throws, and
\* ProcessRsp counts it.
CobUntilCallback(t, r) ==
    LET ret == IF chan[r] = "success" THEN "kOK" ELSE "kUnknown"
    IN  /\ pc[t] = "loop" /\ batch[t] = <<>>
        /\ thread[r] = t
        /\ status[r] # "kEnd"
        /\ status' = [status EXCEPT ![r] = "kEnd"]
        /\ chan' = [chan EXCEPT ![r] = "none"]
        /\ result' = [result EXCEPT ![r] = Append(@, ret)]
        /\ totalRecv' = IF ret = "kOK" THEN totalRecv + 1 ELSE totalRecv
        /\ totalError' = IF ret = "kOK" THEN totalError ELSE totalError + 1
        /\ cob' = [cob EXCEPT ![t] = r]
        /\ pc' = [pc EXCEPT ![t] = "ProcessReq"]
        /\ UNCHANGED <<atomicIndex, left, made, cur, thread, ownVars, loopVars,
                       lost, totalSend>>

\* Mutant: a connection that failed is not reported.
CobNotOnFailure(t) ==
    \E r \in Req : /\ chan[r] \in {"success", "se", "exception"}
                   /\ CobUntilCallback(t, r)

Cob(t) ==
    \E r \in Req : /\ chan[r] \in {"success", "se", "exception", "empty"}
                   /\ CobUntilCallback(t, r)

\* Cob after the callback.
CobEnd(t) ==
    /\ pc[t] = "UnInit"
    /\ UnInit(cob[t])
    /\ cob' = [cob EXCEPT ![t] = 0]
    /\ pc' = [pc EXCEPT ![t] = "loop"]
    /\ UNCHANGED <<atomicIndex, left, made, cur, thread, status, loopVars, netVars,
                   result, lost, statVars>>

-----------------------------------------------------------------------------
Worker(w) == MakeRequest(w) \/ Bounded(w) \/ AddTask(w) \/ Return(w)

EventLoop(t) == Worker(t) \/ HandleTask(t) \/ ComputeHandle(t) \/ Cob(t) \/ CobEnd(t)

Next ==
    \/ Worker(Main)
    \/ \E t \in Threads : EventLoop(t)
    \/ \E r \in Req : Serve(r) \/ Break(r)

Spec == Init /\ [][Next]_vars

\* The threads run, and a request that is out is answered or its connection
\* fails; this much is asked of the network, for recv_timeout is not used.
FairSpec ==
    /\ Spec
    /\ WF_vars(Worker(Main))
    /\ \A t \in Threads : WF_vars(EventLoop(t))
    /\ \A r \in Req : WF_vars(Serve(r) \/ Break(r))

-----------------------------------------------------------------------------
(* Properties *)

\* Requests that are on their way: made, not answered and not lost.
Outstanding == {r \in 1..made : result[r] = <<>>} \ lost

\* Threads about to start a request.
Starting == {w \in Workers : pc[w] = "ProcessReq"}

\* The load loop of main.cpp never has more than FLAGS_concurrent requests on
\* their way, and has fewer only by the requests it lost to a full queue or to
\* a channel that could not send; every request made is counted as received,
\* as failed, on its way, or lost.
Conserved ==
    /\ totalSend = totalRecv + totalError + Cardinality(Outstanding) + Cardinality(lost)
    /\ made < MaxReqs =>
         Cardinality(Outstanding) + Cardinality(Starting) + left + Cardinality(lost)
           = Concurrent

\* Cob and UnInit never touch a request that is already destroyed; a request
\* is destroyed only after its callback ran or after its task was refused; and
\* one whose callback has run and that nobody is working on is destroyed.
SafeTeardown ==
    /\ heap = "ok"
    /\ \A r \in freed : Len(result[r]) = 1 \/ (r \in lost /\ "channel" \notin holders[r])
    /\ \A r \in Req : /\ Len(result[r]) = 1
                      /\ \A w \in Workers : cur[w] # r
                      /\ \A t \in Threads : cob[t] # r
                      => r \in freed

\* A request whose task was accepted gets its callback, unless the channel
\* could not send it.
CalledBack ==
    \A r \in Req : "task" \in holders[r] ~> (result[r] # <<>> \/ r \in lost)

=============================================================================
