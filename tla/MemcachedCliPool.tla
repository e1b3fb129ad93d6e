-------------------------- MODULE MemcachedCliPool --------------------------
(***************************************************************************)
(* helper/memcache_helper: MemcachedCliPool, MemcachedCli and ssMemcached, *)
(* called by several threads.                                              *)
(*                                                                         *)
(* With kCKVCliSC every try of a call makes its own client and deletes it; *)
(* with kCKVCliLC the clients are shared, round robin, each under a mutex. *)
(* libmemcached appears as its callers see it: a command sent on a         *)
(* connection is answered piece by piece on that connection, a fetch gives *)
(* the next piece or gives up, and a new command first drains what an      *)
(* earlier one has left.                                                   *)
(***************************************************************************)
EXTENDS Naturals, Sequences, FiniteSets, SequencesExt

CONSTANTS Threads,     \* callers
          Keys,        \* keys stored
          Null,        \* a null cliP
          NumClients,  \* memcachedCliPtrVec.size()
          MaxRetry,    \* maxRetryNum
          MaxCalls     \* bound: calls per thread

Shared  == 0..(NumClients - 1)
Clients == Shared \cup Threads   \* a short connection is known by its thread

VARIABLES cliCType,  \* cliCType, set by Init
          index,     \* atomic_inc_index
          pc,        \* where each thread is
          kind,      \* "MultiGet" or "Set"
          calls,     \* calls of each thread so far
          doTimes,   \* do_times
          cli,       \* cliP of each thread, or Null
          want,      \* keys each thread asks for
          ret,       \* what its last call returned
          got,       \* the result map: the answers each thread has stored
          cut,       \* the last multiget of each thread was cut short
          live,      \* clients that exist
          mutex,     \* the owner of each client's mutex, or "none"
          pCKV,      \* pCKV of each client: "null" or "open"
          handles,   \* ssMemcached objects created and not deleted
          pend       \* answers on each connection, not fetched

vars == <<cliCType, index, pc, kind, calls, doTimes, cli, want, ret, got, cut, live,
          mutex, pCKV, handles, pend>>
linkVars == <<mutex, pCKV, handles, pend>>

\* An answer: who asked, in which call, and for what.
Answer(t, k) == [by |-> t, call |-> calls[t], key |-> k]

\* atomic_inc_index starts at random; only its remainder matters.
Init ==
    /\ cliCType \in {"SC", "LC"}
    /\ index \in Shared
    /\ pc = [t \in Threads |-> "idle"]
    /\ kind = [t \in Threads |-> "Set"]
    /\ calls = [t \in Threads |-> 0]
    /\ doTimes = [t \in Threads |-> 0]
    /\ cli = [t \in Threads |-> Null]
    /\ want = [t \in Threads |-> {}]
    /\ ret = [t \in Threads |-> 1]
    /\ got = [t \in Threads |-> {}]
    /\ cut = [t \in Threads |-> FALSE]
    /\ live = IF cliCType = "LC" THEN Shared ELSE {}
    /\ mutex = [c \in Clients |-> "none"]
    /\ pCKV = [c \in Clients |-> "null"]
    /\ handles = 0
    /\ pend = [c \in Clients |-> <<>>]

-----------------------------------------------------------------------------
(* MemcachedCliPool: the retry loop *)

Call(t) ==
    /\ pc[t] = "idle"
    /\ calls[t] < MaxCalls
    /\ \/ kind' = [kind EXCEPT ![t] = "Set"] /\ UNCHANGED want
       \/ /\ kind' = [kind EXCEPT ![t] = "MultiGet"]
          /\ \E ks \in SUBSET Keys : want' = [want EXCEPT ![t] = ks]
    /\ calls' = [calls EXCEPT ![t] = @ + 1]
    /\ doTimes' = [doTimes EXCEPT ![t] = 0]
    /\ ret' = [ret EXCEPT ![t] = 1]
    /\ got' = [got EXCEPT ![t] = {}]
    /\ cut' = [cut EXCEPT ![t] = FALSE]
    /\ pc' = [pc EXCEPT ![t] = "try"]
    /\ UNCHANGED <<cliCType, index, cli, live, linkVars>>

\* The loop ends after maxRetryNum tries.
GiveUp(t) ==
    /\ pc[t] = "try"
    /\ doTimes[t] >= MaxRetry
    /\ pc' = [pc EXCEPT ![t] = "idle"]
    /\ UNCHANGED <<cliCType, index, kind, calls, doTimes, cli, want, ret, got, cut,
                   live, linkVars>>

\* GetMemcacheCli: a client of one's own, or the next shared one.  MultiGet
\* of no keys returns at once.
GetMemcacheCli(t) ==
    /\ pc[t] = "try"
    /\ doTimes[t] < MaxRetry
    /\ IF cliCType = "SC"
       THEN cli' = [cli EXCEPT ![t] = t] /\ live' = live \cup {t} /\ UNCHANGED index
       ELSE cli' = [cli EXCEPT ![t] = index] /\ index' = (index + 1) % NumClients
              /\ UNCHANGED live
    /\ pc' = [pc EXCEPT ![t] = IF kind[t] = "MultiGet" /\ want[t] = {} THEN "empty"
                               ELSE IF cliCType = "LC" THEN "lock" ELSE "Open"]
    /\ UNCHANGED <<cliCType, kind, calls, doTimes, want, ret, got, cut, linkVars>>

-----------------------------------------------------------------------------
(* MemcachedCli *)

\* Mutant: a shared client is used without its mutex.
LockNone(t) ==
    /\ pc[t] = "lock"
    /\ pc' = [pc EXCEPT ![t] = "Open"]
    /\ UNCHANGED <<cliCType, index, kind, calls, doTimes, cli, want, ret, got, cut,
                   live, linkVars>>

Lock(t) ==
    /\ pc[t] = "lock"
    /\ mutex[cli[t]] = "none"
    /\ mutex' = [mutex EXCEPT ![cli[t]] = t]
    /\ pc' = [pc EXCEPT ![t] = "Open"]
    /\ UNCHANGED <<cliCType, index, kind, calls, doTimes, cli, want, ret, got, cut,
                   live, pCKV, handles, pend>>

Close(c) ==
    /\ handles' = IF pCKV[c] = "open" THEN handles - 1 ELSE handles
    /\ pCKV' = [pCKV EXCEPT ![c] = "null"]
    /\ pend' = [pend EXCEPT ![c] = <<>>]

\* Leaving the client: the mutex is released and a short connection's client
\* is deleted (SCFree), which closes it.
Leave(t, r) ==
    /\ mutex' = [c \in Clients |-> IF mutex[c] = t THEN "none" ELSE mutex[c]]
    /\ live' = live \ {t}
    /\ cli' = [cli EXCEPT ![t] = Null]
    /\ ret' = [ret EXCEPT ![t] = r]
    /\ doTimes' = [doTimes EXCEPT ![t] = @ + 1]
    /\ pc' = [pc EXCEPT ![t] = IF r = 0 THEN "idle" ELSE "try"]

\* Leaving after a success: a shared client stays connected.
LeaveOpen(t) ==
    /\ Leave(t, 0)
    /\ IF cliCType = "SC" THEN Close(cli[t]) ELSE UNCHANGED <<pCKV, handles, pend>>

\* MultiGet of no keys clears the result and is a success.
MultiGetEmpty(t) ==
    /\ pc[t] = "empty"
    /\ got' = [got EXCEPT ![t] = {}]
    /\ LeaveOpen(t)
    /\ UNCHANGED <<cliCType, index, kind, calls, want, cut>>

\* Open: a connected client stays as it is; otherwise a new ssMemcached is
\* made, and deleted again when initServer fails.
Open(t) ==
    /\ pc[t] = "Open"
    /\ \/ /\ pc' = [pc EXCEPT ![t] = "send"]
          /\ pCKV' = [pCKV EXCEPT ![cli[t]] = "open"]
          /\ handles' = IF pCKV[cli[t]] = "null" THEN handles + 1 ELSE handles
          /\ UNCHANGED <<doTimes, cli, ret, live, mutex, pend>>
       \/ /\ pCKV[cli[t]] = "null"
          /\ Leave(t, 1)
          /\ UNCHANGED <<pCKV, handles, pend>>
    /\ UNCHANGED <<cliCType, index, kind, calls, want, got, cut>>

-----------------------------------------------------------------------------
(* ssMemcached *)

\* memcached_mget or memcached_set: the command goes out and its answers will
\* come on the connection in some order; or it fails, and Impl closes.
Send(t) ==
    /\ pc[t] = "send"
    /\ \/ /\ \E order \in SetToSeqs(IF kind[t] = "Set" THEN {"STORED"} ELSE want[t]) :
               pend' = [pend EXCEPT ![cli[t]] =
                            [i \in 1..Len(order) |-> Answer(t, order[i])]]
          /\ pc' = [pc EXCEPT ![t] = "fetch"]
          /\ UNCHANGED <<doTimes, cli, ret, live, mutex, pCKV, handles>>
       \/ Leave(t, 1) /\ Close(cli[t])
    /\ UNCHANGED <<cliCType, index, kind, calls, want, got, cut>>

\* One memcached_fetch of multiget.  An answer for a key that was not asked
\* for ends multiget with -1, after which Impl closes.
Fetch(t) ==
    /\ pc[t] = "fetch" /\ kind[t] = "MultiGet"
    /\ pend[cli[t]] # <<>>
    /\ LET a == Head(pend[cli[t]])
       IN  IF a.key \in want[t]
           THEN /\ got' = [got EXCEPT ![t] = @ \cup {a}]
                /\ pend' = [pend EXCEPT ![cli[t]] = Tail(@)]
                /\ UNCHANGED <<pc, doTimes, cli, ret, live, mutex, pCKV, handles>>
           ELSE Leave(t, 1) /\ Close(cli[t]) /\ UNCHANGED got
    /\ UNCHANGED <<cliCType, index, kind, calls, want, cut>>

\* memcached_fetch returns NULL, at the end of the answers or because it gave
\* up waiting: multiget does not tell the two apart and returns 0.
FetchNull(t) ==
    /\ pc[t] = "fetch" /\ kind[t] = "MultiGet"
    /\ cut' = [cut EXCEPT ![t] = pend[cli[t]] # <<>>]
    /\ LeaveOpen(t)
    /\ UNCHANGED <<cliCType, index, kind, calls, want, got>>

\* memcached_set returns.
SetDone(t) ==
    /\ pc[t] = "fetch" /\ kind[t] = "Set"
    /\ \/ /\ pend[cli[t]] # <<>>
          /\ Leave(t, 0)
          /\ got' = [got EXCEPT ![t] = {Head(pend[cli[t]])}]
          /\ IF cliCType = "SC" THEN Close(cli[t])
             ELSE pend' = [pend EXCEPT ![cli[t]] = Tail(@)] /\ UNCHANGED <<pCKV, handles>>
       \/ Leave(t, 1) /\ Close(cli[t]) /\ UNCHANGED got
    /\ UNCHANGED <<cliCType, index, kind, calls, want, cut>>

-----------------------------------------------------------------------------
Step(t) ==
    \/ GiveUp(t) \/ GetMemcacheCli(t) \/ Lock(t) \/ MultiGetEmpty(t) \/ Open(t)
    \/ Send(t) \/ Fetch(t) \/ FetchNull(t) \/ SetDone(t)

Next == \E t \in Threads : Call(t) \/ Step(t)

Spec == Init /\ [][Next]_vars

-----------------------------------------------------------------------------
(* Properties *)

\* The threads of a pool do not get one another's answers: what a call stores
\* was asked for by this thread in this call, and a multiget that returns 0
\* and was not cut short has every key.
OwnValues ==
    \A t \in Threads :
        /\ \A a \in got[t] : a.by = t /\ a.call = calls[t]
        /\ pc[t] = "idle" /\ ret[t] = 0 /\ kind[t] = "MultiGet" /\ ~cut[t]
             => {a.key : a \in got[t]} = want[t]

\* Every ssMemcached that is made is deleted once, with its client or by
\* Close, whichever of Open, send or fetch fails: the handles are those of the
\* connected clients, a pool of short connections that nobody is using has
\* none, and no path leaves a client's mutex locked.
HandlesBalance ==
    /\ handles = Cardinality({c \in Clients : pCKV[c] = "open"})
    /\ cliCType = "SC" /\ (\A t \in Threads : pc[t] = "idle")
         => live = {} /\ handles = 0
    /\ \A c \in Clients : \A t \in Threads :
         mutex[c] = t => cli[t] = c /\ pc[t] \in {"Open", "send", "fetch"}

=============================================================================
