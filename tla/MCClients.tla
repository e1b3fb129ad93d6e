----------------------------- MODULE MCClients ------------------------------
(***************************************************************************)
(* The parts of hiredis that do not share state, and the Memcached clients *)
(* with two threads, each explored by itself: part says which.             *)
(***************************************************************************)
EXTENDS HiredisNet, TLC

CONSTANTS Key, Val, MaxHash, InitialSize, Kinds, MaxCmds, Chars, MaxLen, MaxArg,
          MaxPrealloc, Threads, Keys, Null, NumClients, MaxRetry, MaxCalls

VARIABLES part, hash, table, used, live, iter, left,
          kind, ctx, hooks, data, box, wants, watch, todo, issued, obuf, owed, armed,
          faults, sds, want,
          cliCType, index, pc, request, calls, doTimes, cli, keys, ret, got, cut, clients,
          mutex, pCKV, handles, pend

Dict    == INSTANCE HiredisDict WITH todo <- left
Adapter == INSTANCE HiredisAdapters
String  == INSTANCE Sds
Cache   == INSTANCE MemcachedCliPool WITH kind <- request, want <- keys, live <- clients

dvars == <<hash, table, used, live, iter, left>>
avars == <<kind, ctx, hooks, data, box, wants, watch, todo, issued, obuf, owed, armed,
           faults>>
svars == <<sds, want>>
mvars == <<cliCType, index, pc, request, calls, doTimes, cli, keys, ret, got, cut, clients,
           mutex, pCKV, handles, pend>>
vars  == <<part, nvars, dvars, avars, svars, mvars>>

Symmetry == Permutations(Key) \cup Permutations(Threads) \cup Permutations(Keys)

\* A part that is not explored stays in one of its initial states.
Init ==
    /\ part \in {"net", "dict", "adapter", "string", "cache"}
    /\ NetInit /\ Dict!dictInit /\ Adapter!AdapterInit /\ String!SdsInit /\ Cache!Init
    /\ part # "dict" => hash = [k \in Key |-> 0]
    /\ part # "adapter" => kind = "libevent"
    /\ part # "string" => want = <<>>
    /\ part # "cache" => cliCType = "SC" /\ index = 0

Next ==
    \/ part = "net" /\ NetStep /\ UNCHANGED <<part, dvars, avars, svars, mvars>>
    \/ part = "dict" /\ Dict!dictStep /\ UNCHANGED <<part, nvars, avars, svars, mvars>>
    \/ part = "adapter" /\ Adapter!AdapterStep /\ UNCHANGED <<part, nvars, dvars, svars, mvars>>
    \/ part = "string" /\ String!SdsStep /\ UNCHANGED <<part, nvars, dvars, avars, mvars>>
    \/ part = "cache" /\ Cache!Next /\ UNCHANGED <<part, nvars, dvars, avars, svars>>

Spec == Init /\ [][Next]_vars



\* The data structures hold what they should: dict.c counts, finds and destroys
\* exactly its entries, see HiredisDict, and an sds string is exact, see Sds.
DataSound == Dict!TableSound /\ String!SdsSound

\* Threads that share Memcached clients get their own answers, and every handle
\* and mutex is given back, see MemcachedCliPool.
OwnValues == Cache!OwnValues /\ Cache!HandlesBalance
=============================================================================
