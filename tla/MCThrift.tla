------------------------------ MODULE MCThrift ------------------------------
(***************************************************************************)
(* The two builds of the Thrift demo client, for TLC: with DAsyncMapCli    *)
(* the asynchronous client, without it the synchronous one.                *)
(***************************************************************************)
EXTENDS AsyncMapCli

CONSTANT MaxCalls

VARIABLES build, at, call, conn, open, calls, answers, crsp

Sync == INSTANCE MapCli

syncVars == <<at, call, conn, open, calls, answers, crsp>>
mcVars   == <<build, vars, syncVars>>

MCInit == build \in {"async", "sync"} /\ Init /\ Sync!SyncInit

Async(A) == build = "async" /\ A /\ UNCHANGED <<build, syncVars>>

MCNext ==
    \/ Async(Next)
    \/ build = "sync" /\ Sync!SyncNext /\ UNCHANGED <<build, vars>>

\* The fairness of FairSpec.
MCSpec ==
    /\ MCInit /\ [][MCNext]_mcVars
    /\ WF_mcVars(Async(Worker(Main)))
    /\ \A t \in Threads : WF_mcVars(Async(EventLoop(t)))
    /\ \A r \in Req : WF_mcVars(Async(Serve(r) \/ Break(r)))

\* MapCli: a Compute that succeeds has the answer to its own request, and no
\* second connection is ever open.
OwnAnswer == Sync!OwnAnswer

=============================================================================
