------------------------------- MODULE MapCli -------------------------------
(***************************************************************************)
(* thrift_sync_async_demo/cli built without DAsyncMapCli: MapCli, which    *)
(* opens a new framed connection for every Compute.                        *)
(*                                                                         *)
(* Every message carries the sequence id 0, so an answer is matched to a   *)
(* call only by the connection it arrives on.  The server works through    *)
(* the calls of each connection in order and may be slow: an answer may    *)
(* come after the client has given up on it.                               *)
(***************************************************************************)
EXTENDS Naturals, Sequences, FiniteSets

CONSTANT MaxCalls   \* bound: calls of Compute

VARIABLES at,      \* where the client is: constructor, idle, or in Compute
          call,    \* the number of the Compute it is in or was in last
          conn,    \* the connection of transportPtr, 0 for none yet
          open,    \* connections the client has open
          calls,   \* calls sent on each connection and not served
          answers, \* answers on each connection the client has not read
          crsp     \* what the last Compute returned: a call's answer, or 0 for false

syncVars == <<at, call, conn, open, calls, answers, crsp>>

\* One connection for the constructor and one for each Compute.
Conn == 0..(MaxCalls + 1)

SyncInit ==
    /\ at = "construct"
    /\ call = 0
    /\ conn = 0
    /\ open = {}
    /\ calls = [c \in Conn |-> <<>>]
    /\ answers = [c \in Conn |-> <<>>]
    /\ crsp = 0

\* Close: what was under way on the connection is lost to the client.
Close == open \ {conn}

\* Mutant: a connection that is still open is used again.
OpenReuse(next, failed) ==
    IF conn \in open
    THEN at' = next /\ UNCHANGED <<conn, open, crsp>>
    ELSE /\ conn' = conn + 1
         /\ \/ open' = open \cup {conn + 1} /\ at' = next /\ UNCHANGED crsp
            \/ open' = open /\ at' = failed /\ crsp' = 0

\* Open: Close, a new socket, transport, protocol and client, then connect.
Open(next, failed) ==
    /\ conn' = conn + 1
    /\ \/ open' = Close \cup {conn + 1} /\ at' = next /\ UNCHANGED crsp
       \/ open' = Close /\ at' = failed /\ crsp' = 0

\* The constructor does not look at what Open returned.
Construct ==
    /\ at = "construct"
    /\ Open("idle", "idle")
    /\ UNCHANGED <<call, calls, answers>>

Compute ==
    /\ at = "idle"
    /\ call < MaxCalls
    /\ call' = call + 1
    /\ Open("send", "idle")
    /\ UNCHANGED <<calls, answers>>

\* send_compute: it writes the call, or throws and Compute returns false.
Send ==
    /\ at = "send"
    /\ \/ /\ calls' = [calls EXCEPT ![conn] = Append(@, call)]
          /\ at' = "recv" /\ UNCHANGED crsp
       \/ at' = "idle" /\ crsp' = 0 /\ UNCHANGED calls
    /\ UNCHANGED <<call, conn, open, answers>>

\* recv_compute: the next answer on the connection is taken for the answer.
Recv ==
    /\ at = "recv"
    /\ answers[conn] # <<>>
    /\ crsp' = Head(answers[conn])
    /\ answers' = [answers EXCEPT ![conn] = Tail(@)]
    /\ at' = "idle"
    /\ UNCHANGED <<call, conn, open, calls>>

\* recv_timeout has passed, or the connection failed.
RecvThrows ==
    /\ at = "recv"
    /\ crsp' = 0
    /\ at' = "idle"
    /\ UNCHANGED <<call, conn, open, calls, answers>>

\* The server takes a call off a connection and answers on it.
SyncServe ==
    \E c \in Conn :
        /\ calls[c] # <<>>
        /\ calls' = [calls EXCEPT ![c] = Tail(@)]
        /\ answers' = [answers EXCEPT ![c] = Append(@, Head(calls[c]))]
        /\ UNCHANGED <<at, call, conn, open, crsp>>

SyncNext == Construct \/ Compute \/ Send \/ Recv \/ RecvThrows \/ SyncServe

-----------------------------------------------------------------------------
(* Properties *)

\* A Compute that returns true has filled crsp with the answer to its own
\* request, also after earlier calls timed out and were answered late; and the
\* client never has two connections open.
OwnAnswer ==
    /\ at = "idle" => crsp \in {0, call}
    /\ Cardinality(open) <= 1

=============================================================================
