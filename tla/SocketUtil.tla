------------------------------ MODULE SocketUtil -----------------------------
(***************************************************************************)
(* net/socket_util.cc: one side accepts a connection and reads messages    *)
(* of a fixed length with socket_readn, the other sends them with          *)
(* socket_sendn.  The socket takes and gives any number of bytes at a      *)
(* time; waiting for it (EAGAIN, EINTR) changes nothing.  A byte is its    *)
(* message and its place in it.                                            *)
(***************************************************************************)
EXTENDS Naturals, Sequences

CONSTANTS DataLen,   \* length of a message
          SockBuf,   \* bytes the socket holds
          Messages   \* bound: messages sent

VARIABLES
    descriptors,     \* connections the reading side has open
    conn,            \* the descriptor socket_accept returned: "none", "open" or "refused"
    p,               \* bytes of the current message sent
    outbox,          \* the current message, Messages + 1 at the end
    sender,          \* "run", "failed" (socket_sendn returned -1) or "closed"
    stream,          \* bytes in the socket
    recv_buf,        \* what socket_readn has put into its buffer
    returned,        \* buffers it returned
    failed           \* it returned -1: "no", "end" (of the stream) or "error"

vars == <<descriptors, conn, p, outbox, sender, stream, recv_buf, returned, failed>>

Init ==
    /\ descriptors = 0 /\ conn = "none"
    /\ p = 0 /\ outbox = 1 /\ sender = "run"
    /\ stream = <<>> /\ recv_buf = <<>> /\ returned = <<>> /\ failed = "no"

\* accept gives a connection of some family.  IPv6 is closed again.  (With
\* nothing to accept, addr_storage is read uninitialised: whatever it holds,
\* the result is -1, and close gets -1.)
socket_accept ==
    /\ conn = "none"
    /\ \E family \in {"AF_INET", "AF_INET6"} :
          /\ conn' = IF family = "AF_INET" THEN "open" ELSE "refused"
          /\ descriptors' = IF family = "AF_INET" THEN descriptors + 1 ELSE descriptors
    /\ UNCHANGED <<p, outbox, sender, stream, recv_buf, returned, failed>>

\* One send of socket_sendn; the last one of a message returns buflen.
socket_sendn ==
    /\ sender = "run" /\ outbox <= Messages /\ conn # "refused"
    /\ \E len \in 1..(DataLen - p) :
          /\ Len(stream) + len <= SockBuf
          /\ stream' = stream \o [i \in 1..len |-> <<outbox, p + i>>]
          /\ IF len = DataLen - p
             THEN p' = 0 /\ outbox' = outbox + 1
             ELSE p' = p + len /\ UNCHANGED outbox
    /\ UNCHANGED <<descriptors, conn, sender, recv_buf, returned, failed>>

sendFails ==
    /\ sender = "run" /\ outbox <= Messages
    /\ sender' = "failed"
    /\ UNCHANGED <<descriptors, conn, p, outbox, stream, recv_buf, returned, failed>>

\* The sending side closes, between messages or after a failure.
Close ==
    /\ sender = "failed" \/ (sender = "run" /\ p = 0)
    /\ sender' = "closed"
    /\ UNCHANGED <<descriptors, conn, p, outbox, stream, recv_buf, returned, failed>>

\* data_len - read_len
Wanted == DataLen - Len(recv_buf)

\* One recv of socket_readn; with the last byte it returns.
socket_readn ==
    /\ conn = "open" /\ failed = "no"
    /\ \E ret \in 1..Wanted :
          /\ ret <= Len(stream)
          /\ stream' = SubSeq(stream, ret + 1, Len(stream))
          /\ LET buf == recv_buf \o SubSeq(stream, 1, ret) IN
             IF Len(buf) < DataLen
             THEN recv_buf' = buf /\ UNCHANGED returned
             ELSE recv_buf' = <<>> /\ returned' = Append(returned, buf)
    /\ UNCHANGED <<descriptors, conn, p, outbox, sender, failed>>

\* The socket is closed and empty, or recv fails.
readFails ==
    /\ conn = "open" /\ failed = "no"
    /\ \/ stream = <<>> /\ sender = "closed" /\ failed' = "end"
       \/ failed' = "error"
    /\ UNCHANGED <<descriptors, conn, p, outbox, sender, stream, recv_buf, returned>>

Next == socket_accept \/ socket_sendn \/ sendFails \/ Close \/ socket_readn \/ readFails

Spec == Init /\ [][Next]_vars

-----------------------------------------------------------------------------
\* socket_readn returns the messages of the sender, whole and in order, and
\* all that socket_sendn had accepted by the time the end is seen; a connection
\* socket_accept refuses is not left open.
MessagesWhole ==
    /\ \A m \in 1..Len(returned) : returned[m] = [i \in 1..DataLen |-> <<m, i>>]
    /\ Len(returned) < outbox
    /\ failed = "end" => Len(returned) = outbox - 1
    /\ (descriptors = 1) <=> (conn = "open")
=============================================================================
