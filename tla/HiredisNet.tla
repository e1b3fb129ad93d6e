----------------------------- MODULE HiredisNet -----------------------------
(***************************************************************************)
(* hiredis-0.11.0/net.c with the constructors, redisReconnect and          *)
(* redisFree of hiredis.c: one context and the descriptors of its process. *)
(* Every system call may fail.  The kernel gives out the lowest number     *)
(* that is free, to this context and to the rest of the program alike.     *)
(***************************************************************************)
EXTENDS Integers, FiniteSets, FiniteSetsExt

CONSTANTS MaxFd,     \* bound: descriptors 1..MaxFd
          MaxAddrs,  \* bound: addresses a name resolves to
          Retries,   \* REDIS_CONNECT_RETRIES
          MaxRedials \* bound: calls of redisReconnect

ASSUME NetAssumption == MaxFd \in Nat /\ MaxAddrs \in Nat /\ Retries \in Nat
                        /\ MaxRedials \in Nat

VARIABLES at,      \* the next call of the attempt, "none", "done" or "freed"
          flags,   \* c->flags
          type,    \* c->connection_type; calloc leaves REDIS_CONN_TCP
          source,  \* c->tcp.source_addr is set
          fd,      \* c->fd; 0 is what calloc leaves
          err,     \* c->err
          addrs,   \* addresses not tried yet, the current one included
          reuses,  \* retries of an address
          ok,      \* what the attempt returned
          redials, \* calls of redisReconnect
          owner    \* owner of each open descriptor: "ctx" or "other"

nvars == <<at, flags, type, source, fd, err, addrs, reuses, ok, redials, owner>>

Open == DOMAIN owner
Has(f) == f \in flags

NetInit ==
    /\ at = "none" /\ flags = {} /\ type = "tcp" /\ source = FALSE
    /\ fd = 0 /\ err = "none" /\ addrs = 0 /\ reuses = 0 /\ ok = FALSE
    /\ redials = 0 /\ owner = <<>>

Closed(f)    == [d \in Open \ {f} |-> owner[d]]
Opened(f, w) == [d \in Open \cup {f} |-> IF d = f THEN w ELSE owner[d]]
FreeFds      == (1..MaxFd) \ Open

\* The attempt goes on with the call c.
Goes(c) == at' = c /\ UNCHANGED <<flags, err, ok>>

\* The attempt returns REDIS_ERR; e is the error set, "none" where none is.
Returns(e) == /\ at' = "done" /\ ok' = FALSE
              /\ err' = IF e = "none" THEN err ELSE e
              /\ UNCHANGED flags

Same == UNCHANGED <<type, source, redials>>

redisContextCloseFd == owner' = Closed(fd) /\ fd' = -1

\* redisConnect, redisConnectWithTimeout, redisConnectNonBlock,
\* redisConnectBindNonBlock, redisConnectBindNonBlockWithReuse,
\* redisConnectUnix, redisConnectUnixWithTimeout, redisConnectUnixNonBlock
Construct ==
    /\ at = "none"
    /\ \E f \in {{}, {"BLOCK"}} :
          \/ type' = "tcp" /\ source' = FALSE /\ flags' = f /\ at' = "resolve"
          \/ /\ type' = "tcp" /\ source' = TRUE /\ f = {} /\ at' = "resolve"
             /\ \E r \in {{}, {"REUSEADDR"}} : flags' = r
          \/ type' = "unix" /\ source' = FALSE /\ flags' = f /\ at' = "socket"
    /\ addrs' = 1
    /\ UNCHANGED <<fd, err, reuses, ok, redials, owner>>

\* redisConnectFd
redisConnectFd ==
    /\ at = "none"
    /\ \E f \in Open : owner' = [owner EXCEPT ![f] = "ctx"] /\ fd' = f
    /\ flags' = {"BLOCK", "CONNECTED"}
    /\ ok' = TRUE /\ at' = "done"
    /\ UNCHANGED <<type, source, err, addrs, reuses, redials>>

\* getaddrinfo, for IPv4 and then for IPv6
Resolve ==
    /\ at = "resolve"
    /\ \/ Returns("other") /\ UNCHANGED addrs
       \/ Goes("socket") /\ addrs' \in 1..MaxAddrs
    /\ reuses' = 0
    /\ UNCHANGED <<fd, owner>> /\ Same

\* continue of the loop over the addresses
NextAddress == IF addrs > 1 THEN Goes("socket") /\ addrs' = addrs - 1
                            ELSE Returns("other") /\ addrs' = 0

\* A new socket, by its lowest free number.
NewSocket ==
    /\ FreeFds # {}
    /\ fd' = Min(FreeFds) /\ owner' = Opened(Min(FreeFds), "ctx")
    /\ Goes("nonblock") /\ UNCHANGED addrs

SocketTcp ==
    /\ at = "socket" /\ type = "tcp"
    /\ NewSocket \/ (NextAddress /\ UNCHANGED <<fd, owner>>)
    /\ UNCHANGED reuses /\ Same

\* redisCreateSocket
SocketUnix ==
    /\ at = "socket" /\ type = "unix"
    /\ NewSocket \/ (Returns("io") /\ UNCHANGED <<addrs, fd, owner>>)
    /\ UNCHANGED reuses /\ Same

\* redisSetBlocking(c, 0)
SetNonBlocking ==
    /\ at = "nonblock"
    /\ \/ Goes(IF source THEN "bind" ELSE "connect") /\ UNCHANGED <<fd, owner>>
       \/ Returns("io") /\ redisContextCloseFd
    /\ UNCHANGED <<addrs, reuses>> /\ Same

\* The descriptor stays open when the address cannot be bound, and no error is
\* set when SO_REUSEADDR cannot be.
Bind ==
    /\ at = "bind"
    /\ Goes("connect") \/ Returns("other") \/ (Has("REUSEADDR") /\ Returns("none"))
    /\ UNCHANGED <<fd, owner, addrs, reuses>> /\ Same

\* Mutant: the socket of an unreachable host is left open.
UnreachableLeaks == NextAddress /\ UNCHANGED <<fd, owner, reuses>>

\* EHOSTUNREACH
Unreachable == redisContextCloseFd /\ NextAddress /\ UNCHANGED reuses

\* EADDRNOTAVAIL: a new socket for the same address; the old one stays open.
AddrRetry ==
    /\ Has("REUSEADDR")
    /\ reuses' = reuses + 1
    /\ IF reuses' >= Retries THEN Returns("none") ELSE Goes("socket")
    /\ UNCHANGED <<fd, owner, addrs>>

\* What connect(2) may do on either kind of socket: succeed, be in progress, or
\* fail with an errno that makes redisContextWaitReady fail too.
ConnectCall ==
    /\ \/ Goes("finish") /\ UNCHANGED <<fd, owner>>
       \/ Goes(IF Has("BLOCK") THEN "wait" ELSE "finish") /\ UNCHANGED <<fd, owner>>
       \/ Returns("io") /\ redisContextCloseFd
    /\ UNCHANGED <<addrs, reuses>>

ConnectTcp ==
    /\ at = "connect" /\ type = "tcp"
    /\ ConnectCall \/ Unreachable \/ AddrRetry
    /\ Same

ConnectUnix ==
    /\ at = "connect" /\ type = "unix"
    /\ ConnectCall
    /\ Same

\* redisContextWaitReady: poll fails or times out; redisCheckSocketError finds
\* an error and leaves the descriptor open.
WaitReady ==
    /\ at = "wait"
    /\ \/ Goes("finish") /\ UNCHANGED <<fd, owner>>
       \/ Returns("io") /\ redisContextCloseFd
       \/ Returns("io") /\ UNCHANGED <<fd, owner>>
    /\ UNCHANGED <<addrs, reuses>> /\ Same

Connected == /\ at' = "done" /\ ok' = TRUE
             /\ flags' = flags \cup {"CONNECTED"}
             /\ UNCHANGED <<err, fd, owner>>

\* redisSetBlocking(c, 1) and redisSetTcpNoDelay
FinishTcp ==
    /\ at = "finish" /\ type = "tcp"
    /\ Connected \/ (Returns("io") /\ redisContextCloseFd)
    /\ UNCHANGED <<addrs, reuses>> /\ Same

FinishUnix ==
    /\ at = "finish" /\ type = "unix"
    /\ Connected \/ (Has("BLOCK") /\ Returns("io") /\ redisContextCloseFd)
    /\ UNCHANGED <<addrs, reuses>> /\ Same

\* redisReconnect closes the descriptor and leaves its number in the context.
\* A context made by redisConnectFd counts as TCP, without a host.
redisReconnect ==
    /\ at = "done" /\ redials < MaxRedials
    /\ redials' = redials + 1
    /\ owner' = IF fd > 0 THEN Closed(fd) ELSE owner
    /\ err' = "none"
    /\ at' = IF type = "tcp" THEN "resolve" ELSE "socket"
    /\ addrs' = 1
    /\ UNCHANGED <<flags, type, source, fd, reuses, ok>>

\* A socket option that cannot be set sets the error and nothing else.
OptionFails(e) ==
    /\ at = "done" /\ ok
    /\ err' = e
    /\ UNCHANGED <<at, flags, type, source, fd, addrs, reuses, ok, redials, owner>>

redisContextSetTimeout == Has("BLOCK") /\ OptionFails("io")

redisKeepAlive == OptionFails("other")

redisFree ==
    /\ at = "done"
    /\ owner' = IF fd > 0 THEN Closed(fd) ELSE owner
    /\ at' = "freed"
    /\ UNCHANGED <<flags, type, source, fd, err, addrs, reuses, ok, redials>>

\* redisFreeKeepFd: the caller has the descriptor.
redisFreeKeepFd ==
    /\ at = "done"
    /\ owner' = IF fd \in Open THEN [owner EXCEPT ![fd] = "other"] ELSE owner
    /\ at' = "freed" /\ fd' = -1
    /\ UNCHANGED <<flags, type, source, err, addrs, reuses, ok, redials>>

\* The rest of the program opens or closes a descriptor of its own.
Others ==
    /\ at \in {"none", "done"}
    /\ \/ FreeFds # {} /\ owner' = Opened(Min(FreeFds), "other")
       \/ \E f \in Open : owner[f] = "other" /\ owner' = Closed(f)
    /\ UNCHANGED <<at, flags, type, source, fd, err, addrs, reuses, ok, redials>>

NetStep == \/ Construct \/ redisConnectFd \/ Resolve \/ SocketTcp \/ SocketUnix
           \/ SetNonBlocking \/ Bind \/ ConnectTcp \/ ConnectUnix \/ WaitReady
           \/ FinishTcp \/ FinishUnix \/ redisReconnect \/ redisContextSetTimeout
           \/ redisKeepAlive \/ redisFree \/ redisFreeKeepFd \/ Others

-----------------------------------------------------------------------------
(* Properties *)

\* A number the context may close is that of its own socket, and no path of a
\* connection attempt leaves a socket behind.  There are two exceptions.  After
\* a redisReconnect that failed before it had a new socket, the number it closed
\* is still in c->fd, and redisFree closes it once more, whoever has it by then.
\* And the retries of an address with SO_REUSEADDR leave their sockets open.
\* An attempt that fails says why in c->err, again unless SO_REUSEADDR was asked
\* for.
SocketsOwned ==
    LET mine == {f \in Open : owner[f] = "ctx"} IN
    /\ at = "done" /\ fd > 0 /\ (redials = 0 \/ ok) => fd \in mine
    /\ at = "done" /\ ~Has("REUSEADDR") => mine \subseteq {fd}
    /\ at = "freed" /\ ~Has("REUSEADDR") => mine = {}
    /\ at = "done" /\ ~ok /\ ~Has("REUSEADDR") => err # "none"

=============================================================================
