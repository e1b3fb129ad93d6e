---------------------------- MODULE HiredisAsync ----------------------------
(***************************************************************************)
(* hiredis-0.11.0/async.c: one asynchronous context in an event loop.      *)
(* Commands queue a callback; replies, which carry no tag, are given to    *)
(* the queued callbacks in order, and publish/subscribe messages to the    *)
(* callback of their channel.  Handlers are cut where they call a user     *)
(* callback, which may itself issue commands, disconnect or free.          *)
(* Connect and disconnect callbacks get a const context and do not call    *)
(* back.  MONITOR and patterns (a second table of channels) are left out.  *)
(*                                                                         *)
(* Commands are numbered as they are accepted.  A number stands for the    *)
(* command, its callback and its bytes.                                    *)
(***************************************************************************)
EXTENDS Integers, Sequences, FiniteSets, SequencesExt

CONSTANTS Ops,       \* kinds of commands the user issues
          Channels,
          MaxCmds,   \* bound: commands
          MaxPublish \* bound: messages published

ASSUME AsyncAssumption ==
    /\ Ops \subseteq {"get", "quiet", "sub", "unsub"}
    /\ MaxCmds \in Nat /\ MaxPublish \in Nat

NoChannel == "none"
NoCb      == 0
Ids       == 1..MaxCmds

VARIABLES at,        \* where control is, see TypeOK
          flags,     \* c->flags
          err,       \* c->err
          acerr,     \* ac->err
          cmds,      \* the accepted commands: kind and channel
          replies,   \* ac->replies
          invalid,   \* ac->sub.invalid
          channels,  \* ac->sub.channels: the callback of each channel
          obuf,      \* commands not written
          rbuf,      \* replies in the reader
          armed,     \* the events the loop watches
          cb,        \* cb of redisProcessCallbacks
          arg,       \* the reply a running callback was given, or "null"
          count,     \* calls of each callback
          nulled,    \* callbacks called with a NULL reply
          status,    \* argument of the disconnect callback
          frees,     \* times the context was freed
          wire,      \* commands on their way to the server
          back,      \* replies on their way from it
          srv,       \* the server: channels subscribed to
          published  \* messages published so far

clientVars == <<at, flags, err, acerr, cmds, replies, invalid, channels, obuf,
                rbuf, armed, cb, arg, count, nulled, status, frees>>
serverVars == <<wire, back, srv, published>>
vars       == <<clientVars, serverVars>>

Init ==
    /\ at = "loop"
    /\ flags = {} /\ err = "none" /\ acerr = "none"
    /\ cmds = <<>> /\ replies = <<>> /\ invalid = <<>>
    /\ channels = [c \in Channels |-> NoCb]
    /\ obuf = <<>> /\ rbuf = <<>>
    /\ armed = {"write"}
    /\ cb = NoCb /\ arg = "null"
    /\ count = [i \in Ids |-> 0] /\ nulled = {}
    /\ status = "none" /\ frees = 0
    /\ wire = <<>> /\ back = <<>> /\ srv = {} /\ published = 0

Has(f) == f \in flags

\* A callback given as NULL is never called.
HasFn(i) == i # NoCb /\ cmds[i].kind # "quiet"

\* The callback lists.
redisPushCallback(list, id) == Append(list, id)
redisShiftCallback(list) == Tail(list)

-----------------------------------------------------------------------------
(* The user: from the event loop or from a reply callback *)

UserRuns == at \in {"loop", "cb", "nullcb"}

Refuses == Has("DISCONNECTING") \/ Has("FREEING")

\* __redisAsyncCommand
Command(k, ch) ==
    /\ UserRuns
    /\ ~Refuses
    /\ Len(cmds) < MaxCmds
    /\ k = "unsub" => Has("SUBSCRIBED")
    /\ LET id == Len(cmds) + 1
           simple == k \in {"get", "quiet"} IN
       /\ cmds' = Append(cmds, [kind |-> k, chan |-> IF simple THEN NoChannel ELSE ch])
       /\ obuf' = Append(obuf, id)
       /\ flags' = IF k = "sub" THEN flags \cup {"SUBSCRIBED"} ELSE flags
       /\ channels' = IF k = "sub" THEN [channels EXCEPT ![ch] = id] ELSE channels
       /\ invalid' = IF simple /\ Has("SUBSCRIBED") THEN redisPushCallback(invalid, id)
                                                    ELSE invalid
       /\ replies' = IF simple /\ ~Has("SUBSCRIBED") THEN redisPushCallback(replies, id)
                                                     ELSE replies
    /\ armed' = armed \cup {"write"}
    /\ UNCHANGED <<at, err, acerr, rbuf, cb, arg, count, nulled, status, frees>>
    /\ UNCHANGED serverVars

\* __redisAsyncDisconnect: control goes on in __redisAsyncFree.  A clean
\* disconnect asserts that no callback is pending.
Disconnect(e) ==
    /\ acerr' = e
    /\ err' = e
    /\ at' = IF e = "none" /\ replies # <<>> THEN "assert339" ELSE "drain"

\* With DISCONNECTING set, also on an error, no command is accepted any more.
DisconnectFlags(e, f) == IF e = "none" THEN f ELSE f \cup {"DISCONNECTING"}

redisAsyncDisconnect ==
    /\ UserRuns
    /\ ~Has("DISCONNECTING")
    /\ flags' = flags \cup {"DISCONNECTING"}
    /\ IF at = "loop" /\ replies = <<>>
       THEN Disconnect(err)
       ELSE UNCHANGED <<at, acerr, err>>
    /\ UNCHANGED <<cmds, replies, invalid, channels, obuf, rbuf, armed, cb, arg,
                   count, nulled, status, frees>>
    /\ UNCHANGED serverVars

redisAsyncFree ==
    /\ UserRuns
    /\ ~Has("FREEING")
    /\ flags' = flags \cup {"FREEING"}
    /\ at' = IF at = "loop" THEN "drain" ELSE at
    /\ UNCHANGED <<err, acerr, cmds, replies, invalid, channels, obuf, rbuf,
                   armed, cb, arg, count, nulled, status, frees>>
    /\ UNCHANGED serverVars

-----------------------------------------------------------------------------
(* Events *)

\* __redisAsyncHandleConnect finds that connect failed.
ConnectFails ==
    /\ at = "loop"
    /\ armed # {}
    /\ ~Has("CONNECTED")
    /\ Disconnect("io")
    /\ flags' = DisconnectFlags("io", flags)
    /\ UNCHANGED <<cmds, replies, invalid, channels, obuf, rbuf, armed, cb, arg,
                   count, nulled, status, frees>>
    /\ UNCHANGED serverVars

\* Mutant: reads are not scheduled after a write.
redisAsyncHandleWriteOnly ==
    /\ at = "loop"
    /\ "write" \in armed
    /\ flags' = flags \cup {"CONNECTED"}
    /\ wire' = wire \o obuf
    /\ obuf' = <<>>
    /\ armed' = armed \ {"write"}
    /\ UNCHANGED <<at, err, acerr, cmds, replies, invalid, channels, rbuf, cb, arg,
                   count, nulled, status, frees, back, srv, published>>

\* The socket takes some of the output, or all of it.
redisAsyncHandleWrite ==
    /\ at = "loop"
    /\ "write" \in armed
    /\ flags' = flags \cup {"CONNECTED"}
    /\ \E n \in 0..Len(obuf) :
          /\ obuf # <<>> => n > 0
          /\ wire' = wire \o SubSeq(obuf, 1, n)
          /\ obuf' = SubSeq(obuf, n + 1, Len(obuf))
    /\ armed' = {"read"} \cup (IF obuf' = <<>> THEN {} ELSE {"write"})
    /\ UNCHANGED <<at, err, acerr, cmds, replies, invalid, channels, rbuf, cb, arg,
                   count, nulled, status, frees, back, srv, published>>

\* Some of what the server sent is read; redisProcessCallbacks follows, with a
\* fresh cb.
redisAsyncHandleRead ==
    /\ at = "loop"
    /\ "read" \in armed
    /\ back # <<>>
    /\ flags' = flags \cup {"CONNECTED"}
    /\ \E n \in 1..Len(back) :
          /\ rbuf' = rbuf \o SubSeq(back, 1, n)
          /\ back' = SubSeq(back, n + 1, Len(back))
    /\ cb' = NoCb
    /\ at' = "process"
    /\ UNCHANGED <<err, acerr, cmds, replies, invalid, channels, obuf, armed, arg,
                   count, nulled, status, frees, wire, srv, published>>

\* A read or a write fails, or the server has closed the connection.
IoFails ==
    /\ at = "loop"
    /\ armed # {}
    /\ Has("CONNECTED")
    /\ Disconnect("io")
    /\ flags' = DisconnectFlags("io", flags)
    /\ UNCHANGED <<cmds, replies, invalid, channels, obuf, rbuf, armed, cb, arg,
                   count, nulled, status, frees>>
    /\ UNCHANGED serverVars

-----------------------------------------------------------------------------
(* redisProcessCallbacks *)

\* No complete reply is left: the cue to disconnect, or to wait for more.
ProcessEmpty ==
    /\ at = "process"
    /\ rbuf = <<>>
    /\ IF Has("DISCONNECTING") /\ obuf = <<>> /\ replies = <<>>
       THEN Disconnect(err)
       ELSE at' = "loop" /\ UNCHANGED <<acerr, err>>
    /\ UNCHANGED <<flags, cmds, replies, invalid, channels, obuf, rbuf, armed, cb,
                   arg, count, nulled, status, frees>>
    /\ UNCHANGED serverVars

\* The callback c is run with reply r, or the reply dropped when it has none.
RunCallback(c, r) ==
    /\ cb' = c
    /\ IF HasFn(c)
       THEN /\ at' = "cb"
            /\ arg' = r
            /\ count' = [count EXCEPT ![c] = @ + 1]
       ELSE UNCHANGED <<at, arg, count>>



\* Regular callbacks come first.
ProcessReply ==
    /\ at = "process"
    /\ rbuf # <<>> /\ replies # <<>>
    /\ RunCallback(Head(replies), Head(rbuf))
    /\ replies' = redisShiftCallback(replies)
    /\ rbuf' = Tail(rbuf)
    /\ UNCHANGED <<flags, err, acerr, cmds, invalid, channels, obuf, armed, nulled,
                   status, frees>>
    /\ UNCHANGED serverVars

\* An error reply nobody waits for ends the connection.
ProcessStrayError ==
    /\ at = "process"
    /\ rbuf # <<>> /\ replies = <<>>
    /\ Head(rbuf).type = "error"
    /\ Disconnect("other")
    /\ flags' = DisconnectFlags("other", flags)
    /\ rbuf' = Tail(rbuf)
    /\ UNCHANGED <<cmds, replies, invalid, channels, obuf, armed, cb, arg, count,
                   nulled, status, frees>>
    /\ UNCHANGED serverVars

\* __redisGetSubscribeCallback for a message: the callback of its channel; cb
\* keeps its value when there is none.  Anything else goes to the callback of
\* a command issued while subscribed.
ProcessMessage ==
    /\ at = "process"
    /\ rbuf # <<>> /\ replies = <<>>
    /\ LET r == Head(rbuf) IN
       /\ r.type # "error"
       /\ IF ~Has("SUBSCRIBED")
          THEN at' = "assert463" /\ UNCHANGED <<cb, arg, count, channels, invalid, flags>>
          ELSE IF r.type = "value"
          THEN /\ RunCallback(IF invalid = <<>> THEN cb ELSE Head(invalid), r)
               /\ invalid' = IF invalid = <<>> THEN <<>> ELSE redisShiftCallback(invalid)
               /\ UNCHANGED <<channels, flags>>
          ELSE LET found == channels[r.chan] # NoCb
                   gone  == found /\ r.type = "unsubscribe" IN
               /\ RunCallback(IF found THEN channels[r.chan] ELSE cb, r)
               /\ channels' = IF gone THEN [channels EXCEPT ![r.chan] = NoCb]
                                      ELSE channels
               /\ flags' = IF gone /\ r.left = 0 THEN flags \ {"SUBSCRIBED"}
                                                ELSE flags
               /\ UNCHANGED invalid
    /\ rbuf' = Tail(rbuf)
    /\ UNCHANGED <<err, acerr, cmds, replies, obuf, armed, nulled, status, frees>>
    /\ UNCHANGED serverVars

\* A reply callback returns; a free it asked for is carried out now.
CallbackReturns ==
    /\ at = "cb"
    /\ at' = IF Has("FREEING") THEN "drain" ELSE "process"
    /\ UNCHANGED <<flags, err, acerr, cmds, replies, invalid, channels, obuf, rbuf,
                   armed, cb, arg, count, nulled, status, frees>>
    /\ UNCHANGED serverVars

-----------------------------------------------------------------------------
(* __redisAsyncFree *)

NullCallback(c) ==
    IF HasFn(c)
    THEN /\ at' = "nullcb"
         /\ cb' = c
         /\ arg' = "null"
         /\ count' = [count EXCEPT ![c] = @ + 1]
         /\ nulled' = nulled \cup {c}
    ELSE UNCHANGED <<at, cb, arg, count, nulled>>

DrainReplies ==
    /\ at = "drain"
    /\ replies # <<>>
    /\ NullCallback(Head(replies))
    /\ replies' = redisShiftCallback(replies)
    /\ UNCHANGED <<flags, err, acerr, cmds, invalid, channels, obuf, rbuf, armed,
                   status, frees>>
    /\ UNCHANGED serverVars

DrainInvalid ==
    /\ at = "drain"
    /\ replies = <<>> /\ invalid # <<>>
    /\ NullCallback(Head(invalid))
    /\ invalid' = redisShiftCallback(invalid)
    /\ UNCHANGED <<flags, err, acerr, cmds, replies, channels, obuf, rbuf, armed,
                   status, frees>>
    /\ UNCHANGED serverVars

DrainChannel(ch) ==
    /\ at = "drain"
    /\ replies = <<>> /\ invalid = <<>>
    /\ channels[ch] # NoCb
    /\ NullCallback(channels[ch])
    /\ channels' = [channels EXCEPT ![ch] = NoCb]
    /\ UNCHANGED <<flags, err, acerr, cmds, replies, invalid, obuf, rbuf, armed,
                   status, frees>>
    /\ UNCHANGED serverVars

NullCallbackReturns ==
    /\ at = "nullcb"
    /\ at' = "drain"
    /\ UNCHANGED <<flags, err, acerr, cmds, replies, invalid, channels, obuf, rbuf,
                   armed, cb, arg, count, nulled, status, frees>>
    /\ UNCHANGED serverVars

\* The argument of the disconnect callback, if it is called.
DisconnectStatus ==
    IF ~Has("CONNECTED") THEN "none"
    ELSE IF Has("FREEING") \/ acerr = "none" THEN "REDIS_OK" ELSE "REDIS_ERR"

\* Clean up the events, call the disconnect callback, free the context.
FreeContext ==
    /\ at = "drain"
    /\ replies = <<>> /\ invalid = <<>>
    /\ \A ch \in Channels : channels[ch] = NoCb
    /\ armed' = {}
    /\ status' = DisconnectStatus
    /\ frees' = frees + 1
    /\ at' = "freed"
    /\ UNCHANGED <<flags, err, acerr, cmds, replies, invalid, channels, obuf, rbuf,
                   cb, arg, count, nulled>>
    /\ UNCHANGED serverVars

-----------------------------------------------------------------------------
(* The server *)

Answer(id) ==
    LET cmd == cmds[id] IN
    CASE cmd.kind \in {"get", "quiet"} ->
            {[id |-> id, chan |-> NoChannel, left |-> 0, type |-> t] :
                t \in IF srv = {} THEN {"value", "error"} ELSE {"error"}}
      [] cmd.kind = "sub" ->
            {[id |-> id, chan |-> cmd.chan, left |-> Cardinality(srv \cup {cmd.chan}),
              type |-> "subscribe"]}
      [] cmd.kind = "unsub" ->
            {[id |-> id, chan |-> cmd.chan, left |-> Cardinality(srv \ {cmd.chan}),
              type |-> "unsubscribe"]}

\* Commands are served in order.  With subscriptions a command other than
\* (UN)SUBSCRIBE is an error.
Serve ==
    /\ wire # <<>>
    /\ at # "freed"
    /\ \E r \in Answer(Head(wire)) : back' = Append(back, r)
    /\ srv' = CASE cmds[Head(wire)].kind = "sub" -> srv \cup {cmds[Head(wire)].chan}
                [] cmds[Head(wire)].kind = "unsub" -> srv \ {cmds[Head(wire)].chan}
                [] OTHER -> srv
    /\ wire' = Tail(wire)
    /\ UNCHANGED <<published, clientVars>>

\* Somebody publishes on a channel.
Publish(ch) ==
    /\ ch \in srv
    /\ at # "freed"
    /\ published < MaxPublish
    /\ published' = published + 1
    /\ back' = Append(back, [id |-> 0, chan |-> ch, left |-> 0, type |-> "message"])
    /\ UNCHANGED <<wire, srv, clientVars>>

Process == ProcessEmpty \/ ProcessReply \/ ProcessStrayError \/ ProcessMessage

Free == DrainReplies \/ DrainInvalid \/ FreeContext
        \/ \E ch \in Channels : DrainChannel(ch)

Library == Process \/ Free \/ CallbackReturns \/ NullCallbackReturns

User == redisAsyncDisconnect \/ redisAsyncFree
        \/ \E k \in Ops, ch \in Channels : Command(k, ch)

Next ==
    \/ User
    \/ ConnectFails \/ IoFails \/ redisAsyncHandleWrite \/ redisAsyncHandleRead
    \/ Library
    \/ Serve \/ \E ch \in Channels : Publish(ch)

Spec == Init /\ [][Next]_vars

\* The event loop dispatches armed events, handlers and callbacks end, and the
\* server answers.
Fairness ==
    /\ WF_vars(redisAsyncHandleWrite)
    /\ WF_vars(redisAsyncHandleRead)
    /\ WF_vars(Library)
    /\ WF_vars(Serve)

FairSpec == Spec /\ Fairness

-----------------------------------------------------------------------------
(* Properties *)

\* Every variable stays in its range.
TypeOK ==
    /\ at \in {"loop", "process", "cb", "drain", "nullcb", "freed", "assert339",
               "assert463"}
    /\ flags \subseteq {"CONNECTED", "DISCONNECTING", "FREEING", "SUBSCRIBED"}
    /\ err \in {"none", "io", "other"} /\ acerr \in {"none", "io", "other"}
    /\ Len(cmds) <= MaxCmds
    /\ \A s \in {replies, invalid, obuf, wire} : \A i \in 1..Len(s) : s[i] \in Ids
    /\ channels \in [Channels -> {NoCb} \cup Ids]
    /\ armed \subseteq {"read", "write"}
    /\ status \in {"none", "REDIS_OK", "REDIS_ERR"}
    /\ srv \subseteq Channels



\* redisAsyncDisconnect ends with the context freed, once the replies under
\* way have come, unless an answer to SUBSCRIBE that follows the answer to an
\* UNSUBSCRIBE meets the assertion that the context is subscribed.
DisconnectEnds == Has("DISCONNECTING") ~> at \in {"freed", "assert463"}

=============================================================================
