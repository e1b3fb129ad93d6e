--------------------------- MODULE HiredisAdapters ---------------------------
(***************************************************************************)
(* hiredis-0.11.0/adapters: the eight bindings of an asynchronous context  *)
(* to an event loop, each driven by the calls that async.c makes of its    *)
(* hooks.  Of the context only what decides those calls is kept; its       *)
(* replies and callbacks are HiredisAsync.  The event libraries are        *)
(* external: an event of libevent, and a write event of CFSocket, is       *)
(* reported once and has to be added again; the others until removed.      *)
(***************************************************************************)
EXTENDS Integers, Sequences, FiniteSets, SequencesExt

CONSTANTS Kinds,   \* the adapters under study: libevent, libev, ae, libuv, ivykis,
                   \* glib, macosx, qt
          MaxCmds  \* bound: commands issued

Events == {"read", "write"}

VARIABLES kind,
          ctx,     \* "connecting", "connected" or "freed"
          hooks,   \* ac->ev.addRead and the others are set
          data,    \* ac->ev.data: "null" or "set"
          box,     \* the container: "none", "live", "closing", "freed"
          wants,   \* reading and writing, or p->events, of the container
          watch,   \* events the loop reports
          todo,    \* events of the callback that runs, still to be handled
          issued, obuf, owed,  \* commands: issued, not written, not answered
          armed,   \* a hook has been called since the adapter was attached
          faults   \* uses of memory that is gone

avars == <<kind, ctx, hooks, data, box, wants, watch, todo, issued, obuf, owed,
           armed, faults>>

AdapterInit ==
    /\ kind \in Kinds
    /\ ctx = "connecting" /\ hooks = FALSE /\ data = "null" /\ box = "none"
    /\ wants = {} /\ watch = {} /\ todo = <<>>
    /\ issued = 0 /\ obuf = 0 /\ owed = 0 /\ armed = FALSE /\ faults = {}

Toggle(S, on, x) == IF on THEN S \cup {x} ELSE S \ {x}

-----------------------------------------------------------------------------
(* The hooks: e is the pair of wants and watch, x is added (on) or removed *)

Both(e, on, x)    == [wants |-> Toggle(e.wants, on, x), watch |-> Toggle(e.watch, on, x)]
Loop(e, on, x)    == [e EXCEPT !.watch = Toggle(@, on, x)]
Flagged(e, on, x) == IF (x \in e.wants) = on THEN e ELSE Both(e, on, x)

LibeventHook(e, on, x) == Loop(e, on, x)


LibevHook(e, on, x) == Flagged(e, on, x)
AeHook(e, on, x)    == Flagged(e, on, x)

\* uv_poll_start replaces the set of events; with none left, uv_poll_stop.
LibuvHook(e, on, x) == LET w == Toggle(e.wants, on, x) IN [wants |-> w, watch |-> w]

IvykisHook(e, on, x) == Loop(e, on, x)

\* poll_fd.events is what the loop polls for.
GlibHook(e, on, x) == LET w == Toggle(e.wants, on, x) IN [wants |-> w, watch |-> w]

MacOSHook(e, on, x) == Loop(e, on, x)

\* A notifier exists or not.
QtHook(e, on, x) == Flagged(e, on, x)

Hook(e, on, x) ==
    CASE kind = "libevent" -> LibeventHook(e, on, x) [] kind = "libev" -> LibevHook(e, on, x)
      [] kind = "ae"       -> AeHook(e, on, x)       [] kind = "libuv" -> LibuvHook(e, on, x)
      [] kind = "ivykis"   -> IvykisHook(e, on, x)   [] kind = "glib"  -> GlibHook(e, on, x)
      [] kind = "macosx"   -> MacOSHook(e, on, x)    [] kind = "qt"    -> QtHook(e, on, x)

\* _EL_ADD_READ and the others: the hook is called if it is set, whatever
\* ev.data is.
Damage == IF ~hooks THEN {}
          ELSE IF data = "null" THEN {"null container"}
          ELSE IF box # "live" THEN {"stale container"} ELSE {}

Call(e, on, x) == IF hooks /\ Damage = {} THEN Hook(e, on, x) ELSE e

Now       == [wants |-> wants, watch |-> watch]
Becomes(e) == /\ wants' = e.wants /\ watch' = e.watch
              /\ faults' = faults \cup Damage

-----------------------------------------------------------------------------
(* Attaching *)

\* Nothing is attached twice.  Only ivykis and CFSocket start with both events.
AttachTo(starts) ==
    /\ ctx # "freed" /\ data = "null" /\ box = "none"
    /\ hooks' = TRUE /\ data' = "set" /\ box' = "live"
    /\ wants' = {} /\ watch' = starts
    /\ UNCHANGED <<kind, ctx, todo, issued, obuf, owed, armed, faults>>

LibeventAttach == kind = "libevent" /\ AttachTo({})
LibevAttach    == kind = "libev" /\ AttachTo({})
AeAttach       == kind = "ae" /\ AttachTo({})
IvykisAttach   == kind = "ivykis" /\ AttachTo(Events)
GlibAttach     == kind = "glib" /\ AttachTo({})
QtAttach       == kind = "qt" /\ AttachTo({})

\* The hooks are set before anything can fail.
LibuvAttach ==
    /\ kind = "libuv"
    /\ \/ AttachTo({})
       \/ /\ data = "null" /\ ctx # "freed" /\ ~hooks
          /\ hooks' = TRUE
          /\ UNCHANGED <<kind, ctx, data, box, wants, watch, todo, issued, obuf, owed,
                         armed, faults>>

\* freeRedisRunLoop on a failure frees the container ev.data points to.
MacOSAttach ==
    /\ kind = "macosx"
    /\ \/ AttachTo(Events)
       \/ /\ data = "null" /\ ctx # "freed"
          /\ hooks' = TRUE /\ data' = "set" /\ box' = "freed"
          /\ UNCHANGED <<kind, ctx, wants, watch, todo, issued, obuf, owed, armed, faults>>

Attach == LibeventAttach \/ LibevAttach \/ AeAttach \/ IvykisAttach \/ GlibAttach
          \/ QtAttach \/ LibuvAttach \/ MacOSAttach

-----------------------------------------------------------------------------
(* The context *)

\* The cleanup hooks: what becomes of the container.
LibeventCleanup == "freed"
LibevCleanup    == "freed"
AeCleanup       == "freed"
LibuvCleanup    == "closing"   \* until on_close
IvykisCleanup   == "freed"
GlibCleanup     == "live"      \* its owner drops the GSource
MacOSCleanup    == "freed"
QtCleanup       == "live"      \* its owner deletes the adapter

\* _EL_CLEANUP
Cleanup ==
    /\ watch' = {} /\ wants' = {}
    /\ box' = IF ~hooks \/ Damage # {} THEN box
              ELSE CASE kind = "libevent" -> LibeventCleanup [] kind = "libev" -> LibevCleanup
                     [] kind = "ae"       -> AeCleanup       [] kind = "libuv" -> LibuvCleanup
                     [] kind = "ivykis"   -> IvykisCleanup   [] kind = "glib"  -> GlibCleanup
                     [] kind = "macosx"   -> MacOSCleanup    [] kind = "qt"    -> QtCleanup

\* __redisAsyncFree
FreeContext ==
    /\ Cleanup
    /\ ctx' = "freed"
    /\ faults' = faults \cup Damage
    /\ UNCHANGED <<kind, hooks, data, issued, obuf, owed, armed>>

\* redisAsyncSetConnectCallback
SetConnectCallback ==
    /\ ctx = "connecting" /\ ~armed /\ data = "set" /\ todo = <<>>
    /\ Becomes(Call(Now, TRUE, "write"))
    /\ armed' = TRUE
    /\ UNCHANGED <<kind, ctx, hooks, data, box, todo, issued, obuf, owed>>

\* __redisAsyncCommand, also before an adapter is attached.
Command ==
    /\ ctx # "freed" /\ todo = <<>> /\ issued < MaxCmds
    /\ issued' = issued + 1 /\ obuf' = obuf + 1
    /\ Becomes(Call(Now, TRUE, "write"))
    /\ armed' = (armed \/ hooks)
    /\ UNCHANGED <<kind, ctx, hooks, data, box, todo, owed>>

\* redisAsyncFree, called from the loop.
redisAsyncFree ==
    /\ ctx # "freed" /\ todo = <<>>
    /\ FreeContext
    /\ UNCHANGED todo

-----------------------------------------------------------------------------
(* The loop *)

\* A connecting or writable socket is ready to write; replies make it readable.
Ready == watch \cap ({"write"} \cup IF owed > 0 THEN {"read"} ELSE {})

In(S, order) == SelectSeq(order, LAMBDA x : x \in S)

\* libuv gets the ready events together and reads first, glib writes first.
redisLibuvPoll(S)        == In(S, <<"read", "write">>)
redis_source_dispatch(S) == In(S, <<"write", "read">>)

\* The loop calls the adapter.  All others get one event at a time.
Dispatch ==
    /\ todo = <<>> /\ Ready # {}
    /\ \E S \in SUBSET Ready \ {{}} :
          /\ \/ kind = "libuv" /\ todo' = redisLibuvPoll(S)
             \/ kind = "glib" /\ todo' = redis_source_dispatch(S)
             \/ kind \notin {"libuv", "glib"} /\ \E x \in Events : S = {x} /\ todo' = <<x>>
          /\ watch' = IF kind = "libevent" \/ (kind = "macosx" /\ S = {"write"})
                      THEN watch \ S ELSE watch
    /\ UNCHANGED <<kind, ctx, hooks, data, box, wants, issued, obuf, owed, armed, faults>>

\* redisAsyncHandleRead or redisAsyncHandleWrite on a context that is gone.
HandleFreed ==
    /\ todo # <<>> /\ ctx = "freed"
    /\ todo' = Tail(todo)
    /\ faults' = faults \cup {"stale context"}
    /\ UNCHANGED <<kind, ctx, hooks, data, box, wants, watch, issued, obuf, owed, armed>>

redisAsyncHandleWrite ==
    /\ todo # <<>> /\ Head(todo) = "write" /\ ctx # "freed"
    /\ todo' = Tail(todo)
    /\ ctx' = "connected"
    /\ \E n \in 0..obuf :
          /\ obuf' = obuf - n /\ owed' = owed + n
          /\ Becomes(Call(Call(Now, n < obuf, "write"), TRUE, "read"))
    /\ UNCHANGED <<kind, hooks, data, box, issued, armed>>

redisAsyncHandleRead ==
    /\ todo # <<>> /\ Head(todo) = "read" /\ ctx # "freed"
    /\ todo' = Tail(todo)
    /\ ctx' = "connected"
    /\ owed' \in 0..owed
    /\ Becomes(Call(Now, TRUE, "read"))
    /\ UNCHANGED <<kind, hooks, data, box, issued, obuf, armed>>

\* Connecting, reading or writing fails, or a callback frees the context.
HandleFails ==
    /\ todo # <<>> /\ ctx # "freed"
    /\ todo' = Tail(todo)
    /\ FreeContext

\* on_close of libuv
OnClose ==
    /\ box = "closing" /\ todo = <<>>
    /\ box' = "freed"
    /\ UNCHANGED <<kind, ctx, hooks, data, wants, watch, todo, issued, obuf, owed, armed,
                   faults>>

\* The destructor of RedisQtAdapter clears ev.data of its context, which
\* cleanup() has not forgotten.
QtDestroy ==
    /\ kind = "qt" /\ box = "live" /\ todo = <<>>
    /\ box' = "freed" /\ data' = "null"
    /\ watch' = {}
    /\ faults' = IF ctx = "freed" THEN faults \cup {"stale context"} ELSE faults
    /\ UNCHANGED <<kind, ctx, hooks, wants, todo, issued, obuf, owed, armed>>

\* The owner of the GSource drops it; redis_source_finalize removes the poll.
GlibFinalize ==
    /\ kind = "glib" /\ box = "live" /\ ctx = "freed" /\ todo = <<>>
    /\ box' = "freed"
    /\ UNCHANGED <<kind, ctx, hooks, data, wants, watch, todo, issued, obuf, owed, armed,
                   faults>>

\* A fault ends the program.
AdapterStep ==
    /\ faults = {}
    /\ \/ Attach \/ SetConnectCallback \/ Command \/ redisAsyncFree \/ Dispatch
       \/ HandleFreed \/ redisAsyncHandleWrite \/ redisAsyncHandleRead
       \/ HandleFails \/ OnClose \/ QtDestroy \/ GlibFinalize

-----------------------------------------------------------------------------
(* Properties *)

\* What async.c counts on between two events: output that waits has the write
\* event watched, replies that are due have the read event watched, and a
\* connection in progress is watched at all.  An event that is reported once
\* has been added again by the handler it was reported to.
Watched ==
    todo = <<>> /\ ctx # "freed" /\ armed /\ data = "set" /\ box = "live"
        => /\ obuf > 0 => "write" \in watch
           /\ owed > 0 => "read" \in watch
           /\ ctx = "connecting" => watch # {}

\* Faults that an adapter does have: libuv and glib hand a second event to a
\* context the first one freed, libuv leaves its hooks without a container and
\* CFSocket its freed container in the context when attaching fails, and the
\* Qt adapter and its context do not survive one another.
FaultsOf(k) ==
    CASE k = "libuv"  -> {"stale context", "null container"}
      [] k = "glib"   -> {"stale context"}
      [] k = "macosx" -> {"stale container"}
      [] k = "qt"     -> {"stale context", "null container"}
      [] OTHER        -> {}

\* The hooks and handlers of libevent, libev, ae and ivykis never touch a
\* container or a context that has been freed; the other adapters do so only in
\* the ways of FaultsOf.
LiveCalls == faults \subseteq FaultsOf(kind)
=============================================================================
