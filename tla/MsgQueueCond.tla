---------------------------- MODULE MsgQueueCond ----------------------------
(***************************************************************************)
(* util/msg_queue.h: util::MsgQueueCond, a queue of heap objects with a    *)
(* mutex and one condition on which only readers wait.  Every operation    *)
(* holds the mutex, so what it does up to its end or to its wait is one    *)
(* step; a reader woken from a wait has yet to get the mutex back.         *)
(*                                                                         *)
(* Writers post fresh objects, never NULL.  A signal wakes one of the      *)
(* waiting readers; a wait may also end by itself (spuriously or, for the  *)
(* timed get_msg, at its deadline).                                        *)
(***************************************************************************)
EXTENDS Integers, Sequences, FiniteSets

CONSTANTS Writers, Readers,
          MaxSize,   \* g_maxqueuesize
          MaxPosts   \* bound: posts of one writer

ASSUME QueueAssumption ==
    /\ IsFiniteSet(Readers)
    /\ MaxSize \in Nat
    /\ MaxPosts \in Nat

VARIABLES queue,    \* queue_
          reader,   \* what each reader is doing
          posts,    \* calls of post_msg by each writer
          posted,   \* all messages post_msg accepted, in order
          got       \* all messages get_msg returned, in order

vars == <<queue, reader, posts, posted, got>>

Message == Writers \X Nat

Waiting == {r \in Readers : reader[r] \in {"wait", "timedwait"}}
Woken   == {r \in Readers : reader[r] \in {"woken", "timedwoken"}}

WokenState(s) == IF s = "wait" THEN "woken" ELSE "timedwoken"

Init ==
    /\ queue = <<>>
    /\ reader = [r \in Readers |-> "idle"]
    /\ posts = [w \in Writers |-> 0]
    /\ posted = <<>>
    /\ got = <<>>

\* One message more than g_maxqueuesize gets in.
Full == Len(queue) > MaxSize

\* Mutant: the push is not signalled when the queue already has messages.
SignalOnFirst ==
    IF Waiting = {} \/ queue # <<>>
    THEN UNCHANGED reader
    ELSE \E r \in Waiting :
            reader' = [reader EXCEPT ![r] = WokenState(@)]

\* Mutant: nobody is signalled.
SignalNever == UNCHANGED reader

\* pthread_cond_signal
Signal ==
    IF Waiting = {}
    THEN UNCHANGED reader
    ELSE \E r \in Waiting :
            reader' = [reader EXCEPT ![r] = WokenState(@)]

post_msg(w) ==
    /\ posts[w] < MaxPosts
    /\ posts' = [posts EXCEPT ![w] = @ + 1]
    /\ LET msg == <<w, posts[w]>> IN
       \/ Full /\ UNCHANGED <<queue, reader, posted>>
       \/ /\ ~Full
          /\ queue' = Append(queue, msg)
          /\ posted' = Append(posted, msg)
          /\ Signal
    /\ UNCHANGED got

\* Mutant: front() without pop_front().
TakeKept(r) ==
    /\ got' = Append(got, Head(queue))
    /\ reader' = [reader EXCEPT ![r] = "idle"]
    /\ UNCHANGED <<queue, posts, posted>>

\* front() and pop_front(); get_msg returns.
Take(r) ==
    /\ got' = Append(got, Head(queue))
    /\ queue' = Tail(queue)
    /\ reader' = [reader EXCEPT ![r] = "idle"]
    /\ UNCHANGED <<posts, posted>>

WaitAs(r, how) ==
    /\ reader' = [reader EXCEPT ![r] = how]
    /\ UNCHANGED <<queue, posts, posted, got>>

\* get_msg() and get_msg(time), up to the return or the wait.
get_msg(r) ==
    /\ reader[r] = "idle"
    /\ IF queue # <<>> THEN Take(r) ELSE WaitAs(r, "wait")

get_msg_timed(r) ==
    /\ reader[r] = "idle"
    /\ IF queue # <<>> THEN Take(r) ELSE WaitAs(r, "timedwait")

\* A wait ends without a signal.
Expire(r) ==
    /\ r \in Waiting
    /\ reader' = [reader EXCEPT ![r] = WokenState(@)]
    /\ UNCHANGED <<queue, posts, posted, got>>

\* The loop of get_msg(): the queue is tested again.
Resume(r) ==
    /\ reader[r] = "woken"
    /\ IF queue # <<>> THEN Take(r) ELSE WaitAs(r, "wait")

\* get_msg(time) tests once and gives up with NULL.
ResumeTimed(r) ==
    /\ reader[r] = "timedwoken"
    /\ IF queue # <<>> THEN Take(r) ELSE WaitAs(r, "idle")

Next ==
    \/ \E w \in Writers : post_msg(w)
    \/ \E r \in Readers :
          get_msg(r) \/ get_msg_timed(r) \/ Expire(r) \/ Resume(r) \/ ResumeTimed(r)

Spec == Init /\ [][Next]_vars

\* The threads run, and at least the readers that loop on get_msg() come back
\* for more; no wait is promised to end without a signal.
Fairness ==
    \A r \in Readers :
        /\ WF_vars(get_msg(r))
        /\ WF_vars(Resume(r) \/ ResumeTimed(r))

FairSpec == Spec /\ Fairness

-----------------------------------------------------------------------------
(* Properties *)

\* Every variable stays in its range.
TypeOK ==
    /\ queue \in Seq(Message)
    /\ reader \in [Readers -> {"idle", "wait", "timedwait", "woken",
                               "timedwoken"}]
    /\ posts \in [Writers -> Nat]
    /\ posted \in Seq(Message)
    /\ got \in Seq(Message)

\* Messages come out once each and in the order post_msg accepted them,
\* whichever readers compete for them.
InOrder == got \o queue = posted

\* No signal is lost: while a reader sleeps, every message in the queue has a
\* woken reader on its way to fetch it, although other readers may overtake
\* and timed readers may give up.
NoLostSignal == Waiting # {} => Len(queue) <= Cardinality(Woken)

\* The queue holds at most one message more than g_maxqueuesize.
Bounded == Len(queue) <= MaxSize + 1

\* The invariant the proofs use.
IInv == TypeOK /\ InOrder /\ NoLostSignal /\ Bounded

\* A message in the queue is fetched: readers blocked in get_msg() are woken
\* for it.
Fetched ==
    \A n \in 1..(MaxPosts * Cardinality(Writers)) :
        Len(posted) >= n ~> Len(got) >= n

=============================================================================
