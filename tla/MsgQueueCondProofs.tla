------------------------- MODULE MsgQueueCondProofs -------------------------
(***************************************************************************)
(* Proofs about MsgQueueCond, for any writers, any finite set of readers   *)
(* and any queue limit.                                                    *)
(***************************************************************************)
EXTENDS MsgQueueCond, FiniteSetTheorems, TLAPS

\* Every step keeps the variables in their ranges.
LEMMA TypeInductive == TypeOK /\ [Next]_vars => TypeOK'
<1> SUFFICES ASSUME TypeOK, [Next]_vars PROVE TypeOK'
  OBVIOUS
<1> USE DEF TypeOK
<1>1. ASSUME NEW w \in Writers, post_msg(w) PROVE TypeOK'
  <2>1. <<w, posts[w]>> \in Message
    BY DEF Message
  <2>2. reader' \in [Readers -> {"idle", "wait", "timedwait", "woken", "timedwoken"}]
    BY <1>1 DEF post_msg, Signal, Waiting, WokenState
  <2>3. queue' \in Seq(Message) /\ posted' \in Seq(Message)
    <3> DEFINE msg == <<w, posts[w]>>
    <3>1. \/ queue' = queue /\ posted' = posted
          \/ queue' = Append(queue, msg) /\ posted' = Append(posted, msg)
      BY <1>1 DEF post_msg
    <3>2. msg \in Message
      BY <2>1
    <3> HIDE DEF msg
    <3>3. /\ queue \in Seq(Message) /\ Append(queue, msg) \in Seq(Message)
          /\ posted \in Seq(Message) /\ Append(posted, msg) \in Seq(Message)
      BY <3>2
    <3> QED
      BY <3>1, <3>3
  <2>4. posts' \in [Writers -> Nat] /\ got' \in Seq(Message)
    BY <1>1 DEF post_msg
  <2> QED
    BY <2>2, <2>3, <2>4
<1>2. ASSUME NEW r \in Readers, queue # <<>>, Take(r) PROVE TypeOK'
  BY <1>2 DEF Take
<1>3. ASSUME NEW r \in Readers, get_msg(r) \/ Resume(r) PROVE TypeOK'
  BY <1>2, <1>3 DEF get_msg, Resume, WaitAs
<1>4. ASSUME NEW r \in Readers, get_msg_timed(r) \/ ResumeTimed(r) PROVE TypeOK'
  BY <1>2, <1>4 DEF get_msg_timed, ResumeTimed, WaitAs
<1>5. ASSUME NEW r \in Readers, Expire(r) PROVE TypeOK'
  BY <1>5 DEF Expire, Waiting, WokenState
<1>6. CASE UNCHANGED vars
  BY <1>6 DEF vars
<1> QED
  BY <1>1, <1>3, <1>4, <1>5, <1>6 DEF Next

\* push_back extends the whole history.
LEMMA AppendConcat ==
    ASSUME NEW S, NEW s \in Seq(S), NEW t \in Seq(S), NEW e \in S
    PROVE  s \o Append(t, e) = Append(s \o t, e)
  OBVIOUS

\* pop_front moves the oldest message from the queue to what was returned.
LEMMA ShiftConcat ==
    ASSUME NEW S, NEW s \in Seq(S), NEW t \in Seq(S), t # <<>>
    PROVE  Append(s, Head(t)) \o Tail(t) = s \o t
  OBVIOUS

\* No step reorders, loses or repeats a message.
LEMMA OrderInductive == TypeOK /\ InOrder /\ [Next]_vars => InOrder'
<1> SUFFICES ASSUME TypeOK, InOrder, [Next]_vars PROVE InOrder'
  OBVIOUS
<1> USE DEF InOrder
<1>1. ASSUME NEW w \in Writers, post_msg(w) PROVE InOrder'
  <2>1. <<w, posts[w]>> \in Message
    BY DEF TypeOK, Message
  <2>2. got \o Append(queue, <<w, posts[w]>>) = Append(got \o queue, <<w, posts[w]>>)
    BY <2>1, AppendConcat DEF TypeOK
  <2> QED
    BY <1>1, <2>2 DEF post_msg
<1>2. ASSUME NEW r \in Readers, queue # <<>>, Take(r) PROVE InOrder'
  BY <1>2, ShiftConcat DEF Take, TypeOK
<1>3. ASSUME NEW r \in Readers, get_msg(r) \/ Resume(r) PROVE InOrder'
  BY <1>2, <1>3 DEF get_msg, Resume, WaitAs
<1>4. ASSUME NEW r \in Readers, get_msg_timed(r) \/ ResumeTimed(r) PROVE InOrder'
  BY <1>2, <1>4 DEF get_msg_timed, ResumeTimed, WaitAs
<1>5. ASSUME NEW r \in Readers, Expire(r) PROVE InOrder'
  BY <1>5 DEF Expire
<1>6. CASE UNCHANGED vars
  BY <1>6 DEF vars
<1> QED
  BY <1>1, <1>3, <1>4, <1>5, <1>6 DEF Next

\* The limit test keeps the queue within g_maxqueuesize + 1.
LEMMA BoundInductive == TypeOK /\ Bounded /\ [Next]_vars => Bounded'
<1> SUFFICES ASSUME TypeOK, Bounded, [Next]_vars PROVE Bounded'
  OBVIOUS
<1> USE QueueAssumption DEF Bounded, TypeOK
<1>1. ASSUME NEW w \in Writers, post_msg(w) PROVE Bounded'
  BY <1>1 DEF post_msg, Full
<1>2. ASSUME NEW r \in Readers, queue # <<>>, Take(r) PROVE Bounded'
  BY <1>2 DEF Take
<1>3. ASSUME NEW r \in Readers, get_msg(r) \/ Resume(r) PROVE Bounded'
  BY <1>2, <1>3 DEF get_msg, Resume, WaitAs
<1>4. ASSUME NEW r \in Readers, get_msg_timed(r) \/ ResumeTimed(r) PROVE Bounded'
  BY <1>2, <1>4 DEF get_msg_timed, ResumeTimed, WaitAs
<1>5. ASSUME NEW r \in Readers, Expire(r) PROVE Bounded'
  BY <1>5 DEF Expire
<1>6. CASE UNCHANGED vars
  BY <1>6 DEF vars
<1> QED
  BY <1>1, <1>3, <1>4, <1>5, <1>6 DEF Next

\* Readers on their way can be counted.
LEMMA WokenCount == IsFiniteSet(Woken) /\ Cardinality(Woken) \in Nat
  BY QueueAssumption, FS_Subset, FS_CardinalityType DEF Woken

\* A reader that is woken joins the readers on their way.
LEMMA WakeOne ==
    ASSUME TypeOK, NEW r \in Waiting,
           reader' = [reader EXCEPT ![r] = WokenState(@)]
    PROVE  Waiting' \subseteq Waiting /\ Cardinality(Woken') = Cardinality(Woken) + 1
<1>1. Waiting' \subseteq Waiting /\ Woken' = Woken \cup {r} /\ r \notin Woken
  BY DEF TypeOK, Waiting, Woken, WokenState
<1> QED
  BY <1>1, WokenCount, FS_AddElement

\* A reader that fetches leaves at most one place among them.
LEMMA TakeOne ==
    ASSUME TypeOK, NEW r \in Readers, r \notin Waiting,
           reader' = [reader EXCEPT ![r] = "idle"]
    PROVE  /\ Waiting' = Waiting
           /\ Cardinality(Woken') \in Nat
           /\ Cardinality(Woken') >= Cardinality(Woken) - 1
<1>1. Waiting' = Waiting /\ Woken' = Woken \ {r}
  BY DEF TypeOK, Waiting, Woken
<1>2. Cardinality(Woken \ {r}) = IF r \in Woken THEN Cardinality(Woken) - 1
                                                ELSE Cardinality(Woken)
  BY WokenCount, FS_RemoveElement
<1>3. Cardinality(Woken \ {r}) \in Nat
  BY WokenCount, FS_Subset, FS_CardinalityType
<1> QED
  BY <1>1, <1>2, <1>3, WokenCount

\* Every message is covered by a woken reader as long as one sleeps.
LEMMA SignalInductive == TypeOK /\ NoLostSignal /\ [Next]_vars => NoLostSignal'
<1> SUFFICES ASSUME TypeOK, NoLostSignal, [Next]_vars PROVE NoLostSignal'
  OBVIOUS
<1> USE DEF NoLostSignal
<1>0. Len(queue) \in Nat /\ Cardinality(Woken) \in Nat
  BY WokenCount DEF TypeOK
<1>1. ASSUME NEW w \in Writers, post_msg(w) PROVE NoLostSignal'
  <2>1. CASE UNCHANGED <<queue, reader>>
    BY <2>1 DEF Waiting, Woken
  <2>2. CASE queue' = Append(queue, <<w, posts[w]>>) /\ Signal
    <3>1. CASE Waiting = {}
      BY <2>2, <3>1 DEF Signal, Waiting
    <3>2. CASE Waiting # {}
      <4>1. PICK r \in Waiting : reader' = [reader EXCEPT ![r] = WokenState(@)]
        BY <2>2, <3>2 DEF Signal
      <4>2. Cardinality(Woken') = Cardinality(Woken) + 1
        BY <4>1, WakeOne
      <4>3. Len(queue') = Len(queue) + 1
        BY <2>2 DEF TypeOK
      <4> QED
        BY <3>2, <4>2, <4>3, <1>0
    <3> QED
      BY <3>1, <3>2
  <2> QED
    BY <1>1, <2>1, <2>2 DEF post_msg
<1>2. ASSUME NEW r \in Readers, r \notin Waiting, queue # <<>>, Take(r)
      PROVE  NoLostSignal'
  <2>1. Len(queue') = Len(queue) - 1
    BY <1>2 DEF Take, TypeOK
  <2>2. reader' = [reader EXCEPT ![r] = "idle"]
    BY <1>2 DEF Take
  <2>3. /\ Waiting' = Waiting
        /\ Cardinality(Woken') \in Nat
        /\ Cardinality(Woken') >= Cardinality(Woken) - 1
    BY <1>2, <2>2, TakeOne
  <2> QED
    BY <1>0, <2>1, <2>3
<1>3. ASSUME queue = <<>>, UNCHANGED queue PROVE NoLostSignal'
  <2>1. Cardinality(Woken') \in Nat
    BY QueueAssumption, FS_Subset, FS_CardinalityType DEF Woken
  <2> QED
    BY <1>3, <2>1
<1>4. ASSUME NEW r \in Readers, get_msg(r) \/ get_msg_timed(r) PROVE NoLostSignal'
  <2>1. r \notin Waiting
    BY <1>4 DEF get_msg, get_msg_timed, Waiting
  <2> QED
    BY <1>2, <1>3, <1>4, <2>1 DEF get_msg, get_msg_timed, WaitAs
<1>5. ASSUME NEW r \in Readers, Resume(r) \/ ResumeTimed(r) PROVE NoLostSignal'
  <2>1. r \notin Waiting
    BY <1>5 DEF Resume, ResumeTimed, Waiting
  <2> QED
    BY <1>2, <1>3, <1>5, <2>1 DEF Resume, ResumeTimed, WaitAs
<1>6. ASSUME NEW r \in Readers, Expire(r) PROVE NoLostSignal'
  <2>1. r \in Waiting /\ UNCHANGED queue
    BY <1>6 DEF Expire
  <2>2. Cardinality(Woken') = Cardinality(Woken) + 1 /\ Waiting # {}
    BY <1>6, <2>1, WakeOne DEF Expire
  <2> QED
    BY <1>0, <2>1, <2>2
<1>7. CASE UNCHANGED vars
  BY <1>7 DEF vars, Waiting, Woken
<1> QED
  BY <1>1, <1>4, <1>5, <1>6, <1>7 DEF Next

\* The inductive invariant holds in every reachable state.
THEOREM Invariance == Spec => []IInv
<1>1. Init => IInv
  <2> SUFFICES ASSUME Init PROVE IInv
    OBVIOUS
  <2>1. TypeOK /\ InOrder /\ Bounded
    BY QueueAssumption DEF Init, TypeOK, InOrder, Bounded
  <2>2. NoLostSignal
    BY DEF Init, NoLostSignal, Waiting
  <2> QED
    BY <2>1, <2>2 DEF IInv
<1>2. IInv /\ [Next]_vars => IInv'
  BY TypeInductive, OrderInductive, BoundInductive, SignalInductive DEF IInv
<1> QED
  BY <1>1, <1>2, PTL DEF Spec

\* get_msg hands out the accepted messages once each, in order.
THEOREM OrderTheorem == Spec => []InOrder
<1>1. IInv => InOrder
  BY DEF IInv
<1> QED
  BY <1>1, Invariance, PTL

\* No reader sleeps through a message.
THEOREM SignalTheorem == Spec => []NoLostSignal
<1>1. IInv => NoLostSignal
  BY DEF IInv
<1> QED
  BY <1>1, Invariance, PTL

\* The queue never holds more than g_maxqueuesize + 1 messages.
THEOREM BoundTheorem == Spec => []Bounded
<1>1. IInv => Bounded
  BY DEF IInv
<1> QED
  BY <1>1, Invariance, PTL

=============================================================================
