---------------------------- MODULE BoundedBuffer --------------------------
(***************************************************************************)
(* The circular buffer of multi_thread/boost_condition.cc between its one  *)
(* writer and one reader, which share a single condition variable for      *)
(* "not full" and "not empty".  The mutex is held from the test to the     *)
(* notification except while waiting, so a call is one step per wake-up.   *)
(***************************************************************************)
EXTENDS Integers, TLAPS

CONSTANTS
    BUF_SIZE,
    ITERS      \* numbers the writer sends

ASSUME BufferAssumption == BUF_SIZE \in Nat \ {0} /\ ITERS \in Nat

VARIABLES
    buf_, p_, c_, full_,  \* the buffer
    putter, getter,       \* writer and reader: "run", "wait" (in cond_.wait) or "done"
    sent, received,       \* loop counters of the two threads
    last                  \* what the reader got last

vars == <<buf_, p_, c_, full_, putter, getter, sent, received, last>>

\* buf_ starts with whatever is in memory: a number nobody sends.
Init ==
    /\ buf_ = [i \in 0..(BUF_SIZE - 1) |-> -1]
    /\ p_ = 0 /\ c_ = 0 /\ full_ = 0
    /\ putter = "run" /\ getter = "run"
    /\ sent = 0 /\ received = 0 /\ last = -1

\* cond_.notify_one: the other thread, when it waits.
Notify(thread) == IF thread = "wait" THEN "run" ELSE thread

Successor(i) == IF i + 1 = BUF_SIZE THEN 0 ELSE i + 1

\* A put that forgets to notify.
PutQuiet ==
    /\ putter = "run" /\ sent < ITERS /\ full_ # BUF_SIZE
    /\ buf_' = [buf_ EXCEPT ![p_] = sent]
    /\ p_' = Successor(p_)
    /\ full_' = full_ + 1
    /\ sent' = sent + 1
    /\ UNCHANGED <<c_, putter, getter, received, last>>

put ==
    /\ putter = "run" /\ sent < ITERS /\ full_ # BUF_SIZE
    /\ buf_' = [buf_ EXCEPT ![p_] = sent]
    /\ p_' = Successor(p_)
    /\ full_' = full_ + 1
    /\ sent' = sent + 1
    /\ getter' = Notify(getter)
    /\ UNCHANGED <<c_, putter, received, last>>

putWaits ==
    /\ putter = "run" /\ sent < ITERS /\ full_ = BUF_SIZE
    /\ putter' = "wait"
    /\ UNCHANGED <<buf_, p_, c_, full_, getter, sent, received, last>>

get ==
    /\ getter = "run" /\ received < ITERS /\ full_ # 0
    /\ c_' = Successor(c_)
    /\ full_' = full_ - 1
    /\ received' = received + 1
    /\ last' = buf_[c_]
    /\ putter' = Notify(putter)
    /\ UNCHANGED <<buf_, p_, getter, sent>>

getWaits ==
    /\ getter = "run" /\ received < ITERS /\ full_ = 0
    /\ getter' = "wait"
    /\ UNCHANGED <<buf_, p_, c_, full_, putter, sent, received, last>>

\* cond_.wait may return without a notification; the loops test again.
Spurious ==
    /\ \/ putter = "wait" /\ putter' = "run" /\ UNCHANGED getter
       \/ getter = "wait" /\ getter' = "run" /\ UNCHANGED putter
    /\ UNCHANGED <<buf_, p_, c_, full_, sent, received, last>>

\* Each loop ends after ITERS numbers; main joins both threads.
Finish ==
    /\ \/ putter = "run" /\ sent = ITERS /\ putter' = "done" /\ UNCHANGED getter
       \/ getter = "run" /\ received = ITERS /\ getter' = "done" /\ UNCHANGED putter
    /\ UNCHANGED <<buf_, p_, c_, full_, sent, received, last>>

Next == put \/ putWaits \/ get \/ getWaits \/ Spurious \/ Finish

Spec == Init /\ [][Next]_vars

-----------------------------------------------------------------------------
TypeOK ==
    /\ buf_ \in [0..(BUF_SIZE - 1) -> Int]
    /\ p_ \in 0..(BUF_SIZE - 1) /\ c_ \in 0..(BUF_SIZE - 1)
    /\ full_ \in 0..BUF_SIZE
    /\ putter \in {"run", "wait", "done"} /\ getter \in {"run", "wait", "done"}
    /\ sent \in 0..ITERS /\ received \in 0..ITERS /\ last \in Int

\* A thread waits only while the other has something to do: never both, never
\* the reader once everything is in the buffer, never the writer with room.
NobodyStuck ==
    /\ getter = "wait" => full_ = 0 /\ putter = "run" /\ sent < ITERS
    /\ putter = "wait" => full_ = BUF_SIZE /\ getter = "run" /\ received < ITERS

\* The slot i places after the next one to be read.
Slot(i) == IF c_ + i < BUF_SIZE THEN c_ + i ELSE c_ + i - BUF_SIZE

\* The buffer holds the numbers sent and not received, in order from c_ on:
\* the reader gets every number once and in the order it was sent.
InTurn ==
    /\ last = received - 1
    /\ sent = received + full_
    /\ p_ = (IF full_ = BUF_SIZE THEN c_ ELSE Slot(full_))
    /\ \A i \in 0..(BUF_SIZE - 1) : i < full_ => buf_[Slot(i)] = received + i

\* Both together: put and get never leave the two threads waiting for each
\* other, and hand over every number in order.
BufferSound == NobodyStuck /\ InTurn

\* A thread leaves its loop with its share done.
DoneRight ==
    /\ putter = "done" => sent = ITERS
    /\ getter = "done" => received = ITERS

IInv == TypeOK /\ DoneRight /\ BufferSound

-----------------------------------------------------------------------------
(* Proofs, for any BUF_SIZE and any number of numbers sent: one condition  *)
(* variable is enough for one writer and one reader.                       *)

\* An empty buffer, nothing sent.
LEMMA InitInv == Init => IInv
  BY BufferAssumption DEF Init, IInv, TypeOK, DoneRight, BufferSound, NobodyStuck, InTurn, Slot

\* put adds the next number behind the ones in the buffer and wakes the
\* reader, if it waits.
LEMMA PutInv == ASSUME IInv, put PROVE IInv'
<1> USE BufferAssumption DEF IInv, TypeOK, DoneRight, BufferSound, put
<1>1. TypeOK' /\ DoneRight'
  BY DEF Successor, Notify, InTurn
<1>2. NobodyStuck'
  BY DEF NobodyStuck, Notify, InTurn
<1>3. InTurn'
  <2>1. /\ full_ < BUF_SIZE /\ p_ = Slot(full_) /\ c_' = c_
        /\ \A i : Slot(i)' = Slot(i)
    BY DEF InTurn, Slot
  <2>2. last' = received' - 1 /\ sent' = received' + full_'
    BY DEF InTurn
  <2>3. p_' = (IF full_' = BUF_SIZE THEN c_' ELSE Slot(full_)')
    BY <2>1 DEF Successor, Slot
  <2>4. ASSUME NEW i \in 0..(BUF_SIZE - 1), i < full_'
        PROVE  buf_'[Slot(i)'] = received' + i
    <3>1. CASE i = full_
      BY <2>1, <2>4, <3>1 DEF InTurn
    <3>2. CASE i # full_
      <4>1. i < full_ /\ Slot(i) \in 0..(BUF_SIZE - 1) /\ Slot(i) # p_
        BY <2>1, <2>4, <3>2 DEF Slot
      <4>2. buf_[Slot(i)] = received + i
        BY <4>1 DEF InTurn
      <4> QED
        BY <2>1, <4>1, <4>2
    <3> QED
      BY <3>1, <3>2
  <2> QED
    BY <2>2, <2>3, <2>4 DEF InTurn
<1> QED
  BY <1>1, <1>2, <1>3

\* get takes the oldest number and wakes the writer, if it waits.
LEMMA GetInv == ASSUME IInv, get PROVE IInv'
<1> USE BufferAssumption DEF IInv, TypeOK, DoneRight, BufferSound, get
<1>1. TypeOK' /\ DoneRight'
  BY DEF Successor, Notify
<1>2. NobodyStuck'
  BY DEF NobodyStuck, Notify, InTurn
<1>3. InTurn'
  <2>1. Slot(0) = c_ /\ buf_[c_] = received
    BY DEF InTurn, Slot
  <2>2. last' = received' - 1 /\ sent' = received' + full_'
    BY <2>1 DEF InTurn
  <2>3. ASSUME NEW i \in 0..(BUF_SIZE - 1), i < BUF_SIZE - 1
        PROVE  Slot(i)' = Slot(i + 1)
    BY <2>3 DEF Slot, Successor
  <2>4. p_' = (IF full_' = BUF_SIZE THEN c_' ELSE Slot(full_)')
    <3>1. full_' = full_ - 1 /\ full_' \in 0..(BUF_SIZE - 1)
      OBVIOUS
    <3>2. CASE full_ = BUF_SIZE
      BY <3>1, <3>2 DEF Slot, Successor, InTurn
    <3>3. CASE full_ # BUF_SIZE
      <4>1. Slot(full_)' = Slot(full_)
        BY <2>3, <3>1, <3>3
      <4> QED
        BY <3>1, <3>3, <4>1 DEF InTurn
    <3> QED
      BY <3>2, <3>3
  <2>5. ASSUME NEW i \in 0..(BUF_SIZE - 1), i < full_'
        PROVE  buf_'[Slot(i)'] = received' + i
    <3>1. i + 1 \in 0..(BUF_SIZE - 1) /\ i + 1 < full_
      BY <2>5
    <3>2. Slot(i)' = Slot(i + 1) /\ buf_[Slot(i + 1)] = received + (i + 1)
      BY <2>3, <3>1 DEF InTurn
    <3> QED
      BY <3>2
  <2> QED
    BY <2>2, <2>4, <2>5 DEF InTurn
<1> QED
  BY <1>1, <1>2, <1>3

\* A thread waits only with the other one awake and something left to do, and
\* leaves its loop only when its share is done.
LEMMA WaitInv ==
    ASSUME IInv, putWaits \/ getWaits \/ Spurious \/ Finish PROVE IInv'
<1> USE BufferAssumption DEF IInv, TypeOK, DoneRight, BufferSound
<1>1. UNCHANGED <<buf_, p_, c_, full_, sent, received, last>>
  BY DEF putWaits, getWaits, Spurious, Finish
<1>2. InTurn' /\ TypeOK' /\ DoneRight'
  BY <1>1 DEF InTurn, Slot, putWaits, getWaits, Spurious, Finish
<1>3. NobodyStuck'
  BY <1>1 DEF NobodyStuck, InTurn, putWaits, getWaits, Spurious, Finish
<1> QED
  BY <1>2, <1>3

\* The state of the buffer, its threads and their counters always agree.
THEOREM Invariance == Spec => []IInv
<1>1. IInv /\ [Next]_vars => IInv'
  <2> SUFFICES ASSUME IInv, [Next]_vars PROVE IInv'
    OBVIOUS
  <2>1. CASE Next
    BY <2>1, PutInv, GetInv, WaitInv DEF Next
  <2>2. CASE UNCHANGED vars
    BY <2>2 DEF vars, IInv, TypeOK, DoneRight, BufferSound, NobodyStuck, InTurn, Slot
  <2> QED
    BY <2>1, <2>2
<1> QED
  BY InitInv, <1>1, PTL DEF Spec

\* put and get never leave both threads waiting, nor one of them for a thread
\* that is gone, and the reader gets every number once and in order.
THEOREM BufferTheorem == Spec => []BufferSound
<1>1. IInv => BufferSound
  BY DEF IInv
<1> QED
  BY Invariance, <1>1, PTL
=============================================================================
