---------------------------- MODULE HiredisReader ----------------------------
(***************************************************************************)
(* hiredis: redisReader (read.c) with the reply objects of hiredis.c.      *)
(*                                                                         *)
(* redisReaderFeed appends what came from the socket to the buffer, in     *)
(* pieces cut anywhere.  redisReaderGetReply parses as far as the buffer   *)
(* goes and remembers, in a stack of tasks, where it was inside nested     *)
(* arrays; elements are attached to their array as they are created.       *)
(*                                                                         *)
(* Objects are numbered as they are allocated, 0 is NULL.  An allocation   *)
(* may fail.  The branch of redisReaderFeed that replaces an empty but     *)
(* large buffer by a small one changes nothing a caller can see.           *)
(***************************************************************************)
EXTENDS Integers, Sequences, SequencesExt, FiniteSets

CONSTANTS Streams,    \* what the server sends: records with a field bytes
          StackSize,  \* length of rstack
          DiscardAt   \* consumed bytes from which the buffer is shifted

ASSUME ReaderAssumption == StackSize \in Nat \ {0} /\ DiscardAt \in Nat \ {0}

VARIABLES stream,   \* the chosen stream
          fed,      \* bytes of it fed so far
          at,       \* "user", "items" (the loop of redisReaderGetReply), "freed"
          buf,      \* buf, with len its length
          pos,      \* pos
          rstack,   \* rstack[0..ridx]
          reply,    \* reply
          err,      \* err
          objs,     \* the objects allocated so far
          owned,    \* those the reader has to free
          emitted,  \* history: the replies handed out
          last      \* what the last call returned

streamVars == <<stream, fed>>
bufVars    == <<buf, pos>>
vars == <<streamVars, at, bufVars, rstack, reply, err, objs, owned, emitted, last>>

NULL == 0

Init ==
    /\ stream \in Streams
    /\ fed = 0 /\ at = "user"
    /\ buf = <<>> /\ pos = 0
    /\ rstack = <<>> /\ reply = NULL /\ err = "none"
    /\ objs = <<>> /\ owned = {} /\ emitted = <<>>
    /\ last = "fed"

-----------------------------------------------------------------------------
(* Bytes *)

\* Where a CR LF begins in the unread part of the buffer.
Newlines == {i \in (pos + 1)..(Len(buf) - 1) : buf[i] = "CR" /\ buf[i + 1] = "LF"}

\* seekNewline finds the first.
HasLine == Newlines # {}
seekNewline == CHOOSE i \in Newlines : \A j \in Newlines : i <= j

\* The line it ends.
Line == SubSeq(buf, pos + 1, seekNewline - 1)

DigitValue == [b \in {"0", "1", "2", "3", "4", "5", "6", "7", "8", "9"} |->
                 CHOOSE n \in 0..9 : ToString(n) = b]

\* readLongLong reads up to the first CR, and gives -1 for anything that is no
\* number.
readLongLong ==
    LET stops  == {i \in 1..Len(Line) : Line[i] = "CR"}
        text   == IF stops = {} THEN Line
                  ELSE SubSeq(Line, 1, (CHOOSE i \in stops : \A j \in stops : i <= j) - 1)
        signed == text # <<>> /\ Head(text) \in {"-", "+"}
        digits == IF signed THEN Tail(text) ELSE text
        value  == FoldLeft(LAMBDA v, b : 10 * v + DigitValue[b], 0, digits)
    IN  IF \E i \in 1..Len(digits) : digits[i] \notin DOMAIN DigitValue THEN -1
        ELSE IF signed /\ Head(text) = "-" THEN -value ELSE value

-----------------------------------------------------------------------------
(* The task stack and the objects *)

NewTask(idx) == [type |-> "none", elements |-> -1, idx |-> idx, obj |-> NULL]

Cur == Last(rstack)

\* The objects of the tree at p: an element is newer than its array.
Tree(p) ==
    LET in[i \in 0..Len(objs)] ==
            i # NULL /\ (i = p \/ \E j \in 1..(i - 1) :
                                     in[j] /\ i \in Range(objs[j].element))
    IN  {i \in 1..Len(objs) : in[i]}

\* Mutant: only the array itself is freed.
freeReplyObjectFlat(p) == {p} \ {NULL}

\* freeReplyObject: the tree, without the elements that are still NULL.
freeReplyObject(p) == Tree(p)

\* An object is created for the current task and attached to its array.
Create(type, val, element) ==
    LET id   == Len(objs) + 1
        all  == Append(objs, [type |-> type, val |-> val, element |-> element])
        n    == Len(rstack)
    IN  /\ objs' = IF n = 1 THEN all
                   ELSE [all EXCEPT ![rstack[n - 1].obj].element[Cur.idx + 1] = id]
        /\ owned' = owned \cup {id}
        /\ reply' = IF n = 1 THEN id ELSE reply

moveToNextTask(stack) ==
    LET more == {i \in 2..Len(stack) : stack[i].idx # stack[i - 1].elements - 1} IN
    IF more = {} THEN <<>>
    ELSE LET n == CHOOSE i \in more : \A j \in more : i >= j IN
         [SubSeq(stack, 1, n) EXCEPT
            ![n] = [@ EXCEPT !.type = "none", !.elements = -1, !.idx = @ + 1]]

\* __redisReaderSetError; processItem and redisReaderGetReply return at once.
SetError(e) ==
    /\ err' = e
    /\ owned' = owned \ freeReplyObject(reply)
    /\ reply' = NULL
    /\ buf' = <<>> /\ pos' = 0
    /\ rstack' = <<>>
    /\ at' = "user"
    /\ last' = "error"
    /\ UNCHANGED <<streamVars, objs, emitted>>

-----------------------------------------------------------------------------
(* redisReaderFeed *)

Feed ==
    /\ at = "user" /\ err = "none"
    /\ \E n \in 1..(Len(stream.bytes) - fed) :
          /\ buf' = buf \o SubSeq(stream.bytes, fed + 1, fed + n)
          /\ fed' = fed + n
    /\ last' = "fed"
    /\ UNCHANGED <<stream, at, pos, rstack, reply, err, objs, owned, emitted>>

\* The buffer cannot grow.
FeedFails ==
    /\ at = "user" /\ err = "none"
    /\ fed < Len(stream.bytes)
    /\ SetError("oom")

-----------------------------------------------------------------------------
(* redisReaderGetReply *)

\* With an error or an empty buffer it returns at once, else it goes on with
\* the stack it left or starts a new one.
GetReply ==
    /\ at = "user" /\ err = "none" /\ buf # <<>>
    /\ at' = "items"
    /\ rstack' = IF rstack = <<>> THEN <<NewTask(-1)>> ELSE rstack
    /\ UNCHANGED <<streamVars, bufVars, reply, err, objs, owned, emitted, last>>

TypeOf == [b \in {"-", "+", ":", "$", "*"} |->
             CASE b = "-" -> "error" [] b = "+" -> "status" [] b = ":" -> "integer"
               [] b = "$" -> "string" [] b = "*" -> "array"]

InItem == at = "items" /\ rstack # <<>>

\* processItem reads the type byte of a new item.
ReadType ==
    /\ InItem
    /\ Cur.type = "none" /\ pos < Len(buf)
    /\ buf[pos + 1] \in DOMAIN TypeOf
    /\ rstack' = [rstack EXCEPT ![Len(rstack)].type = TypeOf[buf[pos + 1]]]
    /\ pos' = pos + 1
    /\ UNCHANGED <<streamVars, at, buf, reply, err, objs, owned, emitted, last>>

BadType ==
    /\ InItem
    /\ Cur.type = "none" /\ pos < Len(buf)
    /\ buf[pos + 1] \notin DOMAIN TypeOf
    /\ SetError("protocol")

\* processLineItem
LineItem ==
    /\ InItem
    /\ Cur.type \in {"error", "status", "integer"}
    /\ HasLine
    /\ Create(Cur.type, IF Cur.type = "integer" THEN <<readLongLong>> ELSE Line, <<>>)
    /\ pos' = seekNewline + 1
    /\ rstack' = moveToNextTask(rstack)
    /\ UNCHANGED <<streamVars, at, buf, err, emitted, last>>

\* The whole of a bulk string is in the buffer.
HasBulk == HasLine /\ seekNewline + 1 + readLongLong + 2 <= Len(buf)

\* processBulkItem
BulkItem ==
    /\ InItem
    /\ Cur.type = "string"
    /\ HasLine
    /\ LET len   == readLongLong
           start == seekNewline + 1 IN
       \/ /\ len < 0
          /\ Create("nil", <<>>, <<>>)
          /\ pos' = start
       \/ /\ len >= 0 /\ HasBulk
          /\ Create("string", SubSeq(buf, start + 1, start + len), <<>>)
          /\ pos' = start + len + 2
    /\ rstack' = moveToNextTask(rstack)
    /\ UNCHANGED <<streamVars, at, buf, err, emitted, last>>

TooDeep == Len(rstack) = StackSize

\* processMultiBulkItem.  Only -1 stands for nil: a count below it makes an
\* array without elements, like 0.
MultiBulkItem ==
    /\ InItem
    /\ Cur.type = "array" /\ ~TooDeep
    /\ HasLine
    /\ LET elements == readLongLong IN
       \/ /\ elements = -1
          /\ Create("nil", <<>>, <<>>)
          /\ rstack' = moveToNextTask(rstack)
       \/ /\ elements <= 0 /\ elements # -1
          /\ Create("array", <<>>, <<>>)
          /\ rstack' = moveToNextTask(rstack)
       \/ /\ elements > 0
          /\ Create("array", <<>>, [i \in 1..elements |-> NULL])
          /\ rstack' = Append([rstack EXCEPT ![Len(rstack)].elements = elements,
                                             ![Len(rstack)].obj = Len(objs) + 1],
                              NewTask(0))
    /\ pos' = seekNewline + 1
    /\ UNCHANGED <<streamVars, at, buf, err, emitted, last>>

\* The stack holds no task for the elements of another array.
NestedTooDeep ==
    /\ InItem
    /\ Cur.type = "array" /\ TooDeep
    /\ SetError("protocol")

\* The current item cannot be read to its end.
Incomplete ==
    \/ Cur.type = "none" /\ pos = Len(buf)
    \/ Cur.type \in {"error", "status", "integer"} /\ ~HasLine
    \/ Cur.type = "array" /\ ~TooDeep /\ ~HasLine
    \/ Cur.type = "string" /\ ~(HasLine /\ (readLongLong < 0 \/ HasBulk))

\* An object cannot be allocated, or not the string or the array in it.
CreateFails ==
    /\ InItem
    /\ Cur.type # "none" /\ ~Incomplete /\ ~(Cur.type = "array" /\ TooDeep)
    /\ SetError("oom")

\* The consumed part of the buffer is dropped once it is long.
Discard ==
    IF pos >= DiscardAt
    THEN buf' = SubSeq(buf, pos + 1, Len(buf)) /\ pos' = 0
    ELSE UNCHANGED bufVars

\* No reply yet: the stack stays for the next call.
GetReplyNone ==
    /\ InItem /\ Incomplete
    /\ Discard
    /\ at' = "user" /\ last' = "none"
    /\ UNCHANGED <<streamVars, rstack, reply, err, objs, owned, emitted>>

\* The reply is complete and now belongs to the caller.
GetReplyDone ==
    /\ at = "items" /\ rstack = <<>>
    /\ Discard
    /\ at' = "user" /\ last' = "reply"
    /\ emitted' = Append(emitted, reply)
    /\ owned' = owned \ Tree(reply)
    /\ reply' = NULL
    /\ UNCHANGED <<streamVars, rstack, err, objs>>

\* redisReaderFree
Free ==
    /\ at = "user"
    /\ at' = "freed"
    /\ owned' = owned \ freeReplyObject(reply)
    /\ UNCHANGED <<streamVars, bufVars, rstack, reply, err, objs, emitted, last>>

processItem ==
    \/ ReadType \/ BadType \/ LineItem \/ BulkItem \/ MultiBulkItem
    \/ NestedTooDeep \/ CreateFails

Next ==
    \/ Feed \/ FeedFails
    \/ GetReply \/ processItem \/ GetReplyNone \/ GetReplyDone
    \/ Free

Spec == Init /\ [][Next]_vars

-----------------------------------------------------------------------------
(* Properties *)

Types == {"error", "status", "integer", "string", "array", "nil"}

\* Every variable stays in its range.
TypeOK ==
    /\ stream \in Streams /\ fed \in 0..Len(stream.bytes)
    /\ at \in {"user", "items", "freed"}
    /\ pos \in 0..Len(buf)
    /\ err \in {"none", "protocol", "oom"}
    /\ last \in {"fed", "none", "reply", "error"}
    /\ reply \in 0..Len(objs) /\ owned \subseteq 1..Len(objs)
    /\ \A i \in 1..Len(objs) : objs[i].type \in Types

\* The asserts of moveToNextTask and of the create functions hold over any cut
\* of the input: a task fits the stack, its parent is an array that was
\* created, and its index is inside that array.
StackSound ==
    /\ Len(rstack) <= StackSize
    /\ \A i \in 2..Len(rstack) :
          LET parent == rstack[i - 1] IN
          /\ parent.type = "array" /\ objs[parent.obj].type = "array"
          /\ rstack[i].idx \in 0..(parent.elements - 1)
          /\ parent.elements = Len(objs[parent.obj].element)

\* What the reader has allocated and not handed out hangs on reply, also after
\* an error in the middle of a nested array, and nothing is left after Free.
NoLeak == owned = IF at = "freed" THEN {} ELSE Tree(reply)

\* Both: the task stack mirrors the reply under construction, and nothing of it
\* is leaked.
ReaderSound == StackSound /\ NoLeak

=============================================================================
