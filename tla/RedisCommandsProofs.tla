------------------------- MODULE RedisCommandsProofs -------------------------
(***************************************************************************)
(* Proofs about RedisCommands, for any threads, contexts, pool size, tries *)
(* and fields: the commands use the pool as it allows, and no reply is     *)
(* taken for that of another command.                                      *)
(***************************************************************************)
EXTENDS RedisCommands, RedisConnPoolProofs

\* The requests of a sequence of replies.
LEMMA ReqsType ==
    ASSUME NEW s \in Seq(Reply)
    PROVE  Reqs(s) \in Seq(Request) /\ Len(Reqs(s)) = Len(s)
<1>1. ASSUME NEW i \in 1..Len(s) PROVE s[i].req \in Request
  <2>1. s[i] \in Reply
    OBVIOUS
  <2> QED
    BY <2>1 DEF Reply
<1> QED
  BY <1>1 DEF Reqs

\* One more reply is one more request.
LEMMA ReqsAppend ==
    ASSUME NEW s \in Seq(Reply), NEW r \in Reply
    PROVE  Reqs(Append(s, r)) = Append(Reqs(s), r.req)
<1> DEFINE a == Reqs(Append(s, r))  b == Append(Reqs(s), r.req)
<1>1. r.req \in Request /\ Append(s, r) \in Seq(Reply)
  BY DEF Reply
<1>2. a \in Seq(Request) /\ Len(a) = Len(s) + 1
  <2>1. Len(Append(s, r)) = Len(s) + 1
    OBVIOUS
  <2> QED
    BY Zenon, <1>1, <2>1, ReqsType
<1>3. Reqs(s) \in Seq(Request) /\ Len(Reqs(s)) = Len(s)
  BY ReqsType
<1>4. b \in Seq(Request) /\ Len(b) = Len(s) + 1
  BY <1>1, <1>3
<1>5. \A i \in 1..(Len(s) + 1) : a[i] = b[i]
  BY <1>1, ReqsType DEF Reqs
<1> QED
  BY <1>2, <1>4, <1>5

\* Without the oldest reply.
LEMMA ReqsTail ==
    ASSUME NEW s \in Seq(Reply), s # <<>>
    PROVE  Reqs(Tail(s)) = Tail(Reqs(s)) /\ Reqs(s) # <<>> /\ Head(Reqs(s)) = Head(s).req
<1> DEFINE a == Reqs(Tail(s))  b == Tail(Reqs(s))
<1>1. Tail(s) \in Seq(Reply) /\ Len(Tail(s)) = Len(s) - 1 /\ Len(s) > 0
  OBVIOUS
<1>2. /\ a \in Seq(Request) /\ Len(a) = Len(s) - 1
      /\ Reqs(s) \in Seq(Request) /\ Len(Reqs(s)) = Len(s)
  BY Zenon, <1>1, ReqsType
<1>3. b \in Seq(Request) /\ Len(b) = Len(s) - 1 /\ Reqs(s) # <<>>
  BY <1>1, <1>2
<1>4. \A i \in 1..(Len(s) - 1) : a[i] = b[i]
  <2> SUFFICES ASSUME NEW i \in 1..(Len(s) - 1) PROVE a[i] = b[i]
    BY Zenon
  <2>1. a[i] = Tail(s)[i].req /\ Tail(s)[i] = s[i + 1]
    BY <1>1 DEF Reqs
  <2>2. b[i] = Reqs(s)[i + 1]
    BY <1>1, <1>2
  <2>3. Reqs(s)[i + 1] = s[i + 1].req
    BY <1>1 DEF Reqs
  <2> QED
    BY Zenon, <2>1, <2>2, <2>3
<1>5. Head(Reqs(s)) = Head(s).req
  BY <1>1, <1>2 DEF Reqs
<1> QED
  BY <1>2, <1>3, <1>4, <1>5

\* No replies, no requests.
LEMMA EmptyReqs ==
    ASSUME NEW s \in Seq(Reply)
    PROVE  Reqs(s) = <<>> <=> s = <<>>
<1>1. Reqs(s) \in Seq(Request) /\ Len(Reqs(s)) = Len(s)
  BY ReqsType
<1>2. ASSUME NEW S, NEW t \in Seq(S) PROVE t = <<>> <=> Len(t) = 0
  OBVIOUS
<1>3. (Reqs(s) = <<>> <=> Len(Reqs(s)) = 0) /\ (s = <<>> <=> Len(s) = 0)
  BY <1>1, <1>2, Zenon
<1> QED
  BY <1>1, <1>3

\* The server answers the oldest request that was sent.
LEMMA Answering ==
    ASSUME NEW S, NEW a \in Seq(S), NEW w \in Seq(S), NEW o \in Seq(S), w # <<>>
    PROVE  Append(a, Head(w)) \o Tail(w) \o o = a \o w \o o
<1>1. Append(a, Head(w)) \o Tail(w) = a \o w
  BY SMTT(30)
<1> QED
  BY <1>1

\* An appended command is the youngest.
LEMMA Sending ==
    ASSUME NEW S, NEW a \in Seq(S), NEW w \in Seq(S), NEW o \in Seq(S), NEW e \in S
    PROVE  a \o w \o Append(o, e) = Append(a \o w \o o, e)
<1>1. a \o w \in Seq(S)
  OBVIOUS
<1> QED
  BY <1>1

\* Writing the buffer moves it, and changes no order.
LEMMA Writing ==
    ASSUME NEW S, NEW a \in Seq(S), NEW w \in Seq(S), NEW o \in Seq(S)
    PROVE  a \o (w \o o) \o <<>> = a \o w \o o
<1>1. a \o w \in Seq(S) /\ w \o o \in Seq(S)
  OBVIOUS
<1>2. a \o (w \o o) = (a \o w) \o o /\ a \o (w \o o) \in Seq(S)
  BY <1>1
<1> QED
  BY <1>2

\* A pipe with nothing in it.
LEMMA EmptyPipe ==
    ASSUME NEW S, NEW a \in Seq(S), NEW w \in Seq(S), NEW o \in Seq(S)
    PROVE  a \o w \o o = <<>> <=> a = <<>> /\ w = <<>> /\ o = <<>>
  OBVIOUS

\* Every step on a context is a step of the pool, or does not concern it.
LEMMA PoolSteps == ASSUME CmdIInv, [CmdNext]_allVars PROVE [Next]_vars
<1>1. ASSUME NEW b \in Borrowers, Exchange(b) PROVE [Next]_vars
  <2>1. Ready /\ held[b] # NULL
    BY ZenonT(30), <1>1 DEF Exchange, Append1, Write, WriteFails, Read, ReadFails, CmdIInv, Holding
  <2>2. UNCHANGED vars \/ UseFails(b)
    BY Zenon, <1>1, <2>1 DEF Exchange, Append1, Write, WriteFails, Read, ReadFails, UseFails, vars
  <2> QED
    BY Zenon, <2>2 DEF Next
<1>2. ASSUME NEW b \in Borrowers, Call(b) \/ BorrowNull(b) PROVE UNCHANGED vars
  BY Zenon, <1>2 DEF Call, BorrowNull
<1>3. ASSUME NEW b \in Borrowers, Borrow(b) \/ BorrowCrashes(b) \/ Finish(b) PROVE Next
  BY <1>3 DEF Borrow, BorrowCrashes, Finish, Next
<1>4. CASE PoolStep
  BY <1>4 DEF PoolStep, Next
<1>5. ASSUME NEW c \in Conns, Serve(c) PROVE UNCHANGED vars
  BY <1>5 DEF Serve
<1>6. CASE UNCHANGED allVars
  BY <1>6 DEF allVars
<1> QED
  BY <1>1, <1>2, <1>3, <1>4, <1>5, <1>6 DEF CmdNext

\* A thread past its borrow has a context, and what it uses is in range.
LEMMA HeldInConns ==
    ASSUME CmdIInv, NEW b \in Borrowers, pc[b] \in {"append", "write", "read", "finish"}
    PROVE  held[b] \in Conns /\ held[b] # NULL /\ ops[b] \in 1..MaxOps
<1>1. held[b] # NULL /\ ops[b] > 0
  BY DEF CmdIInv, Holding
<1>2. held[b] \in Conns \cup {NULL} /\ ops[b] \in 0..MaxOps
  BY DEF CmdIInv, CmdTypeOK, TypeOK
<1> QED
  BY <1>1, <1>2, CommandsAssumption

\* The end of a try keeps the variables it sets in range.
LEMMA EndTryType ==
    ASSUME CmdTypeOK, NEW b \in Borrowers, NEW s \in BOOLEAN, EndTry(b, s)
    PROVE  /\ pc' \in [Borrowers -> {"idle", "borrow", "append", "write", "read", "finish"}]
           /\ asks' \in [Borrowers -> {0, 1}]
           /\ try' \in [Borrowers -> 1..MaxTry]
           /\ result' \in [Borrowers -> {"none", "succ", "fail"}]
<1>1. CASE s \/ try[b] = MaxTry
  BY Zenon, <1>1 DEF CmdTypeOK, EndTry
<1>2. CASE ~(s \/ try[b] = MaxTry)
  <2>1. try[b] + 1 \in 1..MaxTry
    BY <1>2, CommandsAssumption DEF CmdTypeOK
  <2> QED
    BY Zenon, <1>2, <2>1 DEF CmdTypeOK, EndTry
<1> QED
  BY <1>1, <1>2

\* The commands keep their variables in their ranges, the counters included.
LEMMA CmdTypeInductive == ASSUME CmdIInv, TypeOK', [CmdNext]_allVars PROVE CmdTypeOK'
<1>0. CmdTypeOK
  BY DEF CmdIInv
<1>1. ASSUME NEW b \in Borrowers, Call(b) PROVE CmdTypeOK'
  <2>1. ops[b] + 1 \in 0..MaxOps /\ 1 \in 1..MaxTry
    BY <1>0, <1>1, CommandsAssumption DEF CmdTypeOK, Call
  <2>2. applied' \in SUBSET Request
    BY <1>0, <1>1 DEF CmdTypeOK, Call
  <2> QED
    BY <1>0, <1>1, <2>1, <2>2 DEF CmdTypeOK, Call, connVars
<1>2. ASSUME NEW b \in Borrowers, Borrow(b) PROVE CmdTypeOK'
  <2>1. 1 \in 0..Fields /\ Fields \in 0..Fields /\ <<>> \in Seq(Request)
    BY CommandsAssumption
  <2> QED
    BY <1>0, <1>2, <2>1 DEF CmdTypeOK, Borrow, connVars
<1>3. ASSUME NEW b \in Borrowers, BorrowCrashes(b) PROVE CmdTypeOK'
  BY <1>0, <1>3 DEF CmdTypeOK, BorrowCrashes, threadVars, connVars
<1>4. ASSUME NEW b \in Borrowers, BorrowNull(b) PROVE CmdTypeOK'
  <2>1. /\ pc' \in [Borrowers -> {"idle", "borrow", "append", "write", "read", "finish"}]
        /\ asks' \in [Borrowers -> {0, 1}]
        /\ try' \in [Borrowers -> 1..MaxTry]
        /\ result' \in [Borrowers -> {"none", "succ", "fail"}]
    <3>1. CASE asks' = [asks EXCEPT ![b] = 1] /\ UNCHANGED <<pc, try, result>>
      BY <1>0, <3>1 DEF CmdTypeOK
    <3>2. CASE EndTry(b, FALSE)
      BY Zenon, <1>0, <3>2, EndTryType
    <3> QED
      BY Zenon, <1>4, <3>1, <3>2 DEF BorrowNull
  <2> QED
    BY <1>0, <1>4, <2>1 DEF CmdTypeOK, BorrowNull, connVars
<1>5. ASSUME NEW b \in Borrowers, Append1(b) PROVE CmdTypeOK'
  <2> DEFINE req == <<b, ops[b], try[b], todo[b]>>
  <2>1. pc[b] = "append" /\ held[b] \in Conns /\ ops[b] \in 1..MaxOps
    BY <1>5, HeldInConns DEF Append1
  <2>2. todo[b] \in 1..Fields /\ try[b] \in 1..MaxTry /\ todo[b] - 1 \in 0..Fields
    <3>1. todo[b] > 0
      BY <2>1 DEF CmdIInv, Holding
    <3> QED
      BY <1>0, <3>1, CommandsAssumption DEF CmdTypeOK
  <2>3. req \in Request
    BY Zenon, <2>1, <2>2 DEF Request
  <2>4. due' \in [Borrowers -> Seq(Request)] /\ obuf' \in [Conns -> Seq(Request)]
    <3>1. Append(due[b], req) \in Seq(Request) /\ Append(obuf[held[b]], req) \in Seq(Request)
      BY <1>0, <2>1, <2>3 DEF CmdTypeOK
    <3>2. CASE /\ obuf' = [obuf EXCEPT ![held[b]] = Append(@, req)]
               /\ due' = [due EXCEPT ![b] = Append(@, req)]
      BY Zenon, <1>0, <3>1, <3>2 DEF CmdTypeOK
    <3>3. CASE UNCHANGED <<obuf, due>>
      BY <1>0, <3>3 DEF CmdTypeOK
    <3> QED
      BY <1>5, <3>2, <3>3 DEF Append1
  <2>5. todo' \in [Borrowers -> 0..Fields]
    BY <1>0, <1>5, <2>2 DEF CmdTypeOK, Append1
  <2>6. pc' \in [Borrowers -> {"idle", "borrow", "append", "write", "read", "finish"}]
    BY <1>0, <1>5 DEF CmdTypeOK, Append1
  <2> QED
    BY <1>0, <1>5, <2>4, <2>5, <2>6 DEF CmdTypeOK, Append1
<1>6. ASSUME NEW b \in Borrowers, Write(b) \/ WriteFails(b) PROVE CmdTypeOK'
  <2>1. held[b] \in Conns
    BY Zenon, <1>6, HeldInConns DEF Write, WriteFails
  <2>2. obuf[held[b]] \in Seq(Request) /\ wire[held[b]] \in Seq(Request)
    BY <1>0, <2>1 DEF CmdTypeOK
  <2>3. wire' \in [Conns -> Seq(Request)] /\ obuf' \in [Conns -> Seq(Request)]
    <3>1. CASE Write(b)
      <4>1. wire[held[b]] \o obuf[held[b]] \in Seq(Request) /\ <<>> \in Seq(Request)
        BY <2>2
      <4> QED
        BY Zenon, <1>0, <3>1, <4>1 DEF CmdTypeOK, Write
    <3>2. CASE WriteFails(b)
      <4>1. PICK n \in 0..Len(obuf[held[b]]) :
               /\ wire' = [wire EXCEPT ![held[b]] = @ \o SubSeq(obuf[held[b]], 1, n)]
               /\ obuf' = [obuf EXCEPT ![held[b]] = SubSeq(@, n + 1, Len(@))]
        BY Zenon, <3>2 DEF WriteFails
      <4>2. /\ SubSeq(obuf[held[b]], 1, n) \in Seq(Request)
            /\ SubSeq(obuf[held[b]], n + 1, Len(obuf[held[b]])) \in Seq(Request)
        BY <2>2
      <4>3. wire[held[b]] \o SubSeq(obuf[held[b]], 1, n) \in Seq(Request)
        BY <2>2, <4>2
      <4> QED
        BY Zenon, <1>0, <4>1, <4>2, <4>3 DEF CmdTypeOK
    <3> QED
      BY <1>6, <3>1, <3>2
  <2> QED
    BY Zenon, <1>0, <1>6, <2>3 DEF CmdTypeOK, Write, WriteFails
<1>7. ASSUME NEW b \in Borrowers, Read(b) PROVE CmdTypeOK'
  <2>1. held[b] \in Conns /\ due[b] # <<>>
    BY <1>7, HeldInConns DEF Read, CmdIInv, Holding
  <2>2. Head(back[held[b]]) \in Reply /\ Tail(back[held[b]]) \in Seq(Reply)
    BY <1>0, <1>7, <2>1 DEF CmdTypeOK, Read
  <2>3. Head(back[held[b]]).type \in {"value", "error", "other"}
    BY <2>2 DEF Reply
  <2>4. Tail(due[b]) \in Seq(Request)
    BY <1>0, <2>1 DEF CmdTypeOK
  <2>5. due' \in [Borrowers -> Seq(Request)] /\ back' \in [Conns -> Seq(Reply)]
    BY Zenon, <1>0, <1>7, <2>2, <2>4 DEF CmdTypeOK, Read
  <2>6. reply' \in [Borrowers -> {"none", "value", "error", "other", "lost"}]
    BY <1>0, <1>7, <2>3 DEF CmdTypeOK, Read
  <2> QED
    BY Zenon, <1>0, <1>7, <2>5, <2>6 DEF CmdTypeOK, Read
<1>8. ASSUME NEW b \in Borrowers, ReadFails(b) PROVE CmdTypeOK'
  BY <1>0, <1>8 DEF CmdTypeOK, ReadFails, connVars
<1>9. ASSUME NEW b \in Borrowers, Finish(b) PROVE CmdTypeOK'
  <2>1. /\ pc' \in [Borrowers -> {"idle", "borrow", "append", "write", "read", "finish"}]
        /\ asks' \in [Borrowers -> {0, 1}]
        /\ try' \in [Borrowers -> 1..MaxTry]
        /\ result' \in [Borrowers -> {"none", "succ", "fail"}]
    <3>1. Succeeded(b) \in BOOLEAN
      <4>1. kind[b] \in {"HSet", "HMDel", "HGet", "HMGet", "HMSet"}
        BY <1>0 DEF CmdTypeOK, Kinds
      <4> QED
        BY Zenon, <4>1 DEF Succeeded, HSetImpl, HMDelImpl, HGetImpl, HMGetImpl, HMSetImpl
    <3>2. EndTry(b, Succeeded(b))
      BY <1>9 DEF Finish
    <3> QED
      BY <1>0, <3>1, <3>2, EndTryType
  <2>2. /\ obuf' \in [Conns -> Seq(Request)] /\ wire' \in [Conns -> Seq(Request)]
        /\ back' \in [Conns -> Seq(Reply)] /\ applied' \in SUBSET Request
    <3> DEFINE c == held[b]
    <3>1. CASE UNCHANGED <<connVars, applied>>
      BY <1>0, <3>1 DEF CmdTypeOK, connVars
    <3>2. CASE /\ obuf' = [obuf EXCEPT ![c] = <<>>]
               /\ wire' = [wire EXCEPT ![c] = <<>>]
               /\ back' = [back EXCEPT ![c] = <<>>]
               /\ \E late \in SUBSET Telling({wire[c][i] : i \in 1..Len(wire[c])}) :
                     applied' = applied \cup late
      <4>1. wire[c] \in Seq(Request)
        BY <1>0, <1>9, HeldInConns DEF CmdTypeOK, Finish
      <4>2. \A i \in 1..Len(wire[c]) : wire[c][i] \in Request
        BY <4>1
      <4>3. Telling({wire[c][i] : i \in 1..Len(wire[c])}) \subseteq Request
        BY <4>2 DEF Telling
      <4>4. applied' \in SUBSET Request
        <5> HIDE DEF c
        <5> QED
          BY Zenon, <1>0, <3>2, <4>3 DEF CmdTypeOK
      <4>5. obuf' \in [Conns -> Seq(Request)] /\ wire' \in [Conns -> Seq(Request)]
        <5>1. <<>> \in Seq(Request)
          OBVIOUS
        <5> HIDE DEF c
        <5> QED
          BY Zenon, <1>0, <3>2, <5>1 DEF CmdTypeOK
      <4>6. back' \in [Conns -> Seq(Reply)]
        <5>1. <<>> \in Seq(Reply)
          OBVIOUS
        <5> HIDE DEF c
        <5> QED
          BY Zenon, <1>0, <3>2, <5>1 DEF CmdTypeOK
      <4> QED
        BY <4>4, <4>5, <4>6
    <3> QED
      BY Zenon, <1>9, <3>1, <3>2 DEF Finish
  <2>3. due' \in [Borrowers -> Seq(Request)] /\ heap' \in {"ok", "corrupt"}
    BY <1>0, <1>9 DEF CmdTypeOK, Finish
  <2> QED
    BY <1>0, <1>9, <2>1, <2>2, <2>3 DEF CmdTypeOK, Finish
<1>10. ASSUME NEW c \in Conns, Serve(c) PROVE CmdTypeOK'
  <2>1. Head(wire[c]) \in Request /\ Tail(wire[c]) \in Seq(Request)
    BY <1>0, <1>10 DEF CmdTypeOK, Serve
  <2>2. PICK t \in {"value", "error", "other"} :
           /\ back' = [back EXCEPT ![c] = Append(@, [req |-> Head(wire[c]), type |-> t])]
           /\ applied' = IF t = "value" THEN applied \cup Telling({Head(wire[c])}) ELSE applied
    BY Zenon, <1>10 DEF Serve
  <2>3. [req |-> Head(wire[c]), type |-> t] \in Reply
    BY <2>1 DEF Reply
  <2>4. back' \in [Conns -> Seq(Reply)]
    BY <1>0, <2>2, <2>3 DEF CmdTypeOK
  <2>5. applied' \in SUBSET Request
    BY <1>0, <2>1, <2>2 DEF CmdTypeOK, Telling
  <2> QED
    BY Zenon, <1>0, <1>10, <2>1, <2>4, <2>5 DEF CmdTypeOK, Serve, threadVars
<1>11. CASE PoolStep
  BY <1>0, <1>11 DEF CmdTypeOK, PoolStep, threadVars, connVars
<1>12. CASE UNCHANGED allVars
  BY <1>0, <1>12 DEF CmdTypeOK, allVars, threadVars, connVars
<1> QED
  BY <1>1, <1>2, <1>3, <1>4, <1>5, <1>6, <1>7, <1>8, <1>9, <1>10, <1>11, <1>12
     DEF CmdNext, Exchange

\* A sequence that is not empty has one element exactly when nothing follows.
LEMMA TailEmpty ==
    ASSUME NEW S, NEW s \in Seq(S), s # <<>>
    PROVE  Tail(s) = <<>> <=> ~(Len(s) > 1)
<1>1. Len(s) \in Nat /\ Len(s) > 0 /\ Tail(s) \in Seq(S) /\ Len(Tail(s)) = Len(s) - 1
  OBVIOUS
<1>2. ASSUME NEW t \in Seq(S) PROVE t = <<>> <=> Len(t) = 0
  OBVIOUS
<1>3. Tail(s) = <<>> <=> Len(Tail(s)) = 0
  BY <1>1, <1>2, Zenon
<1> QED
  BY <1>1, <1>3

\* A borrow gives the thread one context, from the free list or a new one.
LEMMA Borrowed ==
    ASSUME TypeOK, NEW b \in Borrowers, BorrowFree(b) \/ BorrowNew(b)
    PROVE  \E c \in Conns : /\ held' = [held EXCEPT ![b] = c]
                            /\ c \in Free \/ c \notin live
<1>1. CASE BorrowFree(b)
  <2>1. Head(free) \in Conns /\ Head(free) \in Free
    <3>1. Len(free) > 0 /\ Head(free) = free[1] /\ free[1] \in Conns
      BY <1>1 DEF TypeOK, BorrowFree
    <3> QED
      BY <3>1 DEF TypeOK, Free
  <2> QED
    BY Zenon, <1>1, <2>1 DEF BorrowFree
<1>2. CASE BorrowNew(b)
  BY Zenon, <1>2 DEF BorrowNew, Connected
<1> QED
  BY <1>1, <1>2

\* A thread that another one's step does not touch stays as it says.
LEMMA HoldingFrame ==
    ASSUME NEW b \in Borrowers, Holding(b), held'[b] = held[b], pc'[b] = pc[b],
           ops'[b] = ops[b], todo'[b] = todo[b], due'[b] = due[b]
    PROVE  Holding(b)'
  BY DEF Holding

\* A thread says it holds a context exactly while it does.
LEMMA HoldingInductive ==
    ASSUME CmdIInv, [CmdNext]_allVars, NEW d \in Borrowers
    PROVE  Holding(d)'
<1>0. CmdTypeOK /\ Holding(d)
  BY DEF CmdIInv
<1> DEFINE Same == /\ held'[d] = held[d] /\ pc'[d] = pc[d] /\ ops'[d] = ops[d]
                   /\ todo'[d] = todo[d] /\ due'[d] = due[d]
<1>1. ASSUME NEW b \in Borrowers, Call(b) PROVE Holding(d)'
  <2>1. CASE b = d
    BY SMTT(30), <1>0, <1>1, <2>1, CommandsAssumption DEF CmdTypeOK, Holding, Call, vars
  <2>2. CASE b # d
    <3>1. Same
      BY Zenon, <1>0, <1>1, <2>2 DEF CmdTypeOK, Call, vars
    <3> QED
      BY Zenon, <1>0, <3>1, HoldingFrame
  <2> QED
    BY <2>1, <2>2
<1>2. ASSUME NEW b \in Borrowers, Borrow(b) PROVE Holding(d)'
  <2>1. PICK c \in Conns : held' = [held EXCEPT ![b] = c]
    BY Zenon, <1>0, <1>2, Borrowed DEF CmdTypeOK, Borrow
  <2>2. CASE b = d
    <3>1. held'[d] # NULL /\ pc'[d] = "append" /\ ops'[d] = ops[d] /\ pc[d] = "borrow"
      BY <1>0, <1>2, <2>1, <2>2, PoolAssumption DEF CmdTypeOK, TypeOK, Borrow
    <3>2. todo'[d] > 0
      BY SMTT(30), <1>0, <1>2, <2>2, CommandsAssumption DEF CmdTypeOK, Borrow
    <3> QED
      BY <1>0, <3>1, <3>2 DEF Holding
  <2>3. CASE b # d
    <3>1. Same
      BY <1>0, <1>2, <2>1, <2>3 DEF CmdTypeOK, TypeOK, Borrow
    <3> QED
      BY <1>0, <3>1, HoldingFrame
  <2> QED
    BY <2>2, <2>3
<1>3. ASSUME NEW b \in Borrowers, BorrowCrashes(b) PROVE Holding(d)'
  <2>1. Same
    BY <1>3 DEF BorrowCrashes, BorrowFails, threadVars
  <2> QED
    BY <1>0, <2>1, HoldingFrame
<1>4. ASSUME NEW b \in Borrowers, BorrowNull(b) PROVE Holding(d)'
  <2>1. CASE b = d
    <3>1. pc[d] = "borrow" /\ pc'[d] \in {"borrow", "idle"}
      BY <1>0, <1>4, <2>1 DEF CmdTypeOK, BorrowNull, EndTry
    <3>2. held' = held /\ ops' = ops
      BY <1>4 DEF BorrowNull, vars
    <3> QED
      BY <1>0, <3>1, <3>2 DEF Holding
  <2>2. CASE b # d
    <3>1. Same
      BY ZenonT(30), <1>0, <1>4, <2>2 DEF CmdTypeOK, BorrowNull, EndTry, vars
    <3> QED
      BY <1>0, <3>1, HoldingFrame
  <2> QED
    BY <2>1, <2>2
<1>5. ASSUME NEW b \in Borrowers, Append1(b) PROVE Holding(d)'
  <2>1. CASE b = d
    <3>1. held'[d] = held[d] /\ ops'[d] = ops[d] /\ pc[d] = "append"
      BY <1>5, <2>1 DEF Append1
    <3>2. pc'[d] = IF todo[d] > 1 THEN "append" ELSE IF due'[d] = <<>> THEN "finish" ELSE "write"
      BY Zenon, <1>0, <1>5, <2>1 DEF CmdTypeOK, Append1
    <3>3. todo'[d] = todo[d] - 1 /\ todo[d] \in Nat
      BY SMTT(30), <1>0, <1>5, <2>1, CommandsAssumption DEF CmdTypeOK, Append1
    <3> QED
      BY <1>0, <3>1, <3>2, <3>3 DEF Holding
  <2>2. CASE b # d
    <3>1. Same
      BY Zenon, <1>0, <1>5, <2>2 DEF CmdTypeOK, Append1
    <3> QED
      BY <1>0, <3>1, HoldingFrame
  <2> QED
    BY <2>1, <2>2
<1>6. ASSUME NEW b \in Borrowers, Write(b) \/ WriteFails(b) \/ ReadFails(b) PROVE Holding(d)'
  <2>1. UNCHANGED <<held, ops, todo, due>>
    BY ZenonT(30), <1>6 DEF Write, WriteFails, ReadFails, vars
  <2>2. CASE b = d
    <3>1. \/ pc[d] = "write" /\ pc'[d] \in {"read", "finish"}
          \/ pc[d] = "read" /\ pc'[d] = "finish"
      BY Zenon, <1>0, <1>6, <2>2 DEF CmdTypeOK, Write, WriteFails, ReadFails
    <3> QED
      BY Zenon, <1>0, <2>1, <3>1 DEF Holding
  <2>3. CASE b # d
    <3>1. pc'[d] = pc[d]
      BY ZenonT(30), <1>0, <1>6, <2>3 DEF CmdTypeOK, Write, WriteFails, ReadFails
    <3> QED
      BY Zenon, <1>0, <2>1, <3>1, HoldingFrame
  <2> QED
    BY <2>2, <2>3
<1>7. ASSUME NEW b \in Borrowers, Read(b) PROVE Holding(d)'
  <2>1. CASE b = d
    <3>1. UNCHANGED <<held, ops>> /\ pc[d] = "read" /\ due[d] \in Seq(Request) /\ due[d] # <<>>
      BY <1>0, <1>7, <2>1 DEF CmdTypeOK, Read, Holding, vars
    <3>2. due'[d] = Tail(due[d]) /\ pc'[d] = IF Len(due[d]) > 1 THEN "read" ELSE "finish"
      BY <1>0, <1>7, <2>1 DEF CmdTypeOK, Read
    <3>3. Len(due[d]) > 1 => Tail(due[d]) # <<>>
      BY Zenon, <3>1, TailEmpty
    <3> QED
      BY Zenon, <1>0, <3>1, <3>2, <3>3 DEF Holding
  <2>2. CASE b # d
    <3>1. Same
      BY Zenon, <1>0, <1>7, <2>2 DEF CmdTypeOK, Read, vars
    <3> QED
      BY <1>0, <3>1, HoldingFrame
  <2> QED
    BY <2>1, <2>2
<1>8. ASSUME NEW b \in Borrowers, Finish(b) PROVE Holding(d)'
  <2>1. held' = [held EXCEPT ![b] = NULL] /\ UNCHANGED <<ops, todo>>
    BY ZenonT(30), <1>8 DEF Finish, ReturnGood, ReturnBad
  <2>2. CASE b = d
    <3>1. held'[d] = NULL /\ pc'[d] \in {"idle", "borrow"} /\ pc[d] = "finish"
      BY Zenon, <1>0, <1>8, <2>1, <2>2 DEF CmdTypeOK, TypeOK, Finish, EndTry
    <3> QED
      BY <1>0, <2>1, <3>1 DEF Holding
  <2>3. CASE b # d
    <3>1. Same
      BY <1>0, <1>8, <2>1, <2>3 DEF CmdTypeOK, TypeOK, Finish, EndTry
    <3> QED
      BY <1>0, <3>1, HoldingFrame
  <2> QED
    BY <2>2, <2>3
<1>9. ASSUME NEW c \in Conns, Serve(c) PROVE Holding(d)'
  <2>1. Same
    BY Zenon, <1>9 DEF Serve, threadVars, vars
  <2> QED
    BY Zenon, <1>0, <2>1, HoldingFrame
<1>10. CASE PoolStep
  <2>1. Same
    BY Zenon, <1>10 DEF PoolStep, Construct, Destroy, threadVars
  <2> QED
    BY Zenon, <1>0, <2>1, HoldingFrame
<1>11. CASE UNCHANGED allVars
  <2>1. Same
    BY Zenon, <1>11 DEF allVars, threadVars, vars
  <2> QED
    BY <1>0, <2>1, HoldingFrame
<1> QED
  BY <1>1, <1>2, <1>3, <1>4, <1>5, <1>6, <1>7, <1>8, <1>9, <1>10, <1>11 DEF CmdNext, Exchange

\* What a step leaves alone still matches.
LEMMA MatchesFrame ==
    ASSUME NEW d \in Borrowers, Matches(d), held'[d] = held[d], pc'[d] = pc[d],
           due'[d] = due[d], held[d] \in err => held[d] \in err',
           held[d] # NULL => /\ obuf'[held[d]] = obuf[held[d]]
                             /\ wire'[held[d]] = wire[held[d]]
                             /\ back'[held[d]] = back[held[d]]
    PROVE  Matches(d)'
  BY ZenonT(30) DEF Matches, Pipe, Reqs

\* A step on the context c of the thread b concerns no other thread, and no
\* context that nobody holds.
LEMMA StepOnOwn ==
    ASSUME CmdIInv, NoSharing, NEW b \in Borrowers, NEW c \in Conns, held[b] = c, c # NULL,
           Matches(b)', held' = held, err \subseteq err',
           \A x \in Conns \ {c} : obuf'[x] = obuf[x] /\ wire'[x] = wire[x] /\ back'[x] = back[x],
           \A d \in Borrowers \ {b} : pc'[d] = pc[d] /\ due'[d] = due[d]
    PROVE  (\A d \in Borrowers : Matches(d)') /\ (\A x \in Conns : Clean(x)')
<1>1. ASSUME NEW d \in Borrowers PROVE Matches(d)'
  <2>1. CASE d = b
    BY <2>1
  <2>2. CASE d # b
    <3>1. held[d] # NULL => held[d] \in Conns \ {c}
      <4>1. held[d] \in Conns \cup {NULL}
        BY DEF CmdIInv, CmdTypeOK, TypeOK
      <4> QED
        BY Zenon, <2>2, <4>1 DEF NoSharing, Holders
    <3> QED
      BY <2>2, <3>1, MatchesFrame DEF CmdIInv
  <2> QED
    BY <2>1, <2>2
<1>2. ASSUME NEW x \in Conns PROVE Clean(x)'
  <2>1. CASE x = c
    BY <2>1 DEF Clean
  <2>2. CASE x # c
    BY <2>2 DEF CmdIInv, Clean
  <2> QED
    BY <2>1, <2>2
<1> QED
  BY <1>1, <1>2

\* The parts of the pipe of a context.
LEMMA PipeParts ==
    ASSUME CmdTypeOK, NEW c \in Conns
    PROVE  /\ Reqs(back[c]) \in Seq(Request) /\ back[c] \in Seq(Reply)
           /\ wire[c] \in Seq(Request) /\ obuf[c] \in Seq(Request)
<1>1. back[c] \in Seq(Reply) /\ wire[c] \in Seq(Request) /\ obuf[c] \in Seq(Request)
  BY DEF CmdTypeOK
<1> QED
  BY <1>1, ReqsType

\* One exchange keeps the thread's replies in step with its requests.
LEMMA ExchangeMatches ==
    ASSUME CmdIInv, NoSharing, CmdTypeOK', NEW b \in Borrowers, Exchange(b)
    PROVE  (\A d \in Borrowers : Matches(d)') /\ (\A x \in Conns : Clean(x)')
<1> DEFINE c == held[b]
<1>0. CmdTypeOK /\ Matches(b)
  BY Zenon DEF CmdIInv
<1>1. c \in Conns /\ c # NULL /\ held' = held
  BY ZenonT(30), HeldInConns DEF Exchange, Append1, Write, WriteFails, Read, ReadFails, vars
<1>2. err \subseteq err'
  BY ZenonT(30) DEF Exchange, Append1, Write, WriteFails, Read, ReadFails, vars
<1>3. \A x \in Conns \ {c} : obuf'[x] = obuf[x] /\ wire'[x] = wire[x] /\ back'[x] = back[x]
  <2>1. DOMAIN obuf = Conns /\ DOMAIN wire = Conns /\ DOMAIN back = Conns
    BY Zenon, <1>0 DEF CmdTypeOK
  <2>2. CASE Append1(b) \/ ReadFails(b)
    BY <2>1, <2>2 DEF Append1, ReadFails, connVars
  <2>3. CASE Write(b)
    BY <2>1, <2>3, Zenon DEF Write
  <2>4. CASE WriteFails(b)
    BY <2>1, <2>4, Zenon DEF WriteFails
  <2>5. CASE Read(b)
    BY <2>1, <2>5, ZenonT(30) DEF Read
  <2> QED
    BY Zenon, <2>2, <2>3, <2>4, <2>5 DEF Exchange
<1>4. \A d \in Borrowers \ {b} : pc'[d] = pc[d] /\ due'[d] = due[d]
  <2>1. DOMAIN pc = Borrowers /\ DOMAIN due = Borrowers
    BY <1>0 DEF CmdTypeOK
  <2>2. CASE Append1(b)
    BY Zenon, <2>1, <2>2 DEF Append1
  <2>3. CASE Write(b) \/ WriteFails(b) \/ ReadFails(b)
    BY Zenon, <2>1, <2>3 DEF Write, WriteFails, ReadFails
  <2>4. CASE Read(b)
    BY <2>1, <2>4 DEF Read
  <2> QED
    BY <2>2, <2>3, <2>4 DEF Exchange
<1>5. /\ Reqs(back[c]) \in Seq(Request) /\ back[c] \in Seq(Reply)
      /\ wire[c] \in Seq(Request) /\ obuf[c] \in Seq(Request)
  BY <1>0, <1>1, PipeParts
<1>6. Matches(b)'
  <2>1. CASE c \in err'
    BY Zenon, <1>1, <2>1 DEF Matches
  <2>2. CASE c \notin err'
    <3>1. Pipe(c) = due[b] /\ c \notin err
      BY <1>0, <1>1, <1>2, <2>2 DEF Matches
    <3>2. SUFFICES /\ Reqs(back'[c]) \o wire'[c] \o obuf'[c] = due'[b]
                   /\ pc'[b] = "finish" => due'[b] = <<>>
      BY ZenonT(30), <1>1 DEF Matches, Pipe, Reqs
    <3>3. CASE Append1(b)
      <4> DEFINE req == <<b, ops[b], try[b], todo[b]>>
      <4>1. /\ obuf' = [obuf EXCEPT ![c] = Append(@, req)]
            /\ due' = [due EXCEPT ![b] = Append(@, req)]
            /\ wire' = wire /\ back' = back
        BY <2>2, <3>3 DEF Append1
      <4>2. req \in Request
        <5>1. pc[b] = "append" /\ ops[b] \in 1..MaxOps
          BY Zenon, <3>3, HeldInConns DEF Append1
        <5>2. todo[b] \in 1..Fields /\ try[b] \in 1..MaxTry
          BY SMTT(30), <1>0, <5>1, CommandsAssumption DEF CmdTypeOK, CmdIInv, Holding
        <5> QED
          BY Zenon, <5>1, <5>2 DEF Request
      <4>3. obuf'[c] = Append(obuf[c], req) /\ due'[b] = Append(due[b], req)
        BY Zenon, <1>0, <1>1, <4>1 DEF CmdTypeOK
      <4>4. Reqs(back[c]) \o wire[c] \o Append(obuf[c], req) = Append(Pipe(c), req)
        <5> DEFINE a == Reqs(back[c])  w == wire[c]  o == obuf[c]
        <5>1. a \in Seq(Request) /\ w \in Seq(Request) /\ o \in Seq(Request)
          BY <1>5
        <5>2. a \o w \o Append(o, req) = Append(a \o w \o o, req)
          <6> HIDE DEF a, w, o, req
          <6> QED
            BY SMTT(30), <5>1, <4>2, Sending
        <5> QED
          BY Zenon, <5>2 DEF Pipe
      <4>5. pc'[b] = "finish" => due'[b] = <<>>
        BY Zenon, <1>0, <3>3 DEF CmdTypeOK, Append1
      <4> QED
        BY Zenon, <3>1, <4>1, <4>3, <4>4, <4>5
    <3>4. CASE Write(b)
      <4>1. /\ wire' = [wire EXCEPT ![c] = wire[c] \o obuf[c]]
            /\ obuf' = [obuf EXCEPT ![c] = <<>>]
            /\ pc' = [pc EXCEPT ![b] = "read"] /\ back' = back /\ due' = due
        BY <3>4 DEF Write
      <4>2. wire'[c] = wire[c] \o obuf[c] /\ obuf'[c] = <<>> /\ pc'[b] = "read"
        <5>1. DOMAIN wire = Conns /\ DOMAIN obuf = Conns /\ DOMAIN pc = Borrowers
          BY Zenon, <1>0 DEF CmdTypeOK
        <5> HIDE DEF c
        <5> QED
          BY <1>1, <4>1, <5>1, Zenon
      <4>3. Reqs(back[c]) \o (wire[c] \o obuf[c]) \o <<>> = Pipe(c)
        <5> DEFINE a == Reqs(back[c])  w == wire[c]  o == obuf[c]
        <5>1. a \in Seq(Request) /\ w \in Seq(Request) /\ o \in Seq(Request)
          BY <1>5
        <5>2. a \o (w \o o) \o <<>> = a \o w \o o
          <6> HIDE DEF a, w, o
          <6> QED
            BY SMTT(30), <5>1, Writing
        <5> QED
          BY Zenon, <5>2 DEF Pipe
      <4> QED
        BY Zenon, <3>1, <4>1, <4>2, <4>3
    <3>5. CASE Read(b)
      <4>1. /\ back[c] # <<>> /\ back'[c] = Tail(back[c]) /\ wire' = wire /\ obuf' = obuf
            /\ due'[b] = Tail(due[b])
            /\ pc'[b] = IF Len(due[b]) > 1 THEN "read" ELSE "finish"
        <5>1. DOMAIN back = Conns /\ DOMAIN due = Borrowers /\ DOMAIN pc = Borrowers
          BY <1>0 DEF CmdTypeOK
        <5>2. /\ back[c] # <<>> /\ back' = [back EXCEPT ![c] = Tail(back[c])]
              /\ due' = [due EXCEPT ![b] = Tail(due[b])] /\ wire' = wire /\ obuf' = obuf
              /\ pc' = [pc EXCEPT ![b] = IF Len(due[b]) > 1 THEN "read" ELSE "finish"]
          BY <3>5 DEF Read
        <5> HIDE DEF c
        <5> QED
          BY <1>1, <5>1, <5>2, Zenon
      <4>2. Reqs(Tail(back[c])) = Tail(Reqs(back[c])) /\ Reqs(back[c]) # <<>>
        BY Zenon, <1>5, <4>1, ReqsTail
      <4>3. Tail(Reqs(back[c])) \o wire[c] \o obuf[c] = Tail(Pipe(c)) /\ Pipe(c) # <<>>
        <5> DEFINE a == Reqs(back[c])  w == wire[c]  o == obuf[c]
        <5>1. a \in Seq(Request) /\ w \in Seq(Request) /\ o \in Seq(Request) /\ a # <<>>
          BY <1>5, <4>2
        <5>2. Tail(a) \o w \o o = Tail(a \o w \o o) /\ a \o w \o o # <<>>
          <6> HIDE DEF a, w, o
          <6>1. a \o w \in Seq(Request) /\ a \o w # <<>> /\ Tail(a) \o w = Tail(a \o w)
            BY SMTT(30), <5>1
          <6> QED
            BY <5>1, <6>1
        <5> QED
          BY Zenon, <5>2 DEF Pipe
      <4>4. due[b] \in Seq(Request) /\ due[b] # <<>>
        BY Zenon, <1>0, <3>1, <4>3 DEF CmdTypeOK
      <4>5. pc'[b] = "finish" => due'[b] = <<>>
        BY Zenon, <4>1, <4>4, TailEmpty
      <4> QED
        BY ZenonT(30), <3>1, <4>1, <4>2, <4>3, <4>5
    <3>6. CASE WriteFails(b) \/ ReadFails(b)
      BY ZenonT(30), <2>2, <3>6 DEF WriteFails, ReadFails
    <3> QED
      BY Zenon, <3>3, <3>4, <3>5, <3>6 DEF Exchange
  <2> QED
    BY <2>1, <2>2
<1> QED
  BY <1>1, <1>2, <1>3, <1>4, <1>6, StepOnOwn

\* The server's answer belongs to the oldest request of the one thread that
\* holds the context.
LEMMA ServeMatches ==
    ASSUME CmdIInv, NoSharing, NEW c \in Conns, Serve(c)
    PROVE  (\A d \in Borrowers : Matches(d)') /\ (\A x \in Conns : Clean(x)')
<1>0. CmdTypeOK /\ c # NULL
  BY PoolAssumption DEF CmdIInv
<1>1. PICK b \in Borrowers : held[b] = c
  BY ZenonT(30) DEF Serve, CmdIInv, Clean
<1>2. /\ Reqs(back[c]) \in Seq(Request) /\ back[c] \in Seq(Reply)
      /\ wire[c] \in Seq(Request) /\ obuf[c] \in Seq(Request) /\ wire[c] # <<>>
  BY <1>0, PipeParts DEF Serve
<1>3. UNCHANGED <<held, err, pc, due, obuf>>
  BY Zenon DEF Serve, vars, threadVars
<1>4. Pipe(c)' = Pipe(c)
  <2>1. PICK t \in {"value", "error", "other"} :
           back' = [back EXCEPT ![c] = Append(@, [req |-> Head(wire[c]), type |-> t])]
    BY Zenon DEF Serve
  <2> DEFINE r == [req |-> Head(wire[c]), type |-> t]
  <2>2. r \in Reply /\ r.req = Head(wire[c])
    BY <1>2 DEF Reply
  <2>3. back'[c] = Append(back[c], r) /\ wire'[c] = Tail(wire[c])
    BY <1>0, <2>1 DEF CmdTypeOK, Serve
  <2>4. Reqs(Append(back[c], r)) = Append(Reqs(back[c]), Head(wire[c]))
    <3> HIDE DEF r
    <3> QED
      BY Zenon, <1>2, <2>2, ReqsAppend
  <2>5. Append(Reqs(back[c]), Head(wire[c])) \o Tail(wire[c]) \o obuf[c] = Pipe(c)
    <3> DEFINE a == Reqs(back[c])  w == wire[c]  o == obuf[c]
    <3>1. a \in Seq(Request) /\ w \in Seq(Request) /\ o \in Seq(Request) /\ w # <<>>
      BY <1>2
    <3>2. Append(a, Head(w)) \o Tail(w) \o o = a \o w \o o
      <4> HIDE DEF a, w, o
      <4> QED
        BY <3>1, Answering
    <3> QED
      BY ZenonT(30), <3>2 DEF Pipe
  <2>6. Pipe(c)' = Reqs(back'[c]) \o wire'[c] \o obuf'[c]
    BY DEF Pipe, Reqs
  <2> QED
    BY Zenon, <1>3, <2>3, <2>4, <2>5, <2>6
<1>5. Matches(b)'
  <2>1. Pipe(held[b])' = Pipe(c)'
    BY Zenon, <1>1, <1>3 DEF Pipe, Reqs
  <2>2. Pipe(held[b]) = Pipe(c) /\ Matches(b)
    BY <1>1 DEF CmdIInv
  <2> QED
    BY <1>1, <1>3, <1>4, <2>1, <2>2 DEF Matches
<1>6. \A x \in Conns \ {c} : obuf'[x] = obuf[x] /\ wire'[x] = wire[x] /\ back'[x] = back[x]
  BY <1>0 DEF CmdTypeOK, Serve
<1> QED
  BY Zenon, <1>0, <1>1, <1>3, <1>5, <1>6, StepOnOwn

\* A thread is given a context nobody holds, and so one that carries nothing.
LEMMA BorrowMatches ==
    ASSUME CmdIInv, IInv, NEW b \in Borrowers, Borrow(b)
    PROVE  (\A d \in Borrowers : Matches(d)') /\ (\A x \in Conns : Clean(x)')
<1>0. CmdTypeOK /\ TypeOK /\ pc[b] = "borrow"
  BY DEF CmdIInv, CmdTypeOK, Borrow
<1>1. PICK c \in Conns : held' = [held EXCEPT ![b] = c] /\ (c \in Free \/ c \notin live)
  BY <1>0, Borrowed DEF Borrow
<1>2. held[b] = NULL /\ c # NULL /\ \A d \in Borrowers : held[d] # c
  <2>1. held[b] = NULL /\ c # NULL
    BY PoolAssumption DEF Borrow, BorrowFree, BorrowNew
  <2>2. ASSUME NEW d \in Borrowers, held[d] = c PROVE FALSE
    <3>1. d \in Holders
      BY Zenon, <2>1, <2>2 DEF Holders
    <3>2. held[d] \notin Free /\ held[d] \in live
      BY Zenon, <3>1 DEF IInv, NoSharing, NoLeak
    <3> QED
      BY <1>1, <2>2, <3>2
  <2> QED
    BY <2>1, <2>2
<1>3. obuf[c] = <<>> /\ wire[c] = <<>> /\ back[c] = <<>>
  BY <1>2 DEF CmdIInv, Clean
<1>4. UNCHANGED <<obuf, wire, back, err>>
  BY DEF Borrow, BorrowFree, BorrowNew, connVars
<1>5. held'[b] = c /\ due'[b] = <<>> /\ pc'[b] = "append"
  BY <1>0, <1>1 DEF CmdTypeOK, TypeOK, Borrow
<1>6. ASSUME NEW d \in Borrowers PROVE Matches(d)'
  <2>1. CASE d = b
    <3>1. Reqs(back[c]) \o wire[c] \o obuf[c] = <<>>
      BY <1>0, <1>3, PipeParts, EmptyReqs
    <3>2. Pipe(held[b])' = Reqs(back'[held'[b]]) \o wire'[held'[b]] \o obuf'[held'[b]]
      BY Zenon DEF Pipe, Reqs
    <3> QED
      BY <1>4, <1>5, <2>1, <3>1, <3>2 DEF Matches
  <2>2. CASE d # b
    <3>1. held'[d] = held[d] /\ pc'[d] = pc[d] /\ due'[d] = due[d]
      BY <1>0, <1>1, <2>2 DEF CmdTypeOK, TypeOK, Borrow
    <3> QED
      BY Zenon, <1>4, <3>1, MatchesFrame DEF CmdIInv
  <2> QED
    BY Zenon, <2>1, <2>2
<1>7. ASSUME NEW x \in Conns PROVE Clean(x)'
  <2>1. SUFFICES ASSUME \A d \in Borrowers : held'[d] # x
                 PROVE  \A d \in Borrowers : held[d] # x
    BY Zenon, <1>4 DEF CmdIInv, Clean
  <2>2. SUFFICES ASSUME NEW d \in Borrowers PROVE held[d] # x
    OBVIOUS
  <2>3. CASE d = b
    BY <1>2, <2>3, PoolAssumption
  <2>4. CASE d # b
    BY <1>0, <1>1, <2>1, <2>4 DEF TypeOK
  <2> QED
    BY Zenon, <2>3, <2>4
<1> QED
  BY <1>6, <1>7

\* A healthy context is returned with nothing on it, a broken one is freed with
\* all that was; nobody else holds it.
LEMMA FinishMatches ==
    ASSUME CmdIInv, IInv, NEW b \in Borrowers, Finish(b)
    PROVE  (\A d \in Borrowers : Matches(d)') /\ (\A x \in Conns : Clean(x)')
<1> DEFINE c == held[b]
<1>0. CmdTypeOK /\ TypeOK /\ pc[b] = "finish" /\ c \in Conns /\ c # NULL
  BY Zenon, HeldInConns DEF CmdIInv, CmdTypeOK, Finish
<1>1. held' = [held EXCEPT ![b] = NULL] /\ err \ {c} \subseteq err'
  BY ZenonT(30) DEF Finish, ReturnGood, ReturnBad
<1>2. \A x \in Conns \ {c} : obuf'[x] = obuf[x] /\ wire'[x] = wire[x] /\ back'[x] = back[x]
  <2>1. DOMAIN obuf = Conns /\ DOMAIN wire = Conns /\ DOMAIN back = Conns
    BY <1>0 DEF CmdTypeOK
  <2>2. CASE UNCHANGED connVars
    BY <2>2 DEF connVars
  <2>3. CASE /\ obuf' = [obuf EXCEPT ![c] = <<>>] /\ wire' = [wire EXCEPT ![c] = <<>>]
             /\ back' = [back EXCEPT ![c] = <<>>]
    BY Zenon, <2>1, <2>3
  <2> QED
    BY Zenon, <2>2, <2>3 DEF Finish
<1>3. obuf'[c] = <<>> /\ wire'[c] = <<>> /\ back'[c] = <<>>
  <2>1. CASE ReturnGood(b) /\ UNCHANGED connVars
    <3>1. Pipe(c) = <<>>
      BY ZenonT(30), <1>0, <2>1 DEF CmdIInv, Matches, ReturnGood
    <3>2. /\ Reqs(back[c]) \in Seq(Request) /\ back[c] \in Seq(Reply)
          /\ wire[c] \in Seq(Request) /\ obuf[c] \in Seq(Request)
      BY <1>0, PipeParts
    <3>3. Reqs(back[c]) = <<>> /\ wire[c] = <<>> /\ obuf[c] = <<>>
      <4> DEFINE a == Reqs(back[c])  w == wire[c]  o == obuf[c]
      <4>1. a \in Seq(Request) /\ w \in Seq(Request) /\ o \in Seq(Request) /\ a \o w \o o = <<>>
        BY <3>1, <3>2 DEF Pipe
      <4> HIDE DEF a, w, o
      <4>2. a = <<>> /\ w = <<>> /\ o = <<>>
        BY <4>1, EmptyPipe
      <4> QED
        BY <4>2 DEF a, w, o
    <3>4. back[c] = <<>>
      BY <3>2, <3>3, EmptyReqs
    <3> QED
      BY Zenon, <2>1, <3>3, <3>4 DEF connVars
  <2>2. CASE /\ obuf' = [obuf EXCEPT ![c] = <<>>] /\ wire' = [wire EXCEPT ![c] = <<>>]
             /\ back' = [back EXCEPT ![c] = <<>>]
    BY <1>0, <2>2 DEF CmdTypeOK
  <2> QED
    BY Zenon, <2>1, <2>2 DEF Finish
<1>4. ASSUME NEW d \in Borrowers PROVE Matches(d)'
  <2>1. CASE d = b
    BY Zenon, <1>0, <1>1, <2>1 DEF Matches, TypeOK
  <2>2. CASE d # b
    <3>1. held'[d] = held[d] /\ pc'[d] = pc[d] /\ due'[d] = due[d]
      BY <1>0, <1>1, <2>2 DEF CmdTypeOK, TypeOK, Finish, EndTry
    <3>2. held[d] # NULL => held[d] \in Conns \ {c}
      BY <1>0, <2>2 DEF IInv, NoSharing, Holders, TypeOK
    <3>3. held[d] \in err => held[d] \in err'
      BY <1>0, <1>1, <3>2, PoolAssumption DEF TypeOK
    <3> QED
      BY ZenonT(30), <1>2, <3>1, <3>2, <3>3, MatchesFrame DEF CmdIInv
  <2> QED
    BY Zenon, <2>1, <2>2
<1>5. ASSUME NEW x \in Conns PROVE Clean(x)'
  <2>1. CASE x = c
    BY Zenon, <1>3, <2>1 DEF Clean
  <2>2. CASE x # c
    <3>1. (\A d \in Borrowers : held'[d] # x) => (\A d \in Borrowers : held[d] # x)
      BY <1>0, <1>1, <2>2 DEF TypeOK
    <3> QED
      BY <1>2, <2>2, <3>1 DEF CmdIInv, Clean
  <2> QED
    BY <2>1, <2>2
<1> QED
  BY Zenon, <1>4, <1>5

\* The inductive step: the pool's invariant and the commands' together.
LEMMA CmdInductive ==
    ASSUME IInv, CmdIInv, IInv', [CmdNext]_allVars
    PROVE  CmdIInv'
<1>1. CmdTypeOK'
  BY CmdTypeInductive DEF IInv
<1>2. \A d \in Borrowers : Holding(d)'
  BY HoldingInductive
<1>3. (\A d \in Borrowers : Matches(d)') /\ (\A x \in Conns : Clean(x)')
  <2>1. ASSUME NEW b \in Borrowers, Exchange(b)
        PROVE  (\A d \in Borrowers : Matches(d)') /\ (\A x \in Conns : Clean(x)')
    BY <1>1, <2>1, ExchangeMatches DEF IInv
  <2>2. ASSUME NEW b \in Borrowers, Borrow(b)
        PROVE  (\A d \in Borrowers : Matches(d)') /\ (\A x \in Conns : Clean(x)')
    BY <2>2, BorrowMatches
  <2>3. ASSUME NEW b \in Borrowers, Finish(b)
        PROVE  (\A d \in Borrowers : Matches(d)') /\ (\A x \in Conns : Clean(x)')
    BY <2>3, FinishMatches
  <2>4. ASSUME NEW c \in Conns, Serve(c)
        PROVE  (\A d \in Borrowers : Matches(d)') /\ (\A x \in Conns : Clean(x)')
    BY <2>4, ServeMatches DEF IInv
  <2>5. ASSUME held' = held, err' = err, UNCHANGED connVars, due' = due,
               \A d \in Borrowers : held[d] # NULL => pc'[d] = pc[d]
        PROVE  (\A d \in Borrowers : Matches(d)') /\ (\A x \in Conns : Clean(x)')
    <3>1. ASSUME NEW d \in Borrowers PROVE Matches(d)'
      <4>1. CASE held[d] = NULL
        BY Zenon, <2>5, <4>1 DEF Matches
      <4>2. CASE held[d] # NULL
        BY Zenon, <2>5, <4>2, MatchesFrame DEF CmdIInv, connVars
      <4> QED
        BY <4>1, <4>2
    <3>2. ASSUME NEW x \in Conns PROVE Clean(x)'
      BY <2>5 DEF CmdIInv, Clean, connVars
    <3> QED
      BY <3>1, <3>2
  <2>6. ASSUME NEW b \in Borrowers, Call(b) \/ BorrowNull(b)
        PROVE  (\A d \in Borrowers : Matches(d)') /\ (\A x \in Conns : Clean(x)')
    <3>1. held' = held /\ err' = err /\ UNCHANGED connVars /\ due' = due
      BY ZenonT(30), <2>6 DEF Call, BorrowNull, vars
    <3>2. held[b] = NULL
      BY Zenon, <2>6 DEF Call, BorrowNull, CmdIInv, Holding
    <3>3. \A d \in Borrowers : d # b => pc'[d] = pc[d]
      BY Zenon, <2>6 DEF Call, BorrowNull, EndTry, CmdIInv, CmdTypeOK
    <3> QED
      BY Zenon, <2>5, <3>1, <3>2, <3>3
  <2>7. ASSUME NEW b \in Borrowers, BorrowCrashes(b)
        PROVE  (\A d \in Borrowers : Matches(d)') /\ (\A x \in Conns : Clean(x)')
    BY ZenonT(30), <2>5, <2>7 DEF BorrowCrashes, BorrowFails, threadVars
  <2>8. ASSUME PoolStep
        PROVE  (\A d \in Borrowers : Matches(d)') /\ (\A x \in Conns : Clean(x)')
    BY Zenon, <2>5, <2>8 DEF PoolStep, Construct, Destroy, threadVars
  <2>9. ASSUME UNCHANGED allVars
        PROVE  (\A d \in Borrowers : Matches(d)') /\ (\A x \in Conns : Clean(x)')
    BY <2>5, <2>9 DEF allVars, vars, threadVars
  <2> QED
    BY <2>1, <2>2, <2>3, <2>4, <2>6, <2>7, <2>8, <2>9 DEF CmdNext
<1> QED
  BY <1>1, <1>2, <1>3 DEF CmdIInv

-----------------------------------------------------------------------------
\* In every reachable state the pool's invariant holds and every thread's
\* requests are in step with its context, whatever failed before.
THEOREM CmdInvariance == CmdSpec => [](IInv /\ CmdIInv)
<1>1. CmdInit => IInv /\ CmdIInv
  <2> SUFFICES ASSUME CmdInit PROVE IInv /\ CmdIInv
    OBVIOUS
  <2>1. Init
    BY DEF CmdInit
  <2>2. IInv
    BY Zenon, <2>1, PoolInit
  <2>3. CmdTypeOK
    <3>1. 0 \in 0..MaxOps /\ 1 \in 1..MaxTry /\ 0 \in 0..Fields
      BY SMTT(30), CommandsAssumption
    <3> QED
      BY <2>2, <3>1 DEF CmdInit, CmdTypeOK, IInv, Kinds
  <2>4. ASSUME NEW b \in Borrowers PROVE Holding(b) /\ Matches(b)
    BY <2>1 DEF CmdInit, Init, Holding, Matches
  <2>5. ASSUME NEW c \in Conns PROVE Clean(c)
    BY DEF CmdInit, Clean
  <2> QED
    BY <2>2, <2>3, <2>4, <2>5 DEF CmdIInv
<1>2. IInv /\ CmdIInv /\ [CmdNext]_allVars => (IInv /\ CmdIInv)'
  <2> SUFFICES ASSUME IInv, CmdIInv, [CmdNext]_allVars PROVE IInv' /\ CmdIInv'
    OBVIOUS
  <2>1. IInv'
    BY PoolSteps, PoolInductive
  <2> QED
    BY <2>1, CmdInductive
<1> QED
  BY <1>1, <1>2, PTL DEF CmdSpec

\* HSet, HMDel, HGet, HMGet and HMSet use the pool only as RedisConnPool
\* allows: every behaviour of theirs is one of the pool's specification.
THEOREM Refinement == CmdSpec => ImplementsPool
<1>1. CmdInit => Init
  BY DEF CmdInit
<1>2. CmdIInv /\ [CmdNext]_allVars => [Next]_vars
  BY PoolSteps
<1> QED
  BY <1>1, <1>2, CmdInvariance, PTL DEF CmdSpec, ImplementsPool, Spec

\* No thread reads a reply to another command than its own oldest one, and no
\* context goes back to the free list with a request or a reply on it.
THEOREM RepliesTheorem == CmdSpec => []RepliesMatch
<1>1. IInv /\ CmdIInv => RepliesMatch
  <2> SUFFICES ASSUME IInv, CmdIInv PROVE RepliesMatch
    BY Zenon
  <2>1. ASSUME NEW b \in Borrowers, held[b] # NULL, held[b] \notin err
        PROVE  Pipe(held[b]) = due[b]
    BY <2>1 DEF CmdIInv, Matches
  <2>2. ASSUME NEW c \in Free PROVE obuf[c] = <<>> /\ wire[c] = <<>> /\ back[c] = <<>>
    <3>1. c \in Conns
      BY <2>2 DEF IInv, TypeOK, Free
    <3>2. \A b \in Borrowers : held[b] # c
      BY <2>2, <3>1, PoolAssumption DEF IInv, NoSharing, Holders
    <3> QED
      BY <3>1, <3>2 DEF CmdIInv, Clean
  <2> QED
    BY <2>1, <2>2 DEF RepliesMatch
<1> QED
  BY <1>1, CmdInvariance, PTL

=============================================================================
