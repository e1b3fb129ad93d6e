---------------------------- MODULE RedisHashes ----------------------------
(***************************************************************************)
(* What RedisCliPool and MultiHashRedisCliPool store in and read from the  *)
(* hashes of a Redis server: which fields a command names, how the answers *)
(* are paired with them, and which keys are reported as failed.  How a     *)
(* single command travels is the business of RedisCommands; here a try has *)
(* an outcome: Answered, or the number of its commands that the server     *)
(* executed before the connection broke.                                   *)
(*                                                                         *)
(* Field names and values are numbers, 0 being the empty string; the store *)
(* maps a key to a function from fields to values.                         *)
(***************************************************************************)
EXTENDS Integers, Sequences, SequencesExt, FiniteSetsExt

Answered == -1
Nil      == -2
NoValues == [f \in {} |-> 0]

Put(values, f, v) == [g \in DOMAIN values \cup {f} |-> IF g = f THEN v ELSE values[g]]

\* The number of the first try that is answered, 0 if none of max is.
FirstAnswered(outcomes, max) ==
    LET good == {i \in 1..max : outcomes[i] = Answered}
    IN  IF good = {} THEN 0 ELSE Min(good)

-----------------------------------------------------------------------------
(* Writing *)

\* The pairs that HMSetImpl sends, one HMSET each.
Valid(pairs) == SelectSeq(pairs, LAMBDA p : p[1] # 0 /\ p[2] # 0)

HMSetImpl(hash, pairs, outcome) ==
    LET cmds == Valid(pairs)
        done == IF outcome = Answered THEN cmds
                ELSE SubSeq(cmds, 1, Min({outcome, Len(cmds)}))
    IN  FoldLeft(LAMBDA h, p : Put(h, p[1], p[2]), hash, done)

\* [ret, hash]: tried until one try is answered.
HMSet(hash, key, pairs, outcomes, max) ==
    LET last == IF FirstAnswered(outcomes, max) = 0 THEN max ELSE FirstAnswered(outcomes, max)
    IN  IF key = 0 \/ pairs = <<>> THEN [ret |-> TRUE, hash |-> hash]
        ELSE [ret |-> FirstAnswered(outcomes, max) # 0,
              hash |-> FoldLeft(LAMBDA h, o : HMSetImpl(h, pairs, o), hash,
                                SubSeq(outcomes, 1, last))]

\* The fields that HMDel and HMGet put into their command.
Sent(fields) == SelectSeq(fields, LAMBDA f : f # 0)

HMDelImpl(hash, fields, outcome) ==
    IF outcome = 0 THEN hash
    ELSE [f \in DOMAIN hash \ ToSet(Sent(fields)) |-> hash[f]]

\* A command without fields is refused, which HMDelImpl returns as 0 (false).
HMDel(hash, key, fields, outcomes, max) ==
    LET first == FirstAnswered(outcomes, max)
    IN  IF key = 0 \/ fields = <<>> THEN [ret |-> 0, hash |-> hash]
        ELSE [ret |-> CASE first = 0 -> -3
                        [] first # 0 /\ \E i \in 1..(first - 1) : outcomes[i] # 0 -> 0
                        [] OTHER -> Cardinality(ToSet(Sent(fields)) \cap DOMAIN hash),
              hash |-> FoldLeft(LAMBDA h, o : HMDelImpl(h, fields, o), hash,
                                SubSeq(outcomes, 1, IF first = 0 THEN max ELSE first))]

-----------------------------------------------------------------------------
(* Reading *)

\* What the server answers to HMGET: a value or nil for every field named.
HmgetReply(hash, fields) ==
    [i \in 1..Len(Sent(fields)) |->
        IF Sent(fields)[i] \in DOMAIN hash THEN hash[Sent(fields)[i]] ELSE Nil]

\* What it answers to HGETALL: fields and values in turn.
HgetallReply(hash) ==
    FlattenSeq([i \in 1..Cardinality(DOMAIN hash) |->
        LET f == SetToSortSeq(DOMAIN hash, <)[i] IN <<f, hash[f]>>])


\* The i-th answer belongs to the i-th of fields, the empty names included.
GetReplyValues(reply, fields, values) ==
    IF fields = <<>>
    THEN FoldLeft(LAMBDA vs, i : Put(vs, reply[2 * i - 1], reply[2 * i]), values,
                  [i \in 1..(Len(reply) \div 2) |-> i])
    ELSE FoldLeft(LAMBDA st, v :
                CASE st.at > Len(fields) -> st
                  [] st.at <= Len(fields) /\ v = Nil -> [st EXCEPT !.at = @ + 1]
                  [] OTHER -> [at |-> st.at + 1,
                               values |-> Put(st.values, fields[st.at], v)],
             [at |-> 1, values |-> values], reply).values

\* [ret, values].  The server refuses a command that names no field.
HMGet(hash, key, fields, outcomes, max) ==
    IF key = 0 \/ fields = <<>> \/ max \notin 1..10 \/ Sent(fields) = <<>>
         \/ FirstAnswered(outcomes, max) = 0
    THEN [ret |-> FALSE, values |-> NoValues]
    ELSE [ret |-> TRUE,
          values |-> GetReplyValues(HmgetReply(hash, fields), fields, NoValues)]

HGetAll(hash, key, outcomes, max) ==
    IF key = 0 \/ max \notin 1..10 \/ FirstAnswered(outcomes, max) = 0
    THEN [ret |-> FALSE, values |-> NoValues]
    ELSE [ret |-> TRUE, values |-> GetReplyValues(HgetallReply(hash), <<>>, NoValues)]

-----------------------------------------------------------------------------
(* Several keys.  req maps a key to its pairs or fields, out to its tries. *)

MultiHashMSet(store, req, out, max) ==
    LET r == [k \in DOMAIN req |-> HMSet(store[k], k, req[k], out[k], max)]
    IN  [ret |-> \A k \in DOMAIN req : r[k].ret,
         failed |-> {k \in DOMAIN req : ~r[k].ret},
         store |-> [k \in DOMAIN store |-> IF k \in DOMAIN req THEN r[k].hash ELSE store[k]]]

MultiHashMDel(store, req, out, max) ==
    LET r == [k \in DOMAIN req |-> HMDel(store[k], k, req[k], out[k], max)]
    IN  [ret |-> \A k \in DOMAIN req : r[k].ret >= 0,
         failed |-> {k \in DOMAIN req : r[k].ret < 0},
         store |-> [k \in DOMAIN store |-> IF k \in DOMAIN req THEN r[k].hash ELSE store[k]]]

MultiHashMGet(store, req, out, max) ==
    LET r == [k \in DOMAIN req |-> HMGet(store[k], k, req[k], out[k], max)]
    IN  [ret |-> \A k \in DOMAIN req : r[k].ret,
         failed |-> {k \in DOMAIN req : ~r[k].ret},
         values |-> [k \in DOMAIN req |-> r[k].values]]

=============================================================================
