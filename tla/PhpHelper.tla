------------------------------ MODULE PhpHelper ------------------------------
(***************************************************************************)
(* helper/util/string_helper.cpp and helper/php_helper/php_helper.cpp:     *)
(* splitting, trimming and replacing, key=value parameters, and the PHP    *)
(* serialisation of JSON values that is built on them.  A string is the    *)
(* sequence of its character codes.  A JSON value has a type t and, in v,  *)
(* its content: a string, an integer, a decimal <<units, tenths>>, a       *)
(* Boolean, an array of values, or an object as its sorted members.        *)
(***************************************************************************)
EXTENDS Integers, Sequences, SequencesExt, FiniteSetsExt

Colon == 58
Semi  == 59
Quo   == 34
Open  == 123
Close == 125
Dot   == 46
White == {32, 9, 13, 10}

-----------------------------------------------------------------------------
(* StringHelper *)

\* std::string::find from a position on: 0 is npos.
Find(str, sub, pos) ==
    LET hits == {i \in pos..(Len(str) - Len(sub) + 1) : SubSeq(str, i, i + Len(sub) - 1) = sub}
    IN  IF hits = {} THEN 0 ELSE Min(hits)

RECURSIVE ReplaceFrom(_, _, _, _)
ReplaceFrom(result, src, dst, pos) ==
    LET at == Find(result, src, pos)
    IN  IF at = 0 THEN result
        ELSE ReplaceFrom(SubSeq(result, 1, at - 1) \o dst
                           \o SubSeq(result, at + Len(src), Len(result)),
                         src, dst, at + Len(dst))

\* For a src that is not empty.
StringReplaceAll(big, src, dst) == ReplaceFrom(big, src, dst, 1)

\* An empty piece at the end is dropped.
RECURSIVE SplitAt(_, _, _)
SplitAt(str, splitor, pos) ==
    LET at == Find(str, splitor, pos)
    IN  CASE at # 0 -> <<SubSeq(str, pos, at - 1)>> \o SplitAt(str, splitor, at + Len(splitor))
          [] at = 0 /\ pos <= Len(str) -> <<SubSeq(str, pos, Len(str))>>
          [] OTHER -> <<>>
Split(str, splitor) == SplitAt(str, splitor, 1)

TrimLeft(str) ==
    LET keep == {i \in 1..Len(str) : str[i] \notin White}
    IN  IF keep = {} THEN <<>> ELSE SubSeq(str, Min(keep), Len(str))
TrimRight(str) ==
    LET keep == {i \in 1..Len(str) : str[i] \notin White}
    IN  IF keep = {} THEN <<>> ELSE SubSeq(str, 1, Max(keep))
Trim(str) == TrimLeft(TrimRight(str))

\* Pieces that are empty once trimmed are dropped.
TrimVector(strvct) ==
    SelectSeq([i \in 1..Len(strvct) |-> Trim(strvct[i])], LAMBDA s : s # <<>>)

\* One character of ParseParameter: buf is sBuffer, named says iHavedGetName
\* (chFlag changes with it).  The last value of a name wins; num counts pairs.
ParseChar(st, ch, ch1, ch2) ==
    CASE st.ret # 0 -> st
      [] st.ret = 0 /\ ch = ch1 /\ ~st.named ->
             [st EXCEPT !.name = st.buf, !.buf = <<>>, !.named = TRUE]
      [] st.ret = 0 /\ ~(ch = ch1 /\ ~st.named) /\ ch \in {ch2, 0} ->
             IF ~st.named THEN [st EXCEPT !.ret = -2]
             ELSE [st EXCEPT !.params = (st.name :> st.buf) @@ @, !.buf = <<>>,
                             !.named = FALSE, !.num = @ + 1]
      [] OTHER -> [st EXCEPT !.buf = Append(@, ch)]

NoParams == [ret |-> 0, buf |-> <<>>, name |-> <<>>, named |-> FALSE,
             params |-> << >>, num |-> 0]

ParseParameter(str, ch1, ch2) ==
    LET st == FoldLeft(LAMBDA s, c : ParseChar(s, c, ch1, ch2), NoParams, str)
    IN  CASE st.ret # 0 -> [ret |-> st.ret, params |-> st.params]
          [] st.ret = 0 /\ st.named ->
                 [ret |-> st.num + 1, params |-> (st.name :> st.buf) @@ st.params]
          [] OTHER -> [ret |-> st.num, params |-> st.params]

-----------------------------------------------------------------------------
(* Numbers as text: operator<< of a stringstream, atoi and atof. *)

RECURSIVE Decimal(_)
Decimal(n) == CASE n < 0 -> <<45>> \o Decimal(-n)
                [] n \in 0..9 -> <<48 + n>>
                [] OTHER -> Decimal(n \div 10) \o <<48 + (n % 10)>>

\* The value of the digits a text starts with, after a sign.
atoi(text) ==
    LET neg  == text # <<>> /\ text[1] = 45
        body == IF neg THEN Tail(text) ELSE text
        n    == Max({k \in 0..Len(body) : \A i \in 1..k : body[i] \in 48..57})
        val  == FoldLeft(LAMBDA acc, c : acc * 10 + (c - 48), 0, SubSeq(body, 1, n))
    IN  IF neg THEN -val ELSE val

atof(text) ==
    LET at == Find(text, <<Dot>>, 1)
    IN  IF at = 0 THEN <<atoi(text), 0>>
        ELSE <<atoi(SubSeq(text, 1, at - 1)), atoi(SubSeq(text, at + 1, Len(text)))>>

-----------------------------------------------------------------------------
(* PhpHelper *)

Quoted(s) == Decimal(Len(s)) \o <<Colon, Quo>> \o s \o <<Quo, Semi>>

\* [ok, out]; a null value, and anything that holds one, is refused.
RECURSIVE Serialize(_)
Serialize(x) ==
    LET Parts(n, item(_)) ==
            LET ps == [i \in 1..n |-> item(i)]
            IN  IF \E i \in 1..n : ~ps[i].ok THEN [ok |-> FALSE, out |-> <<>>]
                ELSE [ok |-> TRUE, out |-> <<97, Colon>> \o Decimal(n) \o <<Colon, Open>>
                         \o FlattenSeq([i \in 1..n |-> ps[i].out]) \o <<Close>>]
        Text(t) == [ok |-> TRUE, out |-> t]
        Member(i) == LET r == Serialize(x.v[i][2])
                     IN  [r EXCEPT !.out = <<115, Colon>> \o Quoted(x.v[i][1]) \o @]
        Element(i) == Serialize(x.v[i])
    IN  CASE x.t = "string" -> Text(<<115, Colon>> \o Quoted(x.v))
          [] x.t = "int"    -> Text(<<105, Colon>> \o Decimal(x.v) \o <<Semi>>)
          [] x.t = "double" -> Text(<<100, Colon>> \o Decimal(x.v[1])
                                      \o (IF x.v[2] = 0 THEN <<>> ELSE <<Dot>> \o Decimal(x.v[2]))
                                      \o <<Semi>>)
          [] x.t = "bool"   -> Text(<<98, Colon, IF x.v THEN 49 ELSE 48, Semi>>)
          [] x.t = "array"  -> Parts(Len(x.v), Element)
          [] x.t = "object" -> Parts(Len(x.v), Member)
          [] x.t = "null"   -> [ok |-> FALSE, out |-> <<>>]

\* What UnSerialize may return where its loop runs past the items.
Undefined == -9

NoKey == [ok |-> FALSE, out |-> <<>>]

\* s:N:"..." with N the length of what is between the quotes.
GetKey(src) ==
    LET pos == Find(src, <<Colon>>, 3)
        str == SubSeq(src, pos + 2, Len(src) - 1)
    IN  IF /\ Len(src) >= 2 /\ src[1] = 115 /\ src[2] = Colon
           /\ pos # 0 /\ pos + 1 <= Len(src)
           /\ src[pos + 1] = Quo /\ src[Len(src)] = Quo
           /\ Len(str) = atoi(SubSeq(src, 3, pos - 1))
        THEN [ok |-> TRUE, out |-> str] ELSE NoKey

GetValue(src) ==
    LET rest == SubSeq(src, 3, Len(src))
        Is(t, v) == [ok |-> TRUE, out |-> [t |-> t, v |-> v]]
    IN  CASE Len(src) < 2 \/ src[2] # Colon -> [ok |-> FALSE]
          [] Len(src) >= 2 /\ src[2] = Colon ->
               CASE src[1] = 115 -> IF GetKey(src).ok THEN Is("string", GetKey(src).out)
                                    ELSE [ok |-> FALSE]
                 [] src[1] = 105 -> Is("int", atoi(rest))
                 [] src[1] = 100 -> Is("double", atof(rest))
                 [] src[1] = 98  -> IF Len(src) = 3 /\ src[3] \in {48, 49}
                                    THEN Is("bool", src[3] = 49) ELSE [ok |-> FALSE]
                 [] OTHER -> [ok |-> FALSE]

\* The members found before the first bad one stay in the target.  With no
\* items at all the loop's bound wraps around and the vector is overrun.
UnSerialize(src) ==
    LET pos   == Find(src, <<Colon>>, 3)
        items == TrimVector(Split(SubSeq(src, pos + 2, Len(src) - 1), <<Semi>>))
        count == atoi(SubSeq(src, 3, pos - 1))
    IN  CASE \/ Len(src) < 2 \/ src[1] # 97 \/ src[2] # Colon \/ src[Len(src)] # Close
             \/ pos = 0 \/ pos + 1 > Len(src) \/ src[pos + 1] # Open
             \/ Len(items) # count * 2 -> [ret |-> -1, target |-> <<>>]
          [] OTHER ->
             IF items = <<>> THEN [ret |-> Undefined, target |-> <<>>]
             ELSE FoldLeft(LAMBDA acc, i :
                     LET k == GetKey(items[2 * i - 1])
                         v == GetValue(items[2 * i])
                     IN  IF acc.ret # 0 \/ ~k.ok \/ ~v.ok THEN [acc EXCEPT !.ret = -1]
                         ELSE [acc EXCEPT !.target = Append(@, <<k.out, v.out>>)],
                     [ret |-> 0, target |-> <<>>], [i \in 1..count |-> i])

=============================================================================
