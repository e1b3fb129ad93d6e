--------------------------- MODULE MCHiredisReader ---------------------------
(***************************************************************************)
(* The reader on small streams, some of them commands as RedisFormat       *)
(* writes them: requests and replies have the same form.                   *)
(***************************************************************************)
EXTENDS HiredisReader, RedisFormat

\* Replies as values: a type, a string or number, and elements.
Leaf(type, val) == [type |-> type, val |-> val, element |-> <<>>]
Array(elements) == [type |-> "array", val |-> <<>>, element |-> elements]

\* What a server sends for a reply.
RECURSIVE Encode(_)
Encode(r) ==
    CASE r.type = "status"  -> <<"+">> \o r.val \o Newline
      [] r.type = "error"   -> <<"-">> \o r.val \o Newline
      [] r.type = "integer" ->
            <<":">> \o (IF r.val[1] < 0 THEN <<"-">> \o Decimal[-r.val[1]]
                                        ELSE Decimal[r.val[1]]) \o Newline
      [] r.type = "string"  -> <<"$">> \o Decimal[Len(r.val)] \o Newline \o r.val \o Newline
      [] r.type = "nil"     -> r.val \o <<"-", "1">> \o Newline
      [] r.type = "array"   ->
            FlattenSeq(<<<<"*">> \o Decimal[Len(r.element)] \o Newline>>
                       \o [i \in 1..Len(r.element) |-> Encode(r.element[i])])

\* The reply an object of the reader stands for; a nil is a nil.
RECURSIVE Value(_)
Value(p) ==
    LET o == objs[p] IN
    [type |-> o.type, val |-> o.val,
     element |-> [i \in 1..Len(o.element) |-> Value(o.element[i])]]

RECURSIVE Plain(_)
Plain(r) ==
    [type |-> r.type, val |-> IF r.type = "nil" THEN <<>> ELSE r.val,
     element |-> [i \in 1..Len(r.element) |-> Plain(r.element[i])]]

\* A stream of replies, followed by bytes that are no reply.
StreamOf(replies, tail) ==
    LET parts == [i \in 1..Len(replies) |-> Encode(replies[i])] IN
    [bytes   |-> FlattenSeq(parts) \o tail,
     replies |-> [i \in 1..Len(replies) |-> Plain(replies[i])],
     ends    |-> [i \in 1..Len(replies) |-> Len(FlattenSeq(SubSeq(parts, 1, i)))],
     length  |-> Len(FlattenSeq(parts) \o tail)]

\* A command and what the server must make of it.
CommandOf(format, vals, words) ==
    LET argv == redisvFormatCommand(format, vals).argv IN
    [bytes   |-> ArgvBytes(argv),
     replies |-> <<Array([i \in 1..Len(words) |-> Leaf("string", words[i])])>>,
     ends    |-> <<Len(ArgvBytes(argv))>>,
     length  |-> redisFormatCommand(format, vals)]

B(b) == <<"byte", b>>
Ten  == [i \in 1..10 |-> "x"]
Crlf == Leaf("string", <<CR, LF>>)
Ok   == Leaf("status", <<"O", "K">>)
Nils == {Leaf("nil", <<"$">>), Leaf("nil", <<"*">>)}

MCStreams ==
    {StreamOf(<<Crlf, Leaf("error", <<CR, "E">>)>>, <<>>),
     StreamOf(<<Leaf("integer", <<-12>>), Leaf("string", <<>>)>>, <<>>),
     StreamOf(<<Array(<<Ok, Array(<<Crlf>>)>>), Ok>>, <<>>),
     StreamOf(<<Array(<<Array(<<>>), Leaf("string", Ten)>>)>>, <<>>),
     StreamOf(<<Array(<<Ok>>)>>, <<"*", "1", CR, LF, "?">>),
     StreamOf(<<>>, <<"*", "2", CR, LF, "+", CR, LF, "*", "1", CR, LF, "*", "0", CR, LF>>)}
    \cup {StreamOf(<<Array(<<Array(<<n, n>>), n>>)>>, <<>>) : n \in Nils}
    \cup {CommandOf(<<B("S"), B(" "), B(" "), <<"s">>, B("k"), <<"d">>, B(" "), <<"b">>, B(" ")>>,
                    <<<<" ", "a">>, 10, <<>>>>,
                    <<<<"S">>, <<" ", "a", "k", "1", "0">>, <<>>>>),
          CommandOf(<<<<"%">>, <<"b">>>>, <<[i \in 1..9 |-> "x"]>>,
                    <<<<"%">> \o [i \in 1..9 |-> "x"]>>)}

-----------------------------------------------------------------------------
(* Properties *)

\* Whatever way the input is cut into pieces and however often the caller asks,
\* redisReaderGetReply hands out the replies the server sent, in order and
\* whole; for a command these are the words of its format.  When it finds no
\* reply, every reply whose last byte has been fed was handed out.
Faithful ==
    LET arrived == Cardinality({i \in 1..Len(stream.ends) : stream.ends[i] <= fed}) IN
    /\ Len(emitted) <= arrived
    /\ last = "none" => Len(emitted) = arrived
    /\ \A i \in 1..Len(emitted) : Value(emitted[i]) = stream.replies[i]

\* The assertions of the format functions that the length computed beforehand
\* is the length written, also where countDigits goes round its loop; that
\* redisFormatCommandArgv writes the bytes of redisFormatSdsCommandArgv and no
\* others; and that a format with an unknown conversion gives no command.
LengthRight ==
    /\ stream.length = Len(stream.bytes)
    /\ \A k \in 1..9 : \A n \in {10^k - 1, 10^k} : countDigits[n] = Len(Decimal[n])
    /\ \A argv \in {<<>>, <<<<"G">>, <<>>>>, <<Ten, <<"x">>, Ten \o Ten>>} :
          LET w == redisFormatCommandArgv(argv) IN
          w.pos = ArgvLength(argv) /\ w.cmd = Append(ArgvBytes(argv), "NUL")
    /\ redisFormatCommand(<<B("G"), B(" "), <<"invalid">>, B("x")>>, <<>>) = -1

=============================================================================
