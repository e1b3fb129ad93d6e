------------------------------- MODULE SdsText -------------------------------
(***************************************************************************)
(* hiredis-0.11.0/sds.c: the operations that build a new string or a list  *)
(* of strings.  A string is the sequence of its byte codes; allocation     *)
(* does not fail.                                                          *)
(***************************************************************************)
EXTENDS Integers, Sequences, SequencesExt

CONSTANTS Bits,      \* width of long long, reduced
          FirstBuf   \* buflen of the first attempt of sdscatvprintf

NUL   == 0
Quote == 34
Apos  == 39
Slash == 92
Blanks == (9..13) \cup {32}           \* isspace
Printable == 32..126                  \* isprint

\* Letters of the two-character escapes, and what they stand for.
Escapes == <<<<110, 10>>, <<114, 13>>, <<116, 9>>, <<97, 7>>, <<98, 8>>>>

\* A C string ends at its first NUL.
CStr(s) == LET z == {i \in 1..Len(s) : s[i] = NUL}
           IN  IF z = {} THEN s ELSE SubSeq(s, 1, (CHOOSE i \in z : \A j \in z : i <= j) - 1)

-----------------------------------------------------------------------------
(* Numbers *)

RECURSIVE Digits(_)
Digits(v) == IF v < 10 THEN <<48 + v>> ELSE Digits(v \div 10) \o <<48 + (v % 10)>>

Minus == 45

\* The magnitude is unsigned: -value wraps to itself at the least value, which
\* is then read as 2^(Bits - 1).
sdsll2str(value) ==
    LET v == IF value < 0 THEN (-value) % 2^Bits ELSE value
    IN  (IF value < 0 THEN <<Minus>> ELSE <<>>) \o Digits(v)

sdsull2str(v) == Digits(v)

\* The same conversion, from the end of a buffer of 32.
sdsfromlonglong(value) ==
    LET v == IF value < 0 THEN (-value) % 2^Bits ELSE value
    IN  (IF value < 0 THEN <<Minus>> ELSE <<>>) \o Digits(v)

\* vsnprintf into a buffer that doubles until its last byte but one stayed NUL.
RECURSIVE Formatted(_, _)
Formatted(text, buflen) ==
    IF Len(text) >= buflen - 1 /\ text[buflen - 1] # NUL
    THEN Formatted(text, 2 * buflen)
    ELSE SubSeq(text, 1, IF Len(text) < buflen - 1 THEN Len(text) ELSE buflen - 1)

sdscatvprintf(s, text) == s \o CStr(Formatted(text, FirstBuf))
sdscatprintf(s, text)  == sdscatvprintf(s, text)

-----------------------------------------------------------------------------
(* Splitting and joining *)

\* j runs over the places where sep still fits; start is where the token began.
RECURSIVE SplitFrom(_, _, _, _)
SplitFrom(s, sep, start, j) ==
    CASE j > Len(s) - Len(sep) + 1 -> <<SubSeq(s, start, Len(s))>>
      [] j <= Len(s) - Len(sep) + 1 /\ SubSeq(s, j, j + Len(sep) - 1) = sep ->
             <<SubSeq(s, start, j - 1)>> \o SplitFrom(s, sep, j + Len(sep), j + Len(sep))
      [] OTHER -> SplitFrom(s, sep, start, j + 1)

sdssplitlen(s, sep) == IF s = <<>> THEN <<>> ELSE SplitFrom(s, sep, 1, 1)

JoinWith(argv, sep) ==
    FlattenSeq([j \in 1..Len(argv) |-> IF j = Len(argv) THEN argv[j] ELSE argv[j] \o sep])

\* C strings are cut at their first NUL, sds strings are not.
sdsjoin(argv, sep)    == JoinWith([j \in 1..Len(argv) |-> CStr(argv[j])], sep)
sdsjoinsds(argv, sep) == JoinWith(argv, sep)

sdsmapchars(s, from, to) ==
    [j \in 1..Len(s) |->
        LET hit == {i \in 1..Len(from) : from[i] = s[j]}
        IN  IF hit = {} THEN s[j] ELSE to[CHOOSE i \in hit : \A k \in hit : i <= k]]

-----------------------------------------------------------------------------
(* Quoting *)

is_hex_digit(c)     == c \in (48..57) \cup (97..102) \cup (65..70)
hex_digit_to_int(c) == CASE c \in 48..57 -> c - 48
                         [] c \in 97..102 -> c - 87
                         [] c \in 65..70 -> c - 55
                         [] OTHER -> 0
HexDigit(n) == IF n < 10 THEN 48 + n ELSE 87 + n

Escaped(c) ==
    LET known == {i \in 1..Len(Escapes) : Escapes[i][2] = c}
    IN  CASE c \in {Slash, Quote} -> <<Slash, c>>
          [] known # {} -> <<Slash, Escapes[CHOOSE i \in known : TRUE][1]>>
          [] c \in Printable \ {Slash, Quote} -> <<c>>
          [] OTHER -> <<Slash, 120, HexDigit(c \div 16), HexDigit(c % 16)>>

sdscatrepr(s, p) ==
    s \o <<Quote>> \o FlattenSeq([i \in 1..Len(p) |-> Escaped(p[i])]) \o <<Quote>>

Unescaped(c) ==
    LET known == {i \in 1..Len(Escapes) : Escapes[i][1] = c}
    IN  IF known = {} THEN c ELSE Escapes[CHOOSE i \in known : TRUE][2]

\* The scanner of sdssplitargs at position p: between tokens, in a bare token,
\* in double or in single quotes; argv has the tokens so far, cur the one it is in.
RECURSIVE Scan(_, _, _, _, _)
Scan(line, p, mode, cur, argv) ==
    LET At(i) == IF i <= Len(line) THEN line[i] ELSE NUL
        c     == At(p)
        Ends  == At(p + 1) \in Blanks \cup {NUL}
        Done  == Scan(line, p + 1, "blank", <<>>, Append(argv, cur))
        Take(n, b) == Scan(line, p + n, mode, Append(cur, b), argv)
        Err   == [ok |-> FALSE, argv |-> <<>>]
    IN  CASE mode = "blank" ->
               (CASE c = NUL -> [ok |-> TRUE, argv |-> argv]
                  [] c \in Blanks -> Scan(line, p + 1, "blank", <<>>, argv)
                  [] OTHER -> Scan(line, p, "bare", <<>>, argv))
          [] mode = "bare" ->
               (CASE c \in {32, 10, 13, 9, NUL} -> Done
                  [] c = Quote -> Scan(line, p + 1, "quotes", cur, argv)
                  [] c = Apos  -> Scan(line, p + 1, "single", cur, argv)
                  [] OTHER -> Take(1, c))
          [] mode = "quotes" ->
               (CASE c = Slash /\ At(p + 1) = 120 /\ is_hex_digit(At(p + 2))
                        /\ is_hex_digit(At(p + 3)) ->
                        Take(4, hex_digit_to_int(At(p + 2)) * 16 + hex_digit_to_int(At(p + 3)))
                  [] c = Slash /\ At(p + 1) # NUL
                        /\ ~(At(p + 1) = 120 /\ is_hex_digit(At(p + 2))
                               /\ is_hex_digit(At(p + 3))) ->
                        Take(2, Unescaped(At(p + 1)))
                  [] c = Quote -> IF Ends THEN Done ELSE Err
                  [] c = NUL -> Err
                  [] OTHER -> Take(1, c))
          [] mode = "single" ->
               (CASE c = Slash /\ At(p + 1) = Apos -> Take(2, Apos)
                  [] c = Apos -> IF Ends THEN Done ELSE Err
                  [] c = NUL -> Err
                  [] OTHER -> Take(1, c))

sdssplitargs(line) == Scan(CStr(line), 1, "blank", <<>>, <<>>)

=============================================================================
