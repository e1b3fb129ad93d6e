------------------------------- MODULE Base64 -------------------------------
(***************************************************************************)
(* The two base64 codecs: util/base64.cc (url alphabet, whole groups) and  *)
(* helper/util/base64.cpp (standard alphabet, character by character).     *)
(* Bytes and characters are their codes.                                   *)
(***************************************************************************)
EXTENDS Integers, Sequences, SequencesExt

Pad == 61
XX  == 127       \* no letter of the alphabet
Url == <<45, 95>>      \* '-' and '_', the letters of 62 and 63
Std == <<43, 47>>      \* '+' and '/'

Failed     == [ok |-> FALSE, out |-> <<>>]
Succeeded(out) == [ok |-> TRUE, out |-> out]

\* The letter of a 6-bit value; last gives the letters of 62 and 63.
Letter(last, v) ==
    CASE v < 26 -> 65 + v
      [] v \in 26..51 -> 97 + (v - 26)
      [] v \in 52..61 -> 48 + (v - 52)
      [] OTHER -> last[v - 61]

base64_char(v)  == Letter(Url, v)
base64_table(v) == Letter(Std, v)

\* The value of a letter, XX for any other byte: one table of 256 entries.
Value(last, c) ==
    CASE c \in 65..90  -> c - 65
      [] c \in 97..122 -> 26 + (c - 97)
      [] c \in 48..57  -> 52 + (c - 48)
      [] c = last[1] -> 62
      [] c = last[2] -> 63
      [] OTHER -> XX

CHAR64(c) == Value(Url, c)
base64_reverse_table(c) == Value(Std, c)

\* The 6-bit pieces that two neighbouring bytes are cut into.
High(a)      == a \div 4
Mid(a, b)    == (a % 4) * 16 + b \div 16
Low(b, c)    == (b % 16) * 4 + c \div 64
Rest(c)      == c % 64

-----------------------------------------------------------------------------
(* util/base64.cc *)

\* g is a group of one, two or three bytes.
base64_encode_group(g) ==
    CASE Len(g) = 3 -> <<base64_char(High(g[1])), base64_char(Mid(g[1], g[2])),
                         base64_char(Low(g[2], g[3])), base64_char(Rest(g[3]))>>
      [] Len(g) = 2 -> <<base64_char(High(g[1])), base64_char(Mid(g[1], g[2])),
                         base64_char(Low(g[2], 0)), Pad>>
      [] Len(g) = 1 -> <<base64_char(High(g[1])), base64_char(Mid(g[1], 0)), Pad, Pad>>

Groups(s, n) ==
    [i \in 1..((Len(s) + n - 1) \div n) |->
        SubSeq(s, n * (i - 1) + 1, IF n * i < Len(s) THEN n * i ELSE Len(s))]

base64_encode(input, output_size) ==
    IF output_size < ((Len(input) + 2) \div 3) * 4 THEN Failed
    ELSE Succeeded(FlattenSeq([i \in DOMAIN Groups(input, 3) |->
                                 base64_encode_group(Groups(input, 3)[i])]))

\* The three bytes of four letters, cut to unsigned char.
base64_decode_group(g) ==
    LET v == [i \in 1..4 |-> CHAR64(g[i])]
        a == ((v[1] * 4) % 256) + v[2] \div 16
        b == ((v[2] * 16) % 256) + v[3] \div 4
        c == ((v[3] * 64) % 256) + v[4]
    IN  CASE g[3] = Pad /\ g[4] = Pad -> <<a>>
          [] g[3] # Pad /\ g[4] = Pad -> <<a, b>>
          [] OTHER -> <<a, b, c>>


BadData(g) ==
    LET letters == CASE g[3] = Pad /\ g[4] = Pad -> 1..2
                     [] g[3] # Pad /\ g[4] = Pad -> 1..3
                     [] OTHER -> 1..4
    IN  \E i \in letters : CHAR64(g[i]) = XX

\* The loop fails on the first group that has no room or is bad data.
base64_decode(input, output_size) ==
    IF Len(input) % 4 # 0 THEN Failed
    ELSE FoldLeft(LAMBDA acc, g :
                     IF ~acc.ok \/ Len(acc.out) >= output_size \/ BadData(g) THEN Failed
                     ELSE Succeeded(acc.out \o base64_decode_group(g)),
                  Succeeded(<<>>), Groups(input, 4))

\* The std::string overloads: the output is sized beforehand, and stays that
\* long whatever result_length says; what was not written is NUL.
base64_encode_string(input) ==
    IF input = <<>> THEN Succeeded(<<>>)
    ELSE base64_encode(input, ((Len(input) + 2) \div 3) * 4)

base64_decode_string(input) ==
    LET size == (Len(input) * 3) \div 4
        r    == base64_decode(input, size)
    IN  CASE input = <<>> -> Succeeded(<<>>)
          [] input # <<>> /\ r.ok ->
                 Succeeded([i \in 1..size |-> IF i <= Len(r.out) THEN r.out[i] ELSE 0])
          [] OTHER -> Failed

-----------------------------------------------------------------------------
(* helper/util/base64.cpp *)

\* The tail of one or two bytes that the loop over whole triples leaves.
Base64Tail(t) ==
    CASE t = <<>> -> <<>>
      [] Len(t) = 1 -> <<base64_table(High(t[1])), base64_table(Mid(t[1], 0)), Pad, Pad>>
      [] Len(t) = 2 -> <<base64_table(High(t[1])), base64_table(Mid(t[1], t[2])),
                         base64_table(Low(t[2], 0)), Pad>>

Base64_encode(input, outlen) ==
    LET n    == Len(input) \div 3
        body == [i \in 1..(4 * n) |->
                    LET g == SubSeq(input, 3 * ((i - 1) \div 4) + 1, 3 * ((i - 1) \div 4) + 3)
                    IN  base64_table(CASE i % 4 = 1 -> High(g[1])
                                       [] i % 4 = 2 -> Mid(g[1], g[2])
                                       [] i % 4 = 3 -> Low(g[2], g[3])
                                       [] OTHER -> Rest(g[3]))]
    IN  IF outlen < ((Len(input) + 2) \div 3) * 4 THEN Failed
        ELSE Succeeded(body \o Base64Tail(SubSeq(input, 3 * n + 1, Len(input))))

\* One character: i letters read, whole bytes in out, bits is the byte that is
\* being put together.  Padding is skipped wherever it stands, except after a
\* lone letter of a group that other letters follow.
Base64DecodeChar(st, input, k) ==
    LET c == input[k]
        v == base64_reverse_table(c)
    IN  CASE ~st.ok -> st
          [] st.ok /\ c = Pad ->
                 IF k < Len(input) /\ input[k + 1] # Pad /\ st.i % 4 = 1
                 THEN [st EXCEPT !.ok = FALSE] ELSE st
          [] st.ok /\ c # Pad /\ v = XX -> [st EXCEPT !.ok = FALSE]
          [] OTHER ->
                 CASE st.i % 4 = 0 -> [st EXCEPT !.i = @ + 1, !.bits = v * 4]
                   [] st.i % 4 = 1 -> [st EXCEPT !.i = @ + 1, !.bits = (v % 16) * 16,
                                                 !.out = Append(@, st.bits + v \div 16)]
                   [] st.i % 4 = 2 -> [st EXCEPT !.i = @ + 1, !.bits = (v % 4) * 64,
                                                 !.out = Append(@, st.bits + v \div 4)]
                   [] st.i % 4 = 3 -> [st EXCEPT !.i = @ + 1, !.out = Append(@, st.bits + v)]

\* An input that ends in padding after a lone letter fails at the end.  ch is
\* then the pad itself: any other last character was replaced by its value,
\* and 61, the value of '9', is the pad as well.
Base64_decode(input, outlen) ==
    LET st == FoldLeft(LAMBDA s, k : Base64DecodeChar(s, input, k),
                       [ok |-> TRUE, i |-> 0, bits |-> 0, out |-> <<>>],
                       [k \in 1..Len(input) |-> k])
        ch == IF input = <<>> THEN 0
              ELSE IF Last(input) = Pad THEN Pad
              ELSE base64_reverse_table(input[Len(input)])
    IN  IF outlen < (Len(input) * 3) \div 4 \/ ~st.ok \/ (ch = Pad /\ st.i % 4 = 1)
        THEN Failed ELSE Succeeded(st.out)

=============================================================================
