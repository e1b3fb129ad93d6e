----------------------------- MODULE RedisFormat -----------------------------
(***************************************************************************)
(* hiredis: redisvFormatCommand and redisFormatSdsCommandArgv, which turn  *)
(* a printf-like format, or a list of arguments, into the bytes sent.      *)
(*                                                                         *)
(* Bytes are strings of one character, CR and LF.  A format is a sequence  *)
(* of items: a byte, <<"byte", b>>, or a conversion, <<k>> with k one of   *)
(* "s", "b", "%", "d" (the integer conversions) and "invalid".  Values are *)
(* byte sequences, or numbers for "d".                                     *)
(***************************************************************************)
EXTENDS Integers, Sequences, SequencesExt

CR == "CR"
LF == "LF"
Newline == <<CR, LF>>

Digits == <<"0", "1", "2", "3", "4", "5", "6", "7", "8", "9">>

\* The digits sprintf writes for a number.
Decimal[n \in Nat] ==
    IF n < 10 THEN <<Digits[n + 1]>>
    ELSE Decimal[n \div 10] \o <<Digits[(n % 10) + 1]>>

\* Four digits are taken off at a time.
countDigits[v \in Nat] ==
    IF v < 10 THEN 1
    ELSE IF v < 100 THEN 2
    ELSE IF v < 1000 THEN 3
    ELSE IF v < 10000 THEN 4
    ELSE 4 + countDigits[v \div 10000]

\* Mutant: the CR LF after the string is not counted.
bulklenShort(len) == 1 + countDigits[len] + 2 + len

bulklen(len) == 1 + countDigits[len] + 2 + len + 2

\* redisFormatSdsCommandArgv: the size computed before anything is written.
ArgvLength(argv) ==
    FoldLeft(LAMBDA n, arg : n + bulklen(Len(arg)), 1 + countDigits[Len(argv)] + 2, argv)

\* ... and what is written.
ArgvBytes(argv) ==
    FoldLeft(LAMBDA cmd, arg :
                cmd \o <<"$">> \o Decimal[Len(arg)] \o Newline \o arg \o Newline,
             <<"*">> \o Decimal[Len(argv)] \o Newline,
             argv)

\* sprintf or memcpy to cmd + pos, inside the buffer.
Poke(w, bytes) ==
    [pos |-> w.pos + Len(bytes),
     cmd |-> [i \in 1..Len(w.cmd) |-> IF i - w.pos \in 1..Len(bytes) THEN bytes[i - w.pos]
                                                                  ELSE w.cmd[i]]]

\* redisFormatCommandArgv writes the same at positions of a buffer of that
\* size, with a NUL after it.
redisFormatCommandArgv(argv) ==
    LET buffer == [pos |-> 0, cmd |-> [i \in 1..(ArgvLength(argv) + 1) |-> "unset"]]
        written == FoldLeft(LAMBDA w, arg : Poke(Poke(w, <<"$">> \o Decimal[Len(arg)] \o Newline),
                                                 arg \o Newline),
                            Poke(buffer, <<"*">> \o Decimal[Len(argv)] \o Newline),
                            argv)
    IN  [pos |-> written.pos, cmd |-> Poke(written, <<"NUL">>).cmd]

-----------------------------------------------------------------------------
(* redisvFormatCommand *)

\* Its local variables: the arguments so far, the current one, whether it was
\* touched, the values still to consume and the return code.
FormatStart(vals) ==
    [argv |-> <<>>, curarg |-> <<>>, touched |-> FALSE, vals |-> vals, ok |-> TRUE]

\* The current argument goes into argv.
PushArg(f) ==
    IF f.touched
    THEN [f EXCEPT !.argv = Append(@, f.curarg), !.curarg = <<>>, !.touched = FALSE]
    ELSE f

Touch(f, bytes) == [f EXCEPT !.curarg = @ \o bytes, !.touched = TRUE]

\* Mutant: an empty value does not touch the argument.
ConvertNonEmpty(f, k) ==
    CASE k = "%" -> Touch(f, <<"%">>)
      [] k \in {"s", "b"} ->
            IF Head(f.vals) = <<>> THEN [f EXCEPT !.vals = Tail(@)]
            ELSE Touch([f EXCEPT !.vals = Tail(@)], Head(f.vals))
      [] k = "d" -> Touch([f EXCEPT !.vals = Tail(@)], Decimal[Head(f.vals)])
      [] OTHER -> [f EXCEPT !.ok = FALSE]

\* A conversion consumes its value, touches the argument even with an empty
\* one, and ends the call when it is none that is known.
Convert(f, k) ==
    CASE k = "%" -> Touch(f, <<"%">>)
      [] k \in {"s", "b"} -> Touch([f EXCEPT !.vals = Tail(@)], Head(f.vals))
      [] k = "d" -> Touch([f EXCEPT !.vals = Tail(@)], Decimal[Head(f.vals)])
      [] OTHER -> [f EXCEPT !.ok = FALSE]

\* One turn of the loop over the format.
FormatItem(f, item) ==
    CASE ~f.ok -> f
      [] f.ok /\ item = <<"byte", " ">> -> PushArg(f)
      [] f.ok /\ Head(item) = "byte" /\ item[2] # " " -> Touch(f, <<item[2]>>)
      [] f.ok /\ Head(item) # "byte" -> Convert(f, Head(item))

\* The arguments of the command; after a format error they are freed.
redisvFormatCommand(format, vals) ==
    LET f == FoldLeft(FormatItem, FormatStart(vals), format) IN
    IF f.ok THEN PushArg(f) ELSE [f EXCEPT !.argv = <<>>, !.curarg = <<>>]

\* The length of the command, or -1 for any error.
redisFormatCommand(format, vals) ==
    LET f == redisvFormatCommand(format, vals) IN
    IF f.ok THEN ArgvLength(f.argv) ELSE -1

=============================================================================
