--------------------------------- MODULE Sds ---------------------------------
(***************************************************************************)
(* hiredis-0.11.0/sds.c: one dynamic string under any sequence of the      *)
(* operations that change it.  The string is its header and the bytes of   *)
(* its allocation; want is what it should hold by then.  Allocation does   *)
(* not fail, and the addresses that realloc changes are left out.          *)
(***************************************************************************)
EXTENDS Integers, Sequences, FiniteSets, SequencesExt

CONSTANTS Chars,       \* bytes other than NUL, positive integers
          MaxLen,      \* bound: longest string
          MaxArg,      \* bound: longest argument
          MaxPrealloc  \* SDS_MAX_PREALLOC

VARIABLES sds,   \* [len, free, buf]
          want   \* the string

svars == <<sds, want>>

NUL  == 0
Junk == -1        \* a byte nobody wrote
Bytes == Chars \cup {NUL}
Args == UNION {[1..n -> Bytes] : n \in 0..MaxArg}

Resize(b, n) == [i \in 1..n |-> IF i <= Len(b) THEN b[i] ELSE Junk]
Zeros(n)     == [i \in 1..n |-> NUL]

\* memcpy(s + i, t, Len(t)); bytes past the allocation make it longer than the
\* header says.
Put(s, i, t) ==
    [s EXCEPT !.buf = [j \in 1..(IF i + Len(t) > Len(@) THEN i + Len(t) ELSE Len(@)) |->
                          IF j > i /\ j <= i + Len(t) THEN t[j - i]
                          ELSE IF j <= Len(@) THEN @[j] ELSE Junk]]

\* Length n, with the terminator; the bytes behind it count as not written.
SetLen(s, n, avail) ==
    LET t == Put(s, n, <<NUL>>) IN
    [len |-> n, free |-> avail,
     buf |-> [j \in 1..Len(t.buf) |-> IF j <= n + 1 THEN t.buf[j] ELSE Junk]]

sdsnewlen(t) == [len |-> Len(t), free |-> 0, buf |-> t \o <<NUL>>]

sdsMakeRoomFor(s, add) ==
    LET l == s.len + add
        n == IF l < MaxPrealloc THEN 2 * l ELSE l + MaxPrealloc
    IN IF s.free >= add THEN s
       ELSE [s EXCEPT !.free = n - s.len, !.buf = Resize(@, n + 1)]

sdsRemoveFreeSpace(s) == [s EXCEPT !.free = 0, !.buf = Resize(@, s.len + 1)]

\* sdsIncrLen, with the bytes the caller wrote behind the string (n = Len(t)) or
\* to cut n bytes off (t empty, n negative).
sdsIncrLen(s, t, n) == SetLen(Put(s, s.len, t), s.len + n, s.free - n)

sdsgrowzero(s, n) ==
    IF n <= s.len THEN s
    ELSE LET r == sdsMakeRoomFor(s, n - s.len) IN
         SetLen(Put(r, s.len, Zeros(n - s.len + 1)), n, r.len + r.free - n)

\* Mutant: room is made for one byte too few.
sdscatlenShort(s, t) ==
    LET r == sdsMakeRoomFor(s, Len(t) - 1) IN
    SetLen(Put(r, s.len, t), s.len + Len(t), r.free - Len(t))

sdscatlen(s, t) ==
    LET r == sdsMakeRoomFor(s, Len(t)) IN
    SetLen(Put(r, s.len, t), s.len + Len(t), r.free - Len(t))

sdscpylen(s, t) ==
    LET r == IF s.free + s.len < Len(t) THEN sdsMakeRoomFor(s, Len(t) - s.len) ELSE s IN
    SetLen(Put(r, 0, t), Len(t), r.free + r.len - Len(t))

\* One byte or conversion of sdscatfmt: t is what it appends.
CatPiece(s, t) ==
    LET r == IF s.free = 0 THEN sdsMakeRoomFor(s, 1) ELSE s
        q == IF r.free < Len(t) THEN sdsMakeRoomFor(r, Len(t)) ELSE r
    IN [Put(q, s.len, t) EXCEPT !.len = s.len + Len(t), !.free = q.free - Len(t)]

sdscatfmt(s, pieces) == LET r == FoldLeft(CatPiece, s, pieces) IN SetLen(r, r.len, r.free)

sdsclear(s) == SetLen(s, 0, s.free + s.len)

\* strlen
CLen(b) == CHOOSE n \in 0..(Len(b) - 1) : b[n + 1] = NUL /\ \A i \in 1..n : b[i] # NUL

sdsupdatelen(s) == SetLen(s, CLen(s.buf), s.free + s.len - CLen(s.buf))

\* memmove of n bytes from offset i to the front
Keep(s, i, n) == SetLen(Put(s, 0, SubSeq(s.buf, i + 1, i + n)), n, s.free + s.len - n)

\* strchr finds the terminator of cset too: NUL counts as one of its members.
sdstrim(s, cset) ==
    LET in(i) == s.buf[i + 1] \in cset \cup {NUL}
        sp == CHOOSE i \in 0..s.len : (i = s.len \/ ~in(i)) /\ \A j \in 0..(i - 1) : in(j)
        ep == IF s.len = 0 THEN -1
              ELSE CHOOSE i \in 0..(s.len - 1) : (i = 0 \/ ~in(i))
                                                 /\ \A j \in (i + 1)..(s.len - 1) : in(j)
    IN Keep(s, sp, IF sp > ep THEN 0 ELSE ep - sp + 1)

FromEnd(i, len) == IF i >= 0 THEN i ELSE IF len + i < 0 THEN 0 ELSE len + i

sdsrange(s, start, end) ==
    LET b == FromEnd(start, s.len)
        e == FromEnd(end, s.len)
        n == IF b > e \/ b >= s.len THEN 0
             ELSE (IF e >= s.len THEN s.len - 1 ELSE e) - b + 1
    IN IF s.len = 0 THEN s ELSE Keep(s, IF n = 0 THEN 0 ELSE b, n)

\* sdstolower, sdstoupper, sdsmapchars
sdsmapchars(s, m) == [s EXCEPT !.buf = [j \in DOMAIN @ |-> IF j <= s.len THEN m[@[j]] ELSE @[j]]]

-----------------------------------------------------------------------------

SdsInit == \E t \in Args : sds = sdsnewlen(t) /\ want = t

Becomes(s, w) == Len(w) <= MaxLen /\ sds' = s /\ want' = w

\* What sdstrim should leave: nothing of cset at either end.
Middle(w, cset) ==
    LET keep == {i \in DOMAIN w : w[i] \notin cset \cup {NUL}} IN
    IF keep = {} THEN <<>> ELSE SubSeq(w, Min(keep), Max(keep))

\* What sdsrange should leave: the bytes between two places, the last one
\* included.
Between(w, start, end) ==
    SubSeq(w, FromEnd(start, Len(w)) + 1,
           IF FromEnd(end, Len(w)) >= Len(w) THEN Len(w) ELSE FromEnd(end, Len(w)) + 1)

UpToNul(w) == LET z == {i \in DOMAIN w : w[i] = NUL} IN
              IF z = {} THEN w ELSE SubSeq(w, 1, Min(z) - 1)

SdsStep ==
    \/ \E t \in Args :
          \/ Becomes(sdscatlen(sds, t), want \o t)
          \/ Becomes(sdscpylen(sds, t), t)
          \/ Becomes(sdsIncrLen(sdsMakeRoomFor(sds, Len(t)), t, Len(t)), want \o t)
          \/ \E c \in Chars : Becomes(sdscatfmt(sds, <<t, <<c>>>>), want \o t \o <<c>>)
    \/ \E n \in 0..MaxLen :
          \/ n <= sds.len /\ Becomes(sdsIncrLen(sds, <<>>, -n), SubSeq(want, 1, Len(want) - n))
          \/ n > sds.len /\ Becomes(sdsgrowzero(sds, n), want \o Zeros(n - Len(want)))
          \/ Becomes(sdsMakeRoomFor(sds, n), want)
    \/ Becomes(sdsRemoveFreeSpace(sds), want)
    \/ Becomes(sdsnewlen(SubSeq(sds.buf, 1, sds.len)), want)    \* sdsdup
    \/ Becomes(sdsclear(sds), <<>>)
    \/ Becomes(sdsupdatelen(sds), UpToNul(want))
    \/ \E c \in SUBSET Chars : Becomes(sdstrim(sds, c), Middle(want, c))
    \/ \E i, j \in (-MaxLen - 1)..MaxLen : Becomes(sdsrange(sds, i, j), Between(want, i, j))
    \/ \E m \in [Bytes -> Bytes] : Becomes(sdsmapchars(sds, m), [i \in DOMAIN want |-> m[want[i]]])

-----------------------------------------------------------------------------
(* Properties *)

\* Through any sequence of operations the header describes the allocation, no
\* operation has written past it, the string is terminated, and it holds
\* exactly the bytes that it should.
SdsSound ==
    /\ sds.free >= 0
    /\ Len(sds.buf) = sds.len + sds.free + 1
    /\ sds.buf[sds.len + 1] = NUL
    /\ SubSeq(sds.buf, 1, sds.len) = want
=============================================================================
