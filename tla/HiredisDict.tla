----------------------------- MODULE HiredisDict -----------------------------
(***************************************************************************)
(* hiredis-0.11.0/dict.c: the chained hash table that async.c keeps the    *)
(* callbacks of channels and patterns in.  A bucket is the sequence of its *)
(* entries, newest first.  Allocation does not fail.                       *)
(***************************************************************************)
EXTENDS Integers, Sequences, FiniteSets, SequencesExt

CONSTANTS Key, Val,
          MaxHash,      \* bound: hash values are 0..MaxHash - 1
          InitialSize   \* DICT_HT_INITIAL_SIZE

VARIABLES hash,   \* type->hashFunction, any function of the key
          table,  \* ht->table: a function on 0..size - 1
          used,   \* ht->used
          live,   \* values duplicated and not destroyed
          iter,   \* the iterator
          todo    \* keys the iterator has still to return

dvars == <<hash, table, used, live, iter, todo>>

NoIter == [on |-> FALSE, index |-> -1, entry |-> <<>>, next |-> <<>>]

\* _dictReset
Empty == <<>>

dictInit ==
    /\ hash \in [Key -> 0..(MaxHash - 1)]
    /\ table = Empty /\ used = 0 /\ live = 0
    /\ iter = NoIter /\ todo = {}

Slots(t)    == DOMAIN t
Size(t)     == Cardinality(DOMAIN t)
Entries(t)  == FlattenSeq([i \in 1..Size(t) |-> t[i - 1]])
Bucket(k, n) == hash[k] % n

\* dictFind: the first entry of the key's bucket that compares equal.
At(t, k)    == {i \in DOMAIN t[Bucket(k, Size(t))] : t[Bucket(k, Size(t))][i].key = k}
dictFind(t, k) == Size(t) > 0 /\ At(t, k) # {}

\* _dictNextPower
RECURSIVE NextPower(_, _)
NextPower(i, size) == IF i >= size THEN i ELSE NextPower(2 * i, size)

\* dictExpand: every entry is pushed on the front of its new bucket.
dictExpand(t, size) ==
    LET n == NextPower(InitialSize, size) IN
    [h \in 0..(n - 1) |->
        Reverse(SelectSeq(Entries(t), LAMBDA e : Bucket(e.key, n) = h))]

\* _dictExpandIfNeeded
ExpandIfNeeded(t) ==
    IF Size(t) = 0 THEN dictExpand(t, InitialSize)
    ELSE IF used = Size(t) THEN dictExpand(t, 2 * Size(t))
    ELSE t

\* The contract of the iterator: only the entry it returned may go meanwhile.
Quiet == ~iter.on

\* dictAdd; a key already present is refused, after the table may have grown.
dictAdd(k, v) ==
    LET t == ExpandIfNeeded(table)
        b == Bucket(k, Size(t))
    IN
    /\ Quiet
    /\ IF dictFind(t, k)
       THEN table' = t /\ UNCHANGED <<used, live>>
       ELSE /\ table' = [t EXCEPT ![b] = <<[key |-> k, val |-> v]>> \o @]
            /\ used' = used + 1
            /\ live' = live + 1
    /\ UNCHANGED <<hash, iter, todo>>

SetVal(t, k, v) ==
    [t EXCEPT ![Bucket(k, Size(t))] =
        [i \in DOMAIN @ |-> IF i = Min(At(t, k)) THEN [@[i] EXCEPT !.val = v] ELSE @[i]]]

\* dictReplace of a key that dictAdd refused: set the new value, then destroy
\* the old one.
dictReplace(k, v) ==
    LET t == ExpandIfNeeded(table) IN
    /\ Quiet
    /\ dictFind(t, k)
    /\ table' = SetVal(t, k, v)
    /\ live' = live + 1 - 1
    /\ UNCHANGED <<hash, used, iter, todo>>

dictDelete(k) ==
    /\ dictFind(table, k)
    /\ Quiet \/ (iter.entry = <<k>>)
    /\ table' = [table EXCEPT ![Bucket(k, Size(table))] = RemoveAt(@, Min(At(table, k)))]
    /\ used' = used - 1
    /\ live' = live - 1
    /\ UNCHANGED <<hash, iter, todo>>

\* _dictClear, by dictRelease: buckets are emptied while used > 0.
dictRelease ==
    /\ Quiet
    /\ table' = Empty
    /\ used' = 0
    /\ live' = live - Len(Entries(table))
    /\ UNCHANGED <<hash, iter, todo>>

dictGetIterator ==
    /\ Quiet
    /\ iter' = [NoIter EXCEPT !.on = TRUE]
    /\ todo' = {e.key : e \in Range(Entries(table))}
    /\ UNCHANGED <<hash, table, used, live>>


\* nextEntry, saved before the entry at place i of a bucket is returned.
Successor(c, i) == IF i < Len(c) THEN <<c[i + 1].key>> ELSE <<>>

\* dictNext: the saved next entry, or the head of the next bucket in use.
dictNext ==
    LET later == {i \in Slots(table) : i > iter.index /\ table[i] # <<>>}
        b     == IF iter.next # <<>> THEN iter.index ELSE Min(later)
        i     == IF iter.next # <<>> THEN Min(At(table, iter.next[1])) ELSE 1
    IN
    /\ iter.on
    /\ IF iter.next = <<>> /\ later = {}
       THEN iter' = NoIter /\ UNCHANGED todo
       ELSE /\ iter' = [on |-> TRUE, index |-> b, entry |-> <<table[b][i].key>>,
                        next |-> Successor(table[b], i)]
            /\ todo' = todo \ {table[b][i].key}
    /\ UNCHANGED <<hash, table, used, live>>

dictStep ==
    \/ \E k \in Key, v \in Val : dictAdd(k, v) \/ dictReplace(k, v)
    \/ \E k \in Key : dictDelete(k)
    \/ dictRelease \/ dictGetIterator \/ dictNext

-----------------------------------------------------------------------------
(* Properties *)

\* The map a lookup sees.
Contents == [k \in {x \in Key : dictFind(table, x)} |->
                LET b == table[Bucket(k, Size(table))] IN b[Min(At(table, k))].val]

Abstract == INSTANCE Dictionary WITH map <- Contents, iterating <- iter.on


\* ht->used counts the entries, every one of them can be found, and no value
\* is leaked or destroyed twice: dictReplace, dictDelete and dictRelease destroy
\* exactly what dictAdd and dictReplace duplicated.
TableSound ==
    /\ used = Len(Entries(table))
    /\ live = used
    /\ used <= Size(table)
    /\ \A e \in Range(Entries(table)) : Contents[e.key] = e.val
=============================================================================
