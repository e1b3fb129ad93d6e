----------------------------- MODULE Dictionary -----------------------------
(***************************************************************************)
(* What a table of callbacks promises (dict.h): a finite map, and an       *)
(* iteration that returns every entry present when it began exactly once,  *)
(* provided that only the entry just returned is deleted meanwhile.        *)
(***************************************************************************)
CONSTANTS Key, Val

VARIABLES map,     \* a function on the keys present
          todo,    \* keys the iteration has still to return
          iterating

Init == map = <<>> /\ todo = {} /\ iterating = FALSE

Without(f, k) == [x \in DOMAIN f \ {k} |-> f[x]]
With(f, k, v) == [x \in DOMAIN f \cup {k} |-> IF x = k THEN v ELSE f[x]]

Add(k, v)     == k \notin DOMAIN map /\ map' = With(map, k, v)
Replace(k, v) == map' = With(map, k, v)
Delete(k)     == k \in DOMAIN map /\ k \notin todo /\ map' = Without(map, k)

Update == /\ \/ ~iterating /\ \E k \in Key, v \in Val : Add(k, v) \/ Replace(k, v)
             \/ \E k \in Key : Delete(k)
             \/ ~iterating /\ map' = <<>>
          /\ UNCHANGED <<todo, iterating>>

Begin == ~iterating /\ iterating' = TRUE /\ todo' = DOMAIN map /\ UNCHANGED map
Step  == iterating /\ (\E k \in todo : todo' = todo \ {k}) /\ UNCHANGED <<map, iterating>>
Stop  == iterating /\ todo = {} /\ iterating' = FALSE /\ UNCHANGED <<map, todo>>

Next == Update \/ Begin \/ Step \/ Stop

Spec == Init /\ [][Next]_<<map, todo, iterating>>
=============================================================================
