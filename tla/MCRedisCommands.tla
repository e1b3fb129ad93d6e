--------------------------- MODULE MCRedisCommands ---------------------------
(***************************************************************************)
(* Small instances of RedisCommands for TLC.                               *)
(***************************************************************************)
EXTENDS RedisCommands, TLC

CONSTANTS b1, b2, k1, k2

MCSymmetry == Permutations({b1, b2}) \cup Permutations({k1, k2})

=============================================================================
