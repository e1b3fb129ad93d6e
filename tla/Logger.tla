------------------------------- MODULE Logger ------------------------------
(***************************************************************************)
(* Logger of util/log.cpp writing to a file that it rotates itself.  logv  *)
(* works under the mutex (threads) or in the only thread, so a call is one *)
(* step up to the rotation and rotate is three.  A line is its number; all *)
(* have length LineLen.                                                    *)
(***************************************************************************)
EXTENDS Integers, FiniteSets

CONSTANTS
    RotateSize,  \* rotate_size_; 0 never rotates
    LineLen,     \* bytes of a line
    MaxSec,      \* bound: seconds that pass
    MaxLogged    \* bound: lines logged

VARIABLES
    cur,      \* lines in the file at filename, or Gone after its rename
    rotated,  \* second -> lines of the file renamed in that second
    open,     \* fp is an open file
    level_,   \* the most detailed level that is written
    w_curr, sec, logged, pc,
    twice,    \* two rotations met in one second
    fault     \* a write through a closed or NULL fp

vars == <<cur, rotated, open, level_, w_curr, sec, logged, pc, twice, fault>>

Gone == {0}
Seconds == 0..MaxSec

\* LEVEL_NONE, LEVEL_FATAL and LEVEL_DEBUG stand for the seven.
Levels == {-1, 0, 4}

Init ==
    /\ cur = Gone /\ rotated = [s \in Seconds |-> {}]
    /\ open = FALSE /\ level_ = 4 /\ w_curr = 0 /\ sec = 0 /\ logged = 0
    /\ pc = "start" /\ twice = FALSE /\ fault = FALSE

Lines(file) == file \ Gone

\* Logger::open appends and takes the size of what is there for w_curr; a
\* failure is reported (-1) and the program stops here.
Open ==
    /\ pc = "start"
    /\ cur' = Lines(cur)
    /\ open' = TRUE
    /\ w_curr' = LineLen * Cardinality(cur')
    /\ pc' = "run"
    /\ UNCHANGED <<rotated, level_, sec, logged, twice, fault>>

\* logv: nothing for a level that is too detailed; else fwrite, fflush, the counters, and the decision to rotate.
logv(level) ==
    /\ pc = "run" /\ logged < MaxLogged /\ ~fault /\ level <= level_
    /\ IF open
         THEN /\ logged' = logged + 1
              /\ cur' = cur \cup {logged'}
              /\ w_curr' = w_curr + LineLen
              /\ pc' = IF RotateSize > 0 /\ w_curr' > RotateSize THEN "rename" ELSE "run"
              /\ open' = (pc' = "run")
              /\ UNCHANGED fault
         ELSE fault' = TRUE /\ UNCHANGED <<logged, cur, w_curr, pc, open>>
    /\ UNCHANGED <<rotated, sec, twice, level_>>

\* trace, debug, ..., fatal and log_write: logv at that level.
log_write == \E level \in Levels \ {-1} : logv(level)

\* set_log_level by number, by name (an unknown one means debug) or by open.
set_log_level ==
    /\ pc = "run"
    /\ level_' \in Levels
    /\ UNCHANGED <<cur, rotated, open, w_curr, sec, logged, pc, twice, fault>>

\* rotate, after fclose: rename to a name with the current second in it, which
\* replaces a file of that name.  When it fails fp stays closed.
rotate ==
    /\ pc = "rename"
    /\ \/ /\ rotated' = [rotated EXCEPT ![sec] = cur]
          /\ twice' = (twice \/ rotated[sec] # {})
          /\ cur' = Gone
          /\ pc' = "fopen"
       \/ pc' = "run" /\ UNCHANGED <<rotated, twice, cur>>
    /\ UNCHANGED <<open, level_, w_curr, sec, logged, fault>>

\* ... and opens the file anew; fp is NULL when that fails.
rotateOpen ==
    /\ pc = "fopen"
    /\ \/ open' = TRUE /\ cur' = {} /\ w_curr' = 0
       \/ UNCHANGED <<open, cur, w_curr>>
    /\ pc' = "run"
    /\ UNCHANGED <<rotated, level_, sec, logged, twice, fault>>

Tick ==
    /\ sec < MaxSec
    /\ sec' = sec + 1
    /\ UNCHANGED <<cur, rotated, open, level_, w_curr, logged, pc, twice, fault>>

\* close, or the process dies, and a new process opens the log again.
Restart ==
    /\ pc # "start"
    /\ pc' = "start"
    /\ open' = FALSE
    /\ fault' = FALSE
    /\ level_' = 4
    /\ UNCHANGED <<cur, rotated, w_curr, sec, logged, twice>>

Next == Open \/ log_write \/ set_log_level \/ rotate \/ rotateOpen \/ Tick \/ Restart

Spec == Init /\ [][Next]_vars

-----------------------------------------------------------------------------
=============================================================================
