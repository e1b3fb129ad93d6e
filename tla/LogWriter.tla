----------------------------- MODULE LogWriter -----------------------------
(***************************************************************************)
(* Log_Writer of helper/util/log.cpp: threads write lines to one file; an  *)
(* operator (or logrotate) moves the file away at any time; a writer that  *)
(* finds another inode at the path closes and opens the file again under   *)
(* the write lock.  Inodes are numbers, 0 is "no such file" and NULL.      *)
(***************************************************************************)
EXTENDS Integers, FiniteSets

CONSTANTS
    Thread,
    MaxLines,   \* bound: lines each thread logs
    MaxMoves    \* bound: times the file is moved away

VARIABLES
    fp, m_node,       \* the open file and the inode remembered for it
    path,             \* the inode at m_filelocation
    lines,            \* inode (0: stderr) -> the lines in it, <<thread, n, since>>
    moved,            \* inode -> the number of the move that took it away
    readers, writer,  \* m_lock; writer 0 is nobody
    pc, n, since,     \* per thread: place, lines logged, moves when log began
    moves, up

vars == <<fp, m_node, path, lines, moved, readers, writer, pc, n, since, moves, up>>

Inodes == 0..(MaxMoves + 1)

\* After log_init: the file is open and its inode remembered.
Init ==
    /\ fp = 1 /\ m_node = 1 /\ path = 1
    /\ lines = [i \in Inodes |-> {}]
    /\ moved = [i \in Inodes |-> 0]
    /\ readers = {} /\ writer = 0
    /\ pc = [t \in Thread |-> "idle"]
    /\ n = [t \in Thread |-> 0]
    /\ since = [t \in Thread |-> 0]
    /\ moves = 0
    /\ up = TRUE

Goto(t, where) == pc' = [pc EXCEPT ![t] = where]
Put(t, i) == lines' = [lines EXCEPT ![i] = @ \cup {<<t, n[t], since[t]>>}]
file_node == path

\* log: the line is formatted in the thread's own buffer.
log(t) ==
    /\ up /\ pc[t] = "idle" /\ n[t] < MaxLines
    /\ n' = [n EXCEPT ![t] = @ + 1]
    /\ since' = [since EXCEPT ![t] = moves]
    /\ Goto(t, "open?")
    /\ UNCHANGED <<fp, m_node, path, lines, moved, readers, writer, moves, up>>

\* log reads fp without the lock: while it is closed the line goes to stderr.
logNoFile(t) ==
    /\ up /\ pc[t] = "open?"
    /\ IF fp = 0 THEN Put(t, 0) /\ Goto(t, "idle") ELSE Goto(t, "check") /\ UNCHANGED lines
    /\ UNCHANGED <<fp, m_node, path, moved, readers, writer, n, since, moves, up>>


\* The condition of both checks: another inode, or none remembered.
Stale == m_node # file_node \/ m_node = 0

_write(t) ==
    /\ up /\ pc[t] = "check"
    /\ Goto(t, IF Stale THEN "wlock" ELSE "rlock")
    /\ UNCHANGED <<fp, m_node, path, lines, moved, readers, writer, n, since, moves, up>>

WLock(t) ==
    /\ up /\ pc[t] = "wlock" /\ writer = 0 /\ readers = {}
    /\ writer' = t
    /\ Goto(t, "recheck")
    /\ UNCHANGED <<fp, m_node, path, lines, moved, readers, n, since, moves, up>>

\* The second check, under the write lock, and logclose.
logclose(t) ==
    /\ up /\ pc[t] = "recheck"
    /\ IF Stale
         THEN fp' = 0 /\ m_node' = 0 /\ Goto(t, "fopen") /\ UNCHANGED writer
         ELSE writer' = 0 /\ Goto(t, "rlock") /\ UNCHANGED <<fp, m_node>>
    /\ UNCHANGED <<path, lines, moved, readers, n, since, moves, up>>

\* loginit opens the file in append mode, creating it when it is gone; a
\* failure ends the whole program (exit(0)).
loginit(t) ==
    /\ up /\ pc[t] = "fopen"
    /\ \/ /\ path' = IF path = 0 THEN moves + 1 ELSE path
          /\ fp' = path'
          /\ Goto(t, "node")
          /\ UNCHANGED up
       \/ up' = FALSE /\ UNCHANGED <<path, fp, pc>>
    /\ UNCHANGED <<m_node, lines, moved, readers, writer, n, since, moves>>

\* ... and asks for the inode by name, in a second system call.
loginitNode(t) ==
    /\ up /\ pc[t] = "node"
    /\ m_node' = file_node
    /\ writer' = 0
    /\ Goto(t, "rlock")
    /\ UNCHANGED <<fp, path, lines, moved, readers, n, since, moves, up>>

RLock(t) ==
    /\ up /\ pc[t] = "rlock" /\ writer = 0
    /\ readers' = readers \cup {t}
    /\ Goto(t, "fwrite")
    /\ UNCHANGED <<fp, m_node, path, lines, moved, writer, n, since, moves, up>>

\* fwrite under the read lock: into the file, or (it fails) to stderr.
fwrite(t) ==
    /\ up /\ pc[t] = "fwrite"
    /\ \E i \in {0, fp} : Put(t, i)
    /\ readers' = readers \ {t}
    /\ Goto(t, "idle")
    /\ UNCHANGED <<fp, m_node, path, moved, writer, n, since, moves, up>>

\* External: the file is renamed; those who have it open keep it open.
Move ==
    /\ path # 0 /\ moves < MaxMoves
    /\ moves' = moves + 1
    /\ moved' = [moved EXCEPT ![path] = moves + 1]
    /\ path' = 0
    /\ UNCHANGED <<fp, m_node, lines, readers, writer, pc, n, since, up>>

\* log_close at shutdown, when no thread is logging any more.
log_close ==
    /\ up /\ fp # 0
    /\ \A t \in Thread : pc[t] = "idle"
    /\ fp' = 0 /\ m_node' = 0
    /\ UNCHANGED <<path, lines, moved, readers, writer, pc, n, since, moves, up>>

Step(t) ==
    \/ log(t) \/ logNoFile(t) \/ _write(t) \/ WLock(t) \/ logclose(t)
    \/ loginit(t) \/ loginitNode(t) \/ RLock(t) \/ fwrite(t)

Next == Move \/ log_close \/ \E t \in Thread : Step(t)

Spec == Init /\ [][Next]_vars

-----------------------------------------------------------------------------
\* A line logged after the file was moved away never lands in the moved file
\* (the file it is in was still at the path when log was called), every line
\* whose log returned is in exactly one place, and nobody writes to a closed
\* file.
LinesFollow ==
    /\ \A i \in Inodes \ {0} : \A l \in lines[i] : moved[i] = 0 \/ moved[i] > l[3]
    /\ \A t \in Thread : pc[t] = "fwrite" => fp # 0
    /\ \A t \in Thread : \A k \in 1..n[t] :
         k < n[t] \/ pc[t] = "idle" =>
             Cardinality({i \in Inodes : \E l \in lines[i] : l[1] = t /\ l[2] = k}) = 1
=============================================================================
