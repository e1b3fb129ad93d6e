------------------------------- MODULE MCHost ------------------------------
(***************************************************************************)
(* The utilities that share kernel objects and files between processes or  *)
(* threads: semaphore, shared memory, mapped file, file copy, the two      *)
(* loggers, bounded buffer and socket.  They do not interact: "part" says  *)
(* which one a behaviour runs, and the variables of the others keep their  *)
(* first value.  Variables with the same name (pc, req, idZero) are shared *)
(* between the parts.                                                      *)
(***************************************************************************)
EXTENDS BoundedBuffer, FiniteSets

CONSTANTS Process, Thread, Sizes, Tries, Versions, Ips, SrcLen, BufLen,
          MaxLines, MaxMoves, RotateSize, LineLen, MaxSec, MaxLogged,
          DataLen, SockBuf, Messages

VARIABLES part, pc, req, idZero,
    sem, undo,
    seg, header, body, count, create_,
    file, create, torn,
    tmp, dst, call, rpos, have, left, ret,
    fp, m_node, path, lines, moved, readers, writer, n, since, moves, up,
    cur, rotated, open, level_, w_curr, sec, logged, twice, fault,
    descriptors, conn, p, outbox, sender, stream, recv_buf, returned, failed

Sem == INSTANCE SemOP
Shm == INSTANCE ShmOP
Map == INSTANCE MMapOP
Fil == INSTANCE FileUtil
Wri == INSTANCE LogWriter
Log == INSTANCE Logger
Soc == INSTANCE SocketUtil

semVars == <<sem, undo>>
shmVars == <<seg, header, body, count, create_>>
mapVars == <<file, create, torn>>
filVars == <<tmp, dst, call, rpos, have, left, ret>>
wriVars == <<fp, m_node, path, lines, moved, readers, writer, n, since, moves, up>>
logVars == <<cur, rotated, open, level_, w_curr, sec, logged, twice, fault>>
socVars == <<descriptors, conn, p, outbox, sender, stream, recv_buf, returned, failed>>
hostAll == <<part, pc, req, idZero, semVars, shmVars, mapVars, filVars, wriVars, logVars,
             socVars, vars>>

NoSem == sem = 0 /\ undo = 0
NoShm == seg = 0 /\ header = 0 /\ body = 0 /\ count = 0 /\ create_ = 0
NoMap == file = 0 /\ create = 0 /\ torn = 0
NoFil == tmp = 0 /\ dst = 0 /\ call = 0 /\ rpos = 0 /\ have = 0 /\ left = 0 /\ ret = 0
NoWri ==
    /\ fp = 0 /\ m_node = 0 /\ path = 0 /\ lines = 0 /\ moved = 0 /\ readers = 0
    /\ writer = 0 /\ n = 0 /\ since = 0 /\ moves = 0 /\ up = 0
NoLog ==
    /\ cur = 0 /\ rotated = 0 /\ open = 0 /\ level_ = 0 /\ w_curr = 0 /\ sec = 0 /\ logged = 0
    /\ twice = 0 /\ fault = 0
NoHost == NoSem /\ NoShm /\ NoMap
NoFiles == NoFil /\ NoLog

\* The bounded buffer and the socket before their first step.
Idle == Init /\ Soc!Init

HostInit ==
    \/ part = "sem" /\ Sem!Init /\ req = 0 /\ NoShm /\ NoMap /\ NoFiles /\ NoWri /\ Idle
    \/ part = "shm" /\ Shm!Init /\ NoSem /\ NoMap /\ NoFiles /\ NoWri /\ Idle
    \/ part = "map" /\ Map!Init /\ idZero = 0 /\ NoSem /\ NoShm /\ NoFiles /\ NoWri /\ Idle
    \/ part = "file" /\ Fil!Init /\ req = 0 /\ idZero = 0 /\ NoHost /\ NoLog /\ NoWri /\ Idle
    \/ part = "logger" /\ Log!Init /\ req = 0 /\ idZero = 0 /\ NoHost /\ NoFil /\ NoWri /\ Idle
    \/ part = "writer" /\ Wri!Init /\ req = 0 /\ idZero = 0 /\ NoHost /\ NoFiles /\ Idle
    \/ part \in {"buffer", "socket"} /\ Idle /\ pc = 0 /\ req = 0 /\ idZero = 0 /\ NoHost /\ NoFiles /\ NoWri

hostVars == <<req, idZero, semVars, shmVars, mapVars>>
fileVars == <<filVars, logVars>>
idle     == <<socVars, vars>>

HostNext ==
    /\ UNCHANGED part
    /\ \/ part = "sem" /\ Sem!Next /\ UNCHANGED <<req, shmVars, mapVars, fileVars, wriVars, idle>>
       \/ part = "shm" /\ Shm!Next /\ UNCHANGED <<semVars, mapVars, fileVars, wriVars, idle>>
       \/ part = "map" /\ Map!Next /\ UNCHANGED <<idZero, semVars, shmVars, fileVars, wriVars, idle>>
       \/ part = "file" /\ Fil!Next /\ UNCHANGED <<hostVars, logVars, wriVars, idle>>
       \/ part = "logger" /\ Log!Next /\ UNCHANGED <<hostVars, filVars, wriVars, idle>>
       \/ part = "writer" /\ Wri!Next /\ UNCHANGED <<hostVars, fileVars, idle>>
       \/ part = "buffer" /\ Next /\ UNCHANGED <<pc, hostVars, fileVars, wriVars, socVars>>
       \/ part = "socket" /\ Soc!Next /\ UNCHANGED <<pc, hostVars, fileVars, wriVars, vars>>

HostSpec == HostInit /\ [][HostNext]_hostAll

-----------------------------------------------------------------------------
\* SemOP: at most one process is between Lock and UnLock, whoever created the
\* semaphore and whoever died inside.
OneInside == part = "sem" => Sem!IInv


\* ShmOP never clears memory that somebody uses, and CopyFile replaces its
\* destination by nothing but the whole source, wherever either of them dies.
NothingTorn == [][/\ part = "shm" => body \subseteq body'
                  /\ part = "file" /\ call' = "copy" /\ dst' # dst => dst' = SrcLen]_hostAll


=============================================================================
