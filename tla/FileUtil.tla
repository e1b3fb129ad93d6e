------------------------------ MODULE FileUtil -----------------------------
(***************************************************************************)
(* CopyFile and FilePutContent of util/file_util.cc, with the Readn and    *)
(* Writen loops under them, as one process runs them over and over.  A     *)
(* file is the number of bytes of the source it holds, from the start;     *)
(* read and write move any part of what was asked, are interrupted, or     *)
(* fail; the process may die between any two calls.                        *)
(***************************************************************************)
EXTENDS Integers

CONSTANTS
    SrcLen,   \* length of the source (and of FilePutContent's buffer)
    BufLen    \* 4096 in the code: CopyFile's buffer

VARIABLES
    tmp, dst,    \* the two files: None, Old (what was there), or a length
    call, pc,    \* the running call, and where it is
    rpos, have,  \* source bytes read; bytes the current buffer holds
    left,        \* bytes the current Writen has still to write
    ret          \* what the last call returned

vars == <<tmp, dst, call, pc, rpos, have, left, ret>>

None == -1
Old == -2

Init ==
    /\ tmp = None /\ dst \in {None, Old}
    /\ call = "copy" /\ pc = "idle"
    /\ rpos = 0 /\ have = 0 /\ left = 0
    /\ ret = "none"

Return(v) == pc' = "idle" /\ ret' = v

\* The time of the source is read and both files are opened: any may fail.
CopyFile ==
    /\ pc = "idle"
    /\ call' = "copy"
    /\ \/ tmp' = 0 /\ pc' = "read" /\ rpos' = 0 /\ have' = 0 /\ ret' = "running"
       \/ Return("false") /\ UNCHANGED <<tmp, rpos, have>>
    /\ UNCHANGED <<dst, left>>

\* FilePutContent truncates the destination itself and writes it in one Writen.
FilePutContent ==
    /\ pc = "idle"
    /\ call' = "put"
    /\ \/ dst' = 0 /\ left' = SrcLen /\ pc' = "write" /\ ret' = "running"
       \/ Return("false") /\ UNCHANGED <<dst, left>>
    /\ UNCHANGED <<tmp, rpos, have>>

\* One read of Readn: some bytes of what is missing; at the end of the file,
\* with a full buffer, or (EINTR, EAGAIN) again; an error loses the buffer.
Readn ==
    /\ pc = "read"
    /\ \/ \E k \in 1..(BufLen - have) :
            /\ rpos + k <= SrcLen
            /\ rpos' = rpos + k
            /\ have' = have + k
            /\ left' = have'
            /\ pc' = IF have' = BufLen THEN "write" ELSE "read"
       \/ /\ rpos = SrcLen
          /\ pc' = IF have = 0 THEN "utimes" ELSE "write"
          /\ left' = have
          /\ UNCHANGED <<rpos, have>>
       \/ pc' = "close" /\ UNCHANGED <<rpos, have, left>>
    /\ UNCHANGED <<tmp, dst, call, ret>>


\* One write of Writen: some bytes of what is left, or an error (-1).
Writen ==
    /\ pc = "write"
    /\ \/ /\ left = 0
          /\ IF call = "copy" THEN pc' = "read" /\ UNCHANGED ret ELSE Return("true")
          /\ have' = 0
          /\ UNCHANGED <<tmp, dst, left>>
       \/ \E k \in 1..left :
            /\ IF call = "copy" THEN tmp' = tmp + k /\ UNCHANGED dst
                                ELSE dst' = dst + k /\ UNCHANGED tmp
            /\ left' = left - k
            /\ UNCHANGED <<have, pc, ret>>
       \/ /\ left > 0
          /\ pc' = "close"
          /\ UNCHANGED <<tmp, dst, have, left, ret>>
    /\ UNCHANGED <<call, rpos>>

\* After an error CopyFile leaves the temporary file; FilePutContent removes
\* the file it was writing.
Failed ==
    /\ pc = "close"
    /\ dst' = IF call = "put" THEN None ELSE dst
    /\ Return("false")
    /\ UNCHANGED <<tmp, call, rpos, have, left>>

\* utimes and rename: the destination is replaced in one step, or not at all.
Rename ==
    /\ pc = "utimes"
    /\ \/ dst' = tmp /\ tmp' = None /\ Return("true")
       \/ Return("false") /\ UNCHANGED <<tmp, dst>>
    /\ UNCHANGED <<call, rpos, have, left>>

\* The process dies and a new one starts; the files stay as they are.
Crash ==
    /\ pc # "idle"
    /\ Return("none")
    /\ UNCHANGED <<tmp, dst, call, rpos, have, left>>

Next ==
    \/ CopyFile \/ FilePutContent \/ Readn \/ Writen \/ Failed \/ Rename \/ Crash

Spec == Init /\ [][Next]_vars

-----------------------------------------------------------------------------

\* CopyFile, whatever fails and wherever it dies, replaces the destination
\* only by the whole source.
NeverHalf == [][call' = "copy" /\ dst' # dst => dst' = SrcLen]_vars
=============================================================================
