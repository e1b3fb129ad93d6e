------------------------------- MODULE MMapOP ------------------------------
(***************************************************************************)
(* The memory mapped file of util/mmap_op.{h,cc}.  One process at a time   *)
(* maps it; it may end at any step, the file keeps every store made so     *)
(* far, and the next Init decides from the header whether what the file    *)
(* holds is still good.                                                    *)
(***************************************************************************)
EXTENDS Integers

CONSTANTS Sizes, Versions, Ips

VARIABLES
    file,    \* [size, magic, ip, version, body]; body: who wrote it last
    pc, req, \* where Init is, and its arguments [size, ip, version]
    create,  \* Init's answer: the contents are new
    torn     \* an Init was cut short after it changed the header

vars == <<file, pc, req, create, torn>>

Nobody == [size |-> 0, ip |-> 0, version |-> 0]
Requests == [size : Sizes, ip : Ips, version : Versions]

Init ==
    /\ file = [size |-> 0, magic |-> FALSE, ip |-> 0, version |-> 0, body |-> Nobody]
    /\ pc = "off"
    /\ req \in Requests
    /\ create = FALSE
    /\ torn = FALSE

\* Init(filename, size, create): open, then ftruncate when the size differs
\* (an empty file reads as zeros), then mmap; each may fail.
InitFile ==
    /\ pc = "off"
    /\ req' \in Requests
    /\ create' = (req'.size # file.size)
    /\ file' = [file EXCEPT !.size = req'.size]
    /\ pc' \in {"magic", "failed"}
    /\ UNCHANGED torn

\* The first field of the header that differs from what it should be is
\* written, one store at a time, and makes the contents new.
InitMagic ==
    /\ pc = "magic"
    /\ create' = (create \/ ~file.magic)
    /\ file' = [file EXCEPT !.magic = TRUE]
    /\ pc' = "ip"
    /\ UNCHANGED <<req, torn>>


InitIp ==
    /\ pc = "ip"
    /\ create' = (create \/ file.ip # req.ip)
    /\ file' = [file EXCEPT !.ip = req.ip]
    /\ pc' = "version"
    /\ UNCHANGED <<req, torn>>

InitVersion ==
    /\ pc = "version"
    /\ create' = (create \/ file.version # req.version)
    /\ file' = [file EXCEPT !.version = req.version]
    /\ pc' = "clear"
    /\ UNCHANGED <<req, torn>>

\* The contents are cleared last, when anything was new.
InitClear ==
    /\ pc = "clear"
    /\ file' = IF create THEN [file EXCEPT !.body = Nobody] ELSE file
    /\ torn' = (torn /\ ~create)
    /\ pc' = "in"
    /\ UNCHANGED <<req, create>>

\* The program writes through GetPtr (Msync only asks for it to be on disk).
Use ==
    /\ pc = "in"
    /\ file' = [file EXCEPT !.body = req]
    /\ UNCHANGED <<pc, req, create, torn>>

\* The process ends: ~MMapOP, a failed Init, or a crash anywhere.
End ==
    /\ pc # "off"
    /\ torn' = (torn \/ (create /\ pc # "in"))
    /\ pc' = "off"
    /\ UNCHANGED <<file, req, create>>

Next == InitFile \/ InitMagic \/ InitIp \/ InitVersion \/ InitClear \/ Use \/ End

Spec == Init /\ [][Next]_vars

-----------------------------------------------------------------------------
\* When Init returns, the contents are cleared or were written by a program
\* with the same address, version and size, "create" telling which; unless an
\* earlier Init died between its header stores and the clearing.
OwnBody ==
    pc = "in" /\ ~torn => file.body \in {Nobody, req}
=============================================================================
