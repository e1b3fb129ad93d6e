---------------------------- MODULE TaskExecutor ----------------------------
(***************************************************************************)
(* What a task-running thread promises its callers: a task that is         *)
(* accepted joins the end of a line, and tasks run one at a time from the  *)
(* front of that line.  How tasks are queued, batched and woken for is     *)
(* left to the implementation.                                             *)
(***************************************************************************)
EXTENDS Naturals, Sequences

CONSTANT Task

VARIABLES accepted,   \* every task accepted so far, in order
          executed    \* every task run so far, in order

execVars == <<accepted, executed>>

Init == accepted = <<>> /\ executed = <<>>

Accept(task) ==
    /\ accepted' = Append(accepted, task)
    /\ UNCHANGED executed

Execute ==
    /\ Len(executed) < Len(accepted)
    /\ executed' = Append(executed, accepted[Len(executed) + 1])
    /\ UNCHANGED accepted

Next == Execute \/ \E task \in Task : Accept(task)

Spec == Init /\ [][Next]_execVars

=============================================================================
