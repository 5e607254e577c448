------------------------------ MODULE FifoQueue ------------------------------
(***************************************************************************)
(* What libscheduler.c promises its callers: a first-in first-out queue of *)
(* processes.  QueueInsert puts a process at the back; Dequeue hands out   *)
(* the one at the front, or NULL when there is none.                       *)
(***************************************************************************)
EXTENDS Sequences

CONSTANTS Proc,   \* the processes (struct Process *)
          NULL    \* what Dequeue returns for an empty queue

VARIABLES queue,  \* the processes waiting, front first
          got     \* the result of the latest Dequeue

fifoVars == <<queue, got>>

Init == queue = <<>> /\ got = NULL

\* Mutant of Insert: at the front.
InsertFirst(p) == queue' = <<p>> \o queue /\ UNCHANGED got

Insert(p) == queue' = Append(queue, p) /\ UNCHANGED got

Take == /\ queue # <<>>
        /\ got' = Head(queue)
        /\ queue' = Tail(queue)

TakeNothing == queue = <<>> /\ got' = NULL /\ UNCHANGED queue

Next == (\E p \in Proc : Insert(p)) \/ Take \/ TakeNothing

Spec == Init /\ [][Next]_fifoVars
=============================================================================
