----------------------------- MODULE ReadyQueue -----------------------------
(***************************************************************************)
(* The scheduler's ready queue (src/src/libscheduler.c): a singly linked   *)
(* list with a Head and an End pointer and no lock.  QueueInsert runs in   *)
(* every thread that creates a process (the HTTP request threads) and in   *)
(* the main thread (preemption, Fork); Dequeue runs in the main thread.    *)
(*                                                                         *)
(* The build is -O0, so every load and store of shared memory the C code   *)
(* names is an instruction of its own: each action makes one such access.  *)
(* Accesses are sequentially consistent.  A local goes back to NULL where  *)
(* the code makes no more use of it.                                       *)
(***************************************************************************)
EXTENDS Naturals, Sequences

CONSTANTS Proc,     \* the processes
          Node,     \* the struct _Node blocks malloc can return (bound)
          Thread,   \* the threads that call the queue
          Main,     \* the scheduler's thread, the only caller of Dequeue
          NULL

ASSUME QueueAssumption == Main \in Thread /\ NULL \notin Node /\ NULL \notin Proc

VARIABLES Queue,    \* the global: Queue.Head and Queue.End
          node,     \* the contents of the blocks: node[n].Next, node[n].Value
          heap,     \* the blocks malloc has handed out and free has not got back
          pc,       \* where each thread is in QueueInsert or Dequeue
          p,        \* QueueInsert's parameter, per thread
          N,        \* the local N of QueueInsert and of Dequeue, per thread
          reg,      \* a pointer loaded and not yet used, per thread
          got,      \* Dequeue's latest result
          order     \* history: blocks filled by QueueInsert and not handed out

vars == <<Queue, node, heap, pc, p, N, reg, got, order>>

Ptr == Node \cup {NULL}

InsertStep  == {"malloc", "initNext", "initValue", "testEnd", "loadEnd",
                "linkNext", "setHead", "setEnd"}
DequeueStep == {"loadHead", "loadNext", "storeHead", "testNext", "clearEnd",
                "clearHead", "loadValue", "free"}
Label       == InsertStep \cup DequeueStep \cup {"idle", "segv"}

TypeOK == /\ Queue \in [Head : Ptr, End : Ptr]
          /\ node \in [Node -> [Next : Ptr, Value : Proc \cup {NULL}]]
          /\ heap \in SUBSET Node
          /\ pc \in [Thread -> Label]
          /\ p \in [Thread -> Proc \cup {NULL}]
          /\ N \in [Thread -> Ptr]
          /\ reg \in [Thread -> Ptr]
          /\ got \in Proc \cup {NULL}
          /\ order \in Seq(Node)

Init == /\ Queue = [Head |-> NULL, End |-> NULL]
        /\ node = [n \in Node |-> [Next |-> NULL, Value |-> NULL]]
        /\ heap = {}
        /\ pc = [t \in Thread |-> "idle"]
        /\ p = [t \in Thread |-> NULL]
        /\ N = [t \in Thread |-> NULL]
        /\ reg = [t \in Thread |-> NULL]
        /\ got = NULL
        /\ order = <<>>

Step(t, from, to) == pc[t] = from /\ pc' = [pc EXCEPT ![t] = to]

-----------------------------------------------------------------------------
(***************************************************************************)
(* QueueInsert(q).  Bound: no call starts once the blocks of the model are *)
(* all in use.                                                             *)
(***************************************************************************)
QueueInsert(t, q) == /\ Step(t, "idle", "malloc")
                     /\ heap # Node
                     /\ p' = [p EXCEPT ![t] = q]
                     /\ UNCHANGED <<Queue, node, heap, N, reg, got, order>>

Malloc(t) == /\ Step(t, "malloc", "initNext")
             /\ \E n \in Node \ heap : /\ heap' = heap \cup {n}
                                       /\ N' = [N EXCEPT ![t] = n]
             /\ UNCHANGED <<Queue, node, p, reg, got, order>>

InitNext(t) == /\ Step(t, "initNext", "initValue")
               /\ node' = [node EXCEPT ![N[t]].Next = NULL]
               /\ UNCHANGED <<Queue, heap, p, N, reg, got, order>>

InitValue(t) == /\ Step(t, "initValue", "testEnd")
                /\ node' = [node EXCEPT ![N[t]].Value = p[t]]
                /\ p' = [p EXCEPT ![t] = NULL]
                /\ order' = Append(order, N[t])
                /\ UNCHANGED <<Queue, heap, N, reg, got>>

TestEnd(t) == /\ Step(t, "testEnd", IF Queue.End # NULL THEN "loadEnd" ELSE "setHead")
              /\ UNCHANGED <<Queue, node, heap, p, N, reg, got, order>>

\* Mutant of LinkNext: the new block is put before the last one.
LinkNextBefore(t) == /\ Step(t, "linkNext", "setEnd")
                     /\ node' = [node EXCEPT ![N[t]].Next = reg[t]]
                     /\ reg' = [reg EXCEPT ![t] = NULL]
                     /\ UNCHANGED <<Queue, heap, p, N, got, order>>

\* The condition's load and this one are two: End may have become NULL.
LoadEnd(t) == /\ Step(t, "loadEnd", IF Queue.End # NULL THEN "linkNext" ELSE "segv")
              /\ reg' = [reg EXCEPT ![t] = Queue.End]
              /\ UNCHANGED <<Queue, node, heap, p, N, got, order>>

\* The block may have been freed since: the store lands in it all the same.
LinkNext(t) == /\ Step(t, "linkNext", "setEnd")
               /\ node' = [node EXCEPT ![reg[t]].Next = N[t]]
               /\ reg' = [reg EXCEPT ![t] = NULL]
               /\ UNCHANGED <<Queue, heap, p, N, got, order>>

SetHead(t) == /\ Step(t, "setHead", "setEnd")
              /\ Queue' = [Queue EXCEPT !.Head = N[t]]
              /\ UNCHANGED <<node, heap, p, N, reg, got, order>>

SetEnd(t) == /\ Step(t, "setEnd", "idle")
             /\ Queue' = [Queue EXCEPT !.End = N[t]]
             /\ N' = [N EXCEPT ![t] = NULL]
             /\ UNCHANGED <<node, heap, p, reg, got, order>>
-----------------------------------------------------------------------------
(***************************************************************************)
(* Dequeue(), by the main thread.                                          *)
(***************************************************************************)
Dequeue == /\ Step(Main, "idle", "loadHead")
           /\ UNCHANGED <<Queue, node, heap, p, N, reg, got, order>>

LoadHead == /\ Step(Main, "loadHead", IF Queue.Head = NULL THEN "idle" ELSE "loadNext")
            /\ N' = [N EXCEPT ![Main] = Queue.Head]
            /\ got' = IF Queue.Head = NULL THEN NULL ELSE got
            /\ UNCHANGED <<Queue, node, heap, p, reg, order>>

LoadNext == /\ Step(Main, "loadNext", "storeHead")
            /\ reg' = [reg EXCEPT ![Main] = node[N[Main]].Next]
            /\ UNCHANGED <<Queue, node, heap, p, N, got, order>>

\* Mutant of StoreHead: Head stays what it was.
StoreHeadNot == /\ Step(Main, "storeHead", "testNext")
                /\ reg' = [reg EXCEPT ![Main] = NULL]
                /\ UNCHANGED <<Queue, node, heap, p, N, got, order>>

StoreHead == /\ Step(Main, "storeHead", "testNext")
             /\ Queue' = [Queue EXCEPT !.Head = reg[Main]]
             /\ reg' = [reg EXCEPT ![Main] = NULL]
             /\ UNCHANGED <<node, heap, p, N, got, order>>

\* Mutant of TestNext: the condition is turned around.
TestNextNot == /\ Step(Main, "testNext", IF node[N[Main]].Next # NULL
                                         THEN "clearEnd" ELSE "loadValue")
               /\ UNCHANGED <<Queue, node, heap, p, N, reg, got, order>>

TestNext == /\ Step(Main, "testNext", IF node[N[Main]].Next = NULL
                                      THEN "clearEnd" ELSE "loadValue")
            /\ UNCHANGED <<Queue, node, heap, p, N, reg, got, order>>

\* Mutant of ClearEnd: End goes on pointing to the block to be freed.
ClearEndNot == /\ Step(Main, "clearEnd", "clearHead")
               /\ UNCHANGED <<Queue, node, heap, p, N, reg, got, order>>

ClearEnd == /\ Step(Main, "clearEnd", "clearHead")
            /\ Queue' = [Queue EXCEPT !.End = NULL]
            /\ UNCHANGED <<node, heap, p, N, reg, got, order>>

ClearHead == /\ Step(Main, "clearHead", "loadValue")
             /\ Queue' = [Queue EXCEPT !.Head = NULL]
             /\ UNCHANGED <<node, heap, p, N, reg, got, order>>

\* The block that is handed out is the first, if no call interfered.
Without(n) ==
  LET i == CHOOSE k \in 1..Len(order) : order[k] = n
  IN  IF \A k \in 1..Len(order) : order[k] # n THEN order
      ELSE [k \in 1..(Len(order) - 1) |-> order[IF k < i THEN k ELSE k + 1]]

LoadValue == /\ Step(Main, "loadValue", "free")
             /\ got' = node[N[Main]].Value
             /\ order' = Without(N[Main])
             /\ UNCHANGED <<Queue, node, heap, p, N, reg>>

Free == /\ Step(Main, "free", "idle")
        /\ heap' = heap \ {N[Main]}
        /\ N' = [N EXCEPT ![Main] = NULL]
        /\ UNCHANGED <<Queue, node, p, reg, got, order>>
-----------------------------------------------------------------------------
Call == (\E t \in Thread, q \in Proc : QueueInsert(t, q)) \/ Dequeue

InsertNext(t) == \/ Malloc(t)  \/ InitNext(t) \/ InitValue(t) \/ TestEnd(t)
                 \/ LoadEnd(t) \/ LinkNext(t) \/ SetHead(t)   \/ SetEnd(t)

DequeueNext == \/ LoadHead \/ LoadNext  \/ StoreHead \/ TestNext
               \/ ClearEnd \/ ClearHead \/ LoadValue \/ Free

Continue == (\E t \in Thread : InsertNext(t)) \/ DequeueNext

\* A SIGSEGV ends the whole program.
Alive == \A t \in Thread : pc[t] # "segv"

Quiescent == \A t \in Thread : pc[t] = "idle"

\* Every interleaving of the calls, which is what the program allows.
Next == Alive /\ (Call \/ Continue)

Spec == Init /\ [][Next]_vars

\* The behaviours in which a call starts only when no other is under way.
SerialNext == Alive /\ ((Quiescent /\ Call) \/ Continue)

SerialSpec == Init /\ [][SerialNext]_vars
-----------------------------------------------------------------------------
(***************************************************************************)
(* What serial callers get.  The blocks of `order' are the queue's         *)
(* contents; the last of them may still be on its way in (Entering), the   *)
(* first on its way out.                                                   *)
(***************************************************************************)
Blocks == {order[i] : i \in 1..Len(order)}

First(L) == IF L = 0 THEN NULL ELSE order[1]
Last(L)  == IF L = 0 THEN NULL ELSE order[L]

\* The first L blocks are linked one to the next, and no further.
Chain(L) == /\ \A i \in 1..(L - 1) : node[order[i]].Next = order[i + 1]
            /\ L > 0 => node[order[L]].Next = NULL

WellFormed(L) == Chain(L) /\ Queue = [Head |-> First(L), End |-> Last(L)]

\* No pointer of the list is being changed.
Calm == {"idle", "malloc", "initNext", "initValue", "loadHead", "free"}

\* QueueInsert's block is filled but the list does not reach it yet.
Entering(t) == /\ order # <<>>
               /\ N[t] = order[Len(order)]
               /\ node[N[t]].Next = NULL
               /\ WellFormed(Len(order) - 1)

\* Dequeue has read Head and found a block there.
Leaving(t) == order # <<>> /\ N[t] = order[1] /\ Chain(Len(order))

\* At most one call is under way, Dequeue's is the main thread's.
CallsOK == /\ \A t, u \in Thread : pc[t] # "idle" /\ pc[u] # "idle" => t = u
           /\ \A t \in Thread : pc[t] \in DequeueStep => t = Main
           /\ \A t \in Thread : pc[t] \in {"malloc", "initNext", "initValue"}
                                    => p[t] \in Proc

\* The block a call holds outside the list.
Held == {N[t] : t \in {u \in Thread : pc[u] \in {"initNext", "initValue", "free"}}}

\* Every queued block is queued once and holds a process; the others that
\* are allocated are held by a call.
BlocksOK == /\ \A i, j \in 1..Len(order) : order[i] = order[j] => i = j
            /\ \A i \in 1..Len(order) : node[order[i]].Value \in Proc
            /\ heap = Blocks \cup Held
            /\ Held \subseteq Node \ Blocks

InsertOK == \A t \in Thread :
   /\ pc[t] = "initValue" => node[N[t]].Next = NULL
   /\ pc[t] \in {"testEnd", "loadEnd", "linkNext", "setHead"} => Entering(t)
   /\ pc[t] \in {"loadEnd", "linkNext"} => Queue.End # NULL
   /\ pc[t] = "linkNext" => reg[t] = Queue.End
   /\ pc[t] = "setHead" => Queue.End = NULL
   /\ pc[t] = "setEnd" => /\ order # <<>>
                           /\ N[t] = order[Len(order)]
                           /\ Chain(Len(order))
                           /\ Queue = [Head |-> order[1],
                                       End |-> Last(Len(order) - 1)]

DequeueOK ==
   /\ pc[Main] \in {"loadNext", "storeHead"} => WellFormed(Len(order))
   /\ pc[Main] \in DequeueStep \ {"loadHead", "free"} => Leaving(Main)
   /\ pc[Main] = "storeHead" => reg[Main] = node[N[Main]].Next
   /\ pc[Main] = "testNext" => Queue = [Head |-> node[N[Main]].Next,
                                         End |-> Last(Len(order))]
   /\ pc[Main] \in {"clearEnd", "clearHead"} => Len(order) = 1
   /\ pc[Main] = "clearEnd" => Queue.Head = NULL
   /\ pc[Main] = "clearHead" => Queue.End = NULL
   /\ pc[Main] = "loadValue" =>
         Queue = [Head |-> node[N[Main]].Next,
                  End |-> IF Len(order) = 1 THEN NULL ELSE Last(Len(order))]

CalmOK == (\A t \in Thread : pc[t] \in Calm) => WellFormed(Len(order))

\* The inductive invariant of SerialSpec.
IInv == TypeOK /\ CallsOK /\ BlocksOK /\ InsertOK /\ DequeueOK /\ CalmOK

(***************************************************************************)
(* Between calls the list is exactly the processes inserted and not handed *)
(* out, oldest first: Head and End are both NULL or the ends of a chain    *)
(* that reaches every waiting process, and no block is leaked              *)
(* (libscheduler.c:5-36).                                                  *)
(***************************************************************************)
ListIntact == Quiescent => WellFormed(Len(order)) /\ heap = Blocks

(***************************************************************************)
(* The linked list is a FIFO queue of processes: a process enters when its *)
(* block is filled and leaves when Dequeue reads it.                       *)
(***************************************************************************)
Fifo == INSTANCE FifoQueue
          WITH queue <- [i \in 1..Len(order) |-> node[order[i]].Value]

ImplementsFifo == Fifo!Spec
-----------------------------------------------------------------------------
(***************************************************************************)
(* What any callers get.                                                   *)
(***************************************************************************)

(***************************************************************************)
(* Dequeue hands a process out at most once for each time it was inserted, *)
(* and never one that was not: whatever the interleaving of inserters and  *)
(* Dequeue, no block is read after it was handed out and freed.            *)
(***************************************************************************)
HandedOutOnce == [][pc[Main] = "loadValue" /\ pc'[Main] = "free"
                      => N[Main] \in Blocks /\ got' = node[N[Main]].Value]_vars
=============================================================================
