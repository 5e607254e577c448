---------------------------- MODULE ProcessTable ----------------------------
(***************************************************************************)
(* The table that finds a process by its Pid (src/src/libemulator.c):      *)
(* bucket chains that request threads and the scheduler's Fork append to   *)
(* and polls search, with no lock, and the counter the Pids come from.     *)
(* An action is one access to what other threads change.                   *)
(*                                                                         *)
(* malloc does not clear: until Value is stored it is NULL here, which     *)
(* stands for anything, and Next is NULL or, if the block was a node of    *)
(* the ready queue before, JUNK.  Nothing is taken out of the table; a     *)
(* record that was freed stays in it with its Pid until it is reused.      *)
(***************************************************************************)
EXTENDS Naturals, FiniteSets

CONSTANTS Thread, Main,  \* the threads, and the one of them that forks
          Rec,           \* process records
          Node,          \* blocks for struct _ProcessBucket
          NBuckets,      \* 127 in the code
          MaxPid,        \* bound: Pids that creations start from, and Pids asked for
          NULL, JUNK

ASSUME TableAssumption == /\ Main \in Thread /\ NBuckets \in Nat \ {0} /\ MaxPid \in Nat
                          /\ NULL \notin Node \cup Rec /\ JUNK \notin Node \cup {NULL}
                          /\ IsFiniteSet(Node)

VARIABLES ProcessId,  \* the next Pid
          Pid,        \* Pid[r]: the Pid of record r
          live,       \* records handed out by ProcessAlloc and not freed
          head,       \* head[i]: ProcessTable[i]
          node,       \* the contents of the blocks
          allocated,  \* the blocks malloc handed out; none is ever freed
          up,         \* FALSE once the program followed a pointer that is none
          th,         \* the threads
          added,      \* history: records whose AddToProcessTable returned
          overlapped, \* history: buckets two calls appended to at the same time
          contested   \* history: records whose last Pid was drawn while another was

vars == <<ProcessId, Pid, live, head, node, allocated, up, th, added, overlapped, contested>>

Bucket == 0..(NBuckets - 1)
Index(k) == k % NBuckets

\* p: the record being added, or found; forks: whether a second Pid is to be
\* drawn; due and quiet are histories of a search: the records it must not
\* miss, and whether nothing was appended or renamed meanwhile.
Idle == [pc |-> "idle", p |-> NULL, k |-> 0, cur |-> NULL, forks |-> FALSE,
         due |-> {}, quiet |-> TRUE]

Adding  == {"bucket", "newHead", "headValue", "walk", "newNext", "nextValue"}
Finding == {"test", "next", "match", "last", "compare"}

TypeOK == /\ ProcessId \in Nat /\ Pid \in [Rec -> Nat]
          /\ live \subseteq Rec /\ added \subseteq Rec
          /\ head \in [Bucket -> Node \cup {NULL}]
          /\ node \in [Node -> [Value : Rec \cup {NULL}, Next : Node \cup {NULL, JUNK}]]
          /\ allocated \subseteq Node /\ overlapped \subseteq Bucket /\ contested \subseteq Rec
          /\ up \in BOOLEAN
          /\ th \in [Thread -> [pc : {"idle", "load", "store"} \cup Adding \cup Finding,
                                p : Rec \cup {NULL}, k : Nat,
                                cur : Node \cup {NULL, JUNK}, forks : BOOLEAN,
                                due : SUBSET Rec, quiet : BOOLEAN]]
          /\ \A t \in Thread : th[t].pc \in Adding => th[t].cur # JUNK

Init == /\ ProcessId = 0 /\ Pid = [r \in Rec |-> 0]
        /\ live = {} /\ added = {} /\ overlapped = {} /\ contested = {}
        /\ head = [i \in Bucket |-> NULL]
        /\ node = [n \in Node |-> [Value |-> NULL, Next |-> NULL]]
        /\ allocated = {} /\ up = TRUE
        /\ th = [t \in Thread |-> Idle]

At(t, pc)   == up /\ th[t].pc = pc
Goto(t, pc) == th' = [th EXCEPT ![t].pc = pc]
Crash       == up' = FALSE /\ UNCHANGED th
-----------------------------------------------------------------------------
(***************************************************************************)
(* ProcessAlloc: a record, and Pid = ProcessId++.  Fork draws a second     *)
(* Pid for the child and drops the first.                                  *)
(***************************************************************************)
Create(t) ==
  /\ At(t, "idle")
  /\ ProcessId < MaxPid
  /\ Cardinality(allocated) + Cardinality({u \in Thread : th[u].pc \in Adding
                                                        \cup {"load", "store"}})
       < Cardinality(Node)   \* bound: malloc succeeds
  /\ \E r \in Rec \ live :
       /\ live' = live \cup {r} /\ added' = added \ {r}
       /\ th' = [th EXCEPT ![t] = [Idle EXCEPT !.pc = "load", !.p = r, !.forks = (t = Main)]]
  /\ UNCHANGED <<ProcessId, Pid, head, node, allocated, up, overlapped, contested>>

\* Two draws overlap if one loads the counter before the other has stored it.
LoadId(t) ==
  LET drawing == {u \in Thread \ {t} : th[u].pc = "store"}
  IN  /\ At(t, "load")
      /\ th' = [th EXCEPT ![t].pc = "store", ![t].k = ProcessId]
      /\ contested' = IF drawing = {} THEN contested \ {th[t].p}
                      ELSE contested \cup {th[u].p : u \in drawing \cup {t}}
      /\ UNCHANGED <<ProcessId, Pid, live, head, node, allocated, up, added, overlapped>>

\* Mutant of StoreId: the counter stays.
StoreIdAgain(t) ==
  /\ At(t, "store")
  /\ ProcessId' = th[t].k
  /\ Pid' = [Pid EXCEPT ![th[t].p] = th[t].k]
  /\ th' = [u \in Thread |->
              IF u = t THEN [th[t] EXCEPT !.pc = IF th[t].forks THEN "load" ELSE "bucket",
                                          !.forks = FALSE]
              ELSE [th[u] EXCEPT !.quiet = FALSE]]
  /\ UNCHANGED <<live, head, node, allocated, up, added, overlapped, contested>>

\* A search that is under way may see the Pid change.
StoreId(t) ==
  /\ At(t, "store")
  /\ ProcessId' = th[t].k + 1
  /\ Pid' = [Pid EXCEPT ![th[t].p] = th[t].k]
  /\ th' = [u \in Thread |->
              IF u = t THEN [th[t] EXCEPT !.pc = IF th[t].forks THEN "load" ELSE "bucket",
                                          !.forks = FALSE]
              ELSE [th[u] EXCEPT !.quiet = FALSE]]
  /\ UNCHANGED <<live, head, node, allocated, up, added, overlapped, contested>>

\* PageDealloc by the poll that found the process halted.
Free(r) == /\ up /\ r \in live \cap added
           /\ live' = live \ {r}
           /\ th' = [t \in Thread |-> [th[t] EXCEPT !.due = @ \ {r}]]
           /\ UNCHANGED <<ProcessId, Pid, head, node, allocated, up, added, overlapped, contested>>
-----------------------------------------------------------------------------
(***************************************************************************)
(* AddToProcessTable.                                                      *)
(***************************************************************************)
Searching(i) == {u \in Thread : th[u].pc \in Finding /\ Index(th[u].k) = i}

\* Not the same bucket: what the call appends to, and what another may walk.
TestBucket(t) ==
  LET i == Index(th[t].k)
      others == {u \in Thread \ {t} : th[u].pc \in Adding \ {"bucket"} /\ Index(th[u].k) = i}
  IN  /\ At(t, "bucket")
      /\ th' = [th EXCEPT ![t].pc = IF head[i] = NULL THEN "newHead" ELSE "walk",
                          ![t].cur = head[i]]
      /\ overlapped' = IF others # {} THEN overlapped \cup {i} ELSE overlapped
      /\ UNCHANGED <<ProcessId, Pid, live, head, node, allocated, up, added, contested>>

\* The loop over Next; two loads of one Next are one step, it changes only
\* from NULL unless calls overlap in the bucket.
Walk(t) ==
  /\ At(t, "walk")
  /\ LET next == node[th[t].cur].Next
     IN  \/ next = JUNK /\ Crash
         \/ next = NULL /\ Goto(t, "newNext") /\ UNCHANGED up
         \/ next \in Node /\ th' = [th EXCEPT ![t].cur = next] /\ UNCHANGED up
  /\ UNCHANGED <<ProcessId, Pid, live, head, node, allocated, added, overlapped, contested>>

\* A block from malloc, as it comes.
Malloc(n, next) == /\ n \in Node \ allocated /\ next \in {NULL, JUNK}
                   /\ allocated' = allocated \cup {n}

\* The thread becomes next; searches of its bucket are not quiet any more.
Append(t, next) == th' = [u \in Thread |->
                            IF u = t THEN next
                            ELSE IF u \in Searching(Index(th[t].k))
                                 THEN [th[u] EXCEPT !.quiet = FALSE] ELSE th[u]]

NewHead(t) ==
  /\ At(t, "newHead")
  /\ \E n \in Node, next \in {NULL, JUNK} :
       /\ Malloc(n, next)
       /\ node' = [node EXCEPT ![n] = [Value |-> NULL, Next |-> next]]
       /\ head' = [head EXCEPT ![Index(th[t].k)] = n]
  /\ Append(t, [th[t] EXCEPT !.pc = "headValue"])
  /\ UNCHANGED <<ProcessId, Pid, live, up, added, overlapped, contested>>

\* ProcessTable[Index]->Value: the bucket's head as it is by now.
HeadValue(t) ==
  /\ At(t, "headValue")
  /\ node' = [node EXCEPT ![head[Index(th[t].k)]].Value = th[t].p]
  /\ added' = added \cup {th[t].p}
  /\ Append(t, Idle)
  /\ UNCHANGED <<ProcessId, Pid, live, head, allocated, up, overlapped, contested>>

\* Mutant of NewNext: linked at the head of the bucket.
NewNextAtHead(t) ==
  /\ At(t, "newNext")
  /\ \E n \in Node, next \in {NULL, JUNK} :
       /\ Malloc(n, next)
       /\ node' = [node EXCEPT ![n] = [Value |-> NULL, Next |-> next],
                               ![head[Index(th[t].k)]].Next = n]
  /\ Append(t, [th[t] EXCEPT !.pc = "nextValue"])
  /\ UNCHANGED <<ProcessId, Pid, live, head, up, added, overlapped, contested>>

NewNext(t) ==
  /\ At(t, "newNext")
  /\ \E n \in Node, next \in {NULL, JUNK} :
       /\ Malloc(n, next)
       /\ node' = [node EXCEPT ![n] = [Value |-> NULL, Next |-> next],
                               ![th[t].cur].Next = n]
  /\ Append(t, [th[t] EXCEPT !.pc = "nextValue"])
  /\ UNCHANGED <<ProcessId, Pid, live, head, up, added, overlapped, contested>>

NextValue(t) ==
  /\ At(t, "nextValue")
  /\ node' = [node EXCEPT ![node[th[t].cur].Next].Value = th[t].p]
  /\ added' = added \cup {th[t].p}
  /\ Append(t, Idle)
  /\ UNCHANGED <<ProcessId, Pid, live, head, allocated, up, overlapped, contested>>

Add(t) == \/ TestBucket(t) \/ Walk(t) \/ NewHead(t) \/ HeadValue(t)
          \/ NewNext(t) \/ NextValue(t)
-----------------------------------------------------------------------------
(***************************************************************************)
(* FindInProcessTable, for a poll or a key of the terminal of Pid k.       *)
(***************************************************************************)
table == <<ProcessId, Pid, live, head, node, allocated, added, overlapped, contested>>

Return(t, r) == th' = [th EXCEPT ![t] = [Idle EXCEPT !.p = r]] /\ UNCHANGED up

Find(t, k) ==
  /\ At(t, "idle") /\ t # Main
  /\ th' = [th EXCEPT ![t] = [Idle EXCEPT !.pc = "test", !.k = k, !.cur = head[Index(k)],
                                          !.due = {r \in live \cap added : Pid[r] = k}]]
  /\ UNCHANGED <<table, up>>

\* ProcessTable[Index] is read again; Cursor may be NULL although it is not.
FindTest(t) ==
  /\ At(t, "test")
  /\ \/ head[Index(th[t].k)] = NULL /\ Return(t, NULL)
     \/ head[Index(th[t].k)] # NULL /\ th[t].cur = NULL /\ Crash
     \/ head[Index(th[t].k)] # NULL /\ th[t].cur # NULL /\ Goto(t, "next") /\ UNCHANGED up
  /\ UNCHANGED table

FindNext(t) ==
  /\ At(t, "next")
  /\ \/ th[t].cur = JUNK /\ Crash
     \/ /\ th[t].cur # JUNK
        /\ Goto(t, IF node[th[t].cur].Next = NULL THEN "last" ELSE "match")
        /\ UNCHANGED up
  /\ UNCHANGED table

\* What Cursor->Value->Pid == pid may be, or whether reading it may crash.
Matches(t) == LET r == node[th[t].cur].Value IN r # NULL /\ Pid[r] = th[t].k
Differs(t) == ~Matches(t)
Undefined(t) == node[th[t].cur].Value = NULL

FindMatch(t) ==
  /\ At(t, "match")
  /\ \/ Undefined(t) /\ Crash
     \/ Matches(t) /\ Goto(t, "last") /\ UNCHANGED up
     \/ /\ Differs(t)
        /\ th' = [th EXCEPT ![t].pc = "next", ![t].cur = node[@].Next]
        /\ UNCHANGED up
  /\ UNCHANGED table

\* Mutants of FindLast: the last process is not compared, or taken for none.
FindLastAnyway(t) ==
  /\ At(t, "last")
  /\ \/ Undefined(t) /\ Crash
     \/ ~Undefined(t) /\ Return(t, node[th[t].cur].Value)
  /\ UNCHANGED table

FindLastNot(t) ==
  /\ At(t, "last")
  /\ \/ node[th[t].cur].Next = NULL /\ Return(t, NULL)
     \/ node[th[t].cur].Next # NULL /\ Undefined(t) /\ Crash
     \/ /\ node[th[t].cur].Next # NULL /\ ~Undefined(t)
        /\ Return(t, node[th[t].cur].Value)
  /\ UNCHANGED table

\* Cursor->Next == NULL is tested again: a bucket that was appended meanwhile
\* makes the last process seen the answer, whatever its Pid.
FindLast(t) ==
  /\ At(t, "last")
  /\ \/ node[th[t].cur].Next = NULL /\ Goto(t, "compare") /\ UNCHANGED up
     \/ node[th[t].cur].Next # NULL /\ Undefined(t) /\ Crash
     \/ /\ node[th[t].cur].Next # NULL /\ ~Undefined(t)
        /\ Return(t, node[th[t].cur].Value)
  /\ UNCHANGED table

FindCompare(t) ==
  /\ At(t, "compare")
  /\ \/ Undefined(t) /\ Crash
     \/ Differs(t) /\ Return(t, NULL)
     \/ Matches(t) /\ Return(t, node[th[t].cur].Value)
  /\ UNCHANGED table

Search(t) == FindTest(t) \/ FindNext(t) \/ FindMatch(t) \/ FindLast(t) \/ FindCompare(t)
-----------------------------------------------------------------------------
Next == \/ \E t \in Thread : \/ Create(t) \/ LoadId(t) \/ StoreId(t) \/ Add(t) \/ Search(t)
                             \/ \E k \in 0..MaxPid : Find(t, k)
        \/ \E r \in Rec : Free(r)

Spec == Init /\ [][Next]_vars
-----------------------------------------------------------------------------
Answers(t, r) == th[t].pc \in Finding /\ up /\ up' /\ th'[t] = [Idle EXCEPT !.p = r]

(***************************************************************************)
(* A search never misses a process that was in the table when it began     *)
(* and still is, whatever is appended, freed and reused while it walks the *)
(* chain; only two appends to the bucket at the same time can cost one     *)
(* (libemulator.c:379-410).                                                *)
(***************************************************************************)
NeverMissed ==
  [][\A t \in Thread : Answers(t, NULL) /\ Index(th[t].k) \notin overlapped
       => th[t].due = {}]_vars

(***************************************************************************)
(* What a search finds has the Pid it looked for, also if the record was   *)
(* reused before, unless the bucket was appended or a Pid changed          *)
(* meanwhile (libemulator.c:394-410).                                      *)
(***************************************************************************)
FindsRight ==
  [][\A t \in Thread, r \in Rec : Answers(t, r) /\ th[t].quiet => Pid[r] = th[t].k]_vars

(***************************************************************************)
(* A process that was added stays in the chain of its Pid, and the chains  *)
(* share no block and lose none, as long as no two calls overlapped in the *)
(* bucket; calls for different buckets may (libemulator.c:379-392).        *)
(***************************************************************************)
Chain(i) ==
  LET from[k \in 0..Cardinality(Node)] ==
        IF k = 0 THEN {head[i]} \ {NULL}
        ELSE from[k - 1] \cup ({node[n].Next : n \in from[k - 1]} \ {NULL, JUNK})
  IN  from[Cardinality(Node)]

ChainsHoldAll ==
  /\ \A r \in live \cap added : Index(Pid[r]) \notin overlapped
       => \E n \in Chain(Index(Pid[r])) : node[n].Value = r
  /\ overlapped = {} => \A n \in allocated : Cardinality({i \in Bucket : n \in Chain(i)}) = 1

(***************************************************************************)
(* Two processes share a Pid, and with it their FIFOs, only if one of the  *)
(* two Pids was drawn while another thread drew one: a draw that           *)
(* overlapped none gives a Pid that no other such draw gave, whatever      *)
(* overlapping draws stored to the counter before or in between            *)
(* (libemulator.c:227).                                                    *)
(***************************************************************************)
Drawn == {r \in live : \A t \in Thread : th[t].pc \in {"load", "store"} => th[t].p # r}

PidsUnique == \A r, s \in Drawn \ contested : r # s => Pid[r] # Pid[s]
=============================================================================
