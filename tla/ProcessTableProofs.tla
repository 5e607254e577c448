------------------------- MODULE ProcessTableProofs -------------------------
(***************************************************************************)
(* Theorems about ProcessTable: types, the chains that hold every process, *)
(* and the searches.                                                       *)
(***************************************************************************)
EXTENDS ProcessTable, FiniteSetTheorems, WellFoundedInduction, TLAPS

(***************************************************************************)
(* Reaches(nd, a, b): who follows Next from block a in the contents nd     *)
(* comes to b; b lies in every set that a lies in and Next does not lead   *)
(* out of.                                                                 *)
(***************************************************************************)
Closed(nd, S) == \A n \in S : nd[n].Next \in Node => nd[n].Next \in S

Reaches(nd, a, b) ==
  a \in Node /\ b \in Node /\ \A S \in SUBSET Node : a \in S /\ Closed(nd, S) => b \in S

\* Every block was allocated for one bucket, and Next leads to none of another.
OwnedOK(owner) ==
  /\ owner \in [Node -> Bucket]
  /\ \A i \in Bucket : head[i] # NULL => head[i] \in allocated /\ owner[head[i]] = i
  /\ \A n \in Node : node[n].Next \in Node =>
       n \in allocated /\ node[n].Next \in allocated /\ owner[node[n].Next] = owner[n]

\* Without overlapping calls no block of the bucket is lost, and none of the
\* processes.
HeldOK(owner) ==
  \A i \in Bucket \ overlapped :
    /\ \A n \in allocated : owner[n] = i => Reaches(node, head[i], n)
    /\ \A r \in live \cap added : Index(Pid[r]) = i =>
         \E n \in allocated : owner[n] = i /\ node[n].Value = r

Creating  == {"load", "store"} \cup Adding
Appending == Adding \ {"bucket"}

I(t) == Index(th[t].k)

\* The record in a thread's hand is nobody else's.
RecordOK ==
  /\ \A t \in Thread : th[t].pc \in Creating => th[t].p \in live \ added
  /\ \A t \in Thread : th[t].pc \in Adding => Pid[th[t].p] = th[t].k
  /\ \A t, u \in Thread : th[t].pc \in Creating /\ th[u].pc \in Creating /\ th[t].p = th[u].p => t = u
  /\ \A t \in Thread : th[t].pc \in {"load", "store", "bucket"} => th[t].cur = NULL

\* Where a thread is in its chain.
CursorOK(owner, t) ==
  /\ th[t].pc \in Appending \cup Finding /\ th[t].cur \in Node =>
       th[t].cur \in allocated /\ owner[th[t].cur] = I(t)
  /\ th[t].pc \in {"walk", "newNext", "nextValue", "match", "last", "compare"} => th[t].cur \in Node
  /\ th[t].pc = "headValue" => head[I(t)] \in Node
  /\ th[t].pc = "nextValue" => node[th[t].cur].Next \in Node
  /\ th[t].pc = "match" => node[th[t].cur].Next # NULL
  /\ th[t].pc = "next" => th[t].cur # NULL
  /\ th[t].pc = "test" => th[t].cur # JUNK

\* The only call that appends to its bucket.
AppendOK(t) ==
  th[t].pc \in Appending /\ I(t) \notin overlapped =>
    /\ \A u \in Thread : th[u].pc \in Appending /\ I(u) = I(t) => u = t
    /\ th[t].pc = "newHead" => head[I(t)] = NULL
    /\ th[t].pc = "headValue" => node[head[I(t)]].Value = NULL
    /\ th[t].pc = "newNext" => node[th[t].cur].Next = NULL
    /\ th[t].pc = "nextValue" => node[node[th[t].cur].Next].Value = NULL

\* A search has what it must not miss ahead of it.
Ahead(t, r) ==
  /\ r \in live \cap added /\ Pid[r] = th[t].k
  /\ I(t) \notin overlapped =>
       /\ \E n \in Node : Reaches(node, th[t].cur, n) /\ node[n].Value = r
       /\ th[t].pc = "compare" => node[th[t].cur].Value = r

SearchOK(t) ==
  th[t].pc \in Finding =>
    /\ \A r \in th[t].due : Ahead(t, r)
    /\ th[t].pc = "last" /\ th[t].quiet => node[th[t].cur].Next = NULL \/ Matches(t)

TableOK(owner) == /\ OwnedOK(owner) /\ HeldOK(owner)
                  /\ \A t \in Thread : CursorOK(owner, t)

IInv == /\ TypeOK /\ RecordOK
        /\ \A t \in Thread : AppendOK(t) /\ SearchOK(t)
        /\ \E owner \in [Node -> Bucket] : TableOK(owner)
-----------------------------------------------------------------------------
(***************************************************************************)
(* Reaching.                                                               *)
(***************************************************************************)
LEMMA ReachSelf == ASSUME NEW nd, NEW a \in Node PROVE Reaches(nd, a, a)
  BY DEF Reaches

LEMMA ReachNext ==
  ASSUME NEW nd, NEW a, NEW b, Reaches(nd, a, b), nd[b].Next \in Node
  PROVE  Reaches(nd, a, nd[b].Next)
  BY DEF Reaches, Closed

\* What is reached from a is a, or reached from where Next leads.
LEMMA ReachSplit ==
  ASSUME NEW nd, NEW a, NEW b, Reaches(nd, a, b), a # b
  PROVE  nd[a].Next \in Node /\ Reaches(nd, nd[a].Next, b)
<1>1. a \in Node /\ b \in Node /\ \A S \in SUBSET Node : a \in S /\ Closed(nd, S) => b \in S
  BY DEF Reaches
<1>2. nd[a].Next \in Node
  <2>1. SUFFICES ASSUME nd[a].Next \notin Node PROVE FALSE
    OBVIOUS
  <2>2. Closed(nd, {a})
    BY <2>1 DEF Closed
  <2> QED BY <1>1, <2>2
<1>3. ASSUME NEW S \in SUBSET Node, nd[a].Next \in S, Closed(nd, S) PROVE b \in S
  <2>1. Closed(nd, S \cup {a})
    BY <1>3 DEF Closed
  <2>2. b \in S \cup {a}
    BY <1>1, <2>1
  <2> QED BY <2>2
<1> QED BY <1>1, <1>2, <1>3 DEF Reaches

\* A way within the blocks of one bucket stays if only blocks Next led
\* nowhere from, and blocks of other buckets, change.
LEMMA ReachKeeps ==
  ASSUME NEW nd, NEW md, NEW owner, NEW i,
         \A n \in Node : nd[n].Next \in Node => owner[nd[n].Next] = owner[n],
         \A n \in Node : owner[n] = i /\ nd[n].Next \in Node => md[n].Next = nd[n].Next,
         NEW a, NEW b, Reaches(nd, a, b), owner[a] = i
  PROVE  Reaches(md, a, b)
<1>1. a \in Node /\ b \in Node /\ \A S \in SUBSET Node : a \in S /\ Closed(nd, S) => b \in S
  BY DEF Reaches
<1>2. ASSUME NEW S \in SUBSET Node, a \in S, Closed(md, S) PROVE b \in S
  <2> DEFINE T == {n \in S : owner[n] = i}
  <2>1. Closed(nd, T)
    <3> SUFFICES ASSUME NEW n \in T, nd[n].Next \in Node PROVE nd[n].Next \in T
      BY DEF Closed
    <3>1. n \in Node /\ owner[n] = i /\ md[n].Next = nd[n].Next /\ n \in S
      OBVIOUS
    <3>2. nd[n].Next \in S
      BY <1>2, <3>1 DEF Closed
    <3> QED BY <3>1, <3>2
  <2>2. T \in SUBSET Node /\ a \in T
    BY <1>2
  <2> QED BY <1>1, <2>1, <2>2
<1> QED BY <1>1, <1>2 DEF Reaches

\* A way that begins in a block handed out stays in its bucket.
LEMMA ReachOwner ==
  ASSUME NEW owner, OwnedOK(owner), NEW a, NEW b, Reaches(node, a, b), a \in allocated
  PROVE  b \in allocated /\ owner[b] = owner[a]
<1> DEFINE S == {n \in Node : n \in allocated /\ owner[n] = owner[a]}
<1>1. a \in Node /\ \A T \in SUBSET Node : a \in T /\ Closed(node, T) => b \in T
  BY DEF Reaches
<1>2. Closed(node, S)
  BY DEF Closed, OwnedOK
<1>3. S \in SUBSET Node /\ a \in S
  BY <1>1
<1> QED BY <1>1, <1>2, <1>3
-----------------------------------------------------------------------------
(***************************************************************************)
(* Types.                                                                  *)
(***************************************************************************)
Label == {"idle", "load", "store"} \cup Adding \cup Finding

Job == [pc : Label, p : Rec \cup {NULL}, k : Nat, cur : Node \cup {NULL, JUNK},
        forks : BOOLEAN, due : SUBSET Rec, quiet : BOOLEAN]

Block == [Value : Rec \cup {NULL}, Next : Node \cup {NULL, JUNK}]

LEMMA Types ==
  ASSUME TypeOK
  PROVE  /\ ProcessId \in Nat /\ Pid \in [Rec -> Nat] /\ live \subseteq Rec /\ added \subseteq Rec
         /\ head \in [Bucket -> Node \cup {NULL}] /\ node \in [Node -> Block]
         /\ allocated \subseteq Node /\ overlapped \subseteq Bucket /\ contested \subseteq Rec
         /\ up \in BOOLEAN /\ th \in [Thread -> Job]
         /\ \A t \in Thread : th[t].pc \in Adding => th[t].cur # JUNK
  BY DEF TypeOK, Job, Block, Label

\* The invariant of the next state, from its parts.
LEMMA TypesNext ==
  ASSUME ProcessId' \in Nat, Pid' \in [Rec -> Nat], live' \subseteq Rec, added' \subseteq Rec,
         head' \in [Bucket -> Node \cup {NULL}], node' \in [Node -> Block],
         allocated' \subseteq Node, overlapped' \subseteq Bucket, contested' \subseteq Rec,
         up' \in BOOLEAN, th' \in [Thread -> Job],
         \A t \in Thread : th'[t].pc \in Adding => th'[t].cur # JUNK
  PROVE  TypeOK'
  BY DEF TypeOK, Job, Block, Label

LEMMA IndexType == \A k \in Nat : Index(k) \in Bucket
  BY TableAssumption DEF Index, Bucket

LEMMA IdleType == /\ Idle \in Job /\ Idle.pc = "idle" /\ Idle.p = NULL /\ Idle.cur = NULL
                  /\ Idle.due = {} /\ Idle.k = 0 /\ Idle.quiet = TRUE
  BY DEF Idle, Job, Label

\* One thread goes on.
LEMMA Becomes ==
  ASSUME NEW t \in Thread, NEW j \in Job, th \in [Thread -> Job], th' = [th EXCEPT ![t] = j]
  PROVE  th' \in [Thread -> Job] /\ th'[t] = j /\ \A u \in Thread : u # t => th'[u] = th[u]
  OBVIOUS
-----------------------------------------------------------------------------
(***************************************************************************)
(* Steps that leave the chains as they are.                                *)
(***************************************************************************)
\* A thread that does not move; another's step may take records from what its
\* search must not miss, and end its quiet.
Same(u) == /\ th'[u].pc = th[u].pc /\ th'[u].p = th[u].p /\ th'[u].k = th[u].k
           /\ th'[u].cur = th[u].cur /\ th'[u].due \subseteq th[u].due
           /\ th'[u].quiet => th[u].quiet

LEMMA SameStays ==
  ASSUME UNCHANGED <<head, node, allocated>>, overlapped \subseteq overlapped',
         NEW u \in Thread, Same(u), SearchOK(u),
         th[u].pc \in Finding => /\ \A r \in th'[u].due : r \in live' \cap added' /\ Pid'[r] = Pid[r]
                                 /\ th'[u].quiet => Pid' = Pid
  PROVE  SearchOK(u)' /\ \A owner : CursorOK(owner, u) => CursorOK(owner, u)'
<1>1. I(u)' = I(u)
  BY DEF Same, I
<1>2. ASSUME NEW owner, CursorOK(owner, u) PROVE CursorOK(owner, u)'
  BY <1>1, <1>2 DEF Same, CursorOK
<1>3. ASSUME th[u].pc \in Finding PROVE SearchOK(u)'
  <2>1. ASSUME NEW r \in th'[u].due PROVE Ahead(u, r)'
    <3>1. Ahead(u, r) /\ r \in live' \cap added' /\ Pid'[r] = Pid[r]
      BY <1>3, <2>1 DEF SearchOK, Same
    <3> QED BY <1>1, <3>1 DEF Ahead, Same
  <2>2. th'[u].pc = "last" /\ th'[u].quiet => node[th'[u].cur].Next = NULL \/ Matches(u)'
    BY <1>3 DEF SearchOK, Same, Matches
  <2> QED BY <2>1, <2>2 DEF SearchOK
<1> QED BY <1>2, <1>3 DEF SearchOK, Same

LEMMA HeldStays ==
  ASSUME UNCHANGED <<head, node, allocated>>, overlapped \subseteq overlapped', NEW owner, HeldOK(owner),
         \A r \in live' \cap added' : r \in live \cap added /\ Pid'[r] = Pid[r]
  PROVE  HeldOK(owner)'
<1> SUFFICES ASSUME NEW i \in Bucket \ overlapped'
             PROVE  /\ \A n \in allocated : owner[n] = i => Reaches(node, head[i], n)
                    /\ \A r \in live' \cap added' : Index(Pid'[r]) = i =>
                         \E n \in allocated : owner[n] = i /\ node[n].Value = r
  BY DEF HeldOK
<1> QED BY DEF HeldOK

\* One thread moves, the others stay.
LEMMA StepKeeps ==
  ASSUME IInv, TypeOK', RecordOK', UNCHANGED <<head, node, allocated>>, overlapped \subseteq overlapped',
         NEW t \in Thread, \A u \in Thread : u # t => Same(u),
         \A u \in Thread : u # t /\ th[u].pc \in Finding =>
           /\ \A r \in th'[u].due : r \in live' \cap added' /\ Pid'[r] = Pid[r]
           /\ th'[u].quiet => Pid' = Pid,
         \A r \in live' \cap added' : r \in live \cap added /\ Pid'[r] = Pid[r],
         AppendOK(t)', SearchOK(t)', \A owner : TableOK(owner) => CursorOK(owner, t)',
         th'[t].pc \in Appending =>
           \A u \in Thread : u # t /\ th[u].pc \in Appending /\ I(u) = I(t)' => I(u) \in overlapped'
  PROVE  IInv'
<1>1. \A u \in Thread : SearchOK(u)'
  BY SameStays DEF IInv
<1>2. ASSUME NEW u \in Thread PROVE AppendOK(u)'
  <2>1. CASE u = t
    BY <2>1
  <2>2. CASE u # t
    <3>1. Same(u) /\ AppendOK(u) /\ I(u)' = I(u)
      BY <2>2 DEF IInv, Same, I
    <3> SUFFICES ASSUME th[u].pc \in Appending, I(u) \notin overlapped' PROVE AppendOK(u)'
      BY <3>1 DEF AppendOK, Same
    <3>2. ASSUME NEW w \in Thread, th'[w].pc \in Appending, I(w)' = I(u) PROVE w = u
      <4>1. CASE w = t
        BY <2>2, <3>2, <4>1
      <4>2. CASE w # t
        BY <3>1, <3>2, <4>2 DEF AppendOK, Same, I
      <4> QED BY <4>1, <4>2
    <3> QED BY <3>1, <3>2 DEF AppendOK, Same
  <2> QED BY <2>1, <2>2
<1>3. PICK owner \in [Node -> Bucket] : TableOK(owner)
  BY DEF IInv
<1>4. OwnedOK(owner)' /\ HeldOK(owner)'
  BY <1>3, HeldStays DEF TableOK, OwnedOK
<1>5. \A u \in Thread : CursorOK(owner, u)'
  BY <1>3, SameStays DEF TableOK, IInv
<1> QED BY <1>1, <1>2, <1>3, <1>4, <1>5 DEF IInv, TableOK

\* The thread that moves changes nothing but where it is.
LEMMA MoveKeeps ==
  ASSUME IInv, TypeOK', RecordOK', UNCHANGED <<Pid, live, head, node, allocated, added>>,
         overlapped \subseteq overlapped',
         NEW t \in Thread, \A u \in Thread : u # t => th'[u] = th[u],
         AppendOK(t)', SearchOK(t)', \A owner : TableOK(owner) => CursorOK(owner, t)',
         th'[t].pc \in Appending =>
           \A u \in Thread : u # t /\ th[u].pc \in Appending /\ I(u) = I(t)' => I(u) \in overlapped'
  PROVE  IInv'
<1>1. \A u \in Thread : u # t => Same(u)
  BY DEF Same
<1>2. \A u \in Thread : u # t /\ th[u].pc \in Finding =>
        /\ \A r \in th'[u].due : r \in live' \cap added' /\ Pid'[r] = Pid[r]
        /\ th'[u].quiet => Pid' = Pid
  BY DEF IInv, SearchOK, Ahead
<1> QED BY <1>1, <1>2, StepKeeps

-----------------------------------------------------------------------------
(***************************************************************************)
(* FindInProcessTable.                                                     *)
(***************************************************************************)
\* A step of a search, to j.
LEMMA SearchKeeps ==
  ASSUME IInv, UNCHANGED table, up' \in BOOLEAN, NEW t \in Thread, th[t].pc \notin Creating, NEW j \in Job,
         th' = [th EXCEPT ![t] = j], j.pc \in {"idle"} \cup Finding,
         SearchOK(t)', \A owner : TableOK(owner) => CursorOK(owner, t)'
  PROVE  IInv'
<1>1. /\ th' \in [Thread -> Job] /\ th'[t] = j /\ \A u \in Thread : u # t => th'[u] = th[u]
      /\ TypeOK
  BY Types, Becomes DEF IInv
<1>2. j.pc \notin Creating \cup {"load", "store", "bucket"}
  BY DEF Creating, Adding, Finding
<1>3. TypeOK'
  <2>1. \A u \in Thread : th'[u].pc \in Adding => th'[u].cur # JUNK
    BY <1>1, <1>2, Types DEF Creating
  <2>2. UNCHANGED <<ProcessId, Pid, live, head, node, allocated, added, overlapped, contested>>
    BY DEF table
  <2> QED BY <1>1, <2>1, <2>2, Types, TypesNext
<1>4. RecordOK'
  BY <1>1, <1>2 DEF IInv, RecordOK, table, Creating
<1>5. AppendOK(t)' /\ th'[t].pc \notin Appending
  BY <1>1, <1>2 DEF AppendOK, Creating, Appending
<1> QED BY <1>1, <1>3, <1>4, <1>5, MoveKeeps DEF table

LEMMA ReturnKeeps ==
  ASSUME IInv, UNCHANGED table, NEW t \in Thread, th[t].pc \notin Creating,
         NEW r \in Rec \cup {NULL}, Return(t, r)
  PROVE  IInv'
<1> DEFINE j == [Idle EXCEPT !.p = r]
<1>1. j \in Job /\ j.pc = "idle"
  BY IdleType DEF Job
<1>2. th' = [th EXCEPT ![t] = j] /\ up' \in BOOLEAN
  BY Types DEF Return, IInv
<1> HIDE DEF j
<1>3. th'[t].pc = "idle"
  BY <1>1, <1>2, Types, Becomes DEF IInv
<1>4. SearchOK(t)' /\ \A owner : CursorOK(owner, t)'
  BY <1>3 DEF SearchOK, CursorOK, Finding, Appending, Adding
<1> QED BY <1>1, <1>2, <1>4, SearchKeeps

LEMMA CrashKeeps == ASSUME IInv, UNCHANGED table, NEW t \in Thread, th[t].pc \in Finding, Crash PROVE IInv'
<1>1. th' = [th EXCEPT ![t] = th[t]] /\ up' \in BOOLEAN /\ th[t] \in Job /\ th[t].pc \notin Creating
  BY Types DEF Crash, IInv, Finding, Creating, Adding
<1>2. SearchOK(t)' /\ \A owner : TableOK(owner) => CursorOK(owner, t)'
  <2>1. SearchOK(t)'
    BY DEF IInv, SearchOK, Ahead, Matches, I, Crash, table
  <2>2. \A owner : TableOK(owner) => CursorOK(owner, t)'
    BY DEF TableOK, CursorOK, I, Crash, table
  <2> QED BY <2>1, <2>2
<1> QED BY <1>1, <1>2, SearchKeeps

LEMMA FindKeeps == ASSUME IInv, NEW t \in Thread, NEW k \in 0..MaxPid, Find(t, k) PROVE IInv'
<1> DEFINE due == {r \in live \cap added : Pid[r] = k}
           j == [Idle EXCEPT !.pc = "test", !.k = k, !.cur = head[Index(k)], !.due = due]
<1>1. k \in Nat /\ Index(k) \in Bucket /\ head[Index(k)] \in Node \cup {NULL} /\ th[t].pc = "idle"
  BY TableAssumption, IndexType, Types DEF Find, At, IInv
<1>2. /\ j \in Job /\ j.pc = "test" /\ j.k = k /\ j.cur = head[Index(k)] /\ j.due = due
      /\ th[t].pc \notin Creating
  BY <1>1, IdleType, Types DEF Job, Label, Finding, IInv, Creating, Adding
<1>3. th' = [th EXCEPT ![t] = j] /\ up' \in BOOLEAN /\ UNCHANGED table
  BY Types DEF Find, IInv
<1>4. \A r \in due : r \in live \cap added /\ Pid[r] = k
  OBVIOUS
<1> HIDE DEF j, due
<1>5. th'[t] = j
  BY <1>2, <1>3, Types, Becomes DEF IInv
<1>6. I(t)' = Index(k)
  BY <1>2, <1>5 DEF I
<1>7. PICK owner \in [Node -> Bucket] : TableOK(owner)
  BY DEF IInv
<1>8. SearchOK(t)'
  <2>1. ASSUME NEW r \in due, Index(k) \notin overlapped
        PROVE  \E n \in Node : Reaches(node, head[Index(k)], n) /\ node[n].Value = r
    BY <1>1, <1>4, <1>7, <2>1, Types DEF TableOK, HeldOK, IInv
  <2>2. \A r \in due : Ahead(t, r)'
    BY <1>2, <1>3, <1>4, <1>5, <1>6, <2>1 DEF Ahead, table
  <2> QED BY <1>2, <1>5, <2>2 DEF SearchOK
<1>9. ASSUME NEW own, TableOK(own) PROVE CursorOK(own, t)'
  <2>1. head[Index(k)] # NULL => head[Index(k)] \in allocated /\ own[head[Index(k)]] = Index(k)
    BY <1>1, <1>9 DEF TableOK, OwnedOK
  <2> QED BY <1>1, <1>2, <1>3, <1>5, <1>6, <2>1, TableAssumption DEF CursorOK, table
<1> QED BY <1>2, <1>3, <1>8, <1>9, SearchKeeps DEF Finding

LEMMA Cursors == IInv => \E owner \in [Node -> Bucket] : TableOK(owner) /\ \A t \in Thread : CursorOK(owner, t)
  BY DEF IInv, TableOK

\* The search goes on with the same block.
LEMMA GotoKeeps ==
  ASSUME IInv, UNCHANGED <<table, up>>, NEW t \in Thread, th[t].pc \in Finding,
         NEW l \in Finding \ {"test"}, Goto(t, l),
         IF l = "next" THEN th[t].cur # NULL ELSE th[t].cur \in Node,
         l = "match" => node[th[t].cur].Next # NULL,
         l = "last" => node[th[t].cur].Next = NULL \/ Matches(t),
         l = "compare" => \A r \in th[t].due : I(t) \notin overlapped => node[th[t].cur].Value = r
  PROVE  IInv'
<1> DEFINE j == [th[t] EXCEPT !.pc = l]
<1>1. th[t] \in Job /\ th \in [Thread -> Job] /\ th[t].pc \notin Creating
  BY Types DEF IInv, Finding, Creating, Adding
<1>2. /\ j \in Job /\ j.pc = l /\ j.p = th[t].p /\ j.k = th[t].k /\ j.cur = th[t].cur
      /\ j.due = th[t].due /\ j.quiet = th[t].quiet
  BY <1>1 DEF Job, Label
<1>3. th' = [th EXCEPT ![t] = j] /\ up' \in BOOLEAN /\ UNCHANGED table
  BY Types DEF Goto, IInv
<1> HIDE DEF j
<1>4. th'[t] = j
  BY <1>1, <1>3
<1>5. I(t)' = I(t)
  BY <1>2, <1>4 DEF I
<1>6. SearchOK(t)'
  <2>1. ASSUME NEW r \in th[t].due PROVE Ahead(t, r)'
    <3>1. Ahead(t, r)
      BY DEF IInv, SearchOK
    <3> QED BY <1>2, <1>4, <1>5, <3>1 DEF Ahead, table
  <2>2. Matches(t)' <=> Matches(t)
    BY <1>2, <1>4 DEF Matches, table
  <2> QED BY <1>2, <1>4, <2>1, <2>2 DEF SearchOK, table
<1>7. ASSUME NEW owner, TableOK(owner) PROVE CursorOK(owner, t)'
  <2>1. CursorOK(owner, t)
    BY <1>7 DEF TableOK
  <2>2. l \notin Adding
    BY DEF Finding, Adding
  <2>3. l # "test" /\ l # "headValue" /\ l # "nextValue" /\ l # "walk" /\ l # "newNext"
    BY <2>2 DEF Adding
  <2> QED BY <1>2, <1>4, <1>5, <2>1, <2>3, TableAssumption DEF CursorOK, table
<1> QED BY <1>1, <1>2, <1>3, <1>6, <1>7, SearchKeeps

\* The search goes on to the next block, for none of the records it must not
\* miss is in this one.
LEMMA NextBlockKeeps ==
  ASSUME IInv, UNCHANGED <<table, up>>, NEW t \in Thread, th[t].pc = "match", Differs(t),
         th' = [th EXCEPT ![t].pc = "next", ![t].cur = node[@].Next]
  PROVE  IInv'
<1> DEFINE j == [th[t] EXCEPT !.pc = "next", !.cur = node[@].Next]
<1>1. th[t] \in Job /\ th \in [Thread -> Job] /\ th[t].pc \notin Creating /\ th[t].pc \in Finding
  BY Types DEF IInv, Finding, Creating, Adding
<1>2. PICK owner \in [Node -> Bucket] : TableOK(owner) /\ CursorOK(owner, t)
  BY Cursors
<1>3. th[t].cur \in Node /\ node[th[t].cur].Next # NULL
  BY <1>2 DEF CursorOK
<1>4. node[th[t].cur] \in Block
  BY <1>3, Types DEF IInv
<1>5. /\ j \in Job /\ j.pc = "next" /\ j.k = th[t].k /\ j.cur = node[th[t].cur].Next
      /\ j.due = th[t].due
  BY <1>1, <1>4 DEF Job, Label, Finding, Block
<1>6. th' = [th EXCEPT ![t] = j] /\ up' \in BOOLEAN /\ UNCHANGED table
  BY Types DEF IInv
<1> HIDE DEF j
<1>7. th'[t] = j
  BY <1>1, <1>6
<1>8. I(t)' = I(t)
  BY <1>5, <1>7 DEF I
<1>9. SearchOK(t)'
  <2>1. ASSUME NEW r \in th[t].due PROVE Ahead(t, r)'
    <3>1. Ahead(t, r)
      BY <1>1 DEF IInv, SearchOK
    <3>2. r # NULL /\ node[th[t].cur].Value # r
      BY <3>1, Types, TableAssumption DEF Ahead, Differs, Matches, IInv
    <3>3. ASSUME NEW n \in Node, Reaches(node, th[t].cur, n), node[n].Value = r
          PROVE  Reaches(node, node[th[t].cur].Next, n)
      BY <3>2, <3>3, ReachSplit
    <3> QED BY <1>5, <1>6, <1>7, <1>8, <3>1, <3>3 DEF Ahead, table
  <2> QED BY <1>5, <1>7, <2>1 DEF SearchOK
<1>10. ASSUME NEW own, TableOK(own) PROVE CursorOK(own, t)'
  <2>1. CursorOK(own, t) /\ OwnedOK(own)
    BY <1>10 DEF TableOK
  <2>2. j.cur \in Node => j.cur \in allocated /\ own[j.cur] = I(t)
    BY <1>1, <1>3, <1>5, <2>1 DEF CursorOK, OwnedOK
  <2> QED BY <1>3, <1>5, <1>6, <1>7, <1>8, <2>2 DEF CursorOK, table
<1> QED BY <1>1, <1>5, <1>6, <1>9, <1>10, SearchKeeps DEF Finding

LEMMA SearchesKeep == ASSUME IInv, NEW t \in Thread, Search(t) PROVE IInv'
<1>1. PICK owner \in [Node -> Bucket] : TableOK(owner) /\ CursorOK(owner, t)
  BY Cursors
<1>2. th[t].pc \in Finding /\ th[t].pc \notin Creating
  BY DEF Search, FindTest, FindNext, FindMatch, FindLast, FindCompare, At, Finding, Creating, Adding
<1>3. UNCHANGED table
  BY DEF Search, FindTest, FindNext, FindMatch, FindLast, FindCompare
<1>4. CASE Crash
  BY <1>2, <1>3, <1>4, CrashKeeps
<1>5. CASE Return(t, NULL)
  BY <1>2, <1>3, <1>5, ReturnKeeps
<1>6. CASE th[t].pc \in {"last", "compare"} /\ Return(t, node[th[t].cur].Value)
  <2>1. th[t].cur \in Node
    BY <1>1, <1>6 DEF CursorOK
  <2>2. node[th[t].cur].Value \in Rec \cup {NULL}
    BY <2>1, Types DEF IInv, Block
  <2> QED BY <1>2, <1>3, <1>6, <2>2, ReturnKeeps
<1>7. CASE FindTest(t)
  <2>1. CASE th[t].cur # NULL /\ Goto(t, "next") /\ UNCHANGED up
    BY <1>2, <1>3, <2>1, GotoKeeps DEF Finding
  <2> QED BY <1>4, <1>5, <1>7, <2>1 DEF FindTest
<1>8. CASE FindNext(t)
  <2>1. CASE th[t].cur # JUNK /\ Goto(t, IF node[th[t].cur].Next = NULL THEN "last" ELSE "match") /\ UNCHANGED up
    <3>1. th[t].cur \in Node
      BY <1>1, <1>8, <2>1, Types DEF FindNext, At, CursorOK, IInv, Job
    <3>2. CASE node[th[t].cur].Next = NULL
      BY <1>2, <1>3, <2>1, <3>1, <3>2, GotoKeeps DEF Finding
    <3>3. CASE node[th[t].cur].Next # NULL
      BY <1>2, <1>3, <2>1, <3>1, <3>3, GotoKeeps DEF Finding
    <3> QED BY <3>2, <3>3
  <2> QED BY <1>4, <1>8, <2>1 DEF FindNext
<1>9. CASE FindMatch(t)
  <2>0. th[t].pc = "match" /\ th[t].cur \in Node
    BY <1>1, <1>9 DEF FindMatch, At, CursorOK
  <2>1. CASE Matches(t) /\ Goto(t, "last") /\ UNCHANGED up
    BY <1>2, <1>3, <2>0, <2>1, GotoKeeps DEF Finding
  <2>2. CASE Differs(t) /\ th' = [th EXCEPT ![t].pc = "next", ![t].cur = node[@].Next] /\ UNCHANGED up
    BY <1>3, <2>0, <2>2, NextBlockKeeps
  <2> QED BY <1>4, <1>9, <2>1, <2>2 DEF FindMatch
<1>10. CASE FindLast(t)
  <2>0. th[t].pc = "last" /\ th[t].cur \in Node
    BY <1>1, <1>10 DEF FindLast, At, CursorOK
  <2>1. CASE node[th[t].cur].Next = NULL /\ Goto(t, "compare") /\ UNCHANGED up
    <3>1. ASSUME NEW r \in th[t].due, I(t) \notin overlapped PROVE node[th[t].cur].Value = r
      <4>1. PICK n \in Node : Reaches(node, th[t].cur, n) /\ node[n].Value = r
        BY <1>2, <3>1 DEF IInv, SearchOK, Ahead
      <4>2. n = th[t].cur
        BY <2>1, <4>1, ReachSplit, TableAssumption
      <4> QED BY <4>1, <4>2
    <3> QED BY <1>2, <1>3, <2>0, <2>1, <3>1, GotoKeeps DEF Finding
  <2> QED BY <1>4, <1>6, <1>10, <2>0, <2>1 DEF FindLast
<1>11. CASE FindCompare(t)
  BY <1>4, <1>5, <1>6, <1>11 DEF FindCompare, At
<1> QED BY <1>7, <1>8, <1>9, <1>10, <1>11 DEF Search
-----------------------------------------------------------------------------
(***************************************************************************)
(* ProcessAlloc and PageDealloc.                                           *)
(***************************************************************************)
LEMMA CreateKeeps == ASSUME IInv, NEW t \in Thread, Create(t) PROVE IInv'
<1>1. PICK r \in Rec \ live :
        /\ live' = live \cup {r} /\ added' = added \ {r}
        /\ th' = [th EXCEPT ![t] = [Idle EXCEPT !.pc = "load", !.p = r, !.forks = (t = Main)]]
  BY DEF Create
<1> DEFINE j == [Idle EXCEPT !.pc = "load", !.p = r, !.forks = (t = Main)]
<1>2. j \in Job /\ j.pc = "load" /\ j.p = r /\ j.cur = NULL
  BY IdleType DEF Job, Label
<1>3. th' = [th EXCEPT ![t] = j]
  BY <1>1
<1> HIDE DEF j
<1>4. th' \in [Thread -> Job] /\ th'[t] = j /\ \A u \in Thread : u # t => th'[u] = th[u]
  BY <1>2, <1>3, Types, Becomes DEF IInv
<1>5. UNCHANGED <<ProcessId, Pid, head, node, allocated, up, overlapped, contested>>
  BY DEF Create
<1>6. "load" \notin Adding /\ "load" \in Creating /\ "load" \notin Finding
  BY DEF Adding, Creating, Finding
<1>7. TypeOK'
  <2>1. \A u \in Thread : th'[u].pc \in Adding => th'[u].cur # JUNK
    BY <1>2, <1>4, <1>6, Types DEF IInv
  <2> QED BY <1>1, <1>4, <1>5, <2>1, Types, TypesNext DEF IInv
<1>8. RecordOK'
  <2>1. RecordOK /\ \A u \in Thread : u # t /\ th'[u].pc \in Creating => th'[u].p \in live /\ th'[u].p # r
    BY <1>1, <1>4 DEF IInv, RecordOK
  <2>2. \A u \in Thread : th'[u].pc \in Creating => th'[u].p \in live' \ added'
    BY <1>1, <1>2, <1>4, <2>1 DEF RecordOK
  <2>3. \A u \in Thread : th'[u].pc \in Adding => Pid'[th'[u].p] = th'[u].k
    BY <1>2, <1>4, <1>5, <1>6, <2>1 DEF RecordOK
  <2>4. \A u, w \in Thread : th'[u].pc \in Creating /\ th'[w].pc \in Creating /\ th'[u].p = th'[w].p => u = w
    BY <1>2, <1>4, <2>1 DEF RecordOK
  <2>5. \A u \in Thread : th'[u].pc \in {"load", "store", "bucket"} => th'[u].cur = NULL
    BY <1>2, <1>4, <2>1 DEF RecordOK
  <2> QED BY <2>2, <2>3, <2>4, <2>5 DEF RecordOK
<1>9. \A u \in Thread : u # t /\ th[u].pc \in Finding => \A q \in th'[u].due : q \in live' \cap added'
  BY <1>1, <1>4 DEF IInv, SearchOK, Ahead
<1>10. AppendOK(t)' /\ SearchOK(t)' /\ \A owner : CursorOK(owner, t)'
  BY <1>2, <1>4, <1>6 DEF AppendOK, SearchOK, CursorOK, Appending
<1> QED BY <1>1, <1>2, <1>4, <1>5, <1>6, <1>7, <1>8, <1>9, <1>10, StepKeeps DEF Same, Appending

LEMMA LoadIdKeeps == ASSUME IInv, NEW t \in Thread, LoadId(t) PROVE IInv'
<1> DEFINE j == [th[t] EXCEPT !.pc = "store", !.k = ProcessId]
<1>1. th[t] \in Job /\ th \in [Thread -> Job] /\ ProcessId \in Nat /\ th[t].pc = "load"
  BY Types DEF IInv, LoadId, At
<1>2. j \in Job /\ j.pc = "store" /\ j.p = th[t].p /\ j.cur = th[t].cur
  BY <1>1 DEF Job, Label
<1>3. th' = [th EXCEPT ![t] = j]
  BY DEF LoadId
<1> HIDE DEF j
<1>4. th' \in [Thread -> Job] /\ th'[t] = j /\ \A u \in Thread : u # t => th'[u] = th[u]
  BY <1>1, <1>2, <1>3, Becomes
<1>5. UNCHANGED <<ProcessId, Pid, live, head, node, allocated, up, added, overlapped>>
  BY DEF LoadId
<1>6. {"load", "store"} \subseteq Creating /\ "store" \notin Adding /\ "store" \notin Finding
  BY DEF Adding, Creating, Finding
<1>7. TypeOK'
  <2>1. \A u \in Thread : th'[u].pc \in Adding => th'[u].cur # JUNK
    BY <1>2, <1>4, <1>6, Types DEF IInv
  <2>2. \A u \in Thread : th[u].pc \in {"load", "store"} => th[u].p \in Rec
    BY <1>6, Types DEF IInv, RecordOK
  <2>3. contested' \subseteq Rec
    BY <1>1, <2>2, Types DEF IInv, LoadId
  <2> QED BY <1>4, <1>5, <2>1, <2>3, Types, TypesNext DEF IInv
<1>8. RecordOK'
  BY <1>1, <1>2, <1>4, <1>5, <1>6 DEF IInv, RecordOK
<1>10. AppendOK(t)' /\ SearchOK(t)' /\ \A owner : CursorOK(owner, t)'
  BY <1>2, <1>4, <1>6 DEF AppendOK, SearchOK, CursorOK, Appending
<1> QED BY <1>2, <1>4, <1>5, <1>6, <1>7, <1>8, <1>10, MoveKeeps DEF Appending

LEMMA StoreIdKeeps == ASSUME IInv, NEW t \in Thread, StoreId(t) PROVE IInv'
<1> DEFINE l == IF th[t].forks THEN "load" ELSE "bucket"
           j == [th[t] EXCEPT !.pc = l, !.forks = FALSE]
<1>1. th[t] \in Job /\ th \in [Thread -> Job] /\ th[t].pc = "store"
  BY Types DEF IInv, StoreId, At
<1>2. /\ j \in Job /\ j.pc = l /\ j.p = th[t].p /\ j.k = th[t].k /\ j.cur = th[t].cur
      /\ l \in Creating \ (Appending \cup Finding)
  BY <1>1 DEF Job, Label, Creating, Appending, Adding, Finding
<1>3. th' = [u \in Thread |-> IF u = t THEN j ELSE [th[u] EXCEPT !.quiet = FALSE]]
  BY DEF StoreId
<1> HIDE DEF j, l
<1>4. /\ th' \in [Thread -> Job] /\ th'[t] = j
      /\ \A u \in Thread : u # t => Same(u) /\ th'[u].due = th[u].due /\ ~th'[u].quiet
  <2>1. ASSUME NEW u \in Thread PROVE [th[u] EXCEPT !.quiet = FALSE] \in Job
    BY <1>1 DEF Job
  <2> QED BY <1>1, <1>2, <1>3, <2>1 DEF Job, Same
<1>5. /\ UNCHANGED <<live, head, node, allocated, up, added, overlapped, contested>>
      /\ ProcessId' = th[t].k + 1 /\ Pid' = [Pid EXCEPT ![th[t].p] = th[t].k]
  BY DEF StoreId
<1>6. th[t].k \in Nat /\ th[t].p \in live \ added /\ th[t].p \in Rec
  BY <1>1, Types DEF Job, IInv, RecordOK, Creating
<1>7. /\ Pid' \in [Rec -> Nat] /\ Pid'[th[t].p] = th[t].k /\ \A r \in Rec : r # th[t].p => Pid'[r] = Pid[r]
      /\ ProcessId' \in Nat
  BY <1>5, <1>6, Types DEF IInv
<1>8. TypeOK'
  <2>1. ASSUME NEW u \in Thread, th'[u].pc \in Adding PROVE th'[u].cur # JUNK
    <3>1. CASE u = t
      BY <1>1, <1>2, <1>4, <3>1, TableAssumption DEF IInv, RecordOK
    <3>2. CASE u # t
      BY <1>4, <2>1, <3>2, Types DEF IInv, Same
    <3> QED BY <3>1, <3>2
  <2> QED BY <1>4, <1>5, <1>7, <2>1, Types, TypesNext DEF IInv
<1>9. RecordOK'
  BY <1>1, <1>2, <1>4, <1>5, <1>6, <1>7 DEF IInv, RecordOK, Same, Creating
<1>10. AppendOK(t)' /\ SearchOK(t)' /\ \A owner : CursorOK(owner, t)'
  BY <1>2, <1>4 DEF AppendOK, SearchOK, CursorOK, Appending, Adding, Finding
<1>11. \A r \in live \cap added : Pid'[r] = Pid[r]
  BY <1>6, <1>7, Types DEF IInv
<1>12. \A u \in Thread : th[u].pc \in Finding => \A r \in th[u].due : r \in live \cap added
  BY DEF IInv, SearchOK, Ahead
<1> QED BY <1>2, <1>4, <1>5, <1>8, <1>9, <1>10, <1>11, <1>12, StepKeeps DEF Appending

LEMMA FreeKeeps == ASSUME IInv, NEW r \in Rec, Free(r) PROVE IInv'
<1>1. /\ UNCHANGED <<ProcessId, Pid, head, node, allocated, up, added, overlapped, contested>>
      /\ r \in live \cap added /\ live' = live \ {r}
      /\ th' = [t \in Thread |-> [th[t] EXCEPT !.due = @ \ {r}]]
  BY DEF Free
<1>2. th \in [Thread -> Job] /\ Main \in Thread
  BY Types, TableAssumption DEF IInv
<1>3. /\ th' \in [Thread -> Job]
      /\ \A u \in Thread : /\ Same(u) /\ th'[u].due = th[u].due \ {r}
                           /\ th'[u].quiet = th[u].quiet
  <2>1. ASSUME NEW u \in Thread PROVE [th[u] EXCEPT !.due = @ \ {r}] \in Job
    BY <1>2 DEF Job
  <2> QED BY <1>1, <1>2, <2>1 DEF Job, Same
<1>4. TypeOK'
  <2>1. \A u \in Thread : th'[u].pc \in Adding => th'[u].cur # JUNK
    BY <1>3, Types DEF IInv, Same
  <2> QED BY <1>1, <1>3, <2>1, Types, TypesNext DEF IInv
<1>5. RecordOK'
  BY SMTT(30), <1>1, <1>3 DEF IInv, RecordOK, Same
<1>6. ASSUME NEW u \in Thread, th[u].pc \in Finding, NEW q \in th'[u].due PROVE q \in live' \cap added'
  <2>1. SearchOK(u) /\ q \in th[u].due /\ q # r
    BY <1>3, <1>6 DEF IInv
  <2> QED BY <1>1, <1>6, <2>1 DEF SearchOK, Ahead
<1>7. AppendOK(Main)'
  <2>1. \A u \in Thread : Same(u) /\ I(u)' = I(u) /\ th'[u].pc = th[u].pc /\ th'[u].cur = th[u].cur
    BY <1>3 DEF Same, I
  <2>2. AppendOK(Main)
    BY <1>2 DEF IInv
  <2> QED BY <1>1, <1>2, <2>1, <2>2 DEF AppendOK
<1>8. SearchOK(Main)' /\ \A owner : CursorOK(owner, Main) => CursorOK(owner, Main)'
  BY <1>1, <1>2, <1>3, <1>6, SameStays DEF IInv
<1>9. \A u \in Thread : th[u].pc \in Appending /\ u # Main /\ I(u) = I(Main)' /\ th'[Main].pc \in Appending
        => I(u) \in overlapped'
  BY ZenonT(60), <1>1, <1>2, <1>3 DEF IInv, AppendOK, Same, I
<1> QED BY <1>1, <1>2, <1>3, <1>4, <1>5, <1>6, <1>7, <1>8, <1>9, StepKeeps DEF TableOK
-----------------------------------------------------------------------------
(***************************************************************************)
(* AddToProcessTable, up to the block.                                     *)
(***************************************************************************)
LEMMA Labels == /\ Adding \subseteq Creating /\ Appending \subseteq Adding /\ Adding \cap Finding = {}
                /\ Adding = Appending \cup {"bucket"} /\ "bucket" \notin Appending
                /\ Finding \cap Creating = {} /\ "idle" \notin Creating \cup Finding
                /\ Appending = {"newHead", "headValue", "walk", "newNext", "nextValue"}
                /\ {"load", "store"} \cap (Adding \cup Finding) = {}
                /\ Finding = {"test", "next", "match", "last", "compare"}
  BY DEF Creating, Appending, Adding, Finding

\* A step of a call that adds, to j.
LEMMA AddKeeps ==
  ASSUME IInv, UNCHANGED <<ProcessId, Pid, live, head, node, allocated, added, contested>>, up' \in BOOLEAN,
         overlapped \subseteq overlapped', overlapped' \subseteq Bucket,
         NEW t \in Thread, th[t].pc \in Adding, NEW j \in Job,
         th' = [th EXCEPT ![t] = j], j.pc \in Appending, j.p = th[t].p, j.k = th[t].k, j.cur # JUNK,
         AppendOK(t)', \A owner : TableOK(owner) => CursorOK(owner, t)',
         \A u \in Thread : u # t /\ th[u].pc \in Appending /\ I(u) = I(t) => I(u) \in overlapped'
  PROVE  IInv'
<1>1. /\ th' \in [Thread -> Job] /\ th'[t] = j /\ \A u \in Thread : u # t => th'[u] = th[u]
      /\ TypeOK
  BY Types, Becomes DEF IInv
<1>2. TypeOK'
  <2>1. \A u \in Thread : th'[u].pc \in Adding => th'[u].cur # JUNK
    BY <1>1, Types
  <2> QED BY <1>1, <2>1, Types, TypesNext
<1>3. RecordOK'
  <2>1. j.pc \in Creating /\ j.pc \in Adding /\ j.pc \notin {"load", "store", "bucket"} /\ th[t].pc \in Creating
    BY Labels
  <2> QED BY <1>1, <2>1 DEF IInv, RecordOK
<1>4. SearchOK(t)' /\ I(t)' = I(t)
  BY <1>1, Labels DEF SearchOK, I
<1> QED BY <1>1, <1>2, <1>3, <1>4, MoveKeeps

LEMMA TestBucketKeeps == ASSUME IInv, NEW t \in Thread, TestBucket(t) PROVE IInv'
<1> DEFINE l == IF head[I(t)] = NULL THEN "newHead" ELSE "walk"
           j == [th[t] EXCEPT !.pc = l, !.cur = head[I(t)]]
<1>1. th[t] \in Job /\ th \in [Thread -> Job] /\ th[t].pc = "bucket" /\ th[t].k \in Nat
  BY Types DEF IInv, TestBucket, At, Job
<1>2. I(t) \in Bucket /\ head[I(t)] \in Node \cup {NULL}
  BY <1>1, IndexType, Types DEF I, IInv
<1>3. /\ j \in Job /\ j.pc = l /\ j.p = th[t].p /\ j.k = th[t].k /\ j.cur = head[I(t)]
      /\ l \in {"newHead", "walk"}
  BY <1>1, <1>2 DEF Job, Label, Adding
<1>4. /\ UNCHANGED <<ProcessId, Pid, live, head, node, allocated, up, added, contested>>
      /\ th' = [th EXCEPT ![t] = j]
      /\ overlapped' \in {overlapped, overlapped \cup {I(t)}}
      /\ \A u \in Thread : u # t /\ th[u].pc \in Appending /\ I(u) = I(t) => I(t) \in overlapped'
  BY DEF TestBucket, I, Appending
<1>5. l = "newHead" => head[I(t)] = NULL
  OBVIOUS
<1>6. l = "walk" => head[I(t)] \in Node
  BY <1>2
<1> HIDE DEF l, j
<1>7. th'[t] = j /\ I(t)' = I(t) /\ \A u \in Thread : u # t => th'[u] = th[u] /\ I(u)' = I(u)
  BY <1>1, <1>3, <1>4 DEF I
<1>8. AppendOK(t)'
  BY <1>3, <1>4, <1>5, <1>7 DEF AppendOK
<1>9. ASSUME NEW owner, TableOK(owner) PROVE CursorOK(owner, t)'
  <2>1. head[I(t)] # NULL => head[I(t)] \in allocated /\ owner[head[I(t)]] = I(t)
    BY <1>2, <1>9 DEF TableOK, OwnedOK
  <2> QED BY <1>2, <1>3, <1>4, <1>6, <1>7, <2>1, TableAssumption DEF CursorOK
<1>10. overlapped \subseteq overlapped' /\ overlapped' \subseteq Bucket /\ up' \in BOOLEAN /\ j.cur # JUNK
  BY <1>2, <1>3, <1>4, Types, TableAssumption DEF IInv
<1> QED BY <1>1, <1>3, <1>4, <1>8, <1>9, <1>10, AddKeeps, Labels

LEMMA WalkKeeps == ASSUME IInv, NEW t \in Thread, Walk(t) PROVE IInv'
<1> DEFINE next == node[th[t].cur].Next
<1>1. /\ th[t] \in Job /\ th \in [Thread -> Job] /\ th[t].pc = "walk" /\ th[t].cur # JUNK
      /\ up \in BOOLEAN
  BY Types, Labels DEF IInv, Walk, At
<1>2. PICK owner \in [Node -> Bucket] : TableOK(owner) /\ CursorOK(owner, t)
  BY Cursors
<1>3. th[t].cur \in Node
  BY <1>1, <1>2 DEF CursorOK
<1>4. UNCHANGED <<ProcessId, Pid, live, head, node, allocated, added, overlapped, contested>>
  BY DEF Walk
<1>5. \A u \in Thread : u # t /\ th[u].pc \in Appending /\ I(u) = I(t) => I(u) \in overlapped'
  BY <1>1, <1>4, Labels DEF IInv, AppendOK
<1>6. overlapped' \subseteq Bucket
  BY <1>4, Types DEF IInv
<1> HIDE DEF next
<1>7. CASE next = JUNK /\ Crash
  <2>1. th' = [th EXCEPT ![t] = th[t]] /\ up' \in BOOLEAN /\ th' = th
    BY <1>1, <1>7 DEF Crash
  <2>2. AppendOK(t)' /\ \A own : TableOK(own) => CursorOK(own, t)'
    BY <1>4, <2>1 DEF IInv, AppendOK, TableOK, CursorOK, I
  <2> QED BY <1>1, <1>4, <1>5, <1>6, <2>1, <2>2, AddKeeps, Labels
<1>8. CASE next = NULL /\ Goto(t, "newNext") /\ UNCHANGED up
  <2> DEFINE j == [th[t] EXCEPT !.pc = "newNext"]
  <2>1. j \in Job /\ j.pc = "newNext" /\ j.p = th[t].p /\ j.k = th[t].k /\ j.cur = th[t].cur
    BY <1>1 DEF Job, Label, Adding
  <2>2. th' = [th EXCEPT ![t] = j] /\ up' \in BOOLEAN
    BY <1>1, <1>8 DEF Goto
  <2> HIDE DEF j
  <2>3. th'[t] = j /\ I(t)' = I(t) /\ \A u \in Thread : u # t => th'[u] = th[u] /\ I(u)' = I(u)
    BY <1>1, <2>1, <2>2 DEF I
  <2>4. AppendOK(t)'
    BY <1>1, <1>4, <1>8, <2>1, <2>3, Labels DEF IInv, AppendOK, next
  <2>5. ASSUME NEW own, TableOK(own) PROVE CursorOK(own, t)'
    <3>1. th[t].cur \in allocated /\ own[th[t].cur] = I(t)
      BY <1>1, <1>3, <2>5, Labels DEF TableOK, CursorOK
    <3> QED BY <1>3, <1>4, <2>1, <2>3, <3>1 DEF CursorOK
  <2> QED BY <1>1, <1>4, <1>5, <1>6, <2>1, <2>2, <2>4, <2>5, AddKeeps, Labels
<1>9. CASE next \in Node /\ th' = [th EXCEPT ![t].cur = next] /\ UNCHANGED up
  <2> DEFINE j == [th[t] EXCEPT !.cur = next]
  <2>1. j \in Job /\ j.pc = "walk" /\ j.p = th[t].p /\ j.k = th[t].k /\ j.cur = next /\ j.cur # JUNK
    BY <1>1, <1>9, TableAssumption DEF Job
  <2>2. th' = [th EXCEPT ![t] = j] /\ up' \in BOOLEAN
    BY <1>1, <1>9
  <2> HIDE DEF j
  <2>3. th'[t] = j /\ I(t)' = I(t) /\ \A u \in Thread : u # t => th'[u] = th[u] /\ I(u)' = I(u)
    BY <1>1, <2>1, <2>2 DEF I
  <2>4. AppendOK(t)'
    BY <1>1, <1>4, <2>1, <2>3, Labels DEF IInv, AppendOK
  <2>5. ASSUME NEW own, TableOK(own) PROVE CursorOK(own, t)'
    <3>1. th[t].cur \in allocated /\ own[th[t].cur] = I(t) /\ OwnedOK(own)
      BY <1>1, <1>3, <2>5, Labels DEF TableOK, CursorOK
    <3>2. next \in allocated /\ own[next] = I(t)
      BY <1>3, <1>9, <3>1 DEF OwnedOK, next
    <3>3. th'[t].pc = "walk" /\ th'[t].cur = next /\ next \in Node
      BY <1>9, <2>1, <2>3
    <3> QED BY <1>4, <2>3, <3>2, <3>3 DEF CursorOK
  <2> QED BY <1>1, <1>4, <1>5, <1>6, <2>1, <2>2, <2>4, <2>5, AddKeeps, Labels
<1> QED BY <1>7, <1>8, <1>9 DEF Walk, next
-----------------------------------------------------------------------------
(***************************************************************************)
(* AddToProcessTable, from the block on.                                   *)
(***************************************************************************)
\* A step that appends to bucket i: it leaves the other buckets, and what was
\* there stays unless calls overlap in the bucket.
Grown(owner, own, i) ==
  /\ allocated \subseteq allocated'
  /\ \A n \in allocated :
       /\ own[n] = owner[n]
       /\ owner[n] # i => node'[n] = node[n]
       /\ node[n].Next # NULL => node'[n].Next # NULL
       /\ node[n].Next \in Node => node'[n].Next \in Node
       /\ i \notin overlapped => /\ node[n].Next \in Node => node'[n].Next = node[n].Next
                                 /\ node[n].Value # NULL => node'[n].Value = node[n].Value
  /\ \A j \in Bucket : j # i => head'[j] = head[j]
  /\ head[i] \in Node => head'[i] \in Node /\ (i \notin overlapped => head'[i] = head[i])

\* What was reached in a bucket still is.
LEMMA GrownReaches ==
  ASSUME NEW owner, NEW own, NEW i, NEW j, Grown(owner, own, i), OwnedOK(owner), TypeOK,
         j \notin overlapped, NEW a, NEW b, a \in allocated, owner[a] = j, Reaches(node, a, b)
  PROVE  /\ Reaches(node', a, b) /\ b \in allocated /\ owner[b] = j /\ own[b] = j
         /\ node[b].Value # NULL => node'[b].Value = node[b].Value
<1>1. \A n \in Node : node[n].Next \in Node => owner[node[n].Next] = owner[n]
  BY DEF OwnedOK
<1>2. \A n \in Node : owner[n] = j /\ node[n].Next \in Node => node'[n].Next = node[n].Next
  <2>1. \A n \in Node : node[n].Next \in Node => n \in allocated
    BY DEF OwnedOK
  <2> QED BY <2>1 DEF Grown
<1>3. Reaches(node', a, b)
  BY <1>1, <1>2, ReachKeeps
<1>4. b \in allocated /\ owner[b] = j
  BY ReachOwner
<1> QED BY <1>3, <1>4 DEF Grown

\* The other threads.
LEMMA GrownOthers ==
  ASSUME IInv, NEW owner, TableOK(owner), NEW own, NEW t \in Thread, Grown(owner, own, I(t)),
         th[t].pc \in Appending, UNCHANGED <<Pid, live, overlapped>>, added \subseteq added',
         NEW u \in Thread, Same(u), th'[u].quiet => ~(th[u].pc \in Finding /\ I(u) = I(t))
  PROVE  CursorOK(own, u)' /\ SearchOK(u)'
<1>1. TypeOK /\ OwnedOK(owner) /\ CursorOK(owner, u) /\ SearchOK(u)
  BY DEF IInv, TableOK
<1>2. I(u)' = I(u)
  BY DEF Same, I
<1>3. th[u].k \in Nat /\ I(u) \in Bucket
  BY <1>1, Types, IndexType DEF Job, I
<1>4. CursorOK(own, u)'
  <2>1. th'[u].pc = th[u].pc /\ th'[u].cur = th[u].cur
    BY DEF Same
  <2>2. th[u].pc \in Appending \cup Finding /\ th[u].cur \in Node =>
          th[u].cur \in allocated /\ owner[th[u].cur] = I(u)
    BY <1>1 DEF CursorOK
  <2>3. th[u].pc = "headValue" => head'[I(u)] \in Node
    BY <1>1, <1>3 DEF CursorOK, Grown
  <2>4. th[u].pc = "nextValue" => node'[th[u].cur].Next \in Node
    BY <1>1, <2>2, Labels DEF CursorOK, Grown
  <2>5. th[u].pc = "match" => node'[th[u].cur].Next # NULL
    BY <1>1, <2>2, Labels DEF CursorOK, Grown
  <2>6. th[u].pc \in Appending \cup Finding /\ th[u].cur \in Node =>
          th[u].cur \in allocated' /\ own[th[u].cur] = I(u)
    BY <2>2 DEF Grown
  <2> QED BY <1>1, <1>2, <2>1, <2>3, <2>4, <2>5, <2>6 DEF CursorOK
<1>5. ASSUME th[u].pc \in Finding PROVE SearchOK(u)'
  <2>1. ASSUME NEW r \in th'[u].due PROVE Ahead(u, r)'
    <3>1. Ahead(u, r)
      BY <1>1, <1>5, <2>1 DEF SearchOK, Same
    <3>2. r \in live' \cap added' /\ Pid'[r] = th'[u].k /\ r # NULL
      BY <1>1, <3>1, Types, TableAssumption DEF Ahead, Same
    <3>3. ASSUME I(u) \notin overlapped
          PROVE  /\ \E n \in Node : Reaches(node', th[u].cur, n) /\ node'[n].Value = r
                 /\ th[u].pc = "compare" => node'[th[u].cur].Value = r
      <4>1. PICK n \in Node : Reaches(node, th[u].cur, n) /\ node[n].Value = r
        BY <3>1, <3>3 DEF Ahead
      <4>2. th[u].cur \in Node
        BY <4>1 DEF Reaches
      <4>3. th[u].cur \in allocated /\ owner[th[u].cur] = I(u)
        BY <1>1, <1>5, <4>2 DEF CursorOK
      <4>4. Reaches(node', th[u].cur, n) /\ node'[n].Value = r
        BY <1>1, <3>2, <3>3, <4>1, <4>3, GrownReaches
      <4>5. ASSUME th[u].pc = "compare" PROVE node'[th[u].cur].Value = r
        <5>1. node[th[u].cur].Value = r
          BY <3>1, <3>3, <4>5 DEF Ahead
        <5> QED BY <1>1, <3>2, <3>3, <4>2, <4>3, <5>1, ReachSelf, GrownReaches
      <4> QED BY <4>4, <4>5
    <3> QED BY <1>2, <3>2, <3>3 DEF Ahead, Same
  <2>2. ASSUME th'[u].pc = "last", th'[u].quiet PROVE node'[th'[u].cur].Next = NULL \/ Matches(u)'
    <3>1. th[u].pc = "last" /\ th[u].quiet /\ I(u) # I(t) /\ th'[u].cur = th[u].cur /\ th'[u].k = th[u].k
      BY <1>5, <2>2 DEF Same
    <3>2. th[u].cur \in Node
      BY <1>1, <3>1 DEF CursorOK
    <3>3. th[u].cur \in allocated /\ owner[th[u].cur] = I(u)
      BY <1>1, <1>5, <3>2 DEF CursorOK
    <3>4. node'[th[u].cur] = node[th[u].cur]
      BY <3>1, <3>3 DEF Grown
    <3>5. node[th[u].cur].Next = NULL \/ Matches(u)
      BY <1>1, <1>5, <3>1 DEF SearchOK
    <3> QED BY <3>1, <3>4, <3>5 DEF Matches
  <2> QED BY <2>1, <2>2 DEF SearchOK
<1> QED BY <1>4, <1>5 DEF SearchOK, Same

LEMMA GrownAppend ==
  ASSUME IInv, NEW owner, TableOK(owner), NEW own, NEW t \in Thread, Grown(owner, own, I(t)),
         th[t].pc \in Appending, UNCHANGED overlapped, th'[t].pc \in Appending => I(t)' = I(t),
         \A w \in Thread : w # t => Same(w), NEW u \in Thread, u # t
  PROVE  AppendOK(u)'
<1> SUFFICES ASSUME th'[u].pc \in Appending, I(u)' \notin overlapped PROVE AppendOK(u)'
  BY DEF AppendOK
<1>1. /\ TypeOK /\ OwnedOK(owner) /\ CursorOK(owner, u) /\ AppendOK(u) /\ AppendOK(t)
      /\ Same(u) /\ I(u)' = I(u) /\ th[u].pc \in Appending
  BY DEF IInv, TableOK, Same, I
<1>2. I(u) # I(t)
  BY <1>1 DEF AppendOK
<1>3. I(u) \in Bucket /\ head[I(u)] \in Node \cup {NULL}
  BY <1>1, Types, IndexType DEF Job, I
<1>4. ASSUME NEW w \in Thread, th'[w].pc \in Appending, I(w)' = I(u) PROVE w = u
  <2>1. w # t
    BY <1>2, <1>4
  <2>2. th[w].pc \in Appending /\ I(w) = I(u)
    BY <1>4, <2>1 DEF Same, I
  <2> QED BY <1>1, <2>2 DEF AppendOK
<1>5. head'[I(u)] = head[I(u)]
  BY <1>2, <1>3 DEF Grown
<1>6. th[u].cur \in Node => node'[th[u].cur] = node[th[u].cur]
  BY <1>1, <1>2 DEF CursorOK, Grown
<1>7. th[u].pc = "headValue" => node'[head[I(u)]] = node[head[I(u)]]
  <2> SUFFICES ASSUME th[u].pc = "headValue" PROVE node'[head[I(u)]] = node[head[I(u)]]
    OBVIOUS
  <2>1. head[I(u)] \in Node /\ head[I(u)] # NULL
    BY <1>1, TableAssumption DEF CursorOK
  <2>2. head[I(u)] \in allocated /\ owner[head[I(u)]] = I(u)
    BY <1>1, <1>3, <2>1 DEF OwnedOK
  <2> QED BY <1>2, <2>2 DEF Grown
<1>8. th[u].pc = "nextValue" => node'[node[th[u].cur].Next] = node[node[th[u].cur].Next]
  <2> SUFFICES ASSUME th[u].pc = "nextValue"
               PROVE  node'[node[th[u].cur].Next] = node[node[th[u].cur].Next]
    OBVIOUS
  <2>1. th[u].cur \in Node /\ node[th[u].cur].Next \in Node /\ owner[th[u].cur] = I(u)
    BY <1>1 DEF CursorOK
  <2>2. node[th[u].cur].Next \in allocated /\ owner[node[th[u].cur].Next] = I(u)
    BY <1>1, <2>1 DEF OwnedOK
  <2> QED BY <1>2, <2>2 DEF Grown
<1>9. th'[u].pc = th[u].pc /\ th'[u].cur = th[u].cur
  BY <1>1 DEF Same
<1>10. th[u].pc \in {"newNext", "nextValue"} => th[u].cur \in Node
  BY <1>1 DEF CursorOK
<1> QED BY <1>1, <1>4, <1>5, <1>6, <1>7, <1>8, <1>9, <1>10 DEF AppendOK

LEMMA GrownHeld ==
  ASSUME IInv, NEW owner, TableOK(owner), NEW own, NEW i \in Bucket, Grown(owner, own, i),
         UNCHANGED <<Pid, live, overlapped>>,
         \A n \in allocated' \ allocated : own[n] = i /\ (i \notin overlapped => Reaches(node', head'[i], n)),
         \A r \in added' \ added : Index(Pid[r]) = i
           /\ (i \notin overlapped => \E n \in allocated' : own[n] = i /\ node'[n].Value = r)
  PROVE  HeldOK(own)'
<1>1. TypeOK /\ OwnedOK(owner) /\ HeldOK(owner)
  BY DEF IInv, TableOK
<1> SUFFICES ASSUME NEW j \in Bucket \ overlapped
             PROVE  /\ \A n \in allocated' : own[n] = j => Reaches(node', head'[j], n)
                    /\ \A r \in live \cap added' : Index(Pid[r]) = j =>
                         \E n \in allocated' : own[n] = j /\ node'[n].Value = r
  BY DEF HeldOK
<1>2. ASSUME NEW n \in allocated', own[n] = j PROVE Reaches(node', head'[j], n)
  <2>1. CASE n \notin allocated
    BY <1>2, <2>1
  <2>2. CASE n \in allocated
    <3>1. Reaches(node, head[j], n)
      BY <1>1, <1>2, <2>2 DEF HeldOK, Grown
    <3>2. head[j] \in Node /\ head[j] # NULL
      BY <3>1, TableAssumption DEF Reaches
    <3>3. head[j] \in allocated /\ owner[head[j]] = j
      BY <1>1, <3>2 DEF OwnedOK
    <3>4. head'[j] = head[j]
      BY <3>2 DEF Grown
    <3> QED BY <1>1, <3>1, <3>3, <3>4, GrownReaches
  <2> QED BY <2>1, <2>2
<1>3. ASSUME NEW r \in live \cap added', Index(Pid[r]) = j
      PROVE  \E n \in allocated' : own[n] = j /\ node'[n].Value = r
  <2>1. CASE r \notin added
    BY <1>3, <2>1
  <2>2. CASE r \in added
    <3>1. PICK n \in allocated : owner[n] = j /\ node[n].Value = r
      BY <1>1, <1>3, <2>2 DEF HeldOK
    <3>2. r # NULL
      BY <1>1, Types, TableAssumption
    <3> QED BY <3>1, <3>2 DEF Grown
  <2> QED BY <2>1, <2>2
<1> QED BY <1>2, <1>3

LEMMA GrowKeeps ==
  ASSUME IInv, NEW owner, TableOK(owner), NEW own \in [Node -> Bucket], NEW t \in Thread,
         Grown(owner, own, I(t)), th[t].pc \in Appending,
         UNCHANGED <<Pid, live, overlapped>>, added \subseteq added', TypeOK', RecordOK', OwnedOK(own)',
         \A n \in allocated' \ allocated :
           own[n] = I(t) /\ (I(t) \notin overlapped => Reaches(node', head'[I(t)], n)),
         \A r \in added' \ added : Index(Pid[r]) = I(t)
           /\ (I(t) \notin overlapped => \E n \in allocated' : own[n] = I(t) /\ node'[n].Value = r),
         \A u \in Thread : u # t =>
           Same(u) /\ (th'[u].quiet => ~(th[u].pc \in Finding /\ I(u) = I(t))),
         th'[t].pc \in Appending => I(t)' = I(t),
         CursorOK(own, t)', AppendOK(t)', th'[t].pc \notin Finding
  PROVE  IInv'
<1>1. I(t) \in Bucket
  BY Types, IndexType DEF Job, I, IInv
<1>2. HeldOK(own)'
  BY <1>1, GrownHeld
<1>3. \A u \in Thread : CursorOK(own, u)' /\ SearchOK(u)'
  <2>1. SearchOK(t)'
    BY DEF SearchOK
  <2> QED BY <2>1, GrownOthers
<1>4. \A u \in Thread : AppendOK(u)'
  BY GrownAppend
<1> QED BY <1>2, <1>3, <1>4 DEF IInv, TableOK

LEMMA AppendMoves ==
  ASSUME th \in [Thread -> Job], NEW t \in Thread, NEW j \in Job, Append(t, j)
  PROVE  /\ th' \in [Thread -> Job] /\ th'[t] = j
         /\ \A u \in Thread : u # t =>
              Same(u) /\ (th'[u].quiet => ~(th[u].pc \in Finding /\ I(u) = I(t)))
<1>1. ASSUME NEW u \in Thread PROVE [th[u] EXCEPT !.quiet = FALSE] \in Job
  BY DEF Job
<1>2. th' = [u \in Thread |-> IF u = t THEN j
                              ELSE IF th[u].pc \in Finding /\ I(u) = I(t)
                                   THEN [th[u] EXCEPT !.quiet = FALSE] ELSE th[u]]
  BY DEF Append, Searching, I
<1> QED BY <1>1, <1>2 DEF Job, Same

\* A call that gets its block keeps its record.
LEMMA BlockRecord ==
  ASSUME IInv, NEW t \in Thread, th[t].pc \in Appending, UNCHANGED <<Pid, live, added>>,
         th'[t].pc \in Appending, th'[t].p = th[t].p, th'[t].k = th[t].k,
         \A u \in Thread : u # t => Same(u)
  PROVE  RecordOK'
<1>1. \A u \in Thread : /\ th'[u].p = th[u].p /\ th'[u].k = th[u].k
                        /\ th'[u].pc \in Creating => th[u].pc \in Creating
                        /\ th'[u].pc \in Adding => th[u].pc \in Adding
  BY Labels DEF Same
<1>2. \A u \in Thread : th'[u].pc \in {"load", "store", "bucket"} => th'[u].pc = th[u].pc /\ th'[u].cur = th[u].cur
  BY Labels DEF Same
<1> QED BY <1>1, <1>2 DEF IInv, RecordOK

\* A call that stores its process gives its record away.
LEMMA ValueRecord ==
  ASSUME IInv, NEW t \in Thread, th[t].pc \in Appending, UNCHANGED <<Pid, live>>,
         added' = added \cup {th[t].p}, th'[t] = Idle, \A u \in Thread : u # t => Same(u)
  PROVE  RecordOK'
<1>1. th'[t].pc \notin Creating /\ th[t].pc \in Creating
  BY IdleType, Labels
<1>2. ASSUME NEW u \in Thread, th'[u].pc \in Creating
      PROVE  u # t /\ th[u].pc \in Creating /\ th'[u].p = th[u].p /\ th[u].p # th[t].p
  BY <1>1, <1>2 DEF IInv, RecordOK, Same
<1>3. \A u \in Thread : th'[u].pc \in Creating => th'[u].p \in live' \ added'
  BY <1>2 DEF IInv, RecordOK, Same
<1>4. \A u \in Thread : th'[u].pc \in Adding => Pid'[th'[u].p] = th'[u].k
  BY <1>2, Labels DEF IInv, RecordOK, Same
<1>5. \A u, w \in Thread : th'[u].pc \in Creating /\ th'[w].pc \in Creating /\ th'[u].p = th'[w].p => u = w
  <2> SUFFICES ASSUME NEW u \in Thread, NEW w \in Thread, th'[u].pc \in Creating, th'[w].pc \in Creating,
                      th'[u].p = th'[w].p
               PROVE  u = w
    OBVIOUS
  <2>1. th[u].pc \in Creating /\ th[w].pc \in Creating /\ th[u].p = th[w].p
    BY <1>2
  <2> QED BY <2>1 DEF IInv, RecordOK
<1>6. \A u \in Thread : th'[u].pc \in {"load", "store", "bucket"} => th'[u].cur = NULL
  <2> SUFFICES ASSUME NEW u \in Thread, th'[u].pc \in {"load", "store", "bucket"} PROVE th'[u].cur = NULL
    OBVIOUS
  <2>1. th'[u].pc \in Creating
    BY Labels DEF Creating
  <2>2. u # t /\ Same(u)
    BY <1>2, <2>1
  <2> QED BY <2>2 DEF IInv, RecordOK, Same
<1> QED BY <1>3, <1>4, <1>5, <1>6 DEF RecordOK

\* Blocks handed out are blocks; the bucket and the record of a call.
LEMMA CallTypes ==
  ASSUME IInv, NEW t \in Thread, th[t].pc \in Appending
  PROVE  /\ th \in [Thread -> Job] /\ th[t] \in Job /\ I(t) \in Bucket
         /\ head \in [Bucket -> Node \cup {NULL}] /\ node \in [Node -> Block]
         /\ allocated \subseteq Node /\ NULL \notin Node
         /\ th[t].p \in live \ added /\ th[t].p \in Rec /\ Pid[th[t].p] = th[t].k /\ th[t].cur # JUNK
<1>1. th[t].pc \in Adding /\ th[t].pc \in Creating /\ TypeOK
  BY Labels DEF IInv
<1>2. /\ th \in [Thread -> Job] /\ head \in [Bucket -> Node \cup {NULL}] /\ node \in [Node -> Block]
      /\ allocated \subseteq Node /\ live \subseteq Rec /\ th[t].cur # JUNK
  BY <1>1, Types
<1>3. th[t].p \in live \ added /\ Pid[th[t].p] = th[t].k
  BY <1>1 DEF IInv, RecordOK
<1>4. th[t] \in Job /\ th[t].k \in Nat
  BY <1>2 DEF Job
<1> QED BY <1>2, <1>3, <1>4, IndexType, TableAssumption DEF I

LEMMA NewHeadKeeps == ASSUME IInv, NEW t \in Thread, NewHead(t) PROVE IInv'
<1> DEFINE j == [th[t] EXCEPT !.pc = "headValue"]
<1>1. PICK n \in Node \ allocated, next \in {NULL, JUNK} :
        /\ allocated' = allocated \cup {n}
        /\ node' = [node EXCEPT ![n] = [Value |-> NULL, Next |-> next]]
        /\ head' = [head EXCEPT ![I(t)] = n]
  BY DEF NewHead, Malloc, I
<1>2. /\ UNCHANGED <<ProcessId, Pid, live, up, added, overlapped, contested>> /\ Append(t, j)
      /\ th[t].pc = "newHead" /\ th[t].pc \in Appending
  BY Labels DEF NewHead, At
<1>3. j \in Job /\ j.pc = "headValue" /\ j.p = th[t].p /\ j.k = th[t].k /\ j.cur = th[t].cur
  BY <1>2, CallTypes DEF Job, Label, Adding
<1> HIDE DEF j
<1>4. /\ th' \in [Thread -> Job] /\ th'[t] = j /\ I(t)' = I(t)
      /\ \A u \in Thread : u # t =>
           Same(u) /\ (th'[u].quiet => ~(th[u].pc \in Finding /\ I(u) = I(t)))
  BY <1>2, <1>3, CallTypes, AppendMoves DEF I
<1>5. /\ node' \in [Node -> Block] /\ node'[n] = [Value |-> NULL, Next |-> next]
      /\ \A m \in Node : m # n => node'[m] = node[m]
  BY <1>1, <1>2, CallTypes DEF Block
<1>6. /\ head' \in [Bucket -> Node \cup {NULL}] /\ head'[I(t)] = n
      /\ \A i \in Bucket : i # I(t) => head'[i] = head[i]
  BY <1>1, <1>2, CallTypes
<1>7. TypeOK'
  <2>1. \A u \in Thread : th'[u].pc \in Adding => th'[u].cur # JUNK
    BY <1>2, <1>3, <1>4, CallTypes, Types DEF IInv, Same
  <2> QED BY <1>1, <1>2, <1>4, <1>5, <1>6, <2>1, Types, TypesNext DEF IInv
<1>8. RecordOK'
  BY <1>2, <1>3, <1>4, BlockRecord, Labels
<1>9. PICK owner \in [Node -> Bucket] : TableOK(owner)
  BY DEF IInv
<1>10. PICK own \in [Node -> Bucket] : own[n] = I(t) /\ \A m \in Node : m # n => own[m] = owner[m]
  <2>1. [owner EXCEPT ![n] = I(t)] \in [Node -> Bucket]
    BY <1>2, CallTypes
  <2> WITNESS [owner EXCEPT ![n] = I(t)] \in [Node -> Bucket]
  <2> QED OBVIOUS
<1>11. I(t) \notin overlapped => head[I(t)] = NULL
  BY <1>2 DEF IInv, AppendOK
<1>12. Grown(owner, own, I(t))
  <2>1. \A m \in allocated : m \in Node /\ m # n
    BY <1>1, <1>2, CallTypes
  <2> QED BY <1>1, <1>2, <1>5, <1>6, <1>10, <1>11, <2>1, CallTypes DEF Grown
<1>13. OwnedOK(own)'
  <2>1. OwnedOK(owner) /\ allocated \subseteq Node /\ next \notin Node
    BY <1>2, <1>9, CallTypes, TableAssumption DEF TableOK
  <2>2. \A i \in Bucket : head'[i] # NULL => head'[i] \in allocated' /\ own[head'[i]] = i
    BY <1>1, <1>6, <1>10, <2>1 DEF OwnedOK
  <2>3. \A m \in Node : node'[m].Next \in Node =>
          m \in allocated' /\ node'[m].Next \in allocated' /\ own[node'[m].Next] = own[m]
    BY <1>1, <1>5, <1>10, <2>1 DEF OwnedOK
  <2> QED BY <1>10, <2>2, <2>3 DEF OwnedOK
<1>14. \A m \in allocated' \ allocated : own[m] = I(t) /\ Reaches(node', head'[I(t)], m)
  BY <1>1, <1>6, <1>10, ReachSelf
<1>15. CursorOK(own, t)'
  <2>1. th[t].cur \in Node => th[t].cur \in allocated /\ th[t].cur # n /\ owner[th[t].cur] = I(t)
    BY <1>1, <1>2, <1>9, Labels DEF TableOK, CursorOK
  <2> QED BY <1>1, <1>3, <1>4, <1>6, <1>10, <2>1 DEF CursorOK
<1>16. AppendOK(t)'
  <2>1. \A u \in Thread : th'[u].pc \in Appending => th[u].pc \in Appending /\ I(u)' = I(u)
    BY <1>2, <1>4 DEF Same, I
  <2> QED BY <1>2, <1>3, <1>4, <1>5, <1>6, <2>1 DEF IInv, AppendOK
<1>17. th'[t].pc \notin Finding
  BY <1>3, <1>4, Labels
<1> QED BY <1>1, <1>2, <1>4, <1>7, <1>8, <1>9, <1>10, <1>12, <1>13, <1>14, <1>15, <1>16, <1>17, GrowKeeps

LEMMA NewNextKeeps == ASSUME IInv, NEW t \in Thread, NewNext(t) PROVE IInv'
<1> DEFINE j == [th[t] EXCEPT !.pc = "nextValue"]
           c == th[t].cur
<1>1. PICK n \in Node \ allocated, next \in {NULL, JUNK} :
        /\ allocated' = allocated \cup {n}
        /\ node' = [node EXCEPT ![n] = [Value |-> NULL, Next |-> next], ![c].Next = n]
  BY DEF NewNext, Malloc
<1>2. /\ UNCHANGED <<ProcessId, Pid, live, head, up, added, overlapped, contested>> /\ Append(t, j)
      /\ th[t].pc = "newNext" /\ th[t].pc \in Appending
  BY Labels DEF NewNext, At
<1>3. j \in Job /\ j.pc = "nextValue" /\ j.p = th[t].p /\ j.k = th[t].k /\ j.cur = c
  BY SMTT(30), <1>2, CallTypes DEF Job, Label, Adding
<1>4. PICK owner \in [Node -> Bucket] : TableOK(owner)
  BY DEF IInv
<1>5. c \in Node /\ c \in allocated /\ c # n /\ owner[c] = I(t)
  BY <1>1, <1>2, <1>4 DEF TableOK, CursorOK
<1> HIDE DEF j, c
<1>6. /\ th' \in [Thread -> Job] /\ th'[t] = j /\ I(t)' = I(t)
      /\ \A u \in Thread : u # t =>
           Same(u) /\ (th'[u].quiet => ~(th[u].pc \in Finding /\ I(u) = I(t)))
  BY <1>2, <1>3, CallTypes, AppendMoves DEF I
<1>7. /\ node' \in [Node -> Block] /\ node'[n] = [Value |-> NULL, Next |-> next]
      /\ \A m \in Node : m # n /\ m # c => node'[m] = node[m]
      /\ node'[c].Next = n /\ node'[c].Value = node[c].Value
  BY <1>1, <1>2, <1>5, CallTypes DEF Block
<1>8. TypeOK'
  <2>1. \A u \in Thread : th'[u].pc \in Adding => th'[u].cur # JUNK
    BY <1>2, <1>3, <1>6, CallTypes, Types DEF IInv, Same, c
  <2> QED BY <1>1, <1>2, <1>6, <1>7, <2>1, Types, TypesNext DEF IInv
<1>9. RecordOK'
  BY <1>2, <1>3, <1>6, BlockRecord, Labels
<1>10. PICK own \in [Node -> Bucket] : own[n] = I(t) /\ \A m \in Node : m # n => own[m] = owner[m]
  <2>1. [owner EXCEPT ![n] = I(t)] \in [Node -> Bucket]
    BY <1>2, CallTypes
  <2> WITNESS [owner EXCEPT ![n] = I(t)] \in [Node -> Bucket]
  <2> QED OBVIOUS
<1>11. I(t) \notin overlapped => node[c].Next = NULL
  BY <1>2 DEF IInv, AppendOK, c
<1>12. Grown(owner, own, I(t))
  <2>1. \A m \in allocated : m \in Node /\ m # n
    BY <1>1, <1>2, CallTypes
  <2>2. n # NULL /\ NULL \notin Node
    BY TableAssumption
  <2> QED BY <1>1, <1>2, <1>5, <1>7, <1>10, <1>11, <2>1, <2>2 DEF Grown
<1>13. OwnedOK(own)'
  <2>1. OwnedOK(owner) /\ allocated \subseteq Node /\ next \notin Node
    BY <1>2, <1>4, CallTypes, TableAssumption DEF TableOK
  <2>2. \A i \in Bucket : head'[i] # NULL => head'[i] \in allocated' /\ own[head'[i]] = i
    BY <1>1, <1>2, <1>10, <2>1 DEF OwnedOK
  <2>3. ASSUME NEW m \in Node, node'[m].Next \in Node
        PROVE  m \in allocated' /\ node'[m].Next \in allocated' /\ own[node'[m].Next] = own[m]
    <3>1. CASE m = c
      BY <1>1, <1>5, <1>7, <1>10, <3>1
    <3>2. CASE m # c
      BY <1>1, <1>7, <1>10, <2>1, <2>3, <3>2 DEF OwnedOK
    <3> QED BY <3>1, <3>2
  <2> QED BY <1>10, <2>2, <2>3 DEF OwnedOK
<1>14. ASSUME I(t) \notin overlapped PROVE Reaches(node', head'[I(t)], n)
  <2>1. Reaches(node, head[I(t)], c) /\ head[I(t)] \in Node /\ head[I(t)] # NULL /\ I(t) \in Bucket
    BY <1>2, <1>4, <1>5, <1>14, CallTypes, TableAssumption DEF TableOK, HeldOK, Reaches
  <2>2. head[I(t)] \in allocated /\ owner[head[I(t)]] = I(t) /\ OwnedOK(owner) /\ TypeOK
    BY <1>4, <2>1 DEF TableOK, OwnedOK, IInv
  <2>3. Reaches(node', head[I(t)], c)
    BY <1>12, <1>14, <2>1, <2>2, GrownReaches
  <2> QED BY <1>2, <1>7, <2>3, ReachNext
<1>15. \A m \in allocated' \ allocated :
         own[m] = I(t) /\ (I(t) \notin overlapped => Reaches(node', head'[I(t)], m))
  BY <1>1, <1>10, <1>14
<1>16. CursorOK(own, t)'
  BY <1>1, <1>3, <1>5, <1>6, <1>7, <1>10 DEF CursorOK
<1>17. AppendOK(t)'
  <2>1. \A u \in Thread : th'[u].pc \in Appending => th[u].pc \in Appending /\ I(u)' = I(u)
    BY <1>2, <1>6 DEF Same, I
  <2> QED BY <1>2, <1>3, <1>6, <1>7, <2>1 DEF IInv, AppendOK
<1>18. th'[t].pc \notin Finding
  BY <1>3, <1>6, Labels
<1> QED BY <1>1, <1>2, <1>4, <1>6, <1>8, <1>9, <1>10, <1>12, <1>13, <1>15, <1>16, <1>17, <1>18, GrowKeeps

\* The record is stored in block b of the bucket.
LEMMA ValueKeeps ==
  ASSUME IInv, NEW t \in Thread, th[t].pc \in Appending, NEW owner \in [Node -> Bucket], TableOK(owner),
         NEW b \in allocated, owner[b] = I(t), I(t) \notin overlapped => node[b].Value = NULL,
         node' = [node EXCEPT ![b].Value = th[t].p], added' = added \cup {th[t].p}, Append(t, Idle),
         UNCHANGED <<ProcessId, Pid, live, head, allocated, up, overlapped, contested>>
  PROVE  IInv'
<1>1. b \in Node
  BY CallTypes
<1>2. /\ th' \in [Thread -> Job] /\ th'[t] = Idle
      /\ \A u \in Thread : u # t =>
           Same(u) /\ (th'[u].quiet => ~(th[u].pc \in Finding /\ I(u) = I(t)))
  BY CallTypes, IdleType, AppendMoves
<1>3. /\ node' \in [Node -> Block] /\ node'[b].Value = th[t].p
      /\ \A m \in Node : m # b => node'[m] = node[m]
      /\ \A m \in Node : node'[m].Next = node[m].Next
  BY <1>1, CallTypes DEF Block
<1>4. th'[t].pc = "idle" /\ th'[t].pc \notin Adding /\ th'[t].pc \notin Finding /\ th'[t].pc \notin Appending
  BY <1>2, IdleType, Labels
<1>5. TypeOK'
  <2>1. \A u \in Thread : th'[u].pc \in Adding => th'[u].cur # JUNK
    BY <1>2, <1>4, Types DEF IInv, Same
  <2>2. added' \subseteq Rec
    BY CallTypes, Types DEF IInv
  <2> QED BY <1>2, <1>3, <2>1, <2>2, Types, TypesNext DEF IInv
<1>6. RecordOK'
  BY <1>2, ValueRecord
<1>7. Grown(owner, owner, I(t))
  BY <1>1, <1>3, CallTypes DEF Grown
<1>8. OwnedOK(owner)'
  BY <1>3 DEF TableOK, OwnedOK
<1>9. \A r \in added' \ added : Index(Pid[r]) = I(t) /\ \E n \in allocated' : owner[n] = I(t) /\ node'[n].Value = r
  BY <1>3, CallTypes DEF I
<1>10. CursorOK(owner, t)' /\ AppendOK(t)'
  BY <1>4 DEF CursorOK, AppendOK
<1> QED BY <1>2, <1>4, <1>5, <1>6, <1>7, <1>8, <1>9, <1>10, GrowKeeps

LEMMA HeadValueKeeps == ASSUME IInv, NEW t \in Thread, HeadValue(t) PROVE IInv'
<1> DEFINE b == head[I(t)]
<1>1. PICK owner \in [Node -> Bucket] : TableOK(owner) /\ CursorOK(owner, t)
  BY Cursors
<1>2. th[t].pc = "headValue" /\ th[t].pc \in Appending
  BY Labels DEF HeadValue, At
<1>3. b \in Node /\ b # NULL /\ I(t) \in Bucket
  BY <1>1, <1>2, CallTypes DEF CursorOK
<1>4. b \in allocated /\ owner[b] = I(t)
  BY <1>1, <1>3 DEF TableOK, OwnedOK
<1>5. I(t) \notin overlapped => node[b].Value = NULL
  BY <1>2 DEF IInv, AppendOK
<1>6. /\ node' = [node EXCEPT ![b].Value = th[t].p] /\ added' = added \cup {th[t].p} /\ Append(t, Idle)
      /\ UNCHANGED <<ProcessId, Pid, live, head, allocated, up, overlapped, contested>>
  BY DEF HeadValue, I
<1> HIDE DEF b
<1> QED BY <1>1, <1>2, <1>4, <1>5, <1>6, ValueKeeps

LEMMA NextValueKeeps == ASSUME IInv, NEW t \in Thread, NextValue(t) PROVE IInv'
<1> DEFINE b == node[th[t].cur].Next
<1>1. PICK owner \in [Node -> Bucket] : TableOK(owner) /\ CursorOK(owner, t)
  BY Cursors
<1>2. th[t].pc = "nextValue" /\ th[t].pc \in Appending
  BY Labels DEF NextValue, At
<1>3. th[t].cur \in Node /\ b \in Node /\ owner[th[t].cur] = I(t)
  BY <1>1, <1>2 DEF CursorOK
<1>4. b \in allocated /\ owner[b] = I(t)
  BY <1>1, <1>3 DEF TableOK, OwnedOK
<1>5. I(t) \notin overlapped => node[b].Value = NULL
  BY <1>2 DEF IInv, AppendOK
<1>6. /\ node' = [node EXCEPT ![b].Value = th[t].p] /\ added' = added \cup {th[t].p} /\ Append(t, Idle)
      /\ UNCHANGED <<ProcessId, Pid, live, head, allocated, up, overlapped, contested>>
  BY DEF NextValue
<1> HIDE DEF b
<1> QED BY <1>1, <1>2, <1>4, <1>5, <1>6, ValueKeeps
-----------------------------------------------------------------------------
(***************************************************************************)
(* The chain of a bucket: the layers that Chain collects are those blocks  *)
(* its head reaches.                                                       *)
(***************************************************************************)
LEMMA Least == \A T \in SUBSET Nat : T # {} => \E m \in T : \A k \in T : m <= k
<1> DEFINE R == OpToRel(<, Nat)
<1>1. IsWellFoundedOn(R, Nat)
  BY NatLessThanWellFounded
<1>2. \A k, l \in Nat : k < l => <<k, l>> \in R
  BY DEF OpToRel
<1> HIDE DEF R
<1>4. SUFFICES ASSUME NEW T, T \subseteq Nat, T # {} PROVE \E m \in T : \A k \in T : m <= k
  OBVIOUS
<1>3. \E m \in T : \A k \in T : ~(<<k, m>> \in R)
  BY <1>1, <1>4, WFMin
<1>5. \E m \in T : \A k \in T : ~(k < m)
  BY <1>2, <1>3, <1>4
<1> QED BY <1>5, <1>4

\* Induction, over the set of the numbers that have the property.
LEMMA Induct == \A T \in SUBSET Nat : 0 \in T /\ (\A n \in T : n + 1 \in T) => T = Nat
<1>1. SUFFICES ASSUME NEW T \in SUBSET Nat, 0 \in T, \A n \in T : n + 1 \in T, T # Nat PROVE FALSE
  OBVIOUS
<1>2. Nat \ T # {} 
  BY <1>1
<1>2a. Nat \ T \in SUBSET Nat
  OBVIOUS
<1>3. PICK m \in Nat \ T : \A k \in Nat \ T : m <= k
  BY <1>2, <1>2a, Least
<1>4. m # 0 /\ m \in Nat
  BY <1>1, <1>3
<1>5. m - 1 \in T
  BY <1>3, <1>4
<1> QED BY <1>1, <1>3, <1>4, <1>5

\* Where Next leads from the blocks of S.
Onward(nd, S) == {nd[n].Next : n \in S} \ {NULL, JUNK}

\* f[k]: what is reached from S in k steps.
IsLayers(f, nd, S, N) ==
  f = [k \in 0..N |-> IF k = 0 THEN S ELSE f[k - 1] \cup Onward(nd, f[k - 1])]

LEMMA LayersExist == ASSUME NEW nd, NEW S, NEW N \in Nat PROVE \E f : IsLayers(f, nd, S, N)
<1> DEFINE T == {m \in Nat : \E f : IsLayers(f, nd, S, m)}
<1>1. 0 \in T
  <2> DEFINE f == [k \in 0..0 |-> S]
  <2>1. f = [k \in 0..0 |-> IF k = 0 THEN S ELSE f[k - 1] \cup Onward(nd, f[k - 1])]
    BY SMT
  <2> QED BY <2>1 DEF IsLayers
<1>2. ASSUME NEW m \in T PROVE m + 1 \in T
  <2>1. PICK f : IsLayers(f, nd, S, m)
    OBVIOUS
  <2> DEFINE g == [k \in 0..(m + 1) |-> IF k = m + 1 THEN f[m] \cup Onward(nd, f[m]) ELSE f[k]]
  <2>2. ASSUME NEW k \in 0..(m + 1) PROVE g[k] = IF k = 0 THEN S ELSE g[k - 1] \cup Onward(nd, g[k - 1])
    <3>1. CASE k = 0
      BY <2>1, <3>1 DEF IsLayers
    <3>2. CASE k = m + 1
      BY <3>2
    <3>3. CASE k \in 1..m
      <4>1. k \in 0..m /\ k - 1 \in 0..m /\ k # 0
        BY <3>3
      <4>2. f[k] = f[k - 1] \cup Onward(nd, f[k - 1])
        BY <2>1, <4>1 DEF IsLayers
      <4> QED BY <4>1, <4>2
    <3> QED BY <3>1, <3>2, <3>3
  <2>3. IsLayers(g, nd, S, m + 1)
    <3>1. g = [k \in 0..(m + 1) |-> g[k]]
      OBVIOUS
    <3> HIDE DEF g
    <3> QED BY <2>2, <3>1 DEF IsLayers
  <2> QED BY <2>3
<1>3. T = Nat
  BY <1>1, <1>2, Induct
<1> QED BY <1>3

LEMMA ChainLayers ==
  ASSUME NEW i, Cardinality(Node) \in Nat
  PROVE  \E f : Chain(i) = f[Cardinality(Node)] /\ IsLayers(f, node, {head[i]} \ {NULL}, Cardinality(Node))
<1> DEFINE S == {head[i]} \ {NULL}
           f == CHOOSE h : IsLayers(h, node, S, Cardinality(Node))
<1>1. IsLayers(f, node, S, Cardinality(Node))
  <2> HIDE DEF S
  <2>1. \E h : IsLayers(h, node, S, Cardinality(Node))
    BY LayersExist
  <2> QED BY <2>1, Zenon
<1>2. Chain(i) = f[Cardinality(Node)]
  BY DEF Chain, Onward, IsLayers
<1> QED BY <1>1, <1>2

LEMMA Layer ==
  ASSUME NEW f, NEW nd, NEW S, NEW N \in Nat, IsLayers(f, nd, S, N)
  PROVE  /\ f[0] = S
         /\ \A k \in Nat : k + 1 <= N => f[k + 1] = f[k] \cup Onward(nd, f[k])
<1>1. \A k \in 0..N : f[k] = IF k = 0 THEN S ELSE f[k - 1] \cup Onward(nd, f[k - 1])
  BY DEF IsLayers
<1>0. f[0] = S
  <2>1. 0 \in 0..N
    OBVIOUS
  <2> QED BY <1>1, <2>1
<1>2. ASSUME NEW k \in Nat, k + 1 <= N PROVE f[k + 1] = f[k] \cup Onward(nd, f[k])
  <2>1. k + 1 \in 0..N /\ k + 1 # 0 /\ (k + 1) - 1 = k
    BY <1>2
  <2> QED BY <1>1, <2>1
<1> QED BY <1>0, <1>2

\* What the layers hold.
LEMMA LayersWithin ==
  ASSUME NEW nd \in [Node -> Block], NEW a \in Node \cup {NULL}, NEW N \in Nat, NEW f, IsLayers(f, nd, {a} \ {NULL}, N)
  PROVE  \A m \in f[N] : Reaches(nd, a, m)
<1> DEFINE T == {k \in Nat : k <= N => \A m \in f[k] : Reaches(nd, a, m)}
<1>1. 0 \in T
  BY ReachSelf DEF IsLayers
<1>2. ASSUME NEW k \in T PROVE k + 1 \in T
  <2> SUFFICES ASSUME k + 1 <= N, NEW m \in f[k + 1] PROVE Reaches(nd, a, m)
    OBVIOUS
  <2>1. f[k + 1] = f[k] \cup Onward(nd, f[k]) /\ \A n \in f[k] : Reaches(nd, a, n)
    BY Layer
  <2>2. CASE m \in Onward(nd, f[k])
    <3>1. PICK n \in f[k] : m = nd[n].Next /\ m \notin {NULL, JUNK}
      BY <2>2 DEF Onward
    <3>2. Reaches(nd, a, n) /\ n \in Node
      BY <2>1, <3>1 DEF Reaches
    <3>3. nd[n].Next \in Node
      BY <3>1, <3>2 DEF Block
    <3> QED BY <3>1, <3>2, <3>3, ReachNext
  <2> QED BY <2>1, <2>2
<1>3. T = Nat
  BY <1>1, <1>2, Induct
<1> QED BY <1>3

LEMMA LayersAll ==
  ASSUME NEW nd \in [Node -> Block], NEW a \in Node \cup {NULL}, NEW N \in Nat, N = Cardinality(Node),
         NEW f, IsLayers(f, nd, {a} \ {NULL}, N)
  PROVE  f[N] \subseteq Node /\ Closed(nd, f[N]) /\ (a \in Node => a \in f[N])
<1>0. IsFiniteSet(Node) /\ NULL \notin Node /\ JUNK \notin Node
  BY TableAssumption
<1> DEFINE Large(k) == f[k] \subseteq Node /\ (a \in Node => a \in f[k])
                       /\ (Closed(nd, f[k]) \/ Cardinality(f[k]) >= k + 1)
           T == {k \in Nat : k <= N => Large(k)}
<1>1. 0 \in T
  <2>1. f[0] = {a} \ {NULL}
    BY DEF IsLayers
  <2>2. CASE a = NULL
    <3>1. f[0] = {}
      BY <2>1, <2>2
    <3> QED BY <1>0, <2>2, <3>1 DEF Closed
  <2>3. CASE a \in Node
    <3>1. f[0] = {a}
      BY <1>0, <2>1, <2>3
    <3>2. Cardinality({a}) = 1
      BY FS_Singleton
    <3> QED BY <2>3, <3>1, <3>2
  <2> QED BY <2>2, <2>3
<1>2. ASSUME NEW k \in T PROVE k + 1 \in T
  <2> SUFFICES ASSUME k + 1 <= N PROVE Large(k + 1)
    OBVIOUS
  <2>1. f[k + 1] = f[k] \cup Onward(nd, f[k]) /\ Large(k) /\ k \in Nat
    <3> HIDE DEF Large
    <3> QED BY Layer
  <2>2. Onward(nd, f[k]) = {nd[n].Next : n \in f[k]} \cap Node
    BY <1>0, <2>1 DEF Onward, Block
  <2>3. f[k + 1] \subseteq Node /\ (a \in Node => a \in f[k + 1])
    BY <2>1, <2>2
  <2>4. CASE Closed(nd, f[k])
    <3>1. f[k + 1] = f[k]
      BY <2>1, <2>2, <2>4 DEF Closed
    <3> QED BY <2>3, <2>4, <3>1
  <2>5. CASE ~Closed(nd, f[k])
    <3>1. PICK n \in f[k] : nd[n].Next \in Node /\ nd[n].Next \notin f[k]
      BY <2>5 DEF Closed
    <3>2. f[k] \cup {nd[n].Next} \subseteq f[k + 1]
      BY <2>1, <2>2, <3>1
    <3>3. IsFiniteSet(f[k]) /\ IsFiniteSet(f[k + 1])
      BY <1>0, <2>1, <2>3, FS_Subset
    <3>4. Cardinality(f[k] \cup {nd[n].Next}) = Cardinality(f[k]) + 1
      BY ZenonT(60), <3>1, <3>3, FS_AddElement
    <3>5. Cardinality(f[k] \cup {nd[n].Next}) <= Cardinality(f[k + 1])
      BY <3>2, <3>3, FS_Subset
    <3>6. Cardinality(f[k]) \in Nat /\ Cardinality(f[k + 1]) \in Nat /\ Cardinality(f[k]) >= k + 1
      BY <2>1, <2>5, <3>3, FS_CardinalityType
    <3>7. Cardinality(f[k + 1]) >= (k + 1) + 1
      BY <2>1, <3>4, <3>5, <3>6
    <3> QED BY <2>3, <3>7
  <2> QED BY <2>4, <2>5
<1>3. T = Nat
  <2> HIDE DEF Large
  <2> QED BY <1>1, <1>2, Induct
<1>4. Large(N)
  <2> HIDE DEF Large
  <2> QED BY <1>3
<1>5. Cardinality(f[N]) <= N /\ Cardinality(f[N]) \in Nat
  BY <1>0, <1>4, FS_Subset, FS_CardinalityType
<1> QED BY <1>4, <1>5

\* The chain of a bucket is what its head reaches.
LEMMA ChainReaches ==
  ASSUME TypeOK, NEW i \in Bucket PROVE \A n : n \in Chain(i) <=> Reaches(node, head[i], n)
<1> DEFINE N == Cardinality(Node)
<1>1. N \in Nat
  BY TableAssumption, FS_CardinalityType
<1>2. node \in [Node -> Block] /\ head[i] \in Node \cup {NULL}
  BY Types
<1>3. PICK f : Chain(i) = f[N] /\ IsLayers(f, node, {head[i]} \ {NULL}, N)
  BY <1>1, ChainLayers
<1>0. N = Cardinality(Node)
  OBVIOUS
<1> HIDE DEF N
<1>4. \A n \in Chain(i) : Reaches(node, head[i], n)
  BY <1>1, <1>2, <1>3, LayersWithin
<1>5. Chain(i) \subseteq Node /\ Closed(node, Chain(i)) /\ (head[i] \in Node => head[i] \in Chain(i))
  <2>1. f[N] \subseteq Node /\ Closed(node, f[N]) /\ (head[i] \in Node => head[i] \in f[N])
    BY <1>0, <1>1, <1>2, <1>3, LayersAll
  <2> QED BY <1>3, <2>1
<1>6. ASSUME NEW n, Reaches(node, head[i], n) PROVE n \in Chain(i)
  BY <1>5, <1>6 DEF Reaches
<1> QED BY <1>4, <1>6
-----------------------------------------------------------------------------
(***************************************************************************)
(* The invariant.                                                          *)
(***************************************************************************)
LEMMA InitHolds == Init => IInv
<1> SUFFICES ASSUME Init PROVE IInv
  OBVIOUS
<1>1. \A t \in Thread : th[t] = Idle
  BY DEF Init
<1>2. TypeOK
  BY <1>1, IdleType, TableAssumption, Labels DEF Init, TypeOK, Job, Label
<1>3. RecordOK
  BY <1>1, IdleType, Labels DEF RecordOK
<1>4. ASSUME NEW t \in Thread PROVE AppendOK(t) /\ SearchOK(t)
  BY <1>1, IdleType, Labels DEF AppendOK, SearchOK
<1>5. 0 \in Bucket
  BY TableAssumption DEF Bucket
<1>6. PICK owner \in [Node -> Bucket] : TRUE
  <2>1. [n \in Node |-> 0] \in [Node -> Bucket]
    BY <1>5
  <2> QED BY <2>1
<1>7. \A t \in Thread : CursorOK(owner, t)
  BY <1>1, IdleType, Labels DEF CursorOK
<1>8. OwnedOK(owner) /\ HeldOK(owner)
  BY TableAssumption DEF Init, OwnedOK, HeldOK
<1> QED BY <1>2, <1>3, <1>4, <1>6, <1>7, <1>8 DEF IInv, TableOK

LEMMA StutterKeeps == ASSUME IInv, UNCHANGED vars PROVE IInv'
<1>1. UNCHANGED <<ProcessId, Pid, live, head, node, allocated, up, th, added, overlapped, contested>>
  BY DEF vars
<1>2. TypeOK' /\ RecordOK'
  BY <1>1 DEF IInv, TypeOK, RecordOK
<1>3. \A t \in Thread : AppendOK(t)' /\ SearchOK(t)'
  BY <1>1 DEF IInv, AppendOK, SearchOK, Ahead, Matches, I
<1>4. ASSUME NEW owner, TableOK(owner) PROVE TableOK(owner)'
  BY <1>1, <1>4 DEF TableOK, OwnedOK, HeldOK, CursorOK, I
<1> QED BY <1>2, <1>3, <1>4 DEF IInv

LEMMA NextKeeps == IInv /\ [Next]_vars => IInv'
<1> SUFFICES ASSUME IInv, [Next]_vars PROVE IInv'
  OBVIOUS
<1>1. ASSUME NEW t \in Thread, Add(t) PROVE IInv'
  BY <1>1, TestBucketKeeps, WalkKeeps, NewHeadKeeps, HeadValueKeeps, NewNextKeeps, NextValueKeeps DEF Add
<1>2. ASSUME NEW t \in Thread, NEW k \in 0..MaxPid, Find(t, k) PROVE IInv'
  BY <1>2, FindKeeps
<1>3. ASSUME NEW r \in Rec, Free(r) PROVE IInv'
  BY <1>3, FreeKeeps
<1>4. CASE UNCHANGED vars
  BY <1>4, StutterKeeps
<1> QED BY <1>1, <1>2, <1>3, <1>4, CreateKeeps, LoadIdKeeps, StoreIdKeeps, SearchesKeep DEF Next

(***************************************************************************)
(* Each variable keeps its type, and no call that adds to the table holds  *)
(* a pointer that is none (libemulator.c:379-392).                         *)
(***************************************************************************)
THEOREM TypeCorrect == Spec => []TypeOK
<1>1. IInv => TypeOK
  BY DEF IInv
<1> QED BY <1>1, InitHolds, NextKeeps, PTL DEF Spec

(***************************************************************************)
(* Every block belongs to one bucket, and without overlapping calls the    *)
(* bucket's chain reaches every block of it, every process that was added  *)
(* is in one, and a search has what it must not miss ahead of it           *)
(* (libemulator.c:379-410).                                                *)
(***************************************************************************)
THEOREM Invariant == Spec => []IInv
  BY InitHolds, NextKeeps, PTL DEF Spec

LEMMA ChainsHold == IInv => ChainsHoldAll
<1> SUFFICES ASSUME IInv PROVE ChainsHoldAll
  OBVIOUS
<1>1. PICK owner \in [Node -> Bucket] : OwnedOK(owner) /\ HeldOK(owner)
  BY DEF IInv, TableOK
<1>2. /\ TypeOK /\ allocated \subseteq Node /\ NULL \notin Node
      /\ live \subseteq Rec /\ Pid \in [Rec -> Nat]
  BY Types, TableAssumption DEF IInv
<1>3. ASSUME NEW r \in live \cap added, Index(Pid[r]) \notin overlapped
      PROVE  \E n \in Chain(Index(Pid[r])) : node[n].Value = r
  <2>1. Index(Pid[r]) \in Bucket
    BY <1>2, IndexType
  <2>2. PICK n \in allocated : owner[n] = Index(Pid[r]) /\ node[n].Value = r
    BY <1>1, <1>3, <2>1 DEF HeldOK
  <2>3. Reaches(node, head[Index(Pid[r])], n)
    BY <1>1, <1>3, <2>1, <2>2 DEF HeldOK
  <2> QED BY <1>2, <2>1, <2>2, <2>3, ChainReaches
<1>4. ASSUME overlapped = {}, NEW n \in allocated
      PROVE  Cardinality({i \in Bucket : n \in Chain(i)}) = 1
  <2>1. owner[n] \in Bucket /\ n \in Chain(owner[n])
    <3>1. owner[n] \in Bucket
      BY <1>2
    <3>2. Reaches(node, head[owner[n]], n)
      BY <1>1, <1>4, <3>1 DEF HeldOK
    <3> QED BY <1>2, <3>1, <3>2, ChainReaches
  <2>2. ASSUME NEW i \in Bucket, n \in Chain(i) PROVE i = owner[n]
    <3>1. Reaches(node, head[i], n)
      BY <1>2, <2>2, ChainReaches
    <3>2. head[i] \in allocated /\ owner[head[i]] = i
      BY <1>1, <1>2, <3>1 DEF OwnedOK, Reaches
    <3> QED BY <1>1, <3>1, <3>2, ReachOwner
  <2>3. {i \in Bucket : n \in Chain(i)} = {owner[n]}
    BY <2>1, <2>2
  <2> QED BY <2>3, FS_Singleton
<1> QED BY <1>3, <1>4 DEF ChainsHoldAll

(***************************************************************************)
(* A process that was added stays in the chain of its Pid, and the chains  *)
(* share no block and lose none, as long as no two calls overlapped in the *)
(* bucket (libemulator.c:379-392).                                         *)
(***************************************************************************)
THEOREM ChainsHoldAllAlways == Spec => []ChainsHoldAll
  BY ChainsHold, Invariant, PTL
-----------------------------------------------------------------------------
\* Only a step of the search ends it.
LEMMA Ends ==
  ASSUME IInv, [Next]_vars, NEW t \in Thread, th[t].pc \in Finding, th'[t].pc = "idle"
  PROVE  Search(t)
<1>1. /\ th \in [Thread -> Job] /\ th[t].pc # "idle" /\ th[t].pc \notin Creating
      /\ Main \in Thread
  BY Types, Labels, TableAssumption DEF IInv
<1>2. ASSUME NEW u \in Thread, u # t, th'[t] = th[t] PROVE FALSE
  BY <1>1, <1>2
<1>3. ASSUME NEW u \in Thread, Create(u) PROVE FALSE
  BY <1>1, <1>3 DEF Create, At
<1>4. ASSUME NEW u \in Thread, LoadId(u) PROVE FALSE
  BY <1>1, <1>4 DEF LoadId, At, Creating
<1>5. ASSUME NEW u \in Thread, StoreId(u) PROVE FALSE
  BY <1>1, <1>5 DEF StoreId, At, Creating
<1>6. ASSUME NEW u \in Thread, NEW k \in 0..MaxPid, Find(u, k) PROVE FALSE
  BY <1>1, <1>6 DEF Find, At
<1>7. ASSUME NEW u \in Thread, Search(u), u # t PROVE FALSE
  BY <1>1, <1>7 DEF Search, FindTest, FindNext, FindMatch, FindLast, FindCompare, Return, Goto, Crash
<1>8. ASSUME NEW r \in Rec, Free(r) PROVE FALSE
  BY SMTT(30), <1>1, <1>8 DEF Free, Job
<1>9. ASSUME NEW u \in Thread, Add(u) PROVE FALSE
  <2>1. th[u].pc \in Adding /\ u # t
    BY <1>1, <1>9, Labels DEF Add, TestBucket, Walk, NewHead, HeadValue, NewNext, NextValue, At
  <2>2. ASSUME NEW j, Append(u, j) PROVE FALSE
    BY <1>1, <2>1, <2>2 DEF Append
  <2>3. CASE TestBucket(u) \/ Walk(u)
    BY <1>1, <2>1, <2>3 DEF TestBucket, Walk, Goto, Crash
  <2> QED BY <1>9, <2>2, <2>3 DEF Add, NewHead, HeadValue, NewNext, NextValue
<1>10. CASE UNCHANGED vars
  BY <1>1, <1>10 DEF vars
<1> QED BY <1>3, <1>4, <1>5, <1>6, <1>7, <1>8, <1>9, <1>10 DEF Next

\* What an answer is.
LEMMA Answered ==
  ASSUME IInv, [Next]_vars, NEW t \in Thread, NEW r \in Rec \cup {NULL}, Answers(t, r)
  PROVE  \/ r = NULL /\ th[t].pc = "test" /\ head[I(t)] = NULL
         \/ r # NULL /\ th[t].pc = "last" /\ node[th[t].cur].Next # NULL /\ node[th[t].cur].Value = r
         \/ r = NULL /\ th[t].pc = "compare" /\ Differs(t)
         \/ r # NULL /\ th[t].pc = "compare" /\ Matches(t) /\ node[th[t].cur].Value = r
<1>1. /\ th \in [Thread -> Job] /\ th[t].pc \in Finding /\ up' = TRUE
      /\ th'[t] = [Idle EXCEPT !.p = r] /\ th[t].pc # "idle"
  BY Types, Labels DEF Answers, IInv
<1>2. th'[t].pc = "idle" /\ th'[t].p = r
  BY <1>1 DEF Idle
<1>3. Search(t)
  BY <1>1, <1>2, Ends
<1>4. ~Crash
  BY <1>1 DEF Crash
<1>5. ASSUME NEW l \in Finding, Goto(t, l) PROVE FALSE
  <2>1. th'[t].pc = l
    BY ZenonT(60), <1>1, <1>5 DEF Goto, Job
  <2> QED BY <1>2, <1>5, <2>1, Labels
<1>6. ASSUME NEW q, Return(t, q) PROVE q = r
  BY <1>1, <1>2, <1>6 DEF Return, Idle
<1>7. CASE FindTest(t)
  BY <1>4, <1>5, <1>6, <1>7, Labels DEF FindTest, At, I
<1>8. CASE FindNext(t)
  BY <1>4, <1>5, <1>8, Labels DEF FindNext
<1>9. CASE FindMatch(t)
  <2>1. ~(th' = [th EXCEPT ![t].pc = "next", ![t].cur = node[@].Next])
    BY <1>1, <1>2 DEF Job
  <2> QED BY <1>4, <1>5, <1>9, <2>1, Labels DEF FindMatch
<1>10. CASE FindLast(t)
  BY <1>4, <1>5, <1>6, <1>10, Labels DEF FindLast, At, Undefined
<1>11. CASE FindCompare(t)
  BY <1>4, <1>6, <1>11 DEF FindCompare, At, Matches
<1> QED BY <1>3, <1>7, <1>8, <1>9, <1>10, <1>11 DEF Search

LEMMA Misses ==
  ASSUME IInv, [Next]_vars, NEW t \in Thread, Answers(t, NULL), I(t) \notin overlapped
  PROVE  th[t].due = {}
<1> SUFFICES ASSUME NEW r \in th[t].due PROVE FALSE
  OBVIOUS
<1>1. th[t].pc \in Finding /\ SearchOK(t) /\ TypeOK
  BY DEF Answers, IInv
<1>2. Ahead(t, r)
  BY <1>1 DEF SearchOK
<1>3. PICK owner \in [Node -> Bucket] : TableOK(owner) /\ CursorOK(owner, t)
  BY Cursors
<1>4. I(t) \in Bucket /\ r # NULL
  BY <1>1, <1>2, Types, IndexType, TableAssumption DEF Job, I, Ahead
<1>5. \/ th[t].pc = "test" /\ head[I(t)] = NULL
      \/ th[t].pc = "compare" /\ Differs(t)
  BY Answered
<1>6. CASE th[t].pc = "test" /\ head[I(t)] = NULL
  <2>1. th[t].cur \in Node
    BY <1>2 DEF Ahead, Reaches
  <2>2. th[t].cur \in allocated /\ owner[th[t].cur] = I(t)
    BY <1>1, <1>3, <2>1 DEF CursorOK
  <2>3. Reaches(node, head[I(t)], th[t].cur)
    BY <1>3, <1>4, <2>2 DEF TableOK, HeldOK
  <2> QED BY <1>6, <2>3, TableAssumption DEF Reaches
<1>7. CASE th[t].pc = "compare" /\ Differs(t)
  BY <1>2, <1>4, <1>7 DEF Ahead, Differs, Matches
<1> QED BY <1>5, <1>6, <1>7

(***************************************************************************)
(* A search never misses a process that was in the table when it began     *)
(* and still is; only two appends to the bucket at the same time can cost  *)
(* one (libemulator.c:379-410).                                            *)
(***************************************************************************)
THEOREM NeverMissedAlways == Spec => NeverMissed
<1>1. IInv /\ [Next]_vars =>
        [\A t \in Thread : Answers(t, NULL) /\ Index(th[t].k) \notin overlapped
           => th[t].due = {}]_vars
  BY Misses DEF I
<1> QED BY <1>1, Invariant, PTL DEF Spec, NeverMissed

LEMMA Finds ==
  ASSUME IInv, [Next]_vars, NEW t \in Thread, NEW r \in Rec, Answers(t, r), th[t].quiet
  PROVE  Pid[r] = th[t].k
<1>1. r # NULL /\ th[t].pc \in Finding /\ SearchOK(t)
  BY TableAssumption DEF Answers, IInv
<1>2. \/ th[t].pc = "last" /\ node[th[t].cur].Next # NULL /\ node[th[t].cur].Value = r
      \/ Matches(t) /\ node[th[t].cur].Value = r
  BY <1>1, Answered
<1>3. Matches(t) /\ node[th[t].cur].Value = r
  BY <1>1, <1>2 DEF SearchOK
<1> QED BY <1>3 DEF Matches

(***************************************************************************)
(* What a search finds has the Pid it looked for, also if the record was   *)
(* reused before, unless the bucket was appended or a Pid changed          *)
(* meanwhile (libemulator.c:394-410).                                      *)
(***************************************************************************)
THEOREM FindsRightAlways == Spec => FindsRight
<1>1. IInv /\ [Next]_vars =>
        [\A t \in Thread, r \in Rec : Answers(t, r) /\ th[t].quiet => Pid[r] = th[t].k]_vars
  BY Finds
<1> QED BY <1>1, Invariant, PTL DEF Spec, FindsRight
-----------------------------------------------------------------------------
(***************************************************************************)
(* Pids.  Of two threads that draw at the same time both are contested; a  *)
(* Pid drawn alone is below the counter, and below all that were loaded    *)
(* from it and may be stored yet.                                          *)
(***************************************************************************)
AloneOK == \A t, u \in Thread : th[t].pc = "store" /\ th[u].pc = "store" /\ t # u
             => th[t].p \in contested

BelowOK == \A r \in Drawn \ contested :
             /\ Pid[r] < ProcessId
             /\ \A t \in Thread : th[t].pc = "store" => Pid[r] < th[t].k

IdsOK == AloneOK /\ BelowOK /\ PidsUnique

Draws(t) == th[t].pc \in {"load", "store"}

\* A thread that is at no access to the counter, before the step or after it,
\* or does not move.
Bystands(t) == /\ Draws(t)' => Draws(t)
               /\ Draws(t) => th'[t].pc = th[t].pc /\ th'[t].p = th[t].p /\ th'[t].k = th[t].k

LEMMA IdsStay ==
  ASSUME IdsOK, UNCHANGED <<ProcessId, Pid, contested>>, live' \subseteq live,
         \A t \in Thread : Bystands(t)
  PROVE  IdsOK'
<1>1. Drawn' \subseteq Drawn
  BY DEF Drawn, Bystands, Draws
<1>2. \A t \in Thread : th'[t].pc = "store"
        => th[t].pc = "store" /\ th'[t].p = th[t].p /\ th'[t].k = th[t].k
  BY DEF Bystands, Draws
<1>3. AloneOK'
  BY <1>2 DEF IdsOK, AloneOK
<1>4. BelowOK'
  BY <1>1, <1>2 DEF IdsOK, BelowOK
<1>5. PidsUnique'
  BY <1>1 DEF IdsOK, PidsUnique
<1> QED BY <1>3, <1>4, <1>5 DEF IdsOK

\* The record a thread draws for is its own.
LEMMA Drawers ==
  ASSUME IInv
  PROVE  /\ \A t \in Thread : Draws(t) => th[t].p \in live /\ th[t].p \in Rec /\ th[t].k \in Nat
         /\ \A t, u \in Thread : Draws(t) /\ Draws(u) /\ th[t].p = th[u].p => t = u
  BY Types DEF IInv, RecordOK, Creating, Draws, Job

LEMMA CreateIds == ASSUME IInv, IdsOK, NEW t \in Thread, Create(t) PROVE IdsOK'
<1>1. PICK r \in Rec \ live :
        /\ live' = live \cup {r}
        /\ th' = [th EXCEPT ![t] = [Idle EXCEPT !.pc = "load", !.p = r, !.forks = (t = Main)]]
  BY DEF Create
<1>2. /\ th'[t].pc = "load" /\ th'[t].p = r /\ th[t].pc = "idle"
      /\ \A u \in Thread : u # t => th'[u] = th[u]
  BY <1>1, Types DEF Create, At, Idle, IInv
<1>3. UNCHANGED <<ProcessId, Pid, contested>>
  BY DEF Create
<1>4. Drawn' \subseteq Drawn
  BY <1>1, <1>2 DEF Drawn
<1>5. \A u \in Thread : th'[u].pc = "store" => th'[u] = th[u]
  BY <1>2
<1>6. AloneOK'
  BY <1>3, <1>5 DEF IdsOK, AloneOK
<1>7. BelowOK'
  BY <1>3, <1>4, <1>5 DEF IdsOK, BelowOK
<1>8. PidsUnique'
  BY <1>3, <1>4 DEF IdsOK, PidsUnique
<1> QED BY <1>6, <1>7, <1>8 DEF IdsOK

LEMMA LoadIdIds == ASSUME IInv, IdsOK, NEW t \in Thread, LoadId(t) PROVE IdsOK'
<1> DEFINE drawing == {u \in Thread \ {t} : th[u].pc = "store"}
<1>1. /\ UNCHANGED <<ProcessId, Pid, live>> /\ th[t].pc = "load"
      /\ contested' = IF drawing = {} THEN contested \ {th[t].p}
                      ELSE contested \cup {th[u].p : u \in drawing \cup {t}}
  BY DEF LoadId, At
<1>2. /\ th'[t].pc = "store" /\ th'[t].p = th[t].p /\ th'[t].k = ProcessId
      /\ \A u \in Thread : u # t => th'[u] = th[u]
  BY Types DEF LoadId, IInv, Job
<1>3. Drawn' = Drawn /\ th[t].p \notin Drawn
  <2>1. \A u \in Thread : Draws(u)' <=> Draws(u)
    BY <1>1, <1>2 DEF Draws
  <2> QED BY <1>1, <1>2, <2>1 DEF Drawn, Draws
<1>4. Drawn' \ contested' \subseteq Drawn \ contested
  BY <1>1, <1>3
<1>5. AloneOK'
  <2> SUFFICES ASSUME NEW u \in Thread, NEW w \in Thread, u # w,
                      th'[u].pc = "store", th'[w].pc = "store"
               PROVE  th'[u].p \in contested'
    BY DEF AloneOK
  <2>1. CASE drawing = {}
    BY <1>2, <2>1
  <2>2. CASE drawing # {}
    <3>1. th'[u].p = th[u].p /\ u \in drawing \cup {t}
      BY <1>2
    <3> QED BY <1>1, <2>2, <3>1
  <2> QED BY <2>1, <2>2
<1>6. BelowOK'
  <2> SUFFICES ASSUME NEW r \in Drawn \ contested
               PROVE  /\ Pid[r] < ProcessId
                      /\ \A u \in Thread : th'[u].pc = "store" => Pid[r] < th'[u].k
    BY <1>1, <1>4 DEF BelowOK
  <2>1. Pid[r] < ProcessId /\ \A u \in Thread : th[u].pc = "store" => Pid[r] < th[u].k
    BY DEF IdsOK, BelowOK
  <2> QED BY <1>2, <2>1
<1>7. PidsUnique'
  BY <1>1, <1>4 DEF IdsOK, PidsUnique
<1> QED BY <1>5, <1>6, <1>7 DEF IdsOK

\* The Pid that is stored is above all that were drawn alone, and if it was
\* drawn alone itself, no other thread has one to store.
LEMMA StoreIdIds == ASSUME IInv, IdsOK, NEW t \in Thread, StoreId(t) PROVE IdsOK'
<1> DEFINE p == th[t].p
           k == th[t].k
<1>1. /\ UNCHANGED <<live, contested>> /\ th[t].pc = "store" /\ Draws(t)
      /\ ProcessId' = k + 1 /\ Pid' = [Pid EXCEPT ![p] = k]
  BY DEF StoreId, At, Draws
<1>2. /\ th \in [Thread -> Job] /\ Pid \in [Rec -> Nat] /\ live \subseteq Rec
      /\ p \in live /\ p \in Rec /\ k \in Nat
  BY <1>1, Types, Drawers DEF IInv
<1>3. Pid'[p] = k /\ \A r \in Rec : r # p => Pid'[r] = Pid[r]
  BY <1>1, <1>2
<1>4. /\ th'[t].pc \in {"load", "bucket"} /\ th'[t].p = p
      /\ \A u \in Thread : u # t => th'[u].pc = th[u].pc /\ th'[u].p = th[u].p /\ th'[u].k = th[u].k
  BY <1>2 DEF StoreId, Job
<1> HIDE DEF p, k
<1>5. \A r \in Drawn' : r # p => r \in Drawn
  <2>1. \A u \in Thread \ {t} : Draws(u)' <=> Draws(u)
    BY <1>4 DEF Draws
  <2> QED BY <1>1, <1>4, <2>1 DEF Drawn, Draws, p
<1>6. \A u \in Thread : th'[u].pc = "store" => u # t /\ th[u].pc = "store" /\ th'[u].k = th[u].k /\ th'[u].p = th[u].p
  BY <1>4
<1>7. \A r \in Drawn \ contested : Pid[r] < k /\ r \in Rec
  BY <1>1, <1>2 DEF IdsOK, BelowOK, Drawn, k
<1>8. p \notin contested => \A u \in Thread : th[u].pc = "store" => u = t
  BY <1>1 DEF IdsOK, AloneOK, p
<1>9. AloneOK'
  BY <1>1, <1>6 DEF IdsOK, AloneOK
<1>10. BelowOK'
  <2> SUFFICES ASSUME NEW r \in Drawn' \ contested'
               PROVE  /\ Pid'[r] < ProcessId'
                      /\ \A u \in Thread : th'[u].pc = "store" => Pid'[r] < th'[u].k
    BY DEF BelowOK
  <2>1. CASE r = p
    BY <1>1, <1>2, <1>3, <1>6, <1>8, <2>1
  <2>2. CASE r # p
    <3>1. r \in Drawn \ contested /\ Pid[r] < k /\ Pid'[r] = Pid[r] /\ Pid[r] \in Nat
      BY <1>1, <1>2, <1>3, <1>5, <1>7, <2>2
    <3>2. \A u \in Thread : th[u].pc = "store" => Pid[r] < th[u].k
      BY <3>1 DEF IdsOK, BelowOK
    <3> QED BY <1>1, <1>2, <1>6, <3>1, <3>2
  <2> QED BY <2>1, <2>2
<1>11. PidsUnique'
  <2> SUFFICES ASSUME NEW r \in Drawn' \ contested', NEW s \in Drawn' \ contested', r # s
               PROVE  Pid'[r] # Pid'[s]
    BY DEF PidsUnique
  <2>1. ASSUME NEW q \in Drawn' \ contested', q # p
        PROVE  q \in Drawn \ contested /\ Pid'[q] = Pid[q] /\ Pid[q] < k /\ Pid[q] \in Nat
    BY <1>1, <1>2, <1>3, <1>5, <1>7, <2>1
  <2>2. CASE r # p /\ s # p
    BY <2>1, <2>2 DEF IdsOK, PidsUnique
  <2>3. CASE r = p
    BY <1>2, <1>3, <2>1, <2>3
  <2>4. CASE s = p
    BY <1>2, <1>3, <2>1, <2>4
  <2> QED BY <2>2, <2>3, <2>4
<1> QED BY <1>9, <1>10, <1>11 DEF IdsOK

\* A call that adds, a search and a process that goes draw no Pid.
LEMMA OthersBystand ==
  ASSUME IInv, NEW t \in Thread,
         Add(t) \/ Search(t) \/ \E k \in 0..MaxPid : Find(t, k), NEW u \in Thread
  PROVE  Bystands(u)
<1>1. /\ th \in [Thread -> Job] /\ ~Draws(t)
  BY Types DEF Draws, Add, TestBucket, Walk, NewHead, HeadValue, NewNext, NextValue, Search, FindTest,
               FindNext, FindMatch, FindLast, FindCompare, Find, At, IInv
<1>2. ASSUME th' = th PROVE Bystands(u)
  BY <1>2 DEF Bystands, Draws
<1>3. ASSUME NEW j, j.pc \notin {"load", "store"}, th' = [th EXCEPT ![t] = j] PROVE Bystands(u)
  BY <1>1, <1>3 DEF Bystands, Draws
<1>4. ASSUME NEW l \in Label \ {"load", "store"}, Goto(t, l) PROVE Bystands(u)
  BY <1>1, <1>4 DEF Goto, Bystands, Draws, Job
<1>5. ASSUME NEW j, j.pc \notin {"load", "store"}, Append(t, j) PROVE Bystands(u)
  BY <1>1, <1>5 DEF Append, Bystands, Draws, Job
<1>6. ASSUME NEW r, Return(t, r) PROVE Bystands(u)
  BY <1>3, <1>6 DEF Return, Idle
<1>7. {"idle"} \cup Adding \cup Finding \subseteq Label \ {"load", "store"} /\ Idle.pc = "idle"
  BY DEF Label, Adding, Finding, Idle
<1>8. CASE TestBucket(t) \/ Walk(t)
  <2>1. CASE TestBucket(t)
    BY <1>1, <2>1 DEF TestBucket, Bystands, Draws, Job
  <2>2. CASE Walk(t)
    <3>1. ASSUME NEW n, th' = [th EXCEPT ![t].cur = n] PROVE Bystands(u)
      BY <1>1, <3>1 DEF Bystands, Draws, Job
    <3> QED BY <1>2, <1>4, <1>7, <2>2, <3>1 DEF Walk, Crash, Adding
  <2> QED BY <1>8, <2>1, <2>2
<1>9. CASE NewHead(t) \/ HeadValue(t) \/ NewNext(t) \/ NextValue(t)
  <2>1. th[t] \in Job
    BY <1>1
  <2>2. \A l : [th[t] EXCEPT !.pc = l].pc = l
    BY <2>1 DEF Job
  <2> QED BY <1>5, <1>7, <1>9, <2>2 DEF NewHead, HeadValue, NewNext, NextValue
<1>10. CASE Search(t)
  <2>1. CASE FindTest(t) \/ FindNext(t)
    BY <1>2, <1>4, <1>6, <1>7, <2>1 DEF FindTest, FindNext, Crash, Finding
  <2>2. CASE FindMatch(t)
    <3>1. ASSUME th' = [th EXCEPT ![t].pc = "next", ![t].cur = node[@].Next] PROVE Bystands(u)
      BY <1>1, <3>1 DEF Bystands, Draws, Job
    <3> QED BY <1>2, <1>4, <1>7, <2>2, <3>1 DEF FindMatch, Crash, Finding
  <2>3. CASE FindLast(t) \/ FindCompare(t)
    BY <1>2, <1>4, <1>6, <1>7, <2>3 DEF FindLast, FindCompare, Crash, Finding
  <2> QED BY <1>10, <2>1, <2>2, <2>3 DEF Search
<1>11. ASSUME NEW k \in 0..MaxPid, Find(t, k) PROVE Bystands(u)
  <2>1. ASSUME NEW c, NEW d PROVE [Idle EXCEPT !.pc = "test", !.k = k, !.cur = c, !.due = d].pc = "test"
    BY DEF Idle
  <2> QED BY <1>3, <1>11, <2>1 DEF Find
<1> QED BY <1>8, <1>9, <1>10, <1>11 DEF Add

LEMMA IdsKept == IInv /\ IdsOK /\ [Next]_vars => IdsOK'
<1> SUFFICES ASSUME IInv, IdsOK, [Next]_vars PROVE IdsOK'
  OBVIOUS
<1>1. ASSUME NEW t \in Thread, Add(t) \/ Search(t) \/ \E k \in 0..MaxPid : Find(t, k) PROVE IdsOK'
  <2>1. UNCHANGED <<ProcessId, Pid, live, contested>>
    BY <1>1 DEF Add, TestBucket, Walk, NewHead, HeadValue, NewNext, NextValue, Search, FindTest,
                FindNext, FindMatch, FindLast, FindCompare, Find, table
  <2> QED BY <1>1, <2>1, OthersBystand, IdsStay
<1>2. ASSUME NEW r \in Rec, Free(r) PROVE IdsOK'
  <2>1. UNCHANGED <<ProcessId, Pid, contested>> /\ live' \subseteq live
    BY <1>2 DEF Free
  <2>2. \A t \in Thread : th'[t].pc = th[t].pc /\ th'[t].p = th[t].p /\ th'[t].k = th[t].k
    BY <1>2, Types DEF Free, IInv, Job
  <2> QED BY <2>1, <2>2, IdsStay DEF Bystands, Draws
<1>3. CASE UNCHANGED vars
  BY <1>3, IdsStay DEF vars, Bystands, Draws
<1> QED BY <1>1, <1>2, <1>3, CreateIds, LoadIdIds, StoreIdIds DEF Next

(***************************************************************************)
(* Pids drawn while no other thread drew one are different, for any number *)
(* of threads and records and whatever other draws overlapped              *)
(* (libemulator.c:227).                                                    *)
(***************************************************************************)
THEOREM PidsUniqueAlways == Spec => []PidsUnique
<1>1. Init => IdsOK
  BY DEF Init, IdsOK, AloneOK, BelowOK, PidsUnique, Drawn, Idle
<1>2. IdsOK => PidsUnique
  BY DEF IdsOK
<1> QED BY <1>1, <1>2, IdsKept, Invariant, PTL DEF Spec
=============================================================================
