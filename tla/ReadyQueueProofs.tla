-------------------------- MODULE ReadyQueueProofs --------------------------
EXTENDS ReadyQueue, TLAPS

\* QueueInsert's malloc returns a block that no list and no call holds.
LEMMA MallocInv == ASSUME IInv, NEW t \in Thread, Malloc(t) PROVE IInv'
<1>1. TypeOK'
  BY QueueAssumption DEF Malloc, IInv, TypeOK, Ptr, Label, InsertStep, Step
<1>2. CallsOK'
  BY QueueAssumption DEF Malloc, IInv, TypeOK, CallsOK, DequeueStep, Step
<1>3. BlocksOK'
  BY SMTT(30), QueueAssumption DEF Malloc, IInv, TypeOK, BlocksOK, Blocks, Held, Step
<1>4. InsertOK'
  BY ZenonT(60), QueueAssumption DEF Malloc, IInv, TypeOK, CallsOK, InsertOK, Step
<1>5. DequeueOK'
  BY QueueAssumption DEF Malloc, IInv, TypeOK, CallsOK, DequeueOK, DequeueStep, Step
<1>6. CalmOK'
  BY QueueAssumption DEF Malloc, IInv, TypeOK, CalmOK, Calm, WellFormed, Chain, First,
     Last, Step
<1> QED BY <1>1, <1>2, <1>3, <1>4, <1>5, <1>6 DEF IInv

\* N->Next = NULL changes a block that is not in the list yet.
LEMMA InitNextInv == ASSUME IInv, NEW t \in Thread, InitNext(t) PROVE IInv'
<1>1. TypeOK'
  <2>1. pc' \in [Thread -> Label]
    BY DEF InitNext, IInv, TypeOK, Label, InsertStep, Step
  <2>2. node' \in [Node -> [Next : Ptr, Value : Proc \cup {NULL}]]
    BY ZenonT(60) DEF InitNext, IInv, TypeOK, Ptr
  <2> QED
    BY <2>1, <2>2 DEF InitNext, IInv, TypeOK
<1>2. CallsOK'
  BY QueueAssumption DEF InitNext, IInv, TypeOK, CallsOK, DequeueStep, Step
<1>3. BlocksOK'
  BY QueueAssumption DEF InitNext, IInv, TypeOK, BlocksOK, Blocks, Held, Entering,
     Leaving, Chain, Step
<1>4. InsertOK'
  BY QueueAssumption DEF InitNext, IInv, TypeOK, CallsOK, BlocksOK, InsertOK, Held, Step
<1>5. DequeueOK'
  BY QueueAssumption DEF InitNext, IInv, TypeOK, CallsOK, DequeueOK, DequeueStep, Step
<1>6. CalmOK'
  <2>1. N[t] \in Node \ Blocks
    BY DEF InitNext, IInv, BlocksOK, Held, Step
  <2>2. \A i \in 1..Len(order) : node'[order[i]].Next = node[order[i]].Next
    BY <2>1 DEF InitNext, IInv, TypeOK, Blocks
  <2>3. (\A u \in Thread : pc'[u] \in Calm) => (\A u \in Thread : pc[u] \in Calm)
    BY DEF InitNext, IInv, TypeOK, Calm, Step
  <2>4. WellFormed(Len(order)) => WellFormed(Len(order))'
    BY <2>2 DEF InitNext, IInv, TypeOK, WellFormed, Chain, First, Last
  <2> QED BY <2>3, <2>4 DEF IInv, CalmOK
<1> QED BY <1>1, <1>2, <1>3, <1>4, <1>5, <1>6 DEF IInv

\* N->Value = p: the block counts as queued from here on, and is Entering.
LEMMA InitValueInv == ASSUME IInv, NEW t \in Thread, InitValue(t) PROVE IInv'
<1>1. TypeOK'
  BY QueueAssumption DEF InitValue, IInv, TypeOK, CallsOK, BlocksOK, Held, Blocks, Ptr,
     Label, InsertStep, Step
<1>2. CallsOK'
  BY QueueAssumption DEF InitValue, IInv, TypeOK, CallsOK, DequeueStep, Step
<1>3. BlocksOK'
  BY SMTT(30), QueueAssumption DEF InitValue, IInv, TypeOK, CallsOK, BlocksOK, DequeueOK, Blocks,
     Held, Entering, WellFormed, First, Last, Ptr, Step
<1>4. InsertOK'
  <2>1. WellFormed(Len(order))
    BY QueueAssumption DEF InitValue, IInv, CallsOK, CalmOK, Calm, Step
  <2>2. /\ Len(order') = Len(order) + 1
        /\ order'[Len(order) + 1] = N[t]
        /\ \A i \in 1..Len(order) : order'[i] = order[i]
    BY DEF InitValue, IInv, TypeOK, BlocksOK, Held, Step
  <2>3. \A n \in Node : node'[n].Next = node[n].Next
    BY DEF InitValue, IInv, TypeOK
  <2>4. Len(order) \in Nat /\ \A i \in 1..Len(order) : order[i] \in Node
    BY DEF IInv, TypeOK
  <2>5. WellFormed(Len(order) - 1)'
    <3>1. Chain(Len(order) - 1)'
      BY <2>1, <2>2, <2>3, <2>4 DEF WellFormed, Chain
    <3>2. Queue' = [Head |-> First(Len(order) - 1), End |-> Last(Len(order) - 1)]'
      BY <2>1, <2>2, <2>4 DEF InitValue, WellFormed, First, Last
    <3> QED BY <3>1, <3>2 DEF WellFormed
  <2>6. Entering(t)'
    <3>1. N[t] \in Node /\ node[N[t]].Next = NULL
      BY DEF InitValue, IInv, InsertOK, BlocksOK, Held, Step
    <3>2. Len(order') = Len(order) + 1 /\ order' # <<>>
      BY <2>2, <2>4 DEF InitValue
    <3> QED BY <2>2, <2>3, <2>5, <3>1, <3>2 DEF InitValue, Entering
  <2> QED
    BY <2>6 DEF InitValue, IInv, TypeOK, CallsOK, InsertOK, Step
<1>5. DequeueOK'
  BY QueueAssumption DEF InitValue, IInv, TypeOK, CallsOK, DequeueOK, DequeueStep, Step
<1>6. CalmOK'
  BY QueueAssumption DEF InitValue, IInv, TypeOK, CalmOK, Calm, Step
<1> QED BY <1>1, <1>2, <1>3, <1>4, <1>5, <1>6 DEF IInv

\* The test of End tells whether the list is empty.
LEMMA TestEndInv == ASSUME IInv, NEW t \in Thread, TestEnd(t) PROVE IInv'
<1>1. TypeOK'
  BY QueueAssumption DEF TestEnd, IInv, TypeOK, Label, InsertStep, Step
<1>2. CallsOK'
  BY QueueAssumption DEF TestEnd, IInv, TypeOK, CallsOK, DequeueStep, Step
<1>3. BlocksOK'
  BY QueueAssumption DEF TestEnd, IInv, TypeOK, BlocksOK, DequeueOK, Blocks, Held, Step
<1>4. InsertOK'
  BY QueueAssumption DEF TestEnd, IInv, TypeOK, InsertOK, Entering, WellFormed, Chain,
     First, Last, Step
<1>5. DequeueOK'
  BY QueueAssumption DEF TestEnd, IInv, TypeOK, CallsOK, DequeueOK, DequeueStep, Step
<1>6. CalmOK'
  BY QueueAssumption DEF TestEnd, IInv, TypeOK, CalmOK, Calm, Step
<1> QED BY <1>1, <1>2, <1>3, <1>4, <1>5, <1>6 DEF IInv

\* End still points to the last block, as nobody else runs.
LEMMA LoadEndInv == ASSUME IInv, NEW t \in Thread, LoadEnd(t) PROVE IInv'
<1>1. TypeOK'
  BY QueueAssumption DEF LoadEnd, IInv, TypeOK, Label, InsertStep, Step
<1>2. CallsOK'
  BY QueueAssumption DEF LoadEnd, IInv, TypeOK, CallsOK, DequeueStep, Step
<1>3. BlocksOK'
  BY QueueAssumption DEF LoadEnd, IInv, TypeOK, BlocksOK, InsertOK, Blocks, Held,
     First, Ptr, Step
<1>4. InsertOK'
  BY QueueAssumption DEF LoadEnd, IInv, TypeOK, InsertOK, Entering, WellFormed, Chain,
     First, Last, Step
<1>5. DequeueOK'
  BY QueueAssumption DEF LoadEnd, IInv, TypeOK, CallsOK, DequeueOK, DequeueStep, Step
<1>6. CalmOK'
  BY QueueAssumption DEF LoadEnd, IInv, TypeOK, CalmOK, Calm, Step
<1> QED BY <1>1, <1>2, <1>3, <1>4, <1>5, <1>6 DEF IInv

\* Queue.End->Next = N makes the new block the last of the chain.
LEMMA LinkNextInv == ASSUME IInv, NEW t \in Thread, LinkNext(t) PROVE IInv'
<1>1. TypeOK'
  <2>1. pc' \in [Thread -> Label]
    BY DEF LinkNext, IInv, TypeOK, Label, InsertStep, Step
  <2>2. node' \in [Node -> [Next : Ptr, Value : Proc \cup {NULL}]]
    BY ZenonT(60) DEF LinkNext, IInv, TypeOK, Ptr
  <2>3. reg' \in [Thread -> Ptr]
    BY DEF LinkNext, IInv, TypeOK, Ptr
  <2> QED
    BY <2>1, <2>2, <2>3 DEF LinkNext, IInv, TypeOK
<1>2. CallsOK'
  BY QueueAssumption DEF LinkNext, IInv, TypeOK, CallsOK, DequeueStep, Step
<1>3. BlocksOK'
  BY SMTT(30), QueueAssumption DEF LinkNext, IInv, TypeOK, CallsOK, BlocksOK, Blocks, Held, Last,
     Label, DequeueStep, Step
<1>4. InsertOK'
  <2>1. Entering(t) /\ reg[t] = Queue.End /\ Queue.End # NULL
    BY DEF LinkNext, IInv, InsertOK, Step
  <2> DEFINE L == Len(order)
  <2>2. L \in Nat /\ L > 1 /\ N[t] = order[L] /\ reg[t] = order[L - 1]
    <3>1. L \in Nat /\ L # 0
      BY <2>1 DEF IInv, TypeOK, Entering
    <3>2. N[t] = order[L] /\ Queue.End = Last(L - 1)
      BY <2>1 DEF Entering, WellFormed
    <3>3. L # 1
      BY <2>1, <3>2 DEF Last
    <3>4. L > 1
      <4> HIDE DEF L
      <4> QED BY <3>1, <3>3
    <3>5. Queue.End = order[L - 1]
      <4> HIDE DEF L
      <4> QED BY <3>1, <3>2, <3>3 DEF Last
    <3> QED BY <2>1, <3>1, <3>2, <3>4, <3>5
  <2>3. \A i, j \in 1..L : order[i] = order[j] => i = j
    BY DEF IInv, BlocksOK
  <2>4. \A i \in 1..L : order[i] \in Node
    BY DEF IInv, TypeOK
  <2>5. \A n \in Node : node'[n].Next = IF n = reg[t] THEN N[t] ELSE node[n].Next
    BY <2>2, <2>4 DEF LinkNext, IInv, TypeOK
  <2>6. Chain(L - 1) /\ node[order[L]].Next = NULL
    BY <2>1, <2>2 DEF Entering, WellFormed
  <2>7. Chain(L)'
    BY SMTT(30), <2>2, <2>3, <2>4, <2>5, <2>6 DEF LinkNext, Chain
  <2>8. Queue = [Head |-> order[1], End |-> Last(L - 1)]
    BY <2>1, <2>2 DEF Entering, WellFormed, First
  <2> QED
    BY SMTT(30), <2>2, <2>7, <2>8 DEF LinkNext, IInv, TypeOK, CallsOK, InsertOK, Last, Step
<1>5. DequeueOK'
  BY QueueAssumption DEF LinkNext, IInv, TypeOK, CallsOK, DequeueOK, DequeueStep, Step
<1>6. CalmOK'
  BY QueueAssumption DEF LinkNext, IInv, TypeOK, CalmOK, Calm, Step
<1> QED BY <1>1, <1>2, <1>3, <1>4, <1>5, <1>6 DEF IInv

\* Queue.Head = N, for a list that was empty.
LEMMA SetHeadInv == ASSUME IInv, NEW t \in Thread, SetHead(t) PROVE IInv'
<1>1. TypeOK'
  BY QueueAssumption DEF SetHead, IInv, TypeOK, Label, InsertStep, Step
<1>2. CallsOK'
  BY QueueAssumption DEF SetHead, IInv, TypeOK, CallsOK, DequeueStep, Step
<1>3. BlocksOK'
  BY QueueAssumption DEF SetHead, IInv, TypeOK, BlocksOK, InsertOK, Blocks, Held,
     Chain, First, Last, Step
<1>4. InsertOK'
  BY QueueAssumption DEF SetHead, IInv, TypeOK, CallsOK, InsertOK, Entering,
     WellFormed, Chain, Last, Step
<1>5. DequeueOK'
  BY SMTT(30), QueueAssumption DEF SetHead, IInv, TypeOK, CallsOK, InsertOK, DequeueOK, Entering,
     Leaving, WellFormed, Chain, Last, Step
<1>6. CalmOK'
  BY QueueAssumption DEF SetHead, IInv, TypeOK, CalmOK, Calm, Step
<1> QED BY <1>1, <1>2, <1>3, <1>4, <1>5, <1>6 DEF IInv

\* Queue.End = N completes the insertion.
LEMMA SetEndInv == ASSUME IInv, NEW t \in Thread, SetEnd(t) PROVE IInv'
<1>1. TypeOK'
  BY QueueAssumption DEF SetEnd, IInv, TypeOK, CallsOK, Ptr, Label, InsertStep, Step
<1>2. CallsOK'
  BY QueueAssumption DEF SetEnd, IInv, TypeOK, CallsOK, DequeueStep, Step
<1>3. BlocksOK'
  BY QueueAssumption DEF SetEnd, IInv, TypeOK, BlocksOK, Blocks, Held, First, Ptr,
     DequeueStep, Step
<1>4. InsertOK'
  BY QueueAssumption DEF SetEnd, IInv, TypeOK, CallsOK, InsertOK, Step
<1>5. DequeueOK'
  BY QueueAssumption DEF SetEnd, IInv, TypeOK, CallsOK, DequeueOK, DequeueStep, Step
<1>6. CalmOK'
  BY QueueAssumption DEF SetEnd, IInv, TypeOK, InsertOK, CalmOK, WellFormed, Chain,
     First, Last, Step
<1> QED BY <1>1, <1>2, <1>3, <1>4, <1>5, <1>6 DEF IInv

\* Dequeue's first test: a block at Head is the first of the chain.
LEMMA LoadHeadInv == ASSUME IInv, LoadHead PROVE IInv'
<1>1. TypeOK'
  BY QueueAssumption DEF LoadHead, IInv, TypeOK, Label, DequeueStep, Step
<1>2. CallsOK'
  BY QueueAssumption DEF LoadHead, IInv, TypeOK, CallsOK, Step
<1>3. BlocksOK'
  BY QueueAssumption DEF LoadHead, IInv, TypeOK, BlocksOK, Blocks, Held, Entering, Step
<1>4. InsertOK'
  BY QueueAssumption DEF LoadHead, IInv, TypeOK, CallsOK, InsertOK, Step
<1>5. DequeueOK'
  BY QueueAssumption DEF LoadHead, IInv, TypeOK, CallsOK, DequeueOK, CalmOK, Calm,
     Leaving, WellFormed, Chain, First, Last, DequeueStep, Step
<1>6. CalmOK'
  BY QueueAssumption DEF LoadHead, IInv, TypeOK, CalmOK, Calm, WellFormed, Chain,
     First, Last, Step
<1> QED BY <1>1, <1>2, <1>3, <1>4, <1>5, <1>6 DEF IInv

\* Dequeue reads the Next of the first block.
LEMMA LoadNextInv == ASSUME IInv, LoadNext PROVE IInv'
<1>1. TypeOK'
  BY QueueAssumption DEF LoadNext, IInv, TypeOK, DequeueOK, Leaving, Ptr, Label,
     DequeueStep, Step
<1>2. CallsOK'
  BY QueueAssumption DEF LoadNext, IInv, TypeOK, CallsOK, Step
<1>3. BlocksOK'
  <2>1. Held' = Held
    BY QueueAssumption DEF LoadNext, IInv, TypeOK, Held, Step
  <2> QED
    BY <2>1 DEF LoadNext, IInv, BlocksOK, Blocks
<1>4. InsertOK'
  BY QueueAssumption DEF LoadNext, IInv, TypeOK, CallsOK, InsertOK, Step
<1>5. DequeueOK'
  BY QueueAssumption DEF LoadNext, IInv, TypeOK, DequeueOK, Leaving, WellFormed, Chain,
     First, Last, DequeueStep, Step
<1>6. CalmOK'
  BY QueueAssumption DEF LoadNext, IInv, TypeOK, DequeueOK, CalmOK, WellFormed, Chain,
     First, Last, Step
<1> QED BY <1>1, <1>2, <1>3, <1>4, <1>5, <1>6 DEF IInv

\* Queue.Head moves on to the second block, or to NULL.
LEMMA StoreHeadInv == ASSUME IInv, StoreHead PROVE IInv'
<1>1. TypeOK'
  BY QueueAssumption DEF StoreHead, IInv, TypeOK, CallsOK, Ptr, Label, DequeueStep, Step
<1>2. CallsOK'
  BY QueueAssumption DEF StoreHead, IInv, TypeOK, CallsOK, Step
<1>3. BlocksOK'
  <2>1. Held' = Held
    BY DEF StoreHead, IInv, TypeOK, Held, Step
  <2> QED
    BY <2>1 DEF StoreHead, IInv, BlocksOK, Blocks
<1>4. InsertOK'
  BY QueueAssumption DEF StoreHead, IInv, TypeOK, CallsOK, InsertOK, Step
<1>5. DequeueOK'
  BY QueueAssumption DEF StoreHead, IInv, TypeOK, DequeueOK, Leaving, WellFormed,
     Chain, Last, DequeueStep, Step
<1>6. CalmOK'
  BY QueueAssumption DEF StoreHead, IInv, TypeOK, CalmOK, Calm, Step
<1> QED BY <1>1, <1>2, <1>3, <1>4, <1>5, <1>6 DEF IInv

\* Next is NULL exactly if the first block is the only one.
LEMMA TestNextInv == ASSUME IInv, TestNext PROVE IInv'
<1>1. TypeOK'
  BY QueueAssumption DEF TestNext, IInv, TypeOK, Label, DequeueStep, Step
<1>2. CallsOK'
  BY QueueAssumption DEF TestNext, IInv, TypeOK, CallsOK, Step
<1>3. BlocksOK'
  <2>1. Held' = Held
    BY DEF TestNext, IInv, TypeOK, Held, Step
  <2> QED
    BY <2>1 DEF TestNext, IInv, BlocksOK, Blocks
<1>4. InsertOK'
  BY QueueAssumption DEF TestNext, IInv, TypeOK, CallsOK, InsertOK, Step
<1>5. DequeueOK'
  <2>1. Leaving(Main) /\ Queue = [Head |-> node[N[Main]].Next, End |-> Last(Len(order))]
    BY DEF TestNext, IInv, DequeueOK, DequeueStep, Step
  <2>2. Len(order) \in Nat \ {0} /\ \A i \in 1..Len(order) : order[i] \in Node
    BY <2>1 DEF IInv, TypeOK, Leaving
  <2>3. node[N[Main]].Next = NULL <=> Len(order) = 1
    <3>1. CASE Len(order) = 1
      BY <2>1, <3>1 DEF Leaving, Chain
    <3>2. CASE Len(order) # 1
      <4>1. 1 \in 1..(Len(order) - 1) /\ 2 \in 1..Len(order)
        <5> DEFINE L == Len(order)
        <5>1. L \in Nat /\ L # 0 /\ L # 1
          BY <2>2, <3>2
        <5> HIDE DEF L
        <5>2. 1 \in 1..(L - 1) /\ 2 \in 1..L
          BY <5>1
        <5> QED BY <5>2 DEF L
      <4>2. node[N[Main]].Next = order[2] /\ order[2] \in Node
        BY <2>1, <2>2, <4>1 DEF Leaving, Chain
      <4> QED BY <3>2, <4>2, QueueAssumption
    <3> QED BY <3>1, <3>2
  <2> QED
    BY <2>1, <2>2, <2>3, QueueAssumption DEF TestNext, IInv, TypeOK, DequeueOK,
       Leaving, Chain, Last, Step
<1>6. CalmOK'
  BY QueueAssumption DEF TestNext, IInv, TypeOK, CalmOK, Calm, Step
<1> QED BY <1>1, <1>2, <1>3, <1>4, <1>5, <1>6 DEF IInv

\* The list becomes empty: End is cleared.
LEMMA ClearEndInv == ASSUME IInv, ClearEnd PROVE IInv'
<1>1. TypeOK'
  BY QueueAssumption DEF ClearEnd, IInv, TypeOK, CallsOK, Ptr, Label, DequeueStep, Step
<1>2. CallsOK'
  BY QueueAssumption DEF ClearEnd, IInv, TypeOK, CallsOK, Step
<1>3. BlocksOK'
  BY QueueAssumption DEF ClearEnd, IInv, TypeOK, BlocksOK, Blocks, Held, Step
<1>4. InsertOK'
  BY QueueAssumption DEF ClearEnd, IInv, TypeOK, CallsOK, InsertOK, Step
<1>5. DequeueOK'
  BY QueueAssumption DEF ClearEnd, IInv, TypeOK, DequeueOK, Leaving, Chain,
     DequeueStep, Step
<1>6. CalmOK'
  BY QueueAssumption DEF ClearEnd, IInv, TypeOK, CalmOK, Calm, Step
<1> QED BY <1>1, <1>2, <1>3, <1>4, <1>5, <1>6 DEF IInv

\* The list becomes empty: Head is cleared, which it already was.
LEMMA ClearHeadInv == ASSUME IInv, ClearHead PROVE IInv'
<1>1. TypeOK'
  BY QueueAssumption DEF ClearHead, IInv, TypeOK, CallsOK, Ptr, Label, DequeueStep, Step
<1>2. CallsOK'
  BY QueueAssumption DEF ClearHead, IInv, TypeOK, CallsOK, Step
<1>3. BlocksOK'
  BY QueueAssumption DEF ClearHead, IInv, TypeOK, BlocksOK, Blocks, Held, Step
<1>4. InsertOK'
  BY QueueAssumption DEF ClearHead, IInv, TypeOK, CallsOK, InsertOK, Step
<1>5. DequeueOK'
  <2>1. Leaving(Main) /\ Len(order) = 1 /\ Queue.End = NULL
    BY DEF ClearHead, IInv, DequeueOK, DequeueStep, Step
  <2>2. node[N[Main]].Next = NULL
    BY <2>1 DEF Leaving, Chain
  <2>3. Queue' = [Head |-> node[N[Main]].Next, End |-> NULL]
    BY <2>1, <2>2 DEF ClearHead, IInv, TypeOK
  <2>4. Leaving(Main)'
    BY <2>1 DEF ClearHead, Leaving, Chain
  <2> QED
    BY <2>1, <2>3, <2>4, QueueAssumption DEF ClearHead, IInv, TypeOK, DequeueOK, Step
<1>6. CalmOK'
  BY QueueAssumption DEF ClearHead, IInv, TypeOK, CalmOK, Calm, Step
<1> QED BY <1>1, <1>2, <1>3, <1>4, <1>5, <1>6 DEF IInv

\* Without takes one block out of `order' and closes the gap.
LEMMA Removed ==
  ASSUME TypeOK, \A i, j \in 1..Len(order) : order[i] = order[j] => i = j, NEW k \in 1..Len(order)
  PROVE  LET new == Without(order[k])
         IN  /\ new \in Seq(Node) /\ Len(new) = Len(order) - 1
             /\ \A j \in 1..(Len(order) - 1) : new[j] = order[IF j < k THEN j ELSE j + 1]
<1> DEFINE i == CHOOSE m \in 1..Len(order) : order[m] = order[k]
           L == Len(order) - 1
<1>1. i = k
  OBVIOUS
<1>2. Without(order[k]) = [j \in 1..L |-> order[IF j < k THEN j ELSE j + 1]]
  <2> HIDE DEF i
  <2> QED BY <1>1 DEF Without, i
<1>3. order \in Seq(Node) /\ Len(order) \in Nat /\ L \in Nat
  BY DEF TypeOK
<1>4. \A j \in 1..L : order[IF j < k THEN j ELSE j + 1] \in Node
  BY <1>3
<1> HIDE DEF L
<1>5. [j \in 1..L |-> order[IF j < k THEN j ELSE j + 1]] \in Seq(Node)
      /\ Len([j \in 1..L |-> order[IF j < k THEN j ELSE j + 1]]) = L
  BY <1>3, <1>4
<1> QED BY <1>2, <1>5 DEF L

\* With one call at a time the first block is handed out.
LEMMA FirstOut ==
  ASSUME IInv, LoadValue, Leaving(Main)
  PROVE  order' = Tail(order)
<1>1. /\ order \in Seq(Node) /\ 1 \in 1..Len(order) /\ N[Main] = order[1]
      /\ \A i, j \in 1..Len(order) : order[i] = order[j] => i = j
  BY DEF IInv, TypeOK, BlocksOK, Leaving
<1> DEFINE new == Without(order[1])
<1>2. /\ new \in Seq(Node) /\ Len(new) = Len(order) - 1
      /\ \A j \in 1..(Len(order) - 1) : new[j] = order[j + 1]
  <2>1. TypeOK
    BY DEF IInv
  <2>2. /\ new \in Seq(Node) /\ Len(new) = Len(order) - 1
        /\ \A j \in 1..(Len(order) - 1) : new[j] = order[IF j < 1 THEN j ELSE j + 1]
    BY ONLY <1>1, <2>1, Removed
  <2> HIDE DEF new
  <2>3. \A j \in 1..(Len(order) - 1) : ~(j < 1)
    OBVIOUS
  <2> QED BY <2>2, <2>3
<1>3. order' = new
  BY <1>1 DEF LoadValue
<1> HIDE DEF new
<1>4. Tail(order) \in Seq(Node) /\ Len(Tail(order)) = Len(order) - 1
      /\ \A j \in 1..(Len(order) - 1) : Tail(order)[j] = order[j + 1]
  BY <1>1
<1> QED BY <1>2, <1>3, <1>4

\* Dequeue reads the process: its block leaves the queue.
LEMMA LoadValueInv == ASSUME IInv, LoadValue PROVE IInv'
<1>1. TypeOK'
  <2>1. Leaving(Main)
    BY DEF LoadValue, IInv, DequeueOK, DequeueStep, Step
  <2>2. order' \in Seq(Node)
    <3>1. order' = Tail(order)
      BY <2>1, FirstOut
    <3>2. order \in Seq(Node) /\ order # <<>>
      BY <2>1 DEF Leaving, IInv, TypeOK
    <3> QED BY <3>1, <3>2
  <2> QED BY <2>1, <2>2, QueueAssumption DEF LoadValue, IInv, TypeOK, Leaving, Label,
     DequeueStep, Step
<1>2. CallsOK'
  BY QueueAssumption DEF LoadValue, IInv, TypeOK, CallsOK, Step
<1>3. BlocksOK'
  <2>1. Leaving(Main)
    BY DEF LoadValue, IInv, DequeueOK, DequeueStep, Step
  <2>2. order' = Tail(order)
    BY <2>1, FirstOut
  <2>3. /\ Len(order) \in Nat \ {0}
        /\ Len(order') = Len(order) - 1
        /\ \A i \in 1..Len(order') : order'[i] = order[i + 1]
        /\ \A i \in 1..Len(order) : order[i] \in Node
    BY <2>1, <2>2 DEF Leaving, IInv, TypeOK
  <2>4. \A i, j \in 1..Len(order) : order[i] = order[j] => i = j
    BY DEF IInv, BlocksOK
  <2>5. Blocks' = Blocks \ {order[1]}
    <3>1. \A i \in 1..Len(order') : order'[i] \in Blocks /\ order'[i] # order[1]
      BY <2>3, <2>4 DEF Blocks
    <3>2. ASSUME NEW i \in 1..Len(order), order[i] # order[1]
          PROVE  order[i] \in Blocks'
      <4>1. i - 1 \in 1..Len(order') /\ order'[i - 1] = order[i]
        BY <2>3, <3>2
      <4> QED BY <4>1 DEF Blocks
    <3> QED BY <3>1, <3>2 DEF Blocks
  <2>6. Held = {} /\ Held' = {order[1]}
    BY SMTT(30), <2>1, QueueAssumption DEF LoadValue, Leaving, IInv, TypeOK, CallsOK, Held,
       Step
  <2>7. order[1] \in Blocks /\ order[1] \in Node
    BY <2>3 DEF Blocks
  <2>8. heap' = Blocks' \cup Held' /\ Held' \subseteq Node \ Blocks'
    BY <2>5, <2>6, <2>7 DEF LoadValue, IInv, BlocksOK
  <2>9. \A i, j \in 1..Len(order') : order'[i] = order'[j] => i = j
    BY SMTT(30), <2>3, <2>4
  <2>10. \A i \in 1..Len(order') : node'[order'[i]].Value \in Proc
    <3>1. \A i \in 1..Len(order') : i + 1 \in 1..Len(order)
      BY <2>3
    <3>2. \A i \in 1..Len(order) : node[order[i]].Value \in Proc
      BY DEF IInv, BlocksOK
    <3> QED BY <2>3, <3>1, <3>2 DEF LoadValue
  <2> QED BY <2>8, <2>9, <2>10 DEF BlocksOK
<1>4. InsertOK'
  BY QueueAssumption DEF LoadValue, IInv, TypeOK, CallsOK, InsertOK, Step
<1>5. DequeueOK'
  BY QueueAssumption DEF LoadValue, IInv, TypeOK, DequeueOK, Step
<1>6. CalmOK'
  <2>1. /\ Leaving(Main)
        /\ Queue = [Head |-> node[N[Main]].Next,
                    End |-> IF Len(order) = 1 THEN NULL ELSE Last(Len(order))]
    BY DEF LoadValue, IInv, DequeueOK, DequeueStep, Step
  <2>2. order' = Tail(order)
    BY <2>1, FirstOut
  <2>3. /\ Len(order) \in Nat \ {0}
        /\ Len(order') = Len(order) - 1
        /\ \A i \in 1..Len(order') : order'[i] = order[i + 1]
    BY <2>1, <2>2 DEF Leaving, IInv, TypeOK
  <2>6. UNCHANGED <<Queue, node>>
    BY DEF LoadValue
  <2>4. Chain(Len(order))'
    BY SMTT(30), <2>1, <2>3, <2>6 DEF Leaving, Chain
  <2>5. Queue' = [Head |-> First(Len(order)), End |-> Last(Len(order))]'
    BY <2>1, <2>3, <2>6 DEF Leaving, Chain, First, Last
  <2> QED BY <2>4, <2>5 DEF CalmOK, WellFormed
<1> QED BY <1>1, <1>2, <1>3, <1>4, <1>5, <1>6 DEF IInv

\* free(N) gives back the block Dequeue took out of the list.
LEMMA FreeInv == ASSUME IInv, Free PROVE IInv'
<1>1. TypeOK'
  BY QueueAssumption DEF Free, IInv, TypeOK, CallsOK, Ptr, Label, DequeueStep, Step
<1>2. CallsOK'
  BY QueueAssumption DEF Free, IInv, TypeOK, CallsOK, Step
<1>3. BlocksOK'
  BY SMTT(30), QueueAssumption DEF Free, IInv, TypeOK, CallsOK, BlocksOK, Calm, Blocks,
     Held,
     Entering, First, Step
<1>4. InsertOK'
  BY QueueAssumption DEF Free, IInv, TypeOK, CallsOK, InsertOK, Step
<1>5. DequeueOK'
  BY QueueAssumption DEF Free, IInv, TypeOK, DequeueOK, DequeueStep, Step
<1>6. CalmOK'
  BY QueueAssumption DEF Free, IInv, TypeOK, CalmOK, Calm, WellFormed, Chain, First,
     Last, Step
<1> QED BY <1>1, <1>2, <1>3, <1>4, <1>5, <1>6 DEF IInv

\* The empty queue satisfies the invariant.
LEMMA InitInv == Init => IInv
BY QueueAssumption DEF Init, IInv, TypeOK, CallsOK, BlocksOK, InsertOK, DequeueOK,
   CalmOK, Blocks, Held, WellFormed, Chain, First, Last, Ptr, Label, DequeueStep

\* A call of QueueInsert starts when no other is under way.
LEMMA QueueInsertInv == ASSUME IInv, NEW t \in Thread, NEW q \in Proc, Quiescent, QueueInsert(t, q) PROVE IInv'
<1>1. TypeOK'
  BY QueueAssumption DEF QueueInsert, Quiescent, IInv, TypeOK, Label, InsertStep, Step
<1>2. CallsOK'
  BY QueueAssumption DEF QueueInsert, Quiescent, IInv, TypeOK, CallsOK, DequeueStep,
     Step
<1>3. BlocksOK'
  BY QueueAssumption DEF QueueInsert, Quiescent, IInv, TypeOK, BlocksOK, Blocks, Held,
     Chain, Step
<1>4. InsertOK'
  BY QueueAssumption DEF QueueInsert, Quiescent, IInv, TypeOK, InsertOK, Step
<1>5. DequeueOK'
  BY QueueAssumption DEF QueueInsert, Quiescent, IInv, TypeOK, DequeueOK, DequeueStep,
     Step
<1>6. CalmOK'
  BY QueueAssumption DEF QueueInsert, Quiescent, IInv, TypeOK, CalmOK, Calm,
     WellFormed, Chain, First, Last, Step
<1> QED BY <1>1, <1>2, <1>3, <1>4, <1>5, <1>6 DEF IInv

\* A call of Dequeue starts when no other is under way.
LEMMA DequeueInv == ASSUME IInv, Quiescent, Dequeue PROVE IInv'
<1>1. TypeOK'
  BY QueueAssumption DEF Dequeue, Quiescent, IInv, TypeOK, Label, DequeueStep, Step
<1>2. CallsOK'
  BY QueueAssumption DEF Dequeue, Quiescent, IInv, TypeOK, CallsOK, Step
<1>3. BlocksOK'
  BY QueueAssumption DEF Dequeue, Quiescent, IInv, TypeOK, BlocksOK, Blocks, Held, Step
<1>4. InsertOK'
  BY QueueAssumption DEF Dequeue, Quiescent, IInv, TypeOK, InsertOK, Step
<1>5. DequeueOK'
  BY QueueAssumption DEF Dequeue, Quiescent, IInv, TypeOK, DequeueOK, Step
<1>6. CalmOK'
  BY QueueAssumption DEF Dequeue, Quiescent, IInv, TypeOK, CalmOK, Calm, WellFormed,
     Chain, First, Last, Step
<1> QED BY <1>1, <1>2, <1>3, <1>4, <1>5, <1>6 DEF IInv

\* Every step of serial callers, and every stutter, keeps the invariant.
LEMMA StepInv == IInv /\ [SerialNext]_vars => IInv'
<1> SUFFICES ASSUME IInv, [SerialNext]_vars PROVE IInv'
  OBVIOUS
<1>1. CASE Quiescent /\ Call
  BY <1>1, QueueInsertInv, DequeueInv DEF Call
<1>2. ASSUME NEW t \in Thread, InsertNext(t) PROVE IInv'
  BY <1>2, MallocInv, InitNextInv, InitValueInv, TestEndInv, LoadEndInv,
     LinkNextInv, SetHeadInv, SetEndInv DEF InsertNext
<1>3. CASE DequeueNext
  BY <1>3, LoadHeadInv, LoadNextInv, StoreHeadInv, TestNextInv, ClearEndInv,
     ClearHeadInv, LoadValueInv, FreeInv DEF DequeueNext
<1>4. CASE UNCHANGED vars
  BY SMTT(30), <1>4 DEF vars, IInv, TypeOK, CallsOK, BlocksOK, InsertOK, DequeueOK,
     CalmOK, Blocks, Held, Entering, Leaving, WellFormed, Chain, First, Last
<1> QED BY <1>1, <1>2, <1>3, <1>4 DEF SerialNext, Continue

(* The list has its shape at every step of serial calls. *)
THEOREM Invariant == SerialSpec => []IInv
<1>1. Init => IInv
  BY InitInv
<1>2. IInv /\ [SerialNext]_vars => IInv'
  BY StepInv
<1> QED BY <1>1, <1>2, PTL DEF SerialSpec

\* Between serial calls the list is the chain of the waiting processes, and
\* no block is leaked (libscheduler.c:5-36).
THEOREM ListIntactAlways == SerialSpec => []ListIntact
<1>1. IInv => ListIntact
  BY DEF IInv, BlocksOK, CalmOK, Calm, Held, Quiescent, ListIntact
<1> QED BY <1>1, Invariant, PTL

Contents == [i \in 1..Len(order) |-> node[order[i]].Value]

\* Contents is a sequence of processes.
LEMMA ContentsSeq == ASSUME IInv
                     PROVE  /\ Contents \in Seq(Proc)
                            /\ Len(Contents) = Len(order)
                            /\ \A i \in 1..Len(order) : Contents[i] = node[order[i]].Value
  BY DEF IInv, TypeOK, BlocksOK, Contents

\* A step that touches neither the sequence nor a queued block's process.
LEMMA SameContents == ASSUME order' = order,
                             \A i \in 1..Len(order) : node'[order[i]].Value = node[order[i]].Value
                      PROVE  Contents' = Contents
  BY DEF Contents

\* A block is filled: its process goes to the back.
LEMMA InitValueInserts == ASSUME IInv, NEW t \in Thread, InitValue(t)
                          PROVE  p[t] \in Proc /\ Contents' = Append(Contents, p[t])
<1>1. N[t] \in Node \ Blocks /\ p[t] \in Proc
  BY DEF InitValue, IInv, BlocksOK, CallsOK, Held, Step
<1>2. IInv'
  BY InitValueInv
<1>3. /\ Len(order) \in Nat
      /\ Len(order') = Len(order) + 1
      /\ order'[Len(order) + 1] = N[t]
      /\ \A i \in 1..Len(order) : order'[i] = order[i] /\ order[i] \in Blocks
  BY <1>1 DEF InitValue, IInv, TypeOK, Blocks
<1>4. node'[N[t]].Value = p[t] /\ \A n \in Blocks : node'[n].Value = node[n].Value
  BY <1>1, <1>3 DEF InitValue, IInv, TypeOK, Blocks
<1>5. /\ Contents \in Seq(Proc) /\ Len(Contents) = Len(order)
      /\ \A i \in 1..Len(order) : Contents[i] = node[order[i]].Value
  BY ContentsSeq
<1>6. /\ Contents' \in Seq(Proc) /\ Len(Contents') = Len(order')
      /\ \A i \in 1..Len(order') : Contents'[i] = node'[order'[i]].Value
  BY <1>2 DEF IInv, TypeOK, BlocksOK, Contents
<1> QED BY <1>1, <1>3, <1>4, <1>5, <1>6

\* Dequeue reads the process at the front, and the rest moves up.
LEMMA LoadValueTakes == ASSUME IInv, LoadValue
                        PROVE  /\ Contents # <<>>
                               /\ got' = Head(Contents)
                               /\ Contents' = Tail(Contents)
<1>1. Leaving(Main)
  BY DEF LoadValue, IInv, DequeueOK, DequeueStep, Step
<1>2. order' = Tail(order)
  BY <1>1, FirstOut
<1>3. /\ Len(order) \in Nat \ {0}
      /\ Len(order') = Len(order) - 1
      /\ \A i \in 1..Len(order') : order'[i] = order[i + 1]
  BY <1>1, <1>2 DEF Leaving, IInv, TypeOK
<1>4. IInv'
  BY LoadValueInv
<1>5. /\ Contents \in Seq(Proc) /\ Len(Contents) = Len(order)
      /\ \A i \in 1..Len(order) : Contents[i] = node[order[i]].Value
  BY ContentsSeq
<1>6. /\ Contents' \in Seq(Proc) /\ Len(Contents') = Len(order')
      /\ \A i \in 1..Len(order') : Contents'[i] = node'[order'[i]].Value
  BY <1>4 DEF IInv, TypeOK, BlocksOK, Contents
<1>7. node' = node /\ got' = node[order[1]].Value
  BY <1>1 DEF LoadValue, Leaving
<1> QED BY SMTT(30), <1>3, <1>5, <1>6, <1>7

(* Every serial step is a step of the FIFO queue, or none of its business. *)
LEMMA StepRefines == IInv /\ [SerialNext]_vars
                       => \/ \E q \in Proc : Contents' = Append(Contents, q) /\ got' = got
                          \/ Contents # <<>> /\ got' = Head(Contents) /\ Contents' = Tail(Contents)
                          \/ Contents = <<>> /\ got' = NULL /\ Contents' = Contents
                          \/ Contents' = Contents /\ got' = got
<1> SUFFICES ASSUME IInv, [SerialNext]_vars
             PROVE  \/ \E q \in Proc : Contents' = Append(Contents, q) /\ got' = got
                    \/ Contents # <<>> /\ got' = Head(Contents) /\ Contents' = Tail(Contents)
                    \/ Contents = <<>> /\ got' = NULL /\ Contents' = Contents
                    \/ Contents' = Contents /\ got' = got
  OBVIOUS
<1>1. ASSUME NEW t \in Thread, NEW q \in Proc, QueueInsert(t, q)
      PROVE  Contents' = Contents /\ got' = got
  BY <1>1, SameContents DEF QueueInsert
<1>2. CASE Dequeue
  BY <1>2, SameContents DEF Dequeue
<1>3. ASSUME NEW t \in Thread, Malloc(t) PROVE Contents' = Contents /\ got' = got
  BY <1>3, SameContents DEF Malloc
<1>4. ASSUME NEW t \in Thread, InitNext(t) PROVE Contents' = Contents /\ got' = got
  BY <1>4, SameContents DEF InitNext, IInv, TypeOK
<1>5. ASSUME NEW t \in Thread, InitValue(t)
      PROVE  \E q \in Proc : Contents' = Append(Contents, q) /\ got' = got
  BY <1>5, InitValueInserts DEF InitValue
<1>6. ASSUME NEW t \in Thread, TestEnd(t) \/ LoadEnd(t) \/ SetHead(t) \/ SetEnd(t)
      PROVE  Contents' = Contents /\ got' = got
  BY <1>6, SameContents DEF TestEnd, LoadEnd, SetHead, SetEnd
<1>7. ASSUME NEW t \in Thread, LinkNext(t) PROVE Contents' = Contents /\ got' = got
  BY <1>7, SameContents DEF LinkNext, IInv, TypeOK
<1>8. CASE LoadHead
  <2>1. Contents' = Contents
    BY <1>8, SameContents DEF LoadHead
  <2>2. CASE Queue.Head # NULL
    BY <1>8, <2>1, <2>2 DEF LoadHead
  <2>3. CASE Queue.Head = NULL
    <3>1. \A t \in Thread : pc[t] \in Calm
      BY <1>8, QueueAssumption DEF LoadHead, IInv, CallsOK, Calm, Step
    <3>2. Queue.Head = First(Len(order))
      BY <3>1 DEF IInv, CalmOK, WellFormed
    <3>3. Len(order) = 0
      BY <2>3, <3>2, QueueAssumption DEF First, IInv, TypeOK
    <3>4. Contents = <<>>
      BY <3>3, ContentsSeq
    <3> QED BY <1>8, <2>1, <2>3, <3>4 DEF LoadHead
  <2> QED BY <2>2, <2>3
<1>9. CASE LoadNext \/ StoreHead \/ TestNext \/ ClearEnd \/ ClearHead \/ Free
  BY <1>9, SameContents DEF LoadNext, StoreHead, TestNext, ClearEnd, ClearHead, Free
<1>10. CASE LoadValue
  BY <1>10, LoadValueTakes
<1>11. CASE UNCHANGED vars
  BY <1>11, SameContents DEF vars
<1> QED BY <1>1, <1>2, <1>3, <1>4, <1>5, <1>6, <1>7, <1>8, <1>9, <1>10, <1>11
        DEF SerialNext, Call, Continue, InsertNext, DequeueNext

(* Serial callers see a FIFO queue. *)
THEOREM Refinement == SerialSpec => ImplementsFifo
<1>1. Init => Fifo!Init
  BY DEF Init, Fifo!Init
<1>2. IInv /\ [SerialNext]_vars => [Fifo!Next]_(Fifo!fifoVars)
  BY StepRefines DEF Contents, Fifo!Next, Fifo!Insert, Fifo!Take, Fifo!TakeNothing,
     Fifo!fifoVars
<1> QED BY <1>1, <1>2, Invariant, PTL DEF SerialSpec, ImplementsFifo, Fifo!Spec
-----------------------------------------------------------------------------
(***************************************************************************)
(* Any interleaving.  The list may lose blocks, but no block is ever led   *)
(* to twice: it is linked once, by a store of its inserter, and a store    *)
(* through a stale pointer can only take away what another one led to.     *)
(***************************************************************************)
Filling == {"initNext", "initValue"}
Linking == {"testEnd", "loadEnd", "linkNext", "setHead"}
Taking  == {"loadNext", "storeHead", "testNext", "clearEnd", "clearHead", "loadValue"}
Owning  == Filling \cup Linking \cup Taking \cup {"free"}

\* The block of a call that nothing leads to is in no other call's hands, and
\* counts as queued from InitValue to LoadValue.
OwnsOK ==
  /\ Blocks \subseteq heap
  /\ \A t \in Thread : pc[t] \in Owning =>
       /\ N[t] \in heap
       /\ N[t] \in Blocks <=> pc[t] \in Linking \cup Taking
       /\ \A u \in Thread : pc[u] \in Owning /\ N[u] = N[t] => u = t

\* What can still be reached.
Linked == {n \in Blocks : \A t \in Thread : pc[t] \in Linking \cup Taking => N[t] # n}

\* Where Head leads, once StoreHead has overwritten it if it is about to.
Top == CASE pc[Main] = "loadNext"  -> NULL
         [] pc[Main] = "storeHead" -> reg[Main]
         [] OTHER                  -> Queue.Head

\* The blocks whose Next will be read, or may.
Live == {n \in Node : /\ n \in Blocks \/ \E t \in Thread : pc[t] = "initValue" /\ N[t] = n
                      /\ pc[Main] \in Taking \ {"loadNext"} => n # N[Main]}

\* One pointer leads to a block: top, or the Next of one that is live.
Leads(top, live, blocks, linked) ==
  /\ top # NULL => top \in linked /\ \A n \in live : blocks[n].Next # top
  /\ \A n \in live : blocks[n].Next # NULL => blocks[n].Next \in linked
  /\ \A n, m \in live : blocks[n].Next # NULL /\ blocks[n].Next = blocks[m].Next => n = m

LeadsOK == Leads(Top, Live, node, Linked)

PlacesOK == /\ \A t \in Thread : pc[t] \in DequeueStep => t = Main
            /\ \A t \in Thread : pc[t] = "linkNext" => reg[t] \in Node
            /\ \A i, j \in 1..Len(order) : order[i] = order[j] => i = j

AnyInv == TypeOK /\ PlacesOK /\ OwnsOK /\ LeadsOK


\* A call begins: it has no block yet.
LEMMA QueueInsertAny == ASSUME AnyInv, NEW t \in Thread, NEW q \in Proc, QueueInsert(t, q) PROVE AnyInv'
<1>1. TypeOK'
  BY QueueAssumption DEF QueueInsert, AnyInv, TypeOK, Ptr, Label, InsertStep, Step
<1>2. PlacesOK'
  BY QueueAssumption DEF QueueInsert, AnyInv, TypeOK, PlacesOK, DequeueStep, Step
<1>3. OwnsOK'
  BY QueueAssumption DEF QueueInsert, AnyInv, TypeOK, PlacesOK, OwnsOK, Blocks, Owning,
     Filling, Linking, Taking, DequeueStep, Step
<1>4. LeadsOK'
  BY QueueAssumption DEF QueueInsert, AnyInv, TypeOK, PlacesOK, OwnsOK, LeadsOK, Leads,
     Linked, Top, Live, Blocks, Owning, Filling, Linking, Taking, DequeueStep, Step
<1> QED BY <1>1, <1>2, <1>3, <1>4 DEF AnyInv

\* The block is in nobody's hands and not queued.
LEMMA MallocAny == ASSUME AnyInv, NEW t \in Thread, Malloc(t) PROVE AnyInv'
<1>1. TypeOK'
  BY QueueAssumption DEF Malloc, AnyInv, TypeOK, Ptr, Label, InsertStep, Step
<1>2. PlacesOK'
  BY QueueAssumption DEF Malloc, AnyInv, TypeOK, PlacesOK, DequeueStep, Step
<1>3. OwnsOK'
  BY QueueAssumption DEF Malloc, AnyInv, TypeOK, PlacesOK, OwnsOK, Blocks, Owning, Filling,
     Linking, Taking, DequeueStep, Step
<1>4. LeadsOK'
  BY SMTT(90), QueueAssumption DEF Malloc, AnyInv, TypeOK, PlacesOK, OwnsOK, LeadsOK, Leads, Linked,
     Top, Live, Blocks, Ptr, Owning, Filling, Linking, Taking, DequeueStep, Step
<1> QED BY <1>1, <1>2, <1>3, <1>4 DEF AnyInv

\* The pointer that is lost led from a block whose Next nobody reads now.
LEMMA InitNextAny == ASSUME AnyInv, NEW t \in Thread, InitNext(t) PROVE AnyInv'
<1>1. TypeOK'
  BY SMTT(30), QueueAssumption DEF InitNext, AnyInv, TypeOK, PlacesOK, OwnsOK, Owning, Filling,
     Linking, Taking, Ptr, Label, InsertStep, Step
<1>2. PlacesOK'
  BY QueueAssumption DEF InitNext, AnyInv, TypeOK, PlacesOK, DequeueStep, Step
<1>3. OwnsOK'
  BY QueueAssumption DEF InitNext, AnyInv, TypeOK, PlacesOK, OwnsOK, Blocks, Owning,
     Filling, Linking, Taking, DequeueStep, Step
<1>4. LeadsOK'
  <2>1. N[t] \in Node \ Blocks /\ pc[t] = "initNext"
    BY DEF InitNext, AnyInv, TypeOK, OwnsOK, Filling, Linking, Taking, Owning, Step
  <2>2. Top' = Top /\ Linked' = Linked
    BY QueueAssumption, <2>1 DEF InitNext, AnyInv, TypeOK, Top, Linked, Blocks, Linking,
       Taking, Step
  <2>3. \A n \in Live' : n = N[t] \/ n \in Live
    BY QueueAssumption, <2>1 DEF InitNext, AnyInv, TypeOK, Live, Blocks, Taking, Step
  <2>4. node'[N[t]].Next = NULL /\ \A n \in Node : n # N[t] => node'[n] = node[n]
    BY <2>1 DEF InitNext, AnyInv, TypeOK
  <2>5. Live \subseteq Node /\ N[t] \in Node
    BY <2>1 DEF Live
  <2> QED BY <2>2, <2>3, <2>4, <2>5 DEF AnyInv, LeadsOK, Leads
<1> QED BY <1>1, <1>2, <1>3, <1>4 DEF AnyInv

\* InitValue adds its block at the end of `order'.
LEMMA Filled ==
  ASSUME AnyInv, NEW t \in Thread, InitValue(t)
  PROVE  /\ order \in Seq(Node) /\ N[t] \in Node \ Blocks /\ Len(order') = Len(order) + 1
         /\ order'[Len(order) + 1] = N[t] /\ \A i \in 1..Len(order) : order'[i] = order[i]
<1>1. order \in Seq(Node) /\ order' = Append(order, N[t])
  BY DEF AnyInv, TypeOK, InitValue
<1>2. pc[t] = "initValue" /\ heap \subseteq Node
  BY DEF AnyInv, TypeOK, InitValue, Step
<1>3. N[t] \in Node \ Blocks
  BY <1>2 DEF AnyInv, OwnsOK, Owning, Filling, Linking, Taking
<1> QED BY <1>1, <1>3

\* The block counts as queued, and nothing leads to it.
LEMMA InitValueAny == ASSUME AnyInv, NEW t \in Thread, InitValue(t) PROVE AnyInv'
<1>1. TypeOK'
  <2>1. order' \in Seq(Node)
    BY DEF InitValue, AnyInv, TypeOK, OwnsOK, Owning, Filling, Step
  <2> QED BY ZenonT(60), <2>1, QueueAssumption DEF InitValue, AnyInv, TypeOK, Label, InsertStep, Step
<1>2. PlacesOK'
  <2>1. /\ order \in Seq(Node) /\ N[t] \in Node \ Blocks /\ Len(order') = Len(order) + 1
        /\ order'[Len(order) + 1] = N[t] /\ \A i \in 1..Len(order) : order'[i] = order[i]
    BY Filled
  <2>2. \A i \in 1..Len(order) : order[i] # N[t]
    BY <2>1 DEF Blocks
  <2>3. \A i, j \in 1..Len(order') : order'[i] = order'[j] => i = j
    BY <2>1, <2>2 DEF AnyInv, PlacesOK
  <2> QED BY <2>3, QueueAssumption DEF InitValue, AnyInv, TypeOK, PlacesOK, DequeueStep,
     Step
<1>3. OwnsOK'
  BY SMTT(30), QueueAssumption DEF InitValue, AnyInv, TypeOK, PlacesOK, OwnsOK, Blocks, Owning,
     Filling, Linking, Taking, DequeueStep, Step
<1>4. LeadsOK'
  <2>1. /\ order \in Seq(Node) /\ N[t] \in Node \ Blocks /\ Len(order') = Len(order) + 1
        /\ order'[Len(order) + 1] = N[t] /\ \A i \in 1..Len(order) : order'[i] = order[i]
    BY Filled
  <2>2. Blocks' = Blocks \cup {N[t]}
    BY <2>1 DEF Blocks
  <2>3. Top' = Top /\ Live' = Live /\ Linked' = Linked
    BY QueueAssumption, <2>1, <2>2 DEF InitValue, AnyInv, TypeOK, Top, Live, Linked,
       Linking, Taking, Step
  <2>4. \A n \in Node : node'[n].Next = node[n].Next
    BY <2>1 DEF InitValue, AnyInv, TypeOK
  <2>5. Live \subseteq Node
    BY DEF Live
  <2> QED BY <2>3, <2>4, <2>5 DEF AnyInv, LeadsOK, Leads
<1> QED BY <1>1, <1>2, <1>3, <1>4 DEF AnyInv

\* No pointer changes.
LEMMA TestEndAny == ASSUME AnyInv, NEW t \in Thread, TestEnd(t) PROVE AnyInv'
<1>1. TypeOK'
  BY QueueAssumption DEF TestEnd, AnyInv, TypeOK, Ptr, Label, InsertStep, Step
<1>2. PlacesOK'
  BY QueueAssumption DEF TestEnd, AnyInv, TypeOK, PlacesOK, DequeueStep, Step
<1>3. OwnsOK'
  BY SMTT(30), QueueAssumption DEF TestEnd, AnyInv, TypeOK, PlacesOK, OwnsOK, Blocks, Owning, Filling,
     Linking, Taking, DequeueStep, Step
<1>4. LeadsOK'
  BY SMTT(30), QueueAssumption DEF TestEnd, AnyInv, TypeOK, PlacesOK, OwnsOK, LeadsOK, Leads, Linked,
     Top, Live, Blocks, Ptr, Owning, Filling, Linking, Taking, DequeueStep, Step
<1> QED BY <1>1, <1>2, <1>3, <1>4 DEF AnyInv

\* What End points to may be anything by the time it is used.
LEMMA LoadEndAny == ASSUME AnyInv, NEW t \in Thread, LoadEnd(t) PROVE AnyInv'
<1>1. TypeOK'
  BY QueueAssumption DEF LoadEnd, AnyInv, TypeOK, Ptr, Label, InsertStep, Step
<1>2. PlacesOK'
  BY QueueAssumption DEF LoadEnd, AnyInv, TypeOK, PlacesOK, Ptr, DequeueStep, Step
<1>3. OwnsOK'
  BY QueueAssumption DEF LoadEnd, AnyInv, TypeOK, PlacesOK, OwnsOK, Blocks, Owning, Filling,
     Linking, Taking, DequeueStep, Step
<1>4. LeadsOK'
  BY SMTT(30), QueueAssumption DEF LoadEnd, AnyInv, TypeOK, PlacesOK, OwnsOK, LeadsOK, Leads, Linked,
     Top, Live, Blocks, Owning, Filling, Linking, Taking, DequeueStep, Step
<1> QED BY <1>1, <1>2, <1>3, <1>4 DEF AnyInv

\* The new block is led to by the block that the store lands in, and by no other.
LEMMA LinkNextAny == ASSUME AnyInv, NEW t \in Thread, LinkNext(t) PROVE AnyInv'
<1>1. TypeOK'
  BY SMTT(30), QueueAssumption DEF LinkNext, AnyInv, TypeOK, PlacesOK, OwnsOK, Owning, Filling,
     Linking, Taking, Ptr, Label, InsertStep, Step
<1>2. PlacesOK'
  BY QueueAssumption DEF LinkNext, AnyInv, TypeOK, PlacesOK, DequeueStep, Step
<1>3. OwnsOK'
  BY QueueAssumption DEF LinkNext, AnyInv, TypeOK, PlacesOK, OwnsOK, Blocks, Owning,
     Filling, Linking, Taking, DequeueStep, Step
<1>4. LeadsOK'
  BY SMTT(90), QueueAssumption DEF LinkNext, AnyInv, TypeOK, PlacesOK, OwnsOK, LeadsOK, Leads, Linked,
     Top, Live, Blocks, Ptr, Owning, Filling, Linking, Taking, DequeueStep, Step
<1> QED BY <1>1, <1>2, <1>3, <1>4 DEF AnyInv

\* Head leads to the new block: what it led to before is lost.
LEMMA SetHeadAny == ASSUME AnyInv, NEW t \in Thread, SetHead(t) PROVE AnyInv'
<1>1. TypeOK'
  BY QueueAssumption DEF SetHead, AnyInv, TypeOK, PlacesOK, OwnsOK, Owning, Filling,
     Linking, Taking, Ptr, Label, InsertStep, Step
<1>2. PlacesOK'
  BY QueueAssumption DEF SetHead, AnyInv, TypeOK, PlacesOK, DequeueStep, Step
<1>3. OwnsOK'
  BY QueueAssumption DEF SetHead, AnyInv, TypeOK, PlacesOK, OwnsOK, Blocks, Owning, Filling,
     Linking, Taking, DequeueStep, Step
<1>4. LeadsOK'
  <2>1. N[t] \in Blocks /\ pc[t] = "setHead" /\ N[t] \notin Linked
    BY DEF SetHead, AnyInv, OwnsOK, Owning, Linking, Linked, Step
  <2>2. Live' = Live /\ node' = node
    BY QueueAssumption DEF SetHead, AnyInv, TypeOK, Live, Blocks, Taking, Step
  <2>3. Linked' = Linked \cup {N[t]}
    BY QueueAssumption, <2>1 DEF SetHead, AnyInv, TypeOK, OwnsOK, Linked, Blocks, Owning,
       Linking, Taking, Step
  <2>4. Top' = Top \/ Top' = N[t]
    BY QueueAssumption DEF SetHead, AnyInv, TypeOK, Top, Step
  <2>5. N[t] # NULL
    BY QueueAssumption, <2>1 DEF AnyInv, TypeOK, Blocks
  <2> QED BY <2>1, <2>2, <2>3, <2>4, <2>5 DEF AnyInv, LeadsOK, Leads
<1> QED BY <1>1, <1>2, <1>3, <1>4 DEF AnyInv

\* The inserter lets go of its block.
LEMMA SetEndAny == ASSUME AnyInv, NEW t \in Thread, SetEnd(t) PROVE AnyInv'
<1>1. TypeOK'
  BY QueueAssumption DEF SetEnd, AnyInv, TypeOK, PlacesOK, OwnsOK, Owning, Filling, Linking,
     Taking, Ptr, Label, InsertStep, Step
<1>2. PlacesOK'
  BY QueueAssumption DEF SetEnd, AnyInv, TypeOK, PlacesOK, DequeueStep, Step
<1>3. OwnsOK'
  BY QueueAssumption DEF SetEnd, AnyInv, TypeOK, PlacesOK, OwnsOK, Blocks, Owning, Filling,
     Linking, Taking, DequeueStep, Step
<1>4. LeadsOK'
  <2>1. Live' = Live /\ node' = node
    BY QueueAssumption DEF SetEnd, AnyInv, TypeOK, PlacesOK, Live, Blocks, Taking,
       DequeueStep, Step
  <2>2. Linked' = Linked
    BY QueueAssumption DEF SetEnd, AnyInv, TypeOK, Linked, Blocks, Linking, Taking, Step
  <2>3. Top' = Top
    BY QueueAssumption DEF SetEnd, AnyInv, TypeOK, Top, Step
  <2> QED BY <2>1, <2>2, <2>3 DEF AnyInv, LeadsOK
<1> QED BY <1>1, <1>2, <1>3, <1>4 DEF AnyInv

\* No pointer changes.
LEMMA DequeueAny == ASSUME AnyInv, Dequeue PROVE AnyInv'
<1>1. TypeOK'
  BY QueueAssumption DEF Dequeue, AnyInv, TypeOK, Ptr, Label, DequeueStep, Step
<1>2. PlacesOK'
  BY QueueAssumption DEF Dequeue, AnyInv, TypeOK, PlacesOK, DequeueStep, Step
<1>3. OwnsOK'
  BY QueueAssumption DEF Dequeue, AnyInv, TypeOK, PlacesOK, OwnsOK, Blocks, Owning, Filling,
     Linking, Taking, DequeueStep, Step
<1>4. LeadsOK'
  BY SMTT(90), QueueAssumption DEF Dequeue, AnyInv, TypeOK, PlacesOK, OwnsOK, LeadsOK, Leads, Linked,
     Top, Live, Blocks, Owning, Filling, Linking, Taking, DequeueStep, Step
<1> QED BY <1>1, <1>2, <1>3, <1>4 DEF AnyInv

\* Dequeue takes the block at Head, which no inserter has.
LEMMA LoadHeadAny == ASSUME AnyInv, LoadHead PROVE AnyInv'
<1>1. TypeOK'
  BY QueueAssumption DEF LoadHead, AnyInv, TypeOK, Ptr, Label, DequeueStep, Step
<1>2. PlacesOK'
  BY QueueAssumption DEF LoadHead, AnyInv, TypeOK, PlacesOK, DequeueStep, Step
<1>3. OwnsOK'
  BY QueueAssumption DEF LoadHead, AnyInv, TypeOK, PlacesOK, OwnsOK, LeadsOK, Leads, Linked,
     Top, Blocks, Owning, Filling, Linking, Taking, DequeueStep, Step
<1>4. LeadsOK'
  BY SMTT(90), QueueAssumption DEF LoadHead, AnyInv, TypeOK, PlacesOK, OwnsOK, LeadsOK, Leads, Linked,
     Top, Live, Blocks, Owning, Filling, Linking, Taking, DequeueStep, Step
<1> QED BY <1>1, <1>2, <1>3, <1>4 DEF AnyInv

\* What the block led to, Head will: the block itself is read no more.
LEMMA LoadNextAny == ASSUME AnyInv, LoadNext PROVE AnyInv'
<1>1. TypeOK'
  BY QueueAssumption DEF LoadNext, AnyInv, TypeOK, PlacesOK, OwnsOK, Owning, Filling,
     Linking, Taking, Ptr, Label, DequeueStep, Step
<1>2. PlacesOK'
  BY QueueAssumption DEF LoadNext, AnyInv, TypeOK, PlacesOK, DequeueStep, Step
<1>3. OwnsOK'
  BY QueueAssumption DEF LoadNext, AnyInv, TypeOK, PlacesOK, OwnsOK, Blocks, Owning,
     Filling, Linking, Taking, DequeueStep, Step
<1>4. LeadsOK'
  <2>1. N[Main] \in Live /\ N[Main] \in Blocks
    BY QueueAssumption DEF LoadNext, AnyInv, TypeOK, OwnsOK, Live, Blocks, Owning, Taking,
       Linking, Step
  <2>2. Top' = node[N[Main]].Next /\ node' = node
    BY QueueAssumption DEF LoadNext, AnyInv, TypeOK, Top, Step
  <2>3. Linked' = Linked
    BY QueueAssumption DEF LoadNext, AnyInv, TypeOK, Linked, Blocks, Linking, Taking, Step
  <2>4. Live' \subseteq Live \ {N[Main]}
    BY QueueAssumption DEF LoadNext, AnyInv, TypeOK, Live, Blocks, Taking, Step
  <2> QED BY <2>1, <2>2, <2>3, <2>4 DEF AnyInv, LeadsOK, Leads
<1> QED BY <1>1, <1>2, <1>3, <1>4 DEF AnyInv

\* Head leads where Dequeue found that it should.
LEMMA StoreHeadAny == ASSUME AnyInv, StoreHead PROVE AnyInv'
<1>1. TypeOK'
  BY QueueAssumption DEF StoreHead, AnyInv, TypeOK, Ptr, Label, DequeueStep, Step
<1>2. PlacesOK'
  BY QueueAssumption DEF StoreHead, AnyInv, TypeOK, PlacesOK, DequeueStep, Step
<1>3. OwnsOK'
  BY QueueAssumption DEF StoreHead, AnyInv, TypeOK, PlacesOK, OwnsOK, Blocks, Owning,
     Filling, Linking, Taking, DequeueStep, Step
<1>4. LeadsOK'
  BY SMTT(90), QueueAssumption DEF StoreHead, AnyInv, TypeOK, PlacesOK, OwnsOK, LeadsOK, Leads,
     Linked, Top, Live, Blocks, Ptr, Owning, Filling, Linking, Taking, DequeueStep, Step
<1> QED BY <1>1, <1>2, <1>3, <1>4 DEF AnyInv

\* No pointer changes.
LEMMA TestNextAny == ASSUME AnyInv, TestNext PROVE AnyInv'
<1>1. TypeOK'
  BY QueueAssumption DEF TestNext, AnyInv, TypeOK, PlacesOK, OwnsOK, Owning, Filling,
     Linking, Taking, Ptr, Label, DequeueStep, Step
<1>2. PlacesOK'
  BY QueueAssumption DEF TestNext, AnyInv, TypeOK, PlacesOK, DequeueStep, Step
<1>3. OwnsOK'
  BY QueueAssumption DEF TestNext, AnyInv, TypeOK, PlacesOK, OwnsOK, Blocks, Owning,
     Filling, Linking, Taking, DequeueStep, Step
<1>4. LeadsOK'
  BY SMTT(30), QueueAssumption DEF TestNext, AnyInv, TypeOK, PlacesOK, OwnsOK, LeadsOK, Leads, Linked,
     Top, Live, Blocks, Owning, Filling, Linking, Taking, DequeueStep, Step
<1> QED BY <1>1, <1>2, <1>3, <1>4 DEF AnyInv

\* End leads nowhere.
LEMMA ClearEndAny == ASSUME AnyInv, ClearEnd PROVE AnyInv'
<1>1. TypeOK'
  BY QueueAssumption DEF ClearEnd, AnyInv, TypeOK, Ptr, Label, DequeueStep, Step
<1>2. PlacesOK'
  BY QueueAssumption DEF ClearEnd, AnyInv, TypeOK, PlacesOK, DequeueStep, Step
<1>3. OwnsOK'
  BY QueueAssumption DEF ClearEnd, AnyInv, TypeOK, PlacesOK, OwnsOK, Blocks, Owning,
     Filling, Linking, Taking, DequeueStep, Step
<1>4. LeadsOK'
  BY SMTT(90), QueueAssumption DEF ClearEnd, AnyInv, TypeOK, PlacesOK, OwnsOK, LeadsOK, Leads, Linked,
     Top, Live, Blocks, Owning, Filling, Linking, Taking, DequeueStep, Step
<1> QED BY <1>1, <1>2, <1>3, <1>4 DEF AnyInv

\* What Head led to, if a block came in between, is lost.
LEMMA ClearHeadAny == ASSUME AnyInv, ClearHead PROVE AnyInv'
<1>1. TypeOK'
  BY QueueAssumption DEF ClearHead, AnyInv, TypeOK, Ptr, Label, DequeueStep, Step
<1>2. PlacesOK'
  BY QueueAssumption DEF ClearHead, AnyInv, TypeOK, PlacesOK, DequeueStep, Step
<1>3. OwnsOK'
  BY QueueAssumption DEF ClearHead, AnyInv, TypeOK, PlacesOK, OwnsOK, Blocks, Owning,
     Filling, Linking, Taking, DequeueStep, Step
<1>4. LeadsOK'
  BY SMTT(90), QueueAssumption DEF ClearHead, AnyInv, TypeOK, PlacesOK, OwnsOK, LeadsOK, Leads,
     Linked, Top, Live, Blocks, Ptr, Owning, Filling, Linking, Taking, DequeueStep, Step
<1> QED BY <1>1, <1>2, <1>3, <1>4 DEF AnyInv

\* LoadValue closes the gap in `order'.
LEMMA OutOf ==
  ASSUME AnyInv, LoadValue, NEW k \in 1..Len(order), order[k] = N[Main]
  PROVE  /\ order' \in Seq(Node) /\ Len(order') = Len(order) - 1
         /\ \A j \in 1..(Len(order) - 1) : order'[j] = order[IF j < k THEN j ELSE j + 1]
<1>1. TypeOK /\ \A i, j \in 1..Len(order) : order[i] = order[j] => i = j
  BY DEF AnyInv, PlacesOK
<1> DEFINE new == Without(order[k])
<1>2. order' = new
  BY DEF LoadValue
<1>3. /\ new \in Seq(Node) /\ Len(new) = Len(order) - 1
      /\ \A j \in 1..(Len(order) - 1) : new[j] = order[IF j < k THEN j ELSE j + 1]
  BY ONLY <1>1, k \in 1..Len(order), Removed
<1> HIDE DEF new
<1> QED BY <1>2, <1>3

\* The block that is handed out is queued no more.
LEMMA BlocksLess == ASSUME AnyInv, LoadValue PROVE Blocks' = Blocks \ {N[Main]}
<1>1. PICK k \in 1..Len(order) : order[k] = N[Main]
  BY QueueAssumption DEF LoadValue, AnyInv, OwnsOK, Blocks, Owning, Taking, Step
<1>2. /\ order' \in Seq(Node) /\ Len(order') = Len(order) - 1
      /\ \A j \in 1..(Len(order) - 1) : order'[j] = order[IF j < k THEN j ELSE j + 1]
  BY <1>1, OutOf
<1>3. order \in Seq(Node) /\ \A i, j \in 1..Len(order) : order[i] = order[j] => i = j
  BY DEF AnyInv, TypeOK, PlacesOK
<1>4. ASSUME NEW j \in 1..Len(order') PROVE order'[j] \in Blocks \ {N[Main]}
  BY <1>1, <1>2, <1>3, <1>4 DEF Blocks
<1>5. ASSUME NEW i \in 1..Len(order), i # k PROVE order[i] \in Blocks'
  <2> DEFINE j == IF i < k THEN i ELSE i - 1
  <2>1. j \in 1..Len(order') /\ order'[j] = order[i]
    BY SMTT(90), <1>2, <1>3, <1>5
  <2> QED BY <2>1 DEF Blocks
<1> QED BY <1>1, <1>4, <1>5 DEF Blocks

\* The block leaves `order', wherever in it it is.
LEMMA LoadValueAny == ASSUME AnyInv, LoadValue PROVE AnyInv'
<1>1. TypeOK'
  <2>1. PICK k \in 1..Len(order) : order[k] = N[Main]
    BY QueueAssumption DEF LoadValue, AnyInv, OwnsOK, Blocks, Owning, Taking, Step
  <2>2. /\ order' \in Seq(Node) /\ Len(order') = Len(order) - 1
        /\ \A j \in 1..(Len(order) - 1) : order'[j] = order[IF j < k THEN j ELSE j + 1]
    BY <2>1, OutOf
  <2>3. N[Main] \in Node
    BY <2>1 DEF AnyInv, TypeOK
  <2>4. got' \in Proc \cup {NULL}
    BY <2>3 DEF LoadValue, AnyInv, TypeOK
  <2>5. pc' \in [Thread -> Label]
    BY DEF LoadValue, AnyInv, TypeOK, Label, DequeueStep, Step
  <2>6. UNCHANGED <<Queue, node, heap, p, N, reg>>
    BY DEF LoadValue
  <2> QED BY <2>2, <2>4, <2>5, <2>6 DEF AnyInv, TypeOK
<1>2. PlacesOK'
  <2>1. PICK k \in 1..Len(order) : order[k] = N[Main]
    BY QueueAssumption DEF LoadValue, AnyInv, OwnsOK, Blocks, Owning, Taking, Step
  <2>2. /\ order' \in Seq(Node) /\ Len(order') = Len(order) - 1
        /\ \A j \in 1..(Len(order) - 1) : order'[j] = order[IF j < k THEN j ELSE j + 1]
    BY <2>1, OutOf
  <2>3. order \in Seq(Node) /\ \A i, j \in 1..Len(order) : order[i] = order[j] => i = j
    BY DEF AnyInv, TypeOK, PlacesOK
  <2>4. ASSUME NEW i \in 1..Len(order'), NEW j \in 1..Len(order'), order'[i] = order'[j] PROVE i = j
    <3>1. i \in 1..(Len(order) - 1) /\ j \in 1..(Len(order) - 1) /\ Len(order) \in Nat
      BY <2>2, <2>3
    <3> DEFINE a == IF i < k THEN i ELSE i + 1
               b == IF j < k THEN j ELSE j + 1
    <3>2. a \in 1..Len(order) /\ b \in 1..Len(order)
      BY <3>1
    <3>3. order[a] = order[b]
      BY <3>1, <2>2, <2>4
    <3>4. a = b
      <4> HIDE DEF a, b
      <4> QED BY <3>2, <3>3, <2>3
    <3> QED BY <3>1, <3>4
  <2> QED BY <2>4, QueueAssumption DEF LoadValue, AnyInv, TypeOK, PlacesOK, DequeueStep,
     Step
<1>3. OwnsOK'
  <2>1. Blocks' = Blocks \ {N[Main]}
    BY BlocksLess
  <2> QED BY <2>1, QueueAssumption DEF LoadValue, AnyInv, TypeOK, PlacesOK, OwnsOK, Filling,
     Linking, Taking, Owning, DequeueStep, Step
<1>4. LeadsOK'
  <2>1. Blocks' = Blocks \ {N[Main]}
    BY BlocksLess
  <2>2. UNCHANGED <<Queue, node, N, reg>>
    BY DEF LoadValue
  <2>3. Live' = Live
    BY <2>1, QueueAssumption DEF LoadValue, AnyInv, TypeOK, OwnsOK, Live, Owning, Filling,
       Linking, Taking, Step
  <2>4. Linked' = Linked
    BY <2>1, QueueAssumption DEF LoadValue, AnyInv, TypeOK, OwnsOK, Linked, Owning, Linking,
       Taking, Step
  <2>5. Top' = Top
    BY QueueAssumption DEF LoadValue, AnyInv, TypeOK, Top, Step
  <2> QED BY <2>2, <2>3, <2>4, <2>5 DEF AnyInv, LeadsOK
<1> QED BY <1>1, <1>2, <1>3, <1>4 DEF AnyInv

\* Nobody has the block that is freed.
LEMMA FreeAny == ASSUME AnyInv, Free PROVE AnyInv'
<1>1. TypeOK'
  BY QueueAssumption DEF Free, AnyInv, TypeOK, Ptr, Label, DequeueStep, Step
<1>2. PlacesOK'
  BY QueueAssumption DEF Free, AnyInv, TypeOK, PlacesOK, DequeueStep, Step
<1>3. OwnsOK'
  BY QueueAssumption DEF Free, AnyInv, TypeOK, PlacesOK, OwnsOK, Blocks, Owning, Filling,
     Linking, Taking, DequeueStep, Step
<1>4. LeadsOK'
  BY SMTT(90), QueueAssumption DEF Free, AnyInv, TypeOK, PlacesOK, OwnsOK, LeadsOK, Leads, Linked,
     Top, Live, Blocks, Owning, Filling, Linking, Taking, DequeueStep, Step
<1> QED BY <1>1, <1>2, <1>3, <1>4 DEF AnyInv

\* Every step, and every stutter, keeps the invariant.
LEMMA NextAny == AnyInv /\ [Next]_vars => AnyInv'
<1> SUFFICES ASSUME AnyInv, [Next]_vars PROVE AnyInv'
  OBVIOUS
<1>1. ASSUME NEW t \in Thread, InsertNext(t) PROVE AnyInv'
  BY <1>1, MallocAny, InitNextAny, InitValueAny, TestEndAny, LoadEndAny, LinkNextAny, SetHeadAny, SetEndAny
     DEF InsertNext
<1>2. CASE DequeueNext
  BY <1>2, LoadHeadAny, LoadNextAny, StoreHeadAny, TestNextAny, ClearEndAny, ClearHeadAny, LoadValueAny, FreeAny
     DEF DequeueNext
<1>3. CASE UNCHANGED vars
  BY <1>3 DEF vars, AnyInv, TypeOK, PlacesOK, OwnsOK, LeadsOK, Linked, Top, Live, Blocks
<1> QED BY <1>1, <1>2, <1>3, QueueInsertAny, DequeueAny DEF Next, Call, Continue

(***************************************************************************)
(* Whatever the interleaving, Dequeue hands out a block that was filled    *)
(* and not handed out since (libscheduler.c:5-36).                         *)
(***************************************************************************)
THEOREM HandedOutOnceAlways == Spec => HandedOutOnce
<1> DEFINE Once == pc[Main] = "loadValue" /\ pc'[Main] = "free" => N[Main] \in Blocks /\ got' = node[N[Main]].Value
<1>1. Init => AnyInv
  <2> SUFFICES ASSUME Init PROVE AnyInv
    OBVIOUS
  <2>1. TypeOK /\ Blocks = {} /\ PlacesOK
    BY DEF Init, TypeOK, Blocks, PlacesOK, Ptr, Label, DequeueStep
  <2>2. OwnsOK
    BY <2>1 DEF Init, OwnsOK, Owning, Filling, Linking, Taking
  <2>3. Top = NULL /\ Live = {}
    BY <2>1, QueueAssumption DEF Init, Top, Live
  <2> QED BY <2>1, <2>2, <2>3 DEF AnyInv, LeadsOK, Leads
<1>2. AnyInv /\ [Next]_vars => [Once]_vars
  <2> SUFFICES ASSUME AnyInv, Next, pc[Main] = "loadValue", pc'[Main] = "free"
               PROVE  N[Main] \in Blocks /\ got' = node[N[Main]].Value
    OBVIOUS
  <2>1. N[Main] \in Blocks
    BY QueueAssumption DEF AnyInv, OwnsOK, Owning, Taking
  <2>2. ASSUME NEW t \in Thread, InsertNext(t) PROVE FALSE
    BY <2>2, QueueAssumption DEF AnyInv, TypeOK, InsertNext, Malloc, InitNext, InitValue,
       TestEnd, LoadEnd,
       LinkNext, SetHead, SetEnd, Step
  <2>3. ASSUME NEW t \in Thread, NEW q \in Proc, QueueInsert(t, q) PROVE FALSE
    BY <2>3, QueueAssumption DEF AnyInv, TypeOK, QueueInsert, Step
  <2>4. LoadValue
    BY <2>2, <2>3, QueueAssumption DEF Next, Call, Continue, Dequeue, DequeueNext, LoadHead,
       LoadNext, StoreHead,
       TestNext, ClearEnd, ClearHead, Free, Step
  <2> QED BY <2>1, <2>4 DEF LoadValue
<1> QED BY <1>1, <1>2, NextAny, PTL DEF Spec, HandedOutOnce

=============================================================================
