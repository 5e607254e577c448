--------------------------- MODULE PagePoolProofs ---------------------------
EXTENDS PagePool, TLAPS

\* The pool from calloc satisfies the invariant: every slot reads as FREE.
LEMMA InitInv == Init => IInv
<1> SUFFICES ASSUME Init PROVE IInv
  OBVIOUS
<1>1. TypeOK
  <2>1. free \in [Slot -> BOOLEAN] /\ gapFilled \in BOOLEAN
    BY DEF Init
  <2>2. 0 \in 0..NSlots /\ 0 \in 0..LogSize
    BY PoolAssumption
  <2> QED BY <2>1, <2>2 DEF Init, TypeOK, Content
<1>2. AllocOK
  BY DEF Init, AllocOK
<1>3. Taken = {}
  BY DEF Init, Taken
<1>4. UpwardOK
  BY <1>3 DEF Init, UpwardOK
<1> QED BY <1>1, <1>2, <1>4 DEF IInv

\* A call of PageAlloc starts at the first slot when no other is under way.
LEMMA PageAllocInv == ASSUME IInv, NEW t \in Thread, Quiescent, PageAlloc(t) PROVE IInv'
<1>1. TypeOK'
  BY PoolAssumption DEF PageAlloc, IInv, TypeOK, Step
<1>2. AllocOK'
  BY DEF PageAlloc, IInv, AllocOK, Quiescent, Step
<1>3. UpwardOK'
  BY DEF PageAlloc, IInv, UpwardOK, Slot, Taken, TypeOK, Step
<1> QED BY <1>1, <1>2, <1>3 DEF IInv

\* PageAlloc has found a slot whose Type is FREE.
LEMMA TestFreeInv == ASSUME IInv, NEW t \in Thread, TestFree(t) PROVE IInv'
<1>1. TypeOK'
  BY DEF TestFree, IInv, TypeOK, Step
<1>2. AllocOK'
  BY DEF TestFree, IInv, AllocOK, Step
<1>3. UpwardOK'
  BY DEF TestFree, IInv, UpwardOK, Taken, Step
<1> QED BY <1>1, <1>2, <1>3 DEF IInv

\* The slot is in use: none up to the next is FREE.
LEMMA TestNextInv == ASSUME IInv, NEW t \in Thread, TestNext(t) PROVE IInv'
<1>1. TypeOK'
  BY PoolAssumption DEF TestNext, IInv, TypeOK, Step
<1>2. AllocOK'
  BY DEF TestNext, IInv, AllocOK, Step
<1>3. UpwardOK'
  <2> SUFFICES ASSUME ~gapFilled PROVE UpwardOK'
    BY DEF TestNext, UpwardOK
  <2>1. \A u \in Thread : u # t => pc[u] = "idle"
    BY DEF TestNext, IInv, AllocOK, Step
  <2>2. Taken = {} /\ Taken' = {}
    BY <2>1 DEF TestNext, Taken, Step, IInv, TypeOK
  <2>3. \A s \in Slot : s < cursor'[t] => ~free'[s]
    <3>1. \A s \in Slot : s < cursor[t] + 1 => s < cursor[t] \/ s = cursor[t]
      BY PoolAssumption DEF IInv, TypeOK, Slot
    <3>2. cursor'[t] = cursor[t] + 1
      BY DEF TestNext, IInv, TypeOK
    <3> QED BY <3>1, <3>2 DEF TestNext, IInv, UpwardOK, Step
  <2> QED
    BY <2>1, <2>2, <2>3 DEF TestNext, IInv, TypeOK, UpwardOK, Step
<1> QED BY <1>1, <1>2, <1>3 DEF IInv

\* PageAlloc returns NULL.
LEMMA NoneFreeInv == ASSUME IInv, NEW t \in Thread, NoneFree(t) PROVE IInv'
<1>1. TypeOK'
  BY DEF NoneFree, IInv, TypeOK, Step
<1>2. AllocOK'
  BY DEF NoneFree, IInv, AllocOK, Step
<1>3. UpwardOK'
  BY DEF NoneFree, IInv, UpwardOK, Taken, Step
<1> QED BY <1>1, <1>2, <1>3 DEF IInv

\* Header->Type = 1: the slot is taken, by this call alone.
LEMMA MarkInv == ASSUME IInv, NEW t \in Thread, Mark(t) PROVE IInv'
<1>1. TypeOK'
  BY DEF Mark, IInv, TypeOK, Step
<1>2. AllocOK'
  BY DEF Mark, IInv, AllocOK, Step
<1>3. UpwardOK'
  <2> SUFFICES ASSUME ~gapFilled PROVE UpwardOK'
    BY DEF Mark, UpwardOK
  <2>1. \A u \in Thread : u # t => pc[u] = "idle"
    BY DEF Mark, IInv, AllocOK, Step
  <2>2. Taken = {} /\ Taken' = {cursor[t]}
    BY <2>1 DEF Mark, Taken, Step, IInv, TypeOK
  <2>3. cursor[t] \in Slot /\ held[cursor[t]] = 0
    BY <2>2, PoolAssumption DEF Mark, IInv, TypeOK, AllocOK, UpwardOK, Slot, Step
  <2> QED
    BY <2>1, <2>2, <2>3 DEF Mark, IInv, TypeOK, UpwardOK, Step
<1> QED BY <1>1, <1>2, <1>3 DEF IInv

\* The store to AllPages changes no slot.
LEMMA LogInv == ASSUME IInv, NEW t \in Thread, Log(t) PROVE IInv'
<1>1. TypeOK'
  BY PoolAssumption DEF Log, IInv, TypeOK, Step
<1>2. AllocOK'
  BY DEF Log, IInv, AllocOK, Step
<1>3. UpwardOK'
  BY DEF Log, IInv, UpwardOK, Taken, Step
<1> QED BY <1>1, <1>2, <1>3 DEF IInv

\* The memset: the next slot's header becomes FREE, which is what it says
\* already unless a gap is being filled.
LEMMA ClearInv == ASSUME IInv, NEW t \in Thread, Clear(t) PROVE IInv'
<1>1. TypeOK'
  <2>1. cursor[t] \in Slot
    BY PoolAssumption DEF Clear, IInv, TypeOK, AllocOK, Slot, Step
  <2>2. held' \in [Slot -> Nat]
    BY <2>1 DEF Clear, IInv, TypeOK
  <2>3. free' \in [Slot -> BOOLEAN] /\ content' \in [Slot -> Content] /\ gapFilled' \in BOOLEAN
    BY DEF Clear, IInv, TypeOK, Content
  <2> QED BY <2>2, <2>3 DEF Clear, IInv, TypeOK, Step
<1>2. AllocOK'
  BY DEF Clear, IInv, AllocOK, Step
<1>3. UpwardOK'
  <2> SUFFICES ASSUME ~gapFilled' PROVE UpwardOK'
    BY DEF UpwardOK
  <2> DEFINE c == cursor[t]
  <2>1. \A u \in Thread : u # t => pc[u] = "idle"
    BY DEF Clear, IInv, AllocOK, Step
  <2>2. Taken = {c} /\ Taken' = {}
    BY <2>1 DEF Clear, Taken, Step, IInv, TypeOK
  <2>3. c \in Slot /\ c + 1 # c
    BY PoolAssumption DEF Clear, IInv, TypeOK, AllocOK, Slot, Step
  <2>4. ~gapFilled /\ (c + 1 \in Slot => held[c + 1] = 0)
    <3>1. ~gapFilled /\ c + 1 \notin InUse
      BY DEF Clear
    <3> QED BY <3>1 DEF InUse, IInv, TypeOK
  <2>5. held[c] = 0 /\ ~free[c]
    BY <2>2, <2>3, <2>4 DEF Clear, IInv, UpwardOK, Step
  <2>6. \A s \in Slot : held'[s] = IF s = c THEN 1 ELSE held[s]
    BY <2>3, <2>5 DEF Clear, IInv, TypeOK
  <2>7. \A s \in Slot : free'[s] = IF s = c + 1 THEN TRUE ELSE free[s]
    BY DEF Clear
  <2>8. \A s \in Slot : held'[s] <= 1 /\ (free'[s] <=> held'[s] = 0)
    <3> SUFFICES ASSUME NEW s \in Slot
                 PROVE  held'[s] <= 1 /\ (free'[s] <=> held'[s] = 0)
      OBVIOUS
    <3>1. held[s] <= 1 /\ (free[s] <=> held[s] = 0 /\ s # c)
      BY <2>2, <2>4 DEF IInv, UpwardOK
    <3>2. CASE s = c
      <4>1. held'[s] = 1
        BY <2>6, <3>2
      <4>2. ~free'[s]
        BY <2>3, <2>5, <2>7, <3>2
      <4> QED BY <4>1, <4>2
    <3>3. CASE s = c + 1
      <4>1. held'[s] = 0
        BY <2>3, <2>4, <2>6, <3>3
      <4>2. free'[s]
        BY <2>7, <3>3
      <4> QED BY <4>1, <4>2
    <3>4. CASE s # c /\ s # c + 1
      <4>1. held'[s] = held[s]
        BY <2>6, <3>4
      <4>2. free'[s] <=> free[s]
        BY <2>7, <3>4
      <4> QED BY <3>1, <3>4, <4>1, <4>2
    <3> QED BY <3>2, <3>3, <3>4
  <2>9. \A u \in Thread : pc'[u] = "idle"
    BY <2>1 DEF Clear, Step, IInv, TypeOK
  <2> QED BY <2>2, <2>8, <2>9 DEF UpwardOK
<1> QED BY <1>1, <1>2, <1>3 DEF IInv

\* A store into a slot by its owner.
LEMMA UseInv == ASSUME IInv, NEW s \in Slot, Quiescent, Use(s) PROVE IInv'
<1>1. TypeOK'
  BY DEF Use, IInv, Content, TypeOK
<1>2. AllocOK'
  BY DEF Use, IInv, AllocOK
<1>3. UpwardOK'
  BY DEF Use, IInv, UpwardOK, Taken
<1> QED BY <1>1, <1>2, <1>3 DEF IInv

\* PageDealloc clears the slot and makes it FREE.
LEMMA PageDeallocInv == ASSUME IInv, NEW s \in Slot, Quiescent, PageDealloc(s) PROVE IInv'
<1>1. TypeOK'
  BY DEF PageDealloc, IInv, Content, TypeOK
<1>2. AllocOK'
  BY DEF PageDealloc, IInv, AllocOK
<1>3. UpwardOK'
  BY DEF PageDealloc, IInv, UpwardOK, Taken, Quiescent, TypeOK
<1> QED BY <1>1, <1>2, <1>3 DEF IInv

\* ProcessDealloc makes the slot FREE and clears no more than its header.
LEMMA ProcessDeallocInv == ASSUME IInv, NEW s \in Slot, Quiescent, ProcessDealloc(s) PROVE IInv'
<1>1. TypeOK'
  BY DEF ProcessDealloc, IInv, TypeOK
<1>2. AllocOK'
  BY DEF ProcessDealloc, IInv, AllocOK
<1>3. UpwardOK'
  BY DEF ProcessDealloc, IInv, UpwardOK, Taken, Quiescent, TypeOK
<1> QED BY <1>1, <1>2, <1>3 DEF IInv

\* Every step of serial callers, and every stutter, keeps the invariant.
LEMMA StepInv == IInv /\ [SerialNext]_vars => IInv'
<1> SUFFICES ASSUME IInv, [SerialNext]_vars PROVE IInv'
  OBVIOUS
<1>1. ASSUME NEW t \in Thread, Scan(t) PROVE IInv'
  BY <1>1, TestFreeInv, TestNextInv, NoneFreeInv, MarkInv, LogInv, ClearInv DEF Scan
<1>2. ASSUME Quiescent, NEW t \in Thread, PageAlloc(t) PROVE IInv'
  BY <1>2, PageAllocInv
<1>3. ASSUME Quiescent, NEW s \in Slot, Owner(s) PROVE IInv'
  BY <1>3, UseInv, PageDeallocInv, ProcessDeallocInv DEF Owner
<1>4. CASE UNCHANGED vars
  BY <1>4 DEF vars, IInv, TypeOK, AllocOK, UpwardOK, Taken
<1> QED BY <1>1, <1>2, <1>3, <1>4 DEF SerialNext

(* The allocator's invariant holds at every step of serial callers. *)
THEOREM Invariant == SerialSpec => []IInv
BY InitInv, StepInv, PTL DEF SerialSpec

(* Slots are exclusive, and FREE means free, until a slot just below one in *)
(* use is handed out (PageAlloc, PageDealloc, ProcessDealloc). *)
THEOREM ExclusiveUpwardAlways == SerialSpec => []ExclusiveUpward
<1>1. IInv => ExclusiveUpward
  BY DEF IInv, UpwardOK, ExclusiveUpward, Exclusive, Quiescent, Taken
<1> QED BY <1>1, Invariant, PTL

(* PageAlloc fails only when the pool is full. *)
THEOREM FailsOnlyWhenFullAlways == SerialSpec => FailsOnlyWhenFull
<1>1. ASSUME IInv, [SerialNext]_vars, NEW t \in Thread,
             ~gapFilled, pc[t] = "test", pc'[t] = "idle"
      PROVE  InUse = Slot
  <2>1. cursor[t] = NSlots
    BY <1>1 DEF SerialNext, Scan, Owner, Quiescent, vars, PageAlloc, TestFree, TestNext,
       NoneFree, Mark, Log, Clear, Use, PageDealloc, ProcessDealloc, Step, IInv, TypeOK
  <2>2. \A s \in Slot : ~free[s]
    BY <1>1, <2>1, PoolAssumption DEF IInv, UpwardOK, Slot
  <2>3. Taken = {}
    BY <1>1 DEF IInv, AllocOK, Taken
  <2> QED BY <1>1, <2>2, <2>3 DEF IInv, TypeOK, UpwardOK, InUse
<1>2. IInv /\ [SerialNext]_vars
        => [\A t \in Thread : ~gapFilled /\ pc[t] = "test" /\ pc'[t] = "idle" => InUse = Slot]_vars
  BY <1>1
<1> QED BY <1>2, Invariant, PTL DEF SerialSpec, FailsOnlyWhenFull

(* An owner's data survives every allocation that fills no gap. *)
THEOREM StoresKeptAlways == SerialSpec => StoresKept
<1>1. ASSUME IInv, [SerialNext]_vars, NEW s \in Slot,
             ~gapFilled', held[s] > 0, held'[s] > 0, content[s] = "data"
      PROVE  content'[s] = "data"
  <2>1. ASSUME NEW t \in Thread, Clear(t) PROVE content'[s] = "data"
    BY <1>1, <2>1 DEF Clear, InUse
  <2>2. ASSUME NEW r \in Slot, PageDealloc(r) PROVE content'[s] = "data"
    <3>1. ~gapFilled /\ held[s] = 1
      BY <1>1, <2>2 DEF PageDealloc, IInv, TypeOK, UpwardOK
    <3> QED BY <1>1, <2>2, <3>1 DEF PageDealloc, IInv, TypeOK
  <2> QED BY <1>1, <2>1, <2>2 DEF SerialNext, Scan, Owner, vars, PageAlloc, TestFree,
          TestNext, NoneFree, Mark, Log, Use, ProcessDealloc, IInv, TypeOK
<1>2. IInv /\ [SerialNext]_vars
        => [\A s \in Slot : ~gapFilled' /\ held[s] > 0 /\ held'[s] > 0 /\ content[s] = "data"
              => content'[s] = "data"]_vars
  BY <1>1
<1> QED BY <1>2, Invariant, PTL DEF SerialSpec, StoresKept
=============================================================================
