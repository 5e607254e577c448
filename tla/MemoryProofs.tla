---------------------------- MODULE MemoryProofs ----------------------------
(***************************************************************************)
(* Theorems about Memory: what is in use is accounted for, and a process   *)
(* reads what its family stored.                                           *)
(***************************************************************************)
EXTENDS Memory, FiniteSetTheorems, SequenceTheorems, WellFoundedInduction, TLAPS

(***************************************************************************)
(* The heap by itself.                                                     *)
(***************************************************************************)
\* P is the chain of the pool pages.
Chained(h, P) ==
  /\ P \in Seq(Slot) /\ Len(P) > 0 /\ P[1] = 0
  /\ \A i, j \in 1..Len(P) : P[i] = P[j] => i = j
  /\ \A i \in 1..(Len(P) - 1) : h.next[P[i]] = P[i + 1]
  /\ h.next[P[Len(P)]] = NULL
  /\ \A s \in Slot : (\A i \in 1..Len(P) : P[i] # s) => h.next[s] = NULL

Pool(h) == {Pools(h)[i] : i \in DOMAIN Pools(h)}

\* What is in use: slots that are no pool pages, and tables.
Data(h) == {s \in Slot : ~h.free[s]} \ Pool(h)
Used(h) == {e \in Entry : h.type[e] # "FREE"}

HeapOK(h) ==
  /\ h \in Heap /\ Chained(h, Pools(h))
  /\ \A s \in Pool(h) : ~h.free[s]
  /\ \A e \in Used(h) : e[1] \in Pool(h)
  /\ \A e \in Entry \ Used(h) : h.ptr[e] = NoPointers
  /\ \A s \in Slot : h.free[s] => h.cell[s] \in {0, JUNK}

(***************************************************************************)
(* The heap h with the records pr, what the families stored, st, and the   *)
(* slots and tables lo that nothing refers to; the others are kept.        *)
(***************************************************************************)
Recs(pr)        == {s \in Slot : pr[s] # Nobody}
Low(h, s)       == h.ptr[h.tables[s]][0]
PageAt(h, s, n) == IF Low(h, s) = NULL THEN NULL ELSE h.ptr[Low(h, s)][n]

KeptSlots(h, lo)  == {x \in Data(h) : <<x>> \notin lo}
KeptTables(h, lo) == {e \in Used(h) : e \notin lo}

TypesOK(pr, st) == /\ pr \in [Slot -> [family : {0} \cup Family, child : BOOLEAN]]
                   /\ st \in [Family -> SUBSET PageNo]

LostOK(h, lo) == /\ lo \subseteq {<<s>> : s \in Slot} \cup Entry
                 /\ \A x \in Slot : <<x>> \in lo => x \in Data(h)
                 /\ \A e \in Entry : e \in lo => e \in Used(h)

\* A record has a high table, the one of its family.
RecordsOK(h, pr, lo) ==
  /\ \A s \in Recs(pr) : /\ s \in KeptSlots(h, lo) \ {1} /\ pr[s].family \in Family
                         /\ h.tables[s] \in KeptTables(h, lo) /\ h.type[h.tables[s]] = "HIGH_PAGE_TABLE"
  /\ \A s, r \in Recs(pr) : pr[s].family = pr[r].family <=> h.tables[s] = h.tables[r]

\* Which refers to a page table of its own, or none.
LowsOK(h, pr, lo) ==
  /\ \A s \in Recs(pr) : Low(h, s) # NULL => Low(h, s) \in KeptTables(h, lo) /\ h.type[Low(h, s)] = "PAGE_TABLE"
  /\ \A s, r \in Recs(pr) : Low(h, s) # NULL /\ Low(h, s) = Low(h, r) => h.tables[s] = h.tables[r]

\* Which refers to pages of its own.
PagesOK(h, pr, lo) ==
  /\ \A s \in Recs(pr), n \in PageNo : PageAt(h, s, n) # NULL =>
       \E x \in KeptSlots(h, lo) \ (Recs(pr) \cup {1}) : PageAt(h, s, n) = <<x>>
  /\ \A s, r \in Recs(pr), n, m \in PageNo :
       PageAt(h, s, n) # NULL /\ PageAt(h, s, n) = PageAt(h, r, m) => h.tables[s] = h.tables[r] /\ n = m

\* Nothing else is kept, but Processes.
AllOK(h, pr, lo) ==
  /\ 1 \in KeptSlots(h, lo)
  /\ \A x \in KeptSlots(h, lo) \ {1} : x \in Recs(pr) \/ \E s \in Recs(pr), n \in PageNo : PageAt(h, s, n) = <<x>>
  /\ \A e \in KeptTables(h, lo) : \E s \in Recs(pr) : e = h.tables[s] \/ e = Low(h, s)

\* The bytes in the pages.
CellsOK(h, pr, st) ==
  \A s \in Recs(pr), n \in PageNo :
    /\ n \in st[pr[s].family] => PageAt(h, s, n) # NULL
    /\ \A x \in Slot : PageAt(h, s, n) = <<x>> =>
         IF n \in st[pr[s].family] THEN h.cell[x] = pr[s].family ELSE h.cell[x] \in {0, JUNK}

MemOK(h, pr, st, lo) ==
  /\ HeapOK(h) /\ TypesOK(pr, st) /\ LostOK(h, lo)
  /\ RecordsOK(h, pr, lo) /\ LowsOK(h, pr, lo) /\ PagesOK(h, pr, lo) /\ AllOK(h, pr, lo)
  /\ CellsOK(h, pr, st)

\* Families are numbered as they are created.
FamiliesOK == /\ created \in 0..MaxFamily /\ forks \in 0..MaxForks /\ orphaned \subseteq Family
              /\ \A s \in Slot : proc[s].family <= created
              /\ \A f \in Family : f > created => stored[f] = {}

IInv == Sound => MemOK(heap, proc, stored, lost) /\ FamiliesOK
-----------------------------------------------------------------------------
(***************************************************************************)
(* Numbers.                                                                *)
(***************************************************************************)
LEMMA Least == \A T \in SUBSET Nat : T # {} => \E m \in T : \A k \in T : m <= k
<1> DEFINE R == OpToRel(<, Nat)
<1>1. IsWellFoundedOn(R, Nat)
  BY NatLessThanWellFounded
<1>2. \A k, l \in Nat : k < l => <<k, l>> \in R
  BY DEF OpToRel
<1> HIDE DEF R
<1>3. SUFFICES ASSUME NEW T, T \subseteq Nat, T # {} PROVE \E m \in T : \A k \in T : m <= k
  OBVIOUS
<1>4. \E m \in T : \A k \in T : ~(<<k, m>> \in R)
  BY <1>1, <1>3, WFMin
<1>5. \E m \in T : \A k \in T : ~(k < m)
  BY <1>2, <1>3, <1>4
<1> QED BY <1>3, <1>5

LEMMA MinIn == ASSUME NEW S, S \subseteq Nat, S # {} PROVE Min(S) \in S
  BY Least DEF Min

\* Induction, over the set of the numbers that have the property.
LEMMA Induct == \A T \in SUBSET Nat : 0 \in T /\ (\A n \in T : n + 1 \in T) => T = Nat
<1>1. SUFFICES ASSUME NEW T \in SUBSET Nat, 0 \in T, \A n \in T : n + 1 \in T, T # Nat PROVE FALSE
  OBVIOUS
<1>2. Nat \ T # {} /\ Nat \ T \in SUBSET Nat
  BY <1>1
<1>3. PICK m \in Nat \ T : \A k \in Nat \ T : m <= k
  BY <1>2, Least
<1>4. m # 0 /\ m \in Nat
  BY <1>1, <1>3
<1>5. m - 1 \in T
  BY <1>3, <1>4
<1> QED BY <1>1, <1>3, <1>4, <1>5

\* A pair found by the number it stands for.
LEMMA Decode ==
  ASSUME NEW p \in Nat \ {0}, NEW a \in Nat, NEW b \in 0..(p - 1)
  PROVE  (p * a + b) \div p = a /\ (p * a + b) % p = b
<1> DEFINE x == p * a + b
           q == x \div p
           r == x % p
<1>1. x \in Nat /\ q \in Int /\ r \in 0..(p - 1) /\ x = p * q + r
  OBVIOUS
<1> HIDE DEF x, q, r
<1>2. p * a + b = p * q + r
  BY <1>1 DEF x
<1>3. ~(a < q)
  <2> SUFFICES ASSUME a < q PROVE FALSE
    OBVIOUS
  <2>1. q - a >= 1 /\ q - a \in Int
    BY <1>1
  <2>2. p * (q - a) >= p
    BY <1>1, <2>1
  <2>3. p * (q - a) = b - r
    BY <1>1, <1>2
  <2> QED BY <1>1, <2>2, <2>3
<1>4. ~(q < a)
  <2> SUFFICES ASSUME q < a PROVE FALSE
    OBVIOUS
  <2>1. a - q >= 1 /\ a - q \in Int
    BY <1>1
  <2>2. p * (a - q) >= p
    BY <1>1, <2>1
  <2>3. p * (a - q) = r - b
    BY <1>1, <1>2
  <2> QED BY <1>1, <2>2, <2>3
<1>5. q = a
  BY <1>1, <1>3, <1>4
<1>6. r = b
  BY <1>1, <1>2, <1>5
<1> QED BY <1>5, <1>6 DEF x, q, r
-----------------------------------------------------------------------------
(***************************************************************************)
(* The pool pages.                                                         *)
(***************************************************************************)
\* The function that Pools is defined by.
IsFrom(h, f) == f = [s \in Slot |-> IF h.next[s] = NULL THEN <<s>> ELSE <<s>> \o f[h.next[s]]]

LEMMA Rests ==
  ASSUME NEW P \in Seq(Slot), NEW i \in 1..Len(P)
  PROVE  /\ i = Len(P) => SubSeq(P, i, Len(P)) = <<P[i]>>
         /\ i < Len(P) => SubSeq(P, i, Len(P)) = <<P[i]>> \o SubSeq(P, i + 1, Len(P))
<1>1. Len(P) \in Nat /\ P[i] \in Slot /\ i \in Nat
  OBVIOUS
<1>2. ASSUME i = Len(P) PROVE SubSeq(P, i, Len(P)) = <<P[i]>>
  <2> DEFINE A == SubSeq(P, i, Len(P))
             B == <<P[i]>>
  <2>1. A \in Seq(Slot) /\ Len(A) = 1 /\ A[1] = P[i]
    BY <1>1, <1>2
  <2>2. B \in Seq(Slot) /\ Len(B) = 1 /\ B[1] = P[i]
    BY <1>1
  <2> HIDE DEF A, B
  <2>3. \A j \in 1..Len(A) : A[j] = B[j]
    BY <2>1, <2>2
  <2>4. A = B
    BY <2>1, <2>2, <2>3, SeqEqual
  <2> QED BY <2>4 DEF A, B
<1>3. ASSUME i < Len(P) PROVE SubSeq(P, i, Len(P)) = <<P[i]>> \o SubSeq(P, i + 1, Len(P))
  BY <1>1, <1>3, SubSeqRecursiveFirst
<1> QED BY <1>2, <1>3

LEMMA FromExists ==
  ASSUME NEW h, h.next \in [Slot -> Slot \cup {NULL}], NEW P, Chained(h, P)
  PROVE  \E f : IsFrom(h, f)
<1>1. /\ P \in Seq(Slot) /\ NULL \notin Slot
      /\ \A i, j \in 1..Len(P) : P[i] = P[j] => i = j
      /\ \A i \in 1..(Len(P) - 1) : h.next[P[i]] = P[i + 1]
      /\ h.next[P[Len(P)]] = NULL
      /\ \A s \in Slot : (\A i \in 1..Len(P) : P[i] # s) => h.next[s] = NULL
  BY NullAssumption DEF Chained
<1> DEFINE At(s) == CHOOSE i \in 1..Len(P) : P[i] = s
           f == [s \in Slot |-> IF \E i \in 1..Len(P) : P[i] = s THEN SubSeq(P, At(s), Len(P)) ELSE <<s>>]
<1>2. ASSUME NEW i \in 1..Len(P) PROVE P[i] \in Slot /\ f[P[i]] = SubSeq(P, i, Len(P))
  <2>1. P[i] \in Slot
    BY <1>1
  <2>2. At(P[i]) \in 1..Len(P) /\ P[At(P[i])] = P[i]
    OBVIOUS
  <2>3. At(P[i]) = i
    BY <1>1, <2>2
  <2> HIDE DEF At
  <2> QED BY <2>1, <2>3
<1>3. ASSUME NEW s \in Slot, \A i \in 1..Len(P) : P[i] # s PROVE f[s] = <<s>>
  BY <1>3
<1> HIDE DEF f
<1>4. ASSUME NEW s \in Slot PROVE f[s] = IF h.next[s] = NULL THEN <<s>> ELSE <<s>> \o f[h.next[s]]
  <2>1. CASE \A i \in 1..Len(P) : P[i] # s
    BY <1>1, <1>3, <2>1
  <2>2. ASSUME NEW i \in 1..Len(P), P[i] = s PROVE f[s] = IF h.next[s] = NULL THEN <<s>> ELSE <<s>> \o f[h.next[s]]
    <3>1. CASE i = Len(P)
      BY <1>1, <1>2, <2>2, <3>1, Rests
    <3>2. CASE i < Len(P)
      <4>1. h.next[s] = P[i + 1] /\ P[i + 1] \in Slot /\ f[P[i + 1]] = SubSeq(P, i + 1, Len(P))
        BY <1>1, <1>2, <2>2, <3>2
      <4>2. f[s] = SubSeq(P, i, Len(P)) /\ SubSeq(P, i, Len(P)) = <<P[i]>> \o SubSeq(P, i + 1, Len(P))
        BY <1>1, <1>2, <2>2, <3>2, Rests
      <4>3. h.next[s] # NULL
        BY <1>1, <4>1
      <4> QED BY <2>2, <4>1, <4>2, <4>3
    <3>3. i = Len(P) \/ i < Len(P)
      BY <1>1
    <3> QED BY <3>1, <3>2, <3>3
  <2> QED BY <2>1, <2>2
<1>5. f = [s \in Slot |-> f[s]]
  BY DEF f
<1> QED BY <1>4, <1>5 DEF IsFrom

LEMMA FromChain ==
  ASSUME NEW h, NEW P, Chained(h, P), NEW f, IsFrom(h, f)
  PROVE  f[0] = P
<1>1. /\ P \in Seq(Slot) /\ Len(P) \in Nat \ {0} /\ P[1] = 0 /\ NULL \notin Slot
      /\ \A i \in 1..(Len(P) - 1) : h.next[P[i]] = P[i + 1]
      /\ h.next[P[Len(P)]] = NULL
  BY NullAssumption DEF Chained
<1>2. \A s \in Slot : f[s] = IF h.next[s] = NULL THEN <<s>> ELSE <<s>> \o f[h.next[s]]
  BY DEF IsFrom
<1> DEFINE T == {k \in Nat : k < Len(P) => f[P[Len(P) - k]] = SubSeq(P, Len(P) - k, Len(P))}
<1>3. 0 \in T
  <2>1. Len(P) \in 1..Len(P) /\ P[Len(P)] \in Slot
    BY <1>1
  <2>2. Len(P) - 0 = Len(P)
    BY <1>1
  <2>3. f[P[Len(P)]] = SubSeq(P, Len(P), Len(P))
    BY <1>1, <1>2, <2>1, Rests
  <2> QED BY <2>2, <2>3
<1>4. ASSUME NEW k \in T PROVE k + 1 \in T
  <2> SUFFICES ASSUME k + 1 < Len(P)
               PROVE  f[P[Len(P) - (k + 1)]] = SubSeq(P, Len(P) - (k + 1), Len(P))
    OBVIOUS
  <2> DEFINE i == Len(P) - (k + 1)
  <2>1. i \in 1..(Len(P) - 1) /\ i \in 1..Len(P) /\ i + 1 = Len(P) - k /\ P[i] \in Slot /\ P[i + 1] \in Slot
    BY <1>1
  <2>2. f[P[i + 1]] = SubSeq(P, i + 1, Len(P))
    BY <1>1, <2>1
  <2> HIDE DEF i
  <2>3. f[P[i]] = <<P[i]>> \o f[P[i + 1]]
    BY <1>1, <1>2, <2>1
  <2>4. f[P[i]] = SubSeq(P, i, Len(P))
    BY <1>1, <2>1, <2>2, <2>3, Rests
  <2> QED BY <2>4 DEF i
<1>5. T = Nat
  BY <1>3, <1>4, Induct
<1>6. f[P[1]] = SubSeq(P, 1, Len(P))
  <2>1. Len(P) - 1 \in Nat /\ Len(P) - 1 < Len(P) /\ Len(P) - (Len(P) - 1) = 1
    BY <1>1
  <2>2. Len(P) - 1 \in T
    BY <1>5, <2>1
  <2> QED BY <2>1, <2>2
<1>7. SubSeq(P, 1, Len(P)) = P
  BY <1>1
<1> QED BY <1>1, <1>6, <1>7

LEMMA PoolsIs ==
  ASSUME NEW h, h.next \in [Slot -> Slot \cup {NULL}], NEW P, Chained(h, P)
  PROVE  Pools(h) = P
<1> DEFINE f == CHOOSE g : IsFrom(h, g)
<1>1. IsFrom(h, f)
  <2>1. \E g : IsFrom(h, g)
    BY FromExists
  <2> QED BY <2>1, Zenon
<1>2. Pools(h) = f[0]
  BY DEF Pools, IsFrom
<1> HIDE DEF f
<1> QED BY <1>1, <1>2, FromChain

\* Another page behind the last.
LEMMA ChainGrows ==
  ASSUME NEW h, h.next \in [Slot -> Slot \cup {NULL}], NEW P, Chained(h, P),
         NEW s \in Slot, \A i \in 1..Len(P) : P[i] # s,
         NEW k, k.next = [h.next EXCEPT ![P[Len(P)]] = s]
  PROVE  Chained(k, Append(P, s))
<1>1. /\ P \in Seq(Slot) /\ Len(P) \in Nat \ {0} /\ P[1] = 0
      /\ \A i, j \in 1..Len(P) : P[i] = P[j] => i = j
      /\ \A i \in 1..(Len(P) - 1) : h.next[P[i]] = P[i + 1]
      /\ h.next[P[Len(P)]] = NULL
      /\ \A r \in Slot : (\A i \in 1..Len(P) : P[i] # r) => h.next[r] = NULL
  BY DEF Chained
<1> DEFINE Q == Append(P, s)
<1>2. /\ Q \in Seq(Slot) /\ Len(Q) = Len(P) + 1 /\ Q[Len(P) + 1] = s
      /\ \A i \in 1..Len(P) : Q[i] = P[i] /\ P[i] \in Slot
  BY <1>1
<1> HIDE DEF Q
<1>3. \A i, j \in 1..Len(Q) : Q[i] = Q[j] => i = j
  BY <1>1, <1>2
<1>4. k.next[P[Len(P)]] = s /\ \A r \in Slot : r # P[Len(P)] => k.next[r] = h.next[r]
  BY <1>1
<1>5. \A i \in 1..(Len(Q) - 1) : k.next[Q[i]] = Q[i + 1]
  <2> SUFFICES ASSUME NEW i \in 1..Len(P) PROVE k.next[Q[i]] = Q[i + 1]
    BY <1>1, <1>2
  <2>1. CASE i = Len(P)
    BY <1>2, <1>4, <2>1
  <2>2. CASE i < Len(P)
    BY <1>1, <1>2, <1>4, <2>2
  <2> QED BY <2>1, <2>2
<1>6. k.next[Q[Len(Q)]] = NULL
  BY <1>1, <1>2, <1>4
<1>7. \A r \in Slot : (\A i \in 1..Len(Q) : Q[i] # r) => k.next[r] = NULL
  BY <1>1, <1>2, <1>4
<1>8. Q[1] = 0 /\ Len(Q) > 0
  BY <1>1, <1>2
<1> QED BY <1>2, <1>3, <1>5, <1>6, <1>7, <1>8 DEF Chained, Q
-----------------------------------------------------------------------------
(***************************************************************************)
(* The allocators.                                                         *)
(***************************************************************************)
Pointer == {<<s>> : s \in Slot} \cup Entry \cup {NULL}
Kind    == {"PAGE_TABLE", "HIGH_PAGE_TABLE"}

LEMMA HeapTypes ==
  ASSUME NEW h \in Heap
  PROVE  /\ h.free \in [Slot -> BOOLEAN] /\ h.next \in [Slot -> Slot \cup {NULL}]
         /\ h.type \in [Entry -> {"FREE"} \cup Kind] /\ h.ptr \in [Entry -> [PageNo -> Pointer]]
         /\ h.tables \in [Slot -> Entry \cup {NULL}] /\ h.cell \in [Slot -> Family \cup {0, JUNK}]
         /\ h.ok \in BOOLEAN
         /\ h = [free |-> h.free, next |-> h.next, type |-> h.type, ptr |-> h.ptr,
                 tables |-> h.tables, cell |-> h.cell, ok |-> h.ok]
  BY DEF Heap, Kind, Pointer

LEMMA HeapIs ==
  ASSUME NEW f \in [Slot -> BOOLEAN], NEW x \in [Slot -> Slot \cup {NULL}],
         NEW y \in [Entry -> {"FREE"} \cup Kind], NEW p \in [Entry -> [PageNo -> Pointer]],
         NEW t \in [Slot -> Entry \cup {NULL}], NEW c \in [Slot -> Family \cup {0, JUNK}], NEW o \in BOOLEAN
  PROVE  [free |-> f, next |-> x, type |-> y, ptr |-> p, tables |-> t, cell |-> c, ok |-> o] \in Heap
  BY DEF Heap, Kind, Pointer

LEMMA SlotTypes == /\ Slot \subseteq Nat /\ 0 \in Slot /\ 1 \in Slot
                   /\ \A s \in Slot, i \in 0..(PerPage - 1) : <<s, i>> \in Entry
                   /\ \A e \in Entry : e = <<e[1], e[2]>> /\ e[1] \in Slot /\ e[2] \in 0..(PerPage - 1)
                   /\ 0 \in 0..(PerPage - 1) /\ PerPage \in Nat \ {0}
  BY MemoryAssumption DEF Slot, Entry

LEMMA Pointers == /\ \A s \in Slot : <<s>> \in Pointer /\ <<s>> \notin Entry /\ <<s>> # NULL /\ <<s>>[1] = s /\ Len(<<s>>) = 1
                  /\ \A e \in Entry : e \in Pointer /\ e # NULL /\ Len(e) = 2 /\ \A s \in Slot : e # <<s>>
                  /\ NULL \in Pointer
  BY NullAssumption DEF Pointer, Entry

LEMMA PoolsOf == ASSUME NEW h, HeapOK(h), NEW k, k.next = h.next PROVE Pools(k) = Pools(h) /\ Pool(k) = Pool(h)
  BY DEF Pools, Pool

\* What is in use survives, if the program does.
Kept(h, k) == h.ok /\ \A x \in Data(h) : k.cell[x] = h.cell[x]

\* From h to k slot s was handed out.
PageGiven(h, k, s) ==
  /\ HeapOK(k) /\ s \in Slot \ Data(h) /\ Data(k) = Data(h) \cup {s}
  /\ h.free[s] /\ k.free = [h.free EXCEPT ![s] = FALSE]
  /\ k.next = h.next /\ k.type = h.type /\ k.ptr = h.ptr /\ k.tables = h.tables
  /\ k.cell[s] \in {0, JUNK} /\ (k.ok => Kept(h, k))

\* From h to k table e was handed out.
TableGiven(h, k, e, type) ==
  /\ HeapOK(k) /\ e \in Entry \ Used(h) /\ Used(k) = Used(h) \cup {e} /\ Data(k) = Data(h)
  /\ k.type = [h.type EXCEPT ![e] = type] /\ k.ptr = h.ptr /\ k.tables = h.tables
  /\ (k.ok => Kept(h, k))

LEMMA PageAllocated ==
  ASSUME NEW h, HeapOK(h)
  PROVE  \/ PageAlloc(h) = Result(h, NULL)
         \/ \E s \in Slot, k \in Heap : PageAlloc(h) = Result(k, <<s>>) /\ PageGiven(h, k, s)
<1> DEFINE available == {s \in Slot : h.free[s]}
           s == Min(available)
           free == [h.free EXCEPT ![s] = FALSE]
           cell == [r \in Slot |-> IF r = s + 1 THEN 0 ELSE h.cell[r]]
           ok == h.ok /\ (s + 1 \in Slot => h.free[s + 1])
           k == [h EXCEPT !.free[s] = FALSE, !.cell = [r \in Slot |-> IF r = s + 1 THEN 0 ELSE @[r]],
                          !.ok = @ /\ (s + 1 \in Slot => h.free[s + 1])]
<1>1. CASE available = {}
  BY <1>1 DEF PageAlloc
<1>2. CASE available # {}
  <2>1. s \in Slot /\ h.free[s] /\ s \in Nat /\ s + 1 # s
    <3>1. available \subseteq Nat
      BY SlotTypes
    <3>2. s \in available
      BY <1>2, <3>1, MinIn
    <3> HIDE DEF s
    <3> QED BY <3>1, <3>2
  <2>2. h \in Heap
    BY DEF HeapOK
  <2>3. PageAlloc(h) = Result(k, <<s>>)
    BY <1>2 DEF PageAlloc
  <2> HIDE DEF s
  <2>4. k.free = free /\ k.next = h.next /\ k.type = h.type /\ k.ptr = h.ptr /\ k.tables = h.tables
    BY <2>2 DEF Heap
  <2>5. k.cell = cell /\ k.ok = ok
    BY <2>2 DEF Heap
  <2>6. k \in Heap
    BY <2>1, <2>2 DEF Heap
  <2> HIDE DEF k
  <2>7. Pool(k) = Pool(h) /\ Pools(k) = Pools(h) /\ Used(k) = Used(h) /\ s \notin Pool(h)
    BY <2>1, <2>4, <2>5, PoolsOf DEF Used, HeapOK
  <2>8. \A r \in Slot : k.free[r] <=> (h.free[r] /\ r # s)
    BY <2>1, <2>2, <2>4, <2>5, HeapTypes
  <2>9. Data(k) = Data(h) \cup {s} /\ s \notin Data(h)
    BY <2>1, <2>7, <2>8 DEF Data
  <2>10. HeapOK(k)
    <3>1. Chained(k, Pools(k))
      BY <2>4, <2>7 DEF Chained, HeapOK
    <3>2. \A r \in Pool(k) : ~k.free[r]
      <4>1. Pool(h) \subseteq Slot
        BY DEF HeapOK, Chained, Pool
      <4> QED BY <2>7, <2>8, <4>1 DEF HeapOK
    <3>3. \A r \in Slot : k.free[r] => k.cell[r] \in {0, JUNK}
      BY <2>4, <2>5, <2>8 DEF HeapOK
    <3> QED BY <2>4, <2>6, <2>7, <3>1, <3>2, <3>3 DEF HeapOK
  <2>11. k.cell[s] \in {0, JUNK} /\ (k.ok => Kept(h, k))
    <3>1. k.cell[s] = h.cell[s]
      BY <2>1, <2>4, <2>5
    <3>2. ASSUME k.ok, NEW x \in Data(h) PROVE k.cell[x] = h.cell[x]
      BY ZenonT(60), <2>4, <2>5, <3>2 DEF Data
    <3> QED BY <2>1, <2>4, <2>5, <3>1, <3>2 DEF HeapOK, Kept
  <2>12. PageGiven(h, k, s)
    BY <2>1, <2>4, <2>5, <2>9, <2>10, <2>11 DEF PageGiven
  <2> QED BY <2>1, <2>3, <2>6, <2>12
<1> QED BY <1>1, <1>2

LEMMA Claimed ==
  ASSUME NEW h, HeapOK(h), NEW e \in Entry \ Used(h), e[1] \in Pool(h), NEW type \in Kind
  PROVE  \E k \in Heap : Claim(h, e, type) = Result(k, e) /\ TableGiven(h, k, e, type)
<1> DEFINE k == [h EXCEPT !.type[e] = type]
<1>1. h \in Heap
  BY DEF HeapOK
<1>2. /\ k \in Heap /\ k.free = h.free /\ k.next = h.next /\ k.ptr = h.ptr /\ k.tables = h.tables
      /\ k.cell = h.cell /\ k.ok = h.ok /\ k.type = [h.type EXCEPT ![e] = type]
  BY <1>1 DEF Heap, Kind
<1>3. Claim(h, e, type) = Result(k, e)
  BY DEF Claim
<1> HIDE DEF k
<1>4. Pool(k) = Pool(h) /\ Pools(k) = Pools(h) /\ Data(k) = Data(h)
  BY <1>2, PoolsOf DEF Data
<1>5. Used(k) = Used(h) \cup {e}
  BY <1>1, <1>2, HeapTypes DEF Used, Kind
<1>6. HeapOK(k)
  BY <1>2, <1>4, <1>5 DEF HeapOK, Chained
<1>7. TableGiven(h, k, e, type)
  BY <1>2, <1>4, <1>5, <1>6 DEF TableGiven, Kept
<1> QED BY <1>2, <1>3, <1>7

LEMMA TableAllocated ==
  ASSUME NEW h, HeapOK(h), NEW type \in Kind
  PROVE  \/ TableAlloc(h, type) = Result(h, NULL)
         \/ \E e \in Entry, k \in Heap : TableAlloc(h, type) = Result(k, e) /\ TableGiven(h, k, e, type)
<1> DEFINE pools == Pools(h)
           frees == {k \in (1..Len(pools)) \X (0..(PerPage - 1)) : h.type[<<pools[k[1]], k[2]>>] = "FREE"}
           numbers == {PerPage * k[1] + k[2] : k \in frees}
           first == Min(numbers)
           last == pools[Len(pools)]
<1>1. /\ pools \in Seq(Slot) /\ Len(pools) \in Nat \ {0} /\ h \in Heap /\ PerPage \in Nat \ {0}
      /\ \A i \in 1..Len(pools) : pools[i] \in Slot /\ pools[i] \in Pool(h)
      /\ Pool(h) = {pools[i] : i \in 1..Len(pools)} /\ Chained(h, pools)
  <2>1. pools \in Seq(Slot) /\ Len(pools) \in Nat \ {0} /\ h \in Heap /\ Chained(h, pools)
    BY DEF HeapOK, Chained
  <2>2. Pool(h) = {pools[i] : i \in DOMAIN pools}
    BY DEF Pool
  <2> HIDE DEF pools
  <2>3. DOMAIN pools = 1..Len(pools) /\ \A i \in 1..Len(pools) : pools[i] \in Slot
    BY <2>1
  <2> QED BY <2>1, <2>2, <2>3, SlotTypes
<1>2. TableAlloc(h, type) = IF frees # {} THEN Claim(h, <<pools[first \div PerPage], first % PerPage>>, type)
                            ELSE ClaimBehind(last, PageAlloc(h), type)
  BY DEF TableAlloc
<1> HIDE DEF pools
<1>3. CASE frees # {}
  <2>1. numbers \subseteq Nat /\ numbers # {}
    <3>1. ASSUME NEW k \in frees PROVE PerPage * k[1] + k[2] \in Nat
      <4>1. k[1] \in Nat /\ k[2] \in Nat
        BY <1>1
      <4> QED BY SMTT(30), <1>1, <4>1
    <3> QED BY <1>3, <3>1
  <2>2. first \in numbers
    BY <2>1, MinIn
  <2> HIDE DEF first
  <2>3. PICK i \in 1..Len(pools), j \in 0..(PerPage - 1) :
          first = PerPage * i + j /\ h.type[<<pools[i], j>>] = "FREE"
    <3>1. PICK k \in frees : first = PerPage * k[1] + k[2]
      BY <2>2
    <3>2. k[1] \in 1..Len(pools) /\ k[2] \in 0..(PerPage - 1) /\ h.type[<<pools[k[1]], k[2]>>] = "FREE"
      OBVIOUS
    <3> QED BY <3>1, <3>2
  <2>4. first \div PerPage = i /\ first % PerPage = j
    <3>1. i \in Nat
      BY <1>1
    <3>2. (PerPage * i + j) \div PerPage = i /\ (PerPage * i + j) % PerPage = j
      BY ONLY <1>1, <3>1, j \in 0..(PerPage - 1), Decode
    <3> QED BY <2>3, <3>2
  <2> DEFINE e == <<pools[i], j>>
  <2>5. e \in Entry /\ e \notin Used(h) /\ e[1] \in Pool(h)
    BY <1>1, <2>3, SlotTypes DEF Used
  <2>6. TableAlloc(h, type) = Claim(h, e, type)
    BY <1>2, <1>3, <2>4
  <2> HIDE DEF e
  <2> QED BY <2>5, <2>6, Claimed
<1>4. CASE frees = {}
  <2>1. TableAlloc(h, type) = ClaimBehind(last, PageAlloc(h), type)
    BY <1>2, <1>4
  <2> HIDE DEF frees
  <2>2. CASE PageAlloc(h) = Result(h, NULL)
    BY <2>1, <2>2 DEF ClaimBehind, Result
  <2>3. ASSUME NEW s \in Slot, NEW k \in Heap, PageAlloc(h) = Result(k, <<s>>), PageGiven(h, k, s)
        PROVE  \E e \in Entry, m \in Heap : TableAlloc(h, type) = Result(m, e) /\ TableGiven(h, m, e, type)
    <3> DEFINE g == [k EXCEPT !.next[last] = s, !.ok = @ /\ k.cell[s] # JUNK]
               e == <<s, 0>>
               Q == Append(pools, s)
    <3>1. e \in Entry /\ e[1] = s
      BY SlotTypes
    <3>2. TableAlloc(h, type) = Claim(g, e, type)
      BY <2>1, <2>3, Pointers DEF ClaimBehind, Result
    <3>3. last \in Slot
      BY <1>1
    <3>4. /\ g \in Heap /\ g.free = k.free /\ g.type = h.type /\ g.ptr = h.ptr /\ g.tables = h.tables
          /\ g.cell = k.cell /\ g.next = [h.next EXCEPT ![last] = s] /\ (g.ok => k.ok)
      BY <2>3, <3>3 DEF PageGiven, Heap
    <3> HIDE DEF g
    <3>5. Chained(g, Q)
      <4>1. \A i \in 1..Len(pools) : pools[i] # s
        BY <1>1, <2>3 DEF HeapOK, PageGiven
      <4> QED BY <1>1, <3>4, <4>1, HeapTypes, ChainGrows
    <3>6. Pools(g) = Q
      BY <3>4, <3>5, HeapTypes, PoolsIs
    <3>7. Pool(g) = Pool(h) \cup {s}
      <4>1. DOMAIN Q = 1..(Len(pools) + 1) /\ Q[Len(pools) + 1] = s /\ \A i \in 1..Len(pools) : Q[i] = pools[i]
        BY <1>1
      <4>2. Pool(g) = {Q[i] : i \in DOMAIN Q}
        BY <3>6 DEF Pool
      <4> HIDE DEF Q
      <4>3. 1..(Len(pools) + 1) = 1..Len(pools) \cup {Len(pools) + 1}
        BY <1>1
      <4>4. {Q[i] : i \in 1..Len(pools)} = {pools[i] : i \in 1..Len(pools)}
        BY <4>1
      <4>5. {Q[i] : i \in 1..Len(pools) \cup {Len(pools) + 1}} = {Q[i] : i \in 1..Len(pools)} \cup {s}
        BY <4>1
      <4> QED BY <1>1, <4>1, <4>2, <4>3, <4>4, <4>5
    <3>8. Used(g) = Used(h) /\ e \notin Used(h)
      BY <2>3, <3>1, <3>4 DEF Used, HeapOK, PageGiven
    <3>9. Data(g) = Data(h)
      BY <2>3, <3>4, <3>7, HeapTypes DEF Data, PageGiven, HeapOK
    <3>10. HeapOK(g)
      <4>1. \A r \in Pool(g) : ~g.free[r]
        <5>1. \A r \in Slot : g.free[r] => h.free[r] /\ r # s
          BY <1>1, <2>3, <3>4, HeapTypes DEF PageGiven
        <5>2. Pool(g) \subseteq Slot
          BY <1>1, <2>3, <3>7
        <5> QED BY <3>7, <5>1, <5>2 DEF HeapOK
      <4>2. \A d \in Used(g) : d[1] \in Pool(g)
        BY <3>7, <3>8 DEF HeapOK
      <4>3. \A d \in Entry \ Used(g) : g.ptr[d] = NoPointers
        BY <3>4, <3>8 DEF HeapOK
      <4>4. \A r \in Slot : g.free[r] => g.cell[r] \in {0, JUNK}
        BY <2>3, <3>4 DEF PageGiven, HeapOK
      <4> QED BY <3>4, <3>5, <3>6, <4>1, <4>2, <4>3, <4>4 DEF HeapOK
    <3>11. PICK m \in Heap : Claim(g, e, type) = Result(m, e) /\ TableGiven(g, m, e, type)
      BY <3>1, <3>7, <3>8, <3>10, Claimed
    <3>12. TableGiven(h, m, e, type)
      BY <2>3, <3>4, <3>8, <3>9, <3>11 DEF TableGiven, PageGiven, Kept
    <3> QED BY <3>1, <3>2, <3>11, <3>12
  <2> QED BY <2>2, <2>3, PageAllocated
<1> QED BY <1>3, <1>4
-----------------------------------------------------------------------------
(***************************************************************************)
(* What single writes to the heap do.                                      *)
(***************************************************************************)
\* The slots S are freed.
LEMMA Freed ==
  ASSUME NEW h, HeapOK(h), NEW S \in SUBSET Data(h), NEW k \in Heap, k.next = h.next, k.type = h.type,
         \A e \in Entry \ Used(h) : k.ptr[e] = h.ptr[e],
         \A s \in Slot : k.free[s] <=> s \in S \/ h.free[s],
         \A s \in S : k.cell[s] \in {0, JUNK},
         \A s \in Slot \ S : h.free[s] => k.cell[s] = h.cell[s]
  PROVE  HeapOK(k) /\ Data(k) = Data(h) \ S /\ Used(k) = Used(h)
<1>1. Pool(k) = Pool(h) /\ Pools(k) = Pools(h) /\ Used(k) = Used(h)
  BY PoolsOf DEF Used
<1>2. S \subseteq Slot /\ S \cap Pool(h) = {}
  BY DEF Data
<1>3. Data(k) = Data(h) \ S
  BY <1>1 DEF Data
<1>4. \A s \in Pool(k) : ~k.free[s]
  <2>1. Pool(h) \subseteq Slot
    BY DEF HeapOK, Chained, Pool
  <2> QED BY <1>1, <1>2, <2>1 DEF HeapOK
<1>5. \A s \in Slot : k.free[s] => k.cell[s] \in {0, JUNK}
  BY DEF HeapOK
<1>6. Chained(k, Pools(k))
  <2>1. Chained(h, Pools(h))
    BY DEF HeapOK
  <2>2. Chained(k, Pools(h))
    <3> DEFINE P == Pools(h)
    <3>1. Chained(h, P)
      BY <2>1
    <3> HIDE DEF P
    <3>2. Chained(k, P)
      BY ONLY <3>1, k.next = h.next DEF Chained
    <3> QED BY <3>2 DEF P
  <2> QED BY <1>1, <2>2
<1>7. HeapOK(k)
  BY <1>1, <1>4, <1>5, <1>6 DEF HeapOK
<1> QED BY <1>1, <1>3, <1>7

LEMMA NoneFreed ==
  ASSUME NEW h, HeapOK(h), NEW k \in Heap, k.next = h.next, k.type = h.type, k.free = h.free,
         \A e \in Entry \ Used(h) : k.ptr[e] = h.ptr[e],
         \A s \in Slot : h.free[s] => k.cell[s] = h.cell[s]
  PROVE  HeapOK(k) /\ Data(k) = Data(h) /\ Used(k) = Used(h)
<1> DEFINE S == {}
<1>1. /\ S \in SUBSET Data(h) /\ \A s \in Slot : k.free[s] <=> s \in S \/ h.free[s]
      /\ \A s \in S : k.cell[s] \in {0, JUNK}
      /\ \A s \in Slot \ S : h.free[s] => k.cell[s] = h.cell[s]
  OBVIOUS
<1>2. Data(h) \ S = Data(h)
  OBVIOUS
<1> HIDE DEF S
<1>3. HeapOK(k) /\ Data(k) = Data(h) \ S /\ Used(k) = Used(h)
  BY <1>1, Freed
<1> QED BY <1>2, <1>3

SetPtr(h, e, n, v)   == [h EXCEPT !.ptr[e][n] = v]
SetTables(h, s, e)   == [h EXCEPT !.tables[s] = e]
SetCell(h, x, v)     == [h EXCEPT !.cell[x] = v]

LEMMA Pointed ==
  ASSUME NEW h, HeapOK(h), NEW e \in Used(h), NEW n \in PageNo, NEW v \in Pointer,
         NEW k, k = SetPtr(h, e, n, v)
  PROVE  /\ HeapOK(k) /\ Data(k) = Data(h) /\ Used(k) = Used(h)
         /\ k.tables = h.tables /\ k.type = h.type /\ k.cell = h.cell /\ k.ok = h.ok /\ k.free = h.free
         /\ k.ptr = [h.ptr EXCEPT ![e][n] = v]
<1>1. h \in Heap /\ e \in Entry
  BY DEF HeapOK, Used
<1>2. /\ k.tables = h.tables /\ k.type = h.type /\ k.cell = h.cell /\ k.ok = h.ok /\ k.free = h.free
      /\ k.next = h.next /\ k.ptr = [h.ptr EXCEPT ![e][n] = v]
  BY <1>1 DEF Heap, SetPtr
<1>3. k \in Heap
  BY <1>1 DEF Heap, Pointer, SetPtr
<1>4. \A d \in Entry \ Used(h) : k.ptr[d] = h.ptr[d]
  BY <1>1, <1>2, HeapTypes
<1>5. HeapOK(k) /\ Data(k) = Data(h) /\ Used(k) = Used(h)
  BY <1>2, <1>3, <1>4, NoneFreed
<1> QED BY <1>2, <1>5

LEMMA Tabled ==
  ASSUME NEW h, HeapOK(h), NEW s \in Slot, NEW e \in Entry, NEW k, k = SetTables(h, s, e)
  PROVE  /\ HeapOK(k) /\ Data(k) = Data(h) /\ Used(k) = Used(h)
         /\ k.ptr = h.ptr /\ k.type = h.type /\ k.cell = h.cell /\ k.ok = h.ok /\ k.free = h.free
         /\ k.tables = [h.tables EXCEPT ![s] = e]
<1>1. h \in Heap
  BY DEF HeapOK
<1>2. /\ k.ptr = h.ptr /\ k.type = h.type /\ k.cell = h.cell /\ k.ok = h.ok /\ k.free = h.free
      /\ k.next = h.next /\ k.tables = [h.tables EXCEPT ![s] = e]
  BY <1>1 DEF Heap, SetTables
<1>3. k \in Heap
  BY <1>1 DEF Heap, SetTables
<1>4. HeapOK(k) /\ Data(k) = Data(h) /\ Used(k) = Used(h)
  BY <1>2, <1>3, NoneFreed
<1> QED BY <1>2, <1>4

LEMMA Written ==
  ASSUME NEW h, HeapOK(h), NEW x \in Data(h), NEW f \in Family, NEW k, k = SetCell(h, x, f)
  PROVE  /\ HeapOK(k) /\ Data(k) = Data(h) /\ Used(k) = Used(h)
         /\ k.ptr = h.ptr /\ k.type = h.type /\ k.tables = h.tables /\ k.ok = h.ok
         /\ k.cell = [h.cell EXCEPT ![x] = f]
<1>1. h \in Heap /\ x \in Slot /\ ~h.free[x]
  BY DEF HeapOK, Data
<1>2. /\ k.ptr = h.ptr /\ k.type = h.type /\ k.tables = h.tables /\ k.ok = h.ok /\ k.free = h.free
      /\ k.next = h.next /\ k.cell = [h.cell EXCEPT ![x] = f]
  BY <1>1 DEF Heap, SetCell
<1>3. k \in Heap
  BY <1>1 DEF Heap, SetCell
<1>4. \A r \in Slot : h.free[r] => k.cell[r] = h.cell[r]
  BY <1>1, <1>2, HeapTypes
<1>5. HeapOK(k) /\ Data(k) = Data(h) /\ Used(k) = Used(h)
  BY <1>2, <1>3, <1>4, NoneFreed
<1> QED BY <1>2, <1>5

LEMMA Blanked ==
  ASSUME NEW h, HeapOK(h), NEW e \in Entry
  PROVE  /\ HeapOK(Blank(h, e)) /\ Data(Blank(h, e)) = Data(h) /\ Used(Blank(h, e)) = Used(h) \ {e}
         /\ Blank(h, e).tables = h.tables /\ Blank(h, e).cell = h.cell /\ Blank(h, e).ok = h.ok
         /\ Blank(h, e).free = h.free
         /\ \A d \in Entry \ {e} : Blank(h, e).ptr[d] = h.ptr[d] /\ Blank(h, e).type[d] = h.type[d]
<1> DEFINE k == Blank(h, e)
<1>1. h \in Heap
  BY DEF HeapOK
<1>2. /\ k.tables = h.tables /\ k.cell = h.cell /\ k.ok = h.ok /\ k.free = h.free /\ k.next = h.next
      /\ k.type = [h.type EXCEPT ![e] = "FREE"] /\ k.ptr = [h.ptr EXCEPT ![e] = NoPointers]
  BY <1>1 DEF Heap, Blank
<1>3. k \in Heap
  <2>1. NoPointers \in [PageNo -> Pointer]
    BY DEF NoPointers, Pointer
  <2> QED BY <1>1, <2>1 DEF Heap, Blank, Pointer
<1> HIDE DEF k
<1>4. Pool(k) = Pool(h) /\ Pools(k) = Pools(h) /\ Data(k) = Data(h)
  BY <1>2, PoolsOf DEF Data
<1>5. \A d \in Entry \ {e} : k.ptr[d] = h.ptr[d] /\ k.type[d] = h.type[d]
  BY <1>2
<1>6. k.ptr[e] = NoPointers /\ k.type[e] = "FREE"
  BY <1>1, <1>2, HeapTypes
<1>7. Used(k) = Used(h) \ {e}
  BY <1>5, <1>6 DEF Used
<1>8. \A d \in Entry \ Used(k) : k.ptr[d] = NoPointers
  BY <1>5, <1>6, <1>7 DEF HeapOK
<1>9. HeapOK(k)
  BY <1>2, <1>3, <1>4, <1>7, <1>8 DEF HeapOK, Chained
<1> QED BY <1>2, <1>4, <1>5, <1>7, <1>9 DEF k

-----------------------------------------------------------------------------
(***************************************************************************)
(* The invariant, from heap to heap.                                       *)
(***************************************************************************)
\* What is kept decides, so that what is lost may change.
LEMMA Framed ==
  ASSUME NEW h, NEW pr, NEW st, NEW lo, MemOK(h, pr, st, lo),
         NEW k, HeapOK(k), NEW l, LostOK(k, l),
         KeptSlots(k, l) = KeptSlots(h, lo), KeptTables(k, l) = KeptTables(h, lo),
         \A x \in KeptSlots(h, lo) : k.cell[x] = h.cell[x],
         \A s \in Recs(pr) : k.tables[s] = h.tables[s],
         \A e \in KeptTables(h, lo) : k.ptr[e] = h.ptr[e] /\ k.type[e] = h.type[e]
  PROVE  MemOK(k, pr, st, l)
<1>1. \A s \in Recs(pr) : h.tables[s] \in KeptTables(h, lo)
  BY DEF MemOK, RecordsOK
<1>2. \A s \in Recs(pr) : Low(k, s) = Low(h, s)
  BY <1>1 DEF Low
<1>3. \A s \in Recs(pr), n \in PageNo : PageAt(k, s, n) = PageAt(h, s, n)
  BY <1>2 DEF MemOK, LowsOK, PageAt
<1>4. RecordsOK(k, pr, l)
  BY <1>1 DEF MemOK, RecordsOK
<1>5. LowsOK(k, pr, l)
  BY <1>2 DEF MemOK, LowsOK
<1>6. PagesOK(k, pr, l)
  BY <1>3 DEF MemOK, PagesOK
<1>7. AllOK(k, pr, l)
  BY <1>2, <1>3 DEF MemOK, AllOK
<1>8. CellsOK(k, pr, st)
  <2>1. SUFFICES ASSUME NEW s \in Recs(pr), NEW n \in PageNo, NEW x \in Slot, PageAt(h, s, n) = <<x>>
                 PROVE  k.cell[x] = h.cell[x]
    BY <1>3 DEF MemOK, CellsOK
  <2>2. x \in KeptSlots(h, lo)
    BY <2>1, Pointers DEF MemOK, PagesOK
  <2> QED BY <2>2
<1> QED BY <1>4, <1>5, <1>6, <1>7, <1>8 DEF MemOK

LEMMA SlotLost ==
  ASSUME NEW h, NEW pr, NEW st, NEW lo, MemOK(h, pr, st, lo),
         NEW s \in Slot, NEW k, PageGiven(h, k, s), k.ok
  PROVE  MemOK(k, pr, st, lo \cup {<<s>>})
<1> DEFINE l == lo \cup {<<s>>}
<1>1. LostOK(k, l)
  BY Pointers DEF MemOK, LostOK, PageGiven, Used
<1>2. KeptSlots(k, l) = KeptSlots(h, lo) /\ KeptTables(k, l) = KeptTables(h, lo)
  BY Pointers DEF KeptSlots, KeptTables, PageGiven, Used, MemOK, LostOK
<1>3. \A x \in KeptSlots(h, lo) : k.cell[x] = h.cell[x]
  BY DEF KeptSlots, PageGiven, Kept
<1> QED BY <1>1, <1>2, <1>3, Framed DEF PageGiven

LEMMA TableLost ==
  ASSUME NEW h, NEW pr, NEW st, NEW lo, MemOK(h, pr, st, lo),
         NEW e \in Entry, NEW type \in Kind, NEW k, TableGiven(h, k, e, type), k.ok
  PROVE  MemOK(k, pr, st, lo \cup {e}) /\ k.ptr[e] = NoPointers /\ k.type[e] = type
<1> DEFINE l == lo \cup {e}
<1>1. LostOK(k, l)
  BY Pointers DEF MemOK, LostOK, TableGiven
<1>2. KeptSlots(k, l) = KeptSlots(h, lo) /\ KeptTables(k, l) = KeptTables(h, lo)
  BY Pointers DEF KeptSlots, KeptTables, TableGiven, Used, MemOK, LostOK
<1>3. \A x \in KeptSlots(h, lo) : k.cell[x] = h.cell[x]
  BY DEF KeptSlots, TableGiven, Kept
<1>4. h.type \in [Entry -> {"FREE"} \cup Kind]
  BY HeapTypes DEF MemOK, HeapOK
<1>5. \A d \in KeptTables(h, lo) : k.ptr[d] = h.ptr[d] /\ k.type[d] = h.type[d]
  BY <1>4 DEF TableGiven, KeptTables, Used
<1>6. k.ptr[e] = NoPointers /\ k.type[e] = type
  BY <1>4 DEF TableGiven, MemOK, HeapOK
<1> QED BY ZenonT(60), <1>1, <1>2, <1>3, <1>5, <1>6, Framed DEF TableGiven

LEMMA LostPointed ==
  ASSUME NEW h, NEW pr, NEW st, NEW lo, MemOK(h, pr, st, lo),
         NEW e \in Entry, e \in lo, NEW n \in PageNo, NEW v \in Pointer, NEW k, k = SetPtr(h, e, n, v)
  PROVE  /\ MemOK(k, pr, st, lo)
         /\ k.tables = h.tables /\ k.type = h.type /\ k.cell = h.cell /\ k.ok = h.ok /\ k.free = h.free
         /\ k.ptr = [h.ptr EXCEPT ![e][n] = v]
<1>1. HeapOK(h) /\ LostOK(h, lo) /\ e \in Used(h)
  BY DEF MemOK, LostOK
<1>2. /\ HeapOK(k) /\ Data(k) = Data(h) /\ Used(k) = Used(h)
      /\ k.tables = h.tables /\ k.type = h.type /\ k.cell = h.cell /\ k.ok = h.ok /\ k.free = h.free
      /\ k.ptr = [h.ptr EXCEPT ![e][n] = v]
  BY <1>1, Pointed
<1>3. LostOK(k, lo)
  BY <1>1, <1>2 DEF LostOK
<1>4. KeptSlots(k, lo) = KeptSlots(h, lo) /\ KeptTables(k, lo) = KeptTables(h, lo)
  BY <1>2 DEF KeptSlots, KeptTables
<1>5. \A d \in KeptTables(h, lo) : k.ptr[d] = h.ptr[d]
  BY <1>1, <1>2, HeapTypes DEF KeptTables, HeapOK, Used
<1>6. /\ \A x \in KeptSlots(h, lo) : k.cell[x] = h.cell[x]
      /\ \A r \in Recs(pr) : k.tables[r] = h.tables[r]
      /\ \A d \in KeptTables(h, lo) : k.ptr[d] = h.ptr[d] /\ k.type[d] = h.type[d]
  BY <1>2, <1>5
<1>7. HeapOK(k)
  BY <1>2
<1>8. MemOK(k, pr, st, lo)
  BY ONLY MemOK(h, pr, st, lo), <1>3, <1>4, <1>6, <1>7, Framed
<1> QED BY <1>2, <1>5, <1>8

LEMMA LostTabled ==
  ASSUME NEW h, NEW pr, NEW st, NEW lo, MemOK(h, pr, st, lo),
         NEW s \in Slot \ Recs(pr), NEW e \in Entry, NEW k, k = SetTables(h, s, e)
  PROVE  /\ MemOK(k, pr, st, lo)
         /\ k.ptr = h.ptr /\ k.type = h.type /\ k.cell = h.cell /\ k.ok = h.ok /\ k.free = h.free
         /\ k.tables = [h.tables EXCEPT ![s] = e] /\ k.tables[s] = e
<1>1. HeapOK(h) /\ LostOK(h, lo)
  BY DEF MemOK
<1>2. /\ HeapOK(k) /\ Data(k) = Data(h) /\ Used(k) = Used(h)
      /\ k.ptr = h.ptr /\ k.type = h.type /\ k.cell = h.cell /\ k.ok = h.ok /\ k.free = h.free
      /\ k.tables = [h.tables EXCEPT ![s] = e]
  BY <1>1, Tabled
<1>3. LostOK(k, lo)
  BY <1>1, <1>2 DEF LostOK
<1>4. KeptSlots(k, lo) = KeptSlots(h, lo) /\ KeptTables(k, lo) = KeptTables(h, lo)
  BY <1>2 DEF KeptSlots, KeptTables
<1>5. k.tables[s] = e /\ \A r \in Recs(pr) : k.tables[r] = h.tables[r]
  BY <1>1, <1>2, HeapTypes DEF HeapOK, Recs
<1>6. /\ \A x \in KeptSlots(h, lo) : k.cell[x] = h.cell[x]
      /\ \A r \in Recs(pr) : k.tables[r] = h.tables[r]
      /\ \A d \in KeptTables(h, lo) : k.ptr[d] = h.ptr[d] /\ k.type[d] = h.type[d]
  BY <1>2, <1>5
<1>7. HeapOK(k)
  BY <1>2
<1>8. MemOK(k, pr, st, lo)
  BY ONLY MemOK(h, pr, st, lo), <1>3, <1>4, <1>6, <1>7, Framed
<1> QED BY <1>2, <1>5, <1>8

LEMMA LostBlanked ==
  ASSUME NEW h, NEW pr, NEW st, NEW lo, MemOK(h, pr, st, lo), NEW e \in Entry, e \in lo
  PROVE  /\ MemOK(Blank(h, e), pr, st, lo \ {e})
         /\ Blank(h, e).ok = h.ok /\ Blank(h, e).free = h.free /\ Blank(h, e).tables = h.tables
<1>1. HeapOK(h) /\ LostOK(h, lo)
  BY DEF MemOK
<1> DEFINE k == Blank(h, e)
<1>2. /\ HeapOK(k) /\ Data(k) = Data(h) /\ Used(k) = Used(h) \ {e}
      /\ k.tables = h.tables /\ k.cell = h.cell /\ k.ok = h.ok /\ k.free = h.free
      /\ \A d \in Entry \ {e} : k.ptr[d] = h.ptr[d] /\ k.type[d] = h.type[d]
  BY <1>1, Blanked
<1> HIDE DEF k
<1>3. LostOK(k, lo \ {e})
  BY <1>1, <1>2 DEF LostOK
<1>4. KeptSlots(k, lo \ {e}) = KeptSlots(h, lo) /\ KeptTables(k, lo \ {e}) = KeptTables(h, lo)
  BY <1>2, Pointers DEF KeptSlots, KeptTables, Data
<1>5. \A d \in KeptTables(h, lo) : k.ptr[d] = h.ptr[d] /\ k.type[d] = h.type[d]
  BY <1>2 DEF KeptTables, Used
<1>6. MemOK(k, pr, st, lo \ {e})
  BY <1>2, <1>3, <1>4, <1>5, Framed
<1> QED BY <1>2, <1>6 DEF k

\* The lost slots S are freed.
LEMMA LostFreed ==
  ASSUME NEW h, NEW pr, NEW st, NEW lo, MemOK(h, pr, st, lo),
         NEW S \in SUBSET Slot, \A x \in S : <<x>> \in lo,
         NEW k \in Heap, k.next = h.next, k.type = h.type, k.ptr = h.ptr, k.tables = h.tables,
         \A s \in Slot : k.free[s] <=> s \in S \/ h.free[s],
         \A s \in Slot : IF s \in S THEN k.cell[s] \in {0, JUNK} ELSE k.cell[s] = h.cell[s]
  PROVE  MemOK(k, pr, st, lo \ {<<x>> : x \in S})
<1> DEFINE l == lo \ {<<x>> : x \in S}
<1>1. HeapOK(h) /\ LostOK(h, lo) /\ S \in SUBSET Data(h)
  BY DEF MemOK, LostOK
<1>2. HeapOK(k) /\ Data(k) = Data(h) \ S /\ Used(k) = Used(h)
  BY <1>1, Freed
<1>3. /\ l \subseteq lo
      /\ \A x \in Slot : <<x>> \in l <=> <<x>> \in lo /\ x \notin S
      /\ \A e \in Entry : e \in l <=> e \in lo
  BY Pointers
<1> HIDE DEF l
<1>4. LostOK(k, l)
  BY <1>1, <1>2, <1>3 DEF LostOK
<1>5. KeptSlots(k, l) = KeptSlots(h, lo) /\ KeptTables(k, l) = KeptTables(h, lo)
  BY <1>2, <1>3 DEF KeptSlots, KeptTables, Data, Used
<1>6. \A x \in KeptSlots(h, lo) : k.cell[x] = h.cell[x]
  BY DEF KeptSlots, Data
<1>7. MemOK(k, pr, st, l)
  BY <1>2, <1>4, <1>5, <1>6, Framed
<1> QED BY <1>7 DEF l

LEMMA PagesFreed ==
  ASSUME NEW h, NEW pr, NEW st, NEW lo, MemOK(h, pr, st, lo), NEW S \in SUBSET Slot, \A x \in S : <<x>> \in lo
  PROVE  /\ MemOK(PageDealloc(h, S), pr, st, lo \ {<<x>> : x \in S})
         /\ PageDealloc(h, S).ok = h.ok /\ PageDealloc(h, S).tables = h.tables
         /\ PageDealloc(h, S).ptr = h.ptr
<1> DEFINE k == PageDealloc(h, S)
<1>1. h \in Heap
  BY DEF MemOK, HeapOK
<1>2. /\ k.next = h.next /\ k.type = h.type /\ k.ptr = h.ptr /\ k.tables = h.tables /\ k.ok = h.ok
      /\ k.free = [s \in Slot |-> s \in S \/ h.free[s]]
      /\ k.cell = [s \in Slot |-> IF s \in S THEN 0 ELSE h.cell[s]]
  BY <1>1 DEF Heap, PageDealloc
<1>3. k \in Heap
  <2>1. /\ [s \in Slot |-> s \in S \/ h.free[s]] \in [Slot -> BOOLEAN]
        /\ [s \in Slot |-> IF s \in S THEN 0 ELSE h.cell[s]] \in [Slot -> Family \cup {0, JUNK}]
    BY <1>1, HeapTypes
  <2> QED BY <1>1, <2>1 DEF Heap, PageDealloc
<1> HIDE DEF k
<1>4. MemOK(k, pr, st, lo \ {<<x>> : x \in S})
  BY <1>2, <1>3, LostFreed
<1> QED BY <1>2, <1>4 DEF k

FreeRecord(h, s) == [h EXCEPT !.free[s] = TRUE, !.cell[s] = JUNK]

LEMMA RecordFreed ==
  ASSUME NEW h, NEW pr, NEW st, NEW lo, MemOK(h, pr, st, lo), NEW s \in Slot, <<s>> \in lo
  PROVE  MemOK(FreeRecord(h, s), pr, st, lo \ {<<s>>}) /\ FreeRecord(h, s).ok = h.ok
<1> DEFINE k == FreeRecord(h, s)
<1>1. h \in Heap
  BY DEF MemOK, HeapOK
<1>2. /\ k.next = h.next /\ k.type = h.type /\ k.ptr = h.ptr /\ k.tables = h.tables /\ k.ok = h.ok
      /\ k.free = [h.free EXCEPT ![s] = TRUE] /\ k.cell = [h.cell EXCEPT ![s] = JUNK]
  BY <1>1 DEF Heap, FreeRecord
<1>3. k \in Heap
  BY <1>1 DEF Heap, FreeRecord
<1> HIDE DEF k
<1> DEFINE S == {s}
<1>4. /\ \A r \in Slot : k.free[r] <=> r \in S \/ h.free[r]
      /\ \A r \in Slot : IF r \in S THEN k.cell[r] \in {0, JUNK} ELSE k.cell[r] = h.cell[r]
  BY <1>1, <1>2, HeapTypes
<1>5. S \in SUBSET Slot /\ (\A x \in S : <<x>> \in lo) /\ {<<x>> : x \in S} = {<<s>>}
  OBVIOUS
<1> HIDE DEF S
<1>6. k.next = h.next /\ k.type = h.type /\ k.ptr = h.ptr /\ k.tables = h.tables
  BY <1>2
<1>7. MemOK(k, pr, st, lo \ {<<x>> : x \in S})
  BY ONLY MemOK(h, pr, st, lo), <1>3, <1>4, <1>5, <1>6, LostFreed
<1> QED BY <1>2, <1>5, <1>7 DEF k

LEMMA RecsKept ==
  ASSUME NEW h, NEW pr, NEW st, NEW lo, MemOK(h, pr, st, lo)
  PROVE  /\ h \in Heap /\ Recs(pr) \subseteq KeptSlots(h, lo) \ {1} /\ 1 \in KeptSlots(h, lo)
         /\ KeptSlots(h, lo) \subseteq Slot /\ KeptTables(h, lo) \subseteq Entry
         /\ \A s \in Recs(pr) : h.tables[s] \in KeptTables(h, lo) /\ pr[s].family \in Family
         /\ \A s, r \in Recs(pr) : Low(h, s) # h.tables[r]
<1>1. h \in Heap /\ KeptSlots(h, lo) \subseteq Slot /\ KeptTables(h, lo) \subseteq Entry
  BY DEF MemOK, HeapOK, KeptSlots, KeptTables, Data, Used
<1>2. /\ Recs(pr) \subseteq KeptSlots(h, lo) \ {1} /\ 1 \in KeptSlots(h, lo)
      /\ \A s \in Recs(pr) : /\ h.tables[s] \in KeptTables(h, lo) /\ pr[s].family \in Family
                             /\ h.type[h.tables[s]] = "HIGH_PAGE_TABLE"
  BY DEF MemOK, RecordsOK, AllOK
<1>3. \A s \in Recs(pr) : Low(h, s) # NULL => h.type[Low(h, s)] = "PAGE_TABLE"
  BY DEF MemOK, LowsOK
<1>4. \A e \in Entry : e # NULL
  BY Pointers
<1>5. \A s, r \in Recs(pr) : Low(h, s) # h.tables[r]
  BY <1>1, <1>2, <1>3, <1>4
<1> QED BY <1>1, <1>2, <1>5

Become(pr, c, f, b) == [pr EXCEPT ![c] = [family |-> f, child |-> b]]

LEMMA SomebodyIs ==
  ASSUME NEW pr, pr \in [Slot -> [family : {0} \cup Family, child : BOOLEAN]],
         NEW c \in Slot, NEW f \in Family, NEW b \in BOOLEAN
  PROVE  /\ Become(pr, c, f, b) \in [Slot -> [family : {0} \cup Family, child : BOOLEAN]]
         /\ Recs(Become(pr, c, f, b)) = Recs(pr) \cup {c}
         /\ Become(pr, c, f, b)[c].family = f
         /\ \A r \in Slot \ {c} : Become(pr, c, f, b)[r] = pr[r]
<1> DEFINE q == Become(pr, c, f, b)
<1>1. q[c] = [family |-> f, child |-> b] /\ \A r \in Slot \ {c} : q[r] = pr[r]
  BY DEF Become
<1>2. q \in [Slot -> [family : {0} \cup Family, child : BOOLEAN]]
  BY DEF Become
<1> HIDE DEF q
<1>3. q[c].family = f /\ f # 0 /\ Nobody.family = 0
  BY <1>1 DEF Family, Nobody
<1>4. Recs(q) = Recs(pr) \cup {c}
  BY <1>1, <1>3 DEF Recs
<1> QED BY <1>1, <1>2, <1>3, <1>4 DEF q

\* The record in slot c gets the tables of the one in slot s.
LEMMA Shared ==
  ASSUME NEW h, NEW pr, NEW st, NEW lo, MemOK(h, pr, st, lo), NEW s \in Recs(pr),
         NEW c \in Slot, <<c>> \in lo, h.tables[c] = h.tables[s],
         NEW f \in Family, f = pr[s].family, NEW b \in BOOLEAN, NEW q, q = Become(pr, c, f, b)
  PROVE  MemOK(h, q, st, lo \ {<<c>>})
<1> DEFINE l == lo \ {<<c>>}
           twin(r) == IF r = c THEN s ELSE r
<1>1. /\ q \in [Slot -> [family : {0} \cup Family, child : BOOLEAN]]
      /\ Recs(q) = Recs(pr) \cup {c}
      /\ q[c].family = f /\ \A r \in Slot \ {c} : q[r] = pr[r]
  BY ONLY MemOK(h, pr, st, lo), c \in Slot, f \in Family, b \in BOOLEAN, q = Become(pr, c, f, b), SomebodyIs
     DEF MemOK, TypesOK
<1>2. c \in Data(h) /\ c \notin KeptSlots(h, lo) /\ c \notin Recs(pr)
  BY RecsKept DEF MemOK, LostOK, KeptSlots
<1>3. LostOK(h, l) /\ KeptSlots(h, l) = KeptSlots(h, lo) \cup {c} /\ KeptTables(h, l) = KeptTables(h, lo)
  BY <1>2, Pointers DEF MemOK, LostOK, KeptSlots, KeptTables, Data, Used
<1>4. ASSUME NEW r \in Recs(q)
      PROVE  /\ twin(r) \in Recs(pr) /\ h.tables[r] = h.tables[twin(r)] /\ q[r].family = pr[twin(r)].family
             /\ Low(h, r) = Low(h, twin(r)) /\ \A n \in PageNo : PageAt(h, r, n) = PageAt(h, twin(r), n)
  <2>1. twin(r) \in Recs(pr) /\ h.tables[r] = h.tables[twin(r)] /\ q[r].family = pr[twin(r)].family
    BY <1>1, <1>2 DEF Recs
  <2> HIDE DEF twin
  <2> QED BY <2>1 DEF Low, PageAt
<1>5. \A r \in Recs(pr) : r \in Recs(q) /\ twin(r) = r
  BY <1>1, <1>2
<1>6. \A r \in Recs(q) : r \in KeptSlots(h, l) \ {1}
  <2>1. Recs(pr) \subseteq KeptSlots(h, lo) \ {1} /\ 1 \in KeptSlots(h, lo)
    BY RecsKept
  <2> QED BY ONLY <1>1, <1>2, <1>3, <2>1
<1> HIDE DEF twin, l
<1>7. RecordsOK(h, q, l)
  BY <1>3, <1>4, <1>6 DEF MemOK, RecordsOK
<1>8. LowsOK(h, q, l)
  BY <1>3, <1>4 DEF MemOK, LowsOK
<1>9. PagesOK(h, q, l)
  <2>1. ASSUME NEW r \in Recs(q), NEW n \in PageNo, PageAt(h, r, n) # NULL
        PROVE  \E x \in KeptSlots(h, l) \ (Recs(q) \cup {1}) : PageAt(h, r, n) = <<x>>
    <3>1. PICK x \in KeptSlots(h, lo) \ (Recs(pr) \cup {1}) : PageAt(h, twin(r), n) = <<x>>
      BY <1>4, <2>1 DEF MemOK, PagesOK
    <3> QED BY <1>1, <1>2, <1>3, <1>4, <3>1
  <2>2. ASSUME NEW r \in Recs(q), NEW t \in Recs(q), NEW n \in PageNo, NEW m \in PageNo,
               PageAt(h, r, n) # NULL, PageAt(h, r, n) = PageAt(h, t, m)
        PROVE  h.tables[r] = h.tables[t] /\ n = m
    BY <1>4, <2>2 DEF MemOK, PagesOK
  <2> QED BY <2>1, <2>2 DEF PagesOK
<1>10. AllOK(h, q, l)
  <2>1. ASSUME NEW x \in KeptSlots(h, l) \ {1}
        PROVE  x \in Recs(q) \/ \E r \in Recs(q), n \in PageNo : PageAt(h, r, n) = <<x>>
    BY <1>1, <1>3, <1>5 DEF MemOK, AllOK
  <2>2. ASSUME NEW e \in KeptTables(h, l) PROVE \E r \in Recs(q) : e = h.tables[r] \/ e = Low(h, r)
    BY <1>3, <1>5 DEF MemOK, AllOK
  <2> QED BY <1>3, <2>1, <2>2 DEF MemOK, AllOK
<1>11. CellsOK(h, q, st)
  BY <1>4 DEF MemOK, CellsOK
<1> QED BY <1>1, <1>3, <1>7, <1>8, <1>9, <1>10, <1>11 DEF MemOK, TypesOK, l

\* The record in slot c gets tables of its own, and a family.
LEMMA Adopted ==
  ASSUME NEW h, NEW pr, NEW st, NEW lo, MemOK(h, pr, st, lo),
         NEW c \in Slot, <<c>> \in lo, h.tables[c] \in lo \cap Entry, h.type[h.tables[c]] = "HIGH_PAGE_TABLE",
         \/ Low(h, c) = NULL
         \/ Low(h, c) \in lo \cap Entry /\ h.type[Low(h, c)] = "PAGE_TABLE" /\ h.ptr[Low(h, c)] = NoPointers,
         NEW f \in Family, \A r \in Recs(pr) : pr[r].family # f, st[f] = {}, NEW b \in BOOLEAN,
         NEW q, q = Become(pr, c, f, b)
  PROVE  MemOK(h, q, st, lo \ {<<c>>, h.tables[c], Low(h, c)})
<1> DEFINE high == h.tables[c]
           low == Low(h, c)
           l == lo \ {<<c>>, high, low}
<1>1. /\ q \in [Slot -> [family : {0} \cup Family, child : BOOLEAN]]
      /\ Recs(q) = Recs(pr) \cup {c}
      /\ q[c].family = f /\ \A r \in Slot \ {c} : q[r] = pr[r]
  BY SomebodyIs DEF MemOK, TypesOK
<1>2. /\ c \in Data(h) /\ c \notin KeptSlots(h, lo) /\ c \notin Recs(pr) /\ c # 1
      /\ high \in Used(h) /\ high \notin KeptTables(h, lo) /\ low \notin KeptTables(h, lo)
      /\ low # NULL => low \in Used(h) /\ h.type[low] = "PAGE_TABLE"
  BY RecsKept, Pointers DEF MemOK, LostOK, KeptSlots, KeptTables, Used
<1>3. /\ LostOK(h, l) /\ KeptSlots(h, l) = KeptSlots(h, lo) \cup {c}
      /\ KeptTables(h, l) = KeptTables(h, lo) \cup {high} \cup ({low} \ {NULL})
  <2>1. high \in Entry /\ (low = NULL \/ low \in Entry)
    OBVIOUS
  <2> HIDE DEF high, low
  <2>2. /\ \A x \in Slot : <<x>> \in l <=> <<x>> \in lo /\ x # c
        /\ \A e \in Entry : e \in l <=> e \in lo /\ e # high /\ e # low
    BY <2>1, Pointers
  <2>3. l \subseteq lo /\ LostOK(h, lo)
    BY DEF MemOK
  <2> HIDE DEF l
  <2>4. LostOK(h, l)
    BY <2>2, <2>3 DEF LostOK
  <2>5. KeptSlots(h, l) = KeptSlots(h, lo) \cup {c}
    BY <1>2, <2>2 DEF KeptSlots, Data
  <2>6. KeptTables(h, l) = KeptTables(h, lo) \cup {high} \cup ({low} \ {NULL})
    BY <1>2, <2>1, <2>2, Pointers DEF KeptTables, Used
  <2> QED BY <2>4, <2>5, <2>6
<1>4. \A n \in PageNo : PageAt(h, c, n) = NULL
  BY DEF PageAt, NoPointers
<1>5. \A r \in Recs(q) : r = c \/ (r \in Recs(pr) /\ r # c /\ q[r] = pr[r])
  BY <1>1, <1>2 DEF Recs
<1> HIDE DEF l
<1>6. \A r \in Recs(pr) : /\ r \in KeptSlots(h, lo) \ {1} /\ pr[r].family \in Family /\ pr[r].family # f
                          /\ h.tables[r] \in KeptTables(h, lo) /\ h.type[h.tables[r]] = "HIGH_PAGE_TABLE"
                          /\ Low(h, r) # NULL => Low(h, r) \in KeptTables(h, lo) /\ h.type[Low(h, r)] = "PAGE_TABLE"
  BY DEF MemOK, RecordsOK, LowsOK
<1>7. RecordsOK(h, q, l)
  <2>1. \A r \in Recs(q) : /\ r \in KeptSlots(h, l) \ {1} /\ q[r].family \in Family
                           /\ h.tables[r] \in KeptTables(h, l) /\ h.type[h.tables[r]] = "HIGH_PAGE_TABLE"
    BY <1>1, <1>2, <1>3, <1>5, <1>6
  <2>2. \A r, t \in Recs(q) : q[r].family = q[t].family <=> h.tables[r] = h.tables[t]
    BY <1>1, <1>2, <1>5, <1>6 DEF MemOK, RecordsOK
  <2> QED BY <2>1, <2>2 DEF RecordsOK
<1>8. LowsOK(h, q, l)
  <2>1. \A r \in Recs(q) : Low(h, r) # NULL => Low(h, r) \in KeptTables(h, l) /\ h.type[Low(h, r)] = "PAGE_TABLE"
    BY <1>2, <1>3, <1>5, <1>6
  <2>2. \A r, t \in Recs(q) : Low(h, r) # NULL /\ Low(h, r) = Low(h, t) => h.tables[r] = h.tables[t]
    BY <1>2, <1>5, <1>6 DEF MemOK, LowsOK
  <2> QED BY <2>1, <2>2 DEF LowsOK
<1>9. PagesOK(h, q, l)
  <2>1. ASSUME NEW r \in Recs(q), NEW n \in PageNo, PageAt(h, r, n) # NULL
        PROVE  \E x \in KeptSlots(h, l) \ (Recs(q) \cup {1}) : PageAt(h, r, n) = <<x>>
    <3>1. r \in Recs(pr)
      BY <1>4, <1>5, <2>1
    <3>2. PICK x \in KeptSlots(h, lo) \ (Recs(pr) \cup {1}) : PageAt(h, r, n) = <<x>>
      BY <2>1, <3>1 DEF MemOK, PagesOK
    <3> QED BY <1>1, <1>2, <1>3, <3>2
  <2>2. ASSUME NEW r \in Recs(q), NEW t \in Recs(q), NEW n \in PageNo, NEW m \in PageNo,
               PageAt(h, r, n) # NULL, PageAt(h, r, n) = PageAt(h, t, m)
        PROVE  h.tables[r] = h.tables[t] /\ n = m
    BY <1>4, <1>5, <2>2 DEF MemOK, PagesOK
  <2> QED BY <2>1, <2>2 DEF PagesOK
<1>10. AllOK(h, q, l)
  <2>1. ASSUME NEW x \in KeptSlots(h, l) \ {1}
        PROVE  x \in Recs(q) \/ \E r \in Recs(q), n \in PageNo : PageAt(h, r, n) = <<x>>
    BY <1>1, <1>3 DEF MemOK, AllOK
  <2>2. ASSUME NEW e \in KeptTables(h, l) PROVE \E r \in Recs(q) : e = h.tables[r] \/ e = Low(h, r)
    BY <1>1, <1>3 DEF MemOK, AllOK
  <2> QED BY <1>3, <2>1, <2>2 DEF MemOK, AllOK
<1>11. CellsOK(h, q, st)
  <2>1. ASSUME NEW n \in PageNo PROVE n \notin st[q[c].family] /\ \A x \in Slot : PageAt(h, c, n) # <<x>>
    BY <1>1, <1>4, Pointers
  <2> QED BY <1>5, <2>1 DEF MemOK, CellsOK
<1> QED BY <1>1, <1>3, <1>7, <1>8, <1>9, <1>10, <1>11 DEF MemOK, TypesOK, l

Leave(pr, s) == [pr EXCEPT ![s] = Nobody]

LEMMA NobodyIs ==
  ASSUME NEW pr, pr \in [Slot -> [family : {0} \cup Family, child : BOOLEAN]], NEW s \in Slot
  PROVE  /\ Leave(pr, s) \in [Slot -> [family : {0} \cup Family, child : BOOLEAN]]
         /\ Recs(Leave(pr, s)) = Recs(pr) \ {s}
         /\ \A r \in Slot \ {s} : Leave(pr, s)[r] = pr[r]
<1>1. Leave(pr, s)[s] = Nobody /\ \A r \in Slot \ {s} : Leave(pr, s)[r] = pr[r]
  BY DEF Leave
<1>2. Leave(pr, s) \in [Slot -> [family : {0} \cup Family, child : BOOLEAN]]
  BY DEF Leave, Nobody
<1>3. Recs(Leave(pr, s)) = Recs(pr) \ {s}
  BY <1>1 DEF Recs
<1> QED BY <1>1, <1>2, <1>3

\* What the only record of a family refers to, and its slot.
Estate(h, s) == ({<<s>>, h.tables[s], Low(h, s)} \cup {PageAt(h, s, n) : n \in PageNo}) \ {NULL}

LEMMA Disowned ==
  ASSUME NEW h, NEW pr, NEW st, NEW lo, MemOK(h, pr, st, lo), NEW s \in Recs(pr),
         \A r \in Recs(pr) \ {s} : pr[r].family # pr[s].family,
         NEW q, q = Leave(pr, s)
  PROVE  MemOK(h, q, st, lo \cup Estate(h, s))
<1> DEFINE high == h.tables[s]
           low == Low(h, s)
           l == lo \cup Estate(h, s)
           inside(x) == \E n \in PageNo : PageAt(h, s, n) = <<x>>
<1>1. /\ q \in [Slot -> [family : {0} \cup Family, child : BOOLEAN]] /\ s \in Slot
      /\ Recs(q) = Recs(pr) \ {s} /\ \A r \in Slot \ {s} : q[r] = pr[r]
  BY NobodyIs DEF MemOK, TypesOK, Recs
<1>2. \A r \in Recs(q) : r \in Recs(pr) /\ r # s /\ r \in Slot /\ q[r] = pr[r]
  BY <1>1 DEF Recs
<1>3. \A n \in PageNo : PageAt(h, s, n) # NULL =>
        \E x \in KeptSlots(h, lo) \ (Recs(pr) \cup {1}) : PageAt(h, s, n) = <<x>>
  BY DEF MemOK, PagesOK
<1>4. /\ high \in KeptTables(h, lo) /\ (low = NULL \/ low \in KeptTables(h, lo)) /\ s \in KeptSlots(h, lo) \ {1}
      /\ KeptTables(h, lo) \subseteq Used(h) /\ KeptSlots(h, lo) \subseteq Data(h)
      /\ Used(h) \subseteq Entry /\ Data(h) \subseteq Slot
  BY DEF MemOK, RecordsOK, LowsOK, KeptTables, KeptSlots, Used, Data
<1>5. \A x \in Slot : <<x>> \in l <=> <<x>> \in lo \/ x = s \/ inside(x)
  <2>1. \A x \in Slot : <<x>> # high /\ <<x>> # low /\ <<x>> # NULL
    BY <1>4, Pointers
  <2> HIDE DEF high, low
  <2> QED BY <2>1 DEF Estate, high, low
<1>6. \A e \in Entry : e \in l <=> e \in lo \/ e = high \/ e = low
  <2>1. \A e \in Entry : e # <<s>> /\ e # NULL /\ \A n \in PageNo : e # PageAt(h, s, n)
    BY <1>1, <1>3, <1>4, Pointers
  <2> QED BY <2>1 DEF Estate
<1>7. LostOK(h, l)
  <2>1. l \subseteq {<<x>> : x \in Slot} \cup Entry
    <3>1. lo \subseteq {<<x>> : x \in Slot} \cup Entry
      BY DEF MemOK, LostOK
    <3>2. high \in Entry /\ (low = NULL \/ low \in Entry) /\ <<s>> \in {<<x>> : x \in Slot}
      BY <1>1, <1>4
    <3>3. \A n \in PageNo : PageAt(h, s, n) # NULL => PageAt(h, s, n) \in {<<x>> : x \in Slot}
      BY <1>3, <1>4
    <3> HIDE DEF high, low
    <3> QED BY <3>1, <3>2, <3>3 DEF Estate, high, low
  <2>2. \A x \in Slot : inside(x) => x \in Data(h)
    BY <1>3, <1>4, Pointers
  <2> HIDE DEF high, low, inside, l
  <2>3. \A x \in Slot : <<x>> \in l => x \in Data(h)
    BY <1>4, <1>5, <2>2 DEF MemOK, LostOK
  <2>4. \A e \in Entry : e \in l => e \in Used(h)
    BY <1>4, <1>6, Pointers DEF MemOK, LostOK
  <2> QED BY <2>1, <2>3, <2>4 DEF LostOK
<1> HIDE DEF l
<1>8. \A x \in Slot : x \in KeptSlots(h, l) <=> x \in KeptSlots(h, lo) /\ x # s /\ ~inside(x)
  BY <1>5 DEF KeptSlots
<1>9. \A e \in Entry : e \in KeptTables(h, l) <=> e \in KeptTables(h, lo) /\ e # high /\ e # low
  BY <1>6 DEF KeptTables
<1>10. KeptSlots(h, l) \subseteq KeptSlots(h, lo) /\ KeptTables(h, l) \subseteq KeptTables(h, lo)
  BY <1>4, <1>8, <1>9 DEF KeptSlots, KeptTables, Data, Used
<1>11. ASSUME NEW r \in Recs(q)
       PROVE  /\ h.tables[r] # high /\ h.tables[r] # low
              /\ Low(h, r) # NULL => Low(h, r) # high /\ Low(h, r) # low
              /\ \A n \in PageNo, x \in Slot : PageAt(h, r, n) = <<x>> => x # s /\ ~inside(x)
  <2>1. h.tables[r] # high
    BY <1>2 DEF MemOK, RecordsOK
  <2>2. h.tables[r] # low /\ Low(h, r) # high
    BY <1>2, RecsKept
  <2>3. Low(h, r) # NULL => Low(h, r) # low
    BY <1>2, <2>1 DEF MemOK, LowsOK
  <2>4. ASSUME NEW n \in PageNo, NEW x \in Slot, PageAt(h, r, n) = <<x>> PROVE x # s /\ ~inside(x)
    <3>1. x \notin Recs(pr) /\ PageAt(h, r, n) # NULL
      BY <1>2, <2>4, Pointers DEF MemOK, PagesOK
    <3>2. ~inside(x)
      BY <1>2, <2>1, <2>4, <3>1 DEF MemOK, PagesOK
    <3> QED BY <3>1, <3>2
  <2> QED BY <2>1, <2>2, <2>3, <2>4
<1>12. RecordsOK(h, q, l)
  <2>1. ASSUME NEW r \in Recs(q)
        PROVE  /\ r \in KeptSlots(h, l) \ {1} /\ q[r].family \in Family
               /\ h.tables[r] \in KeptTables(h, l) /\ h.type[h.tables[r]] = "HIGH_PAGE_TABLE"
    <3>1. /\ r \in KeptSlots(h, lo) \ {1} /\ q[r].family \in Family
          /\ h.tables[r] \in KeptTables(h, lo) /\ h.type[h.tables[r]] = "HIGH_PAGE_TABLE"
      BY <1>2 DEF MemOK, RecordsOK
    <3>2. ~inside(r)
      BY <1>2, <1>3, Pointers
    <3>3. h.tables[r] \in Entry
      BY <1>4, <3>1
    <3> HIDE DEF inside, high, low
    <3> QED BY <1>2, <1>8, <1>9, <1>11, <3>1, <3>2, <3>3
  <2>2. \A r, t \in Recs(q) : q[r].family = q[t].family <=> h.tables[r] = h.tables[t]
    BY <1>2 DEF MemOK, RecordsOK
  <2> QED BY <2>1, <2>2 DEF RecordsOK
<1>13. LowsOK(h, q, l)
  <2>1. ASSUME NEW r \in Recs(q), Low(h, r) # NULL
        PROVE  Low(h, r) \in KeptTables(h, l) /\ h.type[Low(h, r)] = "PAGE_TABLE"
    <3>1. Low(h, r) \in KeptTables(h, lo) /\ h.type[Low(h, r)] = "PAGE_TABLE"
      BY <1>2, <2>1 DEF MemOK, LowsOK
    <3> QED BY <1>4, <1>9, <1>11, <2>1, <3>1
  <2>2. \A r, t \in Recs(q) : Low(h, r) # NULL /\ Low(h, r) = Low(h, t) => h.tables[r] = h.tables[t]
    BY <1>2 DEF MemOK, LowsOK
  <2> QED BY <2>1, <2>2 DEF LowsOK
<1>14. PagesOK(h, q, l)
  <2>1. ASSUME NEW r \in Recs(q), NEW n \in PageNo, PageAt(h, r, n) # NULL
        PROVE  \E x \in KeptSlots(h, l) \ (Recs(q) \cup {1}) : PageAt(h, r, n) = <<x>>
    <3>1. PICK x \in KeptSlots(h, lo) \ (Recs(pr) \cup {1}) : PageAt(h, r, n) = <<x>>
      BY <1>2, <2>1 DEF MemOK, PagesOK
    <3>2. x \in Slot /\ x \notin Recs(q)
      BY <1>1, <1>4, <3>1
    <3> QED BY <1>8, <1>11, <3>1, <3>2
  <2>2. \A r, t \in Recs(q), n, m \in PageNo :
          PageAt(h, r, n) # NULL /\ PageAt(h, r, n) = PageAt(h, t, m) => h.tables[r] = h.tables[t] /\ n = m
    BY <1>2 DEF MemOK, PagesOK
  <2> QED BY <2>1, <2>2 DEF PagesOK
<1>15. AllOK(h, q, l)
  <2>1. 1 \in KeptSlots(h, l)
    <3>1. 1 \in KeptSlots(h, lo) /\ 1 \in Slot
      BY <1>4 DEF MemOK, AllOK
    <3>2. ~inside(1)
      BY <1>3, Pointers, SlotTypes
    <3> QED BY <1>4, <1>8, <3>1, <3>2
  <2>2. ASSUME NEW x \in KeptSlots(h, l) \ {1}
        PROVE  x \in Recs(q) \/ \E r \in Recs(q), n \in PageNo : PageAt(h, r, n) = <<x>>
    <3>1. x \in KeptSlots(h, lo) \ {1} /\ x # s /\ ~inside(x)
      BY <1>4, <1>8, <1>10
    <3>2. x \in Recs(pr) \/ \E r \in Recs(pr), n \in PageNo : PageAt(h, r, n) = <<x>>
      BY <3>1 DEF MemOK, AllOK
    <3> QED BY <1>1, <3>1, <3>2
  <2>3. ASSUME NEW e \in KeptTables(h, l) PROVE \E r \in Recs(q) : e = h.tables[r] \/ e = Low(h, r)
    <3>1. e \in KeptTables(h, lo) /\ e # high /\ e # low
      BY <1>4, <1>9, <1>10
    <3>2. \E r \in Recs(pr) : e = h.tables[r] \/ e = Low(h, r)
      BY <3>1 DEF MemOK, AllOK
    <3> QED BY <1>1, <3>1, <3>2
  <2> QED BY <2>1, <2>2, <2>3 DEF AllOK
<1>16. CellsOK(h, q, st)
  BY <1>2 DEF MemOK, CellsOK
<1> QED BY <1>1, <1>7, <1>12, <1>13, <1>14, <1>15, <1>16 DEF MemOK, TypesOK, l

\* A lost page table becomes the one of the family of s.
LEMMA LowLinked ==
  ASSUME NEW h, NEW pr, NEW st, NEW lo, MemOK(h, pr, st, lo), NEW s \in Recs(pr), Low(h, s) = NULL,
         NEW e \in Entry, e \in lo, h.type[e] = "PAGE_TABLE", h.ptr[e] = NoPointers, 0 \in PageNo,
         NEW k, k = SetPtr(h, h.tables[s], 0, e)
  PROVE  /\ MemOK(k, pr, st, lo \ {e})
         /\ k.tables = h.tables /\ k.ok = h.ok /\ k.cell = h.cell /\ k.free = h.free /\ Low(k, s) = e
<1> DEFINE high == h.tables[s]
           l == lo \ {e}
<1>1. HeapOK(h) /\ h \in Heap /\ high \in KeptTables(h, lo) /\ high \in Used(h) /\ e \in Used(h) /\ high # e
      /\ e \in Pointer /\ e # NULL /\ high \in Entry
  BY RecsKept, Pointers DEF MemOK, HeapOK, LostOK, KeptTables, Used
<1>2. /\ HeapOK(k) /\ Data(k) = Data(h) /\ Used(k) = Used(h)
      /\ k.tables = h.tables /\ k.type = h.type /\ k.cell = h.cell /\ k.ok = h.ok /\ k.free = h.free
      /\ k.ptr = [h.ptr EXCEPT ![high][0] = e]
  BY <1>1, Pointed
<1>3. k.ptr[high][0] = e /\ \A d \in Entry \ {high} : k.ptr[d] = h.ptr[d]
  BY <1>1, <1>2, HeapTypes
<1>4. \A r \in Recs(pr) : h.tables[r] \in Entry /\ h.type[h.tables[r]] = "HIGH_PAGE_TABLE"
                          /\ k.tables[r] = h.tables[r] /\ (Low(h, r) # NULL => Low(h, r) \in Entry \ {high})
  BY <1>2, RecsKept DEF MemOK, RecordsOK, LowsOK
<1>5. \A r \in Recs(pr) : Low(k, r) = IF h.tables[r] = high THEN e ELSE Low(h, r)
  BY <1>3, <1>4 DEF Low
<1>6. \A r \in Recs(pr) : h.tables[r] = high => Low(h, r) = NULL
  BY DEF Low
<1>7. \A r \in Recs(pr), n \in PageNo : PageAt(k, r, n) = PageAt(h, r, n)
  <2>1. SUFFICES ASSUME NEW r \in Recs(pr), NEW n \in PageNo PROVE PageAt(k, r, n) = PageAt(h, r, n)
    OBVIOUS
  <2>2. CASE h.tables[r] = high
    <3>1. PageAt(h, r, n) = NULL
      BY <1>6, <2>2 DEF PageAt
    <3>2. PageAt(k, r, n) = NULL
      BY <1>1, <1>3, <1>5, <2>2 DEF PageAt, NoPointers
    <3> QED BY <3>1, <3>2
  <2>3. CASE h.tables[r] # high
    BY <1>3, <1>4, <1>5, <2>3 DEF PageAt
  <2> QED BY <2>2, <2>3
<1>8. LostOK(k, l) /\ KeptSlots(k, l) = KeptSlots(h, lo) /\ KeptTables(k, l) = KeptTables(h, lo) \cup {e}
  BY <1>1, <1>2, Pointers DEF MemOK, LostOK, KeptSlots, KeptTables, Data, Used
<1> HIDE DEF l, high
<1>9. RecordsOK(k, pr, l)
  <2>1. ASSUME NEW r \in Recs(pr)
        PROVE  /\ r \in KeptSlots(k, l) \ {1} /\ pr[r].family \in Family
               /\ k.tables[r] \in KeptTables(k, l) /\ k.type[k.tables[r]] = "HIGH_PAGE_TABLE"
    BY <1>2, <1>8 DEF MemOK, RecordsOK
  <2>2. \A r, t \in Recs(pr) : pr[r].family = pr[t].family <=> k.tables[r] = k.tables[t]
    BY <1>2 DEF MemOK, RecordsOK
  <2> QED BY <2>1, <2>2 DEF RecordsOK
<1>10. LowsOK(k, pr, l)
  <2>1. ASSUME NEW r \in Recs(pr), Low(k, r) # NULL
        PROVE  Low(k, r) \in KeptTables(k, l) /\ k.type[Low(k, r)] = "PAGE_TABLE"
    BY <1>2, <1>5, <1>8, <2>1 DEF MemOK, LowsOK
  <2>2. ASSUME NEW r \in Recs(pr), NEW t \in Recs(pr), Low(k, r) # NULL, Low(k, r) = Low(k, t)
        PROVE  k.tables[r] = k.tables[t]
    <3>1. \A u \in Recs(pr) : Low(h, u) # e
      BY <1>1 DEF MemOK, LowsOK, KeptTables
    <3> QED BY <1>2, <1>5, <2>2, <3>1 DEF MemOK, LowsOK
  <2> QED BY <2>1, <2>2 DEF LowsOK
<1>11. PagesOK(k, pr, l)
  BY <1>2, <1>7, <1>8 DEF MemOK, PagesOK
<1>12. AllOK(k, pr, l)
  <2>1. \A d \in KeptTables(h, lo) : \E r \in Recs(pr) : d = k.tables[r] \/ d = Low(k, r)
    <3>1. SUFFICES ASSUME NEW d \in KeptTables(h, lo) PROVE \E r \in Recs(pr) : d = k.tables[r] \/ d = Low(k, r)
      OBVIOUS
    <3>2. PICK r \in Recs(pr) : d = h.tables[r] \/ d = Low(h, r)
      BY DEF MemOK, AllOK
    <3>3. d # NULL
      BY Pointers DEF KeptTables, Used
    <3> QED BY <1>2, <1>5, <1>6, <3>2, <3>3
  <2>2. e = Low(k, s)
    BY <1>5 DEF high
  <2>3. 1 \in KeptSlots(k, l)
        /\ \A x \in KeptSlots(k, l) \ {1} : x \in Recs(pr) \/ \E r \in Recs(pr), n \in PageNo : PageAt(k, r, n) = <<x>>
    BY <1>7, <1>8 DEF MemOK, AllOK
  <2> QED BY <1>8, <2>1, <2>2, <2>3 DEF AllOK
<1>13. CellsOK(k, pr, st)
  BY <1>2, <1>7 DEF MemOK, CellsOK
<1>14. MemOK(k, pr, st, l)
  BY <1>2, <1>8, <1>9, <1>10, <1>11, <1>12, <1>13 DEF MemOK
<1>15. Low(k, s) = e
  BY <1>5 DEF high
<1> QED BY <1>2, <1>14, <1>15 DEF l

\* A lost page becomes the one with number n.
LEMMA PageEntered ==
  ASSUME NEW h, NEW pr, NEW st, NEW lo, MemOK(h, pr, st, lo), NEW s \in Recs(pr), Low(h, s) # NULL,
         NEW n \in PageNo, h.ptr[Low(h, s)][n] = NULL,
         NEW x \in Slot, <<x>> \in lo, h.cell[x] \in {0, JUNK},
         NEW k, k = SetPtr(h, Low(h, s), n, <<x>>)
  PROVE  MemOK(k, pr, st, lo \ {<<x>>}) /\ k.ok = h.ok /\ k.tables = h.tables /\ PageAt(k, s, n) = <<x>>
<1> DEFINE low == Low(h, s)
           l == lo \ {<<x>>}
<1>1. HeapOK(h) /\ h \in Heap /\ low \in KeptTables(h, lo) /\ low \in Used(h) /\ low \in Entry
      /\ h.type[low] = "PAGE_TABLE" /\ <<x>> \in Pointer /\ <<x>> # NULL /\ x \in Data(h)
      /\ x \notin KeptSlots(h, lo)
  BY Pointers DEF MemOK, HeapOK, LostOK, LowsOK, KeptTables, KeptSlots, Used
<1>2. /\ HeapOK(k) /\ Data(k) = Data(h) /\ Used(k) = Used(h)
      /\ k.tables = h.tables /\ k.type = h.type /\ k.cell = h.cell /\ k.ok = h.ok /\ k.free = h.free
      /\ k.ptr = [h.ptr EXCEPT ![low][n] = <<x>>]
  BY <1>1, Pointed
<1>3. /\ k.ptr[low][n] = <<x>> /\ \A m \in PageNo \ {n} : k.ptr[low][m] = h.ptr[low][m]
      /\ \A d \in Entry \ {low} : k.ptr[d] = h.ptr[d]
  BY <1>1, <1>2, HeapTypes
<1>4. \A r \in Recs(pr) : /\ h.tables[r] \in Entry \ {low} /\ (Low(h, r) # NULL => Low(h, r) \in Entry)
                          /\ (Low(h, r) = low <=> h.tables[r] = h.tables[s])
  <2>1. \A r \in Recs(pr) : h.tables[r] \in Entry \ {low} /\ (Low(h, r) # NULL => Low(h, r) \in Entry)
    BY RecsKept DEF MemOK, LowsOK
  <2>2. \A r \in Recs(pr) : Low(h, r) = low => h.tables[r] = h.tables[s]
    BY DEF MemOK, LowsOK
  <2>3. \A r \in Recs(pr) : h.tables[r] = h.tables[s] => Low(h, r) = low
    BY DEF Low
  <2> QED BY <2>1, <2>2, <2>3
<1> HIDE DEF low
<1>5. \A r \in Recs(pr) : Low(k, r) = Low(h, r)
  <2>1. \A r \in Recs(pr) : k.tables[r] = h.tables[r] /\ k.ptr[h.tables[r]] = h.ptr[h.tables[r]]
    BY <1>2, <1>3, <1>4
  <2> QED BY ONLY <2>1 DEF Low
<1>6. ASSUME NEW r \in Recs(pr), NEW m \in PageNo
      PROVE  PageAt(k, r, m) = IF h.tables[r] = h.tables[s] /\ m = n THEN <<x>> ELSE PageAt(h, r, m)
  <2>1. CASE h.tables[r] = h.tables[s]
    BY <1>1, <1>3, <1>4, <1>5, <2>1, Pointers DEF PageAt
  <2>2. CASE h.tables[r] # h.tables[s]
    BY <1>3, <1>4, <1>5, <2>2 DEF PageAt
  <2> QED BY <2>1, <2>2
<1>7. \A r \in Recs(pr), m \in PageNo : PageAt(h, r, m) # <<x>>
  BY <1>1, Pointers DEF MemOK, PagesOK
<1>8. \A r \in Recs(pr) : h.tables[r] = h.tables[s] => PageAt(h, r, n) = NULL
  BY <1>4 DEF PageAt, low
<1>9. LostOK(k, l) /\ KeptSlots(k, l) = KeptSlots(h, lo) \cup {x} /\ KeptTables(k, l) = KeptTables(h, lo)
  BY <1>1, <1>2, Pointers DEF MemOK, LostOK, KeptSlots, KeptTables, Data, Used
<1>10. x \notin Recs(pr) \cup {1}
  BY <1>1, RecsKept
<1> HIDE DEF l
<1>11. RecordsOK(k, pr, l)
  BY <1>2, <1>9 DEF MemOK, RecordsOK
<1>12. LowsOK(k, pr, l)
  BY <1>2, <1>5, <1>9 DEF MemOK, LowsOK
<1>13. PagesOK(k, pr, l)
  <2>1. ASSUME NEW r \in Recs(pr), NEW m \in PageNo, PageAt(k, r, m) # NULL
        PROVE  \E y \in KeptSlots(k, l) \ (Recs(pr) \cup {1}) : PageAt(k, r, m) = <<y>>
    <3>1. CASE h.tables[r] = h.tables[s] /\ m = n
      BY <1>6, <1>9, <1>10, <3>1
    <3>2. CASE ~(h.tables[r] = h.tables[s] /\ m = n)
      <4>1. PageAt(k, r, m) = PageAt(h, r, m)
        BY <1>6, <3>2
      <4> QED BY <1>9, <2>1, <4>1 DEF MemOK, PagesOK
    <3> QED BY <3>1, <3>2
  <2>2. ASSUME NEW r \in Recs(pr), NEW t \in Recs(pr), NEW m \in PageNo, NEW j \in PageNo,
               PageAt(k, r, m) # NULL, PageAt(k, r, m) = PageAt(k, t, j)
        PROVE  k.tables[r] = k.tables[t] /\ m = j
    BY <1>2, <1>6, <1>7, <2>2 DEF MemOK, PagesOK
  <2> QED BY <2>1, <2>2 DEF PagesOK
<1>14. AllOK(k, pr, l)
  <2>1. ASSUME NEW y \in KeptSlots(k, l) \ {1}
        PROVE  y \in Recs(pr) \/ \E r \in Recs(pr), m \in PageNo : PageAt(k, r, m) = <<y>>
    <3>1. CASE y = x
      BY <1>6, <3>1
    <3>2. CASE y # x
      <4>1. y \in KeptSlots(h, lo) \ {1} /\ <<y>> # NULL
        BY <1>9, <3>2, RecsKept, Pointers
      <4>2. y \in Recs(pr) \/ \E r \in Recs(pr), m \in PageNo : PageAt(h, r, m) = <<y>>
        BY <4>1 DEF MemOK, AllOK
      <4> QED BY <1>6, <1>8, <4>1, <4>2
    <3> QED BY <3>1, <3>2
  <2>2. \A e \in KeptTables(k, l) : \E r \in Recs(pr) : e = k.tables[r] \/ e = Low(k, r)
    BY <1>2, <1>5, <1>9 DEF MemOK, AllOK
  <2> QED BY <1>9, <2>1, <2>2 DEF MemOK, AllOK
<1>15. CellsOK(k, pr, st)
  <2>1. SUFFICES ASSUME NEW r \in Recs(pr), NEW m \in PageNo
                 PROVE  /\ m \in st[pr[r].family] => PageAt(k, r, m) # NULL
                        /\ \A y \in Slot : PageAt(k, r, m) = <<y>> =>
                             IF m \in st[pr[r].family] THEN h.cell[y] = pr[r].family ELSE h.cell[y] \in {0, JUNK}
    BY <1>2 DEF CellsOK
  <2>2. CASE h.tables[r] = h.tables[s] /\ m = n
    <3>1. m \notin st[pr[r].family]
      BY <1>8, <2>2 DEF MemOK, CellsOK
    <3>2. PageAt(k, r, m) = <<x>> /\ \A y \in Slot : <<x>> = <<y>> => y = x
      BY <1>6, <2>2
    <3> QED BY <3>1, <3>2
  <2>3. CASE ~(h.tables[r] = h.tables[s] /\ m = n)
    <3>1. PageAt(k, r, m) = PageAt(h, r, m)
      BY <1>6, <2>3
    <3> QED BY <3>1 DEF MemOK, CellsOK
  <2> QED BY <2>2, <2>3
<1>16. MemOK(k, pr, st, l)
  BY <1>2, <1>9, <1>11, <1>12, <1>13, <1>14, <1>15 DEF MemOK
<1>17. PageAt(k, s, n) = <<x>>
  BY <1>6
<1> QED BY <1>2, <1>16, <1>17 DEF l

\* A byte is stored in page n of the family.
LEMMA ByteStored ==
  ASSUME NEW h, NEW pr, NEW st, NEW lo, MemOK(h, pr, st, lo), NEW s \in Recs(pr), NEW n \in PageNo,
         NEW x \in Slot, PageAt(h, s, n) = <<x>>, NEW f, f = pr[s].family,
         NEW k, k = SetCell(h, x, f), NEW t, t = [st EXCEPT ![f] = @ \cup {n}]
  PROVE  MemOK(k, pr, t, lo)
<1>1. x \in Data(h) /\ f \in Family /\ HeapOK(h) /\ h \in Heap /\ x \in KeptSlots(h, lo)
  <2>1. x \in KeptSlots(h, lo)
    BY Pointers DEF MemOK, PagesOK
  <2>2. f \in Family /\ h \in Heap /\ HeapOK(h)
    BY RecsKept DEF MemOK
  <2> QED BY <2>1, <2>2 DEF KeptSlots
<1>2. /\ HeapOK(k) /\ Data(k) = Data(h) /\ Used(k) = Used(h)
      /\ k.ptr = h.ptr /\ k.type = h.type /\ k.tables = h.tables /\ k.ok = h.ok
      /\ k.cell = [h.cell EXCEPT ![x] = f]
  BY <1>1, Written
<1>3. k.cell[x] = f /\ \A y \in Slot \ {x} : k.cell[y] = h.cell[y]
  BY <1>1, <1>2, HeapTypes
<1>4. TypesOK(pr, t) /\ t[f] = st[f] \cup {n} /\ \A g \in Family \ {f} : t[g] = st[g]
  BY <1>1 DEF MemOK, TypesOK
<1>5. KeptSlots(k, lo) = KeptSlots(h, lo) /\ KeptTables(k, lo) = KeptTables(h, lo) /\ LostOK(k, lo)
  BY SMTT(30), <1>2 DEF MemOK, KeptSlots, KeptTables, LostOK
<1>6. /\ \A r \in Recs(pr) : Low(k, r) = Low(h, r)
      /\ \A r \in Recs(pr), m \in PageNo : PageAt(k, r, m) = PageAt(h, r, m)
  BY <1>2 DEF Low, PageAt
<1>7. RecordsOK(k, pr, lo) /\ LowsOK(k, pr, lo) /\ PagesOK(k, pr, lo) /\ AllOK(k, pr, lo)
  BY <1>2, <1>5, <1>6 DEF MemOK, RecordsOK, LowsOK, PagesOK, AllOK
<1>8. CellsOK(k, pr, t)
  <2>1. SUFFICES ASSUME NEW r \in Recs(pr), NEW m \in PageNo
                 PROVE  /\ m \in t[pr[r].family] => PageAt(h, r, m) # NULL
                        /\ \A y \in Slot : PageAt(h, r, m) = <<y>> =>
                             IF m \in t[pr[r].family] THEN k.cell[y] = pr[r].family ELSE k.cell[y] \in {0, JUNK}
    BY <1>6 DEF CellsOK
  <2>2. pr[r].family \in Family /\ (pr[r].family = f <=> h.tables[r] = h.tables[s])
    BY RecsKept DEF MemOK, RecordsOK
  <2>3. CASE h.tables[r] = h.tables[s] /\ m = n
    <3>1. PageAt(h, r, m) = <<x>> /\ <<x>> # NULL /\ \A y \in Slot : <<x>> = <<y>> => y = x
      BY <2>3, Pointers DEF PageAt, Low
    <3> QED BY SMTT(30), <1>3, <1>4, <2>2, <2>3, <3>1
  <2>4. CASE ~(h.tables[r] = h.tables[s] /\ m = n)
    <3>1. m \in t[pr[r].family] <=> m \in st[pr[r].family]
      BY <1>4, <2>2, <2>4
    <3>2. PageAt(h, r, m) # <<x>>
      BY <2>4, Pointers DEF MemOK, PagesOK
    <3> QED BY <1>3, <3>1, <3>2 DEF MemOK, CellsOK
  <2> QED BY <2>3, <2>4
<1> QED BY <1>2, <1>4, <1>5, <1>7, <1>8 DEF MemOK

-----------------------------------------------------------------------------
(***************************************************************************)
(* The invariant, from operation to operation.                             *)
(***************************************************************************)
LEMMA ResultIs == \A h, p : Result(h, p).heap = h /\ Result(h, p).at = p
BY DEF Result

\* Writing a pointer or PageTables does not touch ok.
LEMMA StillOk ==
  ASSUME NEW h, HeapOK(h)
  PROVE  /\ \A e \in Used(h), n \in PageNo, v \in Pointer : HeapOK(SetPtr(h, e, n, v)) /\ SetPtr(h, e, n, v).ok = h.ok
         /\ \A s \in Slot, e \in Entry : HeapOK(SetTables(h, s, e)) /\ SetTables(h, s, e).ok = h.ok
<1>1. ASSUME NEW e \in Used(h), NEW n \in PageNo, NEW v \in Pointer
      PROVE  HeapOK(SetPtr(h, e, n, v)) /\ SetPtr(h, e, n, v).ok = h.ok
  <2>1. PICK k : k = SetPtr(h, e, n, v)
    OBVIOUS
  <2>2. /\ HeapOK(k) /\ Data(k) = Data(h) /\ Used(k) = Used(h)
        /\ k.tables = h.tables /\ k.type = h.type /\ k.cell = h.cell /\ k.ok = h.ok /\ k.free = h.free
        /\ k.ptr = [h.ptr EXCEPT ![e][n] = v]
    BY <2>1, Pointed
  <2> QED BY <2>1, <2>2
<1>2. ASSUME NEW s \in Slot, NEW e \in Entry PROVE HeapOK(SetTables(h, s, e)) /\ SetTables(h, s, e).ok = h.ok
  <2>1. PICK k : k = SetTables(h, s, e)
    OBVIOUS
  <2>2. /\ HeapOK(k) /\ Data(k) = Data(h) /\ Used(k) = Used(h)
        /\ k.ptr = h.ptr /\ k.type = h.type /\ k.cell = h.cell /\ k.ok = h.ok /\ k.free = h.free
        /\ k.tables = [h.tables EXCEPT ![s] = e]
    BY <2>1, Tabled
  <2> QED BY <2>1, <2>2
<1> QED BY <1>1, <1>2

LEMMA ZeroPage == 0 \in PageNo
BY MemoryAssumption DEF PageNo

\* From h to k table e was handed out, with a page table or without.
HighGiven(h, k, e) ==
  \E g : /\ TableGiven(h, g, e, "HIGH_PAGE_TABLE")
         /\ \/ k = SetPtr(g, e, 0, NULL)
            \/ \E m : \E d \in Entry : TableGiven(g, m, d, "PAGE_TABLE") /\ k = SetPtr(m, e, 0, d)

LEMMA HighAllocated ==
  ASSUME NEW h, HeapOK(h)
  PROVE  \/ HighPageTableAlloc(h) = Result(h, NULL)
         \/ \E e \in Entry : \E k : HighPageTableAlloc(h) = Result(k, e) /\ HighGiven(h, k, e)
<1>1. CASE TableAlloc(h, "HIGH_PAGE_TABLE") = Result(h, NULL)
  BY <1>1, ResultIs DEF HighPageTableAlloc
<1>2. ASSUME NEW e \in Entry, NEW g \in Heap, TableAlloc(h, "HIGH_PAGE_TABLE") = Result(g, e),
             TableGiven(h, g, e, "HIGH_PAGE_TABLE")
      PROVE  \E d \in Entry : \E k : HighPageTableAlloc(h) = Result(k, d) /\ HighGiven(h, k, d)
  <2>1. HighPageTableAlloc(h) = Result(Linked(e, PageTableAlloc(g)).heap, e)
    BY <1>2, ResultIs, Pointers DEF HighPageTableAlloc
  <2>2. HeapOK(g) /\ "PAGE_TABLE" \in Kind
    BY <1>2 DEF TableGiven, Kind
  <2>3. \A j, v : Linked(e, Result(j, v)).heap = SetPtr(j, e, 0, v)
    BY DEF Linked, Result, SetPtr
  <2>4. CASE TableAlloc(g, "PAGE_TABLE") = Result(g, NULL)
    <3>1. HighPageTableAlloc(h) = Result(SetPtr(g, e, 0, NULL), e)
      BY <2>1, <2>3, <2>4 DEF PageTableAlloc
    <3> QED BY <1>2, <3>1 DEF HighGiven
  <2>5. ASSUME NEW d \in Entry, NEW m \in Heap, TableAlloc(g, "PAGE_TABLE") = Result(m, d),
               TableGiven(g, m, d, "PAGE_TABLE")
        PROVE  \E c \in Entry : \E k : HighPageTableAlloc(h) = Result(k, c) /\ HighGiven(h, k, c)
    <3>1. HighPageTableAlloc(h) = Result(SetPtr(m, e, 0, d), e)
      BY <2>1, <2>3, <2>5 DEF PageTableAlloc
    <3>2. HighGiven(h, SetPtr(m, e, 0, d), e)
      BY <1>2, <2>5 DEF HighGiven
    <3> QED BY <3>1, <3>2
  <2> QED BY <2>2, <2>4, <2>5, TableAllocated
<1>3. "HIGH_PAGE_TABLE" \in Kind
  BY DEF Kind
<1> QED BY <1>1, <1>2, <1>3, TableAllocated

LEMMA HighOk ==
  ASSUME NEW h, HeapOK(h), NEW e \in Entry, NEW k, HighGiven(h, k, e)
  PROVE  HeapOK(k) /\ (k.ok => h.ok)
<1>1. PICK g : /\ TableGiven(h, g, e, "HIGH_PAGE_TABLE")
               /\ \/ k = SetPtr(g, e, 0, NULL)
                  \/ \E m : \E d \in Entry : TableGiven(g, m, d, "PAGE_TABLE") /\ k = SetPtr(m, e, 0, d)
  BY DEF HighGiven
<1>2. HeapOK(g) /\ e \in Used(g) /\ (g.ok => h.ok) /\ 0 \in PageNo /\ NULL \in Pointer
  BY <1>1, ZeroPage, Pointers DEF TableGiven, Kept
<1>3. CASE k = SetPtr(g, e, 0, NULL)
  BY <1>2, <1>3, StillOk
<1>4. ASSUME NEW m, NEW d \in Entry, TableGiven(g, m, d, "PAGE_TABLE"), k = SetPtr(m, e, 0, d)
      PROVE  HeapOK(k) /\ (k.ok => h.ok)
  <2>1. HeapOK(m) /\ e \in Used(m) /\ d \in Pointer /\ (m.ok => g.ok)
    BY <1>2, <1>4, Pointers DEF TableGiven, Kept
  <2> QED BY <1>2, <1>4, <2>1, StillOk
<1> QED BY <1>1, <1>3, <1>4

\* A page table that is nobody's, or none.
NewLow(k, low, lo) == \/ low = NULL
                      \/ low \in Entry \ lo /\ k.type[low] = "PAGE_TABLE" /\ k.ptr[low] = NoPointers

LEMMA HighLost ==
  ASSUME NEW h, NEW pr, NEW st, NEW lo, MemOK(h, pr, st, lo), NEW e \in Entry, NEW k, HighGiven(h, k, e), k.ok
  PROVE  /\ MemOK(k, pr, st, lo \cup ({e, k.ptr[e][0]} \ {NULL}))
         /\ e \notin lo /\ k.type[e] = "HIGH_PAGE_TABLE" /\ k.tables = h.tables /\ NewLow(k, k.ptr[e][0], lo)
<1>1. PICK g : /\ TableGiven(h, g, e, "HIGH_PAGE_TABLE")
               /\ \/ k = SetPtr(g, e, 0, NULL)
                  \/ \E m : \E d \in Entry : TableGiven(g, m, d, "PAGE_TABLE") /\ k = SetPtr(m, e, 0, d)
  BY DEF HighGiven
<1>2. HeapOK(g) /\ e \in Used(g) /\ e \notin lo /\ g.tables = h.tables /\ 0 \in PageNo /\ e # NULL
      /\ NULL \in Pointer /\ "PAGE_TABLE" \in Kind /\ "HIGH_PAGE_TABLE" \in Kind
  BY <1>1, ZeroPage, Pointers DEF TableGiven, MemOK, LostOK, Kind
<1>3. ASSUME g.ok
      PROVE  MemOK(g, pr, st, lo \cup {e}) /\ g.ptr[e] = NoPointers /\ g.type[e] = "HIGH_PAGE_TABLE"
  BY <1>1, <1>2, <1>3, TableLost
<1>4. CASE k = SetPtr(g, e, 0, NULL)
  <2>1. g.ok
    BY <1>2, <1>4, StillOk
  <2>2. /\ MemOK(k, pr, st, lo \cup {e})
        /\ k.tables = g.tables /\ k.type = g.type /\ k.ptr = [g.ptr EXCEPT ![e][0] = NULL]
    BY <1>2, <1>3, <1>4, <2>1, LostPointed
  <2>3. k.ptr[e][0] = NULL
    BY <1>2, <2>2, HeapTypes DEF HeapOK
  <2>4. lo \cup ({e, NULL} \ {NULL}) = lo \cup {e}
    BY <1>2
  <2> QED BY <1>2, <1>3, <2>1, <2>2, <2>3, <2>4 DEF NewLow
<1>5. ASSUME NEW m, NEW d \in Entry, TableGiven(g, m, d, "PAGE_TABLE"), k = SetPtr(m, e, 0, d)
      PROVE  /\ MemOK(k, pr, st, lo \cup ({e, k.ptr[e][0]} \ {NULL}))
             /\ k.type[e] = "HIGH_PAGE_TABLE" /\ k.tables = h.tables /\ NewLow(k, k.ptr[e][0], lo)
  <2>1. HeapOK(m) /\ e \in Used(m) /\ d \in Pointer /\ d # NULL /\ e # d /\ m.ptr = g.ptr /\ m.tables = g.tables
        /\ m.type = [g.type EXCEPT ![d] = "PAGE_TABLE"] /\ (m.ok => g.ok)
    BY <1>2, <1>5, Pointers DEF TableGiven, Kept
  <2>2. m.ok /\ g.ok
    BY <1>2, <1>5, <2>1, StillOk
  <2>3. MemOK(m, pr, st, (lo \cup {e}) \cup {d}) /\ m.ptr[d] = NoPointers /\ m.type[d] = "PAGE_TABLE"
    BY SMTT(30), <1>2, <1>3, <1>5, <2>2, TableLost
  <2>4. m.type[e] = "HIGH_PAGE_TABLE"
    BY <1>2, <1>3, <2>1, <2>2, HeapTypes DEF HeapOK
  <2>5. d \notin lo
    <3>1. LostOK(g, lo \cup {e})
      BY <1>3, <2>2 DEF MemOK
    <3> QED BY <1>5, <3>1 DEF TableGiven, LostOK
  <2>6. /\ MemOK(k, pr, st, (lo \cup {e}) \cup {d})
        /\ k.tables = m.tables /\ k.type = m.type /\ k.ptr = [m.ptr EXCEPT ![e][0] = d]
    BY SMTT(30), <1>2, <1>5, <2>1, <2>3, LostPointed
  <2>7. k.ptr[e][0] = d /\ k.ptr[d] = m.ptr[d]
    BY <1>2, <2>1, <2>6, HeapTypes DEF HeapOK
  <2>8. lo \cup ({e, d} \ {NULL}) = (lo \cup {e}) \cup {d}
    BY <1>2, <2>1
  <2> QED BY <1>2, <2>1, <2>3, <2>4, <2>5, <2>6, <2>7, <2>8 DEF NewLow
<1> QED BY <1>1, <1>2, <1>4, <1>5

\* From h to k the record in slot c was made, with tables that are not used.
Fresh(h, k, c, pr, st, lo) ==
  /\ MemOK(k, pr, st, lo \cup ({<<c>>, k.tables[c], Low(k, c)} \ {NULL}))
  /\ <<c>> \notin lo /\ k.tables[c] \in Entry \ lo /\ k.type[k.tables[c]] = "HIGH_PAGE_TABLE"
  /\ NewLow(k, Low(k, c), lo)
  /\ \A r \in Slot \ {c} : k.tables[r] = h.tables[r]

LEMMA ProcessAllocated ==
  ASSUME NEW h, NEW pr, NEW st, NEW lo, MemOK(h, pr, st, lo), NEW p, p = ProcessAlloc(h)
  PROVE  \/ /\ p.at = NULL /\ HeapOK(p.heap)
            /\ p.heap.ok => MemOK(p.heap, pr, st, lo \cup {<<r>> : r \in {q \in Slot : h.free[q] /\ ~p.heap.free[q]}})
         \/ \E c \in Slot \ Recs(pr) : p.at = <<c>> /\ HeapOK(p.heap) /\ (p.heap.ok => Fresh(h, p.heap, c, pr, st, lo))
<1>1. HeapOK(h)
  BY DEF MemOK
<1>2. CASE PageAlloc(h) = Result(h, NULL)
  <2>1. p.at = NULL /\ p.heap = h
    BY <1>2, ResultIs DEF ProcessAlloc
  <2>2. {<<r>> : r \in {q \in Slot : h.free[q] /\ ~h.free[q]}} = {}
    OBVIOUS
  <2> QED BY <1>1, <2>1, <2>2
<1>3. ASSUME NEW c \in Slot, NEW g \in Heap, PageAlloc(h) = Result(g, <<c>>), PageGiven(h, g, c)
      PROVE  \/ /\ p.at = NULL /\ HeapOK(p.heap)
                /\ p.heap.ok => MemOK(p.heap, pr, st, lo \cup {<<r>> : r \in {q \in Slot : h.free[q] /\ ~p.heap.free[q]}})
             \/ \E x \in Slot \ Recs(pr) : p.at = <<x>> /\ HeapOK(p.heap) /\ (p.heap.ok => Fresh(h, p.heap, x, pr, st, lo))
  <2>1. HeapOK(g) /\ c \notin Data(h) /\ g.tables = h.tables /\ (g.ok => MemOK(g, pr, st, lo \cup {<<c>>}))
    BY <1>3, SlotLost DEF PageGiven
  <2>2. <<c>> \notin lo /\ c \notin Recs(pr)
    BY <2>1, RecsKept DEF MemOK, LostOK, KeptSlots
  <2>3. p = LET high == HighPageTableAlloc(g)
            IN  IF high.at = NULL THEN high ELSE Result([high.heap EXCEPT !.tables[c] = high.at], <<c>>)
    BY <1>3, ResultIs, Pointers DEF ProcessAlloc
  <2>4. CASE HighPageTableAlloc(g) = Result(g, NULL)
    <3>1. p.at = NULL /\ p.heap = g
      BY <2>3, <2>4, ResultIs
    <3>2. {q \in Slot : h.free[q] /\ ~g.free[q]} = {c}
      BY <1>1, <1>3, HeapTypes DEF PageGiven, HeapOK
    <3>3. {<<r>> : r \in {q \in Slot : h.free[q] /\ ~g.free[q]}} = {<<c>>}
      BY <3>2
    <3> QED BY <2>1, <3>1, <3>3
  <2>5. ASSUME NEW e \in Entry, NEW j, HighPageTableAlloc(g) = Result(j, e), HighGiven(g, j, e)
        PROVE  p.at = <<c>> /\ HeapOK(p.heap) /\ (p.heap.ok => Fresh(h, p.heap, c, pr, st, lo))
    <3> DEFINE k == SetTables(j, c, e)
    <3>1. p.at = <<c>> /\ p.heap = k
      BY <2>3, <2>5, ResultIs, Pointers DEF SetTables
    <3>2. HeapOK(j) /\ (j.ok => g.ok)
      BY <2>1, <2>5, HighOk
    <3>3. ASSUME k.ok PROVE Fresh(h, k, c, pr, st, lo)
      <4>1. j.ok
        BY <3>2, <3>3, StillOk
      <4>2. g.ok
        BY <3>2, <4>1
      <4>3. MemOK(g, pr, st, lo \cup {<<c>>})
        BY <2>1, <4>2
      <4> DEFINE low == j.ptr[e][0]
                 l == (lo \cup {<<c>>}) \cup ({e, low} \ {NULL})
      <4>4. /\ MemOK(j, pr, st, l) /\ e \notin lo \cup {<<c>>} /\ j.type[e] = "HIGH_PAGE_TABLE"
            /\ j.tables = g.tables /\ NewLow(j, low, lo \cup {<<c>>})
        BY <2>5, <4>1, <4>3, HighLost
      <4>5. /\ MemOK(k, pr, st, l) /\ k.ptr = j.ptr /\ k.type = j.type /\ k.tables = [j.tables EXCEPT ![c] = e]
            /\ k.tables[c] = e
        BY <2>2, <4>4, LostTabled
      <4>6. Low(k, c) = low
        BY <4>5 DEF Low
      <4>7. l = lo \cup ({<<c>>, e, low} \ {NULL})
        <5>1. <<c>> # NULL
          BY Pointers
        <5> HIDE DEF low
        <5> QED BY <5>1
      <4> HIDE DEF l, k
      <4>8. NewLow(k, low, lo)
        BY <4>4, <4>5 DEF NewLow
      <4>9. \A r \in Slot \ {c} : k.tables[r] = h.tables[r]
        BY <2>1, <4>4, <4>5
      <4> QED BY <2>2, <4>4, <4>5, <4>6, <4>7, <4>8, <4>9 DEF Fresh
    <3>4. HeapOK(k)
      BY <3>2, StillOk
    <3> HIDE DEF k
    <3> QED BY <3>1, <3>3, <3>4
  <2> QED BY <2>1, <2>2, <2>4, <2>5, HighAllocated
<1> QED BY <1>1, <1>2, <1>3, PageAllocated

\* The page was found, or made, or there is none.
Got(r, pr, st, lo, s, n) ==
  r.heap.ok => /\ MemOK(r.heap, pr, st, lo)
               /\ r.at = NULL \/ \E x \in Slot : r.at = <<x>> /\ PageAt(r.heap, s, n) = <<x>>

LEMMA PtrIs ==
  ASSUME NEW h \in Heap, NEW e \in Entry, NEW n \in PageNo
  PROVE  SetPtr(h, e, n, h.ptr[e][n]) = h
<1> DEFINE k == SetPtr(h, e, n, h.ptr[e][n])
<1>1. /\ k.tables = h.tables /\ k.type = h.type /\ k.cell = h.cell /\ k.ok = h.ok /\ k.free = h.free
      /\ k.next = h.next /\ k.ptr = [h.ptr EXCEPT ![e][n] = h.ptr[e][n]]
  BY DEF Heap, SetPtr
<1>2. h.ptr[e][n] \in Pointer
  BY HeapTypes
<1>3. k \in Heap
  BY <1>2 DEF Heap, SetPtr, Pointer
<1>4. [h.ptr EXCEPT ![e][n] = h.ptr[e][n]] = h.ptr
  <2>1. h.ptr \in [Entry -> [PageNo -> Pointer]]
    BY HeapTypes
  <2> DEFINE p == h.ptr
             q == [p EXCEPT ![e][n] = p[e][n]]
  <2>2. \A d \in Entry : q[d] = p[d]
    <3>1. [p[e] EXCEPT ![n] = p[e][n]] = p[e]
      BY <2>1
    <3> QED BY <2>1, <3>1
  <2>3. q \in [Entry -> [PageNo -> Pointer]]
    BY <1>2, <2>1
  <2> HIDE DEF p, q
  <2>4. q = p
    BY <2>1, <2>2, <2>3 DEF p
  <2> QED BY <2>4 DEF p, q
<1> HIDE DEF k
<1>5. k = h
  BY <1>1, <1>3, <1>4, HeapTypes
<1> QED BY <1>5 DEF k

LEMMA EnteredIs ==
  ASSUME NEW g, NEW low, NEW n, NEW x \in Slot
  PROVE  Entered(low, n, Result(g, <<x>>)) = Result(SetPtr(g, low, n, <<x>>), <<x>>)
<1>1. <<x>> # NULL /\ ~IsTable(<<x>>)
  BY Pointers DEF IsTable
<1> QED BY <1>1, ResultIs DEF Entered, SetPtr

LEMMA PageFound ==
  ASSUME NEW g, NEW pr, NEW st, NEW lo, MemOK(g, pr, st, lo), NEW s \in Recs(pr), Low(g, s) # NULL, NEW n \in PageNo
  PROVE  Got(InTable(Result(g, Low(g, s)), n), pr, st, lo, s, n)
<1> DEFINE low == Low(g, s)
           r == InTable(Result(g, low), n)
<1>1. HeapOK(g) /\ g \in Heap /\ low \in Entry /\ low \in Used(g) /\ low # NULL /\ IsTable(low)
  BY Pointers DEF MemOK, HeapOK, LowsOK, KeptTables, Used, IsTable
<1> SUFFICES Got(r, pr, st, lo, s, n)
  OBVIOUS
<1> HIDE DEF low
<1>2. r = Entered(low, n, IF g.ptr[low][n] # NULL THEN Result(g, g.ptr[low][n]) ELSE PageAlloc(g))
  BY <1>1, ResultIs DEF InTable
<1> HIDE DEF r
<1>3. \A h : PageAt(h, s, n) = IF Low(h, s) = NULL THEN NULL ELSE h.ptr[Low(h, s)][n]
  BY DEF PageAt
<1>4. CASE g.ptr[low][n] # NULL
  <2>1. PageAt(g, s, n) = g.ptr[low][n]
    BY <1>1, <1>3 DEF low
  <2>2. PICK x \in Slot : g.ptr[low][n] = <<x>>
    <3>1. \E x \in KeptSlots(g, lo) \ (Recs(pr) \cup {1}) : PageAt(g, s, n) = <<x>>
      BY <1>4, <2>1 DEF MemOK, PagesOK
    <3> QED BY <2>1, <3>1, RecsKept
  <2>3. r = Entered(low, n, Result(g, <<x>>))
    BY <1>2, <1>4, <2>2
  <2>4. r = Result(SetPtr(g, low, n, <<x>>), <<x>>)
    BY <2>3, EnteredIs
  <2>5. SetPtr(g, low, n, <<x>>) = g
    BY <1>1, <2>2, PtrIs
  <2>6. r.heap = g /\ r.at = <<x>>
    BY <2>4, <2>5, ResultIs
  <2> QED BY <2>1, <2>2, <2>6 DEF Got, low
<1>5. CASE g.ptr[low][n] = NULL
  <2>1. r = Entered(low, n, PageAlloc(g))
    BY <1>2, <1>5
  <2>2. CASE PageAlloc(g) = Result(g, NULL)
    <3>1. r.heap = g /\ r.at = NULL
      BY <2>1, <2>2, ResultIs DEF Entered
    <3> QED BY <3>1 DEF Got, low
  <2>3. ASSUME NEW x \in Slot, NEW k \in Heap, PageAlloc(g) = Result(k, <<x>>), PageGiven(g, k, x)
        PROVE  Got(r, pr, st, lo, s, n)
    <3> DEFINE j == SetPtr(k, low, n, <<x>>)
    <3>1. r = Result(j, <<x>>)
      BY <2>1, <2>3, EnteredIs
    <3>2. r.heap = j /\ r.at = <<x>>
      BY <3>1, ResultIs
    <3>3. HeapOK(k) /\ low \in Used(k) /\ <<x>> \in Pointer
      BY <1>1, <2>3, Pointers DEF PageGiven, Used
    <3>4. j.ok = k.ok
      BY <3>3, StillOk
    <3>5. ASSUME k.ok PROVE MemOK(j, pr, st, lo) /\ PageAt(j, s, n) = <<x>>
      <4>1. MemOK(k, pr, st, lo \cup {<<x>>})
        BY <2>3, <3>5, SlotLost
      <4>2. Low(k, s) = low /\ k.ptr[low][n] = NULL /\ k.cell[x] \in {0, JUNK}
        BY <1>5, <2>3 DEF PageGiven, Low, low
      <4>3. j = SetPtr(k, Low(k, s), n, <<x>>) /\ Low(k, s) # NULL /\ k.ptr[Low(k, s)][n] = NULL
        BY <1>1, <4>2
      <4> HIDE DEF j
      <4>4. MemOK(j, pr, st, (lo \cup {<<x>>}) \ {<<x>>}) /\ PageAt(j, s, n) = <<x>>
        BY <4>1, <4>2, <4>3, PageEntered
      <4>5. (lo \cup {<<x>>}) \ {<<x>>} = lo
        BY <2>3 DEF PageGiven, MemOK, LostOK
      <4> QED BY <4>4, <4>5
    <3> HIDE DEF j
    <3> QED BY <3>2, <3>4, <3>5 DEF Got
  <2> QED BY <1>1, <2>2, <2>3, PageAllocated
<1> QED BY <1>4, <1>5

\* A program that has lost its footing does not find it again.
Broken(h) == "ok" \in DOMAIN h /\ h.ok = FALSE

LEMMA WriteBroken ==
  ASSUME NEW h, Broken(h)
  PROVE  /\ \A e, n, v : Broken(SetPtr(h, e, n, v))
         /\ \A x, v : Broken(SetCell(h, x, v))
         /\ \A s, e : Broken(SetTables(h, s, e))
         /\ \A e : Broken(Blank(h, e))
         /\ \A S : Broken(PageDealloc(h, S))
         /\ \A s : Broken(FreeRecord(h, s))
BY DEF Broken, SetPtr, SetCell, SetTables, Blank, PageDealloc, FreeRecord

LEMMA AllocBroken ==
  ASSUME NEW h, Broken(h)
  PROVE  Broken(PageAlloc(h).heap) /\ \A type : Broken(TableAlloc(h, type).heap)
<1>1. Broken(PageAlloc(h).heap)
  BY DEF PageAlloc, Result, Broken
<1>2. \A e, type : Broken(Claim(h, e, type).heap)
  BY DEF Claim, Result, Broken
<1>3. ASSUME NEW page, Broken(page.heap), NEW last, NEW type PROVE Broken(ClaimBehind(last, page, type).heap)
  <2>1. CASE page.at = NULL
    BY <1>3, <2>1 DEF ClaimBehind
  <2>2. CASE page.at # NULL
    BY <1>3, <2>2 DEF ClaimBehind, Claim, Result, Broken
  <2> QED BY <2>1, <2>2
<1>4. \A type : Broken(TableAlloc(h, type).heap)
  BY <1>1, <1>2, <1>3 DEF TableAlloc
<1> QED BY <1>1, <1>4

LEMMA InTableBroken ==
  ASSUME NEW low, Broken(low.heap), NEW n
  PROVE  Broken(InTable(low, n).heap)
<1>1. ASSUME NEW t, NEW page, Broken(page.heap) PROVE Broken(Entered(t, n, page).heap)
  <2>1. Broken([page.heap EXCEPT !.ok = FALSE])
    BY <1>1 DEF Broken
  <2>2. Broken(SetPtr(page.heap, t, n, page.at))
    BY <1>1, WriteBroken
  <2> QED BY <1>1, <2>1, <2>2, ResultIs DEF Entered, SetPtr
<1>2. Broken([low.heap EXCEPT !.ok = FALSE])
  BY DEF Broken
<1>3. Broken(PageAlloc(low.heap).heap)
  BY AllocBroken
<1>4. \A p : Broken(Result(low.heap, p).heap)
  BY ResultIs
<1> QED BY <1>1, <1>2, <1>3, <1>4, ResultIs DEF InTable

LEMMA AccessBroken ==
  ASSUME NEW h, Broken(h), NEW s, NEW n, NEW v
  PROVE  Broken(GetPage(h, s, n).heap) /\ Broken(SetMemory(h, s, n, v).heap)
<1>1. Broken(GetPage(h, s, n).heap)
  <2>1. \A e, low : Linked(e, low).heap = SetPtr(low.heap, e, 0, low.at)
    BY DEF Linked, SetPtr
  <2>2. \A e : Broken(Linked(e, PageTableAlloc(h)).heap)
    <3>1. Broken(PageTableAlloc(h).heap)
      BY AllocBroken DEF PageTableAlloc
    <3>2. \A e, u, w : Broken(SetPtr(PageTableAlloc(h).heap, e, u, w))
      BY <3>1, WriteBroken
    <3> QED BY <2>1, <3>2
  <2> QED BY <2>2, ResultIs, InTableBroken DEF GetPage
<1>2. Broken(SetMemory(h, s, n, v).heap)
  <2>1. \A x, u : Broken(SetCell(GetPage(h, s, n).heap, x, u))
    BY <1>1, WriteBroken
  <2> DEFINE r == GetPage(h, s, n)
  <2>2. SetMemory(h, s, n, v) = IF r.at = NULL THEN r ELSE Result(SetCell(r.heap, r.at[1], v), r.at)
    BY DEF SetMemory, Stored, SetCell
  <2> HIDE DEF r
  <2> QED BY <1>1, <2>1, <2>2, ResultIs DEF r
<1> QED BY <1>1, <1>2

LEMMA DeallocBroken ==
  ASSUME NEW h, Broken(h), NEW s
  PROVE  Broken(ProcessDealloc(h, s))
<1> DEFINE c == HighPageTableDealloc(h, h.tables[s])
<1>1. \A t : Broken(PageTableDealloc(h, t))
  <2>1. \A j : Broken(j) => \A q : Broken([j EXCEPT !.ok = @ /\ q]) /\ Broken([j EXCEPT !.ok = FALSE])
    BY DEF Broken
  <2> QED BY <2>1, WriteBroken DEF PageTableDealloc, Emptied
<1>2. Broken(c)
  <2>1. Broken([h EXCEPT !.ok = FALSE])
    BY DEF Broken
  <2> QED BY <1>1, <2>1, WriteBroken DEF HighPageTableDealloc
<1>3. ProcessDealloc(h, s) = FreeRecord(c, s)
  BY DEF ProcessDealloc, FreeRecord
<1> HIDE DEF c
<1> QED BY <1>2, <1>3, WriteBroken

LEMMA OkOrBroken == ASSUME NEW h \in Heap PROVE h.ok \/ Broken(h)
BY DEF Heap, Broken

LEMMA PageGot ==
  ASSUME NEW h, NEW pr, NEW st, NEW lo, MemOK(h, pr, st, lo), NEW s \in Recs(pr), NEW n \in PageNo
  PROVE  Got(GetPage(h, s, n), pr, st, lo, s, n)
<1> DEFINE high == h.tables[s]
<1>1. HeapOK(h) /\ h \in Heap /\ high \in KeptTables(h, lo) /\ high \in Used(h) /\ high \in Entry /\ 0 \in PageNo
      /\ "PAGE_TABLE" \in Kind /\ Low(h, s) = h.ptr[high][0]
  BY RecsKept, ZeroPage DEF MemOK, KeptTables, Used, Kind, Low
<1>2. CASE Low(h, s) # NULL
  <2>1. GetPage(h, s, n) = InTable(Result(h, Low(h, s)), n)
    BY <1>1, <1>2 DEF GetPage
  <2> QED BY <1>2, <2>1, PageFound
<1>3. CASE Low(h, s) = NULL
  <2>1. GetPage(h, s, n) = InTable(Linked(high, PageTableAlloc(h)), n)
    BY <1>1, <1>3 DEF GetPage
  <2>2. \A j, v : Linked(high, Result(j, v)) = Result(SetPtr(j, high, 0, v), v)
    BY DEF Linked, Result, SetPtr
  <2> HIDE DEF high
  <2>3. CASE TableAlloc(h, "PAGE_TABLE") = Result(h, NULL)
    <3>1. GetPage(h, s, n) = InTable(Result(SetPtr(h, high, 0, NULL), NULL), n)
      BY <2>1, <2>2, <2>3 DEF PageTableAlloc
    <3>2. SetPtr(h, high, 0, NULL) = h
      BY ZenonT(60), <1>1, <1>3, PtrIs
    <3>3. GetPage(h, s, n) = Result(h, NULL)
      BY <3>1, <3>2, ResultIs DEF InTable
    <3> QED BY <3>3, ResultIs DEF Got
  <2>4. ASSUME NEW e \in Entry, NEW k \in Heap, TableAlloc(h, "PAGE_TABLE") = Result(k, e),
               TableGiven(h, k, e, "PAGE_TABLE")
        PROVE  Got(GetPage(h, s, n), pr, st, lo, s, n)
    <3> DEFINE j == SetPtr(k, high, 0, e)
    <3>1. GetPage(h, s, n) = InTable(Result(j, e), n)
      BY <2>1, <2>2, <2>4 DEF PageTableAlloc
    <3>2. HeapOK(k) /\ high \in Used(k) /\ e \in Pointer /\ e # NULL /\ k.tables = h.tables /\ k.ptr = h.ptr
          /\ e \notin Used(h)
      BY <1>1, <2>4, Pointers DEF TableGiven
    <3>3. HeapOK(j) /\ j.ok = k.ok
      BY <1>1, <3>2, StillOk
    <3>4. CASE ~k.ok
      <4>1. Broken(k)
        BY <2>4, <3>4, OkOrBroken
      <4>2. Broken(j)
        BY <4>1, WriteBroken
      <4> HIDE DEF j
      <4>3. Broken(InTable(Result(j, e), n).heap)
        BY <4>2, ResultIs, InTableBroken
      <4>4. ~InTable(Result(j, e), n).heap.ok
        BY <4>3 DEF Broken
      <4> QED BY <3>1, <4>4 DEF Got
    <3>5. CASE k.ok
      <4>1. MemOK(k, pr, st, lo \cup {e}) /\ k.ptr[e] = NoPointers /\ k.type[e] = "PAGE_TABLE"
        BY <1>1, <2>4, <3>5, TableLost
      <4>2. Low(k, s) = NULL /\ j = SetPtr(k, k.tables[s], 0, e)
        BY <1>3, <3>2 DEF Low, high
      <4> HIDE DEF j
      <4>3. MemOK(j, pr, st, (lo \cup {e}) \ {e}) /\ Low(j, s) = e
        BY <1>1, <4>1, <4>2, LowLinked
      <4>4. (lo \cup {e}) \ {e} = lo
        BY <3>2 DEF MemOK, LostOK
      <4>5. MemOK(j, pr, st, lo) /\ Low(j, s) # NULL
        BY <3>2, <4>3, <4>4
      <4>6. Got(InTable(Result(j, Low(j, s)), n), pr, st, lo, s, n)
        BY <4>5, PageFound
      <4> QED BY <3>1, <4>3, <4>6
    <3> QED BY <3>4, <3>5
  <2> QED BY <1>1, <2>3, <2>4, TableAllocated
<1> QED BY <1>2, <1>3

LEMMA MemorySet ==
  ASSUME NEW h, NEW pr, NEW st, NEW lo, MemOK(h, pr, st, lo), NEW s \in Recs(pr), NEW n \in PageNo,
         NEW f, f = pr[s].family, NEW page, page = SetMemory(h, s, n, f), page.heap.ok
  PROVE  MemOK(page.heap, pr, IF page.at = NULL THEN st ELSE [st EXCEPT ![f] = @ \cup {n}], lo)
<1> DEFINE r == GetPage(h, s, n)
<1>1. Got(r, pr, st, lo, s, n)
  BY PageGot
<1>2. page = IF r.at = NULL THEN r ELSE Result(SetCell(r.heap, r.at[1], f), r.at)
  BY DEF SetMemory, Stored, SetCell
<1> HIDE DEF r
<1>3. CASE r.at = NULL
  <2>1. page = r
    BY <1>2, <1>3
  <2> QED BY <1>1, <1>3, <2>1 DEF Got
<1>4. CASE r.at # NULL
  <2>1. page.heap = SetCell(r.heap, r.at[1], f) /\ page.at # NULL
    BY <1>2, <1>4, ResultIs
  <2>2. r.heap.ok
    <3>1. SetCell(r.heap, r.at[1], f).ok = r.heap.ok
      BY DEF SetCell
    <3> QED BY <2>1, <3>1
  <2>3. PICK x \in Slot : r.at = <<x>> /\ PageAt(r.heap, s, n) = <<x>>
    BY <1>1, <1>4, <2>2 DEF Got
  <2>4. MemOK(r.heap, pr, st, lo) /\ page.heap = SetCell(r.heap, x, f)
    BY <1>1, <2>1, <2>2, <2>3 DEF Got
  <2>5. MemOK(page.heap, pr, [st EXCEPT ![f] = @ \cup {n}], lo)
    BY <2>3, <2>4, ByteStored
  <2> QED BY <2>1, <2>5
<1> QED BY <1>3, <1>4

\* The slots of the pages that PageTableDealloc frees.
FreedWith(h, s) == IF Low(h, s) = NULL THEN {} ELSE {h.ptr[Low(h, s)][n][1] : n \in Leading(h, Low(h, s))}

LEMMA ProcessDeallocated ==
  ASSUME NEW h, NEW pr, NEW st, NEW lo, MemOK(h, pr, st, lo), NEW s \in Slot, <<s>> \in lo,
         h.tables[s] \in lo \cap Entry, Low(h, s) # NULL => Low(h, s) \in (lo \cap Entry) \ {h.tables[s]},
         FreedWith(h, s) \subseteq Slot \ {s}, \A x \in FreedWith(h, s) : <<x>> \in lo,
         Low(h, s) # NULL => \A n \in Leading(h, Low(h, s)) : \E x \in Slot : h.ptr[Low(h, s)][n] = <<x>>
  PROVE  /\ MemOK(ProcessDealloc(h, s), pr, st,
                  lo \ ({<<s>>, h.tables[s], Low(h, s)} \cup {<<x>> : x \in FreedWith(h, s)}))
         /\ ProcessDealloc(h, s).ok = h.ok
<1> DEFINE e == h.tables[s]
           low == Low(h, s)
           S == FreedWith(h, s)
           b == IF low = NULL THEN h ELSE IF IsTable(low) THEN PageTableDealloc(h, low)
                ELSE [h EXCEPT !.ok = FALSE]
           c == Blank(b, e)
           l == (lo \ {<<x>> : x \in S}) \ {low}
<1>1. e \in Entry /\ e \in lo /\ (low = NULL \/ low \in (lo \cap Entry) \ {e}) /\ <<s>> \in lo
      /\ S \subseteq Slot \ {s} /\ \A x \in S : <<x>> \in lo
  OBVIOUS
<1>2. ProcessDealloc(h, s) = FreeRecord(c, s)
  BY DEF ProcessDealloc, HighPageTableDealloc, Low, FreeRecord
<1>3. MemOK(b, pr, st, l) /\ b.ok = h.ok
  <2>1. CASE low = NULL
    <3>1. S = {}
      BY <2>1 DEF FreedWith
    <3>2. NULL \notin lo
      BY Pointers DEF MemOK, LostOK
    <3>3. l = lo
      BY <2>1, <3>1, <3>2
    <3>4. b = h
      BY <2>1
    <3> HIDE DEF l, b
    <3> QED BY <3>3, <3>4
  <2>2. CASE low # NULL
    <3> DEFINE a == PageDealloc(h, S)
    <3>1. MemOK(a, pr, st, lo \ {<<x>> : x \in S}) /\ a.ok = h.ok
      BY <1>1, PagesFreed
    <3>2. b = Blank(a, low)
      <4> DEFINE P == {h.ptr[low][n] : n \in Leading(h, low)}
      <4>1. b = Emptied(h, low, P)
        <5>1. IsTable(low)
          BY <1>1, <2>2, Pointers DEF IsTable
        <5> QED BY <2>2, <5>1 DEF PageTableDealloc
      <4>2. {q[1] : q \in P} = S
        BY <2>2 DEF FreedWith
      <4>3. \A q \in P : ~IsTable(q)
        BY <2>2, Pointers DEF IsTable
      <4> HIDE DEF P, S, b, a
      <4>4. b = Blank([PageDealloc(h, S) EXCEPT !.ok = @ /\ TRUE], low)
        BY <4>1, <4>2, <4>3 DEF Emptied
      <4>5. a \in Heap /\ a = PageDealloc(h, S)
        BY <3>1 DEF MemOK, HeapOK, a
      <4>6. [a EXCEPT !.ok = @ /\ TRUE] = a
        BY <4>5 DEF Heap
      <4> QED BY <4>4, <4>5, <4>6
    <3>3. low \in Entry /\ low \in lo \ {<<x>> : x \in S}
      BY <1>1, <2>2, Pointers
    <3> HIDE DEF a, b, S, low
    <3> QED BY <3>1, <3>2, <3>3, LostBlanked DEF l
  <2> QED BY <2>1, <2>2
<1>4. e \in l /\ <<s>> \in l \ {e}
  <2>1. <<s>> # e /\ <<s>> # low /\ \A x \in S : <<x>> # e /\ <<x>> # <<s>>
    BY <1>1, Pointers
  <2>2. e # low
    BY <1>1, Pointers
  <2> HIDE DEF e, low, S
  <2> QED BY <1>1, <2>1, <2>2
<1> HIDE DEF b, l, e
<1>5. MemOK(c, pr, st, l \ {e}) /\ c.ok = h.ok
  BY <1>1, <1>3, <1>4, LostBlanked
<1> HIDE DEF c
<1>6. MemOK(FreeRecord(c, s), pr, st, (l \ {e}) \ {<<s>>}) /\ FreeRecord(c, s).ok = c.ok
  BY <1>4, <1>5, RecordFreed
<1>7. (l \ {e}) \ {<<s>>} = lo \ ({<<s>>, e, low} \cup {<<x>> : x \in S})
  <2> HIDE DEF S, low
  <2> QED BY DEF l
<1> QED BY <1>2, <1>3, <1>5, <1>6, <1>7 DEF e
-----------------------------------------------------------------------------
(***************************************************************************)
(* The invariant.                                                          *)
(***************************************************************************)
\* Memory and families.
AllIs == MemOK(heap, proc, stored, lost) /\ FamiliesOK

LEMMA AccessStep ==
  ASSUME AllIs, NEW s \in Slot, NEW n \in PageNo, Access(s, n), heap'.ok
  PROVE  AllIs'
<1>1. /\ s \in Recs(proc) /\ UNCHANGED <<proc, created, forks, lost, orphaned>>
      /\ MemOK(heap, proc, stored, lost) /\ proc[s].family \in Family
  BY RecsKept DEF Access, AllIs, Recs
<1>2. CASE heap' = GetPage(heap, s, n).heap /\ UNCHANGED stored
  <2>1. MemOK(heap', proc, stored, lost)
    BY <1>1, <1>2, PageGot DEF Got
  <2> QED BY <1>1, <1>2, <2>1 DEF AllIs, FamiliesOK
<1>3. CASE \E page \in {SetMemory(heap, s, n, proc[s].family)} :
             /\ heap' = page.heap
             /\ stored' = IF page.at = NULL THEN stored ELSE [stored EXCEPT ![proc[s].family] = @ \cup {n}]
  <2>1. PICK f, page : /\ f = proc[s].family /\ page = SetMemory(heap, s, n, f) /\ heap' = page.heap
                       /\ stored' = IF page.at = NULL THEN stored ELSE [stored EXCEPT ![f] = @ \cup {n}]
    BY <1>3
  <2>2. MemOK(page.heap, proc, IF page.at = NULL THEN stored ELSE [stored EXCEPT ![f] = @ \cup {n}], lost)
    BY <1>1, <2>1, MemorySet
  <2>3. MemOK(heap', proc, stored', lost)
    BY <2>1, <2>2
  <2>4. \A g \in Family : g > created => stored'[g] = {}
    <3>1. f <= created /\ f \in Nat /\ created \in Nat
      BY <1>1, <2>1 DEF AllIs, FamiliesOK, Family
    <3>2. stored \in [Family -> SUBSET PageNo]
      BY <1>1 DEF MemOK, TypesOK
    <3>3. \A g \in Family : g # f => stored'[g] = stored[g]
      BY <2>1, <3>2
    <3> QED BY <3>1, <3>3 DEF AllIs, FamiliesOK, Family
  <2> QED BY <1>1, <2>3, <2>4 DEF AllIs, FamiliesOK
<1> QED BY <1>2, <1>3 DEF Access

LEMMA DestroyStep ==
  ASSUME AllIs, NEW s \in Slot, DestroyProcess(s), orphaned' = {}
  PROVE  AllIs'
<1> DEFINE high == heap.tables[s]
           low == Low(heap, s)
           lead == Leading(heap, low)
           kept == IF low \notin Entry THEN {}
                   ELSE {heap.ptr[low][n] : n \in {m \in PageNo \ lead : heap.ptr[low][m] # NULL}}
           S == FreedWith(heap, s)
           l == lost \cup Estate(heap, s)
<1>1. /\ MemOK(heap, proc, stored, lost) /\ s \in Recs(proc) /\ heap' = ProcessDealloc(heap, s)
      /\ proc' = Leave(proc, s) /\ lost' = lost \cup kept
      /\ UNCHANGED <<created, forks, stored>>
  BY SMTT(30) DEF DestroyProcess, AllIs, Recs, Leave, Low
<1>2. \A r \in Recs(proc) \ {s} : proc[r].family # proc[s].family
  BY DEF DestroyProcess, Recs
<1>3. MemOK(heap, proc', stored, l)
  BY <1>1, <1>2, Disowned
<1>4. /\ high \in Entry /\ high \notin lost /\ <<s>> \notin lost
      /\ low # NULL => low \in Entry /\ low \notin lost /\ low # high
  <2>1. high \in KeptTables(heap, lost) /\ s \in KeptSlots(heap, lost) /\ low # high
    BY <1>1, RecsKept
  <2>2. low # NULL => low \in KeptTables(heap, lost)
    BY <1>1 DEF MemOK, LowsOK
  <2> QED BY <2>1, <2>2 DEF KeptTables, KeptSlots, Used
<1>5. \A n \in PageNo : PageAt(heap, s, n) # NULL =>
        \E x \in Slot \ {s} : PageAt(heap, s, n) = <<x>> /\ <<x>> \notin lost
  <2>1. \A n \in PageNo : PageAt(heap, s, n) # NULL =>
          \E x \in KeptSlots(heap, lost) \ (Recs(proc) \cup {1}) : PageAt(heap, s, n) = <<x>>
    BY <1>1 DEF MemOK, PagesOK
  <2>2. \A x \in KeptSlots(heap, lost) \ (Recs(proc) \cup {1}) : x \in Slot \ {s} /\ <<x>> \notin lost
    <3>1. KeptSlots(heap, lost) \subseteq Slot
      BY <1>1, RecsKept
    <3> QED BY <1>1, <3>1 DEF KeptSlots
  <2> QED BY <2>1, <2>2
<1>6. \A n, m \in PageNo : PageAt(heap, s, n) # NULL /\ PageAt(heap, s, n) = PageAt(heap, s, m) => n = m
  BY <1>1 DEF MemOK, PagesOK
<1>7. \A n \in PageNo : PageAt(heap, s, n) = IF low = NULL THEN NULL ELSE heap.ptr[low][n]
  BY DEF PageAt
<1>8. lead \subseteq PageNo /\ \A n \in lead : heap.ptr[low][n] # NULL
  <2>1. \A n \in PageNo : n \in 0..n
    BY MemoryAssumption DEF PageNo
  <2> QED BY <2>1 DEF Leading
<1> HIDE DEF lead
<1>9. \A n \in lead : low # NULL =>
         \E x \in Slot \ {s} : heap.ptr[low][n] = <<x>> /\ PageAt(heap, s, n) = <<x>> /\ <<x>>[1] = x
  <2>1. ASSUME NEW n \in lead, low # NULL PROVE heap.ptr[low][n] # NULL /\ PageAt(heap, s, n) = heap.ptr[low][n] /\ n \in PageNo
    BY <1>7, <1>8, <2>1
  <2> HIDE DEF low
  <2> QED BY <1>5, <2>1
<1>10. {<<x>> : x \in S} = IF low = NULL THEN {} ELSE {PageAt(heap, s, n) : n \in lead}
  <2>1. CASE low = NULL
    BY <2>1 DEF FreedWith
  <2>2. CASE low # NULL
    <3>1. S = {heap.ptr[low][n][1] : n \in lead}
      BY <2>2 DEF FreedWith, lead
    <3>2. \A n \in lead : heap.ptr[low][n] = PageAt(heap, s, n) /\ <<heap.ptr[low][n][1]>> = PageAt(heap, s, n)
      BY <1>9, <2>2
    <3> HIDE DEF low, S
    <3> QED BY <2>2, <3>1, <3>2
  <2> QED BY <2>1, <2>2
<1>11. S \subseteq Slot \ {s}
  <2>1. CASE low = NULL
    BY <2>1 DEF FreedWith
  <2>2. CASE low # NULL
    <3>1. S = {heap.ptr[low][n][1] : n \in lead}
      BY <2>2 DEF FreedWith, lead
    <3>2. \A n \in lead : heap.ptr[low][n][1] \in Slot \ {s}
      BY <1>9, <2>2
    <3> QED BY <3>1, <3>2
  <2> QED BY <2>1, <2>2
<1>12. /\ <<s>> \in l /\ high \in l \cap Entry /\ (low # NULL => low \in (l \cap Entry) \ {high})
       /\ \A x \in S : <<x>> \in l
  <2>1. <<s>> # NULL /\ high # NULL
    BY <1>4, Pointers
  <2>2. <<s>> \in l /\ high \in l /\ (low # NULL => low \in l)
    BY <2>1 DEF Estate
  <2>3. ASSUME NEW x \in S PROVE <<x>> \in l
    <3>1. <<x>> \in {<<y>> : y \in S}
      OBVIOUS
    <3>2. PICK n \in lead : low # NULL /\ <<x>> = PageAt(heap, s, n)
      BY <1>10, <3>1
    <3>3. <<x>> # NULL
      BY <1>11, Pointers
    <3> QED BY <1>8, <3>2, <3>3 DEF Estate
  <2> QED BY <1>4, <2>2, <2>3
<1> DEFINE freed == {<<s>>, high, low} \cup {<<x>> : x \in S}
<1>13. MemOK(heap', proc', stored, l \ freed)
  <2>1. PICK q : q = proc'
    OBVIOUS
  <2>2. MemOK(heap, q, stored, l)
    BY <1>3, <2>1
  <2> HIDE DEF l
  <2>3. MemOK(ProcessDealloc(heap, s), q, stored, l \ freed)
    <3>1. low # NULL => \A n \in lead : \E x \in Slot : heap.ptr[low][n] = <<x>>
      BY <1>9
    <3> QED BY <1>11, <1>12, <2>2, <3>1, ProcessDeallocated DEF lead
  <2> QED BY <1>1, <2>1, <2>3
<1>14. l \ freed = lost \cup kept
  <2> DEFINE pages == {PageAt(heap, s, n) : n \in PageNo} \ {NULL}
  <2>1. ASSUME NEW p \in pages PROVE p \notin lost /\ p # <<s>> /\ p # high /\ p # low
    <3>1. PICK x \in Slot \ {s} : p = <<x>> /\ <<x>> \notin lost
      BY <1>5
    <3>2. <<x>> # <<s>> /\ <<x>> # NULL /\ <<x>> \notin Entry
      BY Pointers
    <3> HIDE DEF high, low
    <3> QED BY <1>4, <3>1, <3>2
  <2>2. \A p \in {<<x>> : x \in S} : p \in pages
    BY <1>7, <1>8, <1>10
  <2>3. kept = pages \ {<<x>> : x \in S}
    <3>1. CASE low = NULL
      <4>1. low \notin Entry
        BY <3>1, Pointers
      <4> QED BY <1>7, <3>1, <4>1
    <3>2. CASE low # NULL
      <4>1. {<<x>> : x \in S} = {PageAt(heap, s, n) : n \in lead}
        BY <1>10, <3>2
      <4>2. kept = {PageAt(heap, s, n) : n \in {m \in PageNo \ lead : PageAt(heap, s, m) # NULL}}
        BY <1>4, <1>7, <3>2
      <4> HIDE DEF kept, S, low
      <4> QED BY <1>6, <1>8, <4>1, <4>2
    <3> QED BY <3>1, <3>2
  <2>4. l = lost \cup ({<<s>>, high, low} \ {NULL}) \cup pages
    BY DEF Estate
  <2>5. NULL \notin lost /\ NULL \notin kept
    BY <1>1, <2>3, Pointers DEF MemOK, LostOK
  <2>6. low # NULL => low \notin lost
    BY <1>4
  <2> HIDE DEF l, pages, kept, high, low, S
  <2> QED BY <1>4, <2>1, <2>2, <2>3, <2>4, <2>5, <2>6 DEF freed
<1>15. FamiliesOK'
  <2>1. \A r \in Slot : proc'[r].family \in {proc[r].family, 0}
    <3>1. proc \in [Slot -> [family : {0} \cup Family, child : BOOLEAN]]
      BY <1>1 DEF MemOK, TypesOK
    <3> QED BY <1>1, <3>1 DEF Leave, Nobody
  <2>2. created \in Nat
    BY MemoryAssumption DEF AllIs, FamiliesOK
  <2> QED BY <1>1, <2>1, <2>2 DEF AllIs, FamiliesOK
<1> HIDE DEF kept, l, freed, high, low, lead, S
<1>16. lost' = l \ freed /\ stored' = stored
  BY <1>1, <1>14
<1> QED BY SMTT(30), <1>13, <1>15, <1>16 DEF AllIs

LEMMA ForkStep ==
  ASSUME AllIs, NEW s \in Slot, Fork(s), heap'.ok
  PROVE  AllIs'
<1>1. /\ MemOK(heap, proc, stored, lost) /\ s \in Recs(proc) /\ UNCHANGED <<created, stored, orphaned>>
      /\ forks < MaxForks /\ forks' = forks + 1
  BY DEF Fork, AllIs, Recs
<1>2. PICK p : /\ p = ProcessAlloc(heap)
               /\ \/ heap' = [p.heap EXCEPT !.ok = FALSE]
                  \/ /\ p.at # NULL
                     /\ heap' = [p.heap EXCEPT !.tables[p.at[1]] = heap.tables[s]]
                     /\ proc' = [proc EXCEPT ![p.at[1]] = [family |-> proc[s].family, child |-> TRUE]]
                     /\ lost' = lost \cup Tables(p.heap, p.at[1])
  BY DEF Fork
<1>3. HeapOK(p.heap) /\ (p.at = NULL \/ \E c \in Slot \ Recs(proc) : p.at = <<c>> /\ (p.heap.ok => Fresh(heap, p.heap, c, proc, stored, lost)))
  BY <1>1, <1>2, ProcessAllocated
<1>4. heap' # [p.heap EXCEPT !.ok = FALSE]
  <2>1. p.heap \in Heap
    BY <1>3 DEF HeapOK
  <2>2. ([p.heap EXCEPT !.ok = FALSE]).ok = FALSE
    BY <2>1 DEF Heap
  <2> QED BY <2>2
<1>5. PICK c \in Slot \ Recs(proc) : p.at = <<c>> /\ (p.heap.ok => Fresh(heap, p.heap, c, proc, stored, lost))
  BY <1>2, <1>3, <1>4
<1>6. PICK k : k = p.heap
  OBVIOUS
<1>7. PICK f \in Family : f = proc[s].family
  BY <1>1, RecsKept
<1>8. /\ heap' = SetTables(k, c, heap.tables[s]) /\ proc' = Become(proc, c, f, TRUE)
      /\ lost' = lost \cup Tables(k, c)
  <2>1. <<c>>[1] = c
    OBVIOUS
  <2> QED BY <1>2, <1>4, <1>5, <1>6, <1>7, <2>1 DEF SetTables, Become
<1>9. heap.tables[s] \in Entry /\ s # c
  BY <1>1, RecsKept
<1>10. k.ok /\ Fresh(heap, k, c, proc, stored, lost)
  BY <1>3, <1>5, <1>6, <1>8, <1>9, StillOk
<1> DEFINE l == lost \cup ({<<c>>, k.tables[c], Low(k, c)} \ {NULL})
<1>11. MemOK(k, proc, stored, l) /\ <<c>> \in l
  BY <1>10, Pointers DEF Fresh
<1>12. l \ {<<c>>} = lost'
  <2>1. lost' = lost \cup {k.tables[c]} \cup ({Low(k, c)} \ {NULL})
    BY <1>8 DEF Tables, Low
  <2>2. <<c>> \notin lost /\ k.tables[c] \in Entry /\ (Low(k, c) = NULL \/ Low(k, c) \in Entry)
    BY <1>10 DEF Fresh, NewLow
  <2>3. <<c>> \notin Entry /\ NULL \notin Entry /\ <<c>> # NULL
    BY Pointers
  <2> QED BY <2>1, <2>2, <2>3
<1> HIDE DEF l
<1>13. PICK j, q : j = heap' /\ q = proc'
  OBVIOUS
<1>14. MemOK(j, proc, stored, l) /\ j.tables = [k.tables EXCEPT ![c] = heap.tables[s]] /\ j.tables[c] = heap.tables[s]
  BY <1>8, <1>9, <1>11, <1>13, LostTabled
<1>15. j.tables[s] = heap.tables[s] /\ j.tables[c] = j.tables[s]
  <2>1. k.tables[s] = heap.tables[s]
    BY <1>9, <1>10 DEF Fresh
  <2> QED BY <1>9, <1>14, <2>1
<1>16. MemOK(j, q, stored, l \ {<<c>>})
  <2>1. q = Become(proc, c, f, TRUE)
    BY <1>8, <1>13
  <2> QED BY <1>1, <1>7, <1>11, <1>14, <1>15, <2>1, Shared
<1>17. MemOK(heap', proc', stored', lost')
  BY <1>1, <1>12, <1>13, <1>16
<1>18. FamiliesOK'
  <2>1. \A r \in Slot : proc'[r].family \in {proc[r].family, f}
    <3>1. proc \in [Slot -> [family : {0} \cup Family, child : BOOLEAN]]
      BY <1>1 DEF MemOK, TypesOK
    <3> QED BY <1>8, <3>1 DEF Become
  <2>2. f <= created
    BY <1>7 DEF AllIs, FamiliesOK
  <2>3. forks' \in 0..MaxForks
    BY <1>1, MemoryAssumption DEF AllIs, FamiliesOK
  <2> QED BY <1>1, <2>1, <2>2, <2>3 DEF AllIs, FamiliesOK
<1> QED BY <1>17, <1>18 DEF AllIs

LEMMA CreateStep ==
  ASSUME AllIs, CreateProcess, heap'.ok
  PROVE  AllIs'
<1>1. /\ MemOK(heap, proc, stored, lost) /\ UNCHANGED <<forks, orphaned>>
      /\ created < MaxFamily /\ created' = created + 1 /\ created \in Nat /\ MaxFamily \in Nat
  BY MemoryAssumption DEF CreateProcess, AllIs, FamiliesOK
<1>2. PICK p, f : /\ p = ProcessAlloc(heap) /\ f = created'
                  /\ NotCreated(p) \/ Unopened(p) \/ Unloaded(p) \/ Loaded(p, f)
  BY DEF CreateProcess
<1>3. f \in Family /\ f > created /\ created' \in 0..MaxFamily
  BY <1>1, <1>2 DEF Family
<1>11. ASSUME NEW r \in Recs(proc) PROVE proc[r].family # f
  BY <1>1, <1>2 DEF AllIs, FamiliesOK, Recs, MemOK, TypesOK, Family
<1>12. stored[f] = {}
  BY <1>3 DEF AllIs, FamiliesOK
<1>13. stored \in [Family -> SUBSET PageNo]
  BY <1>1 DEF MemOK, TypesOK
<1>4. \/ /\ p.at = NULL /\ HeapOK(p.heap)
         /\ p.heap.ok => MemOK(p.heap, proc, stored, lost \cup {<<r>> : r \in {q \in Slot : heap.free[q] /\ ~p.heap.free[q]}})
      \/ \E c \in Slot \ Recs(proc) : p.at = <<c>> /\ HeapOK(p.heap) /\ (p.heap.ok => Fresh(heap, p.heap, c, proc, stored, lost))
  BY <1>1, <1>2, ProcessAllocated
<1>5. \A r \in Slot : proc[r].family <= created'
  <2>1. \A r \in Slot : proc[r].family \in Nat
    BY <1>1 DEF MemOK, TypesOK, Family
  <2> QED BY <1>1, <2>1 DEF AllIs, FamiliesOK
<1>6. \A g \in Family : g > created' => stored[g] = {}
  BY <1>1 DEF AllIs, FamiliesOK, Family
<1>7. ASSUME proc' = proc, stored' = stored PROVE FamiliesOK'
  BY <1>1, <1>3, <1>5, <1>6, <1>7 DEF AllIs, FamiliesOK
<1>8. CASE NotCreated(p)
  <2>1. p.at = NULL /\ heap' = p.heap /\ UNCHANGED <<proc, stored>>
        /\ lost' = lost \cup {<<r>> : r \in {q \in Slot : heap.free[q] /\ ~p.heap.free[q]}}
    BY <1>8 DEF NotCreated
  <2>2. \A c \in Slot : <<c>> # NULL
    BY Pointers
  <2>3. MemOK(p.heap, proc, stored, lost')
    BY <1>4, <2>1, <2>2
  <2> QED BY <1>7, <2>1, <2>3 DEF AllIs
<1>9. ASSUME NEW c \in Slot \ Recs(proc), p.at = <<c>>, HeapOK(p.heap),
             p.heap.ok => Fresh(heap, p.heap, c, proc, stored, lost),
             Unopened(p) \/ Unloaded(p) \/ Loaded(p, f)
      PROVE  AllIs'
  <2>1. PICK k : k = p.heap
    OBVIOUS
  <2>2. p.at[1] = c /\ k \in Heap /\ 0 \in PageNo
    BY <1>9, <2>1, ZeroPage DEF HeapOK
  <2> DEFINE e == k.tables[c]
             low == Low(k, c)
             l == lost \cup ({<<c>>, e, low} \ {NULL})
  <2>3. ASSUME k.ok
        PROVE  /\ MemOK(k, proc, stored, l) /\ <<c>> \notin lost /\ e \in Entry \ lost
               /\ k.type[e] = "HIGH_PAGE_TABLE" /\ NewLow(k, low, lost)
               /\ <<c>> \in l /\ e \in l /\ (low # NULL => low \in l)
    <3>1. Fresh(heap, k, c, proc, stored, lost)
      BY <1>9, <2>1, <2>3
    <3>2. /\ MemOK(k, proc, stored, l) /\ <<c>> \notin lost /\ e \in Entry \ lost
          /\ k.type[e] = "HIGH_PAGE_TABLE" /\ NewLow(k, low, lost)
      BY <3>1 DEF Fresh
    <3>3. <<c>> # NULL /\ e # NULL
      BY <3>2, Pointers
    <3> QED BY <3>2, <3>3
  <2>4. ASSUME k.ok PROVE l \ {<<c>>, e, low} = lost
    <3>1. NULL \notin lost
      BY <1>1, Pointers DEF MemOK, LostOK
    <3> QED BY <2>3, <2>4, <3>1 DEF NewLow
  <2> HIDE DEF l, e, low
  <2>5. CASE Unopened(p)
    <3>1. heap' = ProcessDealloc(k, c) /\ UNCHANGED <<proc, stored, lost>>
      BY <2>1, <2>2, <2>5 DEF Unopened
    <3>2. k.ok
      BY <2>2, <3>1, OkOrBroken, DeallocBroken DEF Broken
    <3>3. FreedWith(k, c) = {}
      <4>1. ASSUME low # NULL PROVE Leading(k, low) = {}
        <5>1. k.ptr[low] = NoPointers
          BY <2>3, <3>2, <4>1 DEF NewLow
        <5>2. \A n \in PageNo : n \in 0..n /\ NoPointers[n] = NULL
          BY MemoryAssumption DEF PageNo, NoPointers
        <5>3. \A n \in PageNo : 0..n \subseteq PageNo
          BY MemoryAssumption DEF PageNo
        <5> QED BY <5>1, <5>2, <5>3 DEF Leading
      <4> QED BY <4>1 DEF FreedWith, low
    <3>10. low # NULL => \A n \in Leading(k, low) : \E x \in Slot : k.ptr[low][n] = <<x>>
      <4>1. ASSUME low # NULL PROVE Leading(k, low) = {}
        <5>1. k.ptr[low] = NoPointers
          BY <2>3, <3>2, <4>1 DEF NewLow
        <5>2. \A n \in PageNo : n \in 0..n /\ NoPointers[n] = NULL
          BY MemoryAssumption DEF PageNo, NoPointers
        <5> QED BY <5>1, <5>2 DEF Leading
      <4> QED BY <4>1
    <3>4. low # NULL => low \in (l \cap Entry) \ {e}
      BY <2>3, <3>2 DEF NewLow
    <3>5. MemOK(k, proc, stored, l) /\ <<c>> \in l /\ e \in l \cap Entry
      BY <2>3, <3>2
    <3>6. FreedWith(k, c) \subseteq Slot \ {c} /\ \A x \in FreedWith(k, c) : <<x>> \in l
      BY <3>3
    <3>7. MemOK(ProcessDealloc(k, c), proc, stored, l \ ({<<c>>, e, low} \cup {<<x>> : x \in FreedWith(k, c)}))
      BY <3>4, <3>5, <3>6, <3>10, ProcessDeallocated DEF e, low
    <3>8. {<<c>>, e, low} \cup {<<x>> : x \in FreedWith(k, c)} = {<<c>>, e, low}
      BY <3>3
    <3>9. MemOK(ProcessDealloc(k, c), proc, stored, lost)
      BY <2>4, <3>2, <3>7, <3>8
    <3> QED BY <1>7, <3>1, <3>9 DEF AllIs
  <2>6. CASE Unloaded(p)
    <3>1. heap' = k /\ UNCHANGED <<proc, stored>> /\ lost' = lost \cup {<<c>>} \cup Tables(k, c)
      BY <1>9, <2>1, <2>2, <2>6 DEF Unloaded
    <3>2. Tables(k, c) = {e} \cup ({low} \ {NULL})
      BY DEF Tables, e, low, Low
    <3>3. e # NULL /\ <<c>> # NULL
      BY <2>3, <3>1, Pointers
    <3>4. lost' = l
      BY <3>1, <3>2, <3>3 DEF l
    <3> QED BY <1>7, <2>3, <3>1, <3>4 DEF AllIs
  <2>7. CASE Loaded(p, f)
    <3>1. PICK page : /\ page = SetMemory(k, c, 0, f) /\ heap' = page.heap
                      /\ stored' = IF page.at = NULL THEN stored ELSE [stored EXCEPT ![f] = {0}]
      BY <2>1, <2>2, <2>7 DEF Loaded
    <3>2. PICK b \in BOOLEAN : proc' = Become(proc, c, f, b) /\ lost' = lost
      BY <2>2, <2>7 DEF Loaded, Become
    <3>3. k.ok
      BY <2>2, <3>1, OkOrBroken, AccessBroken DEF Broken
    <3>4. PICK q : q = proc'
      OBVIOUS
    <3>5. MemOK(k, q, stored, lost)
      <4>1. /\ MemOK(k, proc, stored, l) /\ <<c>> \in l /\ k.tables[c] \in l \cap Entry
            /\ k.type[k.tables[c]] = "HIGH_PAGE_TABLE"
        BY <2>3, <3>3 DEF e
      <4>2. \/ Low(k, c) = NULL
            \/ Low(k, c) \in l \cap Entry /\ k.type[Low(k, c)] = "PAGE_TABLE" /\ k.ptr[Low(k, c)] = NoPointers
        BY <2>3, <3>3 DEF NewLow, low
      <4>3. MemOK(k, q, stored, l \ {<<c>>, k.tables[c], Low(k, c)})
        <5>1. f \in Family /\ stored[f] = {} /\ \A r \in Recs(proc) : proc[r].family # f
          BY <1>3, <1>11, <1>12, Zenon
        <5>2. q = Become(proc, c, f, b)
          BY <3>2, <3>4
        <5> QED BY ONLY c \in Slot, b \in BOOLEAN, <4>1, <4>2, <5>1, <5>2, Adopted
      <4> QED BY <2>4, <3>3, <4>3 DEF e, low
    <3>6. c \in Recs(q) /\ q[c].family = f /\ \A r \in Slot \ {c} : q[r] = proc[r]
      <4>1. proc \in [Slot -> [family : {0} \cup Family, child : BOOLEAN]]
        BY <1>1 DEF MemOK, TypesOK
      <4>2. f \in Family /\ q = Become(proc, c, f, b)
        BY <1>3, <3>2, <3>4
      <4> QED BY ONLY c \in Slot, b \in BOOLEAN, <4>1, <4>2, SomebodyIs
    <3>7. MemOK(page.heap, q, IF page.at = NULL THEN stored ELSE [stored EXCEPT ![f] = @ \cup {0}], lost)
      BY <2>2, <3>1, <3>5, <3>6, MemorySet
    <3>8. stored[f] \cup {0} = {0}
      <4>1. stored[f] = {}
        BY <1>12
      <4> QED BY ONLY <4>1
    <3>9. MemOK(heap', proc', stored', lost')
      BY <3>1, <3>2, <3>4, <3>7, <3>8
    <3>10. \A g \in Family : g > created' => stored'[g] = {}
      <4>1. \A g \in Family : g # f => stored'[g] = stored[g]
        BY <1>3, <1>13, <3>1
      <4> QED BY <1>1, <1>2, <1>6, <4>1 DEF Family
    <3>11. \A r \in Slot : proc'[r].family <= created'
      BY <1>1, <1>2, <1>5, <3>4, <3>6
    <3>12. FamiliesOK'
      BY <1>1, <1>3, <3>10, <3>11 DEF AllIs, FamiliesOK
    <3> QED BY <3>9, <3>12 DEF AllIs
  <2> QED BY <1>9, <2>5, <2>6, <2>7
<1>10. ASSUME Unopened(p) \/ Unloaded(p) \/ Loaded(p, f) PROVE p.at # NULL
  BY <1>10 DEF Unopened, Unloaded, Loaded
<1> QED BY <1>2, <1>4, <1>8, <1>9, <1>10

LEMMA InitOK == Init => AllIs
<1>1. SUFFICES ASSUME Init PROVE AllIs
  OBVIOUS
<1>2. PICK h : h = heap
  OBVIOUS
<1>3. /\ h.free = [s \in Slot |-> s > 1] /\ h.next = [s \in Slot |-> NULL] /\ h.type = [e \in Entry |-> "FREE"]
      /\ h.ptr = [e \in Entry |-> NoPointers] /\ h.tables = [s \in Slot |-> NULL] /\ h.cell = [s \in Slot |-> 0]
      /\ h.ok = TRUE /\ h \in Heap
  <2>1. NoPointers \in [PageNo -> {<<s>> : s \in Slot} \cup Entry \cup {NULL}]
    BY DEF NoPointers
  <2> QED BY <1>1, <1>2, <2>1 DEF Init, Heap
<1>4. Pools(h) = <<0>>
  <2>1. Chained(h, <<0>>)
    BY <1>3, SlotTypes DEF Chained
  <2>2. h.next \in [Slot -> Slot \cup {NULL}]
    BY <1>3
  <2> QED BY <2>1, <2>2, PoolsIs
<1>5. Pool(h) = {0} /\ Used(h) = {} /\ Data(h) = {1} /\ \A s \in Slot : ~h.free[s] <=> s = 0 \/ s = 1
  <2>1. Pool(h) = {0}
    BY <1>4 DEF Pool
  <2>2. Used(h) = {}
    BY <1>3 DEF Used
  <2>3. ASSUME NEW s \in Slot PROVE ~h.free[s] <=> s = 0 \/ s = 1
    <3>1. h.free[s] = (s > 1)
      <4>1. h.free = [r \in Slot |-> r > 1]
        BY <1>3
      <4> QED BY ONLY <4>1, s \in Slot, Zenon
    <3>2. s \in Nat
      BY SlotTypes
    <3>3. s > 1 <=> ~(s = 0 \/ s = 1)
      BY <3>2
    <3> QED BY <3>1, <3>3, Zenon
  <2> QED BY <2>1, <2>2, <2>3, SlotTypes DEF Data
<1>6. HeapOK(h)
  <2>1. Chained(h, Pools(h))
    BY <1>3, <1>4, SlotTypes DEF Chained
  <2>2. ~h.free[0]
    BY <1>5, SlotTypes
  <2>3. \A e \in Entry : h.ptr[e] = NoPointers
    BY <1>3
  <2>4. \A s \in Slot : h.cell[s] = 0
    BY <1>3
  <2>5. h \in Heap
    BY <1>3
  <2> QED BY ONLY <1>5, <2>1, <2>2, <2>3, <2>4, <2>5 DEF HeapOK
<1>7. PICK pr : pr = proc
  OBVIOUS
<1>8. pr = [s \in Slot |-> Nobody] /\ Recs(pr) = {}
  BY <1>1, <1>7 DEF Init, Recs
<1>9. stored = [f \in Family |-> {}] /\ lost = {} /\ orphaned = {} /\ created = 0 /\ forks = 0
  BY <1>1 DEF Init
<1>10. TypesOK(pr, stored) /\ LostOK(h, lost)
  BY <1>8, <1>9 DEF TypesOK, LostOK, Nobody
<1>11. KeptSlots(h, lost) = {1} /\ KeptTables(h, lost) = {}
  BY <1>5, <1>9 DEF KeptSlots, KeptTables
<1>12. /\ RecordsOK(h, pr, lost) /\ LowsOK(h, pr, lost) /\ PagesOK(h, pr, lost) /\ AllOK(h, pr, lost)
       /\ CellsOK(h, pr, stored)
  BY <1>8, <1>11 DEF RecordsOK, LowsOK, PagesOK, AllOK, CellsOK
<1>13. FamiliesOK
  <2>1. 0 \in 0..MaxFamily /\ 0 \in 0..MaxForks
    BY MemoryAssumption
  <2>2. \A s \in Slot : proc[s].family = 0
    BY <1>7, <1>8 DEF Nobody
  <2>3. \A f \in Family : stored[f] = {}
    BY <1>9
  <2> QED BY <1>9, <2>1, <2>2, <2>3 DEF FamiliesOK
<1> QED BY <1>2, <1>6, <1>7, <1>10, <1>12, <1>13 DEF AllIs, MemOK

LEMMA Step == IInv /\ [Next]_vars => IInv'
<1>1. SUFFICES ASSUME IInv, [Next]_vars, heap'.ok, orphaned' = {} PROVE AllIs'
  BY DEF IInv, Sound, AllIs
<1>2. CASE CreateProcess
  <2>1. AllIs
    BY <1>1, <1>2 DEF CreateProcess, IInv, Sound, AllIs
  <2> QED BY <1>1, <1>2, <2>1, CreateStep
<1>3. ASSUME NEW s \in Slot, Fork(s) PROVE AllIs'
  <2>1. AllIs
    BY <1>1, <1>3 DEF Fork, IInv, Sound, AllIs
  <2> QED BY <1>1, <1>3, <2>1, ForkStep
<1>4. ASSUME NEW s \in Slot, DestroyProcess(s) PROVE AllIs'
  <2>1. heap.ok /\ orphaned = {}
    BY <1>1, <1>4 DEF DestroyProcess
  <2>2. AllIs
    BY <1>1, <2>1 DEF IInv, Sound, AllIs
  <2> QED BY SMTT(30), <1>1, <1>4, <2>2, DestroyStep
<1>5. ASSUME NEW s \in Slot, NEW n \in PageNo, Access(s, n) PROVE AllIs'
  <2>1. AllIs
    BY <1>1, <1>5 DEF Access, IInv, Sound, AllIs
  <2> QED BY <1>1, <1>5, <2>1, AccessStep
<1>6. CASE UNCHANGED vars
  BY <1>1, <1>6 DEF vars, IInv, Sound, AllIs, FamiliesOK
<1> QED BY <1>1, <1>2, <1>3, <1>4, <1>5, <1>6 DEF Next

\* In a sound state, what is in use is accounted for.
THEOREM Invariant == Spec => []IInv
<1>1. Init => IInv
  BY InitOK DEF IInv, AllIs
<1> QED BY <1>1, Step, PTL DEF Spec
-----------------------------------------------------------------------------
(***************************************************************************)
(* What it says of the memory.                                             *)
(***************************************************************************)
LEMMA PagesAre == /\ Records = Recs(proc)
                  /\ \A s, n : Page(s, n) = PageAt(heap, s, n)
  BY DEF Records, Recs, Page, PageAt, Low

LEMMA Intact == AllIs => MemoryIntact
<1>1. SUFFICES ASSUME AllIs, NEW s \in Recs(proc), NEW n \in PageNo
               PROVE  LET f == proc[s].family
                          p == PageAt(heap, s, n)
                      IN  IF n \in stored[f] THEN p # NULL /\ heap.cell[p[1]] = f
                          ELSE p # NULL => heap.cell[p[1]] \in {0, JUNK}
  BY PagesAre DEF MemoryIntact
<1>2. PICK p, f : p = PageAt(heap, s, n) /\ f = proc[s].family
  OBVIOUS
<1>3. CellsOK(heap, proc, stored) /\ PagesOK(heap, proc, lost)
  BY <1>1 DEF AllIs, MemOK
<1>4. n \in stored[f] => p # NULL
  BY <1>1, <1>2, <1>3 DEF CellsOK
<1>5. ASSUME p # NULL PROVE IF n \in stored[f] THEN heap.cell[p[1]] = f ELSE heap.cell[p[1]] \in {0, JUNK}
  <2>1. PICK x \in Slot : p = <<x>>
    <3>1. KeptSlots(heap, lost) \subseteq Slot
      BY DEF KeptSlots, Data
    <3>2. \E x \in KeptSlots(heap, lost) : PageAt(heap, s, n) = <<x>>
      BY <1>1, <1>2, <1>3, <1>5 DEF PagesOK
    <3> QED BY <1>2, <3>1, <3>2
  <2>2. p[1] = x
    BY <2>1
  <2> QED BY <1>1, <1>2, <1>3, <2>1, <2>2 DEF CellsOK
<1> QED BY <1>2, <1>4, <1>5

LEMMA Five ==
  ASSUME NEW a, NEW b, NEW c, NEW d, NEW e
  PROVE  LET parts == <<a, b, c, d, e>>
         IN  /\ UNION {parts[i] : i \in DOMAIN parts} = a \cup b \cup c \cup d \cup e
             /\ a \cap (b \cup c \cup d \cup e) = {} /\ b \cap (c \cup d \cup e) = {} /\ c \cap (d \cup e) = {} /\ d \cap e = {}
                => \A i, j \in DOMAIN parts : i # j => parts[i] \cap parts[j] = {}
<1> DEFINE parts == <<a, b, c, d, e>>
<1>1. /\ DOMAIN parts = {1, 2, 3, 4, 5}
      /\ parts[1] = a /\ parts[2] = b /\ parts[3] = c /\ parts[4] = d /\ parts[5] = e
  <2>1. 1..5 = {1, 2, 3, 4, 5}
    OBVIOUS
  <2> QED BY <2>1
<1> HIDE DEF parts
<1>2. UNION {parts[i] : i \in DOMAIN parts} = a \cup b \cup c \cup d \cup e
  BY <1>1
<1>3. ASSUME a \cap (b \cup c \cup d \cup e) = {}, b \cap (c \cup d \cup e) = {}, c \cap (d \cup e) = {}, d \cap e = {}
      PROVE  \A i, j \in DOMAIN parts : i # j => parts[i] \cap parts[j] = {}
  BY <1>1, <1>3
<1> QED BY <1>2, <1>3 DEF parts

LEMMA SlotsAre == AllIs => SlotsAccounted
<1>1. SUFFICES ASSUME AllIs PROVE SlotsAccounted
  OBVIOUS
<1> DEFINE pool  == {Pools(heap)[i] : i \in DOMAIN Pools(heap)}
           pages == UNION {PagesOf(f) : f \in Family}
           gone  == {s \in Slot : <<s>> \in lost}
           busy  == {s \in Slot : ~heap.free[s]}
           kept  == KeptSlots(heap, lost)
<1>2. /\ HeapOK(heap) /\ TypesOK(proc, stored) /\ LostOK(heap, lost) /\ RecordsOK(heap, proc, lost)
      /\ PagesOK(heap, proc, lost) /\ AllOK(heap, proc, lost)
  BY <1>1 DEF AllIs, MemOK
<1>3. kept \subseteq Slot /\ busy = pool \cup kept \cup gone /\ kept \cap gone = {} /\ pool \cap (kept \cup gone) = {}
  <2>1. pool = Pool(heap) /\ pool \subseteq busy
    <3>1. pool \subseteq Slot
      <4>1. Pools(heap) \in Seq(Slot)
        BY <1>2 DEF HeapOK, Chained
      <4> QED BY <4>1
    <3> QED BY <1>2, <3>1 DEF HeapOK, Pool
  <2>2. gone \subseteq Data(heap)
    BY <1>2 DEF LostOK
  <2> QED BY <2>1, <2>2 DEF KeptSlots, Data
<1>4. \A s \in Recs(proc), n \in PageNo : PageAt(heap, s, n) # NULL =>
         \E y \in kept \ (Recs(proc) \cup {1}) : PageAt(heap, s, n) = <<y>> /\ PageAt(heap, s, n)[1] = y
  <2>1. \A y : <<y>>[1] = y
    OBVIOUS
  <2> QED BY <1>2, <2>1 DEF PagesOK
<1>5. ASSUME NEW f \in Family
      PROVE  PagesOf(f) = {x \in Slot : \E s \in Recs(proc), n \in PageNo : proc[s].family = f /\ PageAt(heap, s, n) = <<x>>}
  <2> DEFINE Of(s) == {Page(s, n)[1] : n \in {m \in PageNo : Page(s, m) # NULL}}
  <2>1. ASSUME NEW s \in Recs(proc) PROVE Of(s) = {x \in Slot : \E n \in PageNo : PageAt(heap, s, n) = <<x>>}
    <3>1. ASSUME NEW x \in Of(s) PROVE x \in Slot /\ \E n \in PageNo : PageAt(heap, s, n) = <<x>>
      BY <1>3, <1>4, <3>1, PagesAre
    <3>2. ASSUME NEW x \in Slot, NEW n \in PageNo, PageAt(heap, s, n) = <<x>> PROVE x \in Of(s)
      <4>1. PageAt(heap, s, n) # NULL /\ PageAt(heap, s, n)[1] = x
        BY <3>2, Pointers
      <4> QED BY <4>1, PagesAre
    <3> HIDE DEF Of
    <3> QED BY <3>1, <3>2
  <2>2. PagesOf(f) = UNION {Of(s) : s \in {r \in Records : proc[r].family = f}}
    BY DEF PagesOf
  <2> HIDE DEF Of
  <2> QED BY <2>1, <2>2, PagesAre
<1>6. pages = {x \in Slot : \E s \in Recs(proc), n \in PageNo : PageAt(heap, s, n) = <<x>>}
  <2>1. \A s \in Recs(proc) : proc[s].family \in Family
    BY <1>2 DEF RecordsOK
  <2> QED BY <1>5, <2>1
<1>7. kept = {1} \cup Records \cup pages /\ 1 \notin Records /\ pages \cap (Records \cup {1}) = {}
  <2>1. \A x \in pages : x \in kept \ (Recs(proc) \cup {1})
    <3>1. \A x \in Slot : <<x>> # NULL /\ <<x>>[1] = x
      BY Pointers
    <3> HIDE DEF pages
    <3> QED BY <1>4, <1>6, <3>1
  <2>2. Recs(proc) \subseteq kept \ {1}
    BY <1>2 DEF RecordsOK
  <2>3. 1 \in kept /\ \A x \in kept \ {1} : x \in Recs(proc) \/ x \in pages
    <3> HIDE DEF pages
    <3> QED BY <1>2, <1>3, <1>6 DEF AllOK
  <2> HIDE DEF pages, kept
  <2> QED BY <2>1, <2>2, <2>3, PagesAre
<1>8. ASSUME NEW f \in Family, NEW g \in Family, f # g PROVE PagesOf(f) \cap PagesOf(g) = {}
  <2>1. ASSUME NEW s \in Recs(proc), NEW r \in Recs(proc), NEW n \in PageNo, NEW m \in PageNo, NEW x \in Slot,
               PageAt(heap, s, n) = <<x>>, PageAt(heap, r, m) = <<x>>
        PROVE  proc[s].family = proc[r].family
    <3>1. <<x>> # NULL
      BY Pointers
    <3>2. heap.tables[s] = heap.tables[r]
      BY <1>2, <2>1, <3>1 DEF PagesOK
    <3> QED BY <1>2, <3>2 DEF RecordsOK
  <2> QED BY <1>5, <1>8, <2>1
<1> HIDE DEF pool, pages, gone, kept, busy
<1>9. busy = pool \cup {1} \cup Records \cup pages \cup gone
  BY <1>3, <1>7
<1>10. /\ pool \cap ({1} \cup Records \cup pages \cup gone) = {} /\ {1} \cap (Records \cup pages \cup gone) = {}
       /\ Records \cap (pages \cup gone) = {} /\ pages \cap gone = {}
  BY <1>3, <1>7
<1> DEFINE parts == <<pool, {1}, Records, pages, gone>>
<1>11. /\ busy = UNION {parts[i] : i \in DOMAIN parts}
       /\ \A i, j \in DOMAIN parts : i # j => parts[i] \cap parts[j] = {}
  BY <1>9, <1>10, Five
<1> QED BY <1>8, <1>11 DEF SlotsAccounted, pool, pages, gone, busy

LEMMA TablesAre == AllIs => TablesAccounted
<1>1. SUFFICES ASSUME AllIs PROVE TablesAccounted
  OBVIOUS
<1> DEFINE high == {heap.tables[s] : s \in Records}
           low  == {heap.ptr[e][0] : e \in high} \ {NULL}
           fams == {proc[s].family : s \in Records}
<1>2. /\ LostOK(heap, lost) /\ RecordsOK(heap, proc, lost) /\ LowsOK(heap, proc, lost) /\ AllOK(heap, proc, lost)
  BY <1>1 DEF AllIs, MemOK
<1>3. Records = Recs(proc)
  BY PagesAre
<1>4. \A e \in high : e \in KeptTables(heap, lost) /\ heap.type[e] = "HIGH_PAGE_TABLE"
  BY <1>2, <1>3 DEF RecordsOK
<1>5. low = {Low(heap, s) : s \in Records} \ {NULL}
  BY DEF Low
<1>6. \A e \in low : e \in KeptTables(heap, lost) /\ heap.type[e] = "PAGE_TABLE"
  <2> HIDE DEF low
  <2> QED BY <1>2, <1>3, <1>5 DEF LowsOK
<1>7. \A e \in KeptTables(heap, lost) : e \in high \cup low
  <2>1. \A e \in KeptTables(heap, lost) : e # NULL
    BY Pointers DEF KeptTables, Used
  <2>2. \A e \in KeptTables(heap, lost) : \E s \in Records : e = heap.tables[s] \/ e = Low(heap, s)
    BY <1>2, <1>3 DEF AllOK
  <2>3. \A s \in Records : heap.tables[s] \in high /\ (Low(heap, s) # NULL => Low(heap, s) \in low)
    BY <1>5
  <2> QED BY <2>1, <2>2, <2>3
<1>8. Cardinality(high) = Cardinality(fams)
  <2>1. IsFiniteSet(high)
    <3>1. IsFiniteSet(Slot)
      BY FS_Interval, MemoryAssumption DEF Slot
    <3>2. IsFiniteSet(Records)
      BY <3>1, FS_Subset DEF Records
    <3> DEFINE g == [s \in Records |-> heap.tables[s]]
    <3>3. g \in Surjection(Records, high)
      BY DEF Surjection
    <3> HIDE DEF g, high
    <3> QED BY <3>2, <3>3, FS_Surjection
  <2> DEFINE Of(e) == CHOOSE f \in fams : \E s \in Records : e = heap.tables[s] /\ f = proc[s].family
             m == [e \in high |-> Of(e)]
  <2>2. ASSUME NEW s \in Records PROVE m[heap.tables[s]] = proc[s].family
    <3>1. PICK e : e = heap.tables[s]
      OBVIOUS
    <3>2. proc[s].family \in fams /\ \E r \in Records : e = heap.tables[r] /\ proc[s].family = proc[r].family
      BY <3>1
    <3>3. Of(e) \in fams /\ \E r \in Records : e = heap.tables[r] /\ Of(e) = proc[r].family
      BY <3>2
    <3>4. e \in high
      BY <3>1
    <3> HIDE DEF Of, fams, high
    <3>5. m[e] = Of(e)
      BY <3>4
    <3> QED BY <1>2, <1>3, <3>1, <3>3, <3>5 DEF RecordsOK
  <2>3. m \in [high -> fams] /\ \A a, b \in high : m[a] = m[b] => a = b
    <3>1. \A a \in high : \E s \in Records : a = heap.tables[s] /\ m[a] = proc[s].family
      BY ZenonT(60), <2>2
    <3>2. \A a \in high : m[a] \in fams
      BY <3>1
    <3>3. m = [e \in high |-> m[e]]
      OBVIOUS
    <3> HIDE DEF m
    <3>4. \A a, b \in high : m[a] = m[b] => a = b
      BY <1>2, <1>3, <3>1 DEF RecordsOK
    <3> QED BY <3>2, <3>3, <3>4
  <2>4. \A f \in fams : \E e \in high : m[e] = f
    <3> HIDE DEF m
    <3> QED BY <2>2
  <2>5. m \in Bijection(high, fams)
    <3> HIDE DEF m, high, fams
    <3> QED BY <2>3, <2>4 DEF Bijection, Injection, Surjection, IsInjective
  <2>6. Cardinality(fams) = Cardinality(high)
    <3> HIDE DEF m, high, fams
    <3> QED BY <2>1, <2>5, FS_Bijection DEF ExistsBijection
  <2> QED BY <2>6
<1>9. {e \in Entry : heap.type[e] # "FREE"} = KeptTables(heap, lost) \cup (lost \cap Entry)
  BY <1>2 DEF LostOK, KeptTables, Used
<1>10. KeptTables(heap, lost) \cap lost = {}
  BY DEF KeptTables
<1> HIDE DEF high, low, fams
<1>11. KeptTables(heap, lost) = high \cup low
  BY <1>4, <1>6, <1>7
<1> QED BY <1>4, <1>6, <1>8, <1>9, <1>10, <1>11 DEF TablesAccounted, high, low, fams

-----------------------------------------------------------------------------
(***************************************************************************)
(* The shape of the heap, in every state the program runs in: also when a  *)
(* process was destroyed before its children, and a table that was freed   *)
(* is the table of an orphan and of another process at the same time.      *)
(***************************************************************************)
\* The slots R are in use, for something else than pages and pool pages.
Held(h, R) ==
  /\ R \subseteq Slot
  /\ \A s \in R : ~h.free[s] /\ s \notin Pool(h) /\ \A e \in Entry, n \in PageNo : h.ptr[e][n] # <<s>>

Shaped(h, R) ==
  /\ h \in Heap /\ Chained(h, Pools(h)) /\ \A s \in Pool(h) : ~h.free[s]
  /\ \A e \in Entry, n \in PageNo, s \in Slot : h.ptr[e][n] = <<s>> => ~h.free[s] /\ s \notin Pool(h)
  /\ \A e, d \in Entry, n, m \in PageNo, s \in Slot :
       h.ptr[e][n] = <<s>> /\ h.ptr[d][m] = <<s>> => e = d /\ n = m
  /\ Held(h, R)

LEMMA SamePools == ASSUME NEW h, NEW k, k.next = h.next PROVE Pools(k) = Pools(h) /\ Pool(k) = Pool(h)
BY DEF Pools, Pool

LEMMA ShapedPool ==
  ASSUME NEW h, NEW R, Shaped(h, R)
  PROVE  /\ h \in Heap /\ Pools(h) \in Seq(Slot) /\ Len(Pools(h)) \in Nat \ {0}
         /\ Pool(h) \subseteq Slot /\ 0 \in Pool(h) /\ DOMAIN Pools(h) = 1..Len(Pools(h))
         /\ \A i \in 1..Len(Pools(h)) : Pools(h)[i] \in Pool(h)
<1> DEFINE P == Pools(h)
<1>1. P \in Seq(Slot) /\ Len(P) \in Nat \ {0} /\ P[1] = 0 /\ h \in Heap
  BY DEF Shaped, Chained
<1>2. Pool(h) = {P[i] : i \in DOMAIN P}
  BY DEF Pool
<1> HIDE DEF P
<1>3. DOMAIN P = 1..Len(P) /\ \A i \in 1..Len(P) : P[i] \in Slot
  BY <1>1
<1> QED BY <1>1, <1>2, <1>3 DEF P

\* Nothing is linked to the chain, no place gets a page, and what is freed
\* is neither a pool page nor one of the slots Q nor still in a place.
Spares(h, k, Q) ==
  /\ k \in Heap /\ k.next = h.next
  /\ \A e \in Entry, n \in PageNo, s \in Slot : k.ptr[e][n] = <<s>> => h.ptr[e][n] = <<s>>
  /\ \A s \in Slot : k.free[s] => \/ h.free[s]
                                  \/ /\ s \notin Pool(h) \cup Q
                                     /\ \A e \in Entry, n \in PageNo : k.ptr[e][n] # <<s>>

LEMMA Reshaped ==
  ASSUME NEW h, NEW R, Shaped(h, R), NEW k, NEW Q \in SUBSET R, Spares(h, k, Q)
  PROVE  Shaped(k, Q)
<1>7. /\ k \in Heap /\ k.next = h.next
      /\ \A e \in Entry, n \in PageNo, s \in Slot : k.ptr[e][n] = <<s>> => h.ptr[e][n] = <<s>>
      /\ \A s \in Slot : k.free[s] => \/ h.free[s]
                                      \/ /\ s \notin Pool(h) \cup Q
                                         /\ \A e \in Entry, n \in PageNo : k.ptr[e][n] # <<s>>
  BY DEF Spares
<1>1. Pools(k) = Pools(h) /\ Pool(k) = Pool(h) /\ Pool(h) \subseteq Slot
  BY <1>7, ShapedPool, SamePools
<1>2. Chained(k, Pools(k))
  <2>1. PICK P : P = Pools(h)
    OBVIOUS
  <2>2. Chained(h, P)
    BY <2>1 DEF Shaped
  <2>3. Chained(k, P)
    BY ONLY <2>2, <1>7 DEF Chained
  <2> QED BY <1>1, <2>1, <2>3
<1>3. \A s \in Pool(k) : ~k.free[s]
  BY <1>1, <1>7 DEF Shaped
<1>4. ASSUME NEW e \in Entry, NEW n \in PageNo, NEW s \in Slot, k.ptr[e][n] = <<s>>
      PROVE  ~k.free[s] /\ s \notin Pool(k)
  BY <1>1, <1>4, <1>7 DEF Shaped
<1>5. Held(k, Q)
  <2>1. Q \subseteq R /\ R \subseteq Slot
    BY DEF Shaped, Held
  <2>2. ASSUME NEW s \in Q
        PROVE  ~k.free[s] /\ s \notin Pool(k) /\ \A e \in Entry, n \in PageNo : k.ptr[e][n] # <<s>>
    BY <1>1, <1>7, <2>1, <2>2 DEF Shaped, Held
  <2> QED BY <2>1, <2>2 DEF Held
<1>6. \A e, d \in Entry, n, m \in PageNo, s \in Slot :
        k.ptr[e][n] = <<s>> /\ k.ptr[d][m] = <<s>> => e = d /\ n = m
  BY <1>7 DEF Shaped
<1> QED BY <1>2, <1>3, <1>4, <1>5, <1>6, <1>7 DEF Shaped

LEMMA FewerHeld == ASSUME NEW h, NEW R, Shaped(h, R), NEW Q \in SUBSET R PROVE Shaped(h, Q)
BY DEF Shaped, Held

(***************************************************************************)
(* What a call does to the shape: none but the Deallocs can spoil it.      *)
(***************************************************************************)
LEMMA ShapedPage ==
  ASSUME NEW h, NEW R, Shaped(h, R)
  PROVE  \/ PageAlloc(h) = Result(h, NULL)
         \/ \E s \in Slot \ R : \E k : /\ PageAlloc(h) = Result(k, <<s>>)
                                     /\ Shaped(k, R \cup {s})
                                     /\ k.tables = h.tables /\ k.ptr = h.ptr /\ k.next = h.next
<1> DEFINE available == {s \in Slot : h.free[s]}
           s == Min(available)
           ok == h.ok /\ (s + 1 \in Slot => h.free[s + 1])
           k == [h EXCEPT !.free[s] = FALSE, !.cell = [r \in Slot |-> IF r = s + 1 THEN 0 ELSE @[r]],
                          !.ok = @ /\ (s + 1 \in Slot => h.free[s + 1])]
<1>1. CASE available = {}
  BY <1>1 DEF PageAlloc
<1>2. CASE available # {}
  <2>1. s \in Slot /\ h.free[s]
    <3>1. available \subseteq Nat
      BY SlotTypes
    <3>2. s \in available
      BY <1>2, <3>1, MinIn
    <3> HIDE DEF s
    <3> QED BY <3>2
  <2>2. h \in Heap
    BY DEF Shaped
  <2>3. PageAlloc(h) = Result(k, <<s>>)
    BY <1>2 DEF PageAlloc
  <2> HIDE DEF s
  <2>4. k.free = [h.free EXCEPT ![s] = FALSE] /\ k.next = h.next /\ k.ptr = h.ptr /\ k.tables = h.tables
    BY <2>2 DEF Heap
  <2>5. k \in Heap
    BY <2>1, <2>2 DEF Heap
  <2> HIDE DEF k
  <2>6. \A r \in Slot : k.free[r] <=> h.free[r] /\ r # s
    BY <2>1, <2>2, <2>4, HeapTypes
  <2>7. Shaped(k, R)
    <3>1. /\ \A e \in Entry, n \in PageNo, r \in Slot : k.ptr[e][n] = <<r>> => h.ptr[e][n] = <<r>>
          /\ \A r \in Slot : k.free[r] => h.free[r]
          /\ R \in SUBSET R /\ k.next = h.next
      BY <2>4, <2>6
    <3>2. Spares(h, k, R)
      BY ONLY <2>5, <3>1 DEF Spares
    <3> QED BY <3>1, <3>2, Reshaped
  <2>8. Pool(k) = Pool(h)
    BY <2>4, SamePools
  <2>9. s \notin R /\ s \notin Pool(h) /\ \A e \in Entry, n \in PageNo : h.ptr[e][n] # <<s>>
    BY <2>1 DEF Shaped, Held
  <2>10. Shaped(k, R \cup {s})
    BY <2>1, <2>4, <2>6, <2>7, <2>8, <2>9 DEF Shaped, Held
  <2> QED BY <2>1, <2>3, <2>4, <2>9, <2>10
<1> QED BY <1>1, <1>2

LEMMA ShapedClaim ==
  ASSUME NEW h, NEW R, Shaped(h, R), NEW e \in Entry, NEW type \in Kind
  PROVE  \E k : Claim(h, e, type) = Result(k, e) /\ Shaped(k, R) /\ k.tables = h.tables /\ k.ptr = h.ptr
<1> DEFINE k == [h EXCEPT !.type[e] = type]
<1>1. h \in Heap
  BY DEF Shaped
<1>2. k \in Heap /\ k.free = h.free /\ k.next = h.next /\ k.ptr = h.ptr /\ k.tables = h.tables
  BY <1>1 DEF Heap, Kind
<1>3. Claim(h, e, type) = Result(k, e)
  BY DEF Claim
<1> HIDE DEF k
<1>4. Shaped(k, R)
  BY <1>2, Reshaped DEF Spares
<1> QED BY <1>2, <1>3, <1>4

Behind(h, s, o) == [h EXCEPT !.next[Pools(h)[Len(Pools(h))]] = s, !.ok = o]

\* A slot that was held becomes the last pool page.
LEMMA ShapedChain ==
  ASSUME NEW h, NEW R, NEW s \in Slot \ R, Shaped(h, R \cup {s}), NEW o \in BOOLEAN
  PROVE  Shaped(Behind(h, s, o), R) /\ Behind(h, s, o).tables = h.tables /\ Behind(h, s, o).ptr = h.ptr
<1>12. PICK k : k = Behind(h, s, o)
  OBVIOUS
<1>1. PICK P : P = Pools(h)
  OBVIOUS
<1>2. /\ h \in Heap /\ P \in Seq(Slot) /\ Len(P) \in Nat \ {0} /\ DOMAIN P = 1..Len(P) /\ Chained(h, P)
      /\ Pool(h) \subseteq Slot /\ \A i \in 1..Len(P) : P[i] \in Pool(h)
      /\ s \notin Pool(h) /\ ~h.free[s]
  BY <1>1, ShapedPool DEF Shaped, Held
<1> DEFINE last == P[Len(P)]
           Q == Append(P, s)
<1>3. /\ k \in Heap /\ k.next = [h.next EXCEPT ![last] = s]
      /\ k.free = h.free /\ k.ptr = h.ptr /\ k.tables = h.tables
  <2>1. last \in Slot
    BY <1>2
  <2> HIDE DEF last
  <2>2. k = [h EXCEPT !.next[last] = s, !.ok = o]
    BY <1>1, <1>12 DEF last, Behind
  <2>3. h \in Heap
    BY <1>2
  <2> QED BY ONLY <2>1, <2>2, <2>3, s \in Slot, o \in BOOLEAN DEF Heap
<1>4. Chained(k, Q)
  <2>1. \A i \in 1..Len(P) : P[i] # s
    BY <1>2
  <2> QED BY <1>2, <1>3, <2>1, HeapTypes, ChainGrows
<1>5. Pools(k) = Q
  BY <1>3, <1>4, HeapTypes, PoolsIs
<1>6. Pool(k) = Pool(h) \cup {s}
  <2>1. DOMAIN Q = 1..(Len(P) + 1) /\ Q[Len(P) + 1] = s /\ \A i \in 1..Len(P) : Q[i] = P[i]
    BY <1>2
  <2>2. Pool(k) = {Q[i] : i \in DOMAIN Q} /\ Pool(h) = {P[i] : i \in DOMAIN P}
    BY <1>1, <1>5 DEF Pool
  <2> HIDE DEF Q
  <2>3. 1..(Len(P) + 1) = 1..Len(P) \cup {Len(P) + 1}
    BY <1>2
  <2>4. {Q[i] : i \in 1..Len(P)} = {P[i] : i \in 1..Len(P)}
    BY <2>1
  <2>5. {Q[i] : i \in 1..Len(P) \cup {Len(P) + 1}} = {Q[i] : i \in 1..Len(P)} \cup {s}
    BY <2>1
  <2> QED BY <1>2, <2>1, <2>2, <2>3, <2>4, <2>5
<1> HIDE DEF Q, last
<1>7. \A r \in Pool(k) : ~k.free[r]
  BY <1>2, <1>3, <1>6 DEF Shaped
<1>8. \A e \in Entry, n \in PageNo, r \in Slot : k.ptr[e][n] = <<r>> => ~k.free[r] /\ r \notin Pool(k)
  <2>1. \A e \in Entry, n \in PageNo : h.ptr[e][n] # <<s>>
    BY DEF Shaped, Held
  <2> QED BY <1>3, <1>6, <2>1 DEF Shaped
<1>9. Held(k, R)
  <2>1. R \subseteq Slot /\ \A r \in R : ~h.free[r] /\ r \notin Pool(h) /\ r # s
                                       /\ \A e \in Entry, n \in PageNo : h.ptr[e][n] # <<r>>
    BY DEF Shaped, Held
  <2> QED BY <1>3, <1>6, <2>1 DEF Held
<1>10. \A e, d \in Entry, n, m \in PageNo, r \in Slot :
         k.ptr[e][n] = <<r>> /\ k.ptr[d][m] = <<r>> => e = d /\ n = m
  BY <1>3 DEF Shaped
<1>11. Shaped(k, R)
  BY <1>3, <1>4, <1>5, <1>7, <1>8, <1>9, <1>10 DEF Shaped
<1> QED BY <1>3, <1>11, <1>12

LEMMA ShapedTable ==
  ASSUME NEW h, NEW R, Shaped(h, R), NEW type \in Kind
  PROVE  \/ TableAlloc(h, type) = Result(h, NULL)
         \/ \E e \in Entry : \E k : /\ TableAlloc(h, type) = Result(k, e) /\ Shaped(k, R)
                                    /\ k.tables = h.tables /\ k.ptr = h.ptr
<1> DEFINE pools == Pools(h)
           frees == {k \in (1..Len(pools)) \X (0..(PerPage - 1)) : h.type[<<pools[k[1]], k[2]>>] = "FREE"}
           numbers == {PerPage * k[1] + k[2] : k \in frees}
           first == Min(numbers)
           last == pools[Len(pools)]
<1>1. /\ pools \in Seq(Slot) /\ Len(pools) \in Nat \ {0} /\ h \in Heap /\ PerPage \in Nat \ {0}
      /\ \A i \in 1..Len(pools) : pools[i] \in Slot
  <2>1. pools \in Seq(Slot) /\ Len(pools) \in Nat \ {0} /\ h \in Heap
    BY ShapedPool
  <2> HIDE DEF pools
  <2> QED BY <2>1, SlotTypes
<1>2. TableAlloc(h, type) = IF frees # {} THEN Claim(h, <<pools[first \div PerPage], first % PerPage>>, type)
                            ELSE ClaimBehind(last, PageAlloc(h), type)
  BY DEF TableAlloc
<1> HIDE DEF pools
<1>3. CASE frees # {}
  <2>1. numbers \subseteq Nat /\ numbers # {}
    <3>1. ASSUME NEW k \in frees PROVE PerPage * k[1] + k[2] \in Nat
      <4>1. k[1] \in Nat /\ k[2] \in Nat
        BY <1>1
      <4> QED BY SMTT(30), <1>1, <4>1
    <3> QED BY <1>3, <3>1
  <2>2. first \in numbers
    BY <2>1, MinIn
  <2> HIDE DEF first
  <2>3. PICK i \in 1..Len(pools), j \in 0..(PerPage - 1) : first = PerPage * i + j
    <3>1. PICK k \in frees : first = PerPage * k[1] + k[2]
      BY <2>2
    <3>2. k[1] \in 1..Len(pools) /\ k[2] \in 0..(PerPage - 1)
      OBVIOUS
    <3> QED BY <3>1, <3>2
  <2>4. first \div PerPage = i /\ first % PerPage = j
    <3>1. i \in Nat
      BY <1>1
    <3>2. (PerPage * i + j) \div PerPage = i /\ (PerPage * i + j) % PerPage = j
      BY ONLY <1>1, <3>1, j \in 0..(PerPage - 1), Decode
    <3> QED BY <2>3, <3>2
  <2> DEFINE e == <<pools[i], j>>
  <2>5. e \in Entry
    BY <1>1, SlotTypes
  <2>6. TableAlloc(h, type) = Claim(h, e, type)
    BY <1>2, <1>3, <2>4
  <2> HIDE DEF e
  <2> QED BY <2>5, <2>6, ShapedClaim
<1>4. CASE frees = {}
  <2>1. TableAlloc(h, type) = ClaimBehind(last, PageAlloc(h), type)
    BY <1>2, <1>4
  <2> HIDE DEF frees
  <2>2. CASE PageAlloc(h) = Result(h, NULL)
    BY <2>1, <2>2 DEF ClaimBehind, Result
  <2>3. ASSUME NEW s \in Slot \ R, NEW k, PageAlloc(h) = Result(k, <<s>>), Shaped(k, R \cup {s}),
               k.tables = h.tables, k.ptr = h.ptr, k.next = h.next
        PROVE  \E e \in Entry : \E m : /\ TableAlloc(h, type) = Result(m, e) /\ Shaped(m, R)
                                       /\ m.tables = h.tables /\ m.ptr = h.ptr
    <3> DEFINE o == k.ok /\ k.cell[s] # JUNK
               g == [k EXCEPT !.next[last] = s, !.ok = @ /\ k.cell[s] # JUNK]
               e == <<s, 0>>
    <3>1. e \in Entry
      BY SlotTypes
    <3>2. TableAlloc(h, type) = Claim(g, e, type)
      <4>1. k \in Heap
        BY <2>3 DEF Shaped
      <4>2. PageAlloc(h) = Result(k, <<s>>)
        BY <2>3
      <4> HIDE DEF last
      <4> QED BY ONLY s \in Slot, <2>1, <4>1, <4>2, Pointers DEF ClaimBehind, Result, g, e
    <3>3. last = Pools(k)[Len(Pools(k))]
      BY <2>3, SamePools DEF pools
    <3>4. o \in BOOLEAN
      BY <2>3 DEF Shaped, Heap
    <3> HIDE DEF o
    <3> HIDE DEF last
    <3>5. Shaped(g, R) /\ g.tables = h.tables /\ g.ptr = h.ptr
      <4>1. g = Behind(k, s, o)
        <5>1. g = [k EXCEPT !.next[last] = s, !.ok = o]
          BY <2>3 DEF Shaped, Heap, o
        <5> QED BY <3>3, <5>1 DEF Behind
      <4> HIDE DEF g
      <4>2. Shaped(g, R) /\ g.tables = k.tables /\ g.ptr = k.ptr
        BY ONLY s \in Slot \ R, o \in BOOLEAN, <2>3, <3>4, <4>1, ShapedChain
      <4> QED BY <2>3, <4>2
    <3> HIDE DEF g, e
    <3>6. PICK m : Claim(g, e, type) = Result(m, e) /\ Shaped(m, R) /\ m.tables = g.tables /\ m.ptr = g.ptr
      BY <3>1, <3>5, ShapedClaim
    <3> QED BY <3>1, <3>2, <3>5, <3>6
  <2> QED BY <2>2, <2>3, ShapedPage
<1> QED BY <1>3, <1>4

LEMMA PtrSet ==
  ASSUME NEW h \in Heap, NEW e \in Entry, NEW n \in PageNo, NEW v \in Pointer
  PROVE  /\ SetPtr(h, e, n, v) \in Heap /\ SetPtr(h, e, n, v).tables = h.tables
         /\ SetPtr(h, e, n, v).free = h.free /\ SetPtr(h, e, n, v).next = h.next
         /\ \A d \in Entry, m \in PageNo :
              SetPtr(h, e, n, v).ptr[d][m] = IF d = e /\ m = n THEN v ELSE h.ptr[d][m]
<1> DEFINE k == SetPtr(h, e, n, v)
<1>1. /\ k \in Heap /\ k.tables = h.tables /\ k.free = h.free /\ k.next = h.next
      /\ k.ptr = [h.ptr EXCEPT ![e][n] = v]
  BY DEF SetPtr, Heap, Pointer
<1> HIDE DEF k
<1>2. \A d \in Entry, m \in PageNo : k.ptr[d][m] = IF d = e /\ m = n THEN v ELSE h.ptr[d][m]
  BY <1>1, HeapTypes
<1> QED BY <1>1, <1>2 DEF k

\* Single writes.  A page that is written to a table was held.
LEMMA ShapedPtr ==
  ASSUME NEW h, NEW R, Shaped(h, R), NEW e \in Entry, NEW n \in PageNo, NEW v \in Entry \cup {NULL},
         NEW k, k = SetPtr(h, e, n, v)
  PROVE  Shaped(k, R) /\ k.tables = h.tables
<1>1. h \in Heap
  BY DEF Shaped
<1>2. v \in Pointer /\ \A s \in Slot : v # <<s>>
  BY Pointers
<1>3. /\ k \in Heap /\ k.tables = h.tables /\ k.free = h.free /\ k.next = h.next
      /\ \A d \in Entry, m \in PageNo : k.ptr[d][m] = IF d = e /\ m = n THEN v ELSE h.ptr[d][m]
  BY <1>1, <1>2, PtrSet
<1>4. \A d \in Entry, m \in PageNo, s \in Slot : k.ptr[d][m] = <<s>> => h.ptr[d][m] = <<s>>
  BY <1>2, <1>3
<1>5. Shaped(k, R)
  <2>1. R \in SUBSET R /\ k \in Heap /\ k.next = h.next /\ \A r \in Slot : k.free[r] => h.free[r]
    BY <1>3
  <2>2. Spares(h, k, R)
    BY ONLY <1>4, <2>1 DEF Spares
  <2> QED BY <2>1, <2>2, Reshaped
<1> QED BY <1>3, <1>5

LEMMA ShapedGiven ==
  ASSUME NEW h, NEW R, NEW s \in Slot \ R, Shaped(h, R \cup {s}), NEW e \in Entry, NEW n \in PageNo,
         NEW k, k = SetPtr(h, e, n, <<s>>)
  PROVE  Shaped(k, R) /\ k.tables = h.tables
<1>1. h \in Heap
  BY DEF Shaped
<1>2. s \in Slot /\ ~h.free[s] /\ s \notin Pool(h) /\ \A d \in Entry, m \in PageNo : h.ptr[d][m] # <<s>>
  BY DEF Shaped, Held
<1>3. /\ k \in Heap /\ k.tables = h.tables /\ k.free = h.free /\ k.next = h.next
      /\ \A d \in Entry, m \in PageNo : k.ptr[d][m] = IF d = e /\ m = n THEN <<s>> ELSE h.ptr[d][m]
  <2>1. <<s>> \in Pointer
    BY <1>2, Pointers
  <2> QED BY <1>1, <2>1, PtrSet
<1>4. Pools(k) = Pools(h) /\ Pool(k) = Pool(h)
  BY <1>3, SamePools
<1>5. Chained(k, Pools(k))
  <2>1. PICK P : P = Pools(h)
    OBVIOUS
  <2>2. Chained(h, P)
    BY <2>1 DEF Shaped
  <2>3. Chained(k, P)
    BY ONLY <2>2, <1>3 DEF Chained
  <2> QED BY <1>4, <2>1, <2>3
<1>6. \A r \in Pool(k) : ~k.free[r]
  BY <1>3, <1>4 DEF Shaped
<1>7. ASSUME NEW d \in Entry, NEW m \in PageNo, NEW r \in Slot, k.ptr[d][m] = <<r>>
      PROVE  ~k.free[r] /\ r \notin Pool(k) /\ (r = s \/ h.ptr[d][m] = <<r>>)
                                            /\ (r = s => d = e /\ m = n)
  <2>1. CASE d = e /\ m = n
    <3>1. <<r>> = <<s>>
      BY <1>3, <1>7, <2>1
    <3>2. r = s
      BY <3>1, <1>2, Pointers
    <3> QED BY <1>2, <1>3, <1>4, <2>1, <3>2
  <2>2. CASE ~(d = e /\ m = n)
    <3>1. h.ptr[d][m] = <<r>>
      BY <1>3, <1>7, <2>2
    <3> QED BY <1>2, <1>3, <1>4, <3>1 DEF Shaped
  <2> QED BY <2>1, <2>2
<1>8. \A d, c \in Entry, m, l \in PageNo, r \in Slot :
        k.ptr[d][m] = <<r>> /\ k.ptr[c][l] = <<r>> => d = c /\ m = l
  BY <1>7 DEF Shaped
<1>9. Held(k, R)
  <2>1. \A r \in R : r \in Slot \ {s} /\ ~h.free[r] /\ r \notin Pool(h)
                     /\ \A d \in Entry, m \in PageNo : h.ptr[d][m] # <<r>>
    BY DEF Shaped, Held
  <2> QED BY <1>3, <1>4, <1>7, <2>1 DEF Held
<1>10. \A d \in Entry, m \in PageNo, r \in Slot : k.ptr[d][m] = <<r>> => ~k.free[r] /\ r \notin Pool(k)
  BY <1>7
<1>11. Shaped(k, R)
  BY <1>3, <1>5, <1>6, <1>8, <1>9, <1>10 DEF Shaped
<1> QED BY <1>3, <1>11

LEMMA ShapedRecord ==
  ASSUME NEW h, NEW R, Shaped(h, R), NEW s \in Slot, NEW e \in Entry, NEW k, k = SetTables(h, s, e)
  PROVE  Shaped(k, R) /\ k.tables = [h.tables EXCEPT ![s] = e]
<1>1. h \in Heap
  BY DEF Shaped
<1>2. k \in Heap /\ k.free = h.free /\ k.next = h.next /\ k.ptr = h.ptr /\ k.tables = [h.tables EXCEPT ![s] = e]
  BY <1>1 DEF SetTables, Heap
<1>3. Shaped(k, R)
  BY <1>2, Reshaped DEF Spares
<1> QED BY <1>2, <1>3

LEMMA ShapedByte ==
  ASSUME NEW h, NEW R, Shaped(h, R), NEW s \in Slot, NEW f \in Family, NEW k, k = SetCell(h, s, f)
  PROVE  Shaped(k, R) /\ k.tables = h.tables
<1>1. h \in Heap
  BY DEF Shaped
<1>2. k \in Heap /\ k.free = h.free /\ k.next = h.next /\ k.ptr = h.ptr /\ k.tables = h.tables
  BY <1>1 DEF SetCell, Heap
<1>3. Shaped(k, R)
  BY <1>2, Reshaped DEF Spares
<1> QED BY <1>2, <1>3

LEMMA ShapedSpoilt ==
  ASSUME NEW h, NEW R, Shaped(h, R), NEW k, k = [h EXCEPT !.ok = FALSE]
  PROVE  Shaped(k, R) /\ k.tables = h.tables
<1>1. h \in Heap
  BY DEF Shaped
<1>2. k \in Heap /\ k.free = h.free /\ k.next = h.next /\ k.ptr = h.ptr /\ k.tables = h.tables
  BY <1>1 DEF Heap
<1>3. Spares(h, k, R) /\ R \in SUBSET R
  BY ONLY <1>2 DEF Spares
<1>4. Shaped(k, R)
  BY <1>3, Reshaped
<1> QED BY <1>2, <1>4

LEMMA ShapedBlank ==
  ASSUME NEW h \in Heap, NEW e \in Entry
  PROVE  /\ Blank(h, e) \in Heap /\ Blank(h, e).tables = h.tables /\ Blank(h, e).ok = h.ok
         /\ \A R : Shaped(h, R) => Shaped(Blank(h, e), R)
<1> DEFINE k == Blank(h, e)
<1>1. /\ k.tables = h.tables /\ k.ok = h.ok /\ k.free = h.free /\ k.next = h.next
      /\ k.ptr = [h.ptr EXCEPT ![e] = NoPointers]
  BY DEF Heap, Blank
<1>2. k \in Heap
  <2>1. NoPointers \in [PageNo -> Pointer]
    BY DEF NoPointers, Pointer
  <2> QED BY <2>1 DEF Heap, Blank, Pointer
<1> HIDE DEF k
<1>3. \A d \in Entry, n \in PageNo, s \in Slot : k.ptr[d][n] = <<s>> => h.ptr[d][n] = <<s>>
  <2>1. \A n \in PageNo, s \in Slot : NoPointers[n] # <<s>>
    BY Pointers DEF NoPointers
  <2> QED BY <1>1, <2>1, HeapTypes
<1>4. ASSUME NEW R, Shaped(h, R) PROVE Shaped(k, R)
  <2>1. Spares(h, k, R) /\ R \in SUBSET R
    BY ONLY <1>1, <1>2, <1>3 DEF Spares
  <2> QED BY <1>4, <2>1, Reshaped
<1> QED BY <1>1, <1>2, <1>4 DEF k

LEMMA ShapedEmptied ==
  ASSUME NEW h, NEW R, Shaped(h, R), NEW t \in Entry
  PROVE  /\ PageTableDealloc(h, t) \in Heap /\ PageTableDealloc(h, t).tables = h.tables
         /\ PageTableDealloc(h, t).ok => Shaped(PageTableDealloc(h, t), R)
<1> DEFINE P == {h.ptr[t][n] : n \in Leading(h, t)}
           S == {p[1] : p \in P}
<1>8. PICK k : k = PageTableDealloc(h, t)
  OBVIOUS
<1>1. h \in Heap
  BY DEF Shaped
<1>2. \A p \in P : p \in Pointer /\ p # NULL /\ \E n \in PageNo : h.ptr[t][n] = p
  <2>1. \A n \in PageNo : n \in 0..n
    BY MemoryAssumption DEF PageNo
  <2>2. \A n \in Leading(h, t) : n \in PageNo /\ h.ptr[t][n] # NULL
    BY <2>1 DEF Leading
  <2> QED BY <1>1, <2>2, HeapTypes
<1>3. k = Emptied(h, t, P)
  BY <1>8 DEF PageTableDealloc
<1> HIDE DEF P
<1>4. /\ k.tables = h.tables /\ k.next = h.next /\ k.ptr = [h.ptr EXCEPT ![t] = NoPointers]
      /\ k.free = [s \in Slot |-> s \in S \/ h.free[s]]
      /\ k.ok = (h.ok /\ \A p \in P : ~IsTable(p))
      /\ k.cell = [s \in Slot |-> IF s \in S THEN 0 ELSE h.cell[s]]
      /\ k.type = [h.type EXCEPT ![t] = "FREE"]
  BY <1>1, <1>3 DEF Emptied, Blank, PageDealloc, Heap
<1>5. k = [free |-> k.free, next |-> k.next, type |-> k.type, ptr |-> k.ptr,
           tables |-> k.tables, cell |-> k.cell, ok |-> k.ok]
  BY <1>1, <1>3 DEF Emptied, Blank, PageDealloc, Heap
<1> HIDE DEF S
<1>6. k \in Heap
  <2>1. k.free \in [Slot -> BOOLEAN] /\ k.next \in [Slot -> Slot \cup {NULL}] /\ k.ok \in BOOLEAN
    BY <1>1, <1>4, HeapTypes
  <2>2. k.type \in [Entry -> {"FREE"} \cup Kind] /\ k.tables \in [Slot -> Entry \cup {NULL}]
    BY <1>1, <1>4, HeapTypes
  <2>3. k.ptr \in [Entry -> [PageNo -> Pointer]]
    <3>1. NoPointers \in [PageNo -> Pointer]
      BY DEF NoPointers, Pointer
    <3> QED BY <1>1, <1>4, <3>1, HeapTypes
  <2>4. k.cell \in [Slot -> Family \cup {0, JUNK}]
    BY <1>1, <1>4, HeapTypes
  <2>5. [free |-> k.free, next |-> k.next, type |-> k.type, ptr |-> k.ptr,
         tables |-> k.tables, cell |-> k.cell, ok |-> k.ok] \in Heap
    BY ONLY <2>1, <2>2, <2>3, <2>4, HeapIs
  <2> QED BY <1>5, <2>5
<1>7. ASSUME k.ok PROVE Shaped(k, R)
  <2>1. \A s \in S : s \in Slot /\ \E n \in PageNo : h.ptr[t][n] = <<s>>
    <3>1. ASSUME NEW p \in P PROVE \E x \in Slot : p = <<x>> /\ p[1] = x
      <4>1. ~IsTable(p) /\ p \in Pointer /\ p # NULL
        BY <1>2, <1>4, <1>7
      <4>2. p \notin Entry
        BY <4>1, Pointers DEF IsTable
      <4> QED BY <4>1, <4>2 DEF Pointer
    <3>2. \A s \in S : \E p \in P : s = p[1]
      BY DEF S
    <3> QED BY <1>2, <3>1, <3>2
  <2>2. \A e \in Entry, n \in PageNo, s \in Slot : k.ptr[e][n] = <<s>> => e # t /\ h.ptr[e][n] = <<s>>
    <3>1. \A n \in PageNo, s \in Slot : NoPointers[n] # <<s>>
      BY Pointers DEF NoPointers
    <3> QED BY <1>1, <1>4, <3>1, HeapTypes
  <2>3. ASSUME NEW s \in S
        PROVE  s \notin Pool(h) \cup R /\ \A e \in Entry, n \in PageNo : k.ptr[e][n] # <<s>>
    <3>1. PICK n \in PageNo : h.ptr[t][n] = <<s>> /\ s \in Slot
      BY <2>1
    <3>2. s \notin Pool(h) \cup R
      BY <3>1 DEF Shaped, Held
    <3>3. \A e \in Entry, m \in PageNo : h.ptr[e][m] = <<s>> => e = t
      BY <3>1 DEF Shaped
    <3> QED BY <2>2, <3>1, <3>2, <3>3
  <2>4. \A s \in Slot : k.free[s] => \/ h.free[s]
                                     \/ /\ s \notin Pool(h) \cup R
                                        /\ \A e \in Entry, n \in PageNo : k.ptr[e][n] # <<s>>
    BY <1>4, <2>3
  <2>5. /\ \A e \in Entry, n \in PageNo, s \in Slot : k.ptr[e][n] = <<s>> => h.ptr[e][n] = <<s>>
        /\ k.next = h.next /\ R \in SUBSET R
    BY <1>4, <2>2
  <2>6. Spares(h, k, R)
    BY ONLY <1>6, <2>4, <2>5 DEF Spares
  <2> QED BY <2>5, <2>6, Reshaped
<1> QED BY <1>4, <1>6, <1>7, <1>8

LEMMA ShapedFreed ==
  ASSUME NEW h, NEW R, Shaped(h, R), NEW s \in R, h.tables[s] \in Entry
  PROVE  /\ ProcessDealloc(h, s) \in Heap /\ ProcessDealloc(h, s).tables = h.tables
         /\ ProcessDealloc(h, s).ok => Shaped(ProcessDealloc(h, s), R \ {s})
<1> DEFINE e == h.tables[s]
           low == h.ptr[e][0]
           b == IF low = NULL THEN h ELSE IF IsTable(low) THEN PageTableDealloc(h, low)
                ELSE [h EXCEPT !.ok = FALSE]
           c == Blank(b, e)
<1>1. h \in Heap /\ e \in Entry /\ 0 \in PageNo /\ s \in Slot
  BY ZeroPage DEF Shaped, Held
<1>2. low \in Pointer
  BY SMTT(30), <1>1, HeapTypes
<1>3. b \in Heap /\ b.tables = h.tables /\ (b.ok => Shaped(b, R))
  <2>1. CASE low = NULL
    BY <1>1, <2>1
  <2>2. CASE low # NULL /\ ~IsTable(low)
    <3>1. [h EXCEPT !.ok = FALSE] \in Heap /\ [h EXCEPT !.ok = FALSE].ok = FALSE
          /\ [h EXCEPT !.ok = FALSE].tables = h.tables
      BY <1>1 DEF Heap
    <3> QED BY <2>2, <3>1
  <2>3. CASE low # NULL /\ IsTable(low)
    <3>1. low \in Entry
      BY <1>2, <2>3, Pointers DEF IsTable, Pointer
    <3> QED BY <2>3, <3>1, ShapedEmptied
  <2> QED BY <2>1, <2>2, <2>3
<1>4. ProcessDealloc(h, s) = FreeRecord(c, s)
  BY DEF ProcessDealloc, HighPageTableDealloc, FreeRecord
<1> HIDE DEF b, e
<1>5. c \in Heap /\ c.tables = h.tables /\ (c.ok => Shaped(c, R))
  BY <1>1, <1>3, ShapedBlank
<1> HIDE DEF c
<1>6. PICK k : k = FreeRecord(c, s)
  OBVIOUS
<1>7. /\ k \in Heap /\ k.next = c.next /\ k.ptr = c.ptr /\ k.tables = c.tables /\ k.ok = c.ok
      /\ k.free = [c.free EXCEPT ![s] = TRUE]
  BY <1>1, <1>5, <1>6 DEF Heap, FreeRecord
<1>8. ASSUME k.ok PROVE Shaped(k, R \ {s})
  <2>1. Shaped(c, R)
    BY <1>5, <1>7, <1>8
  <2>2. s \notin Pool(c) /\ \A d \in Entry, n \in PageNo : c.ptr[d][n] # <<s>>
    BY <2>1 DEF Shaped, Held
  <2>3. \A r \in Slot : k.free[r] => \/ c.free[r]
                                     \/ /\ r \notin Pool(c) \cup (R \ {s})
                                        /\ \A d \in Entry, n \in PageNo : k.ptr[d][n] # <<r>>
    BY <1>1, <1>5, <1>7, <2>2, HeapTypes
  <2>4. /\ \A d \in Entry, n \in PageNo, r \in Slot : k.ptr[d][n] = <<r>> => c.ptr[d][n] = <<r>>
        /\ R \ {s} \in SUBSET R /\ k.next = c.next /\ k \in Heap
    BY <1>7
  <2>5. Spares(c, k, R \ {s})
    BY ONLY <2>3, <2>4 DEF Spares
  <2> QED BY <2>1, <2>4, <2>5, Reshaped
<1> QED BY <1>4, <1>5, <1>6, <1>7, <1>8

(***************************************************************************)
(* Accesses to memory, and the creation of a record.                       *)
(***************************************************************************)
Mem(r, g, R) == /\ Shaped(r.heap, R) /\ r.heap.tables = g.tables
                /\ r.at = NULL \/ \E x \in Slot : r.at = <<x>>

LEMMA ShapedInTable ==
  ASSUME NEW g, NEW R, Shaped(g, R), NEW at \in Pointer, NEW n \in PageNo
  PROVE  Mem(InTable(Result(g, at), n), g, R)
<1> DEFINE r == InTable(Result(g, at), n)
           spoilt == [g EXCEPT !.ok = FALSE]
<1>1. g \in Heap /\ Shaped(spoilt, R) /\ spoilt.tables = g.tables
  <2>1. PICK k : k = spoilt
    OBVIOUS
  <2>2. Shaped(k, R) /\ k.tables = g.tables
    BY <2>1, ShapedSpoilt
  <2>3. g \in Heap
    BY DEF Shaped
  <2> QED BY <2>1, <2>2, <2>3
<1>2. r = IF at = NULL THEN Result(g, NULL)
          ELSE IF ~IsTable(at) THEN Result(spoilt, NULL)
          ELSE Entered(at, n, IF g.ptr[at][n] # NULL THEN Result(g, g.ptr[at][n]) ELSE PageAlloc(g))
  BY ResultIs DEF InTable
<1>6. \A t, v : IsTable(v) /\ v # NULL => Entered(t, n, Result(g, v)) = Result(spoilt, NULL)
  BY ResultIs DEF Entered
<1> HIDE DEF r, spoilt
<1>3. CASE at = NULL \/ ~IsTable(at)
  <2>1. r = Result(g, NULL) \/ r = Result(spoilt, NULL)
    BY <1>2, <1>3
  <2> QED BY <1>1, <2>1, ResultIs DEF Mem, r
<1>4. CASE at \in Entry
  <2>1. r = Entered(at, n, IF g.ptr[at][n] # NULL THEN Result(g, g.ptr[at][n]) ELSE PageAlloc(g))
    BY <1>2, <1>4, Pointers DEF IsTable
  <2>2. CASE g.ptr[at][n] # NULL
    <3>1. PICK v \in Pointer : v = g.ptr[at][n] /\ v # NULL
      BY <1>1, <1>4, <2>2, HeapTypes
    <3>2. r = Entered(at, n, Result(g, v))
      BY <2>1, <2>2, <3>1
    <3>3. CASE v \in Entry
      <4>1. r = Result(spoilt, NULL)
        BY <1>6, <3>1, <3>2, <3>3, Pointers DEF IsTable
      <4> QED BY <1>1, <4>1, ResultIs DEF Mem, r
    <3>4. ASSUME NEW x \in Slot, v = <<x>> PROVE Mem(r, g, R)
      <4>1. r = Result(SetPtr(g, at, n, <<x>>), <<x>>)
        BY <3>2, <3>4, EnteredIs
      <4>2. SetPtr(g, at, n, g.ptr[at][n]) = g
        BY <1>1, <1>4, PtrIs
      <4>3. r = Result(g, <<x>>)
        BY <3>1, <3>4, <4>1, <4>2
      <4> QED BY <4>3, ResultIs DEF Mem
    <3> QED BY <3>1, <3>3, <3>4 DEF Pointer, r
  <2>3. CASE g.ptr[at][n] = NULL
    <3>1. r = Entered(at, n, PageAlloc(g))
      BY <2>1, <2>3
    <3>2. CASE PageAlloc(g) = Result(g, NULL)
      <4>1. r = Result(g, NULL)
        BY <3>1, <3>2, ResultIs DEF Entered
      <4> QED BY <4>1, ResultIs DEF Mem, r
    <3>3. ASSUME NEW s \in Slot \ R, NEW k, PageAlloc(g) = Result(k, <<s>>), Shaped(k, R \cup {s}),
                 k.tables = g.tables
          PROVE  Mem(r, g, R)
      <4>1. r = Result(SetPtr(k, at, n, <<s>>), <<s>>)
        BY <3>1, <3>3, EnteredIs
      <4>2. PICK j : j = SetPtr(k, at, n, <<s>>)
        OBVIOUS
      <4>3. Shaped(j, R) /\ j.tables = k.tables
        BY <1>4, <3>3, <4>2, ShapedGiven
      <4> QED BY <3>3, <4>1, <4>2, <4>3, ResultIs DEF Mem
    <3> QED BY <3>2, <3>3, ShapedPage DEF r
  <2> QED BY <2>2, <2>3
<1>5. \A x \in Slot : ~IsTable(<<x>>)
  BY Pointers DEF IsTable
<1> QED BY <1>3, <1>4, <1>5 DEF Pointer, r

LEMMA ShapedGet ==
  ASSUME NEW h, NEW R, Shaped(h, R), NEW s \in Slot, h.tables[s] \in Entry, NEW n \in PageNo
  PROVE  Mem(GetPage(h, s, n), h, R)
<1> DEFINE high == h.tables[s]
<1>1. h \in Heap /\ high \in Entry /\ 0 \in PageNo /\ "PAGE_TABLE" \in Kind
  BY ZeroPage DEF Shaped, Kind
<1>2. h.ptr[high][0] \in Pointer
  BY <1>1, HeapTypes
<1>3. GetPage(h, s, n) = InTable(IF h.ptr[high][0] # NULL THEN Result(h, h.ptr[high][0])
                                 ELSE Linked(high, PageTableAlloc(h)), n)
  BY DEF GetPage
<1>4. \A j, v : Linked(high, Result(j, v)) = Result(SetPtr(j, high, 0, v), v)
  BY DEF Linked, Result, SetPtr
<1> HIDE DEF high
<1>5. CASE h.ptr[high][0] # NULL
  BY <1>2, <1>3, <1>5, ShapedInTable
<1>6. CASE h.ptr[high][0] = NULL
  <2>1. GetPage(h, s, n) = InTable(Linked(high, TableAlloc(h, "PAGE_TABLE")), n)
    BY <1>3, <1>6 DEF PageTableAlloc
  <2>2. ASSUME NEW e \in Entry \cup {NULL}, NEW k, TableAlloc(h, "PAGE_TABLE") = Result(k, e), Shaped(k, R),
               k.tables = h.tables
        PROVE  Mem(GetPage(h, s, n), h, R)
    <3>1. PICK j : j = SetPtr(k, high, 0, e)
      OBVIOUS
    <3>2. GetPage(h, s, n) = InTable(Result(j, e), n)
      BY <1>4, <2>1, <2>2, <3>1
    <3>3. Shaped(j, R) /\ j.tables = k.tables
      BY ONLY e \in Entry \cup {NULL}, <1>1, <2>2, <3>1, ShapedPtr
    <3>4. e \in Pointer
      BY Pointers
    <3>5. Mem(InTable(Result(j, e), n), j, R)
      BY <3>3, <3>4, ShapedInTable
    <3> QED BY <2>2, <3>2, <3>3, <3>5 DEF Mem
  <2> QED BY <1>1, <2>2, ShapedTable
<1> QED BY <1>5, <1>6

LEMMA ShapedSet ==
  ASSUME NEW h, NEW R, Shaped(h, R), NEW s \in Slot, h.tables[s] \in Entry, NEW n \in PageNo, NEW f \in Family
  PROVE  Mem(SetMemory(h, s, n, f), h, R)
<1>1. PICK r : r = GetPage(h, s, n)
  OBVIOUS
<1>2. Mem(r, h, R)
  BY <1>1, ShapedGet
<1>3. SetMemory(h, s, n, f) = IF r.at = NULL THEN r ELSE Result(SetCell(r.heap, r.at[1], f), r.at)
  BY <1>1 DEF SetMemory, Stored, SetCell
<1>4. CASE r.at = NULL
  BY <1>2, <1>3, <1>4
<1>5. ASSUME NEW x \in Slot, r.at = <<x>> PROVE Mem(SetMemory(h, s, n, f), h, R)
  <2>1. SetMemory(h, s, n, f) = Result(SetCell(r.heap, x, f), <<x>>)
    BY <1>3, <1>5, Pointers
  <2>2. PICK k : k = SetCell(r.heap, x, f)
    OBVIOUS
  <2>3. Shaped(k, R) /\ k.tables = r.heap.tables
    BY <1>2, <2>2, ShapedByte DEF Mem
  <2> QED BY <1>2, <2>1, <2>2, <2>3, ResultIs DEF Mem
<1> QED BY <1>2, <1>4, <1>5 DEF Mem

LEMMA ShapedHigh ==
  ASSUME NEW h, NEW R, Shaped(h, R)
  PROVE  \/ HighPageTableAlloc(h) = Result(h, NULL)
         \/ \E e \in Entry : \E k : /\ HighPageTableAlloc(h) = Result(k, e) /\ Shaped(k, R)
                                    /\ k.tables = h.tables
<1>1. 0 \in PageNo /\ {"PAGE_TABLE", "HIGH_PAGE_TABLE"} \subseteq Kind
  BY ZeroPage DEF Kind
<1>2. CASE TableAlloc(h, "HIGH_PAGE_TABLE") = Result(h, NULL)
  BY <1>2, ResultIs DEF HighPageTableAlloc
<1>3. ASSUME NEW e \in Entry, NEW g, TableAlloc(h, "HIGH_PAGE_TABLE") = Result(g, e), Shaped(g, R),
             g.tables = h.tables
      PROVE  \E k : HighPageTableAlloc(h) = Result(k, e) /\ Shaped(k, R) /\ k.tables = h.tables
  <2>1. HighPageTableAlloc(h) = Result(Linked(e, TableAlloc(g, "PAGE_TABLE")).heap, e)
    BY <1>3, ResultIs, Pointers DEF HighPageTableAlloc, PageTableAlloc
  <2>2. \A j, v : Linked(e, Result(j, v)).heap = SetPtr(j, e, 0, v)
    BY DEF Linked, Result, SetPtr
  <2>3. ASSUME NEW d \in Entry \cup {NULL}, NEW m, TableAlloc(g, "PAGE_TABLE") = Result(m, d), Shaped(m, R),
               m.tables = g.tables
        PROVE  \E k : HighPageTableAlloc(h) = Result(k, e) /\ Shaped(k, R) /\ k.tables = h.tables
    <3>1. PICK k : k = SetPtr(m, e, 0, d)
      OBVIOUS
    <3>2. HighPageTableAlloc(h) = Result(k, e)
      BY <2>1, <2>2, <2>3, <3>1
    <3>3. Shaped(k, R) /\ k.tables = h.tables
      BY <1>1, <1>3, <2>3, <3>1, ShapedPtr
    <3> QED BY <3>2, <3>3
  <2> QED BY <1>1, <1>3, <2>3, ShapedTable
<1> QED BY <1>1, <1>2, <1>3, ShapedTable

\* The record in slot c was made, with tables.
Made(h, k, c, R) == /\ Shaped(k, R \cup {c}) /\ k.tables[c] \in Entry
                    /\ \A r \in Slot \ {c} : k.tables[r] = h.tables[r]

LEMMA ShapedProcess ==
  ASSUME NEW h, NEW R, Shaped(h, R)
  PROVE  LET p == ProcessAlloc(h)
         IN  \/ p.at = NULL /\ Shaped(p.heap, R) /\ p.heap.tables = h.tables
             \/ \E c \in Slot \ R : p.at = <<c>> /\ Made(h, p.heap, c, R)
<1>1. PICK p : p = ProcessAlloc(h)
  OBVIOUS
<1>2. CASE PageAlloc(h) = Result(h, NULL)
  <2>1. p = Result(h, NULL)
    BY <1>1, <1>2, ResultIs DEF ProcessAlloc
  <2> QED BY <1>1, <2>1, ResultIs
<1>3. ASSUME NEW c \in Slot \ R, NEW k, PageAlloc(h) = Result(k, <<c>>), Shaped(k, R \cup {c}),
             k.tables = h.tables
      PROVE  \/ p.at = NULL /\ Shaped(p.heap, R) /\ p.heap.tables = h.tables
             \/ p.at = <<c>> /\ Made(h, p.heap, c, R)
  <2>1. p = IF HighPageTableAlloc(k).at = NULL THEN HighPageTableAlloc(k)
            ELSE Result(SetTables(HighPageTableAlloc(k).heap, c, HighPageTableAlloc(k).at), <<c>>)
    BY <1>1, <1>3, ResultIs, Pointers DEF ProcessAlloc, SetTables
  <2>2. CASE HighPageTableAlloc(k) = Result(k, NULL)
    <3>1. p = Result(k, NULL)
      BY <2>1, <2>2, ResultIs
    <3>2. Shaped(k, R)
      BY <1>3, FewerHeld
    <3> QED BY <1>3, <3>1, <3>2, ResultIs
  <2>3. ASSUME NEW e \in Entry, NEW m, HighPageTableAlloc(k) = Result(m, e), Shaped(m, R \cup {c}),
               m.tables = k.tables
        PROVE  p.at = <<c>> /\ Made(h, p.heap, c, R)
    <3>1. PICK j : j = SetTables(m, c, e)
      OBVIOUS
    <3>2. p = Result(j, <<c>>)
      BY <2>1, <2>3, <3>1, ResultIs, Pointers
    <3>3. Shaped(j, R \cup {c}) /\ j.tables = [h.tables EXCEPT ![c] = e]
      BY <1>3, <2>3, <3>1, ShapedRecord
    <3>4. h.tables \in [Slot -> Entry \cup {NULL}]
      BY HeapTypes DEF Shaped
    <3> QED BY <3>2, <3>3, <3>4, ResultIs DEF Made
  <2> QED BY <1>3, <2>2, <2>3, ShapedHigh
<1> QED BY <1>1, <1>2, <1>3, ShapedPage

(***************************************************************************)
(* The steps.  The records and Processes are held.                         *)
(***************************************************************************)
RecsShaped(h, pr) == /\ Shaped(h, Recs(pr) \cup {1}) /\ 1 \notin Recs(pr)
                     /\ \A s \in Recs(pr) : h.tables[s] \in Entry /\ pr[s].family \in Family

ShapeInv == /\ heap \in Heap /\ TypesOK(proc, stored)
            /\ created \in 0..MaxFamily /\ forks \in 0..MaxForks
            /\ lost \subseteq {<<s>> : s \in Slot} \cup Entry /\ orphaned \subseteq Family
            /\ heap.ok => RecsShaped(heap, proc)

LEMMA ShapedInit == Init => ShapeInv
<1>1. SUFFICES ASSUME Init PROVE ShapeInv
  OBVIOUS
<1>2. HeapOK(heap) /\ TypesOK(proc, stored) /\ FamiliesOK
  BY <1>1, InitOK DEF AllIs, MemOK
<1>3. Recs(proc) = {} /\ lost = {}
  BY <1>1 DEF Init, Recs
<1>4. PICK h : h = heap
  OBVIOUS
<1>5. /\ h \in Heap /\ h.next = [s \in Slot |-> NULL]
      /\ \A s \in Slot : ~h.free[s] <=> ~(s > 1)
      /\ \A e \in Entry, n \in PageNo, s \in Slot : h.ptr[e][n] # <<s>>
  <2>1. h \in Heap
    BY <1>2, <1>4 DEF HeapOK
  <2>2. h.next = [s \in Slot |-> NULL] /\ h.free = [s \in Slot |-> s > 1] /\ h.ptr = [e \in Entry |-> NoPointers]
    BY <1>1, <1>4 DEF Init
  <2>3. \A n \in PageNo, s \in Slot : NoPointers[n] # <<s>>
    BY Pointers DEF NoPointers
  <2> QED BY ZenonT(60), <2>1, <2>2, <2>3
<1>6. Pool(h) = {0} /\ Chained(h, Pools(h))
  <2>1. Chained(h, <<0>>)
    BY <1>5, SlotTypes DEF Chained
  <2>2. Pools(h) = <<0>>
    BY <1>5, <2>1, HeapTypes, PoolsIs
  <2> QED BY <2>1, <2>2 DEF Pool
<1>7. Held(h, {1})
  <2>1. 1 # 0 /\ ~h.free[1]
    BY <1>5, SlotTypes
  <2> QED BY <1>5, <1>6, <2>1, SlotTypes DEF Held
<1>8. ~h.free[0]
  BY <1>5, SlotTypes
<1>9. Shaped(h, {1})
  BY <1>5, <1>6, <1>7, <1>8 DEF Shaped
<1>10. RecsShaped(heap, proc)
  <2>1. Recs(proc) \cup {1} = {1}
    BY <1>3
  <2> QED BY <1>3, <1>4, <1>9, <2>1 DEF RecsShaped
<1> QED BY <1>2, <1>3, <1>10 DEF ShapeInv, HeapOK, FamiliesOK

\* Records that are as they were, and those of them that there still are.
LEMMA RecsStill ==
  ASSUME NEW h, NEW pr, RecsShaped(h, pr), NEW k, Shaped(k, Recs(pr) \cup {1}), k.tables = h.tables
  PROVE  RecsShaped(k, pr)
BY DEF RecsShaped

LEMMA ShapedAccess ==
  ASSUME ShapeInv, NEW s \in Slot, NEW n \in PageNo, Access(s, n)
  PROVE  ShapeInv'
<1> DEFINE f == proc[s].family
<1>1. /\ s \in Recs(proc) /\ heap.ok /\ UNCHANGED <<proc, created, forks, lost, orphaned>>
      /\ \/ heap' = GetPage(heap, s, n).heap /\ UNCHANGED stored
         \/ \E page \in {SetMemory(heap, s, n, f)} :
              /\ heap' = page.heap
              /\ stored' = IF page.at = NULL THEN stored ELSE [stored EXCEPT ![f] = @ \cup {n}]
  BY DEF Access, Recs
<1>2. /\ RecsShaped(heap, proc) /\ Shaped(heap, Recs(proc) \cup {1})
      /\ heap.tables[s] \in Entry /\ f \in Family
  BY <1>1 DEF ShapeInv, RecsShaped
<1>3. Mem(GetPage(heap, s, n), heap, Recs(proc) \cup {1}) /\ Mem(SetMemory(heap, s, n, f), heap, Recs(proc) \cup {1})
  BY <1>2, ShapedGet, ShapedSet
<1>4. Shaped(heap', Recs(proc) \cup {1}) /\ heap'.tables = heap.tables
  BY <1>1, <1>3 DEF Mem
<1>5. RecsShaped(heap', proc) /\ heap' \in Heap
  BY <1>2, <1>4, RecsStill DEF Shaped
<1>6. stored' \in [Family -> SUBSET PageNo]
  BY <1>1 DEF ShapeInv, TypesOK
<1>7. TypesOK(proc', stored')
  BY <1>1, <1>6 DEF ShapeInv, TypesOK
<1> QED BY <1>1, <1>5, <1>7 DEF ShapeInv

\* From h to k the record in slot c was made, and it gets a family.
Added(h, pr, k, c) == /\ RecsShaped(h, pr) /\ pr \in [Slot -> [family : {0} \cup Family, child : BOOLEAN]]
                      /\ c \in Slot \ (Recs(pr) \cup {1}) /\ Made(h, k, c, Recs(pr) \cup {1})

LEMMA RecsMore ==
  ASSUME NEW h, NEW pr, NEW k, NEW c, Added(h, pr, k, c), NEW f \in Family, NEW b \in BOOLEAN,
         NEW q, q = Become(pr, c, f, b)
  PROVE  RecsShaped(k, q) /\ q \in [Slot -> [family : {0} \cup Family, child : BOOLEAN]]
<1>1. /\ RecsShaped(h, pr) /\ pr \in [Slot -> [family : {0} \cup Family, child : BOOLEAN]]
      /\ c \in Slot /\ c \notin Recs(pr) /\ c # 1 /\ Shaped(k, (Recs(pr) \cup {1}) \cup {c})
      /\ k.tables[c] \in Entry /\ \A r \in Slot \ {c} : k.tables[r] = h.tables[r]
  BY DEF Added, Made
<1>2. /\ q \in [Slot -> [family : {0} \cup Family, child : BOOLEAN]] /\ Recs(q) = Recs(pr) \cup {c}
      /\ q[c].family = f /\ \A r \in Slot \ {c} : q[r] = pr[r]
  BY <1>1, SomebodyIs
<1>3. Recs(q) \cup {1} = (Recs(pr) \cup {1}) \cup {c} /\ 1 \notin Recs(q)
  BY <1>1, <1>2 DEF RecsShaped
<1>4. \A s \in Recs(q) : k.tables[s] \in Entry /\ q[s].family \in Family
  <2>1. Recs(pr) \subseteq Slot
    BY DEF Recs
  <2> QED BY <1>1, <1>2, <2>1 DEF RecsShaped
<1>5. RecsShaped(k, q)
  BY <1>1, <1>3, <1>4 DEF RecsShaped
<1> QED BY <1>2, <1>5

LEMMA ShapedFork ==
  ASSUME ShapeInv, NEW s \in Slot, Fork(s)
  PROVE  ShapeInv'
<1>1. /\ s \in Recs(proc) /\ heap.ok /\ UNCHANGED <<created, stored, orphaned>> /\ forks' \in 0..MaxForks
  BY MemoryAssumption DEF Fork, Recs, ShapeInv
<1>2. PICK p : /\ p = ProcessAlloc(heap)
               /\ \/ heap' = [p.heap EXCEPT !.ok = FALSE] /\ UNCHANGED <<proc, lost>>
                  \/ /\ p.at # NULL
                     /\ heap' = [p.heap EXCEPT !.tables[p.at[1]] = heap.tables[s]]
                     /\ proc' = [proc EXCEPT ![p.at[1]] = [family |-> proc[s].family, child |-> TRUE]]
                     /\ lost' = lost \cup Tables(p.heap, p.at[1])
  BY DEF Fork
<1>8. PICK R : R = Recs(proc) \cup {1}
  OBVIOUS
<1>3. /\ RecsShaped(heap, proc) /\ Shaped(heap, R) /\ TypesOK(proc, stored)
      /\ heap.tables[s] \in Entry /\ proc[s].family \in Family
  BY <1>1, <1>8 DEF ShapeInv, RecsShaped
<1>4. \/ p.at = NULL /\ Shaped(p.heap, R)
      \/ \E c \in Slot \ R : p.at = <<c>> /\ Made(heap, p.heap, c, R)
  BY <1>2, <1>3, ShapedProcess
<1>5. p.heap \in Heap
  BY <1>4 DEF Shaped, Made
<1>6. CASE heap' = [p.heap EXCEPT !.ok = FALSE] /\ UNCHANGED <<proc, lost>>
  <2>1. heap' \in Heap /\ ~heap'.ok
    BY <1>5, <1>6 DEF Heap
  <2> QED BY <1>1, <1>6, <2>1 DEF ShapeInv, TypesOK
<1>7. ASSUME NEW c \in Slot \ R, p.at = <<c>>, Made(heap, p.heap, c, R),
             heap' = [p.heap EXCEPT !.tables[p.at[1]] = heap.tables[s]],
             proc' = [proc EXCEPT ![p.at[1]] = [family |-> proc[s].family, child |-> TRUE]],
             lost' = lost \cup Tables(p.heap, p.at[1])
      PROVE  ShapeInv'
  <2>1. PICK f, e, g, k : f = proc[s].family /\ e = heap.tables[s] /\ g = p.heap /\ k = heap'
    OBVIOUS
  <2>2. k = SetTables(g, c, e) /\ proc' = Become(proc, c, f, TRUE) /\ f \in Family /\ e \in Entry
        /\ lost' = lost \cup Tables(g, c)
    <3>1. p.at[1] = c
      BY <1>7
    <3> QED BY <1>3, <1>7, <2>1, <3>1 DEF SetTables, Become
  <2>3. /\ Shaped(g, R \cup {c}) /\ g.tables[c] \in Entry /\ g \in Heap
        /\ \A r \in Slot \ {c} : g.tables[r] = heap.tables[r]
    BY <1>5, <1>7, <2>1 DEF Made
  <2>4. Shaped(k, R \cup {c}) /\ k.tables = [g.tables EXCEPT ![c] = e]
    BY ONLY c \in Slot, <2>2, <2>3, ShapedRecord
  <2>5. k.tables[c] = e /\ \A r \in Slot \ {c} : k.tables[r] = heap.tables[r]
    BY <2>3, <2>4, HeapTypes
  <2>6. RecsShaped(k, proc') /\ proc' \in [Slot -> [family : {0} \cup Family, child : BOOLEAN]]
    <3>1. Made(heap, k, c, R)
      BY <2>2, <2>4, <2>5 DEF Made
    <3>2. Added(heap, proc, k, c)
      BY <1>3, <1>8, <3>1 DEF Added, TypesOK
    <3>3. PICK b, q : b = TRUE /\ q = proc'
      OBVIOUS
    <3>4. b \in BOOLEAN /\ f \in Family /\ q = Become(proc, c, f, b)
      BY <2>2, <3>3
    <3>5. RecsShaped(k, q) /\ q \in [Slot -> [family : {0} \cup Family, child : BOOLEAN]]
      BY ONLY <3>2, <3>4, RecsMore
    <3> QED BY <3>3, <3>5
  <2>7. Tables(g, c) \subseteq {<<x>> : x \in Slot} \cup Entry
    <3>1. g.ptr[g.tables[c]][0] \in Pointer
      BY <2>3, HeapTypes, ZeroPage
    <3> QED BY <2>3, <3>1 DEF Tables, Pointer
  <2>8. heap' \in Heap /\ RecsShaped(heap', proc')
    BY <2>1, <2>4, <2>6 DEF Shaped
  <2>9. lost' \subseteq {<<x>> : x \in Slot} \cup Entry
    BY <2>2, <2>7 DEF ShapeInv
  <2> QED BY <1>1, <1>3, <2>6, <2>8, <2>9 DEF ShapeInv, TypesOK
<1> QED BY <1>2, <1>4, <1>6, <1>7

LEMMA ShapedDestroy ==
  ASSUME ShapeInv, NEW s \in Slot, DestroyProcess(s)
  PROVE  ShapeInv'
<1> DEFINE high == heap.tables[s]
           low  == heap.ptr[high][0]
           kept == IF low \notin Entry THEN {}
                   ELSE {heap.ptr[low][n] : n \in {m \in PageNo \ Leading(heap, low) : heap.ptr[low][m] # NULL}}
<1>1. /\ s \in Recs(proc) /\ heap.ok /\ heap' = ProcessDealloc(heap, s) /\ proc' = Leave(proc, s)
      /\ lost' = lost \cup kept /\ UNCHANGED <<created, forks, stored>>
      /\ orphaned' \subseteq orphaned \cup {proc[s].family}
  BY DEF DestroyProcess, Recs, Leave
<1>2. PICK R : R = Recs(proc) \cup {1}
  OBVIOUS
<1>3. /\ Shaped(heap, R) /\ s \in R /\ heap.tables[s] \in Entry /\ proc[s].family \in Family /\ s # 1
      /\ heap \in Heap /\ TypesOK(proc, stored)
  BY <1>1, <1>2 DEF ShapeInv, RecsShaped
<1>4. PICK k, q : k = heap' /\ q = proc'
  BY ZenonT(60)
<1>5. k \in Heap /\ k.tables = heap.tables /\ (k.ok => Shaped(k, R \ {s}))
  BY <1>1, <1>3, <1>4, ShapedFreed
<1>6. q \in [Slot -> [family : {0} \cup Family, child : BOOLEAN]] /\ Recs(q) = Recs(proc) \ {s}
      /\ \A r \in Slot \ {s} : q[r] = proc[r]
  BY <1>1, <1>3, <1>4, NobodyIs DEF TypesOK
<1>7. k.ok => RecsShaped(k, q)
  <2>1. R \ {s} = Recs(q) \cup {1} /\ 1 \notin Recs(q)
    BY <1>1, <1>2, <1>3, <1>6 DEF ShapeInv, RecsShaped
  <2>2. \A r \in Recs(q) : k.tables[r] \in Entry /\ q[r].family \in Family
    <3>1. Recs(proc) \subseteq Slot
      BY DEF Recs
    <3> QED BY <1>1, <1>5, <1>6, <3>1 DEF ShapeInv, RecsShaped
  <2> QED BY <1>5, <2>1, <2>2 DEF RecsShaped
<1>8. kept \subseteq {<<x>> : x \in Slot} \cup Entry
  <2>1. \A e \in Entry, n \in PageNo : heap.ptr[e][n] # NULL => heap.ptr[e][n] \in {<<x>> : x \in Slot} \cup Entry
    BY <1>3, HeapTypes DEF Pointer
  <2> HIDE DEF low
  <2> QED BY <2>1
<1> HIDE DEF kept
<1>9. /\ lost' \subseteq {<<x>> : x \in Slot} \cup Entry /\ orphaned' \subseteq Family
      /\ created' \in 0..MaxFamily /\ forks' \in 0..MaxForks
  BY <1>1, <1>3, <1>8 DEF ShapeInv
<1>10. TypesOK(proc', stored')
  BY <1>1, <1>3, <1>4, <1>6 DEF TypesOK
<1> QED BY SMTT(30), <1>4, <1>5, <1>7, <1>9, <1>10 DEF ShapeInv

LEMMA ShapedCreate ==
  ASSUME ShapeInv, CreateProcess
  PROVE  ShapeInv'
<1>1. heap.ok /\ UNCHANGED <<forks, orphaned>> /\ created' = created + 1 /\ created' \in Family
      /\ created' \in 0..MaxFamily
  BY MemoryAssumption DEF CreateProcess, ShapeInv, Family
<1>2. PICK p, f : /\ p = ProcessAlloc(heap) /\ f = created'
                  /\ NotCreated(p) \/ Unopened(p) \/ Unloaded(p) \/ Loaded(p, f)
  BY DEF CreateProcess
<1>3. PICK R : R = Recs(proc) \cup {1}
  OBVIOUS
<1>4. RecsShaped(heap, proc) /\ Shaped(heap, R) /\ TypesOK(proc, stored) /\ R \subseteq Slot
  BY <1>1, <1>3, SlotTypes DEF ShapeInv, RecsShaped, Recs
<1>5. \/ p.at = NULL /\ Shaped(p.heap, R) /\ p.heap.tables = heap.tables
      \/ \E c \in Slot \ R : p.at = <<c>> /\ Made(heap, p.heap, c, R)
  BY <1>2, <1>4, ShapedProcess
<1>6. \A x \in Slot : <<x>> # NULL
  BY Pointers
<1>7. ASSUME Shaped(heap', R), heap'.tables = heap.tables, UNCHANGED <<proc, stored>>,
             lost' \subseteq {<<x>> : x \in Slot} \cup Entry
      PROVE  ShapeInv'
  <2>1. RecsShaped(heap', proc) /\ heap' \in Heap
    BY <1>3, <1>4, <1>7, RecsStill DEF Shaped
  <2> QED BY <1>1, <1>7, <2>1 DEF ShapeInv, TypesOK
<1>8. CASE NotCreated(p)
  <2>1. p.at = NULL /\ heap' = p.heap /\ UNCHANGED <<proc, stored>>
        /\ lost' = lost \cup {<<r>> : r \in {q \in Slot : heap.free[q] /\ ~p.heap.free[q]}}
    BY <1>8 DEF NotCreated
  <2>2. lost' \subseteq {<<x>> : x \in Slot} \cup Entry
    BY <2>1 DEF ShapeInv
  <2>3. Shaped(p.heap, R) /\ p.heap.tables = heap.tables
    BY <1>5, <1>6, <2>1
  <2> QED BY <1>7, <2>1, <2>2, <2>3
<1>9. ASSUME NEW c \in Slot \ R, p.at = <<c>>, Made(heap, p.heap, c, R),
             Unopened(p) \/ Unloaded(p) \/ Loaded(p, f)
      PROVE  ShapeInv'
  <2>1. PICK k : k = p.heap
    OBVIOUS
  <2>2. /\ Shaped(k, R \cup {c}) /\ k.tables[c] \in Entry /\ k \in Heap /\ p.at[1] = c
        /\ \A r \in Slot \ {c} : k.tables[r] = heap.tables[r]
    BY <1>9, <2>1 DEF Made, Shaped
  <2>3. R \in SUBSET (R \cup {c}) /\ (R \cup {c}) \ {c} = R /\ c \in R \cup {c}
    OBVIOUS
  <2>4. ASSUME NEW j, j.tables = k.tables, Shaped(j, R) PROVE RecsShaped(j, proc)
    <3>1. \A r \in Recs(proc) : j.tables[r] \in Entry
      BY <1>3, <1>4, <2>2, <2>4 DEF RecsShaped
    <3> QED BY <1>3, <1>4, <2>4, <3>1 DEF RecsShaped
  <2>5. CASE Unopened(p)
    <3>1. heap' = ProcessDealloc(k, c) /\ UNCHANGED <<proc, stored, lost>>
      BY <2>1, <2>2, <2>5 DEF Unopened
    <3>2. PICK j : j = heap'
      OBVIOUS
    <3>3. PICK Q : Q = R \cup {c}
      OBVIOUS
    <3>4. Shaped(k, Q) /\ c \in Q
      BY <2>2, <3>3
    <3>5. j \in Heap /\ j.tables = k.tables /\ (j.ok => Shaped(j, Q \ {c}))
      BY <2>2, <3>1, <3>2, <3>4, ShapedFreed
    <3>6. j.ok => RecsShaped(j, proc)
      BY <2>3, <2>4, <3>3, <3>5
    <3> QED BY <1>1, <3>1, <3>2, <3>5, <3>6 DEF ShapeInv, TypesOK
  <2>6. CASE Unloaded(p)
    <3>1. heap' = k /\ UNCHANGED <<proc, stored>> /\ lost' = lost \cup {<<c>>} \cup Tables(k, c)
      BY <1>9, <2>1, <2>2, <2>6 DEF Unloaded
    <3>2. Shaped(k, R)
      BY <2>2, <2>3, FewerHeld
    <3>3. RecsShaped(k, proc)
      BY <2>4, <3>2
    <3>4. lost' \subseteq {<<x>> : x \in Slot} \cup Entry
      <4>1. k.ptr[k.tables[c]][0] \in Pointer
        BY <2>2, HeapTypes, ZeroPage
      <4> QED BY <2>2, <3>1, <4>1 DEF Tables, Pointer, ShapeInv
    <3> QED BY <1>1, <2>2, <3>1, <3>3, <3>4 DEF ShapeInv, TypesOK
  <2>7. CASE Loaded(p, f)
    <3>1. PICK page : /\ page = SetMemory(k, c, 0, f) /\ heap' = page.heap
                      /\ stored' = IF page.at = NULL THEN stored ELSE [stored EXCEPT ![f] = {0}]
      BY <2>1, <2>2, <2>7 DEF Loaded
    <3>2. proc' = Become(proc, c, f, FALSE) /\ lost' = lost
      BY <2>2, <2>7 DEF Loaded, Become
    <3>3. Mem(page, k, R \cup {c})
      BY <1>1, <1>2, <2>2, <3>1, ShapedSet, ZeroPage
    <3>4. PICK j : j = heap'
      OBVIOUS
    <3>5. Made(heap, j, c, R)
      BY <2>2, <3>1, <3>3, <3>4 DEF Mem, Made
    <3>6. RecsShaped(j, proc') /\ proc' \in [Slot -> [family : {0} \cup Family, child : BOOLEAN]]
      <4>1. Added(heap, proc, j, c)
        BY <1>3, <1>4, <3>5 DEF Added, TypesOK
      <4>2. PICK b, q : b = FALSE /\ q = proc'
        OBVIOUS
      <4>3. b \in BOOLEAN /\ f \in Family /\ q = Become(proc, c, f, b)
        BY <1>1, <1>2, <3>2, <4>2
      <4>4. RecsShaped(j, q) /\ q \in [Slot -> [family : {0} \cup Family, child : BOOLEAN]]
        BY ONLY <4>1, <4>3, RecsMore
      <4> QED BY <4>2, <4>4
    <3>7. stored' \in [Family -> SUBSET PageNo]
      BY <1>4, <3>1, ZeroPage DEF TypesOK
    <3>8. heap' \in Heap /\ RecsShaped(heap', proc')
      BY <3>4, <3>5, <3>6 DEF Shaped, Made
    <3> QED BY <1>1, <3>2, <3>6, <3>7, <3>8 DEF ShapeInv, TypesOK
  <2> QED BY <1>9, <2>5, <2>6, <2>7
<1>10. ASSUME Unopened(p) \/ Unloaded(p) \/ Loaded(p, f) PROVE p.at # NULL
  BY <1>10 DEF Unopened, Unloaded, Loaded
<1> QED BY <1>2, <1>5, <1>8, <1>9, <1>10

LEMMA ShapedStep == ShapeInv /\ [Next]_vars => ShapeInv'
<1>1. SUFFICES ASSUME ShapeInv, [Next]_vars PROVE ShapeInv'
  OBVIOUS
<1>2. CASE UNCHANGED vars
  BY <1>1, <1>2 DEF vars, ShapeInv, TypesOK
<1> QED BY <1>1, <1>2, ShapedCreate, ShapedFork, ShapedDestroy, ShapedAccess DEF Next

\* What is held keeps its shape.
THEOREM ShapeInvariant == Spec => []ShapeInv
BY ShapedInit, ShapedStep, PTL DEF Spec

\* In a shaped heap the records are apart from pages and pool pages.
LEMMA Apart == ShapeInv => SlotsApart
<1>1. SUFFICES ASSUME Shaped(heap, Recs(proc) \cup {1}), heap.ok PROVE SlotsApart
  BY DEF ShapeInv, RecsShaped, SlotsApart
<1> DEFINE At(k) == heap.ptr[k[1]][k[2]][1]
<1>2. ASSUME NEW k \in Places
      PROVE  \E e \in Entry, n \in PageNo : k = <<e, n>> /\ At(k) \in Slot /\ heap.ptr[e][n] = <<At(k)>>
  BY Pointers DEF Places
<1>3. \A k \in Places : ~heap.free[At(k)] /\ At(k) \notin Pool(heap) \cup Records \cup {1}
  BY <1>1, <1>2, PagesAre DEF Shaped, Held
<1>4. \A j, k \in Places : At(j) = At(k) => j = k
  BY <1>1, <1>2 DEF Shaped
<1>5. Pool(heap) \cap (Records \cup {1}) = {} /\ \A s \in Pool(heap) \cup {1} : ~heap.free[s]
  BY <1>1, PagesAre DEF Shaped, Held
<1> HIDE DEF At
<1> QED BY <1>3, <1>4, <1>5 DEF SlotsApart, Pool, At
-----------------------------------------------------------------------------
(***************************************************************************)
(* The theorems.  The first two are about every state, the others about    *)
(* those in which the program has not lost its footing and no process was  *)
(* destroyed before its children (Sound).                                  *)
(***************************************************************************)
\* However slots, tables and pages are allocated, freed and used again, all
\* of the model's state has the type it should have, and as long as the
\* program runs the records lie in slots of their own, with tables
\* (libemulator.c:51-301).
THEOREM TypeCorrect == Spec => []TypeOK
<1>1. ShapeInv => TypeOK
  <2>1. SUFFICES ASSUME ShapeInv PROVE TypeOK
    OBVIOUS
  <2>2. ASSUME heap.ok, NEW s \in Records PROVE s > 1 /\ ~heap.free[s] /\ heap.tables[s] # NULL
    <3>1. RecsShaped(heap, proc) /\ s \in Recs(proc) /\ s \in Slot
      BY <2>1, <2>2, PagesAre DEF ShapeInv, Recs
    <3>2. s # 1 /\ ~heap.free[s] /\ s \notin Pool(heap) /\ heap.tables[s] \in Entry
      BY <3>1 DEF RecsShaped, Shaped, Held
    <3>3. s # 0
      BY <3>1, <3>2, ShapedPool DEF RecsShaped
    <3> QED BY <3>1, <3>2, <3>3, SlotTypes, Pointers
  <2> QED BY <2>1, <2>2 DEF ShapeInv, TypesOK, TypeOK
<1> QED BY <1>1, ShapeInvariant, PTL

\* No slot has two uses, also when a process was destroyed before its children
\* and others get the tables of the orphans (PageAlloc and the Allocs and
\* Deallocs of tables and processes, libemulator.c:51-206, 221-255).
THEOREM SlotsApartAlways == Spec => []SlotsApart
BY Apart, ShapeInvariant, PTL

\* A process reads what its family stored last and never what another stored
\* (GetMemory and SetMemory, lib8080.c:1140-1172).
THEOREM MemoryIntactAlways == Spec => []MemoryIntact
<1>1. IInv => MemoryIntact
  BY Intact DEF IInv, AllIs, MemoryIntact
<1> QED BY <1>1, Invariant, PTL

\* Every slot in use has exactly one use, and no page is in the memory of two
\* families (PageAlloc, PageDealloc, ProcessAlloc and ProcessDealloc,
\* libemulator.c:51-80, 208-301).
THEOREM SlotsAccountedAlways == Spec => []SlotsAccounted
<1>1. IInv => SlotsAccounted
  BY SlotsAre DEF IInv, AllIs, SlotsAccounted
<1> QED BY <1>1, Invariant, PTL

\* Every table in use has exactly one use, of its own type, and no two
\* families have one in common (HighPageTableAlloc, PageTableAlloc and their
\* Deallocs, libemulator.c:82-206).
THEOREM TablesAccountedAlways == Spec => []TablesAccounted
<1>1. IInv => TablesAccounted
  BY TablesAre DEF IInv, AllIs, TablesAccounted
<1> QED BY <1>1, Invariant, PTL
=============================================================================
