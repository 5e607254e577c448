------------------------------- MODULE Memory -------------------------------
(***************************************************************************)
(* The memory of the processes (src/src/libemulator.c): records, tables    *)
(* packed into pool pages, and pages, all from one pool of slots; what     *)
(* CreateProcess, Fork, DestroyProcess and every access to memory do with  *)
(* them.  Calls are atomic: PagePool has the steps of the allocator, Cpu   *)
(* the arithmetic on addresses.  A pointer to a page is <<slot>>, one to a *)
(* table <<slot of the pool page, index>>.                                 *)
(*                                                                         *)
(* The model ends (heap.ok is FALSE) where the program has lost its        *)
(* footing: a header in use was cleared, a table is taken for a page or a  *)
(* page for a table, a pool page starts with the bytes of an old record,   *)
(* or Fork uses the NULL that ProcessAlloc returned.                       *)
(***************************************************************************)
EXTENDS Integers, Sequences, FiniteSets, FiniteSetsExt

CONSTANTS NSlots,     \* slots in the pool (32640 in the code)
          PerPage,    \* tables in a pool page (30 in the code)
          MaxPage,    \* bound: the highest page number a program uses (7)
          MaxFamily,  \* bound: processes created, by number
          MaxForks,   \* bound
          NULL, JUNK

ASSUME MemoryAssumption ==
  /\ NSlots \in Nat \ {0, 1} /\ PerPage \in Nat \ {0, 1} /\ {MaxPage, MaxFamily, MaxForks} \subseteq Nat

VARIABLES heap,     \* the 128 MiB at BreakHead
          proc,     \* proc[s]: whose record is in slot s
          created,  \* how many processes were created, successfully or not
          forks,    \* how many forks there were
          stored,   \* history: the pages the processes of family f stored to
          lost,     \* history: slots and tables that nothing refers to any more
          orphaned  \* history: families whose creator was destroyed before its children

vars == <<heap, proc, created, forks, stored, lost, orphaned>>

Slot   == 0..(NSlots - 1)
Entry  == Slot \X (0..(PerPage - 1))
PageNo == 0..MaxPage
Family == 1..MaxFamily   \* a created process and what it forks; they share memory

ASSUME NullAssumption == /\ NULL \notin Slot \cup Entry \cup {<<s>> : s \in Slot}
                         /\ JUNK \notin Family \cup {0}

Nobody == [family |-> 0, child |-> FALSE]

\* free, next: the header of a slot.  type, ptr: the tables, high ones and
\* others alike.  tables: PageTables of a record.  cell: one byte among the
\* first 224 of a page, the family that stored it there.
Heap == [free   : [Slot -> BOOLEAN],
         next   : [Slot -> Slot \cup {NULL}],
         type   : [Entry -> {"FREE", "PAGE_TABLE", "HIGH_PAGE_TABLE"}],
         ptr    : [Entry -> [PageNo -> {<<s>> : s \in Slot} \cup Entry \cup {NULL}]],
         tables : [Slot -> Entry \cup {NULL}],
         cell   : [Slot -> Family \cup {0, JUNK}],
         ok     : BOOLEAN]

NoPointers == [n \in PageNo |-> NULL]

\* Initialize: slot 0 is Pages, slot 1 is Processes.
Init == /\ heap = [free   |-> [s \in Slot |-> s > 1],
                   next   |-> [s \in Slot |-> NULL],
                   type   |-> [e \in Entry |-> "FREE"],
                   ptr    |-> [e \in Entry |-> NoPointers],
                   tables |-> [s \in Slot |-> NULL],
                   cell   |-> [s \in Slot |-> 0],
                   ok     |-> TRUE]
        /\ proc = [s \in Slot |-> Nobody]
        /\ created = 0 /\ forks = 0
        /\ stored = [f \in Family |-> {}]
        /\ lost = {} /\ orphaned = {}
-----------------------------------------------------------------------------
(***************************************************************************)
(* The allocators.  Each takes a heap and gives the heap after the call    *)
(* and the pointer returned.                                               *)
(***************************************************************************)
Result(h, p) == [heap |-> h, at |-> p]

\* Mutant of PageAlloc: the slot is not marked.
PageAllocUnmarked(h) ==
  LET available == {s \in Slot : h.free[s]}
      s == Min(available)
  IN  IF available = {} THEN Result(h, NULL)
      ELSE Result([h EXCEPT !.cell = [r \in Slot |-> IF r = s + 1 THEN 0 ELSE @[r]]], <<s>>)

\* First fit.  The memset goes to the next slot, header and first bytes.
PageAlloc(h) ==
  LET available == {s \in Slot : h.free[s]}
      s == Min(available)
  IN  IF available = {} THEN Result(h, NULL)
      ELSE Result([h EXCEPT !.free[s] = FALSE,
                            !.cell = [r \in Slot |-> IF r = s + 1 THEN 0 ELSE @[r]],
                            !.ok = @ /\ (s + 1 \in Slot => h.free[s + 1])],
                  <<s>>)

\* Pages are emptied from first to last; in a slot the table was left with
\* there is nothing but zeros then.
PageDealloc(h, S) == [h EXCEPT !.free = [s \in Slot |-> s \in S \/ @[s]],
                               !.cell = [s \in Slot |-> IF s \in S THEN 0 ELSE @[s]]]

\* The pool pages, in the order they are searched in.
Pools(h) == LET from[s \in Slot] == IF h.next[s] = NULL THEN <<s>>
                                    ELSE <<s>> \o from[h.next[s]]
            IN  from[0]

Claim(h, e, type) == Result([h EXCEPT !.type[e] = type], e)

\* The first table of a new page behind the last.
ClaimBehind(last, page, type) ==
  IF page.at = NULL THEN page
  ELSE Claim([page.heap EXCEPT !.next[last] = page.at[1],
                               !.ok = @ /\ page.heap.cell[page.at[1]] # JUNK], <<page.at[1], 0>>, type)

\* Both kinds of table have the same size, and the same search: the first
\* that is FREE, or else a new page.
TableAlloc(h, type) ==
  LET pools == Pools(h)
      frees == {k \in (1..Len(pools)) \X (0..(PerPage - 1)) : h.type[<<pools[k[1]], k[2]>>] = "FREE"}
      first == Min({PerPage * k[1] + k[2] : k \in frees})
  IN  IF frees # {} THEN Claim(h, <<pools[first \div PerPage], first % PerPage>>, type)
      ELSE ClaimBehind(pools[Len(pools)], PageAlloc(h), type)

PageTableAlloc(h) == TableAlloc(h, "PAGE_TABLE")

\* A page table, or NULL, is what bank 0 of a high table refers to.
Linked(high, low) == [low EXCEPT !.heap.ptr[high][0] = low.at]

HighPageTableAlloc(h) ==
  LET high == TableAlloc(h, "HIGH_PAGE_TABLE")
  IN  IF high.at = NULL THEN high
      ELSE Result(Linked(high.at, PageTableAlloc(high.heap)).heap, high.at)

\* A pointer to a table, not to a page.
IsTable(p) == Len(p) = 2

\* The pages of a table up to the first number that has none.
Leading(h, t) == {n \in PageNo : \A m \in 0..n : h.ptr[t][m] # NULL}

\* Mutant of Blank: only the type is set.
BlankTypeOnly(h, e) == [h EXCEPT !.type[e] = "FREE"]

Blank(h, e) == [h EXCEPT !.type[e] = "FREE", !.ptr[e] = NoPointers]

\* The pages S of a table are emptied, and the table; a table among them is
\* taken for a page.
Emptied(h, t, S) ==
  Blank([PageDealloc(h, {p[1] : p \in S}) EXCEPT !.ok = @ /\ \A p \in S : ~IsTable(p)], t)

\* Mutant of PageTableDealloc: the last page is forgotten.
PageTableDeallocLess(h, t) == Emptied(h, t, {h.ptr[t][n] : n \in Leading(h, t) \ {Max(PageNo)}})

PageTableDealloc(h, t) == Emptied(h, t, {h.ptr[t][n] : n \in Leading(h, t)})

\* Mutant of HighPageTableDealloc: without the tables it refers to.
HighPageTableDeallocOnly(h, e) == Blank(h, e)

\* There is one bank, so one page table; a page is taken for one.
HighPageTableDealloc(h, e) ==
  LET low == h.ptr[e][0]
  IN  Blank(IF low = NULL THEN h
            ELSE IF IsTable(low) THEN PageTableDealloc(h, low)
            ELSE [h EXCEPT !.ok = FALSE], e)

\* The header is cleared and no more: PageTables points where it pointed, and
\* what the record held is what the slot's next user finds.
ProcessDealloc(h, s) ==
  [HighPageTableDealloc(h, h.tables[s]) EXCEPT !.free[s] = TRUE, !.cell[s] = JUNK]
-----------------------------------------------------------------------------
(***************************************************************************)
(* Access.                                                                 *)
(***************************************************************************)
\* The page with number n of a table, which is allocated if there is none.
Entered(t, n, page) ==
  IF page.at = NULL THEN page
  ELSE IF IsTable(page.at) THEN Result([page.heap EXCEPT !.ok = FALSE], NULL)
  ELSE Result([page.heap EXCEPT !.ptr[t][n] = page.at], page.at)

InTable(low, n) ==
  IF low.at = NULL THEN low
  ELSE IF ~IsTable(low.at) THEN Result([low.heap EXCEPT !.ok = FALSE], NULL)
  ELSE Entered(low.at, n, IF low.heap.ptr[low.at][n] # NULL THEN Result(low.heap, low.heap.ptr[low.at][n])
                          ELSE PageAlloc(low.heap))

\* Mutant of GetPage: the page table's first page for every address.
GetFirstPage(h, s, n) == InTable(Result(h, h.ptr[h.tables[s]][0]), 0)

GetPage(h, s, n) ==
  LET high == h.tables[s]
  IN  InTable(IF h.ptr[high][0] # NULL THEN Result(h, h.ptr[high][0])
              ELSE Linked(high, PageTableAlloc(h)), n)

\* Without a page the byte is dropped.
Stored(page, v) ==
  IF page.at = NULL THEN page ELSE Result([page.heap EXCEPT !.cell[page.at[1]] = v], page.at)

SetMemory(h, s, n, v) == Stored(GetPage(h, s, n), v)

\* A process fetches, loads or stores; GetMemory allocates too.
Access(s, n) ==
  LET f == proc[s].family
  IN  /\ heap.ok /\ proc[s] # Nobody
      /\ \/ heap' = GetPage(heap, s, n).heap /\ UNCHANGED stored
         \/ \E page \in {SetMemory(heap, s, n, f)} :
              /\ heap' = page.heap
              /\ stored' = IF page.at = NULL THEN stored ELSE [stored EXCEPT ![f] = @ \cup {n}]
      /\ UNCHANGED <<proc, created, forks, lost, orphaned>>
-----------------------------------------------------------------------------
(***************************************************************************)
(* Processes.                                                              *)
(***************************************************************************)
\* ProcessAlloc until the FIFOs are opened; NULL if there is no page or no
\* table, and in the second case the record's page is not given back.
ProcessAlloc(h) ==
  LET With(s, high) == IF high.at = NULL THEN high
                       ELSE Result([high.heap EXCEPT !.tables[s] = high.at], <<s>>)
      In(page) == IF page.at = NULL THEN page ELSE With(page.at[1], HighPageTableAlloc(page.heap))
  IN  In(PageAlloc(h))

\* What becomes unreachable if nobody keeps the record: its tables.
Tables(h, s) == {h.tables[s]} \cup ({h.ptr[h.tables[s]][0]} \ {NULL})

NotCreated(p) == /\ p.at = NULL
                 /\ heap' = p.heap
                 /\ lost' = lost \cup {<<r>> : r \in {q \in Slot : heap.free[q] /\ ~p.heap.free[q]}}
                 /\ UNCHANGED <<proc, stored>>

\* A FIFO cannot be opened.
Unopened(p) == /\ p.at # NULL
               /\ heap' = ProcessDealloc(p.heap, p.at[1])
               /\ UNCHANGED <<proc, stored, lost>>

\* There is no such program.
Unloaded(p) == /\ p.at # NULL
               /\ heap' = p.heap
               /\ lost' = lost \cup {p.at} \cup Tables(p.heap, p.at[1])
               /\ UNCHANGED <<proc, stored>>

\* The program starts in page 0.
Loaded(p, f) ==
  /\ p.at # NULL
  /\ \E page \in {SetMemory(p.heap, p.at[1], 0, f)} :
       /\ heap' = page.heap
       /\ stored' = IF page.at = NULL THEN stored ELSE [stored EXCEPT ![f] = {0}]
  /\ proc' = [proc EXCEPT ![p.at[1]] = [family |-> f, child |-> FALSE]]
  /\ UNCHANGED lost

CreateProcess ==
  /\ heap.ok /\ created < MaxFamily
  /\ created' = created + 1
  /\ \E p \in {ProcessAlloc(heap)} :
       NotCreated(p) \/ Unopened(p) \/ Unloaded(p) \/ Loaded(p, created')
  /\ UNCHANGED <<forks, orphaned>>

\* The child's own tables are forgotten for the parent's.
Fork(s) ==
  /\ heap.ok /\ proc[s] # Nobody /\ forks < MaxForks
  /\ forks' = forks + 1
  /\ \E c \in {ProcessAlloc(heap)} :
       \/ /\ heap' = [c.heap EXCEPT !.ok = FALSE]    \* NULL, or no FIFO
          /\ UNCHANGED <<proc, lost>>
       \/ /\ c.at # NULL
          /\ heap' = [c.heap EXCEPT !.tables[c.at[1]] = heap.tables[s]]
          /\ proc' = [proc EXCEPT ![c.at[1]] = [family |-> proc[s].family, child |-> TRUE]]
          /\ lost' = lost \cup Tables(c.heap, c.at[1])
  /\ UNCHANGED <<created, stored, orphaned>>

\* DestroyProcess, for the process that a terminal created; no terminal knows
\* the Pid of a child.
DestroyProcess(s) ==
  LET f    == proc[s].family
      high == heap.tables[s]
      low  == heap.ptr[high][0]
      kept == IF low \notin Entry THEN {}
              ELSE {heap.ptr[low][n] : n \in {m \in PageNo \ Leading(heap, low) : heap.ptr[low][m] # NULL}}
  IN  /\ heap.ok /\ proc[s] # Nobody /\ ~proc[s].child
      /\ heap' = ProcessDealloc(heap, s)
      /\ proc' = [proc EXCEPT ![s] = Nobody]
      /\ lost' = lost \cup kept
      /\ orphaned' = IF \E c \in Slot \ {s} : proc[c].family = f THEN orphaned \cup {f} ELSE orphaned
      /\ UNCHANGED <<created, forks, stored>>

Next == \/ CreateProcess
        \/ \E s \in Slot : Fork(s) \/ DestroyProcess(s) \/ \E n \in PageNo : Access(s, n)

Spec == Init /\ [][Next]_vars
-----------------------------------------------------------------------------
Records == {s \in Slot : proc[s] # Nobody}
Sound   == heap.ok /\ orphaned = {}

\* Records lie in slots that are in use, after Pages and Processes.
TypeOK == /\ heap \in Heap
          /\ proc \in [Slot -> [family : {0} \cup Family, child : BOOLEAN]]
          /\ created \in 0..MaxFamily /\ forks \in 0..MaxForks
          /\ stored \in [Family -> SUBSET PageNo]
          /\ lost \subseteq {<<s>> : s \in Slot} \cup Entry /\ orphaned \subseteq Family
          /\ heap.ok => \A s \in Records : s > 1 /\ ~heap.free[s] /\ heap.tables[s] # NULL

\* The page with number n of the process in slot s, NULL if it has none.
Page(s, n) == LET low == heap.ptr[heap.tables[s]][0]
              IN  IF low = NULL THEN NULL ELSE heap.ptr[low][n]

(***************************************************************************)
(* A process reads what its family stored last, and never what another     *)
(* stored, however records, tables and pages are freed and reused - for as *)
(* long as no process was destroyed before the children it forked          *)
(* (libemulator.c:82-301, lib8080.c:1140-1172).                            *)
(***************************************************************************)
MemoryIntact ==
  Sound => \A s \in Records, n \in PageNo :
    LET f == proc[s].family
        p == Page(s, n)
    IN  IF n \in stored[f] THEN p # NULL /\ heap.cell[p[1]] = f
        ELSE p # NULL => heap.cell[p[1]] \in {0, JUNK}

(***************************************************************************)
(* No slot has two uses: the page with one number in one table, whether    *)
(* the table is in use or was freed, is in no other place and not free, no *)
(* pool page, no record and not Processes.  This is so for as long as the  *)
(* program runs, also when a process was destroyed before the children it  *)
(* forked, whose tables others get then (libemulator.c:52-206, 221-255).   *)
(***************************************************************************)
Places == {k \in Entry \X PageNo : heap.ptr[k[1]][k[2]] \in {<<s>> : s \in Slot}}

SlotsApart ==
  heap.ok => LET pools == {Pools(heap)[i] : i \in DOMAIN Pools(heap)}
                 At(k) == heap.ptr[k[1]][k[2]][1]
             IN  /\ \A k \in Places : ~heap.free[At(k)] /\ At(k) \notin pools \cup Records \cup {1}
                 /\ \A j, k \in Places : At(j) = At(k) => j = k
                 /\ pools \cap (Records \cup {1}) = {} /\ \A s \in pools \cup {1} : ~heap.free[s]

(***************************************************************************)
(* Every slot in use is a pool page, Processes, a record, a page of one    *)
(* family's memory, or one of those the code is known to lose: the record  *)
(* of a creation that failed, a page above a hole (libemulator.c:138, 221, *)
(* 343).                                                                   *)
(***************************************************************************)
PagesOf(f) == UNION {{Page(s, n)[1] : n \in {m \in PageNo : Page(s, m) # NULL}} :
                       s \in {r \in Records : proc[r].family = f}}

SlotsAccounted ==
  Sound => LET parts == <<{Pools(heap)[i] : i \in DOMAIN Pools(heap)}, {1}, Records,
                          UNION {PagesOf(f) : f \in Family}, {s \in Slot : <<s>> \in lost}>>
           IN  /\ {s \in Slot : ~heap.free[s]} = UNION {parts[i] : i \in DOMAIN parts}
               /\ \A i, j \in DOMAIN parts : i # j => parts[i] \cap parts[j] = {}
               /\ \A f, g \in Family : f # g => PagesOf(f) \cap PagesOf(g) = {}

(***************************************************************************)
(* Every table in use is the high table of one family, its page table, or  *)
(* one of those a fork or a creation without a program left behind; each   *)
(* has the type it is used as (libemulator.c:82-206, lib8080.c:1142).      *)
(***************************************************************************)
TablesAccounted ==
  Sound => LET high == {heap.tables[s] : s \in Records}
               low  == {heap.ptr[e][0] : e \in high} \ {NULL}
           IN  /\ {e \in Entry : heap.type[e] # "FREE"} = high \cup low \cup (lost \cap Entry)
               /\ \A e \in high : heap.type[e] = "HIGH_PAGE_TABLE"
               /\ \A e \in low : heap.type[e] = "PAGE_TABLE"
               /\ (high \cup low) \cap lost = {}
               /\ Cardinality(high) = Cardinality({proc[s].family : s \in Records})
=============================================================================
