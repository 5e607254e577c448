------------------------------ MODULE PagePool ------------------------------
(***************************************************************************)
(* The page pool of src/src/libemulator.c: 128 MiB from calloc cut into    *)
(* slots of a 16-byte header and 4096 bytes.  A slot holds a page of       *)
(* 8080 memory, a page of page tables or a struct Process.  PageAlloc      *)
(* hands out the first slot whose header says FREE.  The main thread and   *)
(* the HTTP request threads call it, without a lock.                       *)
(*                                                                         *)
(* PageAlloc clears 4096 bytes from Header + sizeof(Page).  Header is a    *)
(* Page *, so that is 16 * 16 bytes past the header: what is cleared is    *)
(* the slot from byte 256 on and bytes 0..239 of the NEXT slot, its header *)
(* and a struct Process with it (line 70).                                 *)
(***************************************************************************)
EXTENDS Naturals

CONSTANTS Thread,
          NSlots,    \* slots that start below MEM_LIMIT (32641 in the code)
          PageSize,  \* sizeof(Page) + 4096
          MemSize,   \* MEM_SIZE
          LogSize    \* the size of AllPages (32768)

ASSUME PoolAssumption ==
  /\ NSlots \in Nat \ {0} /\ PageSize \in Nat /\ MemSize \in Nat /\ LogSize \in Nat
  /\ (NSlots - 1) * PageSize < MemSize /\ MemSize <= NSlots * PageSize

VARIABLES free,     \* free[s]: the header of slot s has Type = FREE
          content,  \* what bytes 16..239 of slot s hold
          pc,       \* where each thread is in PageAlloc
          cursor,   \* its Cursor, as a slot number
          PageNum,  \* entries written to AllPages, counted up to LogSize
          held,     \* history: allocations of slot s that are in use
          gapFilled \* history: a slot was handed out just below one in use

vars == <<free, content, pc, cursor, PageNum, held, gapFilled>>

Slot    == 0..(NSlots - 1)
Content == {"zero", "data"}
InUse   == {s \in Slot : held[s] > 0}

TypeOK == /\ free \in [Slot -> BOOLEAN]
          /\ content \in [Slot -> Content]
          /\ pc \in [Thread -> {"idle", "test", "mark", "log", "clear"}]
          /\ cursor \in [Thread -> 0..NSlots]
          /\ PageNum \in 0..LogSize
          /\ held \in [Slot -> Nat]
          /\ gapFilled \in BOOLEAN

Init == /\ free = [s \in Slot |-> TRUE]
        /\ content = [s \in Slot |-> "zero"]
        /\ pc = [t \in Thread |-> "idle"]
        /\ cursor = [t \in Thread |-> 0]
        /\ PageNum = 0
        /\ held = [s \in Slot |-> 0]
        /\ gapFilled = FALSE

Step(t, from, to) == pc[t] = from /\ pc' = [pc EXCEPT ![t] = to]
-----------------------------------------------------------------------------
\* Bound: nothing more is handed out once a slot has two owners.
PageAlloc(t) == /\ Step(t, "idle", "test")
                /\ \A s \in Slot : held[s] <= 1
                /\ cursor' = [cursor EXCEPT ![t] = 0]
                /\ UNCHANGED <<free, content, PageNum, held, gapFilled>>

TestFree(t) == /\ cursor[t] < NSlots
               /\ free[cursor[t]]
               /\ Step(t, "test", "mark")
               /\ UNCHANGED <<free, content, cursor, PageNum, held, gapFilled>>

TestNext(t) == /\ cursor[t] < NSlots
               /\ ~free[cursor[t]]
               /\ Step(t, "test", "test")
               /\ cursor' = [cursor EXCEPT ![t] = @ + 1]
               /\ UNCHANGED <<free, content, PageNum, held, gapFilled>>

\* Mutant of NoneFree: the last slot is not looked at.
NoneFreeEarly(t) == /\ cursor[t] = NSlots - 1
                    /\ Step(t, "test", "idle")
                    /\ UNCHANGED <<free, content, cursor, PageNum, held, gapFilled>>

\* Past the last slot: PageAlloc returns NULL.
NoneFree(t) == /\ cursor[t] = NSlots
               /\ Step(t, "test", "idle")
               /\ UNCHANGED <<free, content, cursor, PageNum, held, gapFilled>>

\* Mutant of Mark: the header goes on saying FREE.
MarkNot(t) == /\ Step(t, "mark", "log")
              /\ UNCHANGED <<free, content, cursor, PageNum, held, gapFilled>>

Mark(t) == /\ Step(t, "mark", "log")
           /\ free' = [free EXCEPT ![cursor[t]] = FALSE]
           /\ UNCHANGED <<content, cursor, PageNum, held, gapFilled>>

\* AllPages[PageNum++] = Cursor.  Nothing reads the log, nothing checks
\* its bound and nothing is ever taken out of it.
Log(t) == /\ Step(t, "log", "clear")
          /\ PageNum' = IF PageNum < LogSize THEN PageNum + 1 ELSE PageNum
          /\ UNCHANGED <<free, content, cursor, held, gapFilled>>

\* memset(Header + sizeof(Page), 0, 4096), and the slot is the caller's.
Clear(t) == /\ Step(t, "clear", "idle")
            /\ free' = [s \in Slot |-> IF s = cursor[t] + 1 THEN TRUE ELSE free[s]]
            /\ content' = [s \in Slot |-> IF s = cursor[t] + 1 THEN "zero" ELSE content[s]]
            /\ held' = [held EXCEPT ![cursor[t]] = @ + 1]
            /\ gapFilled' = (gapFilled \/ cursor[t] + 1 \in InUse)
            /\ UNCHANGED <<cursor, PageNum>>

\* The program, or the process record's owner, stores something.
Use(s) == /\ held[s] > 0
          /\ content' = [content EXCEPT ![s] = "data"]
          /\ UNCHANGED <<free, pc, cursor, PageNum, held, gapFilled>>

\* Mutant of PageDealloc: it clears as far into the next slot as PageAlloc.
PageDeallocFar(s) == /\ held[s] > 0
                     /\ free' = [free EXCEPT ![s] = TRUE]
                     /\ content' = [r \in Slot |-> IF r \in {s, s + 1} THEN "zero"
                                                   ELSE content[r]]
                     /\ held' = [held EXCEPT ![s] = @ - 1]
                     /\ UNCHANGED <<pc, cursor, PageNum, gapFilled>>

PageDealloc(s) == /\ held[s] > 0
                  /\ free' = [free EXCEPT ![s] = TRUE]
                  /\ content' = [content EXCEPT ![s] = "zero"]
                  /\ held' = [held EXCEPT ![s] = @ - 1]
                  /\ UNCHANGED <<pc, cursor, PageNum, gapFilled>>

\* ProcessDealloc's memset(Header, 0, sizeof(Page)) clears the slot's header
\* and no more.
ProcessDealloc(s) == /\ held[s] > 0
                     /\ free' = [free EXCEPT ![s] = TRUE]
                     /\ held' = [held EXCEPT ![s] = @ - 1]
                     /\ UNCHANGED <<content, pc, cursor, PageNum, gapFilled>>
-----------------------------------------------------------------------------
Scan(t) == TestFree(t) \/ TestNext(t) \/ NoneFree(t) \/ Mark(t) \/ Log(t) \/ Clear(t)

Owner(s) == Use(s) \/ PageDealloc(s) \/ ProcessDealloc(s)

Quiescent == \A t \in Thread : pc[t] = "idle"

\* The behaviours in which nothing happens while PageAlloc is under way: two
\* threads that test a header before either marks it get the same slot.
SerialNext == \/ \E t \in Thread : Scan(t)
              \/ Quiescent /\ \/ \E t \in Thread : PageAlloc(t)
                              \/ \E s \in Slot : Owner(s)

SerialSpec == Init /\ [][SerialNext]_vars
-----------------------------------------------------------------------------
(***************************************************************************)
(* No slot is handed out while it is in use.                               *)
(***************************************************************************)
Exclusive == \A s \in Slot : held[s] <= 1

(***************************************************************************)
(* Serial callers get exclusive slots, and the header's FREE means what it *)
(* says, for as long as no slot was handed out just below one in use       *)
(* (libemulator.c:52-80).                                                  *)
(***************************************************************************)
ExclusiveUpward ==
  ~gapFilled => Exclusive /\ (Quiescent => \A s \in Slot : free[s] <=> held[s] = 0)

\* The slots a PageAlloc under way has marked.
Taken == {cursor[t] : t \in {u \in Thread : pc[u] \in {"log", "clear"}}}

\* The inductive invariant of SerialSpec.
AllocOK == /\ \A t, u \in Thread : pc[t] # "idle" /\ pc[u] # "idle" => t = u
           /\ \A t \in Thread : pc[t] \in {"mark", "log", "clear"} => cursor[t] < NSlots

UpwardOK == ~gapFilled =>
  /\ \A s \in Slot : held[s] <= 1 /\ (free[s] <=> held[s] = 0 /\ s \notin Taken)
  /\ \A t \in Thread :
       /\ pc[t] = "mark" => free[cursor[t]]
       /\ pc[t] \in {"log", "clear"} => held[cursor[t]] = 0
       /\ pc[t] = "test" => \A s \in Slot : s < cursor[t] => ~free[s]

IInv == TypeOK /\ AllocOK /\ UpwardOK

(***************************************************************************)
(* PageAlloc returns NULL only when every slot is in use.                  *)
(***************************************************************************)
FailsOnlyWhenFull ==
  [][\A t \in Thread : ~gapFilled /\ pc[t] = "test" /\ pc'[t] = "idle"
       => InUse = Slot]_vars

(***************************************************************************)
(* What an owner stored stays until the slot is given back.                *)
(***************************************************************************)
StoresKept ==
  [][\A s \in Slot : ~gapFilled' /\ held[s] > 0 /\ held'[s] > 0 /\ content[s] = "data"
       => content'[s] = "data"]_vars
=============================================================================
