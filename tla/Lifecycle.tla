----------------------------- MODULE Lifecycle -----------------------------
(***************************************************************************)
(* The life of a process: created by an HTTP request, run by the           *)
(* scheduler's loop, read by the polls of its terminal and destroyed by    *)
(* the poll that finds it halted (src/src/emulator.c, libemulator.c and    *)
(* libemunet.c).  The main thread and one thread for each request share    *)
(* the process records, the process table, the ready queue and the file    *)
(* descriptors, without a lock; an action ends where another thread can    *)
(* make a difference.                                                      *)
(*                                                                         *)
(* A program is any sequence of instructions that compute, write a byte,   *)
(* fork or halt, and so is what a record executes that was destroyed while *)
(* the scheduler held it or had it queued: its tables are cleared, or the  *)
(* next process's.  The ready queue is FifoQueue, which ReadyQueueProofs   *)
(* shows libscheduler.c to implement for calls that do not overlap.        *)
(***************************************************************************)
EXTENDS Naturals, Sequences

CONSTANTS Rec,      \* the slots of the page pool that hold process records
          Fd,       \* file descriptors, one for the In and Out of a process
          Thread,   \* HTTP request threads
          NULL,
          CanFork,  \* whether the programs fork
          Nul,      \* which bytes of the programs' output are 0
          MaxRead,  \* how much one poll reads (9000 in the code)
          PipeCap,  \* how much a FIFO holds (65536 in Linux)
          FirstPid, \* how many creations failed before, each of which took a Pid
          MaxPid,   \* bound: Pids given out
          MaxOut    \* bound: bytes written by a process and its children

ASSUME LifecycleAssumption ==
  /\ NULL \notin Rec \cup Fd \cup 0..MaxPid /\ CanFork \in BOOLEAN
  /\ MaxRead \in Nat \ {0} /\ PipeCap \in Nat \ {0} /\ MaxOut \in Nat
  /\ MaxPid \in 0..999 /\ FirstPid \in 0..MaxPid

VARIABLES rec,       \* the process records
          used,      \* the slots whose header is not FREE
          table,     \* ProcessTable: the records ever added, none is taken out
          ready,     \* the ready queue
          current,   \* the scheduler's CurrentProcess
          main,      \* where the main thread is
          ProcessId, \* the next Pid
          open,      \* open[f]: whose FIFOs descriptor f refers to
          fifo,      \* fifo[k]: the bytes in the Out FIFO of Pid k
          th,        \* the request threads
          terminal,  \* what the terminal of Pid k knows of it (desktop.html)
          sent,      \* the bytes the answers to its polls carried
          wrote      \* history: what became of each byte Pid k and its children wrote

kernel == <<rec, used, table, ready, current, main, ProcessId, open, fifo, wrote>>
client == <<terminal, sent>>
vars   == <<kernel, th, client>>

Pid  == 0..MaxPid
Byte == Pid \X (1..MaxOut)   \* history: whose output, and its place in it

\* It is in the FIFO, or the FIFO was full or closed; "stray" where a record
\* that was destroyed wrote or forked.
Fate == {"kept", "lost", "stray"}

\* home: the Pid whose FIFOs the process was given.
Record == [state : {"run", "halted"}, Pid : Pid, fd : Fd \cup {NULL}, home : Pid]
Blank  == [state |-> "run", Pid |-> 0, fd |-> NULL, home |-> 0]

Idle == [pc |-> "idle", p |-> NULL, pid |-> 0, n |-> 0, bytes |-> <<>>]

TypeOK == /\ rec \in [Rec -> Record]
          /\ used \in SUBSET Rec /\ table \in SUBSET Rec
          /\ ready \in Seq(Rec) /\ current \in Rec \cup {NULL}
          /\ main \in {"dequeue", "test", "execute", "clock"}
          /\ ProcessId \in 0..(MaxPid + 1)
          /\ open \in [Fd -> Pid \cup {NULL}]
          /\ fifo \in [Pid -> Seq(Byte)]
          /\ th \in [Thread -> [pc : {"idle", "add", "insert", "ioctl", "read", "test",
                                      "close", "dealloc", "200", "201"},
                                p : Rec \cup {NULL}, pid : Pid, n : 0..MaxRead,
                                bytes : Seq(Byte)]]
          /\ terminal \in [Pid -> {"none", "running", "over"}]
          /\ sent \in [Pid -> Seq(Byte)]
          /\ wrote \in [Pid -> Seq(Fate)]

Init == /\ rec = [r \in Rec |-> Blank]
        /\ used = {} /\ table = {}
        /\ ready = <<>> /\ current = NULL
        /\ main = "dequeue"
        /\ ProcessId = FirstPid
        /\ open = [f \in Fd |-> NULL]
        /\ fifo = [k \in Pid |-> <<>>]
        /\ th = [t \in Thread |-> Idle]
        /\ terminal = [k \in Pid |-> "none"]
        /\ sent = [k \in Pid |-> <<>>]
        /\ wrote = [k \in Pid |-> <<>>]

Ready == INSTANCE FifoQueue WITH Proc <- Rec, queue <- ready, got <- current

\* PageAlloc in ProcessAlloc: any slot that is FREE; open: any descriptor
\* that is not in use.
FreeRec == Rec \ used
FreeFd  == {f \in Fd : open[f] = NULL}

\* FindInProcessTable: a record of the table that has the Pid now.
Find(k) == {r \in table : rec[r].Pid = k}
-----------------------------------------------------------------------------
(***************************************************************************)
(* The scheduler: the loop of main().                                      *)
(***************************************************************************)
Dequeue == /\ main = "dequeue"
           /\ Ready!Take \/ Ready!TakeNothing
           /\ main' = IF current' = NULL THEN "dequeue" ELSE "test"
           /\ UNCHANGED <<rec, used, table, ProcessId, open, fifo, wrote, th, client>>

TestState == /\ main = "test"
             /\ main' = IF rec[current].state = "halted" THEN "dequeue" ELSE "execute"
             /\ UNCHANGED <<rec, used, table, ready, current, ProcessId, open, fifo,
                            wrote, th, client>>

\* The opcode was fetched before the state was tested.
Execute == main = "execute" /\ main' = "clock"

Compute == /\ Execute
           /\ UNCHANGED <<rec, used, table, ready, current, ProcessId, open, fifo,
                          wrote, th, client>>

Room(f) == f # NULL /\ open[f] # NULL /\ Len(fifo[open[f]]) < PipeCap

\* Output writes to the descriptor, whatever it refers to by now; the FIFO is
\* O_NONBLOCK, and a write to a full one fails.
Output == LET q == rec[current]
              k == q.home
          IN  /\ Execute
              /\ Len(wrote[k]) < MaxOut
              /\ wrote' = [wrote EXCEPT ![k] = Append(@, IF current \notin used THEN "stray"
                                                        ELSE IF Room(q.fd) THEN "kept" ELSE "lost")]
              /\ IF Room(q.fd) THEN fifo' = [fifo EXCEPT ![open[q.fd]] = Append(@, <<k, Len(wrote[k]) + 1>>)]
                 ELSE UNCHANGED fifo
              /\ UNCHANGED <<rec, used, table, ready, current, ProcessId, open, th, client>>

Halt == /\ Execute
        /\ rec' = [rec EXCEPT ![current].state = "halted"]
        /\ UNCHANGED <<used, table, ready, current, ProcessId, open, fifo, wrote, th, client>>

\* ProcessAlloc gives the child a Pid and opens FIFOs for it; Fork gives it
\* another Pid and its parent's descriptors, and the first ones stay open.
Fork == /\ Execute
        /\ CanFork /\ ProcessId < MaxPid
        /\ \E c \in FreeRec, f \in FreeFd :
             /\ rec' = [rec EXCEPT ![c] = [rec[current] EXCEPT !.Pid = ProcessId + 1]]
             /\ used' = used \cup {c}
             /\ table' = table \cup {c}
             /\ open' = [open EXCEPT ![f] = ProcessId]
             /\ Ready!Insert(c)
        /\ ProcessId' = ProcessId + 2
        /\ wrote' = IF current \in used THEN wrote
                    ELSE [wrote EXCEPT ![rec[current].home] = Append(@, "stray")]
        /\ UNCHANGED <<fifo, th, client>>

\* Mutant of Preempt: the process is not put back.
PreemptOnly == /\ main = "clock"
               /\ main' = "dequeue"
               /\ UNCHANGED <<rec, used, table, ready, current, ProcessId, open, fifo,
                              wrote, th, client>>

\* More than 4 seconds since the process was dequeued.
Preempt == /\ main = "clock"
           /\ main' = "dequeue"
           /\ Ready!Insert(current)
           /\ UNCHANGED <<rec, used, table, ProcessId, open, fifo, wrote, th, client>>

GoOn == /\ main = "clock"
        /\ main' = "test"
        /\ UNCHANGED <<rec, used, table, ready, current, ProcessId, open, fifo, wrote,
                       th, client>>

Main == Dequeue \/ TestState \/ Compute \/ Output \/ Halt \/ Fork \/ Preempt \/ GoOn
-----------------------------------------------------------------------------
(***************************************************************************)
(* HTTPCreateProcess and CreateProcess.                                    *)
(***************************************************************************)
At(t, pc)     == th[t].pc = pc
Become(t, pc) == th' = [th EXCEPT ![t].pc = pc]
Done(t)       == th' = [th EXCEPT ![t] = Idle]

\* ProcessAlloc, the fields CreateProcess sets and the program.
ProcessAlloc(t) ==
  /\ At(t, "idle")
  /\ ProcessId <= MaxPid
  /\ \E r \in FreeRec, f \in FreeFd :
       /\ used' = used \cup {r}
       /\ rec' = [rec EXCEPT ![r] = [state |-> "run", Pid |-> ProcessId, fd |-> f, home |-> ProcessId]]
       /\ open' = [open EXCEPT ![f] = ProcessId]
       /\ th' = [th EXCEPT ![t] = [Idle EXCEPT !.pc = "add", !.p = r]]
  /\ ProcessId' = ProcessId + 1
  /\ UNCHANGED <<table, ready, current, main, fifo, wrote, client>>

AddToProcessTable(t) ==
  /\ At(t, "add")
  /\ table' = table \cup {th[t].p}
  /\ Become(t, "insert")
  /\ UNCHANGED <<rec, used, ready, current, main, ProcessId, open, fifo, wrote, client>>

\* QueueInsert, and the response tells the terminal the Pid.
QueueInsert(t) ==
  /\ At(t, "insert")
  /\ Ready!Insert(th[t].p)
  /\ terminal' = [terminal EXCEPT ![rec[th[t].p].Pid] = "running"]
  /\ Done(t)
  /\ UNCHANGED <<rec, used, table, main, ProcessId, open, fifo, wrote, sent>>

Create(t) == ProcessAlloc(t) \/ AddToProcessTable(t) \/ QueueInsert(t)
-----------------------------------------------------------------------------
(***************************************************************************)
(* ReadProcessStream, for one poll of the terminal of Pid k.               *)
(***************************************************************************)
Poll(t, k) ==
  /\ At(t, "idle")
  /\ terminal[k] # "none"
  /\ \E r \in Find(k) :
       th' = [th EXCEPT ![t] = [Idle EXCEPT !.pc = "ioctl", !.p = r, !.pid = k]]
  /\ UNCHANGED <<kernel, client>>

\* What the FIFO behind a descriptor holds.
Available(f) == IF f # NULL /\ open[f] # NULL THEN fifo[open[f]] ELSE <<>>
Least(i, j)  == IF i < j THEN i ELSE j

Ioctl(t) ==
  /\ At(t, "ioctl")
  /\ th' = [th EXCEPT ![t].pc = "read",
                      ![t].n = Least(Len(Available(rec[th[t].p].fd)), MaxRead)]
  /\ UNCHANGED <<kernel, client>>

\* Mutant of Read: the bytes stay in the FIFO.
ReadPeeks(t) ==
  LET f == rec[th[t].p].fd
      n == Least(th[t].n, Len(Available(f)))
  IN  /\ At(t, "read")
      /\ th' = [th EXCEPT ![t].pc = "test", ![t].bytes = SubSeq(Available(f), 1, n)]
      /\ UNCHANGED <<kernel, client>>

\* At most n bytes, and no more than there are by now.
Read(t) ==
  LET f == rec[th[t].p].fd
      n == Least(th[t].n, Len(Available(f)))
  IN  /\ At(t, "read")
      /\ th' = [th EXCEPT ![t].pc = "test", ![t].bytes = SubSeq(Available(f), 1, n)]
      /\ IF n = 0 THEN UNCHANGED fifo
         ELSE fifo' = [fifo EXCEPT ![open[f]] = SubSeq(@, n + 1, Len(@))]
      /\ UNCHANGED <<rec, used, table, ready, current, main, ProcessId, open, wrote, client>>

\* Mutants of TestHalted: without the state, and with the count turned around.
TestRead(t) ==
  /\ At(t, "test")
  /\ Become(t, IF th[t].n # MaxRead THEN "close" ELSE "200")
  /\ UNCHANGED <<kernel, client>>

TestHaltedFull(t) ==
  /\ At(t, "test")
  /\ Become(t, IF rec[th[t].p].state = "halted" /\ th[t].n = MaxRead
               THEN "close" ELSE "200")
  /\ UNCHANGED <<kernel, client>>

\* state == -1 && BytesAvailable != 9000
TestHalted(t) ==
  /\ At(t, "test")
  /\ Become(t, IF rec[th[t].p].state = "halted" /\ th[t].n # MaxRead
               THEN "close" ELSE "200")
  /\ UNCHANGED <<kernel, client>>

\* DestroyProcess(Pinfo->Pid): the Pid the record has now is looked up again.
Close(t) ==
  /\ At(t, "close")
  /\ \E r \in Find(rec[th[t].p].Pid) :
       /\ th' = [th EXCEPT ![t].pc = "dealloc", ![t].p = r]
       /\ open' = [f \in Fd |-> IF f = rec[r].fd THEN NULL ELSE open[f]]
       /\ fifo' = [k \in Pid |-> IF \E f \in Fd : open[f] = k /\ open'[f] = NULL
                                 THEN <<>> ELSE fifo[k]]
  /\ UNCHANGED <<rec, used, table, ready, current, main, ProcessId, wrote, client>>

\* ProcessDealloc clears the tables, and the first 16 bytes of the record:
\* the slot is FREE and state is 0; pc, Pid, In, Out and PageTables stay what
\* they were, and so does the record's place in the ready queue.
ProcessDealloc(t) ==
  /\ At(t, "dealloc")
  /\ used' = used \ {th[t].p}
  /\ rec' = [rec EXCEPT ![th[t].p].state = "run"]
  /\ Become(t, "201")
  /\ UNCHANGED <<table, ready, current, main, ProcessId, open, fifo, wrote, client>>

Digits(k) == IF k < 10 THEN 1 ELSE IF k < 100 THEN 2 ELSE 3

\* Whether m bytes get through: strcat ends the text before a byte 0, and
\* Content-Length leaves room for a Pid of one digit.
Carries(t, m) == m = 0 \/ /\ m + Digits(th[t].pid) <= th[t].n + 1
                          /\ \A i \in 1..m : th[t].bytes[i] \notin Nul

\* The response; what the page shows of it is Terminal's matter.
Respond(t) ==
  /\ th[t].pc \in {"200", "201"}
  /\ \E m \in 0..Len(th[t].bytes) :
       /\ Carries(t, m) /\ (m < Len(th[t].bytes) => ~Carries(t, m + 1))
       /\ sent' = [sent EXCEPT ![th[t].pid] = @ \o SubSeq(th[t].bytes, 1, m)]
  /\ terminal' = IF At(t, "201") THEN [terminal EXCEPT ![th[t].pid] = "over"] ELSE terminal
  /\ Done(t)
  /\ UNCHANGED kernel

Answer(t) == \/ Ioctl(t) \/ Read(t) \/ TestHalted(t) \/ Close(t) \/ ProcessDealloc(t)
             \/ Respond(t)
-----------------------------------------------------------------------------
Next == \/ Main
        \/ \E t \in Thread : Create(t) \/ Answer(t) \/ \E k \in Pid : Poll(t, k)

Spec == Init /\ [][Next]_vars

\* A terminal that sends a poll only when the one before was answered, and
\* none once it was told that the process is over.
Polled(k) == \/ terminal[k] = "over"
             \/ \E t \in Thread : th[t].pid = k /\ th[t].pc \notin {"idle", "add", "insert"}

OnePollNext == \/ Main
               \/ \E t \in Thread : \/ Create(t) \/ Answer(t)
                                    \/ \E k \in Pid : ~Polled(k) /\ Poll(t, k)

OnePollSpec == Init /\ [][OnePollNext]_vars

\* The main loop never stops, 4 seconds always pass, every request thread
\* goes on, and a terminal polls again and again.
Fairness == /\ WF_vars(Main) /\ SF_vars(Preempt)
            /\ \A t \in Thread : WF_vars(AddToProcessTable(t) \/ QueueInsert(t) \/ Answer(t))
            /\ \A k \in Pid : SF_vars(\E t \in Thread : ~Polled(k) /\ Poll(t, k))

FairSpec == OnePollSpec /\ Fairness
-----------------------------------------------------------------------------
Queued == {ready[i] : i \in 1..Len(ready)}

(***************************************************************************)
(* No process is forgotten: one that has not halted is the one being run,  *)
(* waits in the ready queue or is still being created, whatever polls,     *)
(* destroys and reuses of its record happen meanwhile (emulator.c:62-103,  *)
(* libemulator.c:303-376).                                                 *)
(***************************************************************************)
NeverForgotten ==
  \A r \in used : rec[r].state = "run" =>
    \/ r \in Queued
    \/ current = r /\ main # "dequeue"
    \/ \E t \in Thread : th[t].p = r /\ th[t].pc \in {"add", "insert"}

(***************************************************************************)
(* A poll destroys only a process that has halted, though it tests the     *)
(* state before and looks the Pid up again after (libemunet.c:366-383).    *)
(***************************************************************************)
DestroysOnlyHalted ==
  [][\A r \in used \ used' : rec[r].state = "halted"]_vars

\* A record that was destroyed ran on, and has written or forked.
Strayed == \E k \in Pid : \E n \in 1..Len(wrote[k]) : wrote[k][n] = "stray"

Sent(k) == {sent[k][i][2] : i \in 1..Len(sent[k])}

\* A byte that was written is not sent: its FIFO was full; or it was read with
\* a byte 0 before it, and all from there; or the Pid has several digits.
Dropped(k, m) == \/ wrote[k][m] = "lost"
                 \/ \E j \in 1..m : <<k, j>> \in Nul /\ wrote[k][j] = "kept" /\ Sent(k) \cap (j..m) = {}
                 \/ Digits(k) > 1

(***************************************************************************)
(* A terminal is sent what its own process wrote, from the first byte, in  *)
(* order, nothing twice, and nothing left out but what a full FIFO, a byte *)
(* 0 or Content-Length costs; until a record that was destroyed writes     *)
(* (libemunet.c:374-399, lib8080.c:1127-1131).                             *)
(***************************************************************************)
SentInOrder ==
  ~Strayed =>
    \A k \in Pid : \A i \in 1..Len(sent[k]) :
      /\ sent[k][i][1] = k
      /\ \A j \in 1..(i - 1) : sent[k][j][2] < sent[k][i][2]
      /\ \A m \in 1..(sent[k][i][2] - 1) : m \in Sent(k) \/ Dropped(k, m)

(***************************************************************************)
(* A terminal is never sent the output of another terminal's process, even *)
(* when no destroyed record runs on.                                       *)
(***************************************************************************)
SentOwn ==
  ~Strayed => \A k \in Pid : \A i \in 1..Len(sent[k]) : sent[k][i][1] = k

(***************************************************************************)
(* A process in the ready queue gets its turn.                             *)
(***************************************************************************)
ReadyRuns == \A r \in Rec : r \in Queued ~> current = r

(***************************************************************************)
(* The terminal of a process that has halted is told so in the end, if it  *)
(* keeps polling: also when a poll reads all it can and leaves the test    *)
(* to the next (libemunet.c:382).                                          *)
(***************************************************************************)
HaltIsReported ==
  \A k \in Pid :
    terminal[k] = "running" /\ (\E r \in Find(k) \cap used : rec[r].state = "halted")
      ~> terminal[k] = "over"
=============================================================================
