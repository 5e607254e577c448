---------------------------- MODULE LifecycleProofs ----------------------------
(***************************************************************************)
(* Theorems about Lifecycle, for any number of records, descriptors,       *)
(* request threads and Pids.                                               *)
(***************************************************************************)
EXTENDS Lifecycle, TLAPS

Job == [pc : {"idle", "add", "insert", "ioctl", "read", "test",
              "close", "dealloc", "200", "201"},
        p : Rec \cup {NULL}, pid : Pid, n : 0..MaxRead, bytes : Seq(Byte)]

\* What the scheduler runs and what a thread works on is a record.
RefersOK == /\ main # "dequeue" => current \in Rec
            /\ \A t \in Thread : th[t].pc # "idle" => th[t].p \in Rec

\* What the steps do to a thread's record keeps its type.
LEMMA Put == ASSUME NEW f \in [Thread -> Job], NEW t \in Thread, NEW r \in Job
             PROVE  /\ [f EXCEPT ![t] = r] \in [Thread -> Job]
                    /\ [f EXCEPT ![t] = r][t] = r
                    /\ \A s \in Thread : s # t => [f EXCEPT ![t] = r][s] = f[s]
  OBVIOUS

LEMMA Jobs == TypeOK => th \in [Thread -> Job]
  BY DEF TypeOK, Job

LEMMA Bound == MaxPid \in Nat /\ FirstPid \in Nat /\ FirstPid <= MaxPid
<1>1. MaxPid \in 0..999 /\ FirstPid \in 0..MaxPid
  BY LifecycleAssumption
<1> QED BY <1>1

LEMMA Zero == 0 \in Pid /\ Idle \in Job
<1>1. 0 \in Pid /\ 0 \in 0..MaxRead
  BY LifecycleAssumption DEF Pid
<1>2. <<>> \in Seq(Byte)
  OBVIOUS
<1> QED BY <1>1, <1>2 DEF Idle, Job

LEMMA SetPc ==
  ASSUME th \in [Thread -> Job], NEW t \in Thread,
         NEW pc \in {"idle", "add", "insert", "ioctl", "read", "test", "close", "dealloc", "200", "201"}
  PROVE  [th EXCEPT ![t].pc = pc] \in [Thread -> Job]
<1>1. th[t] \in Job
  OBVIOUS
<1>2. [th[t] EXCEPT !.pc = pc] \in Job
  BY <1>1 DEF Job
<1> QED BY <1>2, Put

\* A step of thread t that changes its pc and nothing else of it.
LEMMA BecomeEffect ==
  ASSUME TypeOK, NEW t \in Thread, NEW pc, Become(t, pc)
  PROVE  /\ th'[t].pc = pc /\ th'[t].p = th[t].p /\ th'[t].pid = th[t].pid
         /\ th'[t].n = th[t].n /\ th'[t].bytes = th[t].bytes
         /\ \A s \in Thread : s # t => th'[s] = th[s]
<1>1. th[t] \in Job /\ th \in [Thread -> Job]
  BY Jobs
<1>2. th' = [th EXCEPT ![t] = [th[t] EXCEPT !.pc = pc]]
  BY DEF Become
<1>3. th'[t] = [th[t] EXCEPT !.pc = pc] /\ \A s \in Thread : s # t => th'[s] = th[s]
  BY <1>1, <1>2
<1> QED BY <1>1, <1>3 DEF Job

-----------------------------------------------------------------------------
(***************************************************************************)
(* Types.                                                                  *)
(***************************************************************************)
TypeInv == TypeOK /\ RefersOK

\* The parts of the type invariant.
LEMMA Types ==
  ASSUME TypeInv
  PROVE  /\ rec \in [Rec -> Record] /\ used \in SUBSET Rec /\ table \in SUBSET Rec
         /\ ready \in Seq(Rec) /\ current \in Rec \cup {NULL} /\ ProcessId \in 0..(MaxPid + 1)
         /\ open \in [Fd -> Pid \cup {NULL}] /\ fifo \in [Pid -> Seq(Byte)]
         /\ th \in [Thread -> Job] /\ sent \in [Pid -> Seq(Byte)] /\ wrote \in [Pid -> Seq(Fate)]
  BY Jobs DEF TypeInv, TypeOK

\* A state that is changed in no more than where the main thread is.
LEMMA TypeFrame ==
  ASSUME TypeInv, UNCHANGED <<rec, used, table, ready, current, ProcessId, open, fifo, wrote, th, client>>,
         main' \in {"dequeue", "test", "execute", "clock"}, main' # "dequeue" => main # "dequeue"
  PROVE  TypeInv'
  BY DEF TypeInv, TypeOK, RefersOK, client, Record, Pid, Byte

LEMMA DequeueType == ASSUME TypeInv, Dequeue PROVE TypeInv'
<1>1. CASE Ready!Take
  <2>1. ready \in Seq(Rec) /\ ready # <<>>
    BY <1>1 DEF TypeInv, TypeOK, Ready!Take
  <2>2. Head(ready) \in Rec /\ Tail(ready) \in Seq(Rec)
    BY <2>1
  <2>3. current' \in Rec /\ ready' \in Seq(Rec)
    BY <2>2, <1>1 DEF Ready!Take
  <2>4. main' \in {"dequeue", "test", "execute", "clock"}
    BY DEF Dequeue
  <2> QED BY <2>3, <2>4 DEF Dequeue, TypeInv, TypeOK, RefersOK, client
<1>2. CASE Ready!TakeNothing
  <2>1. current' = NULL /\ ready' = ready /\ main' = "dequeue"
    BY <1>2 DEF Ready!TakeNothing, Dequeue
  <2> QED BY <2>1 DEF Dequeue, TypeInv, TypeOK, RefersOK, client
<1> QED BY <1>1, <1>2 DEF Dequeue

LEMMA RunType == ASSUME TypeInv, TestState \/ Compute \/ GoOn PROVE TypeInv'
  BY TypeFrame DEF TestState, Compute, GoOn, Execute

LEMMA OutputType == ASSUME TypeInv, Output PROVE TypeInv'
<1> DEFINE q == rec[current]
           k == q.home
           byte == <<k, Len(wrote[k]) + 1>>
<1>1. q \in Record /\ current \in Rec
  BY DEF Output, Execute, TypeInv, TypeOK, RefersOK
<1>2. k \in Pid /\ q.fd \in Fd \cup {NULL}
  BY <1>1 DEF Record
<1>3. wrote \in [Pid -> Seq(Fate)] /\ wrote[k] \in Seq(Fate) /\ Len(wrote[k]) \in Nat
  BY <1>2, Types
<1>4. byte \in Byte
  <2>1. Len(wrote[k]) < MaxOut
    BY DEF Output
  <2>2. Len(wrote[k]) + 1 \in 1..MaxOut
    BY <1>3, <2>1, LifecycleAssumption
  <2> QED BY <1>2, <2>2 DEF Byte
<1>5. wrote' \in [Pid -> Seq(Fate)]
  <2>1. PICK x \in Fate : wrote' = [wrote EXCEPT ![k] = Append(wrote[k], x)]
    BY DEF Output, Fate
  <2>2. Append(wrote[k], x) \in Seq(Fate)
    BY <1>3
  <2> HIDE DEF k
  <2> QED BY <1>2, <1>3, <2>1, <2>2
<1>6. fifo' \in [Pid -> Seq(Byte)]
  <2> HIDE DEF byte, k, q
  <2>1. fifo \in [Pid -> Seq(Byte)] /\ open \in [Fd -> Pid \cup {NULL}]
    BY DEF TypeInv, TypeOK
  <2>2. CASE Room(q.fd)
    <3>1. open[q.fd] \in Pid
      BY <2>1, <2>2, <1>2 DEF Room
    <3>2. Append(fifo[open[q.fd]], byte) \in Seq(Byte)
      BY <3>1, <2>1, <1>4
    <3>3. fifo' = [fifo EXCEPT ![open[q.fd]] = Append(fifo[open[q.fd]], byte)]
      BY <2>2 DEF Output, q, k, byte
    <3> QED BY <3>2, <3>3, <2>1
  <2>3. CASE ~Room(q.fd)
    BY <2>1, <2>3 DEF Output, q
  <2> QED BY <2>2, <2>3
<1>7. main' = "clock" /\ UNCHANGED <<rec, used, table, ready, current, ProcessId, open, th, terminal, sent>>
  BY DEF Output, Execute, client
<1> QED BY <1>1, <1>5, <1>6, <1>7 DEF TypeInv, TypeOK, RefersOK

LEMMA HaltType == ASSUME TypeInv, Halt PROVE TypeInv'
<1>1. current \in Rec /\ rec[current] \in Record
  BY DEF Halt, Execute, TypeInv, TypeOK, RefersOK
<1>2. [rec[current] EXCEPT !.state = "halted"] \in Record
  BY <1>1 DEF Record
<1>3. rec' = [rec EXCEPT ![current] = [rec[current] EXCEPT !.state = "halted"]]
  BY DEF Halt
<1>4. rec' \in [Rec -> Record]
  BY <1>1, <1>2, <1>3 DEF TypeInv, TypeOK
<1> QED BY <1>1, <1>4 DEF Halt, Execute, TypeInv, TypeOK, RefersOK, client

LEMMA ForkType == ASSUME TypeInv, Fork PROVE TypeInv'
<1>1. PICK c \in FreeRec, f \in FreeFd :
        /\ rec' = [rec EXCEPT ![c] = [rec[current] EXCEPT !.Pid = ProcessId + 1]]
        /\ used' = used \cup {c}
        /\ table' = table \cup {c}
        /\ open' = [open EXCEPT ![f] = ProcessId]
        /\ Ready!Insert(c)
  BY DEF Fork
<1>2. ProcessId \in Pid /\ ProcessId + 1 \in Pid /\ ProcessId + 2 \in 0..(MaxPid + 1)
  BY Bound, Types DEF Fork, Pid
<1>3. c \in Rec /\ f \in Fd /\ current \in Rec /\ rec[current] \in Record
  BY DEF FreeRec, FreeFd, Fork, Execute, TypeInv, TypeOK, RefersOK
<1>4. [rec[current] EXCEPT !.Pid = ProcessId + 1] \in Record
  BY <1>2, <1>3 DEF Record
<1>5. rec' \in [Rec -> Record] /\ open' \in [Fd -> Pid \cup {NULL}]
  BY <1>1, <1>2, <1>3, <1>4 DEF TypeInv, TypeOK
<1>6. ready' \in Seq(Rec) /\ current' = current
  BY <1>1, <1>3 DEF Ready!Insert, TypeInv, TypeOK
<1>7. used' \in SUBSET Rec /\ table' \in SUBSET Rec /\ ProcessId' \in 0..(MaxPid + 1)
  BY <1>1, <1>2, <1>3 DEF Fork, TypeInv, TypeOK
<1>8. main' = "clock" /\ UNCHANGED <<fifo, th, terminal, sent>>
  BY DEF Fork, Execute, client
<1>9. wrote' \in [Pid -> Seq(Fate)]
  <2> DEFINE k == rec[current].home
  <2>1. k \in Pid /\ wrote[k] \in Seq(Fate) /\ wrote \in [Pid -> Seq(Fate)]
    BY <1>3, Types DEF Record
  <2>2. wrote' = wrote \/ wrote' = [wrote EXCEPT ![k] = Append(wrote[k], "stray")]
    BY DEF Fork
  <2>3. Append(wrote[k], "stray") \in Seq(Fate)
    BY <2>1 DEF Fate
  <2> HIDE DEF k
  <2> QED BY <2>1, <2>2, <2>3
<1> QED BY <1>3, <1>5, <1>6, <1>7, <1>8, <1>9 DEF TypeInv, TypeOK, RefersOK

LEMMA PreemptType == ASSUME TypeInv, Preempt PROVE TypeInv'
<1>1. current \in Rec /\ ready \in Seq(Rec)
  BY DEF Preempt, TypeInv, TypeOK, RefersOK
<1>2. ready' \in Seq(Rec) /\ current' = current
  BY <1>1 DEF Preempt, Ready!Insert
<1> QED BY <1>1, <1>2 DEF Preempt, TypeInv, TypeOK, RefersOK, client

LEMMA AllocType == ASSUME TypeInv, NEW t \in Thread, ProcessAlloc(t) PROVE TypeInv'
<1>1. PICK r \in FreeRec, f \in FreeFd :
        /\ used' = used \cup {r}
        /\ rec' = [rec EXCEPT ![r] = [state |-> "run", Pid |-> ProcessId,
                                      fd |-> f, home |-> ProcessId]]
        /\ open' = [open EXCEPT ![f] = ProcessId]
        /\ th' = [th EXCEPT ![t] = [Idle EXCEPT !.pc = "add", !.p = r]]
  BY DEF ProcessAlloc
<1>2. ProcessId \in Pid /\ ProcessId + 1 \in 0..(MaxPid + 1)
  BY Bound, Types DEF ProcessAlloc, Pid
<1>3. r \in Rec /\ f \in Fd
  BY DEF FreeRec, FreeFd
<1>4. [state |-> "run", Pid |-> ProcessId, fd |-> f, home |-> ProcessId] \in Record
  BY <1>2, <1>3 DEF Record
<1>5. rec' \in [Rec -> Record] /\ open' \in [Fd -> Pid \cup {NULL}] /\ used' \in SUBSET Rec
  BY <1>1, <1>2, <1>3, <1>4 DEF TypeInv, TypeOK
<1>6. [Idle EXCEPT !.pc = "add", !.p = r] \in Job /\ [Idle EXCEPT !.pc = "add", !.p = r].p = r
  BY <1>3, Zero DEF Job
<1>7. th \in [Thread -> Job]
  BY Jobs DEF TypeInv
<1>8. th' \in [Thread -> Job] /\ \A s \in Thread : th'[s].p = IF s = t THEN r ELSE th[s].p
  <2> DEFINE job == [Idle EXCEPT !.pc = "add", !.p = r]
  <2> HIDE DEF job
  <2>1. job \in Job /\ job.p = r /\ th' = [th EXCEPT ![t] = job]
    BY <1>1, <1>6 DEF job
  <2> QED BY <2>1, <1>7
<1>9. \A s \in Thread : s # t => th'[s] = th[s]
  BY <1>1, <1>7
<1>10. UNCHANGED <<table, ready, current, main, fifo, wrote, terminal, sent>> /\ ProcessId' = ProcessId + 1
  BY DEF ProcessAlloc, client
<1>11. RefersOK'
  BY <1>3, <1>8, <1>9, <1>10 DEF TypeInv, RefersOK
<1>12. TypeOK'
  BY <1>2, <1>5, <1>8, <1>10 DEF TypeInv, TypeOK, Job
<1> QED BY <1>11, <1>12 DEF TypeInv

LEMMA AddType == ASSUME TypeInv, NEW t \in Thread, AddToProcessTable(t) PROVE TypeInv'
<1>1. th[t].p \in Rec /\ Become(t, "insert")
  BY DEF AddToProcessTable, At, TypeInv, RefersOK
<1>2. th' \in [Thread -> Job] /\ \A s \in Thread : th'[s].p = th[s].p /\ (s # t => th'[s] = th[s])
  BY <1>1, Jobs, SetPc, BecomeEffect DEF TypeInv, Become
<1>3. table' \in SUBSET Rec /\ UNCHANGED <<rec, used, ready, current, main, ProcessId, open, fifo, wrote, terminal, sent>>
  BY <1>1 DEF AddToProcessTable, TypeInv, TypeOK, client
<1> QED BY <1>1, <1>2, <1>3 DEF TypeInv, TypeOK, RefersOK, Job

\* A thread is done.
LEMMA DoneEffect ==
  ASSUME TypeOK, NEW t \in Thread, Done(t)
  PROVE  /\ th' \in [Thread -> Job] /\ th'[t] = Idle
         /\ \A s \in Thread : s # t => th'[s] = th[s]
  BY Jobs, Zero, Put DEF Done

LEMMA InsertType == ASSUME TypeInv, NEW t \in Thread, QueueInsert(t) PROVE TypeInv'
<1>1. th[t].p \in Rec /\ rec[th[t].p].Pid \in Pid
  BY DEF QueueInsert, At, TypeInv, TypeOK, RefersOK, Record
<1>2. ready' \in Seq(Rec) /\ current' = current
  BY <1>1 DEF QueueInsert, Ready!Insert, TypeInv, TypeOK
<1>3. terminal' \in [Pid -> {"none", "running", "over"}]
  BY <1>1 DEF QueueInsert, TypeInv, TypeOK
<1>4. /\ th' \in [Thread -> Job] /\ th'[t] = Idle /\ Idle.pc = "idle"
      /\ \A s \in Thread : s # t => th'[s] = th[s]
  BY DoneEffect DEF QueueInsert, TypeInv, Idle
<1> QED BY <1>2, <1>3, <1>4 DEF QueueInsert, TypeInv, TypeOK, RefersOK, Job

LEMMA PollType == ASSUME TypeInv, NEW t \in Thread, NEW k \in Pid, Poll(t, k) PROVE TypeInv'
<1>1. PICK r \in Find(k) : th' = [th EXCEPT ![t] = [Idle EXCEPT !.pc = "ioctl", !.p = r, !.pid = k]]
  BY DEF Poll
<1>2. r \in Rec
  BY DEF Find, TypeInv, TypeOK
<1> DEFINE job == [Idle EXCEPT !.pc = "ioctl", !.p = r, !.pid = k]
<1>3. job \in Job /\ job.p = r
  BY <1>2, Zero DEF Job
<1> HIDE DEF job
<1>4. th' \in [Thread -> Job] /\ th'[t] = job /\ \A s \in Thread : s # t => th'[s] = th[s]
  <2>1. th' = [th EXCEPT ![t] = job]
    BY <1>1 DEF job
  <2> QED BY <2>1, <1>3, Jobs, Put DEF TypeInv
<1> QED BY <1>2, <1>3, <1>4 DEF Poll, kernel, client, TypeInv, TypeOK, RefersOK, Job

LEMMA IoctlType == ASSUME TypeInv, NEW t \in Thread, Ioctl(t) PROVE TypeInv'
<1> DEFINE n == Least(Len(Available(rec[th[t].p].fd)), MaxRead)
           job == [th[t] EXCEPT !.pc = "read", !.n = n]
<1>1. th[t].p \in Rec /\ th[t] \in Job /\ th \in [Thread -> Job]
  BY Jobs DEF Ioctl, At, TypeInv, RefersOK
<1>2. n \in 0..MaxRead
  <2>1. rec[th[t].p].fd \in Fd \cup {NULL}
    BY <1>1 DEF TypeInv, TypeOK, Record
  <2>2. Available(rec[th[t].p].fd) \in Seq(Byte)
    BY <2>1 DEF Available, TypeInv, TypeOK
  <2>3. Len(Available(rec[th[t].p].fd)) \in Nat
    BY <2>2
  <2> QED BY <2>3, LifecycleAssumption DEF Least
<1>3. job \in Job /\ job.p = th[t].p
  <2> HIDE DEF n
  <2> QED BY <1>1, <1>2 DEF Job
<1>4. th' = [th EXCEPT ![t] = job]
  BY DEF Ioctl
<1> HIDE DEF job, n
<1>5. th' \in [Thread -> Job] /\ th'[t] = job /\ \A s \in Thread : s # t => th'[s] = th[s]
  BY <1>1, <1>3, <1>4, Put
<1>6. UNCHANGED <<kernel, client>>
  BY DEF Ioctl
<1>7. RefersOK'
  BY <1>1, <1>3, <1>5, <1>6 DEF kernel, TypeInv, RefersOK
<1> QED BY <1>5, <1>6, <1>7 DEF kernel, client, TypeInv, TypeOK, Job

\* A read takes Taken(t) bytes from the front of the FIFO that the descriptor
\* refers to.
From(t)  == rec[th[t].p].fd
Taken(t) == Least(th[t].n, Len(Available(From(t))))

LEMMA ReadFrame ==
  ASSUME NEW t, Read(t)
  PROVE  /\ th[t].pc = "read"
         /\ UNCHANGED <<rec, used, table, ready, current, main, ProcessId, open, wrote, terminal, sent>>
         /\ \E v : th' = [th EXCEPT ![t].pc = "test", ![t].bytes = v]
  BY Zenon DEF Read, At, client

\* The steps of a poll that change no record and nothing of the scheduler's.
LEMMA PollOnly ==
  ASSUME NEW t \in Thread,
         \/ Ioctl(t) \/ Read(t) \/ TestHalted(t) \/ Respond(t) \/ Close(t)
         \/ \E k \in Pid : Poll(t, k)
  PROVE  /\ UNCHANGED <<rec, used, table, ready, current, main, ProcessId, wrote>>
         /\ th[t].pc \notin {"add", "insert", "dealloc"}
         /\ ~Close(t) => UNCHANGED open
<1>1. CASE Ioctl(t)
  BY <1>1 DEF Ioctl, kernel, At
<1>2. CASE Read(t)
  BY <1>2, ReadFrame
<1>3. CASE TestHalted(t)
  BY <1>3 DEF TestHalted, kernel, At
<1>4. CASE Respond(t)
  BY <1>4 DEF Respond, kernel
<1>5. CASE Close(t)
  BY <1>5 DEF Close, At
<1>6. CASE \E k \in Pid : Poll(t, k)
  BY <1>6 DEF Poll, kernel, At
<1> QED BY <1>1, <1>2, <1>3, <1>4, <1>5, <1>6

\* A step of thread t changes no other thread.
LEMMA OneThread ==
  ASSUME TypeInv, NEW t \in Thread, Create(t) \/ Answer(t) \/ \E k \in Pid : Poll(t, k)
  PROVE  \A s \in Thread : s # t => th'[s] = th[s]
<1>1. th \in [Thread -> Job]
  BY Jobs DEF TypeInv
<1>2. CASE Read(t)
  BY <1>1, <1>2, ReadFrame
<1>3. CASE Ioctl(t) \/ Close(t)
  BY <1>1, <1>3 DEF Ioctl, Close
<1>4. CASE TestHalted(t) \/ ProcessDealloc(t) \/ AddToProcessTable(t)
  BY <1>1, <1>4 DEF TestHalted, ProcessDealloc, AddToProcessTable, Become
<1>5. CASE Respond(t) \/ QueueInsert(t)
  BY <1>1, <1>5 DEF Respond, QueueInsert, Done
<1>6. CASE ProcessAlloc(t)
  BY <1>1, <1>6 DEF ProcessAlloc
<1>7. CASE \E k \in Pid : Poll(t, k)
  BY <1>1, <1>7 DEF Poll
<1> QED BY <1>2, <1>3, <1>4, <1>5, <1>6, <1>7 DEF Create, Answer

LEMMA ReadEffect ==
  ASSUME TypeInv, NEW t \in Thread, Read(t)
  PROVE  /\ Taken(t) \in Nat /\ Taken(t) <= Len(Available(From(t)))
         /\ Taken(t) = th[t].n \/ Taken(t) = Len(Available(From(t)))
         /\ Taken(t) <= th[t].n
         /\ Available(From(t)) \in Seq(Byte) /\ From(t) \in Fd \cup {NULL}
         /\ th' = [th EXCEPT ![t].pc = "test", ![t].bytes = SubSeq(Available(From(t)), 1, Taken(t))]
         /\ Taken(t) = 0 => UNCHANGED fifo
         /\ Taken(t) # 0 =>
              /\ From(t) \in Fd /\ open[From(t)] \in Pid /\ Available(From(t)) = fifo[open[From(t)]]
              /\ fifo' = [fifo EXCEPT ![open[From(t)]] = SubSeq(@, Taken(t) + 1, Len(@))]
<1>1. th[t].p \in Rec /\ th[t].n \in Nat
  <2>1. th[t] \in Job
    BY Jobs DEF TypeInv
  <2> QED BY <2>1 DEF Read, At, TypeInv, RefersOK, Job
<1>2. From(t) \in Fd \cup {NULL}
  BY <1>1 DEF From, TypeInv, TypeOK, Record
<1>3. Available(From(t)) \in Seq(Byte) /\ Len(Available(From(t))) \in Nat
  BY <1>2 DEF Available, TypeInv, TypeOK
<1>4. /\ Taken(t) \in Nat /\ Taken(t) <= Len(Available(From(t)))
      /\ Taken(t) = th[t].n \/ Taken(t) = Len(Available(From(t)))
      /\ Taken(t) <= th[t].n
  BY <1>1, <1>3 DEF Taken, Least
<1>5. Taken(t) # 0 => From(t) \in Fd /\ open[From(t)] \in Pid /\ Available(From(t)) = fifo[open[From(t)]]
  <2>1. Taken(t) # 0 => Available(From(t)) # <<>>
    BY <1>3, <1>4
  <2>2. Available(From(t)) # <<>> =>
          From(t) # NULL /\ open[From(t)] # NULL /\ Available(From(t)) = fifo[open[From(t)]]
    BY DEF Available
  <2> QED BY <2>1, <2>2, <1>2 DEF TypeInv, TypeOK
<1>6. th' = [th EXCEPT ![t].pc = "test", ![t].bytes = SubSeq(Available(From(t)), 1, Taken(t))]
  BY Zenon DEF Read, From, Taken
<1>7. IF Taken(t) = 0 THEN UNCHANGED fifo
      ELSE fifo' = [fifo EXCEPT ![open[From(t)]] = SubSeq(@, Taken(t) + 1, Len(@))]
  BY ZenonT(30) DEF Read, From, Taken
<1> QED BY SMTT(30), <1>2, <1>3, <1>4, <1>5, <1>6, <1>7

LEMMA ReadType == ASSUME TypeInv, NEW t \in Thread, Read(t) PROVE TypeInv'
<1> DEFINE bytes == SubSeq(Available(From(t)), 1, Taken(t))
           job == [th[t] EXCEPT !.pc = "test", !.bytes = bytes]
<1>1. th[t].p \in Rec /\ th[t] \in Job /\ th \in [Thread -> Job]
  BY Jobs DEF Read, At, TypeInv, RefersOK
<1>2. bytes \in Seq(Byte)
  <2> DEFINE a == Available(From(t))
             n == Taken(t)
  <2>1. a \in Seq(Byte) /\ n \in Nat /\ n <= Len(a)
    BY ReadEffect
  <2> HIDE DEF a, n
  <2>2. SubSeq(a, 1, n) \in Seq(Byte)
    BY <2>1
  <2> QED BY <2>2 DEF a, n
<1>3. job \in Job /\ job.p = th[t].p
  <2> HIDE DEF bytes
  <2> QED BY <1>1, <1>2 DEF Job
<1>4. th' = [th EXCEPT ![t] = job]
  BY ReadEffect
<1>5. fifo' \in [Pid -> Seq(Byte)]
  <2> DEFINE k == open[From(t)]
  <2>1. fifo \in [Pid -> Seq(Byte)]
    BY DEF TypeInv, TypeOK
  <2>2. CASE Taken(t) # 0
    <3>1. k \in Pid /\ Taken(t) \in Nat /\ fifo' = [fifo EXCEPT ![k] = SubSeq(fifo[k], Taken(t) + 1, Len(fifo[k]))]
      BY <2>2, ReadEffect
    <3> HIDE DEF k
    <3>2. fifo[k] \in Seq(Byte) /\ Len(fifo[k]) \in Nat
      BY <2>1, <3>1
    <3>3. SubSeq(fifo[k], Taken(t) + 1, Len(fifo[k])) \in Seq(Byte)
      BY SMTT(30), <3>1, <3>2
    <3> QED BY <3>1, <3>3, <2>1
  <2> QED BY <2>1, <2>2, ReadEffect
<1> HIDE DEF job, bytes
<1>6. th' \in [Thread -> Job] /\ th'[t] = job /\ \A s \in Thread : s # t => th'[s] = th[s]
  BY <1>1, <1>3, <1>4, Put
<1>7. RefersOK'
  BY <1>1, <1>3, <1>6 DEF Read, TypeInv, RefersOK
<1> QED BY <1>5, <1>6, <1>7, ReadFrame DEF TypeInv, TypeOK, Job

LEMMA TestType == ASSUME TypeInv, NEW t \in Thread, TestHalted(t) PROVE TypeInv'
<1>1. PICK pc \in {"close", "200"} : Become(t, pc)
  BY DEF TestHalted
<1>2. th' \in [Thread -> Job] /\ \A s \in Thread : th'[s].p = th[s].p /\ (s # t => th'[s] = th[s])
  BY <1>1, Jobs, SetPc, BecomeEffect DEF TypeInv, Become
<1>3. th[t].p \in Rec
  BY DEF TestHalted, At, TypeInv, RefersOK
<1> QED BY <1>2, <1>3 DEF TestHalted, kernel, client, TypeInv, TypeOK, RefersOK, Job

LEMMA CloseType == ASSUME TypeInv, NEW t \in Thread, Close(t) PROVE TypeInv'
<1>1. PICK r \in Find(rec[th[t].p].Pid) :
        /\ th' = [th EXCEPT ![t].pc = "dealloc", ![t].p = r]
        /\ open' = [f \in Fd |-> IF f = rec[r].fd THEN NULL ELSE open[f]]
        /\ fifo' = [k \in Pid |-> IF \E f \in Fd : open[f] = k /\ open'[f] = NULL
                                  THEN <<>> ELSE fifo[k]]
  BY DEF Close
<1>2. r \in Rec
  BY DEF Find, TypeInv, TypeOK
<1> DEFINE job == [th[t] EXCEPT !.pc = "dealloc", !.p = r]
<1>3. th[t] \in Job /\ th \in [Thread -> Job]
  BY Jobs DEF TypeInv
<1>4. job \in Job /\ job.p = r
  BY <1>2, <1>3 DEF Job
<1>5. th' = [th EXCEPT ![t] = job]
  BY <1>1
<1> HIDE DEF job
<1>6. th' \in [Thread -> Job] /\ th'[t] = job /\ \A s \in Thread : s # t => th'[s] = th[s]
  BY <1>3, <1>4, <1>5, Put
<1>7. open' \in [Fd -> Pid \cup {NULL}]
  BY <1>1 DEF TypeInv, TypeOK
<1>8. fifo' \in [Pid -> Seq(Byte)]
  BY <1>1 DEF TypeInv, TypeOK
<1> QED BY <1>2, <1>4, <1>6, <1>7, <1>8 DEF Close, client, TypeInv, TypeOK, RefersOK, Job

LEMMA DeallocType == ASSUME TypeInv, NEW t \in Thread, ProcessDealloc(t) PROVE TypeInv'
<1>1. th[t].p \in Rec /\ Become(t, "201")
  BY DEF ProcessDealloc, At, TypeInv, RefersOK
<1>2. th' \in [Thread -> Job] /\ \A s \in Thread : th'[s].p = th[s].p /\ (s # t => th'[s] = th[s])
  BY <1>1, Jobs, SetPc, BecomeEffect DEF TypeInv, Become
<1>3. rec' \in [Rec -> Record] /\ used' \in SUBSET Rec
  <2>1. [rec[th[t].p] EXCEPT !.state = "run"] \in Record
    <3>1. rec[th[t].p] \in Record
      BY <1>1 DEF TypeInv, TypeOK
    <3> QED BY <3>1 DEF Record
  <2>2. rec' = [rec EXCEPT ![th[t].p] = [rec[th[t].p] EXCEPT !.state = "run"]]
    BY DEF ProcessDealloc
  <2>3. rec' \in [Rec -> Record]
    BY <2>1, <2>2, <1>1 DEF TypeInv, TypeOK
  <2> QED BY <2>3 DEF ProcessDealloc, TypeInv, TypeOK
<1> QED BY <1>1, <1>2, <1>3 DEF ProcessDealloc, client, TypeInv, TypeOK, RefersOK, Job

LEMMA RespondType == ASSUME TypeInv, NEW t \in Thread, Respond(t) PROVE TypeInv'
<1>1. th[t] \in Job /\ th[t].pid \in Pid /\ th[t].bytes \in Seq(Byte)
  <2>1. th[t] \in Job
    BY Jobs DEF TypeInv
  <2> QED BY <2>1 DEF Job
<1>2. sent' \in [Pid -> Seq(Byte)]
  <2> DEFINE k == th[t].pid
             b == th[t].bytes
  <2>1. PICK m \in 0..Len(b) : sent' = [sent EXCEPT ![k] = sent[k] \o SubSeq(b, 1, m)]
    BY DEF Respond
  <2>2. k \in Pid /\ b \in Seq(Byte) /\ sent \in [Pid -> Seq(Byte)]
    BY <1>1 DEF TypeInv, TypeOK
  <2> HIDE DEF k, b
  <2>3. sent[k] \in Seq(Byte) /\ Len(b) \in Nat
    BY <2>2
  <2>4. SubSeq(b, 1, m) \in Seq(Byte)
    BY <2>2, <2>3
  <2>5. sent[k] \o SubSeq(b, 1, m) \in Seq(Byte)
    BY <2>3, <2>4
  <2> QED BY <2>1, <2>2, <2>5
<1>3. terminal' \in [Pid -> {"none", "running", "over"}]
  BY <1>1 DEF Respond, TypeInv, TypeOK
<1>4. /\ th' \in [Thread -> Job] /\ th'[t] = Idle /\ Idle.pc = "idle"
      /\ \A s \in Thread : s # t => th'[s] = th[s]
  BY DoneEffect DEF Respond, TypeInv, Idle
<1> QED BY <1>2, <1>3, <1>4 DEF Respond, kernel, TypeInv, TypeOK, RefersOK, Job

LEMMA InitType == Init => TypeInv
<1> SUFFICES ASSUME Init PROVE TypeInv
  OBVIOUS
<1>1. Blank \in Record
  BY Zero DEF Blank, Record
<1>2. ProcessId \in 0..(MaxPid + 1)
  BY LifecycleAssumption DEF Init
<1>3. th \in [Thread -> Job] /\ \A t \in Thread : th[t].pc = "idle"
  BY Zero DEF Init, Idle
<1>4. wrote \in [Pid -> Seq(Fate)] /\ sent \in [Pid -> Seq(Byte)] /\ fifo \in [Pid -> Seq(Byte)]
  BY <1>2 DEF Init
<1>5. rec \in [Rec -> Record] /\ ready \in Seq(Rec)
  BY <1>1 DEF Init
<1> QED BY <1>2, <1>3, <1>4, <1>5 DEF Init, TypeInv, TypeOK, RefersOK, Job

LEMMA NextType == TypeInv /\ [Next]_vars => TypeInv'
<1> SUFFICES ASSUME TypeInv, [Next]_vars PROVE TypeInv'
  OBVIOUS
<1>1. CASE Main
  BY <1>1, DequeueType, RunType, OutputType, HaltType, ForkType, PreemptType DEF Main
<1>2. ASSUME NEW t \in Thread, Create(t) PROVE TypeInv'
  BY <1>2, AllocType, AddType, InsertType DEF Create
<1>3. ASSUME NEW t \in Thread, Answer(t) PROVE TypeInv'
  BY <1>3, IoctlType, ReadType, TestType, CloseType, DeallocType, RespondType DEF Answer
<1>4. ASSUME NEW t \in Thread, NEW k \in Pid, Poll(t, k) PROVE TypeInv'
  BY <1>4, PollType
<1>5. CASE UNCHANGED vars
  BY <1>5 DEF vars, kernel, client, TypeInv, TypeOK, RefersOK
<1> QED BY <1>1, <1>2, <1>3, <1>4, <1>5 DEF Next

(***************************************************************************)
(* The types, whatever polls and forks there are: the scheduler runs, and  *)
(* a request thread works on, a slot that holds or once held a record.     *)
(***************************************************************************)
THEOREM TypeCorrect == Spec => []TypeOK
<1>1. TypeInv => TypeOK
  BY DEF TypeInv
<1> QED BY InitType, NextType, <1>1, PTL DEF Spec

-----------------------------------------------------------------------------
(***************************************************************************)
(* No process is forgotten.                                                *)
(***************************************************************************)
Remembered(r) == \/ r \in Queued
                 \/ current = r /\ main # "dequeue"
                 \/ \E t \in Thread : th[t].p = r /\ th[t].pc \in {"add", "insert"}

LEMMA Never == NeverForgotten <=> \A r \in used : rec[r].state = "run" => Remembered(r)
  BY DEF NeverForgotten, Remembered

LEMMA QueuedInsert ==
  ASSUME ready \in Seq(Rec), NEW p \in Rec, Ready!Insert(p)
  PROVE  Queued \subseteq Queued' /\ p \in Queued' /\ current' = current
<1>1. ready' = Append(ready, p) /\ current' = current
  BY DEF Ready!Insert
<1>2. Len(ready') = Len(ready) + 1 /\ Len(ready) \in Nat /\ ready'[Len(ready) + 1] = p
  BY <1>1
<1>3. \A i \in 1..Len(ready) : i \in 1..Len(ready') /\ ready'[i] = ready[i]
  BY <1>1, <1>2
<1>4. Len(ready) + 1 \in 1..Len(ready')
  BY <1>2
<1> QED BY <1>1, <1>2, <1>3, <1>4 DEF Queued

LEMMA QueuedTake ==
  ASSUME ready \in Seq(Rec), Ready!Take
  PROVE  \A r \in Queued : r \in Queued' \/ r = current'
<1>1. ready # <<>> /\ current' = Head(ready) /\ ready' = Tail(ready)
  BY DEF Ready!Take
<1>2. Len(ready) \in Nat \ {0} /\ Len(ready') = Len(ready) - 1 /\ current' = ready[1]
  BY <1>1
<1>3. ASSUME NEW i \in 1..Len(ready), i # 1
      PROVE  i - 1 \in 1..Len(ready') /\ ready'[i - 1] = ready[i]
  BY <1>1, <1>2, <1>3
<1> QED BY <1>2, <1>3 DEF Queued

\* A step that puts nothing out of the queue but what is run next.
LEMMA Remember ==
  ASSUME NeverForgotten,
         \A r \in Queued : r \in Queued' \/ (r = current' /\ main' # "dequeue"),
         \A r \in used' : rec'[r].state = "run" => Remembered(r)' \/ (r \in used /\ rec[r].state = "run"),
         \A r : main # "dequeue" /\ r = current /\ rec'[r].state = "run" => Remembered(r)',
         \A t \in Thread : \A r : th[t].pc \in {"add", "insert"} /\ r = th[t].p => Remembered(r)'
  PROVE  NeverForgotten'
<1>1. ASSUME NEW r \in used', rec'[r].state = "run", Remembered(r) PROVE Remembered(r)'
  BY <1>1 DEF Remembered
<1> QED BY <1>1, Never DEF NeverForgotten, Remembered

LEMMA MainKeeps == ASSUME TypeInv, NeverForgotten, Main PROVE NeverForgotten'
<1>1. UNCHANGED th
  BY DEF Main, Dequeue, TestState, Compute, Output, Halt, Fork, Preempt, GoOn
<1>2. \A t \in Thread : \A r : th[t].pc \in {"add", "insert"} /\ r = th[t].p => Remembered(r)'
  BY <1>1 DEF Remembered
<1>3. ready \in Seq(Rec) /\ (main # "dequeue" => current \in Rec) /\ rec \in [Rec -> Record] /\ used \in SUBSET Rec
  BY DEF TypeInv, TypeOK, RefersOK
<1>4. CASE Dequeue /\ Ready!Take
  <2>1. UNCHANGED <<rec, used>> /\ main = "dequeue" /\ (current' # NULL => main' = "test")
    BY <1>4 DEF Dequeue
  <2>2. current' \in Rec
    BY <1>3, <1>4 DEF Ready!Take
  <2>3. main' = "test"
    BY <2>1, <2>2, LifecycleAssumption
  <2> QED BY <1>1, <1>2, <1>3, <1>4, <2>1, <2>3, QueuedTake, Remember
<1>5. CASE Dequeue /\ Ready!TakeNothing
  <2>1. UNCHANGED <<rec, used, ready>> /\ main = "dequeue"
    BY <1>5 DEF Dequeue, Ready!TakeNothing
  <2>2. Queued' = Queued
    BY <2>1 DEF Queued
  <2> QED BY <1>1, <1>2, <2>1, <2>2, Remember
<1>6. CASE TestState \/ Compute \/ Output \/ GoOn
  <2>1. UNCHANGED <<rec, used, ready, current>> /\ (main' = "dequeue" => rec[current].state = "halted")
    BY <1>6 DEF TestState, Compute, Output, GoOn, Execute
  <2>2. Queued' = Queued
    BY <2>1 DEF Queued
  <2>3. \A r : r = current /\ rec[r].state = "run" => Remembered(r)'
    BY <2>1 DEF Remembered
  <2> QED BY SMTT(30), <1>1, <1>2, <2>1, <2>2, <2>3, Remember
<1>7. CASE Halt
  <2>1. UNCHANGED <<used, ready, current>> /\ main' = "clock" /\ main = "execute"
    BY <1>7 DEF Halt, Execute
  <2>2. \A r \in Rec : rec'[r].state = "run" => rec[r].state = "run"
    BY <1>3, <1>7 DEF Halt, Execute, Record
  <2>3. Queued' = Queued /\ \A r : r = current => Remembered(r)'
    BY <2>1 DEF Queued, Remembered
  <2> QED BY <1>1, <1>2, <1>3, <2>1, <2>2, <2>3, Remember
<1>8. CASE Fork
  <2>1. PICK c \in FreeRec : /\ rec' = [rec EXCEPT ![c] = [rec[current] EXCEPT !.Pid = ProcessId + 1]]
                             /\ used' = used \cup {c}
                             /\ Ready!Insert(c)
    BY <1>8 DEF Fork
  <2>2. c \in Rec /\ Queued \subseteq Queued' /\ c \in Queued' /\ current' = current /\ main' = "clock"
    BY <1>3, <1>8, <2>1, QueuedInsert DEF FreeRec, Fork, Execute
  <2>3. \A r \in Rec : r # c => rec'[r] = rec[r]
    BY <1>3, <2>1
  <2>4. \A r : r = current \/ r = c => Remembered(r)'
    BY <2>2 DEF Remembered
  <2> QED BY <1>1, <1>2, <1>3, <2>1, <2>2, <2>3, <2>4, Remember
<1>9. CASE Preempt
  <2>1. UNCHANGED <<rec, used>> /\ main = "clock" /\ current \in Rec
    BY <1>3, <1>9 DEF Preempt
  <2>2. Queued \subseteq Queued' /\ current \in Queued'
    BY <1>3, <1>9, <2>1, QueuedInsert DEF Preempt
  <2>3. \A r : r = current => Remembered(r)'
    BY <2>2 DEF Remembered
  <2> QED BY <1>1, <1>2, <2>1, <2>2, <2>3, Remember
<1> QED BY SMTT(30), <1>4, <1>5, <1>6, <1>7, <1>8, <1>9 DEF Main, Dequeue

\* A request thread leaves the scheduler alone, and a creation keeps the
\* record in hand until it is in the queue.
LEMMA ThreadKeeps ==
  ASSUME TypeInv, NeverForgotten, NEW t \in Thread,
         Create(t) \/ Answer(t) \/ \E k \in Pid : Poll(t, k)
  PROVE  NeverForgotten'
<1>1. ready \in Seq(Rec) /\ rec \in [Rec -> Record] /\ used \in SUBSET Rec /\ th \in [Thread -> Job]
  BY SMTT(30), Types
<1>2. UNCHANGED <<main, current>>
  BY ReadFrame DEF Create, ProcessAlloc, AddToProcessTable, QueueInsert, Answer, Ioctl, TestHalted, Close,
         ProcessDealloc, Respond, Poll, kernel, Ready!Insert
<1>3. \A s \in Thread : s # t => th'[s] = th[s]
  BY OneThread
<1>4. \A r : main # "dequeue" /\ r = current => Remembered(r)'
  BY <1>2 DEF Remembered
<1>5. \A s \in Thread : \A r : s # t /\ th[s].pc \in {"add", "insert"} /\ r = th[s].p => Remembered(r)'
  BY <1>3 DEF Remembered
<1>6. CASE ProcessAlloc(t)
  <2>1. PICK r \in FreeRec :
          /\ used' = used \cup {r}
          /\ \A q \in Rec : q # r => rec'[q] = rec[q]
          /\ th' = [th EXCEPT ![t] = [Idle EXCEPT !.pc = "add", !.p = r]]
    BY <1>1, <1>6 DEF ProcessAlloc
  <2>2. th'[t].pc = "add" /\ th'[t].p = r
    BY <2>1, <1>1 DEF Idle
  <2>3. \A q : q = r => Remembered(q)'
    BY <2>2 DEF Remembered
  <2>4. Queued' = Queued /\ th[t].pc = "idle"
    BY <1>6 DEF ProcessAlloc, At, Queued
  <2> QED BY <1>1, <1>4, <1>5, <2>1, <2>3, <2>4, Remember
<1>7. CASE AddToProcessTable(t)
  <2>1. th'[t].pc = "insert" /\ th'[t].p = th[t].p
    BY <1>7, BecomeEffect DEF AddToProcessTable, TypeInv
  <2>2. \A r : r = th[t].p => Remembered(r)'
    BY <2>1 DEF Remembered
  <2>3. Queued' = Queued /\ UNCHANGED <<rec, used>>
    BY <1>7 DEF AddToProcessTable, Queued
  <2> QED BY <1>4, <1>5, <2>2, <2>3, Remember
<1>8. CASE QueueInsert(t)
  <2>1. th[t].p \in Rec /\ Ready!Insert(th[t].p) /\ UNCHANGED <<rec, used>>
    BY <1>8 DEF QueueInsert, At, TypeInv, RefersOK
  <2>2. Queued \subseteq Queued' /\ th[t].p \in Queued'
    BY <1>1, <2>1, QueuedInsert
  <2>3. \A r : r = th[t].p => Remembered(r)'
    BY <2>2 DEF Remembered
  <2> QED BY <1>4, <1>5, <2>1, <2>2, <2>3, Remember
<1>9. CASE ProcessDealloc(t)
  <2>1. used' = used \ {th[t].p} /\ \A r \in Rec : r # th[t].p => rec'[r] = rec[r]
    BY <1>1, <1>9 DEF ProcessDealloc
  <2>2. Queued' = Queued /\ th[t].pc = "dealloc"
    BY <1>9 DEF ProcessDealloc, At, Queued
  <2> QED BY <1>1, <1>4, <1>5, <2>1, <2>2, Remember
<1>10. CASE \/ Ioctl(t) \/ Read(t) \/ TestHalted(t) \/ Close(t) \/ Respond(t)
            \/ \E k \in Pid : Poll(t, k)
  <2>1. UNCHANGED <<rec, used, ready>> /\ th[t].pc \notin {"add", "insert"}
    BY <1>10, PollOnly
  <2>2. Queued' = Queued
    BY <2>1 DEF Queued
  <2> QED BY <1>4, <1>5, <2>1, <2>2, Remember
<1> QED BY <1>6, <1>7, <1>8, <1>9, <1>10 DEF Create, Answer

(***************************************************************************)
(* A process that has not halted is being run, waits in the ready queue or *)
(* is still being created: whatever polls, forks, and reuses of its slot   *)
(* there are (emulator.c:62-103, libemulator.c:303-376).                   *)
(***************************************************************************)
THEOREM NeverForgottenAlways == Spec => []NeverForgotten
<1>1. Init => NeverForgotten
  BY DEF Init, NeverForgotten
<1>2. TypeInv /\ NeverForgotten /\ [Next]_vars => NeverForgotten'
  <2> SUFFICES ASSUME TypeInv, NeverForgotten, [Next]_vars PROVE NeverForgotten'
    OBVIOUS
  <2>1. CASE UNCHANGED vars
    BY <2>1 DEF vars, kernel, NeverForgotten, Queued
  <2> QED BY <2>1, MainKeeps, ThreadKeeps DEF Next
<1> QED BY InitType, NextType, <1>1, <1>2, PTL DEF Spec

-----------------------------------------------------------------------------
(***************************************************************************)
(* One poll at a time for each terminal, and no forks.                     *)
(***************************************************************************)
Creating(t) == th[t].pc \in {"add", "insert"}
Serving(t)  == th[t].pc \in {"ioctl", "read", "test", "close", "dealloc", "200", "201"}
Working(t)  == th[t].pc \in {"ioctl", "read", "test", "close", "dealloc"}

\* A Pid is given out once, so it names one record, in use or given back.
PidsOK == /\ \A r, s \in used \cup table : rec[r].Pid = rec[s].Pid => r = s
          /\ \A r \in used \cup table : rec[r].Pid < ProcessId
          /\ \A k \in Pid : terminal[k] # "none" => k < ProcessId

\* A record that is being created is one thread's, and no terminal's.
CreateOK == \A t \in Thread : Creating(t) =>
  /\ th[t].p \in used /\ terminal[rec[th[t].p].Pid] = "none"
  /\ th[t].pc = "insert" => th[t].p \in table
  /\ \A s \in Thread : Creating(s) /\ th[s].p = th[t].p => s = t

\* A poll works on the record of its Pid, which is in use, and has halted by
\* the time it is to be destroyed; no other poll does.
PollOK == \A t \in Thread :
  /\ Working(t) => th[t].p \in used \cap table /\ rec[th[t].p].Pid = th[t].pid
  /\ th[t].pc \in {"close", "dealloc"} => rec[th[t].p].state = "halted"
  /\ Serving(t) => /\ terminal[th[t].pid] = "running"
                   /\ \A s \in Thread : Serving(s) /\ th[s].pid = th[t].pid => s = t

\* The process of a terminal that polls has not been destroyed.
RunningOK == \A k \in Pid :
  terminal[k] = "running" /\ (\A t \in Thread : th[t].pc = "201" => th[t].pid # k)
    => \E r \in used \cap table : rec[r].Pid = k

PollInv == PidsOK /\ CreateOK /\ PollOK /\ RunningOK

LEMMA InitPoll == Init => PollInv
  BY DEF Init, Idle, PollInv, PidsOK, CreateOK, PollOK, RunningOK, Creating, Serving, Working

\* Steps that leave to the records their Pids and, once they have halted,
\* their state.
LEMMA PollFrame ==
  ASSUME TypeInv, PollInv, UNCHANGED <<used, table, ProcessId, terminal, th>>,
         \A r \in Rec : rec'[r].Pid = rec[r].Pid /\ (rec[r].state = "halted" => rec'[r].state = "halted")
  PROVE  PollInv'
<1>1. used \in SUBSET Rec /\ table \in SUBSET Rec /\ \A t \in Thread : th[t].pc # "idle" => th[t].p \in Rec
  BY DEF TypeInv, TypeOK, RefersOK
<1>2. \A r : r \in used \cup table => rec'[r].Pid = rec[r].Pid
  BY <1>1
<1>3. PidsOK'
  BY <1>2 DEF PollInv, PidsOK
<1>4. CreateOK'
  BY <1>2 DEF PollInv, CreateOK, Creating
<1>5. PollOK'
  BY <1>1, <1>2 DEF PollInv, PollOK, Serving, Working
<1>6. RunningOK'
  BY <1>2 DEF PollInv, RunningOK
<1> QED BY <1>3, <1>4, <1>5, <1>6 DEF PollInv

LEMMA MainPoll == ASSUME TypeInv, PollInv, Main, ~CanFork PROVE PollInv'
<1>1. UNCHANGED <<used, table, ProcessId, terminal, th>>
  BY DEF Main, Dequeue, TestState, Compute, Output, Halt, Fork, Preempt, GoOn, client
<1>2. \A r \in Rec : rec'[r].Pid = rec[r].Pid /\ (rec[r].state = "halted" => rec'[r].state = "halted")
  <2>1. CASE Halt
    <3>1. rec \in [Rec -> Record] /\ current \in Rec
      BY <2>1 DEF Halt, Execute, TypeInv, TypeOK, RefersOK
    <3>2. rec' = [rec EXCEPT ![current] = [rec[current] EXCEPT !.state = "halted"]]
      BY <2>1 DEF Halt
    <3> QED BY <3>1, <3>2 DEF Record
  <2>2. CASE ~Halt
    <3>1. UNCHANGED rec
      BY <2>2 DEF Main, Dequeue, TestState, Compute, Output, Fork, Preempt, GoOn
    <3> QED BY <3>1
  <2> QED BY <2>1, <2>2
<1> QED BY SMTT(30), <1>1, <1>2, PollFrame

\* The record of a new process has a Pid that is nobody's yet.
LEMMA AllocPoll == ASSUME TypeInv, PollInv, NEW t \in Thread, ProcessAlloc(t) PROVE PollInv'
<1>1. PICK r \in FreeRec, f \in FreeFd :
        /\ used' = used \cup {r}
        /\ rec' = [rec EXCEPT ![r] = [state |-> "run", Pid |-> ProcessId,
                                      fd |-> f, home |-> ProcessId]]
        /\ th' = [th EXCEPT ![t] = [Idle EXCEPT !.pc = "add", !.p = r]]
  BY DEF ProcessAlloc
<1>2. r \in Rec /\ r \notin used /\ rec \in [Rec -> Record] /\ th \in [Thread -> Job] /\ ProcessId \in Nat
      /\ used \in SUBSET Rec /\ table \in SUBSET Rec
  <2>1. ProcessId \in Nat
    BY LifecycleAssumption DEF TypeInv, TypeOK
  <2>2. th \in [Thread -> Job]
    BY Jobs DEF TypeInv
  <2> QED BY <2>1, <2>2 DEF FreeRec, TypeInv, TypeOK
<1>3. /\ rec'[r].Pid = ProcessId /\ rec'[r].state = "run"
      /\ \A q : q \in used \cup table /\ q # r => rec'[q] = rec[q] /\ q \in Rec /\ rec[q].Pid \in Nat
  BY <1>1, <1>2 DEF Record, Pid
<1>4. /\ th'[t].pc = "add" /\ th'[t].p = r
      /\ \A s \in Thread : s # t => th'[s] = th[s]
  BY <1>1, <1>2 DEF Idle
<1>5. th[t].pc = "idle" /\ ProcessId' = ProcessId + 1 /\ UNCHANGED <<table, terminal>>
  BY DEF ProcessAlloc, At, client
<1>6. terminal[ProcessId] = "none"
  <2>1. ProcessId \in Pid
    BY <1>2 DEF ProcessAlloc, Pid, TypeInv, TypeOK
  <2>2. \A k \in Pid : terminal[k] # "none" => k < ProcessId
    BY DEF PollInv, PidsOK
  <2> QED BY <2>1, <2>2, <1>2
<1>7. PidsOK'
  <2>1. \A q \in used' \cup table' : q = r \/ (q \in used \cup table /\ q # r)
    BY <1>1, <1>5
  <2>2. \A q \in used \cup table : rec[q].Pid < ProcessId
    BY DEF PollInv, PidsOK
  <2>3. \A q \in used' \cup table' : q # r => rec'[q].Pid # ProcessId /\ rec'[q].Pid < ProcessId + 1
    BY <2>1, <2>2, <1>2, <1>3
  <2>4. \A k \in Pid : terminal[k] # "none" => k < ProcessId + 1
    BY <1>2 DEF PollInv, PidsOK, Pid
  <2>5. rec'[r].Pid < ProcessId + 1
    BY <1>2, <1>3
  <2>6. \A q, s \in used' \cup table' : rec'[q].Pid = rec'[s].Pid => q = s
    BY <2>1, <2>3, <1>3 DEF PollInv, PidsOK
  <2> QED BY <2>3, <2>4, <2>5, <2>6, <1>5 DEF PidsOK
<1>8. CreateOK'
  <2>1. \A s \in Thread : s # t /\ Creating(s)' => Creating(s) /\ th'[s] = th[s]
    BY <1>4 DEF Creating
  <2>2. \A s \in Thread : s # t /\ Creating(s)' => th'[s].p \in used /\ th'[s].p # r
    BY <1>2, <2>1 DEF PollInv, CreateOK
  <2> QED BY <1>1, <1>3, <1>4, <1>5, <1>6, <2>1, <2>2 DEF PollInv, CreateOK, Creating
<1>9. PollOK'
  <2>1. ~Serving(t)' /\ ~Working(t)' /\ ~(th'[t].pc \in {"close", "dealloc"})
    BY <1>4 DEF Serving, Working
  <2>2. \A s \in Thread : s # t => (Serving(s)' <=> Serving(s)) /\ (Working(s)' <=> Working(s)) /\ th'[s] = th[s]
    BY <1>4 DEF Serving, Working
  <2>3. \A s \in Thread : s # t /\ Working(s) => rec'[th[s].p] = rec[th[s].p] /\ th[s].p \in used'
    BY <1>1, <1>2, <1>3 DEF PollInv, PollOK
  <2>4. \A s \in Thread : th[s].pc \in {"close", "dealloc"} => Working(s)
    BY DEF Working
  <2> QED BY <1>5, <2>1, <2>2, <2>3, <2>4 DEF PollInv, PollOK
<1>10. RunningOK'
  <2>1. \A k \in Pid : (\A s \in Thread : th'[s].pc = "201" => th'[s].pid # k)
                       => \A s \in Thread : th[s].pc = "201" => th[s].pid # k
    BY <1>4, <1>5
  <2>2. \A q \in used \cap table : q \in used' \cap table' /\ rec'[q].Pid = rec[q].Pid
    BY <1>1, <1>2, <1>3, <1>5
  <2> QED BY <1>5, <2>1, <2>2 DEF PollInv, RunningOK
<1> QED BY <1>7, <1>8, <1>9, <1>10 DEF PollInv

LEMMA AddPoll == ASSUME TypeInv, PollInv, NEW t \in Thread, AddToProcessTable(t) PROVE PollInv'
<1>1. /\ th'[t].pc = "insert" /\ th'[t].p = th[t].p
      /\ \A s \in Thread : s # t => th'[s] = th[s]
  BY BecomeEffect DEF AddToProcessTable, TypeInv
<1>2. table' = table \cup {th[t].p} /\ th[t].pc = "add" /\ UNCHANGED <<rec, used, ProcessId, terminal>>
  BY DEF AddToProcessTable, At, client
<1>3. th[t].p \in used
  BY <1>2 DEF PollInv, CreateOK, Creating
<1>4. used' \cup table' = used \cup table
  BY <1>2, <1>3
<1>5. PidsOK'
  BY <1>2, <1>4 DEF PollInv, PidsOK
<1>6. CreateOK'
  <2>1. \A s \in Thread : (Creating(s)' <=> Creating(s)) /\ th'[s].p = th[s].p
    BY <1>1, <1>2 DEF Creating
  <2> QED BY <1>1, <1>2, <2>1 DEF PollInv, CreateOK
<1>7. PollOK'
  <2>1. ~Serving(t)' /\ ~Working(t)' /\ ~(th'[t].pc \in {"close", "dealloc"})
    BY <1>1 DEF Serving, Working
  <2>2. \A s \in Thread : s # t => (Serving(s)' <=> Serving(s)) /\ (Working(s)' <=> Working(s)) /\ th'[s] = th[s]
    BY <1>1 DEF Serving, Working
  <2> QED BY <1>2, <2>1, <2>2 DEF PollInv, PollOK
<1>8. RunningOK'
  <2>1. \A k \in Pid : (\A s \in Thread : th'[s].pc = "201" => th'[s].pid # k)
                       => \A s \in Thread : th[s].pc = "201" => th[s].pid # k
    BY <1>1, <1>2
  <2> QED BY <1>2, <2>1 DEF PollInv, RunningOK
<1> QED BY <1>5, <1>6, <1>7, <1>8 DEF PollInv

LEMMA InsertPoll == ASSUME TypeInv, PollInv, NEW t \in Thread, QueueInsert(t) PROVE PollInv'
<1> DEFINE p == th[t].p
           k == rec[p].Pid
<1>1. /\ th'[t].pc = "idle"
      /\ \A s \in Thread : s # t => th'[s] = th[s]
  BY DoneEffect DEF QueueInsert, TypeInv, Idle
<1>2. /\ th[t].pc = "insert" /\ UNCHANGED <<rec, used, table, ProcessId>>
      /\ terminal' = [terminal EXCEPT ![k] = "running"]
  BY DEF QueueInsert, At
<1>3. p \in used /\ p \in table /\ terminal[k] = "none" /\ \A s \in Thread : Creating(s) /\ th[s].p = p => s = t
  BY <1>2 DEF PollInv, CreateOK, Creating
<1>4. terminal \in [Pid -> {"none", "running", "over"}] /\ k \in Pid /\ used \in SUBSET Rec /\ k < ProcessId
  BY <1>3 DEF TypeInv, TypeOK, Record, PollInv, PidsOK
<1> HIDE DEF p, k
<1>5. terminal'[k] = "running" /\ \A j \in Pid : j # k => terminal'[j] = terminal[j]
  BY <1>2, <1>4
<1>6. PidsOK'
  BY <1>2, <1>4, <1>5 DEF PollInv, PidsOK
<1>7. CreateOK'
  <2>1. \A s \in Thread : Creating(s)' => Creating(s) /\ s # t /\ th'[s] = th[s]
    BY <1>1 DEF Creating
  <2>2. \A s \in Thread : Creating(s) /\ s # t => th[s].p \in used /\ th[s].p # p /\ rec[th[s].p].Pid \in Pid
    BY <1>3, <1>4 DEF PollInv, CreateOK, TypeInv, TypeOK, Record
  <2>3. \A s \in Thread : Creating(s) /\ s # t => rec[th[s].p].Pid # k
    BY <2>2, <1>3 DEF PollInv, PidsOK, k
  <2> QED BY <1>2, <1>5, <2>1, <2>2, <2>3 DEF PollInv, CreateOK
<1>8. PollOK'
  <2>1. ~Serving(t)' /\ ~Working(t)' /\ ~(th'[t].pc \in {"close", "dealloc"})
    BY <1>1 DEF Serving, Working
  <2>2. \A s \in Thread : s # t => (Serving(s)' <=> Serving(s)) /\ (Working(s)' <=> Working(s)) /\ th'[s] = th[s]
    BY <1>1 DEF Serving, Working
  <2>3. \A s \in Thread : Serving(s) => th[s].pid \in Pid
    BY Jobs DEF TypeInv, Job
  <2> QED BY <1>2, <1>5, <2>1, <2>2, <2>3 DEF PollInv, PollOK
<1>9. RunningOK'
  <2>1. \A j \in Pid : (\A s \in Thread : th'[s].pc = "201" => th'[s].pid # j)
                       => \A s \in Thread : th[s].pc = "201" => th[s].pid # j
    BY <1>1, <1>2
  <2>2. p \in used \cap table /\ rec[p].Pid = k
    BY <1>3 DEF k
  <2> QED BY <1>2, <1>5, <2>1, <2>2 DEF PollInv, RunningOK
<1> QED BY <1>6, <1>7, <1>8, <1>9 DEF PollInv

\* A poll finds the process of its terminal, and it is in use.
LEMMA PollPoll ==
  ASSUME TypeInv, PollInv, NEW t \in Thread, NEW k \in Pid, Poll(t, k), ~Polled(k)
  PROVE  /\ PollInv'
         /\ th'[t].pc = "ioctl" /\ th'[t].pid = k /\ th'[t].bytes = <<>> /\ th'[t].n = 0
         /\ \A s \in Thread : s # t => th'[s] = th[s]
<1>1. PICK r \in Find(k) : th' = [th EXCEPT ![t] = [Idle EXCEPT !.pc = "ioctl", !.p = r, !.pid = k]]
  BY DEF Poll
<1>2. /\ th[t].pc = "idle" /\ terminal[k] # "none"
      /\ UNCHANGED <<rec, used, table, ProcessId, terminal>>
  BY DEF Poll, At, kernel, client
<1>3. /\ th'[t].pc = "ioctl" /\ th'[t].p = r /\ th'[t].pid = k /\ th'[t].bytes = <<>> /\ th'[t].n = 0
      /\ \A s \in Thread : s # t => th'[s] = th[s]
  BY <1>1, Jobs DEF TypeInv, Idle
<1>4. terminal[k] = "running" /\ \A s \in Thread : th[s].pc = "201" \/ Serving(s) => th[s].pid # k
  BY <1>2 DEF Polled, Serving, TypeInv, TypeOK
<1>5. r \in used \cap table /\ rec[r].Pid = k
  <2>1. PICK q \in used \cap table : rec[q].Pid = k
    BY <1>4 DEF PollInv, RunningOK
  <2>2. r \in table /\ rec[r].Pid = k
    BY DEF Find
  <2> QED BY <2>1, <2>2 DEF PollInv, PidsOK
<1>6. PidsOK'
  BY <1>2 DEF PollInv, PidsOK
<1>7. CreateOK'
  <2>1. \A s \in Thread : Creating(s)' => Creating(s) /\ th'[s] = th[s]
    BY <1>3 DEF Creating
  <2> QED BY <1>2, <2>1 DEF PollInv, CreateOK
<1>8. PollOK'
  <2>1. \A s \in Thread : s # t => (Serving(s)' <=> Serving(s)) /\ (Working(s)' <=> Working(s)) /\ th'[s] = th[s]
    BY <1>3 DEF Serving, Working
  <2> QED BY <1>2, <1>3, <1>4, <1>5, <2>1 DEF PollInv, PollOK
<1>9. RunningOK'
  <2>1. \A j \in Pid : (\A s \in Thread : th'[s].pc = "201" => th'[s].pid # j)
                       => \A s \in Thread : th[s].pc = "201" => th[s].pid # j
    BY <1>2, <1>3
  <2> QED BY <1>2, <2>1 DEF PollInv, RunningOK
<1> QED BY <1>3, <1>6, <1>7, <1>8, <1>9 DEF PollInv

\* Steps of a poll that go on with the same record.
LEMMA ServePoll ==
  ASSUME TypeInv, PollInv, NEW t \in Thread, Working(t),
         UNCHANGED <<rec, used, table, ProcessId, terminal>>,
         th'[t].p = th[t].p, th'[t].pid = th[t].pid, Working(t)' \/ th'[t].pc = "200",
         th'[t].pc \in {"close", "dealloc"} => rec[th[t].p].state = "halted",
         \A s \in Thread : s # t => th'[s] = th[s]
  PROVE  PollInv'
<1>1. PidsOK'
  BY DEF PollInv, PidsOK
<1>2. CreateOK'
  <2>1. \A s \in Thread : Creating(s)' => Creating(s) /\ th'[s] = th[s]
    BY DEF Creating, Working
  <2> QED BY <2>1 DEF PollInv, CreateOK
<1>3. PollOK'
  <2>1. Serving(t) /\ Serving(t)'
    BY DEF Serving, Working
  <2>2. \A s \in Thread : s # t => (Serving(s)' <=> Serving(s)) /\ (Working(s)' <=> Working(s)) /\ th'[s] = th[s]
    BY DEF Serving, Working
  <2> QED BY <2>1, <2>2 DEF PollInv, PollOK
<1>4. RunningOK'
  <2>1. th'[t].pc # "201" /\ th[t].pc # "201"
    BY DEF Working
  <2>2. \A j \in Pid : (\A s \in Thread : th'[s].pc = "201" => th'[s].pid # j)
                       => \A s \in Thread : th[s].pc = "201" => th[s].pid # j
    BY <2>1
  <2> QED BY <2>2 DEF PollInv, RunningOK
<1> QED BY <1>1, <1>2, <1>3, <1>4 DEF PollInv

LEMMA ReadPoll ==
  ASSUME TypeInv, PollInv, NEW t \in Thread, Ioctl(t) \/ Read(t) \/ TestHalted(t)
  PROVE  PollInv'
<1>1. th[t] \in Job /\ th \in [Thread -> Job]
  BY Jobs DEF TypeInv
<1>2. UNCHANGED <<rec, used, table, ProcessId, terminal>> /\ Working(t)
  <2>1. CASE Ioctl(t)
    BY <2>1 DEF Ioctl, kernel, client, At, Working
  <2>2. CASE Read(t)
    BY <2>2, ReadFrame DEF Working
  <2>3. CASE TestHalted(t)
    BY <2>3 DEF TestHalted, kernel, client, At, Working
  <2> QED BY <2>1, <2>2, <2>3
<1>3. CASE Ioctl(t)
  <2>1. /\ th'[t].pc = "read" /\ th'[t].p = th[t].p /\ th'[t].pid = th[t].pid
        /\ \A s \in Thread : s # t => th'[s] = th[s]
    BY <1>1, <1>3 DEF Ioctl, Job
  <2> QED BY <1>2, <2>1, ServePoll DEF Working
<1>4. CASE Read(t)
  <2>1. /\ th'[t].pc = "test" /\ th'[t].p = th[t].p /\ th'[t].pid = th[t].pid
        /\ \A s \in Thread : s # t => th'[s] = th[s]
    <3>1. PICK v : th' = [th EXCEPT ![t].pc = "test", ![t].bytes = v]
      BY <1>4, ReadFrame
    <3> QED BY <1>1, <3>1 DEF Job
  <2> QED BY <1>2, <2>1, ServePoll DEF Working
<1>5. CASE TestHalted(t)
  <2>1. PICK pc \in {"close", "200"} : Become(t, pc) /\ (pc = "close" => rec[th[t].p].state = "halted")
    BY <1>5 DEF TestHalted
  <2>2. /\ th'[t].pc = pc /\ th'[t].p = th[t].p /\ th'[t].pid = th[t].pid
        /\ \A s \in Thread : s # t => th'[s] = th[s]
    BY <2>1, BecomeEffect DEF TypeInv
  <2> QED BY <1>2, <2>1, <2>2, ServePoll DEF Working
<1> QED BY <1>3, <1>4, <1>5

\* The Pid that is looked up again is the poll's own.
LEMMA CloseFinds ==
  ASSUME TypeInv, PollInv, NEW t \in Thread, Close(t)
  PROVE  /\ th'[t].pc = "dealloc" /\ th'[t].p = th[t].p /\ th'[t].pid = th[t].pid
         /\ th'[t].bytes = th[t].bytes /\ th'[t].n = th[t].n
         /\ \A s \in Thread : s # t => th'[s] = th[s]
         /\ open' = [f \in Fd |-> IF f = rec[th[t].p].fd THEN NULL ELSE open[f]]
<1>1. PICK r \in Find(rec[th[t].p].Pid) :
        /\ th' = [th EXCEPT ![t].pc = "dealloc", ![t].p = r]
        /\ open' = [f \in Fd |-> IF f = rec[r].fd THEN NULL ELSE open[f]]
  BY DEF Close
<1>2. th[t].p \in used \cap table
  BY DEF Close, At, Working, PollInv, PollOK
<1>3. r = th[t].p
  BY <1>2 DEF Find, PollInv, PidsOK
<1>4. th[t] \in Job /\ th \in [Thread -> Job]
  BY Jobs DEF TypeInv
<1> QED BY <1>1, <1>3, <1>4 DEF Job

LEMMA ClosePoll == ASSUME TypeInv, PollInv, NEW t \in Thread, Close(t) PROVE PollInv'
<1>1. UNCHANGED <<rec, used, table, ProcessId, terminal>> /\ Working(t) /\ th[t].pc = "close"
  BY DEF Close, client, At, Working
<1>2. rec[th[t].p].state = "halted"
  BY <1>1 DEF PollInv, PollOK
<1>3. th'[t].pc = "dealloc" => Working(t)'
  BY DEF Working
<1> QED BY <1>1, <1>2, <1>3, CloseFinds, ServePoll

LEMMA DeallocPoll == ASSUME TypeInv, PollInv, NEW t \in Thread, ProcessDealloc(t) PROVE PollInv'
<1> DEFINE p == th[t].p
           k == th[t].pid
<1>1. /\ th'[t].pc = "201" /\ th'[t].p = p /\ th'[t].pid = k
      /\ \A s \in Thread : s # t => th'[s] = th[s]
  BY BecomeEffect DEF ProcessDealloc, TypeInv
<1>2. th[t].pc = "dealloc" /\ used' = used \ {p} /\ UNCHANGED <<table, ProcessId, terminal>>
  BY DEF ProcessDealloc, At, client
<1>3. p \in used \cap table /\ rec[p].Pid = k /\ terminal[k] = "running"
      /\ \A s \in Thread : Serving(s) /\ th[s].pid = k => s = t
  BY <1>2 DEF Working, Serving, PollInv, PollOK
<1>4. used \in SUBSET Rec /\ table \in SUBSET Rec /\ rec \in [Rec -> Record]
  BY DEF TypeInv, TypeOK
<1>5. /\ \A q \in Rec : q # p => rec'[q] = rec[q]
      /\ \A q \in Rec : rec'[q].Pid = rec[q].Pid
  BY <1>3, <1>4 DEF ProcessDealloc, Record
<1>6. used' \cup table' = used \cup table
  BY <1>2, <1>3
<1> HIDE DEF p, k
<1>7. PidsOK'
  BY <1>2, <1>4, <1>5, <1>6 DEF PollInv, PidsOK
<1>8. CreateOK'
  <2>1. \A s \in Thread : Creating(s)' => s # t /\ Creating(s) /\ th'[s] = th[s]
    BY <1>1 DEF Creating
  <2>2. \A s \in Thread : Creating(s) => th[s].p \in used /\ th[s].p # p
    BY <1>3 DEF PollInv, CreateOK
  <2> QED BY <1>2, <1>4, <1>5, <2>1, <2>2 DEF PollInv, CreateOK
<1>9. PollOK'
  <2>1. Serving(t) /\ Serving(t)' /\ ~Working(t)' /\ ~(th'[t].pc \in {"close", "dealloc"})
    BY <1>1, <1>2 DEF Serving, Working
  <2>2. \A s \in Thread : s # t => (Serving(s)' <=> Serving(s)) /\ (Working(s)' <=> Working(s)) /\ th'[s] = th[s]
    BY <1>1 DEF Serving, Working
  <2>3. \A s \in Thread : s # t /\ Working(s) => th[s].p \in used \cap table /\ th[s].p # p
    <3>1. \A s \in Thread : Working(s) => Serving(s)
      BY DEF Working, Serving
    <3> QED BY <3>1, <1>3 DEF PollInv, PollOK
  <2>4. \A s \in Thread : s # t /\ Working(s) => th[s].p \in used' /\ rec'[th[s].p] = rec[th[s].p]
    BY <2>3, <1>2, <1>4, <1>5
  <2>5. \A s \in Thread : th[s].pc \in {"close", "dealloc"} => Working(s)
    BY DEF Working
  <2>6. th[t].pid = k
    BY DEF k
  <2> QED BY <1>1, <1>2, <2>1, <2>2, <2>3, <2>4, <2>5, <2>6 DEF PollInv, PollOK
<1>10. RunningOK'
  <2> SUFFICES ASSUME NEW j \in Pid, terminal[j] = "running",
                      \A s \in Thread : th'[s].pc = "201" => th'[s].pid # j
               PROVE  \E q \in used' \cap table' : rec'[q].Pid = j
    BY <1>2 DEF RunningOK
  <2>1. j # k /\ \A s \in Thread : th[s].pc = "201" => th[s].pid # j
    BY <1>1, <1>2
  <2>2. PICK q \in used \cap table : rec[q].Pid = j
    BY <2>1 DEF PollInv, RunningOK
  <2>3. q # p
    BY <2>1, <2>2, <1>3
  <2> QED BY <1>2, <1>4, <1>5, <2>2, <2>3
<1> QED BY <1>7, <1>8, <1>9, <1>10 DEF PollInv

LEMMA RespondPoll == ASSUME TypeInv, PollInv, NEW t \in Thread, Respond(t) PROVE PollInv'
<1> DEFINE k == th[t].pid
<1>1. /\ th'[t].pc = "idle"
      /\ \A s \in Thread : s # t => th'[s] = th[s]
  BY DoneEffect DEF Respond, TypeInv, Idle
<1>2. /\ Serving(t) /\ th[t].pc \in {"200", "201"} /\ UNCHANGED <<rec, used, table, ProcessId>>
      /\ terminal' = IF th[t].pc = "201" THEN [terminal EXCEPT ![k] = "over"] ELSE terminal
  BY DEF Respond, kernel, At, Serving
<1>3. /\ k \in Pid /\ terminal \in [Pid -> {"none", "running", "over"}]
      /\ terminal[k] = "running" /\ \A s \in Thread : Serving(s) /\ th[s].pid = k => s = t
      /\ \A s \in Thread : th[s].pid \in Pid
  BY <1>2, Jobs DEF TypeInv, TypeOK, Job, PollInv, PollOK
<1> HIDE DEF k
<1>4. /\ \A j \in Pid : j # k => terminal'[j] = terminal[j]
      /\ terminal'[k] = IF th[t].pc = "201" THEN "over" ELSE "running"
  BY <1>2, <1>3
<1>5. PidsOK'
  BY <1>2, <1>3, <1>4 DEF PollInv, PidsOK
<1>6. CreateOK'
  <2>1. \A s \in Thread : Creating(s)' => Creating(s) /\ th'[s] = th[s]
    BY <1>1 DEF Creating
  <2>2. \A s \in Thread : Creating(s) => rec[th[s].p].Pid \in Pid
    BY DEF PollInv, CreateOK, TypeInv, TypeOK, Record
  <2>3. \A s \in Thread : Creating(s) => terminal[rec[th[s].p].Pid] = "none"
    BY DEF PollInv, CreateOK
  <2>4. \A j \in Pid : terminal[j] = "none" => terminal'[j] = "none"
    BY <1>3, <1>4
  <2>5. \A s \in Thread : Creating(s) => terminal'[rec[th[s].p].Pid] = "none"
    BY <2>2, <2>3, <2>4
  <2> QED BY <1>2, <2>1, <2>5 DEF PollInv, CreateOK
<1>7. PollOK'
  <2>1. ~Serving(t)' /\ ~Working(t)' /\ ~(th'[t].pc \in {"close", "dealloc"})
    BY <1>1 DEF Serving, Working
  <2>2. \A s \in Thread : s # t => (Serving(s)' <=> Serving(s)) /\ (Working(s)' <=> Working(s)) /\ th'[s] = th[s]
    BY <1>1 DEF Serving, Working
  <2>3. \A s \in Thread : s # t /\ Serving(s) => terminal'[th[s].pid] = terminal[th[s].pid]
    BY <1>3, <1>4
  <2> QED BY <1>2, <2>1, <2>2, <2>3 DEF PollInv, PollOK
<1>8. RunningOK'
  <2> SUFFICES ASSUME NEW j \in Pid, terminal'[j] = "running",
                      \A s \in Thread : th'[s].pc = "201" => th'[s].pid # j
               PROVE  \E q \in used \cap table : rec[q].Pid = j
    BY <1>2 DEF RunningOK
  <2>1. terminal[j] = "running" /\ (th[t].pc = "201" => j # k)
    BY <1>3, <1>4
  <2>2. \A s \in Thread : th[s].pc = "201" => th[s].pid # j
    BY <1>1, <2>1 DEF k
  <2> QED BY <2>1, <2>2 DEF PollInv, RunningOK
<1> QED BY <1>5, <1>6, <1>7, <1>8 DEF PollInv

LEMMA NextPoll == ASSUME TypeInv, PollInv, ~CanFork, [OnePollNext]_vars PROVE PollInv'
<1>1. CASE Main
  BY <1>1, MainPoll
<1>2. ASSUME NEW t \in Thread, Create(t) PROVE PollInv'
  BY <1>2, AllocPoll, AddPoll, InsertPoll DEF Create
<1>3. ASSUME NEW t \in Thread, Answer(t) PROVE PollInv'
  BY <1>3, ReadPoll, ClosePoll, DeallocPoll, RespondPoll DEF Answer
<1>4. ASSUME NEW t \in Thread, NEW k \in Pid, ~Polled(k), Poll(t, k) PROVE PollInv'
  BY <1>4, PollPoll
<1>5. CASE UNCHANGED vars
  <2>1. UNCHANGED <<rec, used, table, ProcessId, terminal, th>>
    BY <1>5 DEF vars, kernel, client
  <2> QED BY <2>1, PollFrame
<1> QED BY <1>1, <1>2, <1>3, <1>4, <1>5 DEF OnePollNext

(***************************************************************************)
(* The inductive invariant of one poll at a time, without forks.           *)
(***************************************************************************)
LEMMA PollAlways == ~CanFork => (OnePollSpec => [](TypeInv /\ PollInv))
<1> SUFFICES ASSUME ~CanFork PROVE OnePollSpec => [](TypeInv /\ PollInv)
  OBVIOUS
<1>1. Init => TypeInv /\ PollInv
  BY InitType, InitPoll
<1>2. [OnePollNext]_vars => [Next]_vars
  BY DEF OnePollNext, Next
<1>3. (TypeInv /\ PollInv) /\ [OnePollNext]_vars => (TypeInv /\ PollInv)'
  BY <1>2, NextType, NextPoll
<1> QED BY <1>1, <1>3, PTL DEF OnePollSpec

(***************************************************************************)
(* A poll destroys only a process that has halted, for any number of       *)
(* processes, terminals and threads, if each terminal has one poll on its  *)
(* way and the programs do not fork: though it tests the state before, and *)
(* looks the Pid up again after (libemunet.c:366-383).                     *)
(***************************************************************************)
THEOREM DestroysOnlyHaltedAlways == ~CanFork => (OnePollSpec => DestroysOnlyHalted)
<1> SUFFICES ASSUME ~CanFork PROVE OnePollSpec => DestroysOnlyHalted
  OBVIOUS
<1>1. TypeInv /\ PollInv /\ [OnePollNext]_vars => [\A r \in used \ used' : rec[r].state = "halted"]_vars
  <2> SUFFICES ASSUME PollInv, OnePollNext, NEW r \in used \ used' PROVE rec[r].state = "halted"
    OBVIOUS
  <2>1. PICK t \in Thread : ProcessDealloc(t)
    <3>1. ASSUME Main \/ \E t \in Thread : Create(t) PROVE FALSE
      BY <3>1, Zenon DEF Main, Dequeue, TestState, Compute, Output, Halt, Fork, Preempt, GoOn,
                  Create, ProcessAlloc, AddToProcessTable, QueueInsert
    <3>2. ASSUME NEW t \in Thread,
                 \/ Ioctl(t) \/ Read(t) \/ TestHalted(t) \/ Respond(t) \/ Close(t)
                 \/ \E k \in Pid : Poll(t, k)
          PROVE  FALSE
      <4>1. used' = used
        BY <3>2, PollOnly
      <4> QED BY <4>1
    <3> QED BY <3>1, <3>2 DEF OnePollNext, Answer
  <2>2. r = th[t].p /\ th[t].pc = "dealloc"
    BY <2>1 DEF ProcessDealloc, At
  <2> QED BY <2>2 DEF PollInv, PollOK
<1> QED BY <1>1, PollAlways, PTL DEF OnePollSpec, DestroysOnlyHalted

-----------------------------------------------------------------------------
(***************************************************************************)
(* Sequences of bytes, and which of the bytes a process wrote they hold.   *)
(***************************************************************************)
\* The bytes of s are Pid k's; their ordinals; they are in order; those of A
\* come before those of B.
Own(s, k)   == \A i \in 1..Len(s) : s[i][1] = k
Ns(s)       == {s[i][2] : i \in 1..Len(s)}
Up(s)       == \A i \in 1..Len(s) : \A j \in 1..(i - 1) : s[j][2] < s[i][2]
Under(A, B) == \A a \in A, b \in B : a < b

\* Byte m of Pid k, of the fates w, is not among A for one of the reasons of
\* Dropped.
Excused(k, m, w, A) == \/ w[m] = "lost"
                       \/ \E j \in 1..m : <<k, j>> \in Nul /\ w[j] = "kept" /\ A \cap (j..m) = {}
                       \/ Digits(k) > 1

\* A is what is left of the bytes of Pid k; more are missing at the end when
\* the FIFO was shut.
Whole(k, A, w, c) ==
  /\ \A a \in A : a \in 1..Len(w) /\ w[a] = "kept"
  /\ \A m \in 1..Len(w) : m \in A \/ Excused(k, m, w, A) \/ (c = "shut" /\ \A a \in A : a < m)

\* The bytes of s, sent, of h, in a poll's hand, and of f, in the FIFO.
InOrder(k, s, h, f) ==
  /\ Own(s, k) /\ Own(h, k) /\ Own(f, k)
  /\ Up(s) /\ Up(h) /\ Up(f)
  /\ Under(Ns(s), Ns(h)) /\ Under(Ns(s), Ns(f)) /\ Under(Ns(h), Ns(f))

Flow(k, s, h, f, w, c) == InOrder(k, s, h, f) /\ Whole(k, Ns(s) \cup Ns(h) \cup Ns(f), w, c)

LEMMA Ordinals ==
  ASSUME NEW s \in Seq(Byte) PROVE Ns(s) \subseteq Nat /\ \A i \in 1..Len(s) : s[i] \in Byte /\ s[i][2] \in Nat
<1>1. ASSUME NEW i \in 1..Len(s) PROVE s[i] \in Byte /\ s[i][2] \in Nat
  <2>1. s[i] \in Byte
    OBVIOUS
  <2>2. PICK k \in Pid, n \in 1..MaxOut : s[i] = <<k, n>>
    BY <2>1 DEF Byte
  <2>3. s[i][2] = n /\ n \in Nat
    BY <2>2, LifecycleAssumption
  <2> QED BY <2>1, <2>3
<1> QED BY <1>1 DEF Ns

LEMMA None == /\ <<>> \in Seq(Byte) /\ Ns(<<>>) = {} /\ Up(<<>>) /\ \A k : Own(<<>>, k)
  BY DEF Ns, Up, Own

\* s is cut after n bytes.
Halves(s, n, a, b) == /\ a = SubSeq(s, 1, n)
                      /\ b = SubSeq(s, n + 1, Len(s)) \/ (n = 0 /\ b = s)

\* The parts of a sequence of bytes that is cut in two.
LEMMA Cut ==
  ASSUME NEW s \in Seq(Byte), NEW k, Own(s, k), Up(s), NEW n \in 0..Len(s),
         NEW a, NEW b, Halves(s, n, a, b)
  PROVE  /\ a \in Seq(Byte) /\ b \in Seq(Byte)
         /\ Own(a, k) /\ Own(b, k) /\ Up(a) /\ Up(b)
         /\ Under(Ns(a), Ns(b)) /\ Ns(s) = Ns(a) \cup Ns(b)
         /\ n < Len(s) => s[n + 1][2] \in Ns(b) /\ \A x \in Ns(b) : s[n + 1][2] <= x
         /\ n = Len(s) => Ns(b) = {}
<1> DEFINE L == Len(s)
<1>1. L \in Nat /\ n \in Nat /\ n <= L
  OBVIOUS
<1>2. a \in Seq(Byte) /\ Len(a) = n /\ \A i \in 1..n : a[i] = s[i]
  BY DEF Halves
<1>3. b \in Seq(Byte) /\ Len(b) = L - n /\ \A i \in 1..(L - n) : b[i] = s[n + i]
  <2>1. CASE n = 0 /\ b = s
    BY <2>1
  <2>2. CASE b = SubSeq(s, n + 1, Len(s))
    BY <2>2
  <2> QED BY <2>1, <2>2 DEF Halves
<1>4. \A i \in 1..L : s[i][2] \in Nat
  BY Ordinals
<1>5. \A i \in 1..L : \A j \in 1..(i - 1) : s[j][2] < s[i][2]
  BY DEF Up
<1>13. \A i \in 1..L : s[i][1] = k
  BY DEF Own
<1> HIDE DEF L
<1>6. Own(a, k) /\ Own(b, k)
  <2>1. \A i \in 1..n : i \in 1..L
    BY <1>1
  <2>2. \A i \in 1..(L - n) : n + i \in 1..L
    BY <1>1
  <2>3. \A i \in 1..n : a[i][1] = k
    BY <2>1, <1>2, <1>13
  <2>4. \A i \in 1..(L - n) : b[i][1] = k
    BY <2>2, <1>3, <1>13
  <2> QED BY <2>3, <2>4, <1>2, <1>3 DEF Own
<1>7. Up(a)
  <2>1. \A i \in 1..n : i \in 1..L /\ \A j \in 1..(i - 1) : j \in 1..n
    BY <1>1
  <2> QED BY <2>1, <1>2, <1>5 DEF Up
<1>8. Up(b)
  <2>1. ASSUME NEW i \in 1..(L - n), NEW j \in 1..(i - 1) PROVE b[j][2] < b[i][2]
    <3>1. n + i \in 1..L /\ n + j \in 1..(n + i - 1) /\ j \in 1..(L - n)
      BY <1>1
    <3>2. s[n + j][2] < s[n + i][2]
      BY <3>1, <1>5
    <3> QED BY <3>1, <3>2, <1>3
  <2> QED BY <2>1, <1>3 DEF Up
<1>9. Under(Ns(a), Ns(b))
  <2>1. ASSUME NEW i \in 1..n, NEW j \in 1..(L - n) PROVE a[i][2] < b[j][2]
    <3>1. n + j \in 1..L /\ i \in 1..(n + j - 1)
      BY <1>1
    <3>2. s[i][2] < s[n + j][2]
      BY <3>1, <1>5
    <3> QED BY <3>2, <1>2, <1>3
  <2>2. Ns(a) = {a[i][2] : i \in 1..n} /\ Ns(b) = {b[i][2] : i \in 1..(L - n)}
    BY <1>2, <1>3 DEF Ns
  <2>3. \A x \in Ns(a), y \in Ns(b) : x < y
    BY <2>1, <2>2
  <2> QED BY <2>3 DEF Under
<1>10. Ns(s) = Ns(a) \cup Ns(b)
  <2>1. \A i \in 1..L : i \in 1..n \/ (i - n \in 1..(L - n) /\ n + (i - n) = i)
    BY <1>1
  <2>2. \A i \in 1..n : i \in 1..L
    BY <1>1
  <2>3. \A i \in 1..(L - n) : n + i \in 1..L
    BY <1>1
  <2>4. ASSUME NEW i \in 1..L PROVE s[i][2] \in Ns(a) \cup Ns(b)
    <3>1. CASE i \in 1..n
      BY <3>1, <1>2 DEF Ns
    <3>2. CASE i - n \in 1..(L - n) /\ n + (i - n) = i
      <4>1. b[i - n] = s[i]
        BY <3>2, <1>3
      <4> QED BY <3>2, <4>1, <1>3 DEF Ns
    <3> QED BY <3>1, <3>2, <2>1
  <2>5. Ns(s) = {s[i][2] : i \in 1..L}
    BY DEF Ns, L
  <2>6. Ns(a) = {a[i][2] : i \in 1..n} /\ Ns(b) = {b[i][2] : i \in 1..(L - n)}
    BY <1>2, <1>3 DEF Ns
  <2>7. Ns(a) \subseteq Ns(s)
    BY <2>2, <2>5, <2>6, <1>2
  <2>8. Ns(b) \subseteq Ns(s)
    BY <2>3, <2>5, <2>6, <1>3
  <2> QED BY <2>4, <2>5, <2>7, <2>8
<1>11. ASSUME n < L PROVE s[n + 1][2] \in Ns(b) /\ \A x \in Ns(b) : s[n + 1][2] <= x
  <2>1. 1 \in 1..(L - n) /\ b[1] = s[n + 1]
    BY <1>1, <1>3, <1>11
  <2>2. ASSUME NEW i \in 1..(L - n) PROVE s[n + 1][2] <= b[i][2]
    <3>1. n + i \in 1..L /\ n + 1 \in 1..L /\ b[i] = s[n + i] /\ (i = 1 \/ n + 1 \in 1..(n + i - 1))
      BY <1>1, <1>3, <1>11
    <3>2. s[n + 1][2] \in Nat /\ s[n + i][2] \in Nat
      BY <3>1, <1>4
    <3>3. CASE i = 1
      BY <3>1, <3>2, <3>3
    <3>4. CASE n + 1 \in 1..(n + i - 1)
      <4>1. s[n + 1][2] < s[n + i][2]
        BY <3>1, <3>4, <1>5
      <4> QED BY <3>1, <3>2, <4>1
    <3> QED BY <3>1, <3>3, <3>4
  <2>3. Ns(b) = {b[i][2] : i \in 1..(L - n)}
    BY <1>3 DEF Ns
  <2> QED BY <2>1, <2>2, <2>3
<1>12. n = L => Ns(b) = {}
  BY <1>1, <1>3 DEF Ns
<1> QED BY <1>2, <1>3, <1>6, <1>7, <1>8, <1>9, <1>10, <1>11, <1>12 DEF L

\* A sequence of bytes that follows another.
LEMMA Join ==
  ASSUME NEW s \in Seq(Byte), NEW h \in Seq(Byte), NEW k, Own(s, k), Own(h, k), Up(s), Up(h),
         Under(Ns(s), Ns(h)), NEW q, q = s \o h
  PROVE  q \in Seq(Byte) /\ Own(q, k) /\ Up(q) /\ Ns(q) = Ns(s) \cup Ns(h)
<1> DEFINE L == Len(s)
           M == Len(h)
<1>1. L \in Nat /\ M \in Nat
  OBVIOUS
<1>2. q \in Seq(Byte) /\ Len(q) = L + M
  OBVIOUS
<1>3. \A i \in 1..L : q[i] = s[i]
  OBVIOUS
<1>4. \A i \in 1..M : q[L + i] = h[i]
  OBVIOUS
<1>5. /\ \A i \in 1..L : s[i][2] \in Ns(s)
      /\ \A i \in 1..M : h[i][2] \in Ns(h)
  BY DEF Ns
<1>6. /\ \A i \in 1..L : s[i][1] = k /\ \A j \in 1..(i - 1) : s[j][2] < s[i][2]
      /\ \A i \in 1..M : h[i][1] = k /\ \A j \in 1..(i - 1) : h[j][2] < h[i][2]
  BY DEF Own, Up
<1>7. \A i \in 1..(L + M) : i \in 1..L \/ (i - L \in 1..M /\ L + (i - L) = i)
  BY <1>1
<1>8. Ns(s) = {s[i][2] : i \in 1..L} /\ Ns(h) = {h[i][2] : i \in 1..M} /\ Ns(q) = {q[i][2] : i \in 1..(L + M)}
  BY <1>2 DEF Ns
<1> HIDE DEF L, M
<1>9. ASSUME NEW i \in 1..(L + M)
      PROVE  /\ q[i][1] = k /\ q[i][2] \in Ns(s) \cup Ns(h)
             /\ \A j \in 1..(i - 1) : q[j][2] < q[i][2]
  <2>1. CASE i \in 1..L
    <3>1. \A j \in 1..(i - 1) : j \in 1..L
      BY <1>1, <2>1
    <3> QED BY <2>1, <3>1, <1>3, <1>5, <1>6
  <2>2. CASE i - L \in 1..M /\ L + (i - L) = i
    <3>1. q[i] = h[i - L]
      BY <2>2, <1>4
    <3>2. ASSUME NEW j \in 1..(i - 1) PROVE q[j][2] < q[i][2]
      <4>1. CASE j \in 1..L
        BY <4>1, <2>2, <3>1, <1>3, <1>5 DEF Under
      <4>2. CASE j \notin 1..L
        <5>1. j - L \in 1..((i - L) - 1) /\ j - L \in 1..M /\ L + (j - L) = j
          BY <4>2, <2>2, <1>1
        <5>2. q[j] = h[j - L]
          BY <5>1, <1>4
        <5> QED BY <5>1, <5>2, <2>2, <3>1, <1>6
      <4> QED BY <4>1, <4>2
    <3> QED BY <2>2, <3>1, <3>2, <1>5, <1>6
  <2> QED BY <2>1, <2>2, <1>7
<1>10. Own(q, k) /\ Up(q)
  BY <1>2, <1>9 DEF Own, Up
<1>11. Ns(q) = Ns(s) \cup Ns(h)
  <2>1. \A i \in 1..L : i \in 1..(L + M)
    BY <1>1
  <2>2. \A i \in 1..M : L + i \in 1..(L + M)
    BY <1>1
  <2>3. Ns(s) \subseteq Ns(q)
    BY <2>1, <1>3, <1>8
  <2>4. Ns(h) \subseteq Ns(q)
    BY <2>2, <1>4, <1>8
  <2>5. Ns(q) \subseteq Ns(s) \cup Ns(h)
    BY <1>8, <1>9
  <2> QED BY <2>3, <2>4, <2>5
<1> QED BY <1>2, <1>10, <1>11

\* A byte that is written at the end.
LEMMA Add ==
  ASSUME NEW f \in Seq(Byte), NEW k, NEW n, <<k, n>> \in Byte, Own(f, k), Up(f),
         Under(Ns(f), {n}), NEW q, q = Append(f, <<k, n>>)
  PROVE  q \in Seq(Byte) /\ Own(q, k) /\ Up(q) /\ Ns(q) = Ns(f) \cup {n}
<1> DEFINE x == <<k, n>>
           L == Len(f)
<1>1. x[1] = k /\ x[2] = n /\ x \in Byte
  OBVIOUS
<1>2. q = Append(f, x)
  OBVIOUS
<1> HIDE DEF x
<1>3. /\ L \in Nat /\ q \in Seq(Byte) /\ Len(q) = L + 1 /\ q[L + 1] = x
      /\ \A i \in 1..L : q[i] = f[i]
  BY <1>1, <1>2
<1>4. \A i \in 1..L : f[i][1] = k /\ f[i][2] < n /\ \A j \in 1..(i - 1) : f[j][2] < f[i][2]
  BY DEF Own, Up, Under, Ns
<1>5. Ns(f) = {f[i][2] : i \in 1..L} /\ Ns(q) = {q[i][2] : i \in 1..(L + 1)}
  BY <1>3 DEF Ns
<1> HIDE DEF L
<1>6. \A i \in 1..(L + 1) : i = L + 1 \/ i \in 1..L
  BY <1>3
<1>7. ASSUME NEW i \in 1..(L + 1), NEW j \in 1..(i - 1) PROVE q[j][2] < q[i][2]
  <2>1. j \in 1..L
    BY <1>3
  <2> QED BY <2>1, <1>1, <1>3, <1>4, <1>6
<1>8. Own(q, k) /\ Up(q)
  BY <1>1, <1>3, <1>4, <1>6, <1>7 DEF Own, Up
<1>9. Ns(q) = Ns(f) \cup {n}
  <2>1. L + 1 \in 1..(L + 1) /\ \A i \in 1..L : i \in 1..(L + 1)
    BY <1>3
  <2>2. Ns(f) \subseteq Ns(q)
    BY <2>1, <1>3, <1>5
  <2>3. n \in Ns(q)
    BY <2>1, <1>1, <1>3, <1>5
  <2>4. \A i \in 1..(L + 1) : q[i][2] \in Ns(f) \cup {n}
    BY <1>1, <1>3, <1>5, <1>6
  <2>5. Ns(q) \subseteq Ns(f) \cup {n}
    BY <2>4, <1>5
  <2> QED BY <2>2, <2>3, <2>5
<1> QED BY <1>3, <1>8, <1>9

\* A byte that finds room, and one that finds none.
LEMMA WholeKept ==
  ASSUME NEW k, NEW A, NEW w \in Seq(Fate), Whole(k, A, w, "open"), NEW v, v = Append(w, "kept")
  PROVE  Whole(k, A \cup {Len(w) + 1}, v, "open") /\ \A a \in A : a < Len(w) + 1
<1> DEFINE L == Len(w)
<1>1. /\ L \in Nat /\ Len(v) = L + 1 /\ v[L + 1] = "kept"
      /\ \A i \in 1..L : v[i] = w[i]
  OBVIOUS
<1>2. /\ \A a \in A : a \in 1..L /\ w[a] = "kept"
      /\ \A m \in 1..L : m \in A \/ Excused(k, m, w, A)
  BY DEF Whole
<1> HIDE DEF L
<1>3. /\ \A i \in 1..L : i \in 1..(L + 1) /\ i < L + 1
      /\ \A i \in 1..(L + 1) : i \in 1..L \/ i = L + 1
  BY <1>1
<1>4. ASSUME NEW m \in 1..L, Excused(k, m, w, A) PROVE Excused(k, m, v, A \cup {L + 1})
  <2>1. CASE w[m] = "lost" \/ Digits(k) > 1
    BY <2>1, <1>1 DEF Excused
  <2>2. ASSUME NEW j \in 1..m, <<k, j>> \in Nul, w[j] = "kept", A \cap (j..m) = {}
        PROVE  Excused(k, m, v, A \cup {L + 1})
    <3>1. j \in 1..L /\ L + 1 \notin j..m
      BY <1>1
    <3> QED BY <2>2, <3>1, <1>1 DEF Excused
  <2> QED BY <1>4, <2>1, <2>2 DEF Excused
<1>5. /\ \A a \in A \cup {L + 1} : a \in 1..(L + 1) /\ v[a] = "kept"
      /\ \A a \in A : a < L + 1
  BY <1>1, <1>2, <1>3
<1>6. \A m \in 1..(L + 1) : m \in A \cup {L + 1} \/ Excused(k, m, v, A \cup {L + 1})
  BY <1>2, <1>3, <1>4
<1>7. Whole(k, A \cup {L + 1}, v, "open")
  BY <1>1, <1>5, <1>6 DEF Whole
<1> QED BY <1>5, <1>7 DEF L

LEMMA WholeLost ==
  ASSUME NEW k, NEW A, NEW c, NEW w \in Seq(Fate), Whole(k, A, w, c), NEW v, v = Append(w, "lost")
  PROVE  Whole(k, A, v, c)
<1> DEFINE L == Len(w)
<1>1. /\ L \in Nat /\ Len(v) = L + 1 /\ v[L + 1] = "lost"
      /\ \A i \in 1..L : v[i] = w[i]
  OBVIOUS
<1>2. /\ \A a \in A : a \in 1..L /\ w[a] = "kept"
      /\ \A m \in 1..L : m \in A \/ Excused(k, m, w, A) \/ (c = "shut" /\ \A a \in A : a < m)
  BY DEF Whole
<1> HIDE DEF L
<1>3. /\ \A i \in 1..L : i \in 1..(L + 1)
      /\ \A i \in 1..(L + 1) : i \in 1..L \/ i = L + 1
  BY <1>1
<1>4. ASSUME NEW m \in 1..L, Excused(k, m, w, A) PROVE Excused(k, m, v, A)
  <2>1. \A j \in 1..m : j \in 1..L
    BY <1>1
  <2> QED BY <1>4, <2>1, <1>1 DEF Excused
<1>5. Excused(k, L + 1, v, A)
  BY <1>1 DEF Excused
<1> QED BY <1>1, <1>2, <1>3, <1>4, <1>5 DEF Whole

\* What was in the FIFO is thrown away.
LEMMA WholeShut ==
  ASSUME NEW k, NEW A, NEW C, NEW c, NEW w, Whole(k, A \cup C, w, c), Under(A, C)
  PROVE  Whole(k, A, w, "shut")
<1>1. ASSUME NEW m \in 1..Len(w), Excused(k, m, w, A \cup C) PROVE Excused(k, m, w, A)
  BY <1>1 DEF Excused
<1> QED BY <1>1 DEF Whole, Under

\* The bytes of B are left out of an answer, from a byte 0 on, or because the
\* Pid has several digits.
LEMMA WholeCut ==
  ASSUME NEW k, NEW A \in SUBSET Nat, NEW B \in SUBSET Nat, NEW C \in SUBSET Nat, NEW c, NEW w,
         Whole(k, A \cup B \cup C, w, c), Under(A, B), Under(B, C),
         \/ B = {} \/ Digits(k) > 1
         \/ \E b \in B : <<k, b>> \in Nul /\ \A x \in B : b <= x
  PROVE  Whole(k, A \cup C, w, c)
<1>1. /\ \A a \in A \cup B \cup C : a \in 1..Len(w) /\ w[a] = "kept"
      /\ \A m \in 1..Len(w) : \/ m \in A \cup B \cup C
                              \/ Excused(k, m, w, A \cup B \cup C)
                              \/ c = "shut" /\ \A a \in A \cup B \cup C : a < m
  BY DEF Whole
<1>2. ASSUME NEW m \in 1..Len(w), Excused(k, m, w, A \cup B \cup C) PROVE Excused(k, m, w, A \cup C)
  BY <1>2 DEF Excused
<1>3. ASSUME NEW m \in B PROVE Excused(k, m, w, A \cup C)
  <2>1. CASE Digits(k) > 1
    BY <2>1 DEF Excused
  <2>2. ASSUME NEW b \in B, <<k, b>> \in Nul, \A x \in B : b <= x PROVE Excused(k, m, w, A \cup C)
    <3>1. b \in Nat /\ m \in Nat /\ b <= m /\ b \in 1..m /\ w[b] = "kept"
      BY <1>1, <2>2
    <3>2. \A y \in A : y \notin b..m
      BY <3>1 DEF Under
    <3>3. \A y \in C : y \notin b..m
      BY <3>1 DEF Under
    <3> QED BY <2>2, <3>1, <3>2, <3>3 DEF Excused
  <2> QED BY <1>3, <2>1, <2>2
<1> QED BY <1>1, <1>2, <1>3 DEF Whole

\* A read takes bytes from the FIFO into a poll's hand.
LEMMA FlowRead ==
  ASSUME NEW k, NEW s \in Seq(Byte), NEW f \in Seq(Byte), NEW w, NEW c, NEW n \in 0..Len(f),
         Flow(k, s, <<>>, f, w, c),
         NEW a, NEW b, Halves(f, n, a, b)
  PROVE  Flow(k, s, a, b, w, c)
<1>1. InOrder(k, s, <<>>, f) /\ Whole(k, Ns(s) \cup Ns(<<>>) \cup Ns(f), w, c)
  BY DEF Flow
<1>2. Own(s, k) /\ Own(f, k) /\ Up(s) /\ Up(f) /\ Under(Ns(s), Ns(f))
  BY <1>1 DEF InOrder
<1>3. /\ Own(a, k) /\ Own(b, k) /\ Up(a) /\ Up(b)
      /\ Under(Ns(a), Ns(b)) /\ Ns(f) = Ns(a) \cup Ns(b)
  BY <1>2, Cut
<1>4. Under(Ns(s), Ns(a)) /\ Under(Ns(s), Ns(b))
  BY <1>2, <1>3 DEF Under
<1>5. Ns(s) \cup Ns(<<>>) \cup Ns(f) = Ns(s) \cup Ns(a) \cup Ns(b)
  BY <1>3, None
<1> QED BY <1>1, <1>2, <1>3, <1>4, <1>5 DEF Flow, InOrder

\* An answer takes what a poll has in hand to the terminal, up to the first
\* byte that does not get through.
LEMMA FlowRespond ==
  ASSUME NEW k, NEW s \in Seq(Byte), NEW h \in Seq(Byte), NEW f \in Seq(Byte), NEW w, NEW c,
         Flow(k, s, h, f, w, c), NEW m \in 0..Len(h),
         m = Len(h) \/ Digits(k) > 1 \/ h[m + 1] \in Nul,
         NEW q, q = s \o SubSeq(h, 1, m)
  PROVE  Flow(k, q, <<>>, f, w, c)
<1> DEFINE a == SubSeq(h, 1, m)
           b == SubSeq(h, m + 1, Len(h))
<1>1. /\ Own(s, k) /\ Own(h, k) /\ Own(f, k)
      /\ Up(s) /\ Up(h) /\ Up(f)
      /\ Under(Ns(s), Ns(h)) /\ Under(Ns(s), Ns(f)) /\ Under(Ns(h), Ns(f))
      /\ Whole(k, Ns(s) \cup Ns(h) \cup Ns(f), w, c)
  BY DEF Flow, InOrder
<1>2. /\ a \in Seq(Byte) /\ b \in Seq(Byte)
      /\ Own(a, k) /\ Up(a) /\ Under(Ns(a), Ns(b)) /\ Ns(h) = Ns(a) \cup Ns(b)
      /\ m < Len(h) => h[m + 1][2] \in Ns(b) /\ \A x \in Ns(b) : h[m + 1][2] <= x
      /\ m = Len(h) => Ns(b) = {}
  <2>1. Halves(h, m, a, b)
    BY DEF Halves
  <2> HIDE DEF a, b
  <2> QED BY <1>1, <2>1, Cut
<1> HIDE DEF a, b
<1>3. Under(Ns(s), Ns(a)) /\ q = s \o a
  BY <1>1, <1>2 DEF Under, a
<1>4. Own(q, k) /\ Up(q) /\ Ns(q) = Ns(s) \cup Ns(a)
  BY <1>1, <1>2, <1>3, Join
<1>5. /\ Ns(q) \in SUBSET Nat /\ Ns(b) \in SUBSET Nat /\ Ns(f) \in SUBSET Nat
  BY <1>2, <1>4, Ordinals
<1>6. Under(Ns(q), Ns(b)) /\ Under(Ns(b), Ns(f)) /\ Under(Ns(q), Ns(f))
  BY <1>1, <1>2, <1>4 DEF Under
<1>7. \/ Ns(b) = {} \/ Digits(k) > 1
      \/ \E x \in Ns(b) : <<k, x>> \in Nul /\ \A y \in Ns(b) : x <= y
  <2>1. CASE m < Len(h) /\ h[m + 1] \in Nul
    <3>1. m + 1 \in 1..Len(h)
      BY <2>1
    <3>2. h[m + 1] \in Byte /\ h[m + 1][1] = k
      BY <3>1, <1>1 DEF Own
    <3>3. h[m + 1] = <<k, h[m + 1][2]>>
      BY <3>2 DEF Byte
    <3> QED BY <2>1, <3>3, <1>2
  <2>2. CASE m = Len(h)
    BY <2>2, <1>2
  <2>3. m < Len(h) \/ m = Len(h)
    OBVIOUS
  <2> QED BY <2>1, <2>2, <2>3
<1>8. Ns(s) \cup Ns(h) \cup Ns(f) = Ns(q) \cup Ns(b) \cup Ns(f)
  BY <1>2, <1>4
<1>9. Whole(k, Ns(q) \cup Ns(f), w, c)
  <2> DEFINE A == Ns(q)
             B == Ns(b)
             C == Ns(f)
  <2>1. A \in SUBSET Nat /\ B \in SUBSET Nat /\ C \in SUBSET Nat /\ Whole(k, A \cup B \cup C, w, c)
    BY <1>1, <1>5, <1>8
  <2>2. Under(A, B) /\ Under(B, C)
    BY <1>6
  <2>3. \/ B = {} \/ Digits(k) > 1
        \/ \E x \in B : <<k, x>> \in Nul /\ \A y \in B : x <= y
    BY <1>7
  <2> HIDE DEF A, B, C
  <2>4. Whole(k, A \cup C, w, c)
    BY <2>1, <2>2, <2>3, WholeCut
  <2> QED BY <2>4 DEF A, C
<1>10. Ns(q) \cup Ns(<<>>) \cup Ns(f) = Ns(q) \cup Ns(f)
  BY None
<1>11. InOrder(k, q, <<>>, f)
  BY <1>1, <1>4, <1>6, None DEF InOrder, Under
<1> QED BY <1>9, <1>10, <1>11 DEF Flow

\* A byte is written to the FIFO; or lost.
LEMMA FlowKept ==
  ASSUME NEW k, NEW s, NEW h, NEW f \in Seq(Byte), NEW w \in Seq(Fate),
         Flow(k, s, h, f, w, "open"), <<k, Len(w) + 1>> \in Byte,
         NEW q, q = Append(f, <<k, Len(w) + 1>>), NEW v, v = Append(w, "kept")
  PROVE  Flow(k, s, h, q, v, "open")
<1> DEFINE n == Len(w) + 1
<1>1. InOrder(k, s, h, f) /\ Whole(k, Ns(s) \cup Ns(h) \cup Ns(f), w, "open")
  BY DEF Flow
<1>2. /\ Whole(k, Ns(s) \cup Ns(h) \cup Ns(f) \cup {n}, v, "open")
      /\ \A a \in Ns(s) \cup Ns(h) \cup Ns(f) : a < n
  BY <1>1, WholeKept
<1>3. <<k, n>> \in Byte /\ q = Append(f, <<k, n>>)
  OBVIOUS
<1> HIDE DEF n
<1>4. Under(Ns(f), {n}) /\ Own(f, k) /\ Up(f)
  BY <1>1, <1>2 DEF Under, InOrder
<1>5. Own(q, k) /\ Up(q) /\ Ns(q) = Ns(f) \cup {n}
  BY <1>3, <1>4, Add
<1>6. InOrder(k, s, h, q)
  BY <1>1, <1>2, <1>5 DEF Under, InOrder
<1>7. Ns(s) \cup Ns(h) \cup Ns(f) \cup {n} = Ns(s) \cup Ns(h) \cup Ns(q)
  BY <1>5
<1> QED BY <1>2, <1>6, <1>7 DEF Flow

LEMMA FlowLost ==
  ASSUME NEW k, NEW s, NEW h, NEW f, NEW w \in Seq(Fate), NEW c,
         Flow(k, s, h, f, w, c), NEW v, v = Append(w, "lost")
  PROVE  Flow(k, s, h, f, v, c)
  BY WholeLost DEF Flow

\* The FIFO is shut.
LEMMA FlowShut ==
  ASSUME NEW k, NEW s, NEW h, NEW f, NEW w, NEW c, Flow(k, s, h, f, w, c)
  PROVE  Flow(k, s, h, <<>>, w, "shut")
<1>1. InOrder(k, s, h, f) /\ Whole(k, (Ns(s) \cup Ns(h)) \cup Ns(f), w, c)
  BY DEF Flow
<1>2. Under(Ns(s) \cup Ns(h), Ns(f))
  BY <1>1 DEF Under, InOrder
<1>3. Whole(k, Ns(s) \cup Ns(h), w, "shut")
  BY <1>1, <1>2, WholeShut
<1>4. Ns(s) \cup Ns(h) \cup Ns(<<>>) = Ns(s) \cup Ns(h)
  BY None
<1>5. InOrder(k, s, h, <<>>)
  BY <1>1, None DEF InOrder, Under
<1> QED BY <1>3, <1>4, <1>5 DEF Flow

\* What Flow says of what was sent.
LEMMA FlowSent ==
  ASSUME NEW k, NEW s \in Seq(Byte), NEW h, NEW f, NEW w, NEW c, Flow(k, s, h, f, w, c), NEW i \in 1..Len(s)
  PROVE  /\ s[i][1] = k
         /\ \A j \in 1..(i - 1) : s[j][2] < s[i][2]
         /\ \A m \in 1..(s[i][2] - 1) : m \in Ns(s) \/ Excused(k, m, w, Ns(s))
<1>1. InOrder(k, s, h, f) /\ Whole(k, Ns(s) \cup Ns(h) \cup Ns(f), w, c)
  BY DEF Flow
<1>2. s[i][2] \in Ns(s) /\ Ns(s) \subseteq Nat
  BY Ordinals DEF Ns
<1>3. ASSUME NEW m \in 1..(s[i][2] - 1) PROVE m \in Ns(s) \/ Excused(k, m, w, Ns(s))
  <2>1. s[i][2] \in 1..Len(w)
    BY <1>1, <1>2 DEF Whole
  <2>2. m \in 1..Len(w) /\ m < s[i][2] /\ ~(s[i][2] < m)
    BY <1>2, <2>1
  <2>3. m \in Ns(s) \cup Ns(h) \cup Ns(f) \/ Excused(k, m, w, Ns(s) \cup Ns(h) \cup Ns(f))
    BY <1>1, <1>2, <2>2 DEF Whole
  <2>4. m \notin Ns(h) \cup Ns(f)
    BY <1>1, <1>2, <2>2 DEF InOrder, Under
  <2>5. Excused(k, m, w, Ns(s) \cup Ns(h) \cup Ns(f)) => Excused(k, m, w, Ns(s))
    BY DEF Excused
  <2> QED BY <2>3, <2>4, <2>5
<1> QED BY <1>1, <1>3 DEF InOrder, Own, Up

-----------------------------------------------------------------------------
(***************************************************************************)
(* What a terminal is sent.                                                *)
(***************************************************************************)
\* The process's descriptor is being, or was, closed.
Shut(r) == \E t \in Thread : th[t].pc = "dealloc" /\ th[t].p = r

\* A process has its own FIFO, from its creation until it is destroyed.
FdOK == \A r \in used :
  /\ rec[r].home = rec[r].Pid
  /\ ~Shut(r) => rec[r].fd \in Fd /\ open[rec[r].fd] = rec[r].Pid

\* An instruction is executed only where the record does not say halted.
ExecOK == main = "execute" => rec[current].state = "run"

\* The process of a terminal that was, or is to be, told of its end is gone.
GoneOK == \A r \in used :
  /\ terminal[rec[r].Pid] # "over"
  /\ \A t \in Thread : th[t].pc = "201" => th[t].pid # rec[r].Pid

Closed(t) == IF th[t].pc \in {"dealloc", "201"} THEN "shut" ELSE "open"
Ended(k)  == IF terminal[k] = "over" THEN "shut" ELSE "open"

\* Every byte that was kept was sent, or a poll has it, or it is in the FIFO,
\* or Excused says why not; where a poll is being answered, and where none is.
HandOK == \A t \in Thread : Serving(t) =>
  /\ th[t].pc \in {"ioctl", "read"} => th[t].bytes = <<>>
  /\ Len(th[t].bytes) <= th[t].n
  /\ Flow(th[t].pid, sent[th[t].pid], th[t].bytes, fifo[th[t].pid], wrote[th[t].pid], Closed(t))

RestOK == \A k \in Pid : (\A t \in Thread : Serving(t) => th[t].pid # k) =>
  Flow(k, sent[k], <<>>, fifo[k], wrote[k], Ended(k))

BytesOK   == HandOK /\ RestOK
StreamInv == FdOK /\ ExecOK /\ GoneOK /\ (Strayed \/ BytesOK)

LEMMA InitStream == Init => StreamInv
<1> SUFFICES ASSUME Init PROVE StreamInv
  OBVIOUS
<1>1. FdOK /\ ExecOK /\ GoneOK
  BY DEF Init, FdOK, ExecOK, GoneOK
<1>2. \A t \in Thread : ~Serving(t)
  BY DEF Init, Idle, Serving
<1>3. HandOK
  BY <1>2 DEF HandOK
<1>4. RestOK
  <2>1. ASSUME NEW k \in Pid PROVE Flow(k, sent[k], <<>>, fifo[k], wrote[k], Ended(k))
    <3>1. sent[k] = <<>> /\ fifo[k] = <<>> /\ wrote[k] = <<>>
      BY DEF Init
    <3>2. InOrder(k, <<>>, <<>>, <<>>)
      BY None DEF InOrder, Under
    <3>3. \A c : Whole(k, Ns(<<>>) \cup Ns(<<>>) \cup Ns(<<>>), <<>>, c)
      BY None DEF Whole
    <3> QED BY <3>1, <3>2, <3>3 DEF Flow
  <2> QED BY <2>1 DEF RestOK
<1> QED BY <1>1, <1>3, <1>4 DEF StreamInv, BytesOK

\* What became of the bytes that were written is never forgotten.
LEMMA StraysOn == ASSUME TypeInv, Strayed, ~CanFork, [OnePollNext]_vars PROVE Strayed'
<1>1. wrote \in [Pid -> Seq(Fate)]
  BY Types
<1>2. PICK j \in Pid : \E n \in 1..Len(wrote[j]) : wrote[j][n] = "stray"
  BY DEF Strayed
<1>3. PICK n \in 1..Len(wrote[j]) : wrote[j][n] = "stray"
  BY <1>2
<1>4. CASE UNCHANGED wrote
  BY <1>4 DEF Strayed
<1>5. CASE Output
  <2> DEFINE k == rec[current].home
  <2>1. PICK x \in Fate : wrote' = [wrote EXCEPT ![k] = Append(wrote[k], x)]
    BY <1>5 DEF Output, Fate
  <2> HIDE DEF k
  <2>2. CASE k # j
    <3>1. wrote'[j] = wrote[j]
      BY <2>1, <2>2, <1>1
    <3> QED BY <3>1, <1>3 DEF Strayed
  <2>3. CASE k = j
    <3>1. wrote'[j] = Append(wrote[j], x) /\ wrote[j] \in Seq(Fate)
      BY <2>1, <2>3, <1>1
    <3>2. n \in 1..Len(wrote'[j]) /\ wrote'[j][n] = "stray"
      BY <3>1, <1>3
    <3> QED BY <3>2 DEF Strayed
  <2> QED BY <2>2, <2>3
<1>6. CASE Main /\ ~Output
  <2>1. UNCHANGED wrote
    BY <1>6 DEF Main, Dequeue, TestState, Compute, Halt, Fork, Preempt, GoOn
  <2> QED BY <2>1, <1>4
<1>7. ASSUME NEW t \in Thread, Create(t) \/ Answer(t) \/ \E k \in Pid : Poll(t, k) PROVE UNCHANGED wrote
  <2>1. CASE Create(t)
    BY <2>1 DEF Create, ProcessAlloc, AddToProcessTable, QueueInsert
  <2>2. CASE ProcessDealloc(t)
    BY <2>2 DEF ProcessDealloc
  <2>3. CASE ~Create(t) /\ ~ProcessDealloc(t)
    BY <1>7, <2>3, PollOnly DEF Answer
  <2> QED BY <2>1, <2>2, <2>3
<1>8. CASE UNCHANGED vars
  BY <1>4, <1>8 DEF vars, kernel
<1> QED BY <1>4, <1>5, <1>6, <1>7, <1>8 DEF OnePollNext

LEMMA ExecKeeps == ASSUME TypeInv, ExecOK, ~CanFork, [OnePollNext]_vars PROVE ExecOK'
<1>1. rec \in [Rec -> Record] /\ (main # "dequeue" => current \in Rec)
  BY DEF TypeInv, TypeOK, RefersOK
<1>2. CASE TestState
  <2>1. UNCHANGED <<rec, current>> /\ main = "test" /\ (main' = "execute" => rec[current].state # "halted")
    BY <1>2 DEF TestState
  <2>2. rec[current] \in Record
    BY <1>1, <2>1
  <2>3. rec[current].state \in {"run", "halted"}
    BY <2>2 DEF Record
  <2> QED BY <2>1, <2>3 DEF ExecOK
<1>3. CASE Main /\ ~TestState
  <2>1. main' # "execute"
    BY <1>3 DEF Main, Dequeue, Compute, Output, Halt, Fork, Execute, Preempt, GoOn
  <2> QED BY <2>1 DEF ExecOK
<1>4. ASSUME NEW t \in Thread, ProcessAlloc(t) PROVE ExecOK'
  <2>1. PICK r \in FreeRec, f \in FreeFd :
          rec' = [rec EXCEPT ![r] = [state |-> "run", Pid |-> ProcessId, fd |-> f, home |-> ProcessId]]
    BY <1>4 DEF ProcessAlloc
  <2>2. UNCHANGED <<main, current>>
    BY <1>4 DEF ProcessAlloc
  <2>3. \A q \in Rec : rec[q].state = "run" => rec'[q].state = "run"
    BY <1>1, <2>1
  <2> QED BY <1>1, <2>2, <2>3 DEF ExecOK
<1>5. ASSUME NEW t \in Thread, ProcessDealloc(t) PROVE ExecOK'
  <2>1. UNCHANGED <<main, current>> /\ rec' = [rec EXCEPT ![th[t].p].state = "run"]
    BY <1>5 DEF ProcessDealloc
  <2>2. \A q \in Rec : rec[q].state = "run" => rec'[q].state = "run"
    BY <1>1, <2>1 DEF Record
  <2> QED BY <1>1, <2>1, <2>2 DEF ExecOK
<1>6. ASSUME NEW t \in Thread, Create(t) \/ Answer(t) \/ \E k \in Pid : Poll(t, k),
             ~ProcessAlloc(t), ~ProcessDealloc(t)
      PROVE  ExecOK'
  <2>1. UNCHANGED <<rec, main, current>>
    <3>1. CASE Create(t)
      BY <1>6, <3>1 DEF Create, AddToProcessTable, QueueInsert, Ready!Insert
    <3>2. CASE ~Create(t)
      BY <1>6, <3>2, PollOnly DEF Answer
    <3> QED BY <3>1, <3>2
  <2> QED BY <2>1 DEF ExecOK
<1>7. CASE UNCHANGED vars
  BY <1>7 DEF vars, kernel, ExecOK
<1> QED BY <1>2, <1>3, <1>4, <1>5, <1>6, <1>7 DEF OnePollNext

LEMMA GoneKeeps == ASSUME TypeInv, PollInv, GoneOK, ~CanFork, [OnePollNext]_vars PROVE GoneOK'
<1>1. /\ rec \in [Rec -> Record] /\ used \in SUBSET Rec /\ th \in [Thread -> Job]
      /\ terminal \in [Pid -> {"none", "running", "over"}]
  BY Types DEF TypeInv, TypeOK
<1>2. \A r \in used : r \in Rec /\ rec[r].Pid \in Pid
  BY <1>1 DEF Record
<1>3. CASE Main \/ UNCHANGED vars
  <2>1. UNCHANGED <<used, terminal, th>>
    BY <1>3 DEF Main, Dequeue, TestState, Compute, Output, Halt, Fork, Preempt, GoOn, client, vars, kernel
  <2>2. \A r \in Rec : rec'[r].Pid = rec[r].Pid
    <3>1. CASE Halt
      <4>1. current \in Rec /\ rec' = [rec EXCEPT ![current] = [rec[current] EXCEPT !.state = "halted"]]
        BY <3>1 DEF Halt, Execute, TypeInv, RefersOK
      <4> QED BY <1>1, <4>1 DEF Record
    <3>2. CASE ~Halt
      <4>1. UNCHANGED rec
        BY <1>3, <3>2 DEF Main, Dequeue, TestState, Compute, Output, Fork, Preempt, GoOn, vars, kernel
      <4> QED BY <4>1
    <3> QED BY <3>1, <3>2
  <2> QED BY <1>2, <2>1, <2>2 DEF GoneOK
<1>4. ASSUME NEW t \in Thread,
             \/ AddToProcessTable(t) \/ QueueInsert(t) \/ Ioctl(t) \/ Read(t) \/ TestHalted(t) \/ Close(t)
             \/ \E k \in Pid : ~Polled(k) /\ Poll(t, k)
      PROVE  GoneOK'
  <2>1. UNCHANGED <<rec, used>>
    <3>1. CASE AddToProcessTable(t) \/ QueueInsert(t)
      BY <3>1 DEF AddToProcessTable, QueueInsert
    <3>2. CASE ~(AddToProcessTable(t) \/ QueueInsert(t))
      BY <1>4, <3>2, PollOnly
    <3> QED BY <3>1, <3>2
  <2>2. \A s \in Thread : s # t => th'[s] = th[s]
    BY <1>4, OneThread DEF Create, Answer
  <2>3. th'[t].pc # "201"
    <3>1. CASE AddToProcessTable(t)
      BY <3>1, BecomeEffect DEF AddToProcessTable, TypeInv
    <3>2. CASE QueueInsert(t)
      BY <3>2, DoneEffect DEF QueueInsert, TypeInv, Idle
    <3>3. CASE Ioctl(t)
      BY <3>3, <1>1 DEF Ioctl, Job
    <3>4. CASE Read(t)
      <4>1. PICK v : th' = [th EXCEPT ![t].pc = "test", ![t].bytes = v]
        BY <3>4, ReadFrame
      <4> QED BY <4>1, <1>1 DEF Job
    <3>5. CASE TestHalted(t)
      <4>1. PICK pc \in {"close", "200"} : Become(t, pc)
        BY <3>5 DEF TestHalted
      <4> QED BY <4>1, BecomeEffect DEF TypeInv
    <3>6. CASE Close(t)
      BY <3>6, CloseFinds
    <3>7. ASSUME NEW k \in Pid, ~Polled(k), Poll(t, k) PROVE th'[t].pc # "201"
      BY <3>7, PollPoll
    <3> QED BY <1>4, <3>1, <3>2, <3>3, <3>4, <3>5, <3>6, <3>7
  <2>4. \A k \in Pid : terminal'[k] = "over" => terminal[k] = "over"
    <3>1. CASE QueueInsert(t)
      <4>1. terminal' = [terminal EXCEPT ![rec[th[t].p].Pid] = "running"]
        BY <3>1 DEF QueueInsert
      <4> QED BY <1>1, <4>1
    <3>2. CASE ~QueueInsert(t)
      <4>1. UNCHANGED terminal
        <5>1. CASE AddToProcessTable(t) \/ Ioctl(t) \/ TestHalted(t) \/ Close(t)
          BY <5>1 DEF AddToProcessTable, Ioctl, TestHalted, Close, client
        <5>2. CASE Read(t)
          BY <5>2, ReadFrame
        <5>3. CASE \E k \in Pid : Poll(t, k)
          BY <5>3 DEF Poll, client
        <5> QED BY <1>4, <3>2, <5>1, <5>2, <5>3
      <4> QED BY <4>1
    <3> QED BY <3>1, <3>2
  <2> QED BY <1>2, <2>1, <2>2, <2>3, <2>4 DEF GoneOK
<1>5. ASSUME NEW t \in Thread, ProcessAlloc(t) PROVE GoneOK'
  <2>1. PICK r \in FreeRec, f \in FreeFd :
          /\ used' = used \cup {r}
          /\ rec' = [rec EXCEPT ![r] = [state |-> "run", Pid |-> ProcessId, fd |-> f, home |-> ProcessId]]
          /\ th' = [th EXCEPT ![t] = [Idle EXCEPT !.pc = "add", !.p = r]]
    BY <1>5 DEF ProcessAlloc
  <2>2. r \in Rec /\ r \notin used /\ ProcessId \in Pid /\ UNCHANGED terminal
    BY <1>5, Bound, Types DEF FreeRec, ProcessAlloc, Pid, client
  <2>3. rec'[r].Pid = ProcessId /\ \A q \in Rec : q # r => rec'[q] = rec[q]
    BY <1>1, <2>1, <2>2
  <2>4. th'[t].pc # "201" /\ \A s \in Thread : s # t => th'[s] = th[s]
    BY <1>1, <2>1 DEF Idle
  <2>5. terminal[ProcessId] = "none"
    <3>1. ~(ProcessId < ProcessId)
      BY Types
    <3>2. terminal[ProcessId] # "none" => ProcessId < ProcessId
      BY <2>2 DEF PollInv, PidsOK
    <3> QED BY <3>1, <3>2
  <2>6. \A s \in Thread : th[s].pc = "201" => th[s].pid # ProcessId
    <3>1. \A s \in Thread : th[s].pc = "201" => terminal[th[s].pid] = "running"
      BY DEF PollInv, PollOK, Serving
    <3> QED BY <3>1, <2>5
  <2> QED BY <1>2, <2>1, <2>2, <2>3, <2>4, <2>5, <2>6 DEF GoneOK
<1>6. ASSUME NEW t \in Thread, ProcessDealloc(t) PROVE GoneOK'
  <2>1. used' = used \ {th[t].p} /\ UNCHANGED <<terminal, table>> /\ th[t].pc = "dealloc" /\ Become(t, "201")
    BY <1>6 DEF ProcessDealloc, At, client
  <2>2. /\ th'[t].pid = th[t].pid /\ \A s \in Thread : s # t => th'[s] = th[s]
    BY <2>1, BecomeEffect DEF TypeInv
  <2>3. th[t].p \in used /\ rec[th[t].p].Pid = th[t].pid
    BY <2>1 DEF PollInv, PollOK, Working
  <2>4. \A r \in used : r # th[t].p => rec[r].Pid # th[t].pid
    BY <2>3 DEF PollInv, PidsOK
  <2>5. \A r \in Rec : rec'[r].Pid = rec[r].Pid
    BY <1>1, <1>6 DEF ProcessDealloc, Record
  <2> QED BY <1>2, <2>1, <2>2, <2>4, <2>5 DEF GoneOK
<1>7. ASSUME NEW t \in Thread, Respond(t) PROVE GoneOK'
  <2>1. /\ UNCHANGED <<rec, used>> /\ th[t].pid \in Pid
        /\ terminal' = IF th[t].pc = "201" THEN [terminal EXCEPT ![th[t].pid] = "over"] ELSE terminal
    BY <1>1, <1>7 DEF Respond, kernel, At, Job
  <2>2. th'[t].pc # "201" /\ \A s \in Thread : s # t => th'[s] = th[s]
    BY <1>7, DoneEffect DEF Respond, TypeInv, Idle
  <2>3. \A k \in Pid : terminal'[k] = "over" => terminal[k] = "over" \/ (th[t].pc = "201" /\ k = th[t].pid)
    BY <1>1, <2>1
  <2> QED BY <1>2, <2>1, <2>2, <2>3 DEF GoneOK
<1> QED BY <1>3, <1>4, <1>5, <1>6, <1>7 DEF OnePollNext, Create, Answer

LEMMA FdFrame ==
  ASSUME TypeInv, FdOK, UNCHANGED <<used, open>>,
         \A r \in Rec : rec'[r].Pid = rec[r].Pid /\ rec'[r].home = rec[r].home /\ rec'[r].fd = rec[r].fd,
         \A t \in Thread : th[t].pc = "dealloc" => th'[t] = th[t]
  PROVE  FdOK'
<1>1. used \in SUBSET Rec
  BY DEF TypeInv, TypeOK
<1>2. \A r : Shut(r) => Shut(r)'
  BY DEF Shut
<1> QED BY <1>1, <1>2 DEF FdOK

LEMMA FdKeeps ==
  ASSUME TypeInv, PollInv, FdOK, ~CanFork, [OnePollNext]_vars PROVE FdOK'
<1>1. /\ rec \in [Rec -> Record] /\ used \in SUBSET Rec /\ open \in [Fd -> Pid \cup {NULL}]
      /\ th \in [Thread -> Job]
  BY Types
<1>2. CASE Main \/ UNCHANGED vars
  <2>1. UNCHANGED <<used, open, th>>
    BY <1>2 DEF Main, Dequeue, TestState, Compute, Output, Halt, Fork, Preempt, GoOn, client, vars, kernel
  <2>2. \A r \in Rec : rec'[r].Pid = rec[r].Pid /\ rec'[r].home = rec[r].home /\ rec'[r].fd = rec[r].fd
    <3>1. CASE Halt
      <4>1. current \in Rec /\ rec' = [rec EXCEPT ![current] = [rec[current] EXCEPT !.state = "halted"]]
        BY <3>1 DEF Halt, Execute, TypeInv, RefersOK
      <4> QED BY <1>1, <4>1 DEF Record
    <3>2. CASE ~Halt
      <4>1. UNCHANGED rec
        BY <1>2, <3>2 DEF Main, Dequeue, TestState, Compute, Output, Fork, Preempt, GoOn, vars, kernel
      <4> QED BY <4>1
    <3> QED BY <3>1, <3>2
  <2> QED BY SMTT(30), <2>1, <2>2, FdFrame
<1>3. ASSUME NEW t \in Thread,
             \/ AddToProcessTable(t) \/ QueueInsert(t) \/ Ioctl(t) \/ Read(t) \/ TestHalted(t) \/ Respond(t)
             \/ \E k \in Pid : Poll(t, k)
      PROVE  FdOK'
  <2>1. UNCHANGED <<rec, used, open>> /\ th[t].pc # "dealloc"
    <3>1. CASE AddToProcessTable(t) \/ QueueInsert(t)
      BY <3>1 DEF AddToProcessTable, QueueInsert, At
    <3>2. CASE ~(AddToProcessTable(t) \/ QueueInsert(t))
      <4>1. ~Close(t)
        BY <1>3, <3>2, Zenon DEF Ioctl, TestHalted, Respond, Poll, Close, At, Read
      <4> QED BY <1>3, <3>2, <4>1, PollOnly
    <3> QED BY <3>1, <3>2
  <2>2. \A s \in Thread : s # t => th'[s] = th[s]
    BY <1>3, OneThread DEF Create, Answer
  <2> QED BY <2>1, <2>2, FdFrame
<1>4. ASSUME NEW t \in Thread, ProcessAlloc(t) PROVE FdOK'
  <2>1. PICK r \in FreeRec, f \in FreeFd :
          /\ used' = used \cup {r}
          /\ rec' = [rec EXCEPT ![r] = [state |-> "run", Pid |-> ProcessId,
                                        fd |-> f, home |-> ProcessId]]
          /\ open' = [open EXCEPT ![f] = ProcessId]
          /\ th' = [th EXCEPT ![t] = [Idle EXCEPT !.pc = "add", !.p = r]]
    BY <1>4 DEF ProcessAlloc
  <2>2. /\ r \in Rec /\ r \notin used /\ f \in Fd /\ open[f] = NULL /\ ProcessId \in Pid
        /\ th[t].pc = "idle"
    BY <1>4, LifecycleAssumption DEF FreeRec, FreeFd, ProcessAlloc, At, Pid, TypeInv, TypeOK
  <2>3. /\ rec'[r].home = ProcessId /\ rec'[r].Pid = ProcessId /\ rec'[r].fd = f /\ open'[f] = ProcessId
        /\ \A q \in Rec : q # r => rec'[q] = rec[q]
        /\ \A g \in Fd : g # f => open'[g] = open[g]
    BY <1>1, <2>1, <2>2
  <2>4. \A s \in Thread : s # t => th'[s] = th[s]
    BY <1>1, <2>1
  <2>5. \A q : Shut(q) => Shut(q)'
    BY <2>2, <2>4 DEF Shut
  <2>6. \A q \in used : rec[q].Pid # NULL
    BY <1>1, LifecycleAssumption DEF Record, Pid
  <2>7. \A q \in used : ~Shut(q) => rec[q].fd # f
    BY <2>2, <2>6 DEF FdOK
  <2> QED BY <1>1, <2>1, <2>2, <2>3, <2>5, <2>7 DEF FdOK
<1>5. ASSUME NEW t \in Thread, Close(t) PROVE FdOK'
  <2>1. /\ th'[t].pc = "dealloc" /\ th'[t].p = th[t].p
        /\ \A s \in Thread : s # t => th'[s] = th[s]
        /\ open' = [g \in Fd |-> IF g = rec[th[t].p].fd THEN NULL ELSE open[g]]
    BY <1>5, CloseFinds
  <2>2. UNCHANGED <<rec, used>> /\ th[t].pc = "close"
    BY <1>5 DEF Close, At
  <2>3. th[t].p \in used
    BY <2>2 DEF Working, PollInv, PollOK
  <2>4. ~Shut(th[t].p)
    <3>1. \A s \in Thread : th[s].pc = "dealloc" => Working(s) /\ Serving(s)
      BY DEF Working, Serving
    <3>2. Working(t) /\ Serving(t)
      BY <2>2 DEF Working, Serving
    <3>3. \A s \in Thread : Working(s) /\ Serving(s) /\ th[s].p = th[t].p => s = t
      BY <3>2 DEF PollInv, PollOK
    <3> QED BY <3>1, <3>3, <2>2 DEF Shut
  <2>5. \A q \in used : q # th[t].p /\ ~Shut(q) => rec[q].fd # rec[th[t].p].fd
    BY <2>3, <2>4 DEF FdOK, PollInv, PidsOK
  <2>6. \A q : Shut(q) => Shut(q)'
    BY <2>1, <2>2 DEF Shut
  <2>7. \A q : q = th[t].p => Shut(q)'
    BY <2>1 DEF Shut
  <2> QED BY <2>1, <2>2, <2>5, <2>6, <2>7 DEF FdOK
<1>6. ASSUME NEW t \in Thread, ProcessDealloc(t) PROVE FdOK'
  <2>1. used' = used \ {th[t].p} /\ UNCHANGED open /\ th[t].pc = "dealloc" /\ th[t].p \in Rec
    BY <1>6 DEF ProcessDealloc, At, TypeInv, RefersOK
  <2>2. \A r \in Rec : r # th[t].p => rec'[r] = rec[r]
    BY <1>1, <1>6, <2>1 DEF ProcessDealloc
  <2>3. \A s \in Thread : s # t => th'[s] = th[s]
    BY <1>6, BecomeEffect DEF ProcessDealloc, TypeInv
  <2>4. \A r : r # th[t].p /\ Shut(r) => Shut(r)'
    BY <2>3 DEF Shut
  <2> QED BY <1>1, <2>1, <2>2, <2>4 DEF FdOK
<1> QED BY <1>2, <1>3, <1>4, <1>5, <1>6 DEF OnePollNext, Create, Answer

\* Steps that leave the bytes where they are.
LEMMA BytesFrame ==
  ASSUME BytesOK, UNCHANGED <<fifo, wrote, sent>>,
         \A k \in Pid : Ended(k)' = Ended(k),
         \A s \in Thread : Serving(s)' <=> Serving(s),
         \A s \in Thread : Serving(s) =>
           /\ th'[s].pid = th[s].pid /\ th'[s].bytes = th[s].bytes /\ Closed(s)' = Closed(s)
           /\ th'[s].pc \in {"ioctl", "read"} => th[s].bytes = <<>>
           /\ Len(th[s].bytes) <= th'[s].n
  PROVE  BytesOK'
<1>1. RestOK'
  <2>1. ASSUME NEW k \in Pid, \A s \in Thread : Serving(s)' => th'[s].pid # k
        PROVE  Flow(k, sent'[k], <<>>, fifo'[k], wrote'[k], Ended(k)')
    <3>1. \A s \in Thread : Serving(s) => th[s].pid # k
      BY <2>1
    <3>2. Flow(k, sent[k], <<>>, fifo[k], wrote[k], Ended(k))
      BY <3>1 DEF BytesOK, RestOK
    <3> QED BY <3>2
  <2> QED BY <2>1 DEF RestOK
<1>2. HandOK'
  <2>1. ASSUME NEW s \in Thread, Serving(s)
        PROVE  /\ th'[s].pc \in {"ioctl", "read"} => th'[s].bytes = <<>>
               /\ Len(th'[s].bytes) <= th'[s].n
               /\ Flow(th'[s].pid, sent'[th'[s].pid], th'[s].bytes, fifo'[th'[s].pid], wrote'[th'[s].pid], Closed(s)')
    <3>1. Flow(th[s].pid, sent[th[s].pid], th[s].bytes, fifo[th[s].pid], wrote[th[s].pid], Closed(s))
      BY <2>1 DEF BytesOK, HandOK
    <3>2. /\ th'[s].pid = th[s].pid /\ th'[s].bytes = th[s].bytes /\ Closed(s)' = Closed(s)
          /\ th'[s].pc \in {"ioctl", "read"} => th[s].bytes = <<>>
          /\ Len(th[s].bytes) <= th'[s].n
      BY <2>1
    <3> QED BY <3>1, <3>2
  <2> QED BY <2>1 DEF HandOK
<1> QED BY <1>1, <1>2 DEF BytesOK

\* A step of thread t moves bytes of its poll's Pid only.
LEMMA BytesOne ==
  ASSUME TypeInv, BytesOK, NEW t \in Thread, NEW k \in Pid, UNCHANGED wrote,
         \A s \in Thread : s # t => th'[s] = th[s],
         \A s \in Thread : s # t /\ Serving(s) => th[s].pid # k,
         \A j \in Pid : j # k => fifo'[j] = fifo[j] /\ sent'[j] = sent[j] /\ terminal'[j] = terminal[j],
         Serving(t) => th[t].pid = k,
         Serving(t)' =>
           /\ th'[t].pid = k
           /\ th'[t].pc \in {"ioctl", "read"} => th'[t].bytes = <<>>
           /\ Len(th'[t].bytes) <= th'[t].n
           /\ Flow(k, sent'[k], th'[t].bytes, fifo'[k], wrote[k], Closed(t)'),
         ~Serving(t)' => Flow(k, sent'[k], <<>>, fifo'[k], wrote[k], Ended(k)')
  PROVE  BytesOK'
<1>1. \A s \in Thread : s # t => (Serving(s)' <=> Serving(s)) /\ Closed(s)' = Closed(s)
  BY DEF Serving, Closed
<1>2. \A s \in Thread : th[s].pid \in Pid
  <2>1. \A s \in Thread : th[s] \in Job
    BY Jobs DEF TypeInv
  <2> QED BY <2>1 DEF Job
<1>3. HandOK'
  <2>1. ASSUME NEW s \in Thread, s # t, Serving(s)
        PROVE  /\ th'[s].pc \in {"ioctl", "read"} => th'[s].bytes = <<>>
               /\ Len(th'[s].bytes) <= th'[s].n
               /\ Flow(th'[s].pid, sent'[th'[s].pid], th'[s].bytes, fifo'[th'[s].pid], wrote'[th'[s].pid], Closed(s)')
    <3>1. /\ th[s].pc \in {"ioctl", "read"} => th[s].bytes = <<>>
          /\ Len(th[s].bytes) <= th[s].n
          /\ Flow(th[s].pid, sent[th[s].pid], th[s].bytes, fifo[th[s].pid], wrote[th[s].pid], Closed(s))
      BY <2>1 DEF BytesOK, HandOK
    <3>2. th'[s] = th[s] /\ Closed(s)' = Closed(s) /\ th[s].pid # k /\ th[s].pid \in Pid
      BY <2>1, <1>1, <1>2
    <3>3. fifo'[th[s].pid] = fifo[th[s].pid] /\ sent'[th[s].pid] = sent[th[s].pid]
      BY <3>2
    <3> QED BY <3>1, <3>2, <3>3
  <2>2. ASSUME NEW s \in Thread, s = t, Serving(s)'
        PROVE  /\ th'[s].pc \in {"ioctl", "read"} => th'[s].bytes = <<>>
               /\ Len(th'[s].bytes) <= th'[s].n
               /\ Flow(th'[s].pid, sent'[th'[s].pid], th'[s].bytes, fifo'[th'[s].pid], wrote'[th'[s].pid], Closed(s)')
    BY <2>2
  <2> QED BY <2>1, <2>2, <1>1 DEF HandOK
<1>4. RestOK'
  <2>1. ASSUME NEW j \in Pid, \A s \in Thread : Serving(s)' => th'[s].pid # j
        PROVE  Flow(j, sent'[j], <<>>, fifo'[j], wrote'[j], Ended(j)')
    <3>1. CASE j = k
      <4>1. ~Serving(t)'
        BY <2>1, <3>1
      <4> QED BY <3>1, <4>1
    <3>2. CASE j # k
      <4>1. \A s \in Thread : Serving(s) => th[s].pid # j
        BY <2>1, <3>2, <1>1
      <4>2. Flow(j, sent[j], <<>>, fifo[j], wrote[j], Ended(j))
        BY <4>1 DEF BytesOK, RestOK
      <4>3. fifo'[j] = fifo[j] /\ sent'[j] = sent[j] /\ Ended(j)' = Ended(j)
        BY <3>2 DEF Ended
      <4> QED BY <4>2, <4>3
    <3> QED BY <3>1, <3>2
  <2> QED BY <2>1 DEF RestOK
<1> QED BY <1>3, <1>4 DEF BytesOK

\* A process that was not destroyed writes to its own FIFO, which is open.
LEMMA OutputOwn ==
  ASSUME TypeInv, PollInv, FdOK, ExecOK, GoneOK, Output, ~Strayed'
  PROVE  \E k \in Pid :
           /\ wrote[k] \in Seq(Fate) /\ <<k, Len(wrote[k]) + 1>> \in Byte
           /\ Ended(k) = "open" /\ \A t \in Thread : Serving(t) /\ th[t].pid = k => Closed(t) = "open"
           /\ \/ /\ wrote' = [wrote EXCEPT ![k] = Append(wrote[k], "kept")]
                 /\ fifo' = [fifo EXCEPT ![k] = Append(fifo[k], <<k, Len(wrote[k]) + 1>>)]
              \/ /\ wrote' = [wrote EXCEPT ![k] = Append(wrote[k], "lost")]
                 /\ fifo' = fifo
<1> DEFINE q == rec[current]
           k == q.home
<1>1. q \in Record /\ current \in Rec /\ main = "execute"
  BY DEF Output, Execute, TypeInv, TypeOK, RefersOK
<1>2. k \in Pid
  BY <1>1 DEF Record
<1>3. wrote[k] \in Seq(Fate) /\ Len(wrote[k]) \in Nat
  BY <1>2, Types
<1>4. <<k, Len(wrote[k]) + 1>> \in Byte
  <2>1. Len(wrote[k]) < MaxOut
    BY DEF Output
  <2>2. Len(wrote[k]) + 1 \in 1..MaxOut
    BY <1>3, <2>1, LifecycleAssumption
  <2> QED BY <1>2, <2>2 DEF Byte
<1>5. current \in used
  <2> SUFFICES ASSUME current \notin used PROVE FALSE
    OBVIOUS
  <2>1. wrote' = [wrote EXCEPT ![k] = Append(wrote[k], "stray")]
    BY DEF Output
  <2> HIDE DEF k
  <2>2. wrote'[k] = Append(wrote[k], "stray")
    BY <2>1, <1>2, Types
  <2>3. Len(wrote'[k]) = Len(wrote[k]) + 1 /\ wrote'[k][Len(wrote[k]) + 1] = "stray"
    BY <2>2, <1>3
  <2>4. Len(wrote[k]) + 1 \in 1..Len(wrote'[k])
    BY <2>3, <1>3
  <2> QED BY <2>3, <2>4, <1>2 DEF Strayed
<1>6. q.state = "run"
  BY <1>1 DEF ExecOK
<1>7. \A t \in Thread : th[t].pc = "dealloc" => rec[th[t].p].state = "halted" /\ th[t].p \in used /\ rec[th[t].p].Pid = th[t].pid
  BY DEF PollInv, PollOK, Working
<1>8. ~Shut(current) /\ k = q.Pid
  BY <1>5, <1>6, <1>7 DEF Shut, FdOK
<1>9. Ended(k) = "open"
  BY <1>5, <1>8 DEF GoneOK, Ended
<1>10. ASSUME NEW t \in Thread, th[t].pid = k PROVE Closed(t) = "open"
  <2>1. th[t].pc # "201"
    BY <1>5, <1>8, <1>10 DEF GoneOK
  <2>2. th[t].pc # "dealloc"
    <3>1. th[t].pc = "dealloc" => th[t].p = current
      BY <1>5, <1>7, <1>8, <1>10 DEF PollInv, PidsOK
    <3> QED BY <3>1, <1>6, <1>7
  <2> QED BY <2>1, <2>2 DEF Closed
<1>11. q.fd \in Fd /\ open[q.fd] = k
  BY <1>5, <1>8 DEF FdOK
<1>12. \/ /\ wrote' = [wrote EXCEPT ![k] = Append(wrote[k], "kept")]
          /\ fifo' = [fifo EXCEPT ![k] = Append(fifo[k], <<k, Len(wrote[k]) + 1>>)]
       \/ /\ wrote' = [wrote EXCEPT ![k] = Append(wrote[k], "lost")]
          /\ fifo' = fifo
  <2>1. CASE Room(q.fd)
    BY <2>1, <1>5, <1>11 DEF Output
  <2>2. CASE ~Room(q.fd)
    BY <2>2, <1>5 DEF Output
  <2> QED BY <2>1, <2>2
<1> QED BY <1>2, <1>3, <1>4, <1>9, <1>10, <1>12

LEMMA OutputBytes ==
  ASSUME TypeInv, PollInv, FdOK, ExecOK, GoneOK, BytesOK, Output, ~Strayed' PROVE BytesOK'
<1>1. PICK k \in Pid :
        /\ wrote[k] \in Seq(Fate) /\ <<k, Len(wrote[k]) + 1>> \in Byte
        /\ Ended(k) = "open" /\ \A t \in Thread : Serving(t) /\ th[t].pid = k => Closed(t) = "open"
        /\ \/ /\ wrote' = [wrote EXCEPT ![k] = Append(wrote[k], "kept")]
              /\ fifo' = [fifo EXCEPT ![k] = Append(fifo[k], <<k, Len(wrote[k]) + 1>>)]
           \/ /\ wrote' = [wrote EXCEPT ![k] = Append(wrote[k], "lost")]
              /\ fifo' = fifo
  BY OutputOwn
<1>2. UNCHANGED <<th, terminal, sent>>
  BY DEF Output, client
<1>3. wrote \in [Pid -> Seq(Fate)] /\ fifo \in [Pid -> Seq(Byte)] /\ fifo[k] \in Seq(Byte)
  BY Types
<1>4. ASSUME NEW h, Flow(k, sent[k], h, fifo[k], wrote[k], "open")
      PROVE  Flow(k, sent[k], h, fifo'[k], wrote'[k], "open")
  <2>1. CASE /\ wrote' = [wrote EXCEPT ![k] = Append(wrote[k], "kept")]
             /\ fifo' = [fifo EXCEPT ![k] = Append(fifo[k], <<k, Len(wrote[k]) + 1>>)]
    <3> DEFINE w == wrote[k]
               f == fifo[k]
               v == wrote'[k]
               g == fifo'[k]
    <3>1. v = Append(w, "kept") /\ g = Append(f, <<k, Len(w) + 1>>)
      BY <2>1, <1>3
    <3>2. w \in Seq(Fate) /\ f \in Seq(Byte) /\ <<k, Len(w) + 1>> \in Byte /\ Flow(k, sent[k], h, f, w, "open")
      BY <1>1, <1>3, <1>4
    <3> HIDE DEF w, f, v, g
    <3>3. Flow(k, sent[k], h, g, v, "open")
      BY <3>1, <3>2, FlowKept
    <3> QED BY <3>3 DEF v, g
  <2>2. CASE wrote' = [wrote EXCEPT ![k] = Append(wrote[k], "lost")] /\ fifo' = fifo
    <3>1. wrote'[k] = Append(wrote[k], "lost")
      BY <2>2, <1>3
    <3> QED BY <2>2, <3>1, <1>1, <1>4, FlowLost
  <2> QED BY <1>1, <2>1, <2>2
<1>5. \A j \in Pid : j # k => wrote'[j] = wrote[j] /\ fifo'[j] = fifo[j]
  BY <1>1, <1>3
<1>6. \A s \in Thread : (Serving(s)' <=> Serving(s)) /\ Closed(s)' = Closed(s) /\ th[s].pid \in Pid
  <2>1. \A s \in Thread : th[s] \in Job
    BY Jobs DEF TypeInv
  <2> QED BY <1>2, <2>1 DEF Serving, Closed, Job
<1>7. HandOK'
  <2>1. ASSUME NEW s \in Thread, Serving(s)
        PROVE  /\ th[s].pc \in {"ioctl", "read"} => th[s].bytes = <<>>
               /\ Len(th[s].bytes) <= th[s].n
               /\ Flow(th[s].pid, sent[th[s].pid], th[s].bytes, fifo'[th[s].pid], wrote'[th[s].pid], Closed(s))
    <3>1. /\ th[s].pc \in {"ioctl", "read"} => th[s].bytes = <<>>
          /\ Len(th[s].bytes) <= th[s].n
          /\ Flow(th[s].pid, sent[th[s].pid], th[s].bytes, fifo[th[s].pid], wrote[th[s].pid], Closed(s))
      BY <2>1 DEF BytesOK, HandOK
    <3>2. CASE th[s].pid = k
      <4>1. Closed(s) = "open"
        BY <1>1, <2>1, <3>2
      <4>2. Flow(k, sent[k], th[s].bytes, fifo[k], wrote[k], "open")
        BY <3>1, <3>2, <4>1
      <4>3. Flow(k, sent[k], th[s].bytes, fifo'[k], wrote'[k], "open")
        BY <4>2, <1>4
      <4> QED BY <3>1, <3>2, <4>1, <4>3
    <3>3. CASE th[s].pid # k
      <4>1. wrote'[th[s].pid] = wrote[th[s].pid] /\ fifo'[th[s].pid] = fifo[th[s].pid]
        BY <3>3, <1>5, <1>6
      <4> QED BY <3>1, <4>1
    <3> QED BY <3>2, <3>3
  <2> QED BY <2>1, <1>2, <1>6 DEF HandOK
<1>8. RestOK'
  <2>1. ASSUME NEW j \in Pid, \A s \in Thread : Serving(s) => th[s].pid # j
        PROVE  Flow(j, sent[j], <<>>, fifo'[j], wrote'[j], Ended(j))
    <3>1. Flow(j, sent[j], <<>>, fifo[j], wrote[j], Ended(j))
      BY <2>1 DEF BytesOK, RestOK
    <3>2. CASE j = k
      BY <3>1, <3>2, <1>1, <1>4
    <3>3. CASE j # k
      BY <3>1, <3>3, <1>5
    <3> QED BY <3>2, <3>3
  <2>2. \A j \in Pid : Ended(j)' = Ended(j)
    BY <1>2 DEF Ended
  <2> QED BY <2>1, <2>2, <1>2, <1>6 DEF RestOK
<1> QED BY <1>7, <1>8 DEF BytesOK

\* A poll reads from the FIFO of its own Pid.
LEMMA ReadOwn ==
  ASSUME TypeInv, PollInv, FdOK, NEW t \in Thread, Read(t), NEW k, k = th[t].pid,
         NEW n, n = Taken(t)
  PROVE  /\ th[t].pc = "read" /\ k \in Pid /\ Serving(t)
         /\ fifo[k] \in Seq(Byte) /\ n \in 0..Len(fifo[k]) /\ n <= th'[t].n
         /\ th'[t].pc = "test" /\ th'[t].pid = k /\ th'[t].bytes = SubSeq(fifo[k], 1, n)
         /\ \A s \in Thread : s # t => th'[s] = th[s]
         /\ fifo' = IF n = 0 THEN fifo ELSE [fifo EXCEPT ![k] = SubSeq(fifo[k], n + 1, Len(fifo[k]))]
         /\ UNCHANGED <<wrote, terminal, sent>>
<1>1. th[t] \in Job /\ th \in [Thread -> Job]
  BY Jobs DEF TypeInv
<1>2. k \in Pid /\ Serving(t) /\ Working(t) /\ k # NULL /\ th[t].pc = "read"
  BY <1>1, LifecycleAssumption DEF Job, Pid, Read, At, Serving, Working
<1>3. th[t].p \in used /\ rec[th[t].p].Pid = k
  BY <1>2 DEF PollInv, PollOK
<1>4. ~Shut(th[t].p)
  <2>1. \A s \in Thread : th[s].pc = "dealloc" => Working(s) /\ Serving(s)
    BY DEF Working, Serving
  <2>2. \A s \in Thread : Working(s) /\ Serving(s) /\ th[s].p = th[t].p => s = t
    BY <1>2 DEF PollInv, PollOK
  <2> QED BY <2>1, <2>2, <1>2 DEF Shut
<1>5. From(t) \in Fd /\ open[From(t)] = k
  BY <1>3, <1>4 DEF FdOK, From
<1>6. From(t) # NULL
  <2>1. From(t) # NULL \/ NULL \in Fd
    BY <1>5
  <2> QED BY <2>1, LifecycleAssumption
<1>7. Available(From(t)) = fifo[k]
  BY <1>2, <1>5, <1>6 DEF Available
<1>8. fifo[k] \in Seq(Byte) /\ Len(fifo[k]) \in Nat /\ n \in 0..Len(fifo[k])
  <2>1. fifo[k] \in Seq(Byte)
    BY <1>2 DEF TypeInv, TypeOK
  <2>2. Len(fifo[k]) \in Nat
    BY <2>1
  <2>3. Taken(t) \in Nat /\ Taken(t) <= Len(fifo[k])
    BY <1>7, ReadEffect
  <2> QED BY <2>1, <2>2, <2>3
<1>9. th' = [th EXCEPT ![t].pc = "test", ![t].bytes = SubSeq(fifo[k], 1, n)]
  BY <1>7, ReadEffect
<1>10. /\ th'[t].pc = "test" /\ th'[t].pid = k /\ th'[t].bytes = SubSeq(fifo[k], 1, n)
       /\ th'[t].n = th[t].n
       /\ \A s \in Thread : s # t => th'[s] = th[s]
  BY <1>1, <1>9 DEF Job
<1>11. fifo' = IF n = 0 THEN fifo ELSE [fifo EXCEPT ![k] = SubSeq(fifo[k], n + 1, Len(fifo[k]))]
  BY <1>5, ReadEffect
<1>12. UNCHANGED <<wrote, terminal, sent>>
  BY DEF Read, client
<1>13. n <= th'[t].n
  BY <1>10, ReadEffect
<1> QED BY <1>2, <1>8, <1>10, <1>11, <1>12, <1>13

LEMMA ReadBytes ==
  ASSUME TypeInv, PollInv, FdOK, BytesOK, NEW t \in Thread, Read(t) PROVE BytesOK'
<1> DEFINE k == th[t].pid
           n == Taken(t)
<1>1. /\ th[t].pc = "read" /\ k \in Pid /\ Serving(t)
      /\ fifo[k] \in Seq(Byte) /\ n \in 0..Len(fifo[k]) /\ n <= th'[t].n
      /\ th'[t].pc = "test" /\ th'[t].pid = k /\ th'[t].bytes = SubSeq(fifo[k], 1, n)
      /\ \A s \in Thread : s # t => th'[s] = th[s]
      /\ fifo' = IF n = 0 THEN fifo ELSE [fifo EXCEPT ![k] = SubSeq(fifo[k], n + 1, Len(fifo[k]))]
      /\ UNCHANGED <<wrote, terminal, sent>>
  BY ReadOwn
<1>2. \A s \in Thread : Serving(s) /\ th[s].pid = k => s = t
  BY <1>1 DEF PollInv, PollOK
<1>3. Flow(k, sent[k], <<>>, fifo[k], wrote[k], "open")
  <2>1. th[t].bytes = <<>> /\ Closed(t) = "open"
    BY <1>1 DEF BytesOK, HandOK, Closed
  <2>2. Flow(k, sent[k], th[t].bytes, fifo[k], wrote[k], Closed(t))
    BY <1>1 DEF BytesOK, HandOK
  <2> QED BY <2>1, <2>2
<1>4. fifo \in [Pid -> Seq(Byte)] /\ sent[k] \in Seq(Byte)
  BY <1>1, Types
<1>5. th[t].pid = k
  OBVIOUS
<1> HIDE DEF k, n
<1>6. Halves(fifo[k], n, th'[t].bytes, fifo'[k])
  <2>1. n = 0 => fifo'[k] = fifo[k]
    BY <1>1
  <2>2. n # 0 => fifo'[k] = SubSeq(fifo[k], n + 1, Len(fifo[k]))
    BY <1>1, <1>4
  <2> QED BY <2>1, <2>2, <1>1 DEF Halves
<1>7. Flow(k, sent[k], th'[t].bytes, fifo'[k], wrote[k], "open")
  BY <1>1, <1>3, <1>4, <1>6, FlowRead
<1>8. Len(th'[t].bytes) <= th'[t].n
  <2>1. Len(SubSeq(fifo[k], 1, n)) = n
    BY <1>1
  <2> QED BY <2>1, <1>1
<1>9. Serving(t)' /\ Closed(t)' = "open"
  BY <1>1 DEF Serving, Closed
<1>10. \A j \in Pid : j # k => fifo'[j] = fifo[j] /\ sent'[j] = sent[j] /\ terminal'[j] = terminal[j]
  BY <1>1, <1>4
<1>11. th'[t].pc \notin {"ioctl", "read"}
  BY <1>1
<1>12. Flow(k, sent'[k], th'[t].bytes, fifo'[k], wrote[k], Closed(t)')
  BY <1>1, <1>7, <1>9
<1> QED BY <1>1, <1>2, <1>5, <1>8, <1>9, <1>10, <1>11, <1>12, BytesOne

\* A poll begins with all that was sent or is in the FIFO.
LEMMA PollBytes ==
  ASSUME TypeInv, PollInv, BytesOK, NEW t \in Thread, NEW k \in Pid, Poll(t, k), ~Polled(k)
  PROVE  BytesOK'
<1>1. /\ th'[t].pc = "ioctl" /\ th'[t].pid = k /\ th'[t].bytes = <<>> /\ th'[t].n = 0
      /\ \A s \in Thread : s # t => th'[s] = th[s]
  BY PollPoll
<1>2. UNCHANGED <<fifo, wrote, terminal, sent>> /\ th[t].pc = "idle"
  BY DEF Poll, kernel, client, At
<1>3. terminal[k] # "over" /\ \A s \in Thread : Serving(s) => th[s].pid # k
  BY DEF Polled, Serving
<1>4. Flow(k, sent[k], <<>>, fifo[k], wrote[k], "open")
  BY <1>3 DEF BytesOK, RestOK, Ended
<1>5. ~Serving(t) /\ Serving(t)' /\ Closed(t)' = "open" /\ Len(th'[t].bytes) <= th'[t].n
  BY <1>1, <1>2 DEF Serving, Closed
<1>6. Flow(k, sent'[k], th'[t].bytes, fifo'[k], wrote[k], Closed(t)')
  BY <1>1, <1>2, <1>4, <1>5
<1> QED BY <1>1, <1>2, <1>3, <1>5, <1>6, BytesOne

\* Closing empties the FIFO of the poll's own Pid, and no other.
LEMMA CloseBytes ==
  ASSUME TypeInv, PollInv, FdOK, BytesOK, NEW t \in Thread, Close(t) PROVE BytesOK'
<1> DEFINE k == th[t].pid
           f == rec[th[t].p].fd
<1>1. /\ th'[t].pc = "dealloc" /\ th'[t].pid = k /\ th'[t].bytes = th[t].bytes /\ th'[t].n = th[t].n
      /\ \A s \in Thread : s # t => th'[s] = th[s]
      /\ open' = [g \in Fd |-> IF g = f THEN NULL ELSE open[g]]
  BY CloseFinds
<1>2. UNCHANGED <<wrote, terminal, sent>> /\ Serving(t) /\ Working(t) /\ th[t].pc = "close"
  BY DEF Close, client, At, Serving, Working
<1>3. th[t].p \in used /\ rec[th[t].p].Pid = k /\ \A s \in Thread : Serving(s) /\ th[s].pid = k => s = t
  BY <1>2 DEF PollInv, PollOK
<1>4. ~Shut(th[t].p)
  <2>1. \A s \in Thread : th[s].pc = "dealloc" => Working(s) /\ Serving(s)
    BY DEF Working, Serving
  <2>2. \A s \in Thread : Working(s) /\ Serving(s) /\ th[s].p = th[t].p => s = t
    BY <1>2 DEF PollInv, PollOK
  <2> QED BY <2>1, <2>2, <1>2 DEF Shut
<1>5. f \in Fd /\ open[f] = k
  BY <1>3, <1>4 DEF FdOK
<1>6. k \in Pid /\ NULL \notin Pid /\ fifo \in [Pid -> Seq(Byte)]
  BY Jobs, LifecycleAssumption DEF TypeInv, TypeOK, Job, Pid
<1>7. fifo' = [j \in Pid |-> IF \E g \in Fd : open[g] = j /\ open'[g] = NULL THEN <<>> ELSE fifo[j]]
  BY DEF Close
<1>8. Flow(k, sent[k], th[t].bytes, fifo[k], wrote[k], Closed(t)) /\ Len(th[t].bytes) <= th[t].n
  BY <1>2 DEF BytesOK, HandOK
<1>9. th[t].pid = k
  OBVIOUS
<1> HIDE DEF k, f
<1>10. fifo'[k] = <<>>
  BY <1>1, <1>5, <1>6, <1>7
<1>11. \A j \in Pid : j # k => fifo'[j] = fifo[j]
  <2>1. \A g \in Fd : open'[g] = NULL /\ open[g] \in Pid => open[g] = k
    BY <1>1, <1>5, <1>6
  <2> QED BY <2>1, <1>7
<1>12. Flow(k, sent[k], th[t].bytes, <<>>, wrote[k], "shut")
  BY <1>8, FlowShut
<1>13. Serving(t)' /\ Closed(t)' = "shut" /\ th'[t].pc \notin {"ioctl", "read"}
  BY <1>1 DEF Serving, Closed
<1>14. Flow(k, sent'[k], th'[t].bytes, fifo'[k], wrote[k], Closed(t)') /\ Len(th'[t].bytes) <= th'[t].n
  BY <1>1, <1>2, <1>8, <1>10, <1>12, <1>13
<1>15. \A j \in Pid : j # k => fifo'[j] = fifo[j] /\ sent'[j] = sent[j] /\ terminal'[j] = terminal[j]
  BY <1>2, <1>11
<1> QED BY <1>1, <1>2, <1>3, <1>6, <1>9, <1>13, <1>14, <1>15, BytesOne

\* An answer goes on where the one before ended, and ends before the first
\* byte that does not get through.
LEMMA RespondBytes ==
  ASSUME TypeInv, PollInv, BytesOK, NEW t \in Thread, Respond(t) PROVE BytesOK'
<1> DEFINE h == th[t].bytes
<1>8. PICK k \in Pid : th[t].pid = k
  <2>1. th[t] \in Job
    BY Jobs DEF TypeInv
  <2> QED BY <2>1 DEF Job
<1>1. /\ th'[t].pc = "idle"
      /\ \A s \in Thread : s # t => th'[s] = th[s]
  BY DoneEffect DEF Respond, TypeInv, Idle
<1>2. /\ Serving(t) /\ th[t].pc \in {"200", "201"} /\ UNCHANGED <<fifo, wrote>>
      /\ terminal' = IF th[t].pc = "201" THEN [terminal EXCEPT ![k] = "over"] ELSE terminal
  BY <1>8 DEF Respond, kernel, At, Serving
<1>3. PICK m \in 0..Len(h) :
        /\ Carries(t, m) /\ (m < Len(h) => ~Carries(t, m + 1))
        /\ sent' = [sent EXCEPT ![k] = sent[k] \o SubSeq(h, 1, m)]
  BY <1>8 DEF Respond
<1>4. /\ k \in Pid /\ h \in Seq(Byte) /\ th[t].n \in Nat /\ Len(h) \in Nat /\ sent[k] \in Seq(Byte) /\ fifo[k] \in Seq(Byte)
      /\ terminal \in [Pid -> {"none", "running", "over"}] /\ sent \in [Pid -> Seq(Byte)]
  <2>1. th[t] \in Job
    BY Jobs DEF TypeInv
  <2>2. k \in Pid /\ h \in Seq(Byte) /\ th[t].n \in Nat
    BY <2>1, LifecycleAssumption DEF Job
  <2> QED BY <2>2 DEF TypeInv, TypeOK
<1>5. /\ terminal[k] = "running"
      /\ \A s \in Thread : Serving(s) /\ th[s].pid = k => s = t
  BY <1>2, <1>8 DEF PollInv, PollOK
<1>6. Flow(k, sent[k], h, fifo[k], wrote[k], Closed(t)) /\ Len(h) <= th[t].n
  BY <1>2, <1>8 DEF BytesOK, HandOK
<1>7. m = Len(h) \/ Digits(k) > 1 \/ h[m + 1] \in Nul
  <2> SUFFICES ASSUME m < Len(h), ~(Digits(k) > 1) PROVE h[m + 1] \in Nul
    BY <1>4
  <2>1. Digits(k) = 1
    BY DEF Digits
  <2>2. m + 1 # 0 /\ (m + 1) + Digits(k) <= th[t].n + 1
    BY <1>4, <1>6, <2>1, <1>8
  <2>3. PICK i \in 1..(m + 1) : h[i] \in Nul
    BY <1>3, <1>8, <2>2 DEF Carries
  <2>4. i \in 1..m => h[i] \notin Nul
    BY <1>3 DEF Carries
  <2>5. i \in 1..m \/ i = m + 1
    OBVIOUS
  <2> QED BY <2>3, <2>4, <2>5
<1> HIDE DEF h
<1>9. /\ sent'[k] = sent[k] \o SubSeq(h, 1, m)
      /\ \A j \in Pid : j # k => sent'[j] = sent[j] /\ terminal'[j] = terminal[j]
  <2> DEFINE x == sent[k] \o SubSeq(h, 1, m)
  <2>1. sent' = [sent EXCEPT ![k] = x]
    BY <1>3
  <2> HIDE DEF x
  <2>2. sent'[k] = x /\ \A j \in Pid : j # k => sent'[j] = sent[j]
    BY <1>4, <2>1
  <2>3. \A j \in Pid : j # k => terminal'[j] = terminal[j]
    BY <1>2, <1>4
  <2> QED BY <2>2, <2>3 DEF x
<1>10. Flow(k, sent'[k], <<>>, fifo[k], wrote[k], Closed(t))
  BY <1>4, <1>6, <1>7, <1>9, FlowRespond
<1>11. Ended(k)' = Closed(t)
  BY <1>2, <1>4, <1>5 DEF Ended, Closed
<1>12. ~Serving(t)'
  BY <1>1 DEF Serving
<1>13. Flow(k, sent'[k], <<>>, fifo'[k], wrote[k], Ended(k)')
  BY <1>2, <1>10, <1>11
<1>14. \A s \in Thread : s # t /\ Serving(s) => th[s].pid # k
  BY <1>5
<1>15. \A j \in Pid : j # k => fifo'[j] = fifo[j] /\ sent'[j] = sent[j] /\ terminal'[j] = terminal[j]
  BY <1>2, <1>9
<1>16. UNCHANGED wrote
  BY <1>2
<1> QED BY Zenon, <1>1, <1>8, <1>12, <1>13, <1>14, <1>15, <1>16, BytesOne

LEMMA NextBytes ==
  ASSUME TypeInv, PollInv, FdOK, ExecOK, GoneOK, BytesOK, ~CanFork, [OnePollNext]_vars, ~Strayed' PROVE BytesOK'
<1>1. th \in [Thread -> Job]
  BY Jobs DEF TypeInv
<1>2. CASE Main /\ ~Output
  <2>1. UNCHANGED <<fifo, wrote, sent, terminal, th>>
    BY <1>2 DEF Main, Dequeue, TestState, Compute, Halt, Fork, Preempt, GoOn, client
  <2>2. \A s \in Thread : /\ (Serving(s)' <=> Serving(s)) /\ Closed(s)' = Closed(s)
                          /\ Serving(s) => Len(th[s].bytes) <= th[s].n
                          /\ Serving(s) /\ th[s].pc \in {"ioctl", "read"} => th[s].bytes = <<>>
    BY <2>1 DEF Serving, Closed, BytesOK, HandOK
  <2>3. \A k \in Pid : Ended(k)' = Ended(k)
    BY <2>1 DEF Ended
  <2> QED BY <2>1, <2>2, <2>3, BytesFrame
<1>3. CASE UNCHANGED vars
  <2>1. UNCHANGED <<fifo, wrote, sent, terminal, th>>
    BY <1>3 DEF vars, kernel, client
  <2>2. \A s \in Thread : /\ (Serving(s)' <=> Serving(s)) /\ Closed(s)' = Closed(s)
                          /\ Serving(s) => Len(th[s].bytes) <= th[s].n
                          /\ Serving(s) /\ th[s].pc \in {"ioctl", "read"} => th[s].bytes = <<>>
    BY <2>1 DEF Serving, Closed, BytesOK, HandOK
  <2>3. \A k \in Pid : Ended(k)' = Ended(k)
    BY <2>1 DEF Ended
  <2> QED BY <2>1, <2>2, <2>3, BytesFrame
<1>4. ASSUME NEW t \in Thread, Create(t) PROVE BytesOK'
  <2>1. ~Serving(t) /\ UNCHANGED <<fifo, wrote, sent>>
    BY <1>4 DEF Create, ProcessAlloc, AddToProcessTable, QueueInsert, At, Serving, client
  <2>2. ~Serving(t)' /\ \A s \in Thread : s # t => th'[s] = th[s]
    <3>1. CASE ProcessAlloc(t)
      <4>1. PICK r : th' = [th EXCEPT ![t] = [Idle EXCEPT !.pc = "add", !.p = r]]
        BY <3>1 DEF ProcessAlloc
      <4> QED BY <1>1, <4>1 DEF Idle, Serving
    <3>2. CASE AddToProcessTable(t)
      BY <3>2, BecomeEffect DEF AddToProcessTable, Serving, TypeInv
    <3>3. CASE QueueInsert(t)
      BY <3>3, DoneEffect DEF QueueInsert, Serving, TypeInv, Idle
    <3> QED BY <1>4, <3>1, <3>2, <3>3 DEF Create
  <2>3. \A k \in Pid : Ended(k)' = Ended(k)
    <3>1. CASE QueueInsert(t)
      <4>1. terminal' = [terminal EXCEPT ![rec[th[t].p].Pid] = "running"] /\ Creating(t)
        BY <3>1 DEF QueueInsert, At, Creating
      <4>2. terminal[rec[th[t].p].Pid] = "none"
        BY <4>1 DEF PollInv, CreateOK
      <4> QED BY <4>1, <4>2 DEF TypeInv, TypeOK, Ended
    <3>2. CASE ~QueueInsert(t)
      <4>1. UNCHANGED terminal
        BY <1>4, <3>2 DEF Create, ProcessAlloc, AddToProcessTable, client
      <4> QED BY <4>1 DEF Ended
    <3> QED BY <3>1, <3>2
  <2>4. \A s \in Thread : Serving(s)' <=> Serving(s)
    BY <2>1, <2>2 DEF Serving
  <2>5. \A s \in Thread : Serving(s) => th'[s] = th[s] /\ Closed(s)' = Closed(s)
    BY <2>1, <2>2 DEF Closed
  <2>6. \A s \in Thread : Serving(s) => /\ Len(th[s].bytes) <= th[s].n
                                        /\ th[s].pc \in {"ioctl", "read"} => th[s].bytes = <<>>
    BY DEF BytesOK, HandOK
  <2> QED BY <2>1, <2>3, <2>4, <2>5, <2>6, BytesFrame
<1>5. ASSUME NEW t \in Thread, Ioctl(t) \/ TestHalted(t) \/ ProcessDealloc(t) PROVE BytesOK'
  <2>1. UNCHANGED <<fifo, wrote, sent, terminal>> /\ Serving(t)
    BY <1>5 DEF Ioctl, TestHalted, ProcessDealloc, kernel, client, At, Serving
  <2>2. /\ th[t].pc \in {"ioctl", "read"} => th[t].bytes = <<>>
        /\ Len(th[t].bytes) <= th[t].n
    BY <2>1 DEF BytesOK, HandOK
  <2>3. /\ Serving(t)' /\ th'[t].pid = th[t].pid /\ th'[t].bytes = th[t].bytes
        /\ Closed(t)' = Closed(t) /\ Len(th[t].bytes) <= th'[t].n
        /\ th'[t].pc \in {"ioctl", "read"} => th[t].bytes = <<>>
        /\ \A s \in Thread : s # t => th'[s] = th[s]
    <3>1. CASE Ioctl(t)
      <4>1. /\ th'[t].pc = "read" /\ th[t].pc = "ioctl" /\ th'[t].pid = th[t].pid /\ th'[t].bytes = th[t].bytes
            /\ \A s \in Thread : s # t => th'[s] = th[s]
        BY <1>1, <3>1 DEF Ioctl, At, Job
      <4>2. th'[t].n \in Nat
        <5>1. th' \in [Thread -> Job]
          BY <3>1, IoctlType, Jobs DEF TypeInv, TypeOK, Job
        <5> QED BY <5>1, LifecycleAssumption DEF Job
      <4> QED BY <4>1, <4>2, <2>2 DEF Serving, Closed
    <3>2. CASE TestHalted(t)
      <4>1. PICK pc \in {"close", "200"} : Become(t, pc)
        BY <3>2 DEF TestHalted
      <4>2. /\ th'[t].pc = pc /\ th'[t].pid = th[t].pid /\ th'[t].bytes = th[t].bytes /\ th'[t].n = th[t].n
            /\ \A s \in Thread : s # t => th'[s] = th[s]
        BY <4>1, BecomeEffect DEF TypeInv
      <4>3. th[t].pc = "test"
        BY <3>2 DEF TestHalted, At
      <4> QED BY <4>1, <4>2, <4>3, <2>2 DEF Serving, Closed
    <3>3. CASE ProcessDealloc(t)
      <4>1. /\ th'[t].pc = "201" /\ th'[t].pid = th[t].pid /\ th'[t].bytes = th[t].bytes /\ th'[t].n = th[t].n
            /\ \A s \in Thread : s # t => th'[s] = th[s]
        BY <3>3, BecomeEffect DEF ProcessDealloc, TypeInv
      <4>2. th[t].pc = "dealloc"
        BY <3>3 DEF ProcessDealloc, At
      <4> QED BY <4>1, <4>2, <2>2 DEF Serving, Closed
    <3> QED BY <1>5, <3>1, <3>2, <3>3
  <2>4. \A s \in Thread : (Serving(s)' <=> Serving(s)) /\ (s # t => Closed(s)' = Closed(s))
    BY <2>1, <2>3 DEF Serving, Closed
  <2>5. \A s \in Thread : Serving(s) => /\ Len(th[s].bytes) <= th[s].n
                                        /\ th[s].pc \in {"ioctl", "read"} => th[s].bytes = <<>>
    BY DEF BytesOK, HandOK
  <2>6. \A k \in Pid : Ended(k)' = Ended(k)
    BY <2>1 DEF Ended
  <2>7. ASSUME NEW s \in Thread, Serving(s)
        PROVE  /\ th'[s].pid = th[s].pid /\ th'[s].bytes = th[s].bytes /\ Closed(s)' = Closed(s)
               /\ th'[s].pc \in {"ioctl", "read"} => th[s].bytes = <<>>
               /\ Len(th[s].bytes) <= th'[s].n
    <3>1. CASE s = t
      BY <3>1, <2>3
    <3>2. CASE s # t
      BY <3>2, <2>3, <2>4, <2>5, <2>7
    <3> QED BY <3>1, <3>2
  <2> QED BY <2>1, <2>4, <2>6, <2>7, BytesFrame
<1>6. ASSUME NEW t \in Thread, NEW k \in Pid, ~Polled(k), Poll(t, k) PROVE BytesOK'
  BY <1>6, PollBytes
<1>7. ASSUME NEW t \in Thread, Answer(t) PROVE BytesOK'
  BY <1>5, <1>7, ReadBytes, CloseBytes, RespondBytes DEF Answer
<1>8. CASE Output
  BY <1>8, OutputBytes
<1> QED BY <1>2, <1>3, <1>4, <1>6, <1>7, <1>8 DEF OnePollNext

(***************************************************************************)
(* A terminal is sent what its own process wrote, from the first byte, in  *)
(* order, nothing twice, and nothing left out but what a full FIFO, a byte *)
(* 0 or Content-Length costs, until a destroyed record writes: for any     *)
(* number of processes, terminals and threads, any size of the FIFOs and   *)
(* of a read, and any output, if each terminal has one poll on its way and *)
(* the programs do not fork (libemunet.c:374-399, lib8080.c:1127-1131).    *)
(***************************************************************************)
THEOREM SentInOrderAlways == ~CanFork => (OnePollSpec => []SentInOrder)
<1> SUFFICES ASSUME ~CanFork PROVE OnePollSpec => []SentInOrder
  OBVIOUS
<1>1. Init => StreamInv
  BY InitStream
<1>2. TypeInv /\ PollInv /\ StreamInv /\ [OnePollNext]_vars => StreamInv'
  <2> SUFFICES ASSUME TypeInv, PollInv, StreamInv, [OnePollNext]_vars PROVE StreamInv'
    OBVIOUS
  <2>1. FdOK' /\ ExecOK' /\ GoneOK'
    BY FdKeeps, ExecKeeps, GoneKeeps DEF StreamInv
  <2>2. Strayed' \/ BytesOK'
    <3>1. CASE Strayed
      BY <3>1, StraysOn
    <3>2. CASE BytesOK
      BY <3>2, NextBytes DEF StreamInv
    <3> QED BY <3>1, <3>2 DEF StreamInv
  <2> QED BY <2>1, <2>2 DEF StreamInv
<1>3. TypeInv /\ StreamInv => SentInOrder
  <2> SUFFICES ASSUME TypeInv, BytesOK, NEW k \in Pid, NEW i \in 1..Len(sent[k])
               PROVE  /\ sent[k][i][1] = k
                      /\ \A j \in 1..(i - 1) : sent[k][j][2] < sent[k][i][2]
                      /\ \A m \in 1..(sent[k][i][2] - 1) : m \in Sent(k) \/ Dropped(k, m)
    BY DEF StreamInv, SentInOrder
  <2>1. PICK h, c : Flow(k, sent[k], h, fifo[k], wrote[k], c)
    <3>1. CASE \A t \in Thread : Serving(t) => th[t].pid # k
      BY <3>1 DEF BytesOK, RestOK
    <3>2. ASSUME NEW t \in Thread, Serving(t), th[t].pid = k
          PROVE  \E h, c : Flow(k, sent[k], h, fifo[k], wrote[k], c)
      <4>1. Flow(k, sent[k], th[t].bytes, fifo[k], wrote[k], Closed(t))
        BY <3>2 DEF BytesOK, HandOK
      <4> QED BY <4>1
    <3> QED BY <3>1, <3>2
  <2>2. sent[k] \in Seq(Byte)
    BY Types
  <2>3. /\ sent[k][i][1] = k
        /\ \A j \in 1..(i - 1) : sent[k][j][2] < sent[k][i][2]
        /\ \A m \in 1..(sent[k][i][2] - 1) : m \in Ns(sent[k]) \/ Excused(k, m, wrote[k], Ns(sent[k]))
    BY <2>1, <2>2, FlowSent
  <2>4. Sent(k) = Ns(sent[k])
    BY DEF Sent, Ns
  <2>5. \A m : Excused(k, m, wrote[k], Sent(k)) => Dropped(k, m)
    BY DEF Excused, Dropped
  <2> QED BY <2>3, <2>4, <2>5
<1> QED BY <1>1, <1>2, <1>3, PollAlways, PTL DEF OnePollSpec
=============================================================================
