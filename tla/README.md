# A verification project for 8080-Remote

8080-Remote emulates 8080 processors, schedules the processes that run on them,
and serves them to terminals in a browser. It is one program with one thread
that runs the processes and one thread for every HTTP request, and all of them
work on the same lists, records and memory without a lock.

This directory holds TLA+ modules of the program and of the page its users work
with, TLC configurations that check them on small instances, and TLAPS proofs of
what holds for every instance.
`PROJECT.json` lists the runs, the mutants that show each property can fail,
the lines each definition models, and the hazards the properties are for.

    tlc -config ReadyQueueSerial.cfg MCReadyQueue.tla     # a run
    tlapm ReadyQueueProofs.tla                            # the proofs of a module

## 1. The system

| component | state | operations | used by |
|---|---|---|---|
| ready queue (`libscheduler.c`) | `Queue.Head`, `Queue.End`, the `_Node` blocks | `QueueInsert`, `Dequeue` | scheduler, `Fork`, `CreateProcess` |
| scheduler (`main` in `emulator.c`) | `CurrentProcess`, the time it was dequeued | dequeue, test the state, execute one instruction, preempt after 4 s | - |
| page pool (`libemulator.c`) | 128 MiB of slots with a header, `AllPages`, `PageNum` | `PageAlloc`, `PageDealloc` | records, page tables, memory |
| process records | `Process`: registers, `pc`, `sp`, `state`, `Pid`, `In`, `Out`, `PageTables` | `ProcessAlloc`, `CreateProcess`, `DestroyProcess`, `ProcessDealloc` | request threads, `Fork` |
| process table | 127 bucket chains | `AddToProcessTable`, `FindInProcessTable`, `DestroyProcessTableEntry` | request threads, `Fork` |
| page table pool | tables packed into pages | `PageTableAlloc`, `HighPageTableAlloc`, and `...Dealloc` | memory, records |
| paged memory | `HighPageTable` -> `PageTable` -> pages | `GetPage`, `GetMemory`, `SetMemory`, `GetMemoryShort` | processor, loader |
| 8080 processor (`lib8080.c`) | the registers and flags of a record | a handler per opcode, `IN`/`OUT` on FIFOs, `Fork` at 0xD9 | scheduler |
| process streams (`libemunet.c`) | two named FIFOs per process | `ReadProcessStream`, `WriteProcessStream` | terminals |
| HTTP listener | `NewSocket`, the descriptors, `strtok`'s position | `Listen`, `HandleRequest`, `GetEndpoint` | - |
| accounts, sessions | `server/passwords`, `server/sessions`, `crypt`'s buffer | `Register`, `Login`, `AddSession` | login page |
| terminal (`html/desktop.html`) | state, Pid and text of each terminal | create, poll every 2 s, send a key | user |

**How they interact.** A terminal's `POST /CreateProcess` runs `CreateProcess` in
a request thread: a page for the record, a page table, two FIFOs, the program
into memory, then the process table and the ready queue. The main thread
dequeues the process and calls one handler after the other; `OUT` and `IN` go to
the FIFOs, `Fork` makes another record, and after more than four seconds the
process goes back to the queue. `HLT` sets `state` to -1 and nothing else: the
scheduler drops the process at the next test. The terminal polls
`GET /ProcessStream`; the poll drains the Out FIFO, looks at `state`, and if it
is -1 destroys the process - closes its descriptors, frees its page tables and
its record - and answers 201 instead of 200. The record stays in the process table, and
is found by its old Pid until its slot is used for something else. A key is posted to the process's In FIFO.
All of these requests come in through one listener, which starts a thread for
each connection and hands it the address of a variable it overwrites with the next.

**What is hard.** There is no lock anywhere. Request threads and the main
thread run `QueueInsert`, `Dequeue`, `PageAlloc`, `AddToProcessTable` and
`ProcessId++` at the same time. A poll frees a record that the scheduler may
hold. `FindInProcessTable` finds freed records, because nothing is ever taken
out of the table (`DestroyProcessTableEntry` returns at once) and a freed record
keeps its Pid; records, descriptors and slots are reused at once. Polls overlap.
A forked child shares its parent's page tables and descriptors, which go with the
parent. Threads share `strtok`'s position and `crypt`'s result. The page runs its
handlers at every change of a request's state, and survives on exceptions. The
processor mixes signed and unsigned chars and shorts.

**What makes each part correct**: the queue hands every process out once and in
order; the allocator gives a slot to one owner at a time, and clean; no
process that has not halted is forgotten, none that has halted is run, none
that has not is destroyed; a terminal is shown the output of its own process,
whole and in order, and is told when it ended; an instruction changes the
registers, flags and memory it is documented to change; a process reads from
memory what its family stored; a request is answered, once, and to the client who
sent it; a name has one password; the page goes on polling, shows output where
it belongs, and loses no key. The hazards to these,
line by line, are in `PROJECT.json`.

## 2. The modules

| module | models | relation to others |
|---|---|---|
| `FifoQueue` | what the ready queue promises: a FIFO of processes | abstract specification |
| `ReadyQueue` | `libscheduler.c`, one action per load and store | implements `FifoQueue` |
| `ReadyQueueProofs` | theorems about `ReadyQueue` | |
| `PagePool` | `PageAlloc`, `PageDealloc`, the freeing of a record | |
| `PagePoolProofs` | theorems about `PagePool` | |
| `ProcessTable` | the bucket chains and `ProcessId++`, one action per load and store | what `Lifecycle` has as `Find` |
| `ProcessTableProofs` | theorems about `ProcessTable` | |
| `Memory` | the page table pool, the high and low page tables, `GetPage`, `SetMemory`, and what creation, fork and destruction do to them | the pages that `Cpu` has as a function |
| `MemoryProofs` | theorems about `Memory` | |
| `Lifecycle` | creation, scheduling, forking, polling, destruction | instantiates `FifoQueue` as its ready queue |
| `LifecycleProofs` | theorems about `Lifecycle` | |
| `Cpu` | every handler of `lib8080.c`, memory addressing, the streams as seen from a program | |
| `CpuPrograms` | programs for `Cpu`, `intest.hex` and `fork.hex` among them, and what each comes to | |
| `CpuProofs` | theorems about `Cpu` and those programs | |
| `Accounts` | `Register`, `Login`, `AddSession` | |
| `Server` | `Listen`, `HandleRequest`, `GetEndpoint` | extends `Accounts`: its threads run those handlers |
| `ServerProofs` | theorems about `Server`, and about `Accounts` as `Server` runs it | |
| `Terminal` | `desktop.html`, with the server as it looks from there | the client of `Lifecycle` and `Server` |
| `TerminalProofs` | theorems about `Terminal` | |
| `MCReadyQueue`, `MCPagePool`, `MCProcessTable`, `MCMemory`, `MCLifecycle`, `MCCpu`, `MCServer`, `MCTerminal` | symmetry sets, the words, stacks and exercisers `Cpu` runs, the requests `Server` gets | |

### FifoQueue and ReadyQueue

The program is built with `-O0`, so each load or store of shared memory in the
C text is an instruction of its own, and so it is an action: `Malloc`, `InitNext`,
`InitValue`, `TestEnd`, `LoadEnd`, `LinkNext`, `SetHead`, `SetEnd` for
`QueueInsert`; `LoadHead`, `LoadNext`, `StoreHead`, `TestNext`, `ClearEnd`,
`ClearHead`, `LoadValue`, `Free` for `Dequeue`. Blocks that were freed keep their
contents and `malloc` returns any free block, the one just freed included, so
stores through stale pointers land where they would. Accesses are sequentially
consistent; `malloc` always succeeds (the code does not survive if it does not).
`order` is a history of the blocks that were filled and not handed out.

`Spec` has every interleaving; `SerialSpec` those where a call starts only when
no other is under way, which is what the code would do under a lock, or with
requests far enough apart.

### PagePool

A slot is a number, `free[s]` its header's Type, `content[s]` what its bytes
16..239 hold - those are the bytes the misdirected `memset` of the slot below
reaches. `PageAlloc` is split where another thread can get in: test, mark, log,
clear. `Use`, `PageDealloc`, `ProcessDealloc` are the owners' steps. `held` and
`gapFilled` are histories.

### ProcessTable

`Create` hands out a record, `LoadId` and `StoreId` are `ProcessId++`, which the
main thread does twice for a fork; `TestBucket`, `Walk`, `NewHead`, `HeadValue`,
`NewNext`, `NextValue` are `AddToProcessTable`, `FindTest` to `FindCompare` are
`FindInProcessTable` with its two reads of `Next` and of the Pid, and `Free` is the
poll that destroys. `malloc` does not clear: a new block's `Next` is NULL or `JUNK`
and its `Value`, until it is stored, is anything; following either may crash
(`up`). `overlapped` says in which buckets two calls of `AddToProcessTable` ran at
the same time, `contested` which records' Pids were drawn while another was, `quiet` that
nothing changed under a search, `due` what a search must not miss.

### Memory

One value `heap` has the headers, the tables, the records' `PageTables` and a cell
for each slot that stands for the page's first bytes, those that the misplaced
`memset` of `PageAlloc` and the left-overs of a record reach; the allocators are
operators from a heap to a heap and a pointer, because they call one another.
`HighPageTableAlloc` and `PageTableAlloc` share a search over a chain of pool pages.
`ptr` may hold a slot where a table belongs and the other way round; following or freeing
such a pointer, or freeing what it leads to, makes `heap.ok` false, and so does a `memset`
that clears the header of a slot in use - whose consequences are `PagePool`'s. A family is
a created process and what it forks. Calls are atomic here. `lost` collects what the code is known to
lose: the record of a creation that failed for lack of a table or of a program,
pages above the first hole of a page table, the tables a fork makes and forgets.

### Lifecycle

The main thread's loop is `Dequeue`, `TestState`, one of `Compute`, `Output`,
`Halt`, `Fork`, then `Preempt` or `GoOn`: a program is any sequence of those
instructions. A request thread creates (`ProcessAlloc`, `AddToProcessTable`,
`QueueInsert`) or answers a poll (`Poll`, `Ioctl`, `Read`, `TestHalted`, `Close`,
`ProcessDealloc`, `Respond`), a step for each access to what other threads
change. A record that was freed keeps Pid and descriptor; `Find` looks at all
records ever added. One that the scheduler held or had queued is run on, with tables
that are cleared or somebody else's by then, and so executes anything: `Compute`, `Output`,
`Halt` and `Fork` ask of no record whether it is in use. Descriptors are reused; a FIFO's
bytes are lost when it is closed, and a write to a full FIFO fails (`Room`). The races inside the queue, the pool and `ProcessId++` are left to the
modules about them: here those calls are atomic, and `ProcessAlloc`, with `mkfifo` and
`open`, is one step. `sent` is what the answers to a terminal's polls carried; what the page
makes of them is in `Terminal`. An answer carries less than was read when there is a byte 0
in it, where `strcat` ends, or when the Pid has more than one digit, for which
Content-Length has no room (`Carries`, `Digits`). `wrote` says of each byte a process wrote
whether it went into its FIFO, was lost, or was the work of a destroyed record.

`Spec` lets polls of a terminal overlap, as the page's do (its handler starts a
new poll at every change of `readyState`, not only the last); `OnePollSpec` is a
client with one poll at a time. An answer that a byte 0 made shorter than its
Content-Length says is taken to be received; a browser may report it as a failure instead,
and then shows nothing of it.

### Cpu

One action per handler, with the scheduler's fetch of opcode and operand before
it. The actions do what the code does, also where that is not what an 8080
does. A few of these: `MVI` is 3 bytes long; `XCHG` changes nothing; immediate
arithmetic takes the byte after its operand; `DCR` increments; `CALL` pushes its
own address; a conditional return not taken is 3 bytes long; `PUSH PSW` has the
flags in the high byte and `POP PSW` takes them from the low one; the high byte
of a fetched word is 255 if the low one is 128 or more; `SUB` of 0 leaves a
borrow, so 16-bit subtraction goes wrong when the low byte taken away is 0; the
sign rule of `CMP` turns the carry around for numbers of the same sign too. A handler missing from
the table, and an address whose page number is -1, crash the emulator (`Crash`).

The actions were also compared with the compiled handlers: for each of the 253
opcodes other than `IN`, `OUT` and `Fork`, a hundred states with random and
boundary values went through the C code and through the action, half of them
on the boundaries of memory, and the 12,650 results compared - crashes,
registers, flags and all of memory - agree.

Memory is a function from the addresses stored to; the programs it starts with
are a constant, any byte sequences that end below 0xe001 (`CpuAssumption`). Several processes share one memory and one pair of FIFOs after a
fork. Which process executes next is any choice.

### Accounts and Server

A thread is named by the connection it was started for. `Accept` stores the lowest
free descriptor in `NewSocket`; `Fetch` reads it whenever the thread gets there, so
that two threads may have the same one and another connection none (`overtaken`).
`Read` blocks on the connection that the descriptor refers to when it is called,
`Receive` and `Empty` are its two outcomes, and `Respond` and `Close` go to whatever
the descriptor refers to then. A request is delivered by one `read`.
`First` to `Rest` are the calls of `strtok` in `GetEndpoint`, the third one in two
steps, `Cut` those in the handlers; `saved` is the shared position, with whose text
it is in and whether that still exists. `crossed` has the threads between whose
second and third call another one's came. In `Accounts` a line reaches the file with
`fclose`; `muddled` has the threads whose hash another thread's replaced,
`doubled` the names whose registrations overlapped. What the handlers of processes do
is in `Lifecycle` and `Cpu`; here they answer.

### Terminal

The page has one thread, so an action is an event with its whole handler:
key presses (`Type`, `Backspace`, `Enter`, `SendInput`, `Continue`), timers, and changes
of a request's readyState (`Created`, `Loading`, `Done`, `Flushed`). A handler that
looks for a terminal that is not there ends with an exception, and what is written
behind that line is not done. The gate of two seconds between polls is a choice of
`PollProcess`: a request or a timer. The server answers in one step, requests are
answered in any order, and one may be lost. A process that was destroyed is `gone`: its
record is still found, with state 0, and polls are answered 200, with the old Pid and the
output of the process that was given the closed descriptor since (`heir`), if there is one.
When the record's slot is taken for something else (`Reuse`), it is `reused`, and the answer
is 404. Programs here do not fork, write no byte 0 and stop when they are destroyed, which is
`Lifecycle`'s matter; which process a key gets to is left out, and so is that a closed
descriptor may come to be a connection, a file, or another process's input. A letter is the number of its key press;
`input` has those pressed while a process ran, `calm` the terminals that had no post
under way when they became ready.

## 3. The runs

Runs marked `!` find a violation: the property is one the repository's text
claims or plainly intends, and the code does not keep it. What the trace shows,
with the lines, is in the `findings` of `PROJECT.json`.

| run | shows |
|---|---|
| `ReadyQueueSerial` | the list is always a well-formed chain and refines `FifoQueue`, if calls do not overlap; the proofs' invariant holds |
| `ReadyQueueConcurrent` | three threads: whatever is lost, no block is handed out twice, or read after it was freed |
| `PagePoolSerial` | slots are exclusive, `NULL` means full and stores are kept, until a gap below a slot in use is filled |
| `ProcessTable` | forks, creations and searches at the same time: a chain loses a process only to two appends in its bucket; a search never misses one that is there, and finds a wrong one only if the table changed under it; two processes share a Pid only if it was drawn at the same time as another |
| `Memory` | creations that succeed and fail, forks, destruction, access: a process reads what its family stored; every slot and table in use has one owner, or is one of the known losses; and no slot has two uses, also when orphans run on |
| `LifecyclePolls` | overlapping polls, forks, destroys, reuse: no process that has not halted falls out of sight |
| `LifecycleOnePoll` | one poll at a time, full FIFOs, a byte 0, a Pid of two digits, destroyed records that run on: output in order, without a gap but the known ones; only halted processes destroyed |
| `LifecycleLive` | every waiting process runs, every terminal is told of the halt |
| `LifecycleStreams` ! | a child writes into another terminal after its parent was destroyed |
| `Cpu` | every opcode from boundary states: widths, flags, stores, sums and differences; 16-bit sums by `ADD` and `ADC` agree with `DAD`; nested `PUSH` and `POP` anywhere in memory; `intest.hex` echoes everything once, in order and eventually, however the keys come; `fork.hex`: parent and child both finish and both letters arrive |
| `Server` | threads that fetch the socket late, share descriptors and `strtok`: an answer goes to the client that asked, once, and in the end; a poll is answered for its Pid unless another `strtok` came between; descriptors are lost in two known ways only; a name gets a second line only by overlapping registrations; a password that was accepted is accepted again |
| `Terminal` | two terminals, Pids 4 and 40, records destroyed, found again and reused, answers late, out of order or lost, two keys: a running terminal goes on polling; output shows up where it belongs; a key is posted twice; a command is what was typed |

The models also show what has no run of its own, because there is nothing the
code promises that a property could hold it to:

- `QueueInsert` between the last two stores of `Dequeue` (`ClearEnd`, `ClearHead`)
  and two inserters that both find the list empty lose a process (`ReadyQueue!Spec`);
- filling a gap below a slot in use marks that slot FREE, and it is handed out while
  in use (`PagePool!Clear`, where `ExclusiveUpward` stops to promise anything);
- two threads that test the same header in `PageAlloc` get the same slot;
- a slot freed by `ProcessDealloc` keeps bytes 16..239 of the record when it is
  handed out as a page of memory (`JUNK` in `Memory`);
- the last slot reaches past the end of the 128 MiB, which are no multiple of 4112;
- a child that runs on after its parent was destroyed has the tables of whoever
  allocates next (`orphaned`, where `Memory`'s properties end but for `SlotsApart`);
- two creations that overlap in `ProcessId++` get the same Pid, and one that stores late
  takes the counter back, so that Pids given out meanwhile are given out again
  (`ProcessTable!StoreId`, and `contested` in `PidsUnique`);
- a poll that overlaps the one that destroys the process reads the Pid again from the
  record, and destroys whatever process that is by then (`Lifecycle!Close` under `Spec`);
- a write to a full FIFO fails, and the byte is missing from what the terminal is sent
  (`Output`, `Dropped`); so is what a poll has read behind a byte 0, and the last byte of
  each full answer for a Pid of two digits (`Carries`);
- a byte that is written between a poll's read and its test of the state is lost
  if the process halts in between (`Read`, `Output`, `Halt`, `TestHalted`);
- `ProcessDealloc` sets the state of the halted process to 0, and if the scheduler
  is just about to test it, it goes on running it (`TestState`), with the tables and
  descriptors of whoever has them by then: it may write into another terminal, or fork
  (`Strayed`, where `SentInOrder` stops to promise anything);
- a poll that is under way when the process is destroyed finds the record still there: it
  is answered 200, and shows what the closed descriptor yields, another process's output if
  that was given the same number (`Terminal!ServePoll`, `gone`);
- a client that connects and sends nothing costs a descriptor for good, and when there
  is none left, the server exits (`Empty`, `Exit`);
- `Register` takes for the password what follows the second character of the name
  (`Accounts!Begin`), and does not answer when it succeeds (`AddLine`);
- the output of processes 10 to 19 goes to the terminal of process 1, and a 404, once
  the record of a process that is gone was reused, to that of process 4
  (`Terminal!Targets`); a terminal whose Pid has more than one digit
  stops polling when no other terminal has that digit for a Pid;
- an answer to a key's post that comes when the terminal is ready again takes the
  first letter of the command that is being typed (`Flushed`).

### Bounds

*ReadyQueue.* Four blocks when serial: lists of zero to four elements, with each
block's reuse; the code distinguishes none, one and more. Three blocks and
three threads (two inserters and the main thread) when concurrent; no call starts
when all blocks are in use. *PagePool.* Four slots: a slot below, one in use,
one above and the end of the pool; the pool's size is no multiple of the slot's,
as in the code. *ProcessTable.* The main thread and one other, so that a fork and a creation
append at the same time and a search meets either; three records and blocks in two
buckets, hence a chain of two or three. *Memory.* Nine slots of which a process takes
three, pool pages of three tables instead of 30 and so a second pool page with the second
process, three page numbers, so that there are pages above a hole; three creations, one
fork. *Lifecycle.* Two records, two descriptors and two request
threads, so that every reuse and every overlap of two occurs, three records in
`LifecycleStreams` (parent, child, newcomer). Pids to 1 or 2 (3 in
`LifecycleStreams`) bound creations and forks, `MaxOut` the bytes of a process;
`MaxRead` stands for the 9000 of the code and is 1 where the property
is about a poll that reads all it may, `PipeCap` for the 65536 that a FIFO holds.
`LifecycleOnePoll` starts with Pid 9 (`FirstPid`: nine creations failed before), so that the
next has two digits; Pid 9 writes four bytes, of which a FIFO holds and a poll reads two, so
that one is lost in front of one that is not and an answer is full or not, and the second of
them is 0 (`Nul`); Pid 10 writes two (`MCOnePollSpec`). `LifecyclePolls` has no output, which its
property does not speak of, and `LifecycleOnePoll` no forks, for which
`LifecycleStreams` shows its property not to hold. *Cpu.* `Exercises` has all
pairs of {0, 1, 15, 16, 127, 128, 255} in A and B with both carries for every
ALU operation, and every opcode with stack and HL inside a page, at its
boundary, at both ends of memory and on the page that is none. `Stacks` has the stack there
too, and on the page that the first one stands in for. Program memory
ends at `CodeEnd`; FIFOs hold `PipeCap` bytes; a terminal types up to four keys of
two kinds. *Server.* Three connections and two descriptors: two threads on one descriptor
while the third connection is overtaken or reuses it. `Requests` names the combinations:
polls and keys that cross in `strtok`, clients that send nothing, two registrations of a
name with a login, logins right and wrong around a registration; the passwords file has
one line, or a name twice. *Terminal.* Two terminals, one of which is typed in, two keys,
a Pid of one digit and one with two that starts with the same; two requests under way,
one timer for each terminal and Pid, one byte of each process, one failure. Once a letter
was typed no process writes, and the other way round (`KeysOrOutput`, in `MCTerminal`): keys
and output have nothing in common but the slots of the requests.

Deadlock checking is off where the system may stop: `Cpu` (the programs halt),
`ReadyQueueConcurrent` (all blocks in use while the list is broken), `ProcessTable`,
`Memory` and `Server` (the program crashed or exited, or the bounds are used up) and
`Terminal` (the processes are over and the keys used up). The others check it.

### Fairness

`Lifecycle!FairSpec`: the main loop never blocks, hence weak fairness of `Main`;
`Preempt` is strongly fair because the clock is read after every instruction and
4 seconds pass however many are executed; request threads go on; a terminal polls
again and again. Nothing is assumed of programs: they need not halt.
`Cpu!FairSpec`: every process that can run gets its turn, which is what
`ReadyRuns` says of the scheduler. Nothing is assumed of the typist.
`Server!FairSpec`: `accept` returns when a client waits, and every thread goes on when it
can; clients need not send, nor hang up. For `Terminal` no liveness is claimed: the
gate of two seconds is shared by all terminals and set anew by each poll, so that the
timers of several can put one off again and again.

## 4. The proofs

`ReadyQueueProofs` takes the specification with serial calls and, for `HandedOutOnce`, the
one with every interleaving, `PagePoolProofs` the one with serial calls,
`ProcessTableProofs`, `ServerProofs` and `TerminalProofs` the one with every interleaving,
`LifecycleProofs` that and the one with a poll at a time, `MemoryProofs` any sequence of
whole calls, `CpuProofs` any programs under any scheduling or, where a theorem names its
program, that one; all hold for any number of
threads, blocks, processes, records, slots, clients, descriptors, users, terminals and
requests. `ReadyQueueProofs` assumes
`QueueAssumption` (NULL is no block and no process, the main thread is a thread),
`PagePoolProofs` assumes `PoolAssumption` (the slots are those that start within
the pool, and there is one), `ProcessTableProofs` assumes `TableAssumption` (there is a
bucket, there are finitely many blocks, NULL and JUNK are none of them; `MaxPid`, which
bounds what is searched for and where creations start, is any number), `ServerProofs`
`ServerAssumption` (descriptors are numbers, NULL is none of them and no thread) and
`AccountsAssumption` (the passwords file has a line when the server starts), `CpuProofs`
`CpuAssumption` (programs are bytes, below the addresses that `GetPage` mistakes; so are
keys), `MemoryProofs`
`MemoryAssumption` (a pool has the two slots of `Initialize`, a pool page two tables, and
the bounds are numbers, whichever they are) and `NullAssumption` (NULL is no pointer, JUNK no
family), `LifecycleProofs`
`LifecycleAssumption` (NULL is no record, descriptor or Pid; a read may take at
least a byte and a FIFO holds one; Pids have three digits at most), `TerminalProofs`
`TerminalAssumption` (Pids are positive numbers of three digits at most, `None` is
neither one of them nor a terminal, and the bounds on keys, output and timers are numbers,
whichever they are).

**ReadyQueue.** `ListIntact` speaks of states between calls only and is not
inductive. `IInv` says what holds inside a call as well: `CallsOK` (one call at
a time, `Dequeue` in the main thread), `BlocksOK` (queued blocks are distinct,
filled, and with the one a call holds outside the list exactly the allocated
ones), `InsertOK` and `DequeueOK` (for each step, which part of the chain is in
place and what the locals point to), `CalmOK` (nobody is changing a pointer: the
list is well formed). `Invariant`: `SerialSpec => []IInv`, one lemma for each
action, one step for each conjunct. `ListIntactAlways` follows. `Refinement`:
`SerialSpec => ImplementsFifo`, where the abstract queue is the sequence of the
processes of the blocks in `order`; `InitValue` maps to `Insert`, `LoadValue` to
`Take`, `LoadHead` on an empty list to `TakeNothing`, everything else to a
stutter. The last is what lets `Lifecycle` use `FifoQueue`.

`HandedOutOnceAlways` is about `Spec`, where calls overlap and the list does lose blocks.
Its invariant, `AnyInv`, was checked by TLC on the instance of `ReadyQueueConcurrent` before
it was proved. It says what is left: a block that a call owns is no other call's
(`OwnsOK`), and of the pointers that may still be followed - Head, or what is about to be
stored in it, and the Next of each block that is queued or about to be (`Live`) - no two
lead to the same block, and none to one that a call owns (`LeadsOK`). A block is linked
once, by its inserter's store into Head or into a Next; a store through a stale pointer, or
over another inserter's, takes a pointer away and adds none. So what `Dequeue` finds at
Head was queued, and is led to by nothing else once Head has moved on.

**PagePool.** `IInv` adds to exclusiveness that, until a gap is filled, FREE is
true of exactly the slots that are neither in use nor being handed out, and that
the slots below the cursor of a search are taken. From it follow
`ExclusiveUpwardAlways`, `FailsOnlyWhenFullAlways` and `StoresKeptAlways`, the last
two as action properties. The condition on gaps is necessary: the `memset` of an
allocation marks the next slot FREE. So is the condition on callers: between the test of
a header and the store that claims the slot another thread may find it FREE, too.

**ProcessTable.** `ChainsHoldAll` says of a recursive function that follows `Next` which
blocks it collects. The invariant says instead what `Next` leads to (`Reaches`: b is in
every set that a is in and `Next` does not lead out of), which a step changes in one place.
`IInv` gives every block handed out to one bucket (`OwnedOK`), for good; has every block of
a bucket without overlapping calls within reach of its head, and every process that was
added in one of them (`HeldOK`); a call that adds at the end of its chain, and alone there
(`AppendOK`), with a record that is nobody else's (`RecordOK`); and in front of a search
what it must not miss, in the block at hand once it is about to compare (`SearchOK`).
`Grown` is what an append does to a bucket, and `ReachKeeps` why a way through the chain
survives it: only a `Next` that led nowhere changes. `NeverMissedAlways` and
`FindsRightAlways` are then about the step that returns (`Answered`). That the recursive
function collects what the head reaches is `ChainReaches`: as many layers as there are
blocks are enough, since each adds a block or is closed. It is proved by induction on the
layers, over the set of the numbers that have the property (`Induct`), and so without the
library's theorems that take an operator.

`PidsUniqueAlways` has an invariant of its own, `IdsOK`, on top of `IInv`: a Pid drawn alone
is below the counter and below every value that a thread has loaded and not stored yet
(`BelowOK`), so that a late store takes the counter back, but never behind such a Pid; and
two threads between load and store are both contested (`AloneOK`).

**Memory.** Three of the properties are consequences of one invariant, `MemOK`, of a heap, the
records, what the families stored and what is lost; a slot or table in use that is not lost
is *kept*. `HeapOK` is about the heap alone: the pool pages are a chain (`Chained`), which
`PoolsIs` proves to be the sequence that `Pools` collects, and a free table is empty. The
others say that what is kept is what somebody has: a record has the high table of its family
(`RecordsOK`), this a page table of its own or none (`LowsOK`), this pages of its own
(`PagesOK`), and nothing else is kept (`AllOK`); `CellsOK` is about the bytes. The code breaks
this in the midst of every call - a record just allocated is nobody's yet - and so the
lemmas about single changes are stated with the lost set: an allocation adds to it
(`SlotLost`, `TableLost`), a change to what is lost disturbs nothing (`LostPointed`,
`LostTabled`, `LostBlanked`, `LostFreed`), linking a page or a table takes it out
(`LowLinked`, `PageEntered`, `Adopted`), and a process that is destroyed leaves all it had
there (`Disowned`). `Framed` says why the kept part survives what changes elsewhere. The
lemmas about `PageGot`, `ProcessAllocated`, `ProcessDealloc` and the actions follow the
order of calls in the code. `MemOK` holds while `Sound` does, which is what these theorems
assume and a step can only end. `TablesAccountedAlways` has as many high tables as families
because `RecordsOK` makes the one a bijective function of the other.

`TypeCorrect` and `SlotsApartAlways` are about all states, orphans and their tables
included, where `MemOK` is false: tables that are FREE hold pages then, and what the new
owner of a table calls allocated is a page of an orphan. Their invariant `ShapeInv` asks for
less, in all tables alike, whether in use or not: `Shaped` says that a page is in at most one
place of one table, that no such slot is free, a pool page or one of the slots that are
*held* (records and Processes), and that the pool pages are a chain. Each allocation hands
out a held slot (`ShapedPage`), which becomes a record, the last pool page (`ShapedChain`)
or a page in a place that was empty (`ShapedGiven`); whatever else a call does is to forget
places or to free slots that are in none any more (`Reshaped`). `PageTableDealloc` frees the
pages of the table it clears and so does that too, unless one of them is a table, which is
where the model ends.

**Server.** That answers reach those who asked rests on a chain of facts none of
which is inductive alone: a request is in the socket once, so one thread takes it
(`UnreadOK`, `HoldOK`); a thread that waits for a request that is there still has its
connection's descriptor (`WaitOK`), since only who took the request closes it; and so
the descriptor that was free when it was accepted was in nobody's hands. `IInv` is
their conjunction, `Invariant` proves it, and that the lowest free descriptor
(`Min`) is a free one is `LowestFree`, by well-founded induction on the numbers. `AskInv`
adds `OnCourse`: whoever has not been crossed finds at its third `strtok` the
position in its own text, which is not freed; `AskedPidAlways` follows, for polls and
keys among any other requests. `LeakInv` says who has each descriptor in a form
that survives the next accept and fetch (`Firm`: a thread about to read, or on the
connection), that connections and descriptors match one to one (`OpenOK`), and that what an
ended thread leaves is accounted for (`DoneOK`); `DescriptorsAccountedAlways` is its
consequence.

**Accounts.** The invariant, also in `ServerProofs`, follows a registration or a login through
its steps: a registration past its scan found no line of the name, unless one that
overlapped it wrote one since (`NameOK`); a login past its scan has the hash of the
first line of its user (`LineOK`), which stays the first when lines are added
(`FirstStays`); before its comparison `crypt`'s buffer has its own text under that
line's salt, unless another thread called `crypt` (`CryptOK`); and what was accepted is
the text of a first line (`AcceptOK`). `NamesUniqueAlways` and `AcceptedAgainAlways` are
what it says of `AddLine` and `Compare`. `TypeCorrect` adds to the invariants of both
modules the few facts that no safety property needed (`CountsOK`); the part of `TypeOK`
worth having is its last: whoever works on a request holds a descriptor that is its
client's connection. That a request with another purpose never gets to
these handlers (`AskOK`) is proved from `Second`.

**Cpu.** `TypeOK` is inductive as it stands, and the three other properties are about single
steps, so the work is in the 58 handlers. `Did` says what every one of them does: it keeps
the types; it changes flags only if its opcode is one of `FlagSetters`; it changes no
other process in use; and a byte of memory changes only where the instruction points.
There is a lemma for each handler, or for a few of one shape, that it `Did`. They rest on
four: what a handler makes of the process is one of the family with its flags (`Made`), and
a step that stores nothing, a byte at an address of `Accesses`, or a word at two of them,
then `Did` (`BecomeDid`, `ByteDid`, `WordDid`, all from `StoreDid`). `Points` says of the
opcodes that store that `Accesses` has their addresses, `Fetched` and `Operands` that what
they decode and read are bytes and words, sign extension included. `TypeCorrect`,
`FlagsSurviveAlways` and `StoresWhereItPointsAlways` are then what `Did` says, for every
program. `SumExactAlways` adds that no other handler has the opcodes of `ADD` and `SUB`
(`MoveElsewhere`, `ComputeAlu`, `ControlElsewhere`), and that the carry `Arith` leaves is
the ninth bit of the sum (`ADDSum`) or the borrow (`SUBDifference`); the run checks 49 pairs
of operands, the theorem has them all.

Three theorems are about programs of `CpuPrograms`, one process running one (`Origin` is
`{p1}` and what is loaded is the program), for all its parameters. `Decoded` says which
handler an opcode leads to, `AloneWaits` that every other step leaves the process and its
memory as they are, and lemmas such as `MviSets`, `SumSets`, `PushSets` and `PopSets` what
a handler leaves in registers and memory. Each invariant says what holds with the next
instruction at `pc`. `WideSumAlways` (`AdderInv`) has the registers and the carry at
each instruction; `WholeSum` puts the bytes of the sum together. `StackRestoresAlways`
(`StackInv`) has the stack pointer and the bytes on the stack too, and allows for pushes
over the part of the program that was executed: it is assumed (`Clear`) that the four bytes
of the stack are none of those still to be executed nor of the operand of LXI, without
which the program does something else. `CellsApart` shows that four bytes pushed are four
cells of memory wherever the stack is, though the first page stands in for the last.
`EchoInOrderAlways` (`EchoInv`) has where each byte typed is (`Flow`): written, in the
accumulator, or in the FIFO; once the Out FIFO was full bytes are lost, but what was written is
a beginning of what was typed still. It assumes that no key is 0, which the program takes
for an empty FIFO.

**Lifecycle.** `NeverForgottenAlways` holds under `Spec`, overlapping polls and forks
included. It is inductive once what the scheduler and the threads refer to is known to
be a record (`TypeInv`); the lemma `Remember` says which steps can forget a process,
and `MainKeeps` and `ThreadKeeps` that none does. The other two are theorems of
`OnePollSpec` for programs that do not fork; `LifecycleStreams` shows that the second
condition is needed, and what `Lifecycle` shows of overlapping polls (section 3)
that the first is. `PollInv` is what makes the two reads of the
state and the second search of the table harmless: Pids are given out once
(`PidsOK`), a record in creation is one thread's (`CreateOK`), a poll's record is in
use, has the Pid it asked for and nobody else's poll (`PollOK`), and the process of a
terminal that polls is still there (`RunningOK`). `DestroysOnlyHaltedAlways` follows.
`SentInOrderAlways` needs, beyond that, that a process in use has the descriptor of its own
FIFO until the step that closes it (`FdOK`), that an instruction is only
executed by a record that does not say it has halted (`ExecOK`), and that the process of a
terminal that was told of the end is gone (`GoneOK`). Where each
byte is says `BytesOK`: what was sent, what the poll under way has read, and what the FIFO
holds are one sequence (`Flow`), in order (`InOrder`), without a byte that was never
written, and with no gap between the first and the last that is not a byte the FIFO had no
room for, or one that an earlier answer cut off (`Whole`, `Excused`). A read moves a byte
from one part to the next (`HandOK`, `RestOK`). The answer that is cut is where the argument
could break: what it leaves out must be excused by a byte 0 that was read in the same answer
and not sent, or by the Pid's digits, for good. A destroyed record that
executes `OUT` or a fork ends the claim (`Strayed`), and until then it changes none of this.

**Terminal.** `Inv` has three parts. `KeyInv`: a key is in one buffer, once (`OnceOK`), and
that it was posted twice is the same as its having left the buffer (`PostsOK`); what a
ready terminal's buffer has is nobody's input, so that Backspace and Enter lose no key
(`ReadyOK`). `CommandInv`: a calm terminal that is ready has no post whose answer would take
its letters (`CalmOK`). `PollInv` is about Pids. One that is on its way to the page is on
its way once, and not polled (`FreshOK`), so that its first poll is the page's own; a poll
or a timer has a Pid its terminal has or had (`PollsOK`, `WaitsOK`), which makes the digit
an answer starts with lead to the terminal of its process, if the Pid has no other digit.
`PollsGoOn` needs one thing more. A handler whose digit finds no terminal polls no further,
and the answer 404 has the digit of Pid 4; but a process that is destroyed, its record reused or
not, has told its terminal so in an answer that is on its way as well (`GoneOK`), and that one
is handled as the end it is. `TextRight` needs that a process has no bytes in its FIFO but its
own (`OutOK`) and that an answer has the bytes of the FIFO its record leads to
(`OutputOf`); `Drained` says what a poll takes from which FIFO, whether it is the
process's own or its heir's. `TypeCorrect` is about `TypeOK`.

**Proved and in no run.** The `IInv` of `PagePool` and the `TypeOK` of `Server`, `ProcessTable`
and `Terminal`, and the invariants that only serve a proof (`AnyInv`, `ShapeInv`, `IdsOK`),
were checked by TLC before they were proved, on the instances of the runs (`ShapeInv`
on a smaller one, with 7 slots and two creations).

**Model-checked only.** Liveness (`ReadyRuns`, `HaltIsReported`, `EchoAnswers`,
`ForkPrints`, `Answered`) is out of the prover's reach, as is everything about
ENABLED. What a recursion over data gives can be proved only where the recursion can be
replaced by an induction over a set of numbers, as `ChainReaches` and `FromChain` do. Every
invariant and every action property that a run checks is also a theorem.

## 5. What is not modelled

*The text of responses and the reading of files* (`libhttp.c`): no state of its own.
Uninitialised memory used as a string in responses (`SetReasonCode` into a
fresh buffer) is left out with it, and so are requests longer than their buffers.
*The priority heap* (`libheap.c`) is not built. *The shell* (`Head`), `ValidateSession`
and `GetCookies` are never called. *The login page* is a form. Of the page of
terminals, dragging and layout.

In `Server` a request arrives in one `read`, and the descriptors of files and FIFOs
are apart from those of connections, as they are in `Lifecycle` and `Terminal`. In `Lifecycle` a process's memory, which is
`Memory`'s, and failing allocations. In `Memory` the interleavings, which are
`PagePool`'s, and all banks but the first. In `Cpu` the pages themselves: memory is not
exhausted, and the page numbers -2..-8, which lie in the words of the table before, are
taken as memory of their own, which they are while that table is the process's own
`HighPageTable` and has one bank. `MemUsed` is a statistic.

## 6. Plan

What is left, in this order:

1. `Find` of `Lifecycle` as an abstract specification that `ProcessTable` implements
   while no two appends overlap.
2. `Memory` with the steps of its calls apart.
