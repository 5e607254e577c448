------------------------------ MODULE Terminal ------------------------------
(***************************************************************************)
(* The page of terminals (src/html/desktop.html): what a user types, the   *)
(* requests it becomes, and what the page does with the answers.  The page *)
(* has one thread, so an action is an event and its whole handler.  The    *)
(* server answers a request in one step here (Lifecycle has the steps),    *)
(* and answers take any time and any order.                                *)
(*                                                                         *)
(* A handler ends early with an exception where it looks for a terminal    *)
(* that is not there; it then does nothing that is written behind.  The    *)
(* change of readyState to 2 always ends so and is left out.  An answer    *)
(* has a Pid before the output, so there is always a change to 3.          *)
(*                                                                         *)
(* Programs neither fork nor write a zero byte here, and a process that is *)
(* destroyed stops (Lifecycle has what else happens then).  Who gets the   *)
(* keys is left out, hence also that a closed descriptor may come to be    *)
(* another process's input, and so are connections and files, which a      *)
(* closed descriptor may come to be as well: of what is read from it then, *)
(* only other processes' output is told apart.                             *)
(***************************************************************************)
EXTENDS Naturals, Sequences, FiniteSets

CONSTANTS Terminal, None,
          Typed,     \* bound: the terminals where letters are typed
          Pids,      \* bound: the Pids the server may give to this page's processes
          MaxOut,    \* bound: the bytes a process writes
          MaxKeys,   \* bound: the keys of letters the user presses
          MaxWaits,  \* bound: timers of a terminal and a Pid
          Slot       \* bound: requests under way (a browser allows some 6)

ASSUME TerminalAssumption ==
  /\ Typed \subseteq Terminal /\ Pids \subseteq 1..999 /\ None \notin Terminal \cup Pids
  /\ MaxOut \in Nat /\ MaxKeys \in Nat /\ MaxWaits \in Nat

Pid  == Pids \cup {None}
Key  == 1..MaxKeys
Byte == Pids \X (1..MaxOut)   \* whose output it is, and which of it

VARIABLES state,     \* the attributes of each terminal
          pid,
          buffer,    \* its characters, by the number of the key press
          waits,     \* waits[d, k]: timers that will call PollProcess(k, d)
          xhr,       \* the requests under way
          proc,      \* the server's processes
          pressed,   \* how many keys were pressed
          input,     \* history: keys pressed while a process ran, and not a command's since
          posts,     \* history: how often a key was posted
          line,      \* history: what was typed in a terminal since it became ready
          calm,      \* history: terminals without posts to be answered at that time
          shown,     \* history: bytes that appeared in a terminal, with the Pid that was polled
          received,  \* history: bytes of answers that were received, with that Pid
          maker,     \* history: the terminal that asked for a process
          replaced,  \* history: Pids of terminals that got another one
          failed     \* history: whether a request failed

page    == <<state, pid, buffer, waits>>
keys    == <<pressed, input, posts, line, calm>>
texts   == <<shown, received>>
history == <<maker, replaced, failed>>
vars    == <<page, xhr, proc, keys, texts, history>>

\* kind: what the request is; at: with the server, on its way back, or back
\* in part.  An answer has a status, the digit it starts with, and bytes.
Idle == [kind |-> "idle", d |-> None, k |-> None, at |-> "none", status |-> 0, digit |-> 0, bytes |-> <<>>]

New(kind, d, k) == [Idle EXCEPT !.kind = kind, !.d = d, !.k = k, !.at = "sent"]

\* gone: the process was destroyed, but the record is still found, with its
\* descriptors, which heir has now; reused: the record is another's.
Process == [state : {"none", "run", "halted", "gone", "reused"}, wrote : 0..MaxOut, out : Seq(Byte), heir : Pid]

Init == /\ state = [d \in Terminal |-> "ready"]
        /\ pid = [d \in Terminal |-> None]
        /\ buffer = [d \in Terminal |-> <<>>]
        /\ waits = [w \in Terminal \X Pids |-> 0]
        /\ xhr = [s \in Slot |-> Idle]
        /\ proc = [k \in Pids |-> [state |-> "none", wrote |-> 0, out |-> <<>>, heir |-> None]]
        /\ pressed = 0 /\ input = {} /\ posts = [n \in Key |-> 0]
        /\ line = [d \in Terminal |-> <<>>] /\ calm = Terminal
        /\ shown = [d \in Terminal |-> {}] /\ received = {}
        /\ maker = [k \in Pids |-> None] /\ replaced = {} /\ failed = FALSE

Free(x) == {s \in Slot : x[s].kind = "idle"}
-----------------------------------------------------------------------------
(***************************************************************************)
(* The keyboard.                                                           *)
(***************************************************************************)
Press(d) == d \in Typed /\ pressed < MaxKeys /\ pressed' = pressed + 1

\* A letter of a command.
Type(d) == /\ state[d] = "ready" /\ Press(d)
           /\ buffer' = [buffer EXCEPT ![d] = Append(@, pressed')]
           /\ line' = [line EXCEPT ![d] = Append(@, pressed')]
           /\ UNCHANGED <<state, pid, waits, xhr, proc, input, posts, calm, texts, history>>

Shorter(s) == IF s = <<>> THEN s ELSE SubSeq(s, 1, Len(s) - 1)

Backspace(d) == /\ state[d] = "ready" /\ buffer[d] # <<>>
                /\ buffer' = [buffer EXCEPT ![d] = Shorter(@)]
                /\ line' = [line EXCEPT ![d] = Shorter(@)]
                /\ UNCHANGED <<state, pid, waits, xhr, proc, pressed, input, posts, calm, texts, history>>

\* Mutant of Enter: the buffer is not emptied.
EnterKept(d) == /\ state[d] = "ready"
                /\ \E s \in Free(xhr) : xhr' = [xhr EXCEPT ![s] = New("create", d, None)]
                /\ line' = [line EXCEPT ![d] = <<>>]
                /\ UNCHANGED <<state, pid, buffer, waits, proc, pressed, input, posts, calm, texts, history>>

\* HandleInput: the terminal stays ready until the answer.
Enter(d) == /\ state[d] = "ready"
            /\ \E s \in Free(xhr) : xhr' = [xhr EXCEPT ![s] = New("create", d, None)]
            /\ buffer' = [buffer EXCEPT ![d] = <<>>]
            /\ line' = [line EXCEPT ![d] = <<>>]
            /\ UNCHANGED <<state, pid, waits, proc, pressed, input, posts, calm, texts, history>>

\* Mutant of SendInput: the character is not taken out of the buffer.
SendInputKept(d) ==
  /\ state[d] = "running" /\ Press(d)
  /\ LET queue == Append(buffer[d], pressed')
     IN  /\ posts' = [n \in Key |-> posts[n] + (IF n = pressed' THEN 1 ELSE 0) + (IF n = Head(queue) THEN 1 ELSE 0)]
         /\ buffer' = [buffer EXCEPT ![d] = queue]
  /\ input' = input \cup {pressed'}
  /\ \E s \in Free(xhr) : xhr' = [xhr EXCEPT ![s] = New("flush", d, pid[d])]
  /\ UNCHANGED <<state, pid, waits, proc, line, calm, texts, history>>

\* SendInput posts the letter, and Flush, since flushing is never "true", the
\* first of the buffer.
SendInput(d) ==
  /\ state[d] = "running" /\ Press(d)
  /\ LET queue == Append(buffer[d], pressed')
     IN  /\ posts' = [n \in Key |-> posts[n] + (IF n = pressed' THEN 1 ELSE 0) + (IF n = Head(queue) THEN 1 ELSE 0)]
         /\ buffer' = [buffer EXCEPT ![d] = Tail(queue)]
  /\ input' = input \cup {pressed'}
  /\ \E s \in Free(xhr) : xhr' = [xhr EXCEPT ![s] = New("flush", d, pid[d])]
  /\ UNCHANGED <<state, pid, waits, proc, line, calm, texts, history>>

\* "Press any key to continue": the buffer stays what it is, and is a command
\* from now on.
Continue(d) == /\ state[d] = "waiting"
               /\ state' = [state EXCEPT ![d] = "ready"]
               /\ line' = [line EXCEPT ![d] = buffer[d]]
               /\ input' = input \ {buffer[d][i] : i \in DOMAIN buffer[d]}
               /\ calm' = IF \E s \in Slot : xhr[s].kind = "flush" /\ xhr[s].d = d THEN calm \ {d}
                          ELSE calm \cup {d}
               /\ UNCHANGED <<pid, buffer, waits, xhr, proc, pressed, posts, texts, history>>

Keyboard(d) == Type(d) \/ Backspace(d) \/ Enter(d) \/ SendInput(d) \/ Continue(d)
-----------------------------------------------------------------------------
(***************************************************************************)
(* The server.                                                             *)
(***************************************************************************)
Answer(s, status, digit, bytes) ==
  xhr' = [xhr EXCEPT ![s] = [@ EXCEPT !.at = "answered", !.status = status, !.digit = digit, !.bytes = bytes]]

Digits(k)     == IF k < 10 THEN 1 ELSE IF k < 100 THEN 2 ELSE 3
FirstDigit(k) == IF k < 10 THEN k ELSE IF k < 100 THEN k \div 10 ELSE k \div 100

\* Content-Length counts one digit of the Pid before the output.
Carried(k, out) == SubSeq(out, 1, Len(out) + 1 - Digits(k))

\* The first digit of "404 Not Found" is a 4, too.
Refuse(s) == Answer(s, 404, 4, <<>>)

Live(k) == proc[k].state \in {"run", "halted"}

\* The processes whose old descriptor a new process may get: it is closed.
Closed == {j \in Pids : proc[j].state = "gone" /\ (proc[j].heir # None => ~Live(proc[j].heir))}

\* CreateProcess: there is no such program, or a process with a higher Pid.
ServeCreate(s) ==
  /\ xhr[s].kind = "create" /\ xhr[s].at = "sent"
  /\ \/ Refuse(s) /\ UNCHANGED <<proc, maker>>
     \/ \E k \in Pids, stale \in SUBSET Closed :
          /\ \A j \in Pids : j >= k => proc[j].state = "none"
          /\ proc' = [j \in Pids |-> IF j = k THEN [proc[k] EXCEPT !.state = "run"]
                                   ELSE IF j \in stale THEN [proc[j] EXCEPT !.heir = k] ELSE proc[j]]
          /\ maker' = [maker EXCEPT ![k] = xhr[s].d]
          /\ xhr' = [xhr EXCEPT ![s] = [@ EXCEPT !.at = "answered", !.status = 200, !.k = k]]
  /\ UNCHANGED <<page, keys, texts, replaced, failed>>

\* Whose output the descriptor in the record of k yields, if anyone's.
Source(k) == IF proc[k].state = "gone" THEN proc[k].heir ELSE k

\* ReadProcessStream: a record that was destroyed is like one that runs.
ServePoll(s) ==
  LET k == xhr[s].k
      j == Source(k)
  IN  /\ xhr[s].kind = "poll" /\ xhr[s].at = "sent"
      /\ \/ proc[k].state = "reused" /\ Refuse(s) /\ UNCHANGED proc
         \/ /\ proc[k].state = "gone" /\ (j # None => ~Live(j))
            /\ Answer(s, 200, FirstDigit(k), <<>>)
            /\ UNCHANGED proc
         \/ /\ proc[k].state # "reused" /\ j # None /\ Live(j)
            /\ Answer(s, IF proc[k].state = "halted" THEN 201 ELSE 200, FirstDigit(k), Carried(k, proc[j].out))
            /\ proc' = [proc EXCEPT ![j].out = <<>>,
                                    ![k].state = IF @ = "halted" THEN "gone" ELSE @]
      /\ UNCHANGED <<page, keys, texts, history>>

ServeFlush(s) ==
  /\ xhr[s].kind = "flush" /\ xhr[s].at = "sent"
  /\ IF proc[xhr[s].k].state = "reused" THEN Refuse(s) ELSE Answer(s, 200, 2, <<>>)
  /\ UNCHANGED <<page, proc, keys, texts, history>>

\* The slot of a destroyed record is allocated: FindInProcessTable finds
\* another Pid there, or a page of memory.
Reuse(k) == /\ proc[k].state = "gone"
            /\ proc' = [proc EXCEPT ![k].state = "reused", ![k].heir = None]
            /\ UNCHANGED <<page, xhr, keys, texts, history>>

\* A process writes or halts.
Run(k) == /\ proc[k].state = "run"
          /\ \/ proc' = [proc EXCEPT ![k].state = "halted"]
             \/ /\ proc[k].wrote < MaxOut
                /\ proc' = [proc EXCEPT ![k].wrote = @ + 1, ![k].out = Append(@, <<k, proc[k].wrote + 1>>)]
          /\ UNCHANGED <<page, xhr, keys, texts, history>>

\* The connection is lost, before or after the server has answered.  A poll's
\* handler is called with an empty text, and ends with an exception.
\* One failure is enough: nothing is claimed after it but of keys.
Fail(s) == /\ xhr[s].at \in {"sent", "answered"}
           /\ ~failed /\ failed' = TRUE
           /\ xhr' = [xhr EXCEPT ![s] = Idle]
           /\ UNCHANGED <<page, proc, keys, texts, maker, replaced>>
-----------------------------------------------------------------------------
(***************************************************************************)
(* The answers.                                                            *)
(***************************************************************************)
\* Mutant of PollProcess: too early a call is dropped.
PollProcessLate(k, d, x) ==
  \/ \E s \in Free(x) : /\ xhr' = [x EXCEPT ![s] = New("poll", d, k)]
                        /\ UNCHANGED waits
  \/ xhr' = x /\ UNCHANGED waits

\* PollProcess(k, d), called by a handler that leaves x of the requests: a
\* request, or a timer if any terminal polled in the last 2 seconds.
PollProcess(k, d, x) ==
  \/ \E s \in Free(x) : /\ xhr' = [x EXCEPT ![s] = New("poll", d, k)]
                        /\ UNCHANGED waits
  \/ /\ waits[d, k] < MaxWaits
     /\ waits' = [waits EXCEPT ![<<d, k>>] = @ + 1]
     /\ xhr' = x

\* A timer; as long as the last poll is too recent it is only set again.
Timer(d, k) ==
  /\ waits[d, k] > 0
  /\ waits' = [waits EXCEPT ![<<d, k>>] = @ - 1]
  /\ \E s \in Free(xhr) : xhr' = [xhr EXCEPT ![s] = New("poll", d, k)]
  /\ UNCHANGED <<state, pid, buffer, proc, keys, texts, history>>

\* An answer to CreateProcess, whatever the terminal is doing by now.
Created(s) ==
  LET d == xhr[s].d
      k == xhr[s].k
      x == [xhr EXCEPT ![s] = Idle]
  IN  /\ xhr[s].kind = "create" /\ xhr[s].at = "answered"
      /\ IF xhr[s].status # 200 THEN xhr' = x /\ UNCHANGED <<state, pid, waits, replaced>>
         ELSE /\ pid' = [pid EXCEPT ![d] = k]
              /\ state' = [state EXCEPT ![d] = "running"]
              /\ replaced' = replaced \cup ({pid[d]} \ {None})
              /\ PollProcess(k, d, x)
      /\ UNCHANGED <<buffer, proc, keys, texts, maker, failed>>

\* Mutant of Targets: whatever terminal has a Pid.
AnyTargets(digit) == {d \in Terminal : pid[d] # None}

\* querySelector("[pid='...']"); no two terminals ever have the same Pid.
Targets(digit) == {d \in Terminal : pid[d] = digit}

Bytes(s) == {<<xhr[s].k, xhr[s].bytes[i]>> : i \in DOMAIN xhr[s].bytes}

Show(s) == shown' = [d \in Terminal |-> IF d \in Targets(xhr[s].digit) THEN shown[d] \cup Bytes(s) ELSE shown[d]]

\* readyState 3 has its text shown, and polls again (line 228).
Loading(s) ==
  /\ xhr[s].kind = "poll" /\ xhr[s].at = "answered"
  /\ Show(s)
  /\ LET x == [xhr EXCEPT ![s].at = "loaded"]
     IN  IF Targets(xhr[s].digit) = {} THEN xhr' = x /\ UNCHANGED waits
         ELSE PollProcess(xhr[s].k, xhr[s].d, x)
  /\ UNCHANGED <<state, pid, buffer, proc, keys, received, history>>

\* readyState 4: the text once more; after 200 and 404 another poll.
Done(s) ==
  LET d == xhr[s].d
      x == [xhr EXCEPT ![s] = Idle]
  IN  /\ xhr[s].kind = "poll" /\ xhr[s].at = "loaded"
      /\ Show(s)
      /\ received' = received \cup Bytes(s)
      /\ \/ /\ Targets(xhr[s].digit) = {}
            /\ xhr' = x
            /\ UNCHANGED <<state, waits>>
         \/ /\ Targets(xhr[s].digit) # {} /\ xhr[s].status = 201
            /\ xhr' = x
            /\ state' = [state EXCEPT ![d] = "waiting"]
            /\ UNCHANGED waits
         \/ /\ Targets(xhr[s].digit) # {} /\ xhr[s].status # 201
            /\ PollProcess(xhr[s].k, d, x)
            /\ UNCHANGED state
      /\ UNCHANGED <<pid, buffer, proc, keys, history>>

\* Flush's answer: if there is anything in the buffer by now, it is posted to
\* the same process.
Flushed(s) ==
  LET d == xhr[s].d
  IN  /\ xhr[s].kind = "flush" /\ xhr[s].at = "answered"
      /\ IF xhr[s].status = 200 /\ buffer[d] # <<>>
         THEN /\ posts' = [posts EXCEPT ![Head(buffer[d])] = @ + 1]
              /\ buffer' = [buffer EXCEPT ![d] = Tail(@)]
              /\ xhr' = [xhr EXCEPT ![s] = New("flush", d, xhr[s].k)]
         ELSE xhr' = [xhr EXCEPT ![s] = Idle] /\ UNCHANGED <<posts, buffer>>
      /\ UNCHANGED <<state, pid, waits, proc, pressed, input, line, calm, texts, history>>

Next == \/ \E d \in Terminal : Keyboard(d) \/ \E k \in Pids : Timer(d, k)
        \/ \E k \in Pids : Run(k) \/ Reuse(k)
        \/ \E s \in Slot : \/ ServeCreate(s) \/ ServePoll(s) \/ ServeFlush(s) \/ Fail(s)
                           \/ Created(s) \/ Loading(s) \/ Done(s) \/ Flushed(s)

Spec == Init /\ [][Next]_vars
-----------------------------------------------------------------------------
TypeOK == /\ state \in [Terminal -> {"ready", "running", "waiting"}]
          /\ pid \in [Terminal -> Pid] /\ \A d \in Terminal : state[d] # "ready" => pid[d] # None
          /\ buffer \in [Terminal -> Seq(Key)]
          /\ waits \in [Terminal \X Pids -> 0..MaxWaits]
          /\ proc \in [Pids -> Process]
          /\ \A s \in Slot : xhr[s].kind # "idle" => xhr[s].at # "none" /\ xhr[s].d \in Terminal
          /\ \A s \in Slot : xhr[s].kind \in {"poll", "flush"} => xhr[s].k \in Pids
          /\ pressed \in 0..MaxKeys /\ posts \in [Key -> 0..2]

(***************************************************************************)
(* A terminal that is running goes on polling its process until it is told *)
(* of the end, if its Pid has one digit and no request failed: there is    *)
(* always a poll under way, or a timer for the next, whatever exceptions   *)
(* end which handlers (desktop.html:192-233).                              *)
(***************************************************************************)
PollsGoOn ==
  \A d \in Terminal :
    state[d] = "running" /\ pid[d] \in 1..9 /\ ~failed =>
      \/ waits[d, pid[d]] > 0
      \/ \E s \in Slot : xhr[s].kind = "poll" /\ xhr[s].k = pid[d] /\ xhr[s].d = d

(***************************************************************************)
(* The output that a process's polls read appears in the terminal that     *)
(* started it and in no other, and no terminal is shown another process's  *)
(* output before its own is destroyed, after which the record's descriptor *)
(* may yield anyone's; and what was received does appear, unless the       *)
(* terminal has another Pid by then.  All this for polls of a Pid of one   *)
(* digit (desktop.html:207-226, libemunet.c:366-398).                      *)
(***************************************************************************)
TextRight ==
  /\ \A d \in Terminal, k \in Pids, b \in Byte :
       (<<k, b>> \in shown[d] /\ k < 10) =>
          maker[k] = d /\ (b[1] = k \/ proc[k].state \in {"gone", "reused"})
  /\ \A k \in Pids, b \in Byte :
       (<<k, b>> \in received /\ k < 10) => <<k, b>> \in shown[maker[k]] \/ k \in replaced

(***************************************************************************)
(* A key pressed while a process runs is posted twice, or once as long as  *)
(* it waits in the buffer behind what was typed before; it is never posted *)
(* a third time, and not forgotten while the process runs                  *)
(* (desktop.html:165-168, 266-291).                                        *)
(***************************************************************************)
KeysTwice ==
  \A n \in input : posts[n] = IF \E d \in Terminal : \E i \in DOMAIN buffer[d] : buffer[d][i] = n
                               THEN 1 ELSE 2

(***************************************************************************)
(* The command is what was typed, unless a key of the process before had   *)
(* not been answered when the terminal became ready: Flush then takes the  *)
(* command's letters (desktop.html:151-164, 275-291).                      *)
(***************************************************************************)
CommandKept == \A d \in Terminal : state[d] = "ready" /\ d \in calm => buffer[d] = line[d]
=============================================================================
