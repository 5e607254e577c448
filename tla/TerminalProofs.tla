--------------------------- MODULE TerminalProofs ---------------------------
(***************************************************************************)
(* Theorems about Terminal, for any number of terminals, requests, Pids    *)
(* and keys.                                                               *)
(***************************************************************************)
EXTENDS Terminal, TLAPS, SequenceTheorems

Requests == [kind : {"idle", "create", "poll", "flush"}, d : Terminal \cup {None}, k : Pid,
             at : {"none", "sent", "answered", "loaded"}, status : Nat, digit : Nat \cup {None},
             bytes : Seq(Byte)]

\* An answer to CreateProcess with a Pid that the page has not taken yet.
Fresh(r) == r.kind = "create" /\ r.status = 200

RequestOK(r) == /\ r.kind # "idle" => r.at # "none" /\ r.d \in Terminal
                /\ r.kind \in {"poll", "flush"} \/ Fresh(r) => r.k \in Pids
                /\ r.at = "sent" => r.status = 0

XhrType  == xhr \in [Slot -> Requests] /\ \A s \in Slot : RequestOK(xhr[s])
PageType == /\ state \in [Terminal -> {"ready", "running", "waiting"}]
            /\ pid \in [Terminal -> Pid] /\ \A d \in Terminal : state[d] # "ready" => pid[d] # None
            /\ waits \in [Terminal \X Pids -> 0..MaxWaits]
KeyType  == /\ buffer \in [Terminal -> Seq(Key)] /\ line \in [Terminal -> Seq(Key)]
            /\ pressed \in 0..MaxKeys /\ posts \in [Key -> Nat] /\ input \subseteq Key
            /\ calm \subseteq Terminal
TextType == /\ proc \in [Pids -> Process] /\ maker \in [Pids -> Terminal \cup {None}]
            /\ shown \in [Terminal -> SUBSET (Pids \X Byte)] /\ received \subseteq Pids \X Byte

TypeInv == XhrType /\ PageType /\ KeyType /\ TextType

-----------------------------------------------------------------------------
Elems(b) == {b[i] : i \in DOMAIN b}

Inj(b) == \A i, j \in DOMAIN b : b[i] = b[j] => i = j

\* No key is twice in a buffer, or in two.
OnceOK == /\ \A d \in Terminal : Inj(buffer[d])
          /\ \A d, e \in Terminal : d # e => Elems(buffer[d]) \cap Elems(buffer[e]) = {}

\* Keys are numbered as they are pressed.
PastOK == \A n \in Key : n > pressed =>
  posts[n] = 0 /\ n \notin input /\ \A d \in Terminal : n \notin Elems(buffer[d])

\* What is in the buffer of a terminal that is ready is a command's.
ReadyOK == \A d \in Terminal : state[d] = "ready" => Elems(buffer[d]) \cap input = {}

PostsOK == \A n \in Key : /\ posts[n] <= 2
                          /\ posts[n] = 2 => \A d \in Terminal : n \notin Elems(buffer[d])
                          /\ n \in input => posts[n] = 2 \/ (posts[n] = 1 /\ \E d \in Terminal : n \in Elems(buffer[d]))

KeyInv == OnceOK /\ PastOK /\ ReadyOK /\ PostsOK

\* A terminal that is ready and calm has no post under way.
CalmOK == \A d \in Terminal : state[d] = "ready" /\ d \in calm =>
  \A s \in Slot : ~(xhr[s].kind = "flush" /\ xhr[s].d = d)

CommandInv == CalmOK /\ CommandKept

-----------------------------------------------------------------------------
\* Process k was made for terminal d, which has it or has had it.
Made(k, d)  == maker[k] = d /\ proc[k].state # "none"
Known(k, d) == Made(k, d) /\ pid[d] # None /\ (pid[d] = k \/ k \in replaced)

\* What the answer to a poll says is true of the process.
AnswerOK(r) ==
  \/ /\ r.status \in {200, 201} /\ r.digit = FirstDigit(r.k)
     /\ \A i \in DOMAIN r.bytes : r.bytes[i][1] = r.k \/ proc[r.k].state \in {"gone", "reused"}
  \/ r.status = 404 /\ r.digit = 4 /\ r.bytes = <<>> /\ proc[r.k].state \in {"gone", "reused"}

PollOK(r) == r.kind = "poll" => Known(r.k, r.d) /\ (r.at = "sent" \/ AnswerOK(r))

PidOK   == \A d \in Terminal : pid[d] # None => Made(pid[d], d)
PollsOK == \A s \in Slot : PollOK(xhr[s])
WaitsOK == \A d \in Terminal, k \in Pids : waits[d, k] > 0 => Known(k, d)

\* A Pid that is on its way to the page is on its way once, and the page does
\* not poll it yet.
FreshOK == \A s \in Slot : Fresh(xhr[s]) =>
  /\ Made(xhr[s].k, xhr[s].d) /\ proc[xhr[s].k].state \notin {"gone", "reused"}
  /\ \A u \in Slot : u # s /\ (Fresh(xhr[u]) \/ xhr[u].kind = "poll") => xhr[u].k # xhr[s].k
  /\ \A d \in Terminal : waits[d, xhr[s].k] = 0

OutOK  == \A k \in Pids : /\ \A i \in DOMAIN proc[k].out : proc[k].out[i][1] = k
                          /\ proc[k].state # "none" => maker[k] \in Terminal
SeenOK == \A k \in Pids, b \in Byte :
  <<k, b>> \in received \/ (\E d \in Terminal : <<k, b>> \in shown[d]) => proc[k].state # "none"

\* Who has been destroyed has told its terminal so, in an answer that is on its way.
Tells(r, d) == r.kind = "poll" /\ r.k = pid[d] /\ r.d = d /\ r.status = 201

GoneOK == \A d \in Terminal :
  state[d] = "running" /\ pid[d] \in 1..9 /\ ~failed /\ proc[pid[d]].state \in {"gone", "reused"} =>
    \E s \in Slot : Tells(xhr[s], d)

PollInv == PidOK /\ PollsOK /\ WaitsOK /\ FreshOK /\ OutOK /\ SeenOK /\ GoneOK /\ PollsGoOn /\ TextRight

-----------------------------------------------------------------------------
(***************************************************************************)
(* Types.                                                                  *)
(***************************************************************************)
LEMMA NewType == /\ Idle \in Requests /\ RequestOK(Idle) /\ Idle.kind = "idle"
                 /\ \A d \in Terminal, kind \in {"poll", "flush"}, k \in Pids :
                      /\ New(kind, d, k) \in Requests /\ RequestOK(New(kind, d, k))
                      /\ New(kind, d, k).kind = kind /\ New(kind, d, k).d = d /\ New(kind, d, k).k = k
                      /\ New(kind, d, k).at = "sent" /\ New(kind, d, k).status = 0
                 /\ \A d \in Terminal :
                      /\ New("create", d, None) \in Requests /\ RequestOK(New("create", d, None))
                      /\ New("create", d, None).kind = "create" /\ New("create", d, None).status = 0
<1>1. /\ Idle \in Requests /\ Idle.kind = "idle" /\ Idle.at = "none" /\ Idle.status = 0
  BY DEF Idle, Requests, Pid
<1>2. ASSUME NEW d \in Terminal, NEW kind \in {"poll", "flush", "create"}, NEW k \in Pid
      PROVE  /\ New(kind, d, k) \in Requests /\ New(kind, d, k).kind = kind /\ New(kind, d, k).d = d
             /\ New(kind, d, k).k = k /\ New(kind, d, k).at = "sent" /\ New(kind, d, k).status = 0
  BY <1>1 DEF New, Requests
<1> QED BY <1>1, <1>2 DEF RequestOK, Fresh, Pid

LEMMA PutRequest ==
  ASSUME NEW x \in [Slot -> Requests], \A u \in Slot : RequestOK(x[u]),
         NEW s \in Slot, NEW r \in Requests, RequestOK(r)
  PROVE  /\ [x EXCEPT ![s] = r] \in [Slot -> Requests]
         /\ \A u \in Slot : RequestOK([x EXCEPT ![s] = r][u])
  OBVIOUS

\* PollProcess sends a request or sets a timer, and does nothing to others.
Polled(x, d, k) ==
  /\ XhrType'
  /\ \A u \in Slot : xhr'[u] = x[u] \/ (x[u].kind = "idle" /\ xhr'[u] = New("poll", d, k))
  /\ waits' \in [Terminal \X Pids -> 0..MaxWaits]
  /\ \A e \in Terminal, j \in Pids : /\ waits'[e, j] = waits[e, j] \/ (e = d /\ j = k)
                                     /\ waits[e, j] > 0 => waits'[e, j] > 0
  /\ waits'[d, k] > 0 \/ \E u \in Slot : xhr'[u] = New("poll", d, k)

LEMMA PollEffect ==
  ASSUME NEW x \in [Slot -> Requests], \A u \in Slot : RequestOK(x[u]),
         waits \in [Terminal \X Pids -> 0..MaxWaits],
         NEW k \in Pids, NEW d \in Terminal, PollProcess(k, d, x)
  PROVE  Polled(x, d, k)
<1> DEFINE r == New("poll", d, k)
<1>1. r \in Requests /\ RequestOK(r)
  BY NewType
<1> HIDE DEF r
<1>2. CASE /\ \E s \in Free(x) : xhr' = [x EXCEPT ![s] = r]
           /\ UNCHANGED waits
  <2>1. PICK s \in Slot : x[s].kind = "idle" /\ xhr' = [x EXCEPT ![s] = r]
    BY <1>2 DEF Free
  <2>2. xhr' \in [Slot -> Requests] /\ \A u \in Slot : RequestOK(xhr'[u])
    BY <1>1, <2>1, PutRequest
  <2>3. xhr'[s] = r /\ \A u \in Slot : u # s => xhr'[u] = x[u]
    BY <2>1
  <2> QED BY <1>2, <2>1, <2>2, <2>3 DEF r, XhrType, Polled
<1>3. CASE /\ waits[d, k] < MaxWaits
           /\ waits' = [waits EXCEPT ![<<d, k>>] = @ + 1]
           /\ xhr' = x
  <2> DEFINE w == waits[d, k]
  <2>1. w \in 0..MaxWaits
    OBVIOUS
  <2>2. w < MaxWaits /\ waits' = [waits EXCEPT ![<<d, k>>] = w + 1]
    BY <1>3
  <2> HIDE DEF w
  <2>3. w + 1 \in 0..MaxWaits /\ w + 1 > 0
    BY <2>1, <2>2, TerminalAssumption
  <2>4. waits'[d, k] = w + 1
    BY <2>2
  <2>5. \A e \in Terminal, j \in Pids : ~(e = d /\ j = k) => waits'[e, j] = waits[e, j]
    BY <2>2
  <2>6. waits' \in [Terminal \X Pids -> 0..MaxWaits]
    BY <2>2, <2>3
  <2> QED BY <1>3, <2>3, <2>4, <2>5, <2>6 DEF XhrType, Polled
<1> QED BY <1>2, <1>3 DEF PollProcess, r

-----------------------------------------------------------------------------
(***************************************************************************)
(* Sequences of keys.                                                      *)
(***************************************************************************)
LEMMA AppendElems ==
  ASSUME NEW b \in Seq(Key), NEW n \in Key
  PROVE  /\ Append(b, n) \in Seq(Key) /\ Append(b, n) # <<>> /\ Elems(Append(b, n)) = Elems(b) \cup {n}
         /\ Inj(b) /\ n \notin Elems(b) => Inj(Append(b, n))
<1> DEFINE r == Append(b, n)
<1>1. /\ r \in Seq(Key) /\ Len(r) = Len(b) + 1 /\ Len(b) \in Nat /\ r[Len(b) + 1] = n
      /\ \A i \in 1..Len(b) : r[i] = b[i]
  OBVIOUS
<1> HIDE DEF r
<1>2. DOMAIN r = 1..Len(r) /\ DOMAIN b = 1..Len(b)
  BY <1>1
<1>3. Elems(r) = Elems(b) \cup {n}
  BY <1>1, <1>2 DEF Elems
<1>4. ASSUME Inj(b), n \notin Elems(b) PROVE Inj(r)
  BY <1>1, <1>2, <1>4 DEF Elems, Inj
<1>5. r # <<>>
  BY <1>1
<1> QED BY <1>1, <1>3, <1>4, <1>5 DEF r

LEMMA TailElems ==
  ASSUME NEW b \in Seq(Key), b # <<>>, Inj(b)
  PROVE  /\ Tail(b) \in Seq(Key) /\ Inj(Tail(b)) /\ Head(b) \in Key /\ Head(b) \in Elems(b)
         /\ Elems(Tail(b)) = Elems(b) \ {Head(b)}
<1> DEFINE r == Tail(b)
<1>1. /\ r \in Seq(Key) /\ Len(b) \in Nat \ {0} /\ Len(r) = Len(b) - 1
      /\ \A i \in 1..Len(r) : r[i] = b[i + 1]
  OBVIOUS
<1>2. Head(b) = b[1] /\ b[1] \in Key
  BY <1>1
<1> HIDE DEF r
<1>3. DOMAIN r = 1..Len(r) /\ DOMAIN b = 1..Len(b)
  BY <1>1
<1>4. Inj(r)
  <2> SUFFICES ASSUME NEW i \in 1..Len(r), NEW j \in 1..Len(r), r[i] = r[j] PROVE i = j
    BY <1>3 DEF Inj
  <2>1. i + 1 \in DOMAIN b /\ j + 1 \in DOMAIN b /\ b[i + 1] = b[j + 1]
    BY <1>1, <1>3
  <2> QED BY <2>1 DEF Inj
<1>5. Elems(r) = Elems(b) \ {b[1]}
  <2>1. ASSUME NEW n \in Elems(r) PROVE n \in Elems(b) \ {b[1]}
    <3>1. PICK i \in 1..Len(r) : n = b[i + 1]
      BY <1>1, <1>3 DEF Elems
    <3>2. i + 1 \in DOMAIN b /\ i + 1 # 1 /\ 1 \in DOMAIN b
      BY <1>1, <1>3
    <3> QED BY <3>1, <3>2 DEF Elems, Inj
  <2>2. ASSUME NEW n \in Elems(b), n # b[1] PROVE n \in Elems(r)
    <3>1. PICK i \in 1..Len(b) : n = b[i]
      BY <1>3 DEF Elems
    <3>2. i - 1 \in 1..Len(r) /\ (i - 1) + 1 = i
      BY <1>1, <2>2, <3>1
    <3>3. r[i - 1] = b[i]
      BY <1>1, <3>2
    <3> QED BY <1>3, <3>1, <3>2, <3>3 DEF Elems
  <2> QED BY <2>1, <2>2
<1>6. b[1] \in Elems(b)
  BY <1>1, <1>3 DEF Elems
<1> QED BY <1>1, <1>2, <1>4, <1>5, <1>6 DEF r

LEMMA ShorterElems ==
  ASSUME NEW b \in Seq(Key), Inj(b)
  PROVE  Shorter(b) \in Seq(Key) /\ Inj(Shorter(b)) /\ Elems(Shorter(b)) \subseteq Elems(b)
<1>1. CASE b = <<>>
  BY <1>1 DEF Shorter
<1>2. CASE b # <<>>
  <2> DEFINE r == SubSeq(b, 1, Len(b) - 1)
  <2>1. Len(b) \in Nat \ {0}
    BY <1>2
  <2>2. /\ r \in Seq(Key) /\ Len(r) = Len(b) - 1
        /\ \A i \in 1..Len(r) : r[i] = b[i]
    <3> DEFINE n == Len(b) - 1
    <3>1. n \in Nat /\ \A i \in 1..n : b[i] \in Key
      BY <2>1
    <3> HIDE DEF n
    <3>2. /\ SubSeq(b, 1, n) \in Seq(Key) /\ Len(SubSeq(b, 1, n)) = IF 1 <= n THEN n - 1 + 1 ELSE 0
          /\ \A i \in 1..(n - 1 + 1) : SubSeq(b, 1, n)[i] = b[1 + i - 1]
      BY <3>1, SubSeqProperties
    <3>3. n - 1 + 1 = n /\ Len(SubSeq(b, 1, n)) = n /\ \A i \in 1..n : 1 + i - 1 = i
      BY <3>1, <3>2
    <3> QED BY <3>2, <3>3 DEF n
  <2> HIDE DEF r
  <2>3. DOMAIN r = 1..Len(r) /\ DOMAIN b = 1..Len(b)
    BY <2>2
  <2>4. Inj(r) /\ Elems(r) \subseteq Elems(b)
    BY <2>1, <2>2, <2>3 DEF Inj, Elems
  <2> QED BY <1>2, <2>2, <2>4 DEF Shorter, r
<1> QED BY <1>1, <1>2

-----------------------------------------------------------------------------
(***************************************************************************)
(* The keys.                                                               *)
(***************************************************************************)
\* The buffer of one terminal is replaced.
LEMMA BufferSet ==
  ASSUME TypeInv, OnceOK, NEW d \in Terminal, NEW new \in Seq(Key), Inj(new),
         buffer' = [buffer EXCEPT ![d] = new],
         \A e \in Terminal : e # d => Elems(new) \cap Elems(buffer[e]) = {}
  PROVE  /\ buffer' \in [Terminal -> Seq(Key)] /\ OnceOK'
         /\ buffer'[d] = new /\ \A e \in Terminal : e # d => buffer'[e] = buffer[e]
<1>1. buffer \in [Terminal -> Seq(Key)]
  BY DEF TypeInv, PageType, KeyType
<1>2. /\ buffer' \in [Terminal -> Seq(Key)]
      /\ buffer'[d] = new /\ \A e \in Terminal : e # d => buffer'[e] = buffer[e]
  BY <1>1
<1> QED BY <1>2 DEF OnceOK

LEMMA NewKey ==
  ASSUME TypeInv, KeyInv, NEW d \in Terminal, Press(d)
  PROVE  /\ pressed' \in Key /\ pressed' \in 0..MaxKeys /\ posts[pressed'] = 0 /\ pressed' \notin input
         /\ \A e \in Terminal : pressed' \notin Elems(buffer[e])
         /\ \A n \in Key : n > pressed' => n > pressed /\ n # pressed'
<1>1. pressed \in 0..MaxKeys /\ pressed < MaxKeys /\ pressed' = pressed + 1
  BY DEF Press, TypeInv, PageType, KeyType
<1>2. pressed' \in Key /\ pressed' > pressed /\ pressed' \in 0..MaxKeys
  BY <1>1, TerminalAssumption DEF Key
<1>3. \A n \in Key : n > pressed' => n > pressed /\ n # pressed'
  BY <1>1, <1>2 DEF Key
<1> QED BY <1>2, <1>3 DEF KeyInv, PastOK

\* A buffer becomes shorter: what it loses was a command's.
LEMMA DropKeys ==
  ASSUME TypeInv, KeyInv, NEW d \in Terminal, state[d] = "ready", NEW new \in Seq(Key), Inj(new),
         Elems(new) \subseteq Elems(buffer[d]), buffer' = [buffer EXCEPT ![d] = new],
         UNCHANGED <<state, pressed, input, posts>>
  PROVE  KeyInv'
<1>1. /\ OnceOK' /\ buffer'[d] = new /\ \A e \in Terminal : e # d => buffer'[e] = buffer[e]
  <2>1. OnceOK
    BY DEF KeyInv
  <2>2. \A e \in Terminal : e # d => Elems(new) \cap Elems(buffer[e]) = {}
    BY <2>1 DEF OnceOK
  <2> QED BY <2>1, <2>2, BufferSet
<1>2. \A e \in Terminal : Elems(buffer'[e]) \subseteq Elems(buffer[e])
  BY <1>1
<1>3. PastOK' /\ ReadyOK'
  BY <1>2 DEF KeyInv, PastOK, ReadyOK
<1>4. PostsOK'
  <2> SUFFICES ASSUME NEW n \in Key
               PROVE  /\ posts[n] <= 2
                      /\ posts[n] = 2 => \A e \in Terminal : n \notin Elems(buffer'[e])
                      /\ n \in input => posts[n] = 2 \/ (posts[n] = 1 /\ \E e \in Terminal : n \in Elems(buffer'[e]))
    BY DEF PostsOK
  <2>1. \A e \in Terminal : n \in input /\ n \in Elems(buffer[e]) => n \in Elems(buffer'[e])
    BY <1>1 DEF KeyInv, ReadyOK
  <2> QED BY <1>2, <2>1 DEF KeyInv, PostsOK
<1> QED BY <1>1, <1>3, <1>4 DEF KeyInv

LEMMA TypeKeys == ASSUME TypeInv, KeyInv, NEW d \in Terminal, Type(d) PROVE KeyInv'
<1> DEFINE n == pressed'
           new == Append(buffer[d], n)
<1>1. /\ n \in Key /\ posts[n] = 0 /\ n \notin input /\ \A e \in Terminal : n \notin Elems(buffer[e])
      /\ \A m \in Key : m > pressed' => m > pressed /\ m # n
  BY NewKey DEF Type
<1>2. buffer[d] \in Seq(Key) /\ Inj(buffer[d])
  BY DEF TypeInv, PageType, KeyType, KeyInv, OnceOK
<1>3. new \in Seq(Key) /\ Inj(new) /\ Elems(new) = Elems(buffer[d]) \cup {n}
  BY <1>1, <1>2, AppendElems
<1>4. buffer' = [buffer EXCEPT ![d] = new] /\ UNCHANGED <<state, posts, input>>
  BY DEF Type
<1> HIDE DEF new
<1>5. OnceOK' /\ buffer'[d] = new /\ \A e \in Terminal : e # d => buffer'[e] = buffer[e]
  <2>1. OnceOK
    BY DEF KeyInv
  <2>2. \A e \in Terminal : e # d => Elems(new) \cap Elems(buffer[e]) = {}
    BY <1>1, <1>3, <2>1 DEF OnceOK
  <2> QED BY <1>3, <1>4, <2>1, <2>2, BufferSet
<1>6. \A e \in Terminal : /\ Elems(buffer[e]) \subseteq Elems(buffer'[e])
                          /\ Elems(buffer'[e]) \subseteq Elems(buffer[e]) \cup {n}
  BY <1>3, <1>5
<1> HIDE DEF n
<1>7. PastOK'
  BY <1>1, <1>4, <1>6 DEF KeyInv, PastOK
<1>8. ReadyOK'
  BY <1>1, <1>4, <1>6 DEF KeyInv, ReadyOK
<1>9. PostsOK'
  BY <1>1, <1>4, <1>6 DEF KeyInv, PostsOK
<1> QED BY <1>5, <1>7, <1>8, <1>9 DEF KeyInv

LEMMA SendKeys == ASSUME TypeInv, KeyInv, NEW d \in Terminal, SendInput(d) PROVE KeyInv'
<1> DEFINE n == pressed'
           queue == Append(buffer[d], n)
           h == Head(queue)
           new == Tail(queue)
<1>1. /\ n \in Key /\ posts[n] = 0 /\ n \notin input /\ \A e \in Terminal : n \notin Elems(buffer[e])
      /\ \A m \in Key : m > pressed' => m > pressed /\ m # n
  BY NewKey DEF SendInput
<1>2. buffer[d] \in Seq(Key) /\ Inj(buffer[d])
  BY DEF TypeInv, PageType, KeyType, KeyInv, OnceOK
<1>3. queue \in Seq(Key) /\ queue # <<>> /\ Inj(queue) /\ Elems(queue) = Elems(buffer[d]) \cup {n}
  BY <1>1, <1>2, AppendElems
<1>4. new \in Seq(Key) /\ Inj(new) /\ h \in Key /\ h \in Elems(queue) /\ Elems(new) = Elems(queue) \ {h}
  <2> HIDE DEF queue
  <2> QED BY <1>3, TailElems
<1>5. /\ buffer' = [buffer EXCEPT ![d] = new] /\ input' = input \cup {n} /\ state[d] = "running"
      /\ posts' = [m \in Key |-> posts[m] + (IF m = n THEN 1 ELSE 0) + (IF m = h THEN 1 ELSE 0)]
      /\ state' = state
  BY DEF SendInput
<1>6. posts \in [Key -> Nat]
  BY DEF TypeInv, PageType, KeyType
<1> HIDE DEF h, new, queue
<1>7. OnceOK' /\ buffer'[d] = new /\ \A e \in Terminal : e # d => buffer'[e] = buffer[e]
  <2>1. OnceOK
    BY DEF KeyInv
  <2>2. \A e \in Terminal : e # d => Elems(new) \cap Elems(buffer[e]) = {}
    BY <1>1, <1>3, <1>4, <2>1 DEF OnceOK
  <2> QED BY <1>4, <1>5, <2>1, <2>2, BufferSet
<1>8. \A e \in Terminal : e # d => h \notin Elems(buffer[e])
  BY <1>1, <1>3, <1>4 DEF KeyInv, OnceOK
<1> HIDE DEF n
<1>9. /\ \A m \in Key : m # n /\ m # h => posts'[m] = posts[m]
      /\ n # h => posts'[n] = 1 /\ posts'[h] = posts[h] + 1
      /\ n = h => posts'[n] = 2
  BY <1>1, <1>4, <1>5, <1>6
<1>10. PastOK'
  <2> SUFFICES ASSUME NEW m \in Key, m > pressed'
               PROVE  posts'[m] = 0 /\ m \notin input' /\ \A e \in Terminal : m \notin Elems(buffer'[e])
    BY DEF PastOK
  <2>1. /\ m # n /\ posts[m] = 0 /\ m \notin input /\ \A e \in Terminal : m \notin Elems(buffer[e])
    BY <1>1 DEF KeyInv, PastOK
  <2>2. m # h
    BY <1>3, <1>4, <2>1
  <2> QED BY <1>3, <1>4, <1>5, <1>7, <1>9, <2>1, <2>2
<1>11. ReadyOK'
  BY <1>1, <1>5, <1>7 DEF KeyInv, ReadyOK
<1>12. PostsOK'
  <2> SUFFICES ASSUME NEW m \in Key
               PROVE  /\ posts'[m] <= 2
                      /\ posts'[m] = 2 => \A e \in Terminal : m \notin Elems(buffer'[e])
                      /\ m \in input' => posts'[m] = 2 \/ (posts'[m] = 1 /\ \E e \in Terminal : m \in Elems(buffer'[e]))
    BY DEF PostsOK
  <2>1. /\ posts[m] <= 2 /\ posts[m] \in Nat
        /\ posts[m] = 2 => \A e \in Terminal : m \notin Elems(buffer[e])
        /\ m \in input => posts[m] = 2 \/ (posts[m] = 1 /\ \E e \in Terminal : m \in Elems(buffer[e]))
    BY <1>6 DEF KeyInv, PostsOK
  <2>2. CASE m = h /\ m = n
    BY <1>1, <1>4, <1>7, <1>9, <2>2
  <2>3. CASE m = h /\ m # n
    <3>1. m \in Elems(buffer[d])
      BY <1>3, <1>4, <2>3
    <3>2. posts[m] # 2 /\ posts'[m] = posts[m] + 1
      BY <1>9, <2>1, <2>3, <3>1
    <3>3. \A e \in Terminal : m \notin Elems(buffer'[e])
      BY <1>4, <1>7, <1>8, <2>3
    <3>4. m \in input' => posts[m] = 1
      BY <1>5, <2>1, <2>3, <3>2
    <3> QED BY <2>1, <3>2, <3>3, <3>4
  <2>4. CASE m # h /\ m = n
    <3>1. posts'[m] = 1 /\ m \in Elems(new)
      BY <1>3, <1>4, <1>9, <2>4
    <3> QED BY <1>7, <3>1
  <2>5. CASE m # h /\ m # n
    <3>1. posts'[m] = posts[m] /\ (m \in input' <=> m \in input)
      BY <1>5, <1>9, <2>5
    <3>2. \A e \in Terminal : m \in Elems(buffer'[e]) <=> m \in Elems(buffer[e])
      BY <1>3, <1>4, <1>7, <2>5
    <3> QED BY <2>1, <3>1, <3>2
  <2> QED BY <2>2, <2>3, <2>4, <2>5
<1> QED BY <1>7, <1>10, <1>11, <1>12 DEF KeyInv

LEMMA ContinueKeys == ASSUME TypeInv, KeyInv, NEW d \in Terminal, Continue(d) PROVE KeyInv'
<1>1. /\ state' = [state EXCEPT ![d] = "ready"] /\ input' = input \ Elems(buffer[d])
      /\ UNCHANGED <<buffer, pressed, posts>>
  BY DEF Continue, Elems
<1>2. OnceOK' /\ PastOK' /\ PostsOK'
  BY <1>1 DEF KeyInv, OnceOK, PastOK, PostsOK
<1>3. ReadyOK'
  BY <1>1 DEF KeyInv, ReadyOK, TypeInv, PageType, KeyType
<1> QED BY <1>2, <1>3 DEF KeyInv

LEMMA FlushedKeys == ASSUME TypeInv, KeyInv, NEW s \in Slot, Flushed(s) PROVE KeyInv'
<1> DEFINE d == xhr[s].d
           h == Head(buffer[d])
           new == Tail(buffer[d])
<1>1. d \in Terminal /\ UNCHANGED <<state, pressed, input>>
  BY DEF TypeInv, XhrType, PageType, KeyType, RequestOK, Flushed
<1>2. CASE UNCHANGED <<posts, buffer>>
  BY <1>1, <1>2 DEF KeyInv, OnceOK, PastOK, ReadyOK, PostsOK
<1>3. CASE /\ buffer[d] # <<>> /\ posts' = [posts EXCEPT ![h] = @ + 1]
           /\ buffer' = [buffer EXCEPT ![d] = new]
  <2>1. buffer[d] \in Seq(Key) /\ Inj(buffer[d]) /\ posts \in [Key -> Nat]
    BY <1>1 DEF TypeInv, PageType, KeyType, KeyInv, OnceOK
  <2>2. new \in Seq(Key) /\ Inj(new) /\ h \in Key /\ h \in Elems(buffer[d]) /\ Elems(new) = Elems(buffer[d]) \ {h}
    BY <1>3, <2>1, TailElems
  <2>3. posts'[h] = posts[h] + 1 /\ \A m \in Key : m # h => posts'[m] = posts[m]
    <3> HIDE DEF h
    <3> QED BY <1>3, <2>1, <2>2
  <2> HIDE DEF d, h, new
  <2>4. OnceOK' /\ buffer'[d] = new /\ \A e \in Terminal : e # d => buffer'[e] = buffer[e]
    <3>1. OnceOK
      BY DEF KeyInv
    <3>2. \A e \in Terminal : e # d => Elems(new) \cap Elems(buffer[e]) = {}
      BY <1>1, <2>2, <3>1 DEF OnceOK
    <3> QED BY <1>1, <1>3, <2>2, <3>1, <3>2, BufferSet
  <2>5. \A e \in Terminal : /\ h \notin Elems(buffer'[e])
                            /\ \A m : m # h => (m \in Elems(buffer'[e]) <=> m \in Elems(buffer[e]))
    BY <1>1, <2>2, <2>4 DEF KeyInv, OnceOK
  <2>6. PastOK'
    BY ZenonT(40), <1>1, <2>2, <2>3, <2>5 DEF KeyInv, PastOK
  <2>7. ReadyOK'
    BY <1>1, <2>5 DEF KeyInv, ReadyOK
  <2>8. PostsOK'
    <3> SUFFICES ASSUME NEW m \in Key
                 PROVE  /\ posts'[m] <= 2
                        /\ posts'[m] = 2 => \A e \in Terminal : m \notin Elems(buffer'[e])
                        /\ m \in input => posts'[m] = 2 \/ (posts'[m] = 1 /\ \E e \in Terminal : m \in Elems(buffer'[e]))
      BY <1>1 DEF PostsOK
    <3>1. /\ posts[m] <= 2 /\ posts[m] \in Nat
          /\ posts[m] = 2 => \A e \in Terminal : m \notin Elems(buffer[e])
          /\ m \in input => posts[m] = 2 \/ (posts[m] = 1 /\ \E e \in Terminal : m \in Elems(buffer[e]))
      BY <2>1 DEF KeyInv, PostsOK
    <3>2. CASE m = h
      BY <1>1, <2>2, <2>3, <2>5, <3>1, <3>2
    <3>3. CASE m # h
      BY <2>3, <2>5, <3>1, <3>3
    <3> QED BY <3>2, <3>3
  <2> QED BY <2>4, <2>6, <2>7, <2>8 DEF KeyInv
<1> QED BY <1>2, <1>3 DEF Flushed

\* The other steps do nothing to keys, and make no terminal ready.
LEMMA KeyFrame ==
  ASSUME KeyInv, UNCHANGED <<buffer, posts, input, pressed>>,
         \A d \in Terminal : state'[d] = "ready" => state[d] = "ready"
  PROVE  KeyInv'
  BY DEF KeyInv, OnceOK, PastOK, ReadyOK, PostsOK

LEMMA KeysTwiceHolds == ASSUME TypeInv, KeyInv PROVE KeysTwice
  BY DEF TypeInv, PageType, KeyType, KeyInv, PostsOK, KeysTwice, Elems

-----------------------------------------------------------------------------
(***************************************************************************)
(* Types, for each action.                                                 *)
(***************************************************************************)
LEMMA NewRequest ==
  ASSUME XhrType, NEW r \in Requests, RequestOK(r),
         \E s \in Free(xhr) : xhr' = [xhr EXCEPT ![s] = r]
  PROVE  /\ XhrType'
         /\ \A u \in Slot : xhr'[u] = xhr[u] \/ (xhr[u].kind = "idle" /\ xhr'[u] = r)
         /\ \E u \in Slot : xhr'[u] = r
<1>1. PICK s \in Slot : xhr[s].kind = "idle" /\ xhr' = [xhr EXCEPT ![s] = r]
  BY DEF Free
<1>2. XhrType'
  BY <1>1, PutRequest DEF XhrType
<1> QED BY <1>1, <1>2 DEF XhrType

\* One request changes, or ends.
LEMMA SetRequest ==
  ASSUME XhrType, NEW s \in Slot, NEW r \in Requests, RequestOK(r), xhr' = [xhr EXCEPT ![s] = r]
  PROVE  XhrType' /\ xhr'[s] = r /\ \A u \in Slot : u # s => xhr'[u] = xhr[u]
  BY PutRequest DEF XhrType

LEMMA AnswerEffect ==
  ASSUME XhrType, NEW s \in Slot, NEW status \in {200, 201, 404}, NEW digit \in Nat, NEW bytes \in Seq(Byte),
         xhr[s].kind # "idle", xhr[s].kind = "create" => status # 200, Answer(s, status, digit, bytes)
  PROVE  /\ XhrType' /\ \A u \in Slot : u # s => xhr'[u] = xhr[u]
         /\ xhr'[s].kind = xhr[s].kind /\ xhr'[s].d = xhr[s].d /\ xhr'[s].k = xhr[s].k
         /\ xhr'[s].at = "answered" /\ xhr'[s].status = status /\ xhr'[s].digit = digit
         /\ xhr'[s].bytes = bytes
<1> DEFINE r == [xhr[s] EXCEPT !.at = "answered", !.status = status, !.digit = digit, !.bytes = bytes]
<1>1. xhr[s] \in Requests /\ RequestOK(xhr[s]) /\ xhr \in [Slot -> Requests]
  BY DEF XhrType
<1>2. /\ r \in Requests /\ r.kind = xhr[s].kind /\ r.d = xhr[s].d /\ r.k = xhr[s].k
      /\ r.at = "answered" /\ r.status = status /\ r.digit = digit /\ r.bytes = bytes
  <2>1. status \in Nat /\ digit \in Nat \cup {None}
    OBVIOUS
  <2> QED BY ZenonT(40), <1>1, <2>1 DEF Requests
<1>3. RequestOK(r)
  BY <1>1, <1>2 DEF RequestOK, Fresh
<1>4. xhr' = [xhr EXCEPT ![s] = r]
  BY <1>1 DEF Answer
<1> HIDE DEF r
<1>5. r \in Requests
  BY <1>2
<1>6. XhrType' /\ xhr'[s] = r /\ \A u \in Slot : u # s => xhr'[u] = xhr[u]
  BY <1>1, <1>3, <1>4, <1>5 DEF XhrType
<1> QED BY <1>2, <1>6

LEMMA Refused ==
  ASSUME XhrType, NEW s \in Slot, xhr[s].kind # "idle", Refuse(s)
  PROVE  /\ XhrType' /\ \A u \in Slot : u # s => xhr'[u] = xhr[u]
         /\ xhr'[s].kind = xhr[s].kind /\ xhr'[s].d = xhr[s].d /\ xhr'[s].k = xhr[s].k
         /\ xhr'[s].at = "answered" /\ xhr'[s].status = 404 /\ xhr'[s].digit = 4
         /\ xhr'[s].bytes = <<>>
<1> DEFINE nothing == <<>>
           status  == 404
           digit   == 4
<1>1. nothing \in Seq(Byte) /\ status \in {200, 201, 404} /\ status # 200 /\ digit \in Nat
  OBVIOUS
<1>2. Answer(s, status, digit, nothing)
  BY DEF Refuse
<1> HIDE DEF nothing, status, digit
<1>3. /\ XhrType' /\ \A u \in Slot : u # s => xhr'[u] = xhr[u]
      /\ xhr'[s].kind = xhr[s].kind /\ xhr'[s].d = xhr[s].d /\ xhr'[s].k = xhr[s].k
      /\ xhr'[s].at = "answered" /\ xhr'[s].status = status /\ xhr'[s].digit = digit
      /\ xhr'[s].bytes = nothing
  BY <1>1, <1>2, AnswerEffect
<1> QED BY <1>3 DEF nothing, status, digit

LEMMA ShorterType == ASSUME NEW b \in Seq(Key) PROVE Shorter(b) \in Seq(Key)
<1>1. CASE b # <<>>
  <2> DEFINE n == Len(b) - 1
  <2>1. Len(b) \in Nat \ {0} /\ \A i \in 1..Len(b) : b[i] \in Key
    BY <1>1
  <2>2. n \in Nat /\ \A i \in 1..n : b[i] \in Key
    BY <2>1
  <2> HIDE DEF n
  <2>3. SubSeq(b, 1, n) \in Seq(Key)
    BY <2>2, SubSeqProperties
  <2> QED BY <1>1, <2>3 DEF Shorter, n
<1> QED BY <1>1 DEF Shorter

\* The answer to CreateProcess that has a Pid.
Given(s, k) == xhr' = [xhr EXCEPT ![s] = [@ EXCEPT !.at = "answered", !.status = 200, !.k = k]]

LEMMA CreatedEffect ==
  ASSUME XhrType, NEW s \in Slot, xhr[s].kind = "create", NEW k \in Pids,
         Given(s, k)
  PROVE  /\ XhrType' /\ Fresh(xhr'[s]) /\ xhr'[s].k = k /\ xhr'[s].d = xhr[s].d /\ xhr'[s].at = "answered"
         /\ \A u \in Slot : u # s => xhr'[u] = xhr[u]
<1> DEFINE r == [xhr[s] EXCEPT !.at = "answered", !.status = 200, !.k = k]
<1>1. xhr[s] \in Requests /\ RequestOK(xhr[s]) /\ xhr \in [Slot -> Requests]
  BY DEF XhrType
<1>2. /\ r \in Requests /\ r.kind = "create" /\ r.d = xhr[s].d /\ r.k = k /\ r.at = "answered" /\ r.status = 200
  BY ZenonT(90), <1>1 DEF Requests, Pid
<1>3. RequestOK(r) /\ Fresh(r)
  BY <1>1, <1>2 DEF RequestOK, Fresh
<1>4. xhr' = [xhr EXCEPT ![s] = r]
  BY <1>1 DEF Given
<1> HIDE DEF r
<1>5. XhrType' /\ xhr'[s] = r /\ \A u \in Slot : u # s => xhr'[u] = xhr[u]
  BY <1>2, <1>3, <1>4, SetRequest
<1> QED BY <1>2, <1>5 DEF Fresh

LEMMA TimerEffect ==
  ASSUME waits \in [Terminal \X Pids -> 0..MaxWaits], NEW d \in Terminal, NEW k \in Pids, Timer(d, k)
  PROVE  /\ waits' \in [Terminal \X Pids -> 0..MaxWaits] /\ waits[d, k] > 0
         /\ \A e \in Terminal, j \in Pids : /\ waits'[e, j] = waits[e, j] \/ (e = d /\ j = k)
                                            /\ waits'[e, j] > 0 => waits[e, j] > 0
<1> DEFINE w == waits[d, k]
<1>1. w \in 0..MaxWaits
  OBVIOUS
<1>2. w > 0 /\ waits' = [waits EXCEPT ![<<d, k>>] = w - 1]
  BY DEF Timer
<1>3. w > 0 => waits[d, k] > 0
  OBVIOUS
<1> HIDE DEF w
<1>4. w - 1 \in 0..MaxWaits
  BY <1>1, <1>2, TerminalAssumption
<1>5. waits' \in [Terminal \X Pids -> 0..MaxWaits]
  BY <1>2, <1>4
<1>6. \A e \in Terminal, j \in Pids : ~(e = d /\ j = k) => waits'[e, j] = waits[e, j]
  BY <1>2
<1> QED BY <1>2, <1>3, <1>5, <1>6

LEMMA TypeType == ASSUME TypeInv, KeyInv, NEW d \in Terminal, Type(d) PROVE TypeInv'
<1>1. pressed' \in Key /\ pressed' \in 0..MaxKeys
  BY NewKey DEF Type
<1>2. /\ buffer' = [buffer EXCEPT ![d] = Append(buffer[d], pressed')]
      /\ line' = [line EXCEPT ![d] = Append(line[d], pressed')]
      /\ UNCHANGED <<state, pid, waits, xhr, proc, input, posts, calm, shown, received, maker>>
  BY DEF Type, texts, history
<1>3. Append(buffer[d], pressed') \in Seq(Key) /\ Append(line[d], pressed') \in Seq(Key)
  BY <1>1 DEF TypeInv, KeyType
<1>4. KeyType'
  BY <1>1, <1>2, <1>3 DEF TypeInv, KeyType
<1> QED BY <1>2, <1>4 DEF TypeInv, XhrType, PageType, TextType

LEMMA BackspaceType == ASSUME TypeInv, KeyInv, NEW d \in Terminal, Backspace(d) PROVE TypeInv'
<1>1. /\ buffer' = [buffer EXCEPT ![d] = Shorter(buffer[d])]
      /\ line' = [line EXCEPT ![d] = Shorter(line[d])]
      /\ UNCHANGED <<state, pid, waits, xhr, proc, pressed, input, posts, calm, shown, received, maker>>
  BY DEF Backspace, texts, history
<1>2. Shorter(buffer[d]) \in Seq(Key) /\ Shorter(line[d]) \in Seq(Key)
  BY ShorterType DEF TypeInv, KeyType
<1>3. KeyType'
  BY <1>1, <1>2 DEF TypeInv, KeyType
<1> QED BY <1>1, <1>3 DEF TypeInv, XhrType, PageType, TextType

LEMMA EnterType == ASSUME TypeInv, NEW d \in Terminal, Enter(d) PROVE TypeInv'
<1>1. XhrType'
  BY NewType, NewRequest DEF Enter, TypeInv
<1>2. KeyType'
  BY DEF Enter, TypeInv, KeyType
<1> QED BY <1>1, <1>2 DEF Enter, texts, history, TypeInv, PageType, TextType

LEMMA SendInputType == ASSUME TypeInv, KeyInv, NEW d \in Terminal, SendInput(d) PROVE TypeInv'
<1>1. pressed' \in Key /\ pressed' \in 0..MaxKeys
  BY NewKey DEF SendInput
<1>2. XhrType'
  <2>1. pid[d] \in Pids
    BY DEF SendInput, TypeInv, PageType, Pid
  <2> DEFINE r == New("flush", d, pid[d])
  <2>2. r \in Requests /\ RequestOK(r)
    BY <2>1, NewType
  <2>3. XhrType /\ \E s \in Free(xhr) : xhr' = [xhr EXCEPT ![s] = r]
    BY DEF SendInput, TypeInv
  <2> HIDE DEF r
  <2> QED BY <2>2, <2>3, NewRequest
<1>3. KeyType'
  <2> DEFINE queue == Append(buffer[d], pressed')
             h == Head(queue)
  <2>1. buffer[d] \in Seq(Key) /\ Inj(buffer[d]) /\ pressed' \notin Elems(buffer[d])
    BY NewKey DEF TypeInv, KeyType, KeyInv, OnceOK, SendInput
  <2>2. queue \in Seq(Key) /\ queue # <<>> /\ Inj(queue)
    BY <1>1, <2>1, AppendElems
  <2>3. Tail(queue) \in Seq(Key)
    <3> HIDE DEF queue
    <3> QED BY <2>2, TailElems
  <2>4. /\ buffer' = [buffer EXCEPT ![d] = Tail(queue)]
        /\ posts' = [m \in Key |-> posts[m] + (IF m = pressed' THEN 1 ELSE 0) + (IF m = h THEN 1 ELSE 0)]
        /\ input' = input \cup {pressed'} /\ UNCHANGED <<line, calm>>
    BY DEF SendInput
  <2> HIDE DEF h, queue
  <2>5. posts' \in [Key -> Nat]
    BY <2>4 DEF TypeInv, KeyType
  <2> QED BY <1>1, <2>3, <2>4, <2>5 DEF TypeInv, KeyType
<1> QED BY <1>2, <1>3 DEF SendInput, texts, history, TypeInv, PageType, TextType

LEMMA ContinueType == ASSUME TypeInv, NEW d \in Terminal, Continue(d) PROVE TypeInv'
<1>1. KeyType'
  BY DEF Continue, TypeInv, KeyType
<1>2. PageType'
  BY DEF Continue, TypeInv, PageType
<1> QED BY <1>1, <1>2 DEF Continue, texts, history, TypeInv, XhrType, TextType

\* CreateProcess: the new process, and the old ones whose descriptor it has.
Spawn(k, stale) ==
  proc' = [j \in Pids |-> IF j = k THEN [proc[k] EXCEPT !.state = "run"]
                         ELSE IF j \in stale THEN [proc[j] EXCEPT !.heir = k] ELSE proc[j]]

LEMMA SpawnEffect ==
  ASSUME TypeInv, NEW k \in Pids, NEW stale, Spawn(k, stale)
  PROVE  /\ proc' \in [Pids -> Process] /\ proc'[k].state = "run"
         /\ \A j \in Pids : proc'[j].out = proc[j].out /\ (j # k => proc'[j].state = proc[j].state)
<1>1. ASSUME NEW j \in Pids
      PROVE  /\ proc'[j] \in Process /\ proc'[j].out = proc[j].out
             /\ j = k => proc'[j].state = "run"
             /\ j # k => proc'[j].state = proc[j].state
  <2>1. proc[j] \in Process /\ k \in Pid
    BY DEF TypeInv, TextType, Pid
  <2>2. CASE j = k
    <3>1. proc'[j] = [proc[j] EXCEPT !.state = "run"]
      BY <2>2 DEF Spawn
    <3> QED BY <2>1, <2>2, <3>1 DEF Process
  <2>3. CASE j # k /\ j \in stale
    <3>1. proc'[j] = [proc[j] EXCEPT !.heir = k]
      BY <2>3 DEF Spawn
    <3> QED BY <2>1, <2>3, <3>1 DEF Process
  <2>4. CASE j # k /\ j \notin stale
    BY <2>1, <2>4 DEF Spawn
  <2> QED BY <2>2, <2>3, <2>4
<1>2. proc' \in [Pids -> Process]
  BY <1>1 DEF Spawn
<1> QED BY <1>1, <1>2

LEMMA ServeCreateType == ASSUME TypeInv, NEW s \in Slot, ServeCreate(s) PROVE TypeInv'
<1>1. CASE Refuse(s) /\ UNCHANGED <<proc, maker>>
  <2>1. XhrType'
    BY <1>1, Refused DEF ServeCreate, TypeInv
  <2> QED BY <1>1, <2>1 DEF ServeCreate, page, keys, texts, TypeInv, PageType, KeyType, TextType
<1>2. ASSUME NEW k \in Pids, NEW stale, Spawn(k, stale), maker' = [maker EXCEPT ![k] = xhr[s].d],
             Given(s, k)
      PROVE  TypeInv'
  <2>1. XhrType'
    BY <1>2, CreatedEffect DEF ServeCreate, TypeInv
  <2>2. proc' \in [Pids -> Process]
    BY <1>2, SpawnEffect
  <2>3. xhr[s].d \in Terminal
    BY DEF ServeCreate, TypeInv, XhrType, RequestOK
  <2>4. TextType'
    BY <1>2, <2>2, <2>3 DEF ServeCreate, texts, TypeInv, TextType
  <2> QED BY <2>1, <2>4 DEF ServeCreate, page, keys, TypeInv, PageType, KeyType
<1> QED BY <1>1, <1>2 DEF ServeCreate, Given, Spawn

LEMMA DigitType == \A k \in Pids : /\ FirstDigit(k) \in Nat /\ (k < 10 => FirstDigit(k) = k)
                                  /\ Digits(k) \in 1..3
  BY TerminalAssumption DEF FirstDigit, Digits

\* What is carried of an output was in it.
LEMMA CarriedBytes ==
  ASSUME NEW k \in Pids, NEW out \in Seq(Byte)
  PROVE  /\ Carried(k, out) \in Seq(Byte)
         /\ \A i \in DOMAIN Carried(k, out) : \E j \in DOMAIN out : Carried(k, out)[i] = out[j]
<1> DEFINE n == Len(out) + 1 - Digits(k)
           r == SubSeq(out, 1, n)
<1>1. n \in Int /\ n <= Len(out) /\ Len(out) \in Nat
  BY DigitType
<1>2. r = Carried(k, out)
  BY DEF Carried
<1> HIDE DEF n
<1>3. CASE n >= 0
  <2>1. n \in Nat /\ \A i \in 1..n : out[i] \in Byte
    BY <1>1, <1>3
  <2>2. /\ r \in Seq(Byte) /\ Len(r) = IF 1 <= n THEN n - 1 + 1 ELSE 0
        /\ \A i \in 1..(n - 1 + 1) : r[i] = out[1 + i - 1]
    BY <2>1, SubSeqProperties
  <2>3. Len(r) = n /\ \A i \in 1..n : r[i] = out[i]
    BY <2>1, <2>2
  <2> HIDE DEF r
  <2>4. DOMAIN r = 1..n /\ DOMAIN out = 1..Len(out)
    BY <2>2, <2>3
  <2>5. \A i \in 1..n : i \in 1..Len(out)
    BY <1>1
  <2> QED BY <1>2, <2>2, <2>3, <2>4, <2>5
<1>4. CASE ~(n >= 0)
  <2>1. r = <<>>
    BY <1>1, <1>4
  <2>2. <<>> \in Seq(Byte) /\ DOMAIN <<>> = {}
    OBVIOUS
  <2> HIDE DEF r
  <2> QED BY <1>2, <2>1, <2>2
<1> QED BY <1>3, <1>4

\* What ServePoll does: a process that is over stays so, and one that has
\* halted is over when its poll is answered.
Answered(s, status, digit, bytes) ==
  /\ XhrType' /\ \A u \in Slot : u # s => xhr'[u] = xhr[u]
  /\ xhr'[s].kind = "poll" /\ xhr'[s].d = xhr[s].d /\ xhr'[s].k = xhr[s].k /\ xhr'[s].at = "answered"
  /\ xhr'[s].status = status /\ xhr'[s].digit = digit /\ xhr'[s].bytes = bytes

\* The bytes are j's output, if there are any.
OutputOf(k, j, bytes) == j = Source(k) /\ \A i \in DOMAIN bytes : \E n \in DOMAIN proc[j].out : bytes[i] = proc[j].out[n]

Drained(k, j) ==
  \/ UNCHANGED proc /\ proc[k].state # "halted"
  \/ /\ j \in Pids
     /\ proc' = [proc EXCEPT ![j].out = <<>>, ![k].state = IF @ = "halted" THEN "gone" ELSE @]

LEMMA ServePollEffect ==
  ASSUME TypeInv, NEW s \in Slot, ServePoll(s)
  PROVE  \/ /\ proc[xhr[s].k].state \in {"gone", "reused"} /\ UNCHANGED proc
            /\ Answered(s, 404, 4, <<>>)
         \/ \E j \in Pids, bytes \in Seq(Byte) :
              /\ Answered(s, IF proc[xhr[s].k].state = "halted" THEN 201 ELSE 200, FirstDigit(xhr[s].k), bytes)
              /\ bytes = <<>> \/ OutputOf(xhr[s].k, j, bytes)
              /\ Drained(xhr[s].k, j)
<1> DEFINE k == xhr[s].k
           j == Source(k)
<1>1. XhrType /\ k \in Pids /\ xhr[s].kind = "poll" /\ xhr[s].at = "sent"
  BY DEF ServePoll, TypeInv, XhrType, RequestOK
<1>2. CASE proc[k].state = "reused" /\ Refuse(s) /\ UNCHANGED proc
  BY <1>1, <1>2, Refused DEF Answered
\* The other answers.
<1>3. ASSUME NEW status \in {200, 201, 404}, NEW bytes \in Seq(Byte),
             status = IF proc[k].state = "halted" THEN 201 ELSE 200,
             Answer(s, status, FirstDigit(k), bytes)
      PROVE  Answered(s, IF proc[k].state = "halted" THEN 201 ELSE 200, FirstDigit(k), bytes)
  <2>1. FirstDigit(k) \in Nat
    BY <1>1, DigitType
  <2> QED BY <1>1, <1>3, <2>1, AnswerEffect DEF Answered
<1>4. CASE proc[k].state = "gone" /\ Answer(s, 200, FirstDigit(k), <<>>) /\ UNCHANGED proc
  <2> DEFINE bytes  == <<>>
             status == 200
  <2>1. bytes \in Seq(Byte) /\ status \in {200, 201, 404} /\ status = IF proc[k].state = "halted" THEN 201 ELSE 200
    BY <1>4
  <2>2. Answer(s, status, FirstDigit(k), bytes)
    BY <1>4
  <2>3. bytes = <<>>
    OBVIOUS
  <2> HIDE DEF bytes, status
  <2>4. Answered(s, IF proc[k].state = "halted" THEN 201 ELSE 200, FirstDigit(k), bytes)
    BY <1>1, <1>3, <2>1, <2>2
  <2>5. Drained(k, k)
    BY <1>4 DEF Drained
  <2> QED BY ZenonT(40), <1>1, <2>1, <2>3, <2>4, <2>5
<1>5. CASE /\ j # None /\ Answer(s, IF proc[k].state = "halted" THEN 201 ELSE 200, FirstDigit(k), Carried(k, proc[j].out))
           /\ proc' = [proc EXCEPT ![j].out = <<>>, ![k].state = IF @ = "halted" THEN "gone" ELSE @]
  <2> DEFINE bytes  == Carried(k, proc[j].out)
             status == IF proc[k].state = "halted" THEN 201 ELSE 200
  <2>1. j \in Pids /\ proc[j].out \in Seq(Byte)
    <3>1. proc[k] \in Process
      BY <1>1 DEF TypeInv, TextType
    <3>2. j \in Pids
      BY <1>1, <1>5, <3>1 DEF Source, Process, Pid
    <3> HIDE DEF j
    <3> QED BY <3>2 DEF TypeInv, TextType, Process
  <2>2. status \in {200, 201, 404}
    OBVIOUS
  <2>3. bytes \in Seq(Byte) /\ OutputOf(k, j, bytes)
    BY <1>1, <2>1, CarriedBytes DEF OutputOf
  <2>4. Drained(k, j)
    BY <1>5, <2>1 DEF Drained
  <2>5. Answer(s, status, FirstDigit(k), bytes)
    BY <1>5
  <2>6. status = IF proc[k].state = "halted" THEN 201 ELSE 200
    OBVIOUS
  <2> HIDE DEF bytes, j, status
  <2>7. Answered(s, IF proc[k].state = "halted" THEN 201 ELSE 200, FirstDigit(k), bytes)
    BY <1>1, <1>3, <2>1, <2>2, <2>3, <2>5, <2>6
  <2> QED BY <2>1, <2>3, <2>4, <2>7
<1> QED BY <1>2, <1>4, <1>5 DEF ServePoll

LEMMA DrainedEffect ==
  ASSUME TypeInv, NEW k \in Pids, NEW j \in Pids, Drained(k, j)
  PROVE  /\ proc' \in [Pids -> Process]
         /\ \A i \in Pids : /\ proc'[i].out = proc[i].out \/ proc'[i].out = <<>>
                            /\ i # k \/ proc[k].state # "halted" => proc'[i].state = proc[i].state
         /\ proc[k].state = "halted" => proc'[k].state = "gone"
<1>1. CASE UNCHANGED proc /\ proc[k].state # "halted"
  BY <1>1 DEF TypeInv, TextType
<1>2. CASE proc' = [proc EXCEPT ![j].out = <<>>, ![k].state = IF @ = "halted" THEN "gone" ELSE @]
  <2> DEFINE p == [proc EXCEPT ![j].out = <<>>]
  <2>1. p \in [Pids -> Process] /\ \A i \in Pids : p[i].state = proc[i].state /\ (p[i].out = proc[i].out \/ p[i].out = <<>>)
    <3>1. <<>> \in Seq(Byte)
      OBVIOUS
    <3>2. ASSUME NEW i \in Pids
          PROVE  p[i] \in Process /\ p[i].state = proc[i].state /\ (p[i].out = proc[i].out \/ p[i].out = <<>>)
      <4>1. proc[i] \in Process
        BY DEF TypeInv, TextType
      <4>2. p[i] = proc[i] \/ p[i] = [proc[i] EXCEPT !.out = <<>>]
        BY DEF TypeInv, TextType
      <4> HIDE DEF p
      <4> QED BY <3>1, <4>1, <4>2 DEF Process
    <3>3. p \in [Pids -> Process]
      BY <3>2 DEF TypeInv, TextType
    <3> QED BY <3>2, <3>3
  <2>2. proc' = [p EXCEPT ![k].state = IF @ = "halted" THEN "gone" ELSE @]
    BY <1>2
  <2> HIDE DEF p
  <2>3. ASSUME NEW i \in Pids
        PROVE  /\ proc'[i] \in Process /\ proc'[i].out = p[i].out
               /\ i # k \/ proc[k].state # "halted" => proc'[i].state = p[i].state
               /\ i = k /\ proc[k].state = "halted" => proc'[i].state = "gone"
    <3>1. p[i] \in Process
      BY <2>1
    <3>2. i # k => proc'[i] = p[i]
      BY <2>1, <2>2
    <3>3. i = k => proc'[i] = [p[i] EXCEPT !.state = IF @ = "halted" THEN "gone" ELSE @]
      BY <2>1, <2>2
    <3>4. p[i].state = proc[i].state
      BY <2>1
    <3> QED BY <3>1, <3>2, <3>3, <3>4 DEF Process
  <2>4. proc' \in [Pids -> Process]
    BY <2>1, <2>2, <2>3
  <2> QED BY <2>1, <2>3, <2>4
<1> QED BY <1>1, <1>2 DEF Drained

LEMMA ServePollType == ASSUME TypeInv, NEW s \in Slot, ServePoll(s) PROVE TypeInv'
<1>1. xhr[s].k \in Pids
  BY DEF ServePoll, TypeInv, XhrType, RequestOK
<1>2. XhrType' /\ proc' \in [Pids -> Process]
  <2>1. CASE UNCHANGED proc /\ Answered(s, 404, 4, <<>>)
    BY <2>1 DEF Answered, TypeInv, TextType
  <2>2. ASSUME NEW j \in Pids, NEW bytes, NEW status, Drained(xhr[s].k, j),
               Answered(s, status, FirstDigit(xhr[s].k), bytes)
        PROVE  XhrType' /\ proc' \in [Pids -> Process]
    BY <1>1, <2>2, DrainedEffect DEF Answered
  <2> QED BY <2>1, <2>2, ServePollEffect
<1> QED BY <1>2 DEF ServePoll, page, keys, texts, history, TypeInv, PageType, KeyType, TextType

LEMMA ServeFlushType == ASSUME TypeInv, NEW s \in Slot, ServeFlush(s) PROVE TypeInv'
<1>1. XhrType'
  <2>1. CASE Refuse(s)
    BY <2>1, Refused DEF ServeFlush, TypeInv
  <2>2. CASE Answer(s, 200, 2, <<>>)
    <3> DEFINE nothing == <<>>
               status  == 200
               digit   == 2
    <3>1. nothing \in Seq(Byte) /\ status \in {200, 201, 404} /\ digit \in Nat
      OBVIOUS
    <3>2. /\ Answer(s, status, digit, nothing) /\ XhrType
          /\ xhr[s].kind # "idle" /\ (xhr[s].kind = "create" => status # 200)
      BY <2>2 DEF ServeFlush, TypeInv
    <3> HIDE DEF nothing, status, digit
    <3>3. /\ XhrType' /\ \A u \in Slot : u # s => xhr'[u] = xhr[u]
          /\ xhr'[s].kind = xhr[s].kind /\ xhr'[s].d = xhr[s].d /\ xhr'[s].k = xhr[s].k
          /\ xhr'[s].at = "answered" /\ xhr'[s].status = status /\ xhr'[s].digit = digit
          /\ xhr'[s].bytes = nothing
      BY <3>1, <3>2, AnswerEffect
    <3> QED BY <3>3
  <2> QED BY <2>1, <2>2 DEF ServeFlush
<1> QED BY <1>1 DEF ServeFlush, page, keys, texts, history, TypeInv, PageType, KeyType, TextType

LEMMA RunType == ASSUME TypeInv, NEW k \in Pids, Run(k) PROVE TypeInv'
<1>1. proc[k] \in Process
  BY DEF TypeInv, TextType
<1>2. CASE proc' = [proc EXCEPT ![k].state = "halted"]
  <2>1. proc' \in [Pids -> Process]
    BY <1>2 DEF TypeInv, TextType, Process
  <2> QED BY <2>1 DEF Run, page, keys, texts, history, TypeInv, XhrType, PageType, KeyType, TextType
<1>3. CASE /\ proc[k].wrote < MaxOut
           /\ proc' = [proc EXCEPT ![k].wrote = @ + 1, ![k].out = Append(@, <<k, proc[k].wrote + 1>>)]
  <2> DEFINE w == proc[k].wrote + 1
             out == Append(proc[k].out, <<k, w>>)
  <2>1. w \in 0..MaxOut /\ w \in 1..MaxOut
    BY <1>1, <1>3, TerminalAssumption DEF Process
  <2>2. <<k, w>> \in Byte
    BY <2>1 DEF Byte
  <2>3. out \in Seq(Byte)
    <3> DEFINE b == <<k, w>>
    <3> HIDE DEF b
    <3>1. b \in Byte /\ proc[k].out \in Seq(Byte)
      BY <1>1, <2>2 DEF Process, b
    <3>2. Append(proc[k].out, b) \in Seq(Byte)
      BY <3>1
    <3> QED BY <3>2 DEF b
  <2>4. proc' = [proc EXCEPT ![k].wrote = w, ![k].out = out]
    BY <1>3 DEF TypeInv, TextType
  <2> HIDE DEF w, out
  <2>5. proc' \in [Pids -> Process]
    BY ZenonT(40), <2>1, <2>3, <2>4 DEF TypeInv, TextType, Process
  <2> QED BY <2>5 DEF Run, page, keys, texts, history, TypeInv, XhrType, PageType, KeyType, TextType
<1> QED BY <1>2, <1>3 DEF Run

LEMMA ReuseType == ASSUME TypeInv, NEW k \in Pids, Reuse(k) PROVE TypeInv'
<1>1. proc' = [proc EXCEPT ![k].state = "reused", ![k].heir = None]
  BY DEF Reuse
<1>2. proc' \in [Pids -> Process]
  BY ZenonT(40), <1>1 DEF TypeInv, TextType, Process, Pid
<1> QED BY <1>2 DEF Reuse, page, keys, texts, history, TypeInv, XhrType, PageType, KeyType, TextType

LEMMA FailType == ASSUME TypeInv, NEW s \in Slot, Fail(s) PROVE TypeInv'
<1>1. XhrType'
  BY NewType, SetRequest DEF Fail, TypeInv
<1> QED BY <1>1 DEF Fail, page, keys, texts, TypeInv, PageType, KeyType, TextType

LEMMA TimerType == ASSUME TypeInv, NEW d \in Terminal, NEW k \in Pids, Timer(d, k) PROVE TypeInv'
<1>1. XhrType'
  <2> DEFINE r == New("poll", d, k)
  <2>1. r \in Requests /\ RequestOK(r)
    BY NewType
  <2>2. XhrType /\ \E s \in Free(xhr) : xhr' = [xhr EXCEPT ![s] = r]
    BY DEF Timer, TypeInv
  <2> HIDE DEF r
  <2> QED BY <2>1, <2>2, NewRequest
<1>2. waits' \in [Terminal \X Pids -> 0..MaxWaits]
  BY TimerEffect DEF TypeInv, PageType
<1>3. PageType'
  BY <1>2 DEF Timer, TypeInv, PageType
<1> QED BY <1>1, <1>3 DEF Timer, keys, texts, history, TypeInv, KeyType, TextType

\* A handler of an answer: request s becomes r, another may be sent.
Sends(s, r, d, k) ==
  /\ XhrType'
  /\ \A u \in Slot : u # s => xhr'[u] = xhr[u] \/ (xhr[u].kind = "idle" /\ xhr'[u] = New("poll", d, k))
  /\ xhr'[s] = r \/ (r.kind = "idle" /\ xhr'[s] = New("poll", d, k))
  /\ waits' \in [Terminal \X Pids -> 0..MaxWaits]
  /\ \A e \in Terminal, j \in Pids : /\ waits'[e, j] = waits[e, j] \/ (e = d /\ j = k)
                                     /\ waits[e, j] > 0 => waits'[e, j] > 0

\* PollProcess was called.
GoesOn(d, k) == waits'[d, k] > 0 \/ \E u \in Slot : xhr'[u] = New("poll", d, k)

LEMMA SendsEffect ==
  ASSUME TypeInv, NEW s \in Slot, NEW r \in Requests, RequestOK(r), NEW d \in Terminal, NEW k \in Pids,
         NEW x, x = [xhr EXCEPT ![s] = r]
  PROVE  /\ xhr' = x /\ UNCHANGED waits => Sends(s, r, d, k)
         /\ PollProcess(k, d, x) => Sends(s, r, d, k) /\ GoesOn(d, k)
<1>1. /\ x \in [Slot -> Requests] /\ \A u \in Slot : RequestOK(x[u])
      /\ x[s] = r /\ \A u \in Slot : u # s => x[u] = xhr[u]
  BY DEF TypeInv, XhrType
<1>2. waits \in [Terminal \X Pids -> 0..MaxWaits]
  BY DEF TypeInv, PageType
<1>3. ASSUME xhr' = x, UNCHANGED waits PROVE Sends(s, r, d, k)
  BY <1>1, <1>2, <1>3 DEF Sends, XhrType
<1>4. ASSUME PollProcess(k, d, x) PROVE Sends(s, r, d, k) /\ GoesOn(d, k)
  <2>1. Polled(x, d, k)
    BY <1>1, <1>2, <1>4, PollEffect
  <2> QED BY <1>1, <2>1 DEF Polled, Sends, GoesOn
<1> QED BY <1>3, <1>4

\* What Created, Loading and Done do.
LEMMA CreatedPage ==
  ASSUME TypeInv, NEW s \in Slot, Created(s)
  PROVE  /\ xhr[s].kind = "create" /\ xhr[s].d \in Terminal
         /\ UNCHANGED <<buffer, proc, keys, texts, maker, failed>>
         /\ \/ ~Fresh(xhr[s]) /\ xhr' = [xhr EXCEPT ![s] = Idle] /\ UNCHANGED <<state, pid, waits, replaced>>
            \/ /\ Fresh(xhr[s]) /\ xhr[s].k \in Pids
               /\ pid' = [pid EXCEPT ![xhr[s].d] = xhr[s].k]
               /\ state' = [state EXCEPT ![xhr[s].d] = "running"]
               /\ replaced' = replaced \cup ({pid[xhr[s].d]} \ {None})
               /\ Sends(s, Idle, xhr[s].d, xhr[s].k) /\ GoesOn(xhr[s].d, xhr[s].k)
<1> DEFINE d == xhr[s].d
           k == xhr[s].k
           x == [xhr EXCEPT ![s] = Idle]
<1>1. RequestOK(xhr[s]) /\ xhr[s].kind = "create"
  BY DEF Created, TypeInv, XhrType
<1>2. d \in Terminal /\ (Fresh(xhr[s]) => k \in Pids)
  BY <1>1 DEF RequestOK
<1>3. Idle \in Requests /\ RequestOK(Idle)
  BY NewType
<1>4. ASSUME k \in Pids, PollProcess(k, d, x) PROVE Sends(s, Idle, d, k) /\ GoesOn(d, k)
  <2>1. x = [xhr EXCEPT ![s] = Idle]
    OBVIOUS
  <2> HIDE DEF d, k, x
  <2> QED BY <1>2, <1>3, <1>4, <2>1, SendsEffect
<1> QED BY <1>1, <1>2, <1>4 DEF Created, Fresh

Loaded(s) == [xhr[s] EXCEPT !.at = "loaded"]

LEMMA LoadedType ==
  ASSUME TypeInv, NEW s \in Slot, xhr[s].kind = "poll"
  PROVE  /\ Loaded(s) \in Requests /\ RequestOK(Loaded(s)) /\ Loaded(s).kind = "poll" /\ Loaded(s).at = "loaded"
         /\ Loaded(s).d = xhr[s].d /\ Loaded(s).k = xhr[s].k /\ Loaded(s).status = xhr[s].status
         /\ Loaded(s).digit = xhr[s].digit /\ Loaded(s).bytes = xhr[s].bytes
         /\ xhr[s].d \in Terminal /\ xhr[s].k \in Pids /\ xhr[s].bytes \in Seq(Byte)
<1>1. xhr[s] \in Requests /\ RequestOK(xhr[s])
  BY DEF TypeInv, XhrType
<1>2. /\ Loaded(s) \in Requests /\ Loaded(s).kind = "poll" /\ Loaded(s).at = "loaded"
      /\ Loaded(s).d = xhr[s].d /\ Loaded(s).k = xhr[s].k /\ Loaded(s).status = xhr[s].status
      /\ Loaded(s).digit = xhr[s].digit /\ Loaded(s).bytes = xhr[s].bytes
  BY <1>1 DEF Loaded, Requests
<1>3. xhr[s].bytes \in Seq(Byte)
  BY <1>1 DEF Requests
<1> QED BY <1>1, <1>2, <1>3 DEF RequestOK, Fresh

LEMMA LoadingPage ==
  ASSUME TypeInv, NEW s \in Slot, Loading(s)
  PROVE  /\ xhr[s].kind = "poll" /\ xhr[s].at = "answered" /\ Show(s)
         /\ Sends(s, Loaded(s), xhr[s].d, xhr[s].k)
         /\ UNCHANGED <<state, pid, buffer, proc, keys, received, history>>
<1> DEFINE d == xhr[s].d
           k == xhr[s].k
           x == [xhr EXCEPT ![s] = Loaded(s)]
<1>1. xhr[s].kind = "poll" /\ ((xhr' = x /\ UNCHANGED waits) \/ PollProcess(k, d, x))
  BY DEF Loading, Loaded, TypeInv, XhrType
<1>2. Loaded(s) \in Requests /\ RequestOK(Loaded(s)) /\ d \in Terminal /\ k \in Pids
  BY LoadedType DEF Loading
<1>3. Sends(s, Loaded(s), d, k)
  <2>1. x = [xhr EXCEPT ![s] = Loaded(s)]
    OBVIOUS
  <2> HIDE DEF d, k, x
  <2> QED BY <1>1, <1>2, <2>1, SendsEffect
<1> QED BY <1>3 DEF Loading

LEMMA DonePage ==
  ASSUME TypeInv, NEW s \in Slot, Done(s)
  PROVE  /\ xhr[s].kind = "poll" /\ xhr[s].at = "loaded" /\ xhr[s].d \in Terminal /\ xhr[s].k \in Pids
         /\ Show(s) /\ received' = received \cup Bytes(s)
         /\ Sends(s, Idle, xhr[s].d, xhr[s].k)
         /\ \/ Targets(xhr[s].digit) = {} /\ UNCHANGED state
            \/ xhr[s].status = 201 /\ state' = [state EXCEPT ![xhr[s].d] = "waiting"]
            \/ xhr[s].status # 201 /\ UNCHANGED state /\ GoesOn(xhr[s].d, xhr[s].k)
         /\ UNCHANGED <<pid, buffer, proc, keys, history>>
<1> DEFINE d == xhr[s].d
           k == xhr[s].k
           x == [xhr EXCEPT ![s] = Idle]
<1>1. xhr[s].kind = "poll" /\ d \in Terminal /\ k \in Pids
  BY LoadedType DEF Done
<1>2. Idle \in Requests /\ RequestOK(Idle)
  BY NewType
<1>3. /\ xhr' = x /\ UNCHANGED waits => Sends(s, Idle, d, k)
      /\ PollProcess(k, d, x) => Sends(s, Idle, d, k) /\ GoesOn(d, k)
  <2>1. x = [xhr EXCEPT ![s] = Idle]
    OBVIOUS
  <2> HIDE DEF d, k, x
  <2> QED BY <1>1, <1>2, <2>1, SendsEffect
<1> QED BY <1>1, <1>3 DEF Done

LEMMA ShowType ==
  ASSUME TypeInv, NEW s \in Slot, xhr[s].kind = "poll", Show(s)
  PROVE  shown' \in [Terminal -> SUBSET (Pids \X Byte)] /\ Bytes(s) \subseteq Pids \X Byte
<1>1. xhr[s].bytes \in Seq(Byte) /\ xhr[s].k \in Pids
  BY LoadedType
<1>2. Bytes(s) \subseteq Pids \X Byte
  BY <1>1 DEF Bytes
<1> QED BY <1>2 DEF Show, TypeInv, TextType

LEMMA CreatedType == ASSUME TypeInv, NEW s \in Slot, Created(s) PROVE TypeInv'
<1>1. XhrType'
  <2>1. CASE xhr' = [xhr EXCEPT ![s] = Idle]
    BY <2>1, NewType, SetRequest DEF TypeInv
  <2> QED BY <2>1, CreatedPage DEF Sends
<1>2. PageType'
  <2>1. CASE UNCHANGED <<state, pid, waits>>
    BY <2>1 DEF TypeInv, PageType
  <2>2. ASSUME NEW d \in Terminal, NEW k \in Pids, pid' = [pid EXCEPT ![d] = k],
               state' = [state EXCEPT ![d] = "running"], waits' \in [Terminal \X Pids -> 0..MaxWaits]
        PROVE  PageType'
    <3>1. k \in Pid /\ k # None
      BY TerminalAssumption DEF Pid
    <3> QED BY <2>2, <3>1 DEF TypeInv, PageType
  <2> QED BY ZenonT(40), <2>1, <2>2, CreatedPage DEF Sends
<1> QED BY <1>1, <1>2, CreatedPage DEF keys, texts, TypeInv, KeyType, TextType

LEMMA LoadingType == ASSUME TypeInv, NEW s \in Slot, Loading(s) PROVE TypeInv'
<1>1. XhrType' /\ PageType'
  BY LoadingPage DEF TypeInv, PageType, Sends
<1>2. TextType'
  BY LoadingPage, ShowType DEF history, TypeInv, TextType
<1> QED BY <1>1, <1>2, LoadingPage DEF keys, TypeInv, KeyType

LEMMA DoneType == ASSUME TypeInv, PollsOK, NEW s \in Slot, Done(s) PROVE TypeInv'
<1>1. XhrType' /\ waits' \in [Terminal \X Pids -> 0..MaxWaits]
  BY DonePage DEF Sends
<1>2. PageType'
  <2>1. CASE UNCHANGED state
    BY <1>1, <2>1, DonePage DEF TypeInv, PageType
  <2>2. CASE state' = [state EXCEPT ![xhr[s].d] = "waiting"]
    <3>1. xhr[s].d \in Terminal /\ pid[xhr[s].d] # None
      BY DonePage DEF PollsOK, PollOK, Known
    <3> QED BY <1>1, <2>2, <3>1, DonePage DEF TypeInv, PageType
  <2> QED BY <2>1, <2>2, DonePage
<1>3. TextType'
  BY DonePage, ShowType DEF history, TypeInv, TextType
<1> QED BY <1>1, <1>2, <1>3, DonePage DEF keys, TypeInv, KeyType

LEMMA FlushedType == ASSUME TypeInv, KeyInv, NEW s \in Slot, Flushed(s) PROVE TypeInv'
<1> DEFINE d == xhr[s].d
<1>1. xhr[s].kind = "flush" /\ d \in Terminal /\ xhr[s].k \in Pids
  BY DEF Flushed, TypeInv, XhrType, RequestOK
<1>2. CASE xhr' = [xhr EXCEPT ![s] = Idle] /\ UNCHANGED <<posts, buffer>>
  <2>1. XhrType'
    BY <1>2, NewType, SetRequest DEF TypeInv
  <2> QED BY <1>2, <2>1 DEF Flushed, texts, history, TypeInv, PageType, KeyType, TextType
<1>3. CASE /\ buffer[d] # <<>> /\ posts' = [posts EXCEPT ![Head(buffer[d])] = @ + 1]
           /\ buffer' = [buffer EXCEPT ![d] = Tail(buffer[d])]
           /\ xhr' = [xhr EXCEPT ![s] = New("flush", d, xhr[s].k)]
  <2>1. XhrType'
    <3> DEFINE r == New("flush", d, xhr[s].k)
    <3>1. r \in Requests /\ RequestOK(r) /\ xhr' = [xhr EXCEPT ![s] = r]
      BY <1>1, <1>3, NewType
    <3> HIDE DEF r
    <3> QED BY <3>1, SetRequest DEF TypeInv
  <2>2. Tail(buffer[d]) \in Seq(Key) /\ Head(buffer[d]) \in Key
    BY <1>1, <1>3, TailElems DEF TypeInv, KeyType, KeyInv, OnceOK
  <2>3. posts' \in [Key -> Nat]
    <3> DEFINE h == Head(buffer[d])
    <3>1. h \in Key /\ posts' = [posts EXCEPT ![h] = posts[h] + 1]
      BY <1>3, <2>2
    <3> HIDE DEF h
    <3> QED BY <3>1 DEF TypeInv, KeyType
  <2>4. buffer' \in [Terminal -> Seq(Key)]
    BY <1>3, <2>2 DEF TypeInv, KeyType
  <2> QED BY <2>1, <2>3, <2>4 DEF Flushed, texts, history, TypeInv, PageType, KeyType, TextType
<1> QED BY <1>2, <1>3 DEF Flushed

-----------------------------------------------------------------------------
(***************************************************************************)
(* The polls.                                                              *)
(***************************************************************************)
\* Processes are made, halt, and go; terminals keep a Pid or replace it.
Ahead ==
  /\ \A k \in Pids : /\ proc[k].state # "none" => proc'[k].state # "none" /\ maker'[k] = maker[k]
                     /\ proc[k].state \in {"gone", "reused"} => proc'[k].state \in {"gone", "reused"}
  /\ \A k \in replaced : k \in replaced'
  /\ \A d \in Terminal : /\ pid'[d] = pid[d] \/ pid[d] = None \/ pid[d] \in replaced'
                         /\ pid[d] # None => pid'[d] # None

LEMMA AheadSame == UNCHANGED <<pid, proc, maker, replaced>> => Ahead
  BY DEF Ahead

LEMMA KnownStays ==
  ASSUME Ahead, NEW d \in Terminal, NEW k \in Pids, Known(k, d)
  PROVE  maker'[k] = d /\ proc'[k].state # "none" /\ pid'[d] # None /\ (pid'[d] = k \/ k \in replaced')
  BY DEF Ahead, Known, Made

LEMMA PollStays ==
  ASSUME TypeInv, PollInv, Ahead, NEW u \in Slot, xhr'[u] = xhr[u]
  PROVE  PollOK(xhr[u])'
<1> SUFFICES ASSUME xhr[u].kind = "poll" PROVE PollOK(xhr[u])'
  BY DEF PollOK
<1>1. PollOK(xhr[u]) /\ xhr[u].d \in Terminal /\ xhr[u].k \in Pids
  BY LoadedType DEF PollInv, PollsOK
<1>2. /\ maker'[xhr[u].k] = xhr[u].d /\ proc'[xhr[u].k].state # "none" /\ pid'[xhr[u].d] # None
      /\ pid'[xhr[u].d] = xhr[u].k \/ xhr[u].k \in replaced'
  BY <1>1, KnownStays DEF PollOK
<1>3. xhr[u].at = "sent" \/ AnswerOK(xhr[u])'
  BY <1>1 DEF PollOK, AnswerOK, Ahead
<1> QED BY <1>2, <1>3 DEF PollOK, Known, Made

LEMMA WaitStays ==
  ASSUME PollInv, Ahead, NEW d \in Terminal, NEW k \in Pids, waits[d, k] > 0
  PROVE  Known(k, d)'
<1>1. Known(k, d)
  BY DEF PollInv, WaitsOK
<1> QED BY <1>1, KnownStays DEF Known, Made

LEMMA WaitsNat ==
  ASSUME TypeInv, NEW d \in Terminal, NEW k \in Pids PROVE waits[d, k] = 0 \/ waits[d, k] > 0
<1> DEFINE w == waits[d, k]
<1>1. w \in 0..MaxWaits
  BY DEF TypeInv, PageType
<1> HIDE DEF w
<1>2. w = 0 \/ w > 0
  BY <1>1, TerminalAssumption
<1> QED BY <1>2 DEF w

LEMMA IsPoll ==
  ASSUME NEW d \in Terminal, NEW k \in Pids, NEW u \in Slot, xhr'[u] = New("poll", d, k)
  PROVE  xhr'[u].kind = "poll" /\ xhr'[u].d = d /\ xhr'[u].k = k /\ xhr'[u].at = "sent"
  BY NewType

LEMMA GoesOnPoll ==
  ASSUME NEW d \in Terminal, NEW k \in Pids, GoesOn(d, k)
  PROVE  waits'[d, k] > 0 \/ \E u \in Slot : xhr'[u].kind = "poll" /\ xhr'[u].k = k /\ xhr'[u].d = d
<1>1. CASE waits'[d, k] > 0
  BY <1>1
<1>2. CASE \E u \in Slot : xhr'[u] = New("poll", d, k)
  <2>1. PICK u \in Slot : xhr'[u] = New("poll", d, k)
    BY <1>2
  <2>2. xhr'[u].kind = "poll" /\ xhr'[u].k = k /\ xhr'[u].d = d
    BY <2>1, IsPoll
  <2> QED BY <2>2
<1> QED BY <1>1, <1>2 DEF GoesOn

\* A new poll of a process that is known.
LEMMA NewPoll ==
  ASSUME NEW d \in Terminal, NEW k \in Pids, NEW u \in Slot, xhr'[u] = New("poll", d, k), Known(k, d)'
  PROVE  PollOK(xhr[u])'
<1>1. xhr'[u].kind = "poll" /\ xhr'[u].d = d /\ xhr'[u].k = k /\ xhr'[u].at = "sent"
  BY NewType
<1> QED BY <1>1 DEF PollOK, Known, Made

LEMMA SendsPolls ==
  ASSUME TypeInv, PollInv, Ahead, NEW s \in Slot, NEW r, NEW d \in Terminal, NEW k \in Pids,
         Sends(s, r, d, k), Known(k, d)', xhr'[s] = r => PollOK(xhr[s])'
  PROVE  PollsOK' /\ WaitsOK'
<1>1. ASSUME NEW u \in Slot PROVE PollOK(xhr[u])'
  <2>1. xhr'[u] = xhr[u] \/ (u = s /\ xhr'[u] = r) \/ xhr'[u] = New("poll", d, k)
    BY DEF Sends
  <2> QED BY <2>1, PollStays, NewPoll
<1>2. ASSUME NEW e \in Terminal, NEW j \in Pids, waits'[e, j] > 0 PROVE Known(j, e)'
  <2>1. waits'[e, j] = waits[e, j] \/ (e = d /\ j = k)
    BY DEF Sends
  <2> QED BY <1>2, <2>1, WaitStays
<1>3. PollsOK'
  BY <1>1 DEF PollsOK
<1>4. WaitsOK'
  BY <1>2 DEF WaitsOK
<1> QED BY <1>3, <1>4

LEMMA SendsFresh ==
  ASSUME TypeInv, PollInv, UNCHANGED <<proc, maker>>,
         NEW s \in Slot, NEW r, NEW d \in Terminal, NEW k \in Pids, Sends(s, r, d, k),
         r.kind = "idle" \/ (r.kind = "poll" /\ r.k = k),
         \A v \in Slot : v # s /\ Fresh(xhr[v]) => xhr[v].k # k
  PROVE  FreshOK'
<1>1. \A u \in Slot : \/ u # s /\ xhr'[u] = xhr[u]
                      \/ xhr'[u].kind = "idle"
                      \/ xhr'[u].kind = "poll" /\ xhr'[u].k = k
  <2>1. New("poll", d, k).kind = "poll" /\ New("poll", d, k).k = k
    BY NewType
  <2>2. ASSUME NEW u \in Slot, u # s
        PROVE  xhr'[u] = xhr[u] \/ (xhr'[u].kind = "poll" /\ xhr'[u].k = k)
    BY <2>1, <2>2 DEF Sends
  <2>3. xhr'[s].kind = "idle" \/ (xhr'[s].kind = "poll" /\ xhr'[s].k = k)
    BY <2>1 DEF Sends
  <2> QED BY <2>2, <2>3
<1> SUFFICES ASSUME NEW v \in Slot, Fresh(xhr'[v])
             PROVE  /\ maker[xhr'[v].k] = xhr'[v].d /\ proc[xhr'[v].k].state \notin {"none", "gone", "reused"}
                    /\ \A u \in Slot : u # v /\ (Fresh(xhr'[u]) \/ xhr'[u].kind = "poll") => xhr'[u].k # xhr'[v].k
                    /\ \A e \in Terminal : waits'[e, xhr'[v].k] = 0
  BY ZenonT(40) DEF FreshOK, Made, Fresh
<1>2. v # s /\ xhr'[v] = xhr[v]
  BY <1>1 DEF Fresh
<1>3. /\ Made(xhr[v].k, xhr[v].d) /\ proc[xhr[v].k].state \notin {"gone", "reused"} /\ xhr[v].k # k
      /\ \A u \in Slot : u # v /\ (Fresh(xhr[u]) \/ xhr[u].kind = "poll") => xhr[u].k # xhr[v].k
      /\ \A e \in Terminal : waits[e, xhr[v].k] = 0
  BY <1>2 DEF PollInv, FreshOK
<1>4. xhr[v].k \in Pids
  BY <1>2 DEF TypeInv, XhrType, RequestOK
<1>5. \A u \in Slot : u # v /\ (Fresh(xhr'[u]) \/ xhr'[u].kind = "poll") => xhr'[u].k # xhr[v].k
  <2> SUFFICES ASSUME NEW u \in Slot, u # v, Fresh(xhr'[u]) \/ xhr'[u].kind = "poll" PROVE xhr'[u].k # xhr[v].k
    OBVIOUS
  <2>1. CASE xhr'[u] = xhr[u]
    BY <1>3, <2>1
  <2>2. CASE xhr'[u].kind = "poll" /\ xhr'[u].k = k
    BY <1>3, <2>2
  <2>3. xhr'[u].kind # "idle"
    BY DEF Fresh
  <2> QED BY <1>1, <2>1, <2>2, <2>3
<1>6. \A e \in Terminal : waits'[e, xhr[v].k] = 0
  BY <1>3, <1>4 DEF Sends
<1> QED BY <1>2, <1>3, <1>5, <1>6 DEF Made

\* Requests that are neither polls nor Pids on their way.
Quiet(r) == r.kind # "poll" /\ ~Fresh(r)

LEMMA QuietInv ==
  ASSUME TypeInv, PollInv, UNCHANGED <<pid, waits, proc, texts, history>>,
         \A d \in Terminal : state'[d] = "running" => state[d] = "running",
         \A u \in Slot : xhr'[u] = xhr[u] \/ (Quiet(xhr[u]) /\ Quiet(xhr'[u]))
  PROVE  PollInv'
<1>1. UNCHANGED <<shown, received, maker, replaced, failed>> /\ Ahead
  BY AheadSame DEF texts, history
<1>2. PollsOK'
  <2>1. ASSUME NEW u \in Slot PROVE PollOK(xhr[u])'
    <3>1. CASE xhr'[u] = xhr[u]
      BY <1>1, <3>1, PollStays
    <3>2. CASE Quiet(xhr'[u])
      BY <3>2 DEF PollOK, Quiet
    <3> QED BY <3>1, <3>2
  <2> QED BY <2>1 DEF PollsOK
<1>3. PidOK' /\ WaitsOK' /\ OutOK' /\ SeenOK' /\ TextRight'
  <2>1. PidOK' /\ WaitsOK' /\ OutOK'
    BY ZenonT(40), <1>1 DEF PollInv, PidOK, WaitsOK, OutOK, Known, Made
  <2>2. SeenOK' /\ TextRight'
    BY <1>1 DEF PollInv, SeenOK, TextRight
  <2> QED BY <2>1, <2>2
<1>4. FreshOK'
  <2> SUFFICES ASSUME NEW v \in Slot, Fresh(xhr'[v])
               PROVE  /\ maker[xhr'[v].k] = xhr'[v].d /\ proc[xhr'[v].k].state \notin {"none", "gone", "reused"}
                      /\ \A u \in Slot : u # v /\ (Fresh(xhr'[u]) \/ xhr'[u].kind = "poll") => xhr'[u].k # xhr'[v].k
                      /\ \A e \in Terminal : waits'[e, xhr'[v].k] = 0
    BY ZenonT(40), <1>1 DEF FreshOK, Made, Fresh
  <2>1. xhr'[v] = xhr[v]
    BY DEF Quiet
  <2>2. \A u \in Slot : Fresh(xhr'[u]) \/ xhr'[u].kind = "poll" => xhr'[u] = xhr[u]
    BY DEF Quiet
  <2>3. /\ Made(xhr[v].k, xhr[v].d) /\ proc[xhr[v].k].state \notin {"gone", "reused"}
        /\ \A u \in Slot : u # v /\ (Fresh(xhr[u]) \/ xhr[u].kind = "poll") => xhr[u].k # xhr[v].k
        /\ \A e \in Terminal : waits[e, xhr[v].k] = 0
    BY <2>1 DEF PollInv, FreshOK
  <2>4. \A u \in Slot : u # v /\ (Fresh(xhr'[u]) \/ xhr'[u].kind = "poll") => xhr'[u].k # xhr[v].k
    BY <2>2, <2>3
  <2> QED BY <2>1, <2>3, <2>4 DEF Made
<1>5. \A u \in Slot : xhr[u].kind = "poll" => xhr'[u] = xhr[u]
  BY DEF Quiet
<1>6. GoneOK'
  <2> SUFFICES ASSUME NEW d \in Terminal, state'[d] = "running", pid[d] \in 1..9, ~failed, proc[pid[d]].state \in {"gone", "reused"}
               PROVE  \E u \in Slot : Tells(xhr[u], d)'
    BY <1>1 DEF GoneOK
  <2>1. PICK u \in Slot : Tells(xhr[u], d)
    BY DEF PollInv, GoneOK
  <2>2. Tells(xhr[u], d)'
    BY <1>5, <2>1 DEF Tells
  <2> QED BY <2>2
<1>7. PollsGoOn'
  <2> SUFFICES ASSUME NEW d \in Terminal, state'[d] = "running", pid[d] \in 1..9, ~failed, ~(waits[d, pid[d]] > 0)
               PROVE  \E u \in Slot : xhr'[u].kind = "poll" /\ xhr'[u].k = pid[d] /\ xhr'[u].d = d
    BY <1>1 DEF PollsGoOn
  <2>1. PICK u \in Slot : xhr[u].kind = "poll" /\ xhr[u].k = pid[d] /\ xhr[u].d = d
    BY DEF PollInv, PollsGoOn
  <2> QED BY <1>5, <2>1
<1> QED BY <1>2, <1>3, <1>4, <1>6, <1>7 DEF PollInv

LEMMA ServeCreateInv == ASSUME TypeInv, PollInv, NEW s \in Slot, ServeCreate(s) PROVE PollInv'
<1>0. xhr[s].kind = "create" /\ xhr[s].status = 0 /\ xhr[s].d \in Terminal
  BY DEF ServeCreate, TypeInv, XhrType, RequestOK
<1>1. CASE Refuse(s) /\ UNCHANGED <<proc, maker>>
  <2>1. /\ \A u \in Slot : u # s => xhr'[u] = xhr[u]
        /\ xhr'[s].kind = "create" /\ xhr'[s].status = 404
    BY <1>0, <1>1, Refused DEF TypeInv
  <2>2. \A u \in Slot : xhr'[u] = xhr[u] \/ (Quiet(xhr[u]) /\ Quiet(xhr'[u]))
    BY <1>0, <2>1 DEF Quiet, Fresh
  <2> QED BY <1>1, <2>2, QuietInv DEF ServeCreate, page, texts, history
<1>2. ASSUME NEW k \in Pids, \A j \in Pids : j >= k => proc[j].state = "none",
             NEW stale, Spawn(k, stale), maker' = [maker EXCEPT ![k] = xhr[s].d], Given(s, k)
      PROVE  PollInv'
  <2>1. /\ Fresh(xhr'[s]) /\ xhr'[s].k = k /\ xhr'[s].d = xhr[s].d
        /\ \A u \in Slot : u # s => xhr'[u] = xhr[u]
    BY <1>0, <1>2, CreatedEffect DEF TypeInv
  <2>2. proc[k].state = "none"
    BY <1>2, TerminalAssumption
  <2>3. /\ proc'[k].state = "run" /\ maker'[k] = xhr[s].d
        /\ \A j \in Pids : /\ proc'[j].out = proc[j].out
                           /\ j # k => proc'[j].state = proc[j].state /\ maker'[j] = maker[j]
    BY <1>2, SpawnEffect DEF TypeInv, TextType
  <2>4. UNCHANGED <<state, pid, waits, shown, received, replaced, failed>>
    BY DEF ServeCreate, page, texts
  <2>5. Ahead
    BY <2>2, <2>3, <2>4 DEF Ahead
  <2>6. PollsOK'
    <3>1. ASSUME NEW u \in Slot PROVE PollOK(xhr[u])'
      <4>1. CASE u # s
        BY <2>1, <2>5, <4>1, PollStays
      <4>2. CASE u = s
        BY <2>1, <4>2 DEF PollOK, Fresh
      <4> QED BY <4>1, <4>2
    <3> QED BY <3>1 DEF PollsOK
  <2>7. WaitsOK'
    BY <2>4, <2>5, WaitStays DEF WaitsOK
  <2>8. PidOK'
    <3> SUFFICES ASSUME NEW d \in Terminal, pid[d] # None PROVE maker'[pid[d]] = d /\ proc'[pid[d]].state # "none"
      BY <2>4 DEF PidOK, Made
    <3>1. pid[d] \in Pids /\ Made(pid[d], d)
      BY DEF TypeInv, PageType, Pid, PollInv, PidOK
    <3> QED BY <2>5, <3>1 DEF Ahead, Made
  <2>9. FreshOK'
    <3> SUFFICES ASSUME NEW v \in Slot, Fresh(xhr'[v])
                 PROVE  /\ maker'[xhr'[v].k] = xhr'[v].d /\ proc'[xhr'[v].k].state \notin {"none", "gone", "reused"}
                        /\ \A u \in Slot : u # v /\ (Fresh(xhr'[u]) \/ xhr'[u].kind = "poll") => xhr'[u].k # xhr'[v].k
                        /\ \A e \in Terminal : waits'[e, xhr'[v].k] = 0
      BY ZenonT(40) DEF FreshOK, Made, Fresh
    <3>1. ASSUME NEW u \in Slot, u # s, Fresh(xhr[u]) \/ xhr[u].kind = "poll" PROVE xhr[u].k # k
      BY <2>2, <3>1 DEF PollInv, FreshOK, PollsOK, PollOK, Known, Made
    <3>2. CASE v = s
      <4>1. \A e \in Terminal : waits[e, k] = 0
        <5> SUFFICES ASSUME NEW e \in Terminal, waits[e, k] > 0 PROVE FALSE
          BY <1>2, WaitsNat
        <5> QED BY <1>2, <2>2 DEF PollInv, WaitsOK, Known, Made
      <4>2. \A u \in Slot : u # s /\ (Fresh(xhr'[u]) \/ xhr'[u].kind = "poll") => xhr'[u].k # k
        BY <2>1, <3>1
      <4> QED BY <2>1, <2>3, <2>4, <3>2, <4>1, <4>2
    <3>3. CASE v # s
      <4>1. /\ Made(xhr[v].k, xhr[v].d) /\ proc[xhr[v].k].state \notin {"gone", "reused"} /\ xhr[v].k \in Pids
            /\ \A u \in Slot : u # v /\ (Fresh(xhr[u]) \/ xhr[u].kind = "poll") => xhr[u].k # xhr[v].k
            /\ \A e \in Terminal : waits[e, xhr[v].k] = 0
        BY <2>1, <3>3 DEF PollInv, FreshOK, TypeInv, XhrType, RequestOK
      <4>2. xhr[v].k # k /\ xhr'[v] = xhr[v]
        BY <2>1, <3>1, <3>3
      <4>3. \A u \in Slot : u # v /\ (Fresh(xhr'[u]) \/ xhr'[u].kind = "poll") => xhr'[u].k # xhr[v].k
        BY <2>1, <4>1, <4>2
      <4> QED BY <2>3, <2>4, <4>1, <4>2, <4>3 DEF Made
    <3> QED BY <3>2, <3>3
  <2>10. OutOK'
    BY <1>0, <2>3 DEF PollInv, OutOK
  <2>11. SeenOK'
    BY <2>4, <2>5 DEF PollInv, SeenOK, Ahead
  <2>12. ASSUME NEW j \in Pids, proc[j].state # "none" PROVE maker'[j] = maker[j] /\ proc'[j].state = proc[j].state
    BY <2>2, <2>3, <2>12
  <2>13. TextRight'
    BY <2>4, <2>12 DEF PollInv, SeenOK, TextRight
  <2>14. GoneOK'
    <3> SUFFICES ASSUME NEW d \in Terminal, state[d] = "running", pid[d] \in 1..9, ~failed, proc'[pid[d]].state \in {"gone", "reused"}
                 PROVE  \E u \in Slot : Tells(xhr[u], d)'
      BY <2>4 DEF GoneOK
    <3>1. pid[d] \in Pids /\ proc[pid[d]].state \in {"gone", "reused"}
      <4>1. pid[d] \in Pids
        BY TerminalAssumption DEF TypeInv, PageType, Pid
      <4> QED BY <2>3, <4>1
    <3>2. PICK u \in Slot : Tells(xhr[u], d)
      BY <3>1 DEF PollInv, GoneOK
    <3>3. u # s
      BY <1>0, <3>2 DEF Tells
    <3>4. Tells(xhr[u], d)'
      BY <2>1, <2>4, <3>2, <3>3 DEF Tells
    <3> QED BY <3>4
  <2>15. PollsGoOn'
    <3> SUFFICES ASSUME NEW d \in Terminal, state[d] = "running", pid[d] \in 1..9, ~failed, ~(waits[d, pid[d]] > 0)
                 PROVE  \E u \in Slot : xhr'[u].kind = "poll" /\ xhr'[u].k = pid[d] /\ xhr'[u].d = d
      BY <2>4 DEF PollsGoOn
    <3>1. PICK u \in Slot : xhr[u].kind = "poll" /\ xhr[u].k = pid[d] /\ xhr[u].d = d
      BY DEF PollInv, PollsGoOn
    <3> QED BY <1>0, <2>1, <3>1
  <2> QED BY <2>6, <2>7, <2>8, <2>9, <2>10, <2>11, <2>13, <2>14, <2>15 DEF PollInv
<1> QED BY <1>1, <1>2 DEF ServeCreate, Given, Spawn

LEMMA ServePollInv == ASSUME TypeInv, PollInv, NEW s \in Slot, ServePoll(s) PROVE PollInv'
<1>0. /\ xhr[s].kind = "poll" /\ xhr[s].at = "sent" /\ xhr[s].d \in Terminal /\ xhr[s].k \in Pids
      /\ Known(xhr[s].k, xhr[s].d) /\ xhr[s].status = 0
  BY LoadedType DEF ServePoll, PollInv, PollsOK, PollOK, TypeInv, XhrType, RequestOK
<1>1. PICK k \in Pids, d \in Terminal :
        k = xhr[s].k /\ d = xhr[s].d /\ xhr[s].kind = "poll" /\ xhr[s].status = 0 /\ Known(k, d)
  BY <1>0
<1> DEFINE Served(bytes, status, digit) ==
             /\ Answered(s, status, digit, bytes)
             /\ \/ /\ proc[k].state \in {"gone", "reused"} /\ UNCHANGED proc
                   /\ status = 404 /\ digit = 4 /\ bytes = <<>>
                \/ /\ status = (IF proc[k].state = "halted" THEN 201 ELSE 200) /\ digit = FirstDigit(k)
                   /\ \E j \in Pids : (bytes = <<>> \/ OutputOf(k, j, bytes)) /\ Drained(k, j)
<1>1a. \E bytes, status, digit : Served(bytes, status, digit)
  <2>1. CASE proc[k].state \in {"gone", "reused"} /\ UNCHANGED proc /\ Answered(s, 404, 4, <<>>)
    <3>1. Served(<<>>, 404, 4)
      BY <2>1
    <3> HIDE DEF Served
    <3> QED BY <3>1
  <2>2. ASSUME NEW j \in Pids, NEW bytes, bytes = <<>> \/ OutputOf(k, j, bytes), Drained(k, j),
               Answered(s, IF proc[k].state = "halted" THEN 201 ELSE 200, FirstDigit(k), bytes)
        PROVE  \E b, status, digit : Served(b, status, digit)
    <3>1. Served(bytes, IF proc[k].state = "halted" THEN 201 ELSE 200, FirstDigit(k))
      BY <2>2
    <3> HIDE DEF Served
    <3> QED BY <3>1
  <2> HIDE DEF Served
  <2> QED BY <1>1, <2>1, <2>2, ServePollEffect
<1>2. PICK bytes, status, digit : Served(bytes, status, digit)
  BY <1>1a
<1>3. /\ xhr'[s].kind = "poll" /\ xhr'[s].d = d /\ xhr'[s].k = k /\ xhr'[s].at = "answered"
      /\ xhr'[s].status = status /\ xhr'[s].digit = digit /\ xhr'[s].bytes = bytes
      /\ \A u \in Slot : u # s => xhr'[u] = xhr[u]
  BY <1>1, <1>2 DEF Answered
<1>4. UNCHANGED <<state, pid, waits, shown, received, maker, replaced, failed>>
  BY DEF ServePoll, page, texts, history
<1>5. /\ \A j \in Pids : /\ j # k => proc'[j].state = proc[j].state
                         /\ proc'[j].out = proc[j].out \/ proc'[j].out = <<>>
      /\ proc'[k].state # proc[k].state
           => proc[k].state = "halted" /\ proc'[k].state = "gone" /\ xhr'[s].status = 201
  <2>1. CASE UNCHANGED proc
    BY <2>1
  <2>2. CASE status = (IF proc[k].state = "halted" THEN 201 ELSE 200) /\ \E j \in Pids : Drained(k, j)
    BY <1>3, <2>2, DrainedEffect
  <2> QED BY <1>2, <2>1, <2>2
\* What the answer carries is k's, unless k is gone.
<1>5a. \A i \in DOMAIN bytes : bytes[i][1] = k \/ proc[k].state \in {"gone", "reused"}
  <2>1. CASE bytes = <<>>
    BY <2>1
  <2>2. ASSUME NEW j \in Pids, OutputOf(k, j, bytes)
        PROVE  \A i \in DOMAIN bytes : bytes[i][1] = k \/ proc[k].state \in {"gone", "reused"}
    <3>1. j = k \/ proc[k].state = "gone"
      BY <2>2 DEF OutputOf, Source
    <3>2. \A n \in DOMAIN proc[j].out : proc[j].out[n][1] = j
      BY DEF PollInv, OutOK
    <3> QED BY <2>2, <3>1, <3>2 DEF OutputOf
  <2> QED BY <1>2, <2>1, <2>2
\* The other requests, and this one, which is a poll of k.
<1>5b. \A u \in Slot : \/ u # s /\ xhr'[u] = xhr[u]
                       \/ u = s /\ xhr'[u].kind = "poll" /\ xhr'[u].k = k /\ xhr'[u].d = d
  BY <1>3
<1>6. Ahead
  BY <1>1, <1>4, <1>5 DEF Ahead
<1>7. PollsOK'
  <2>1. ASSUME NEW u \in Slot, u # s PROVE PollOK(xhr[u])'
    BY <1>3, <1>6, <2>1, PollStays
  <2>2. PollOK(xhr[s])'
    <3>1. Known(k, d)'
      BY <1>1, <1>6, KnownStays DEF Known, Made
    <3>2. \/ status \in {200, 201} /\ digit = FirstDigit(k)
          \/ status = 404 /\ digit = 4 /\ bytes = <<>> /\ proc[k].state \in {"gone", "reused"}
      BY <1>2
    <3>3. proc[k].state \in {"gone", "reused"} => proc'[k].state \in {"gone", "reused"}
      BY <1>6 DEF Ahead
    <3>4. AnswerOK(xhr[s])'
      BY <1>3, <1>5a, <3>2, <3>3 DEF AnswerOK
    <3> QED BY <1>3, <3>1, <3>4 DEF PollOK, Known, Made
  <2> QED BY <2>1, <2>2 DEF PollsOK
<1>8. WaitsOK'
  BY <1>4, <1>6, WaitStays DEF WaitsOK
<1>9. \A j \in Pids : proc'[j].state # "none" <=> proc[j].state # "none"
  BY <1>5
<1>10. PidOK'
  BY <1>4, <1>9 DEF PollInv, PidOK, Made, TypeInv, PageType, Pid
<1>11. OutOK'
  BY <1>4, <1>5, <1>9 DEF PollInv, OutOK
<1>12. SeenOK' /\ TextRight'
  BY <1>4, <1>6, <1>9 DEF PollInv, SeenOK, TextRight, Ahead
<1>13. FreshOK'
  <2> SUFFICES ASSUME NEW v \in Slot, Fresh(xhr'[v])
               PROVE  /\ maker[xhr'[v].k] = xhr'[v].d /\ proc'[xhr'[v].k].state \notin {"none", "gone", "reused"}
                      /\ \A u \in Slot : u # v /\ (Fresh(xhr'[u]) \/ xhr'[u].kind = "poll") => xhr'[u].k # xhr'[v].k
                      /\ \A e \in Terminal : waits'[e, xhr'[v].k] = 0
    BY ZenonT(40), <1>4 DEF FreshOK, Made, Fresh
  <2>1. v # s /\ xhr'[v] = xhr[v]
    BY <1>3 DEF Fresh
  <2>2. /\ Made(xhr[v].k, xhr[v].d) /\ proc[xhr[v].k].state \notin {"gone", "reused"} /\ xhr[v].k \in Pids
        /\ \A u \in Slot : u # v /\ (Fresh(xhr[u]) \/ xhr[u].kind = "poll") => xhr[u].k # xhr[v].k
        /\ \A e \in Terminal : waits[e, xhr[v].k] = 0
    BY <2>1 DEF PollInv, FreshOK, TypeInv, XhrType, RequestOK
  <2>3. xhr[v].k # k
    BY <1>1, <2>1, <2>2
  <2>4. \A u \in Slot : u # v /\ (Fresh(xhr'[u]) \/ xhr'[u].kind = "poll") => xhr'[u].k # xhr[v].k
    <3> SUFFICES ASSUME NEW u \in Slot, u # v, Fresh(xhr'[u]) \/ xhr'[u].kind = "poll" PROVE xhr'[u].k # xhr[v].k
      OBVIOUS
    <3>1. CASE xhr'[u] = xhr[u]
      BY <2>2, <3>1
    <3>2. CASE xhr'[u].k = k
      BY <2>3, <3>2
    <3> QED BY <1>5b, <3>1, <3>2
  <2>5. proc'[xhr[v].k].state = proc[xhr[v].k].state
    BY <1>5, <2>2, <2>3
  <2> QED BY <1>4, <2>1, <2>2, <2>4, <2>5 DEF Made
<1>14. GoneOK'
  <2> SUFFICES ASSUME NEW e \in Terminal, state[e] = "running", pid[e] \in 1..9, ~failed, proc'[pid[e]].state \in {"gone", "reused"}
               PROVE  \E u \in Slot : Tells(xhr[u], e)'
    BY <1>4 DEF GoneOK
  <2>1. pid[e] \in Pids /\ Made(pid[e], e)
    BY TerminalAssumption DEF TypeInv, PageType, Pid, PollInv, PidOK
  <2>2. CASE proc[pid[e]].state \in {"gone", "reused"}
    <3>1. PICK u \in Slot : Tells(xhr[u], e)
      BY <2>2 DEF PollInv, GoneOK
    <3>2. u # s
      BY <1>1, <3>1 DEF Tells
    <3>3. Tells(xhr[u], e)'
      BY <1>3, <1>4, <3>1, <3>2 DEF Tells
    <3> QED BY <3>3
  <2>3. CASE proc[pid[e]].state \notin {"gone", "reused"}
    <3>1. pid[e] = k /\ xhr'[s].status = 201
      BY <1>5, <2>1, <2>3
    <3>2. e = d
      BY <1>1, <2>1, <3>1 DEF Known, Made
    <3>3. Tells(xhr[s], e)'
      BY <1>3, <1>4, <3>1, <3>2 DEF Tells
    <3> QED BY <3>3
  <2> QED BY <2>2, <2>3
<1>15. PollsGoOn'
  <2> SUFFICES ASSUME NEW e \in Terminal, state[e] = "running", pid[e] \in 1..9, ~failed, ~(waits[e, pid[e]] > 0)
               PROVE  \E u \in Slot : xhr'[u].kind = "poll" /\ xhr'[u].k = pid[e] /\ xhr'[u].d = e
    BY <1>4 DEF PollsGoOn
  <2>1. PICK u \in Slot : xhr[u].kind = "poll" /\ xhr[u].k = pid[e] /\ xhr[u].d = e
    BY DEF PollInv, PollsGoOn
  <2>2. xhr'[u].kind = "poll" /\ xhr'[u].k = xhr[u].k /\ xhr'[u].d = xhr[u].d
    BY <1>1, <1>5b, <2>1
  <2> QED BY <2>1, <2>2
<1> QED BY <1>7, <1>8, <1>10, <1>11, <1>12, <1>13, <1>14, <1>15 DEF PollInv

\* The steps of the server that no request asks for.
ProcsKept ==
  \A j \in Pids : /\ proc'[j].state # "none" <=> proc[j].state # "none"
                  /\ proc'[j].state \in {"gone", "reused"} <=> proc[j].state \in {"gone", "reused"}

LEMMA ProcInv ==
  ASSUME TypeInv, PollInv, UNCHANGED <<page, xhr, texts, history>>,
         ProcsKept, \A j \in Pids : \A i \in DOMAIN proc'[j].out : proc'[j].out[i][1] = j
  PROVE  PollInv'
<1>1. UNCHANGED <<state, pid, waits, xhr, shown, received, maker, replaced, failed>>
  BY DEF page, texts, history
<1>3. Ahead
  BY <1>1 DEF Ahead, ProcsKept
<1>5. PollsOK'
  BY <1>1, <1>3, PollStays DEF PollsOK
<1>6. WaitsOK'
  BY <1>1, <1>3, WaitStays DEF WaitsOK
<1>7. PidOK'
  BY <1>1 DEF ProcsKept, PollInv, PidOK, Made, TypeInv, PageType, Pid
<1>8. OutOK'
  BY <1>1 DEF ProcsKept, PollInv, OutOK
<1>9. SeenOK' /\ TextRight'
  BY <1>1 DEF ProcsKept, PollInv, SeenOK, TextRight
<1>10. FreshOK'
  <2> SUFFICES ASSUME NEW v \in Slot, Fresh(xhr'[v])
               PROVE  /\ maker[xhr'[v].k] = xhr'[v].d /\ proc'[xhr'[v].k].state \notin {"none", "gone", "reused"}
                      /\ \A u \in Slot : u # v /\ (Fresh(xhr'[u]) \/ xhr'[u].kind = "poll") => xhr'[u].k # xhr'[v].k
                      /\ \A e \in Terminal : waits'[e, xhr'[v].k] = 0
    BY ZenonT(40), <1>1 DEF FreshOK, Made, Fresh
  <2>1. /\ Made(xhr[v].k, xhr[v].d) /\ proc[xhr[v].k].state \notin {"gone", "reused"} /\ xhr[v].k \in Pids
        /\ \A u \in Slot : u # v /\ (Fresh(xhr[u]) \/ xhr[u].kind = "poll") => xhr[u].k # xhr[v].k
        /\ \A e \in Terminal : waits[e, xhr[v].k] = 0
    BY <1>1 DEF PollInv, FreshOK, TypeInv, XhrType, RequestOK
  <2>2. proc'[xhr[v].k].state \notin {"none", "gone", "reused"}
    BY <2>1 DEF Made, ProcsKept
  <2> QED BY <1>1, <2>1, <2>2 DEF Made
<1>11. GoneOK'
  <2> SUFFICES ASSUME NEW e \in Terminal, state[e] = "running", pid[e] \in 1..9, ~failed, proc'[pid[e]].state \in {"gone", "reused"}
               PROVE  \E u \in Slot : Tells(xhr[u], e)
    BY <1>1 DEF GoneOK, Tells
  <2>1. pid[e] \in Pids
    BY TerminalAssumption DEF TypeInv, PageType, Pid
  <2> QED BY <2>1 DEF ProcsKept, PollInv, GoneOK
<1>12. PollsGoOn'
  <2> SUFFICES ASSUME NEW e \in Terminal, state[e] = "running", pid[e] \in 1..9, ~failed, ~(waits[e, pid[e]] > 0)
               PROVE  \E u \in Slot : xhr'[u].kind = "poll" /\ xhr'[u].k = pid[e] /\ xhr'[u].d = e
    BY <1>1 DEF PollsGoOn
  <2>1. PICK u \in Slot : xhr[u].kind = "poll" /\ xhr[u].k = pid[e] /\ xhr[u].d = e
    BY DEF PollInv, PollsGoOn
  <2> QED BY <1>1, <2>1
<1> QED BY <1>5, <1>6, <1>7, <1>8, <1>9, <1>10, <1>11, <1>12 DEF PollInv

LEMMA RunInv == ASSUME TypeInv, PollInv, NEW k \in Pids, Run(k) PROVE PollInv'
<1>1. UNCHANGED <<state, pid, waits, xhr, shown, received, maker, replaced, failed>> /\ proc[k].state = "run"
  BY DEF Run, page, texts, history
<1>2. /\ \A j \in Pids : j # k => proc'[j] = proc[j]
      /\ proc'[k].state \in {"run", "halted"}
      /\ \A i \in DOMAIN proc'[k].out : proc'[k].out[i][1] = k
  <2>1. \A i \in DOMAIN proc[k].out : proc[k].out[i][1] = k
    BY DEF PollInv, OutOK
  <2>2. CASE proc' = [proc EXCEPT ![k].state = "halted"]
    BY <2>1, <2>2 DEF TypeInv, TextType, Process
  <2>3. CASE proc' = [proc EXCEPT ![k].wrote = @ + 1, ![k].out = Append(@, <<k, proc[k].wrote + 1>>)]
    <3> DEFINE b == <<k, proc[k].wrote + 1>>
               out == Append(proc[k].out, b)
    <3>1. b[1] = k
      OBVIOUS
    <3> HIDE DEF b
    <3>2. proc[k].out \in Seq(Byte)
      BY DEF TypeInv, TextType, Process
    <3>3. \A i \in DOMAIN out : out[i] = b \/ (i \in DOMAIN proc[k].out /\ out[i] = proc[k].out[i])
      BY <3>2
    <3>4. \A i \in DOMAIN out : out[i][1] = k
      BY <2>1, <3>1, <3>3
    <3>5. proc'[k].out = out /\ proc'[k].state = "run" /\ \A j \in Pids : j # k => proc'[j] = proc[j]
      BY <1>1, <2>3 DEF TypeInv, TextType, Process, b
    <3> HIDE DEF out
    <3> QED BY <3>4, <3>5
  <2> QED BY <2>2, <2>3 DEF Run
<1>3. ProcsKept
  BY <1>1, <1>2 DEF ProcsKept
<1>4. ASSUME NEW j \in Pids PROVE \A i \in DOMAIN proc'[j].out : proc'[j].out[i][1] = j
  <2>1. CASE j = k
    BY <1>2, <2>1
  <2>2. CASE j # k
    BY <1>2, <2>2 DEF PollInv, OutOK
  <2> QED BY <2>1, <2>2
<1> QED BY <1>3, <1>4, ProcInv DEF Run

LEMMA ReuseInv == ASSUME TypeInv, PollInv, NEW k \in Pids, Reuse(k) PROVE PollInv'
<1>1. proc[k].state = "gone" /\ proc' = [proc EXCEPT ![k].state = "reused", ![k].heir = None]
  BY DEF Reuse
<1>2. /\ \A j \in Pids : j # k => proc'[j] = proc[j]
      /\ proc'[k].state = "reused" /\ proc'[k].out = proc[k].out
  BY <1>1 DEF TypeInv, TextType, Process
<1>3. ProcsKept
  BY <1>1, <1>2 DEF ProcsKept
<1>4. ASSUME NEW j \in Pids PROVE \A i \in DOMAIN proc'[j].out : proc'[j].out[i][1] = j
  <2>1. CASE j = k
    BY <1>2, <2>1 DEF PollInv, OutOK
  <2>2. CASE j # k
    BY <1>2, <2>2 DEF PollInv, OutOK
  <2> QED BY <2>1, <2>2
<1> QED BY <1>3, <1>4, ProcInv DEF Reuse

LEMMA FailInv == ASSUME TypeInv, PollInv, NEW s \in Slot, Fail(s) PROVE PollInv'
<1>1. /\ UNCHANGED <<state, pid, waits, proc, shown, received, maker, replaced>> /\ failed' = TRUE
      /\ xhr' = [xhr EXCEPT ![s] = Idle] /\ Ahead
  BY AheadSame DEF Fail, page, texts
<1>2. xhr'[s].kind = "idle" /\ \A u \in Slot : u # s => xhr'[u] = xhr[u]
  BY <1>1, NewType DEF TypeInv, XhrType
<1>3. PollsOK'
  <2>1. PollOK(xhr[s])'
    BY <1>2 DEF PollOK
  <2>2. ASSUME NEW u \in Slot, u # s PROVE PollOK(xhr[u])'
    BY <1>1, <1>2, <2>2, PollStays
  <2> QED BY <2>1, <2>2 DEF PollsOK
<1>4. PidOK' /\ WaitsOK' /\ OutOK' /\ SeenOK' /\ TextRight'
  BY ZenonT(40), <1>1 DEF PollInv, PidOK, WaitsOK, OutOK, SeenOK, TextRight, Known, Made
<1>5. FreshOK'
  <2> SUFFICES ASSUME NEW v \in Slot, Fresh(xhr'[v])
               PROVE  /\ maker[xhr'[v].k] = xhr'[v].d /\ proc[xhr'[v].k].state \notin {"none", "gone", "reused"}
                      /\ \A u \in Slot : u # v /\ (Fresh(xhr'[u]) \/ xhr'[u].kind = "poll") => xhr'[u].k # xhr'[v].k
                      /\ \A e \in Terminal : waits'[e, xhr'[v].k] = 0
    BY ZenonT(40), <1>1 DEF FreshOK, Made, Fresh
  <2>1. xhr'[v] = xhr[v] /\ \A u \in Slot : Fresh(xhr'[u]) \/ xhr'[u].kind = "poll" => xhr'[u] = xhr[u]
    BY <1>2 DEF Fresh
  <2>2. /\ Made(xhr[v].k, xhr[v].d) /\ proc[xhr[v].k].state \notin {"gone", "reused"}
        /\ \A u \in Slot : u # v /\ (Fresh(xhr[u]) \/ xhr[u].kind = "poll") => xhr[u].k # xhr[v].k
        /\ \A e \in Terminal : waits[e, xhr[v].k] = 0
    BY <2>1 DEF PollInv, FreshOK
  <2>3. \A u \in Slot : u # v /\ (Fresh(xhr'[u]) \/ xhr'[u].kind = "poll") => xhr'[u].k # xhr[v].k
    BY <2>1, <2>2
  <2> QED BY <1>1, <2>1, <2>2, <2>3 DEF Made
<1>6. GoneOK' /\ PollsGoOn'
  BY <1>1 DEF GoneOK, PollsGoOn
<1> QED BY <1>3, <1>4, <1>5, <1>6 DEF PollInv

LEMMA TimerInv ==
  ASSUME TypeInv, PollInv, NEW d \in Terminal, NEW k \in Pids, Timer(d, k) PROVE PollInv'
<1>1. UNCHANGED <<state, pid, proc, shown, received, maker, replaced, failed>> /\ Ahead
  BY AheadSame DEF Timer, texts, history
<1>2. /\ waits[d, k] > 0
      /\ \A e \in Terminal, j \in Pids : /\ waits'[e, j] = waits[e, j] \/ (e = d /\ j = k)
                                         /\ waits'[e, j] > 0 => waits[e, j] > 0
  BY TimerEffect DEF TypeInv, PageType
<1>3. /\ \A u \in Slot : xhr'[u] = xhr[u] \/ (xhr[u].kind = "idle" /\ xhr'[u] = New("poll", d, k))
      /\ \E u \in Slot : xhr'[u] = New("poll", d, k)
  <2> DEFINE r == New("poll", d, k)
  <2>1. r \in Requests /\ RequestOK(r)
    BY NewType
  <2>2. XhrType /\ \E s \in Free(xhr) : xhr' = [xhr EXCEPT ![s] = r]
    BY DEF Timer, TypeInv
  <2> HIDE DEF r
  <2>3. /\ \A u \in Slot : xhr'[u] = xhr[u] \/ (xhr[u].kind = "idle" /\ xhr'[u] = r)
        /\ \E u \in Slot : xhr'[u] = r
    BY <2>1, <2>2, NewRequest
  <2> QED BY <2>3 DEF r
<1>4. Known(k, d) /\ Known(k, d)'
  BY <1>1, <1>2 DEF PollInv, WaitsOK, Known, Made
<1>5. PollsOK'
  <2>1. ASSUME NEW u \in Slot PROVE PollOK(xhr[u])'
    BY <1>1, <1>3, <1>4, PollStays, NewPoll
  <2> QED BY <2>1 DEF PollsOK
<1>6. WaitsOK' /\ PidOK' /\ OutOK' /\ SeenOK' /\ TextRight'
  <2>1. WaitsOK' /\ PidOK' /\ OutOK'
    BY ZenonT(40), <1>1, <1>2 DEF PollInv, PidOK, WaitsOK, OutOK, Known, Made
  <2>2. SeenOK' /\ TextRight'
    BY <1>1 DEF PollInv, SeenOK, TextRight
  <2> QED BY <2>1, <2>2
<1>7. \A u \in Slot : \/ xhr'[u] = xhr[u]
                      \/ xhr'[u].kind = "poll" /\ xhr'[u].k = k
  BY <1>3, NewType
<1>8. FreshOK'
  <2> SUFFICES ASSUME NEW v \in Slot, Fresh(xhr'[v])
               PROVE  /\ maker[xhr'[v].k] = xhr'[v].d /\ proc[xhr'[v].k].state \notin {"none", "gone", "reused"}
                      /\ \A u \in Slot : u # v /\ (Fresh(xhr'[u]) \/ xhr'[u].kind = "poll") => xhr'[u].k # xhr'[v].k
                      /\ \A e \in Terminal : waits'[e, xhr'[v].k] = 0
    BY ZenonT(40), <1>1 DEF FreshOK, Made, Fresh
  <2>1. xhr'[v] = xhr[v]
    BY <1>7 DEF Fresh
  <2>2. /\ Made(xhr[v].k, xhr[v].d) /\ proc[xhr[v].k].state \notin {"gone", "reused"} /\ xhr[v].k \in Pids
        /\ \A u \in Slot : u # v /\ (Fresh(xhr[u]) \/ xhr[u].kind = "poll") => xhr[u].k # xhr[v].k
        /\ \A e \in Terminal : waits[e, xhr[v].k] = 0
    BY <2>1 DEF PollInv, FreshOK, TypeInv, XhrType, RequestOK
  <2>3. xhr[v].k # k
    <3> SUFFICES ASSUME xhr[v].k = k PROVE FALSE
      OBVIOUS
    <3> DEFINE w == waits[d, k]
    <3>1. w = 0 /\ w > 0
      BY <1>2, <2>2
    <3> HIDE DEF w
    <3> QED BY <3>1
  <2>4. \A u \in Slot : u # v /\ (Fresh(xhr'[u]) \/ xhr'[u].kind = "poll") => xhr'[u].k # xhr[v].k
    <3> SUFFICES ASSUME NEW u \in Slot, u # v, Fresh(xhr'[u]) \/ xhr'[u].kind = "poll" PROVE xhr'[u].k # xhr[v].k
      OBVIOUS
    <3>1. CASE xhr'[u] = xhr[u]
      BY <2>2, <3>1
    <3>2. CASE xhr'[u].k = k
      BY <2>3, <3>2
    <3> QED BY <1>7, <3>1, <3>2
  <2>5. \A e \in Terminal : waits'[e, xhr[v].k] = 0
    BY <1>2, <2>2, <2>3
  <2> QED BY <2>1, <2>2, <2>4, <2>5 DEF Made
<1>9. \A u \in Slot : xhr[u].kind = "poll" => xhr'[u] = xhr[u]
  BY <1>3
<1>10. GoneOK'
  <2> SUFFICES ASSUME NEW e \in Terminal, state[e] = "running", pid[e] \in 1..9, ~failed, proc[pid[e]].state \in {"gone", "reused"}
               PROVE  \E u \in Slot : Tells(xhr[u], e)'
    BY <1>1 DEF GoneOK
  <2>1. PICK u \in Slot : Tells(xhr[u], e)
    BY DEF PollInv, GoneOK
  <2>2. Tells(xhr[u], e)'
    BY <1>1, <1>9, <2>1 DEF Tells
  <2> QED BY <2>2
<1>11. \E u \in Slot : xhr'[u].kind = "poll" /\ xhr'[u].k = k /\ xhr'[u].d = d
  BY <1>3, IsPoll
<1>12. PollsGoOn'
  <2> SUFFICES ASSUME NEW e \in Terminal, state[e] = "running", pid[e] \in 1..9, ~failed, ~(waits'[e, pid[e]] > 0)
               PROVE  \E u \in Slot : xhr'[u].kind = "poll" /\ xhr'[u].k = pid[e] /\ xhr'[u].d = e
    BY <1>1 DEF PollsGoOn
  <2>1. CASE e = d /\ pid[e] = k
    BY <1>11, <2>1
  <2>2. CASE ~(e = d /\ pid[e] = k)
    <3>1. pid[e] \in Pids
      BY TerminalAssumption DEF TypeInv, PageType, Pid
    <3>2. PICK u \in Slot : xhr[u].kind = "poll" /\ xhr[u].k = pid[e] /\ xhr[u].d = e
      BY ZenonT(40), <1>2, <2>2, <3>1 DEF PollInv, PollsGoOn
    <3> QED BY <1>9, <3>2
  <2> QED BY <2>1, <2>2
<1> QED BY <1>5, <1>6, <1>8, <1>10, <1>12 DEF PollInv

LEMMA CreatedInv == ASSUME TypeInv, PollInv, NEW s \in Slot, Created(s) PROVE PollInv'
<1>1. CASE ~Fresh(xhr[s]) /\ xhr' = [xhr EXCEPT ![s] = Idle] /\ UNCHANGED <<state, pid, waits, replaced>>
  <2>1. \A u \in Slot : xhr'[u] = xhr[u] \/ (Quiet(xhr[u]) /\ Quiet(xhr'[u]))
    <3>1. xhr'[s] = Idle /\ xhr[s].kind = "create" /\ \A u \in Slot : u # s => xhr'[u] = xhr[u]
      BY <1>1, CreatedPage DEF TypeInv, XhrType
    <3> QED BY <1>1, <3>1, NewType DEF Quiet, Fresh
  <2> QED BY <1>1, <2>1, CreatedPage, QuietInv DEF texts, history
<1>2. ASSUME NEW d \in Terminal, NEW k \in Pids, d = xhr[s].d, k = xhr[s].k, Fresh(xhr[s]),
             pid' = [pid EXCEPT ![d] = k], state' = [state EXCEPT ![d] = "running"],
             replaced' = replaced \cup ({pid[d]} \ {None}), Sends(s, Idle, d, k), GoesOn(d, k),
             UNCHANGED <<proc, shown, received, maker, failed>>
      PROVE  PollInv'
  <2>1. /\ pid'[d] = k /\ state'[d] = "running" /\ k # None
        /\ \A e \in Terminal : e # d => pid'[e] = pid[e] /\ state'[e] = state[e]
    BY <1>2, TerminalAssumption DEF TypeInv, PageType
  <2>2. /\ Made(k, d) /\ proc[k].state \notin {"gone", "reused"}
        /\ \A v \in Slot : v # s /\ Fresh(xhr[v]) => xhr[v].k # k
    BY <1>2 DEF PollInv, FreshOK
  <2>3. Ahead
    BY <1>2, <2>1 DEF Ahead
  <2>4. Known(k, d)'
    BY <1>2, <2>1, <2>2 DEF Known, Made
  <2>5. PollsOK' /\ WaitsOK'
    <3>1. xhr'[s] = Idle => PollOK(xhr[s])'
      BY NewType DEF PollOK
    <3> QED BY <1>2, <2>3, <2>4, <3>1, SendsPolls
  <2>6. FreshOK'
    BY <1>2, <2>2, NewType, SendsFresh
  <2>7. PidOK' /\ OutOK' /\ SeenOK'
    BY <1>2, <2>1, <2>2 DEF PollInv, PidOK, OutOK, SeenOK, Made
  <2>8. TextRight'
    BY <1>2 DEF PollInv, TextRight
  <2>9. \A u \in Slot : xhr[u].kind = "poll" => xhr'[u] = xhr[u]
    BY <1>2 DEF Sends, Fresh
  <2>10. GoneOK'
    <3> SUFFICES ASSUME NEW e \in Terminal, state'[e] = "running", pid'[e] \in 1..9, ~failed, proc[pid'[e]].state \in {"gone", "reused"}
                 PROVE  \E u \in Slot : Tells(xhr[u], e)'
      BY <1>2 DEF GoneOK
    <3>1. e # d
      BY <2>1, <2>2
    <3>2. PICK u \in Slot : Tells(xhr[u], e)
      BY <2>1, <3>1 DEF PollInv, GoneOK
    <3>3. Tells(xhr[u], e)'
      BY <2>1, <2>9, <3>1, <3>2 DEF Tells
    <3> QED BY <3>3
  <2>11. waits'[d, pid'[d]] > 0 \/ \E u \in Slot : xhr'[u].kind = "poll" /\ xhr'[u].k = pid'[d] /\ xhr'[u].d = d
    <3>1. waits'[d, k] > 0 \/ \E u \in Slot : xhr'[u].kind = "poll" /\ xhr'[u].k = k /\ xhr'[u].d = d
      BY ZenonT(40), <1>2, GoesOnPoll
    <3> QED BY <2>1, <3>1
  <2>12. PollsGoOn'
    <3> SUFFICES ASSUME NEW e \in Terminal, state'[e] = "running", pid'[e] \in 1..9, ~failed, ~(waits'[e, pid'[e]] > 0)
                 PROVE  \E u \in Slot : xhr'[u].kind = "poll" /\ xhr'[u].k = pid'[e] /\ xhr'[u].d = e
      BY <1>2 DEF PollsGoOn
    <3>1. CASE e = d
      BY <2>11, <3>1
    <3>2. CASE e # d
      <4>1. pid'[e] = pid[e] /\ state[e] = "running"
        BY <2>1, <3>2
      <4>2. pid[e] \in Pids
        BY <4>1 DEF TypeInv, PageType, Pid
      <4>3. PICK u \in Slot : xhr[u].kind = "poll" /\ xhr[u].k = pid[e] /\ xhr[u].d = e
        BY <1>2, <4>1, <4>2 DEF PollInv, PollsGoOn, Sends
      <4> QED BY <2>9, <4>1, <4>3
    <3> QED BY <3>1, <3>2
  <2> QED BY <2>5, <2>6, <2>7, <2>8, <2>10, <2>12 DEF PollInv
<1> QED BY <1>1, <1>2, CreatedPage DEF texts

\* An answer to a poll of k is shown, and a process's output is its maker's.
LEMMA ShowRight ==
  ASSUME TypeInv, PollInv, NEW s \in Slot, xhr[s].kind = "poll", xhr[s].at # "sent", Show(s),
         UNCHANGED <<pid, proc, maker, replaced>>, received' \in {received, received \cup Bytes(s)}
  PROVE  SeenOK' /\ TextRight'
<1>1. PICK k \in Pids, d \in Terminal : k = xhr[s].k /\ d = xhr[s].d
  BY LoadedType
<1>2. Known(k, d) /\ AnswerOK(xhr[s])
  BY <1>1 DEF PollInv, PollsOK, PollOK
<1>3. /\ \A t \in Bytes(s) : t[1] = k
      /\ \A b \in Byte : <<k, b>> \in Bytes(s) => b[1] = k \/ proc[k].state \in {"gone", "reused"}
      /\ Bytes(s) = {} \/ xhr[s].digit = FirstDigit(k)
  BY <1>1, <1>2 DEF AnswerOK, Bytes
<1>4. \A e \in Terminal : shown'[e] = IF e \in Targets(xhr[s].digit) THEN shown[e] \cup Bytes(s) ELSE shown[e]
  BY DEF Show
\* What appears anew is of a poll of k, in the terminal that has that Pid.
<1>5. ASSUME NEW e \in Terminal, NEW j \in Pids, NEW b \in Byte, <<j, b>> \in shown'[e], <<j, b>> \notin shown[e]
      PROVE  /\ j = k /\ (k < 10 => maker[k] = e)
             /\ b[1] = k \/ proc[k].state \in {"gone", "reused"}
  <2>1. e \in Targets(xhr[s].digit) /\ <<j, b>> \in Bytes(s)
    BY <1>4, <1>5
  <2>2. j = k
    <3>1. <<j, b>>[1] = k
      BY <1>3, <2>1
    <3> QED BY <3>1
  <2>3. k < 10 => pid[e] = k
    BY <1>3, <2>1, DigitType DEF Targets
  <2>4. k # None
    BY TerminalAssumption
  <2> QED BY <1>3, <2>1, <2>2, <2>3, <2>4 DEF PollInv, PidOK, Made
<1>6. ASSUME NEW t \in Bytes(s), k < 10 PROVE t \in shown'[d] \/ k \in replaced
  <2>1. xhr[s].digit = k
    BY <1>3, <1>6, DigitType
  <2> QED BY <1>2, <1>4, <2>1 DEF Known, Targets
<1>7. proc[k].state # "none" /\ maker[k] = d
  BY <1>2 DEF Known, Made
<1>8. ASSUME NEW j \in Pids, NEW b \in Byte, <<j, b>> \in received'
      PROVE  <<j, b>> \in received \/ (j = k /\ <<j, b>> \in Bytes(s))
  <2>1. <<j, b>> \in received \/ <<j, b>> \in Bytes(s)
    BY <1>8
  <2>2. CASE <<j, b>> \in Bytes(s)
    <3>1. <<j, b>>[1] = k
      BY <1>3, <2>2
    <3> QED BY <2>2, <3>1
  <2> QED BY <2>1, <2>2
<1>9. SeenOK'
  BY <1>5, <1>7, <1>8 DEF PollInv, SeenOK
<1>10. ASSUME NEW e \in Terminal, NEW j \in Pids, NEW b \in Byte, <<j, b>> \in shown'[e], j < 10
       PROVE  maker[j] = e /\ (b[1] = j \/ proc[j].state \in {"gone", "reused"})
  BY <1>5, <1>10 DEF PollInv, TextRight
<1>11. ASSUME NEW j \in Pids, NEW b \in Byte, <<j, b>> \in received', j < 10
       PROVE  <<j, b>> \in shown'[maker[j]] \/ j \in replaced
  <2>1. CASE j = k /\ <<j, b>> \in Bytes(s)
    BY <1>6, <1>7, <1>11, <2>1
  <2>2. CASE <<j, b>> \in received
    <3>1. <<j, b>> \in shown[maker[j]] \/ j \in replaced
      BY <1>11, <2>2 DEF PollInv, TextRight
    <3>2. maker[j] \in Terminal
      BY <2>2 DEF PollInv, OutOK, SeenOK
    <3> QED BY <1>4, <3>1, <3>2
  <2> QED BY <1>8, <1>11, <2>1, <2>2
<1> QED BY <1>9, <1>10, <1>11 DEF TextRight

\* What Loading and Done have in common.
LEMMA HandlerInv ==
  ASSUME TypeInv, PollInv, NEW s \in Slot, NEW r, xhr[s].kind = "poll", xhr[s].at # "sent", Show(s),
         Sends(s, r, xhr[s].d, xhr[s].k), r \in {Idle, Loaded(s)},
         UNCHANGED <<pid, proc, history>>, received' \in {received, received \cup Bytes(s)}
  PROVE  PidOK' /\ PollsOK' /\ WaitsOK' /\ FreshOK' /\ OutOK' /\ SeenOK' /\ TextRight'
<1>1. PICK k \in Pids, d \in Terminal : k = xhr[s].k /\ d = xhr[s].d
  BY LoadedType
<1>2. UNCHANGED <<maker, replaced, failed>> /\ Ahead
  BY AheadSame DEF history
<1>3. Known(k, d) /\ AnswerOK(xhr[s])
  BY <1>1 DEF PollInv, PollsOK, PollOK
<1>4. Known(k, d)'
  BY <1>2, <1>3, KnownStays DEF Known, Made
<1>5. xhr'[s] = r => PollOK(xhr[s])'
  <2>1. CASE xhr'[s] = Idle
    BY <2>1, NewType DEF PollOK
  <2>2. CASE xhr'[s] = Loaded(s)
    <3>1. /\ xhr'[s].kind = "poll" /\ xhr'[s].d = d /\ xhr'[s].k = k /\ xhr'[s].status = xhr[s].status
          /\ xhr'[s].digit = xhr[s].digit /\ xhr'[s].bytes = xhr[s].bytes
      BY <1>1, <2>2, LoadedType
    <3>2. AnswerOK(xhr[s])'
      BY <1>1, <1>3, <3>1 DEF AnswerOK
    <3> QED BY <1>4, <3>1, <3>2 DEF PollOK, Known, Made
  <2> QED BY <2>1, <2>2
<1>6. PollsOK' /\ WaitsOK'
  BY <1>1, <1>2, <1>4, <1>5, SendsPolls
<1>7. FreshOK'
  <2>1. r.kind = "idle" \/ (r.kind = "poll" /\ r.k = k)
    BY <1>1, NewType, LoadedType
  <2>2. \A v \in Slot : v # s /\ Fresh(xhr[v]) => xhr[v].k # k
    BY <1>1 DEF PollInv, FreshOK
  <2> QED BY <1>1, <1>2, <2>1, <2>2, SendsFresh
<1>8. PidOK' /\ OutOK'
  BY <1>2 DEF PollInv, PidOK, OutOK, Made
<1> QED BY <1>2, <1>6, <1>7, <1>8, ShowRight

LEMMA LoadingInv == ASSUME TypeInv, PollInv, NEW s \in Slot, Loading(s) PROVE PollInv'
<1>1. PICK k \in Pids, d \in Terminal : k = xhr[s].k /\ d = xhr[s].d
  BY LoadedType DEF Loading
<1>2. /\ xhr[s].kind = "poll" /\ xhr[s].at = "answered" /\ Show(s) /\ Sends(s, Loaded(s), d, k)
      /\ UNCHANGED <<state, pid, proc, received, history, failed>>
  BY <1>1, LoadingPage DEF history
<1>3. PidOK' /\ PollsOK' /\ WaitsOK' /\ FreshOK' /\ OutOK' /\ SeenOK' /\ TextRight'
  BY <1>1, <1>2, HandlerInv
<1>4. \A u \in Slot : xhr[u].kind = "poll" =>
        xhr'[u].kind = "poll" /\ xhr'[u].k = xhr[u].k /\ xhr'[u].d = xhr[u].d /\ xhr'[u].status = xhr[u].status
  <2>1. xhr'[s] = Loaded(s) /\ \A u \in Slot : u # s => xhr'[u] = xhr[u] \/ xhr[u].kind = "idle"
    BY <1>2, LoadedType DEF Sends
  <2> QED BY <1>2, <2>1, LoadedType
<1>5. GoneOK'
  BY <1>2, <1>4 DEF PollInv, GoneOK, Tells
<1>6. PollsGoOn'
  <2> SUFFICES ASSUME NEW e \in Terminal, state[e] = "running", pid[e] \in 1..9, ~failed, ~(waits'[e, pid[e]] > 0)
               PROVE  \E u \in Slot : xhr'[u].kind = "poll" /\ xhr'[u].k = pid[e] /\ xhr'[u].d = e
    BY <1>2 DEF PollsGoOn
  <2>1. pid[e] \in Pids
    BY TerminalAssumption DEF TypeInv, PageType, Pid
  <2>2. PICK u \in Slot : xhr[u].kind = "poll" /\ xhr[u].k = pid[e] /\ xhr[u].d = e
    BY <1>2, <2>1 DEF PollInv, PollsGoOn, Sends
  <2> QED BY <1>4, <2>2
<1> QED BY <1>3, <1>5, <1>6 DEF PollInv

LEMMA DoneInv == ASSUME TypeInv, PollInv, NEW s \in Slot, Done(s) PROVE PollInv'
<1>1. PICK k \in Pids, d \in Terminal : k = xhr[s].k /\ d = xhr[s].d
  BY DonePage
<1>2. /\ xhr[s].kind = "poll" /\ xhr[s].at = "loaded" /\ Show(s) /\ received' = received \cup Bytes(s)
      /\ Sends(s, Idle, d, k) /\ UNCHANGED <<pid, proc, history, failed>>
      /\ \/ Targets(xhr[s].digit) = {} /\ UNCHANGED state
         \/ xhr[s].status = 201 /\ state' = [state EXCEPT ![d] = "waiting"]
         \/ xhr[s].status # 201 /\ UNCHANGED state /\ GoesOn(d, k)
  BY <1>1, DonePage DEF history
<1>3. PidOK' /\ PollsOK' /\ WaitsOK' /\ FreshOK' /\ OutOK' /\ SeenOK' /\ TextRight'
  BY <1>1, <1>2, HandlerInv
<1>4. \A u \in Slot : xhr[u].kind = "poll" /\ u # s => xhr'[u] = xhr[u]
  BY <1>2 DEF Sends
<1>5. AnswerOK(xhr[s])
  BY <1>2 DEF PollInv, PollsOK, PollOK
\* A terminal that is running was running, and is not told of an end by this answer.
<1>6. ASSUME NEW e \in Terminal, state'[e] = "running"
      PROVE  state[e] = "running" /\ (e = d => xhr[s].status # 201 \/ Targets(xhr[s].digit) = {})
  BY <1>2, <1>6 DEF TypeInv, PageType
\* A process with a Pid of one digit finds its terminal, unless it is gone.
<1>7. /\ pid[d] = k /\ k \in 1..9 /\ xhr[s].status = 201 => Targets(xhr[s].digit) # {}
      /\ pid[d] = k /\ k \in 1..9 /\ Targets(xhr[s].digit) = {} => proc[k].state \in {"gone", "reused"}
  <2>1. \/ xhr[s].status \in {200, 201} /\ xhr[s].digit = FirstDigit(k)
        \/ xhr[s].status = 404 /\ proc[k].state \in {"gone", "reused"}
    BY <1>1, <1>5 DEF AnswerOK
  <2>2. k \in 1..9 => FirstDigit(k) = k
    BY DigitType
  <2> QED BY <2>1, <2>2 DEF Targets
<1>8. ASSUME NEW e \in Terminal, state'[e] = "running", pid[e] \in 1..9, ~failed, proc[pid[e]].state \in {"gone", "reused"}
      PROVE  \E u \in Slot : u # s /\ Tells(xhr[u], e)
  <2>1. PICK u \in Slot : Tells(xhr[u], e)
    BY <1>6, <1>8 DEF PollInv, GoneOK
  <2>2. u # s
    <3> SUFFICES ASSUME u = s PROVE FALSE
      OBVIOUS
    <3>1. e = d /\ pid[d] = k /\ k \in 1..9 /\ xhr[s].status = 201
      BY <1>1, <1>8, <2>1 DEF Tells
    <3> QED BY <1>6, <1>7, <1>8, <3>1
  <2> QED BY <2>1, <2>2
<1>9. GoneOK'
  <2> SUFFICES ASSUME NEW e \in Terminal, state'[e] = "running", pid[e] \in 1..9, ~failed, proc[pid[e]].state \in {"gone", "reused"}
               PROVE  \E u \in Slot : Tells(xhr[u], e)'
    BY <1>2 DEF GoneOK
  <2>1. PICK u \in Slot : u # s /\ Tells(xhr[u], e)
    BY <1>8
  <2>2. Tells(xhr[u], e)'
    BY <1>2, <1>4, <2>1 DEF Tells
  <2> QED BY <2>2
<1>10. PollsGoOn'
  <2> SUFFICES ASSUME NEW e \in Terminal, state'[e] = "running", pid[e] \in 1..9, ~failed, ~(waits'[e, pid[e]] > 0)
               PROVE  \E u \in Slot : xhr'[u].kind = "poll" /\ xhr'[u].k = pid[e] /\ xhr'[u].d = e
    BY ZenonT(40), <1>2 DEF PollsGoOn
  <2>1. pid[e] \in Pids
    BY <1>6, TerminalAssumption DEF TypeInv, PageType, Pid
  <2>2. PICK u \in Slot : xhr[u].kind = "poll" /\ xhr[u].k = pid[e] /\ xhr[u].d = e
    BY <1>2, <1>6, <2>1 DEF PollInv, PollsGoOn, Sends
  <2>3. CASE u # s
    BY <1>4, <2>2, <2>3
  <2>4. CASE u = s
    <3>1. e = d /\ pid[d] = k /\ k \in 1..9
      BY <1>1, <2>2, <2>4
    <3>2. CASE Targets(xhr[s].digit) = {}
      \* The process is gone, and another answer says so.
      <4>1. proc[pid[e]].state \in {"gone", "reused"}
        BY <1>7, <3>1, <3>2
      <4>2. PICK v \in Slot : v # s /\ Tells(xhr[v], e)
        BY <1>8, <4>1
      <4>3. xhr[v].kind = "poll" /\ xhr[v].k = pid[e] /\ xhr[v].d = e
        BY <4>2 DEF Tells
      <4>4. xhr'[v] = xhr[v]
        BY <1>4, <4>2, <4>3
      <4> QED BY <4>3, <4>4
    <3>3. CASE GoesOn(d, k)
      BY ZenonT(90), <3>1, <3>3, GoesOnPoll
    <3> QED BY <1>2, <1>6, <3>1, <3>2, <3>3
  <2> QED BY <2>3, <2>4
<1> QED BY <1>3, <1>9, <1>10 DEF PollInv

LEMMA KeyboardInv == ASSUME TypeInv, PollInv, NEW d \in Terminal, Keyboard(d) PROVE PollInv'
<1>1. CASE Type(d)
  BY <1>1, QuietInv DEF Type
<1>2. CASE Backspace(d)
  BY <1>2, QuietInv DEF Backspace
<1>3. CASE Enter(d)
  <2> DEFINE r == New("create", d, None)
  <2>1. r \in Requests /\ RequestOK(r) /\ Quiet(r)
    BY NewType DEF Quiet, Fresh
  <2>2. XhrType /\ \E s \in Free(xhr) : xhr' = [xhr EXCEPT ![s] = r]
    BY <1>3 DEF Enter, TypeInv
  <2> HIDE DEF r
  <2>3. \A u \in Slot : xhr'[u] = xhr[u] \/ (xhr[u].kind = "idle" /\ xhr'[u] = r)
    BY <2>1, <2>2, NewRequest
  <2>4. \A u \in Slot : xhr'[u] = xhr[u] \/ (Quiet(xhr[u]) /\ Quiet(xhr'[u]))
    BY <2>1, <2>3 DEF Quiet, Fresh
  <2> QED BY <1>3, <2>4, QuietInv DEF Enter
<1>4. CASE SendInput(d)
  <2> DEFINE r == New("flush", d, pid[d])
  <2>1. r \in Requests /\ RequestOK(r) /\ Quiet(r)
    <3>1. pid[d] \in Pids
      BY <1>4 DEF SendInput, TypeInv, PageType, Pid
    <3> QED BY <3>1, NewType DEF Quiet, Fresh
  <2>2. XhrType /\ \E s \in Free(xhr) : xhr' = [xhr EXCEPT ![s] = r]
    BY <1>4 DEF SendInput, TypeInv
  <2> HIDE DEF r
  <2>3. \A u \in Slot : xhr'[u] = xhr[u] \/ (xhr[u].kind = "idle" /\ xhr'[u] = r)
    BY <2>1, <2>2, NewRequest
  <2>4. \A u \in Slot : xhr'[u] = xhr[u] \/ (Quiet(xhr[u]) /\ Quiet(xhr'[u]))
    BY <2>1, <2>3 DEF Quiet, Fresh
  <2> QED BY <1>4, <2>4, QuietInv DEF SendInput
<1>5. CASE Continue(d)
  <2>1. \A e \in Terminal : state'[e] = "running" => state[e] = "running"
    BY <1>5 DEF Continue, TypeInv, PageType
  <2> QED BY <1>5, <2>1, QuietInv DEF Continue
<1> QED BY <1>1, <1>2, <1>3, <1>4, <1>5 DEF Keyboard

\* The server's answer to a post.
LEMMA FlushEffect ==
  ASSUME XhrType, NEW s \in Slot, ServeFlush(s)
  PROVE  /\ xhr[s].kind = "flush" /\ xhr'[s].kind = "flush" /\ xhr'[s].d = xhr[s].d
         /\ \A u \in Slot : u # s => xhr'[u] = xhr[u]
<1>1. CASE Refuse(s)
  BY <1>1, Refused DEF ServeFlush
<1>2. CASE Answer(s, 200, 2, <<>>)
  <2> DEFINE nothing == <<>>
             status  == 200
             digit   == 2
  <2>1. nothing \in Seq(Byte) /\ status \in {200, 201, 404} /\ digit \in Nat /\ Answer(s, status, digit, nothing)
    BY <1>2
  <2> HIDE DEF nothing, status, digit
  <2>2. xhr[s].kind = "flush"
    BY DEF ServeFlush
  <2> QED BY <2>1, <2>2, AnswerEffect
<1> QED BY <1>1, <1>2 DEF ServeFlush

LEMMA ServeFlushInv == ASSUME TypeInv, PollInv, NEW s \in Slot, ServeFlush(s) PROVE PollInv'
<1>1. \A u \in Slot : xhr'[u] = xhr[u] \/ (Quiet(xhr[u]) /\ Quiet(xhr'[u]))
  BY FlushEffect DEF TypeInv, Quiet, Fresh
<1> QED BY <1>1, QuietInv DEF ServeFlush, page

\* The page's answer to it.
LEMMA FlushedEffect ==
  ASSUME TypeInv, NEW s \in Slot, Flushed(s)
  PROVE  /\ xhr[s].kind = "flush" /\ xhr[s].d \in Terminal
         /\ xhr'[s].kind \in {"idle", "flush"} /\ (xhr'[s].kind = "flush" => xhr'[s].d = xhr[s].d)
         /\ \A u \in Slot : u # s => xhr'[u] = xhr[u]
<1>1. xhr[s].kind = "flush" /\ xhr[s].d \in Terminal /\ xhr[s].k \in Pids
  BY DEF Flushed, TypeInv, XhrType, RequestOK
<1>2. CASE xhr' = [xhr EXCEPT ![s] = Idle]
  <2>1. xhr'[s] = Idle /\ \A u \in Slot : u # s => xhr'[u] = xhr[u]
    BY <1>2 DEF TypeInv, XhrType
  <2> QED BY <1>1, <2>1, NewType
<1>3. CASE xhr' = [xhr EXCEPT ![s] = New("flush", xhr[s].d, xhr[s].k)]
  <2>1. xhr'[s] = New("flush", xhr[s].d, xhr[s].k) /\ \A u \in Slot : u # s => xhr'[u] = xhr[u]
    BY <1>3 DEF TypeInv, XhrType
  <2> QED BY <1>1, <2>1, NewType
<1> QED BY <1>2, <1>3 DEF Flushed

LEMMA FlushedInv == ASSUME TypeInv, PollInv, NEW s \in Slot, Flushed(s) PROVE PollInv'
<1>1. \A u \in Slot : xhr'[u] = xhr[u] \/ (Quiet(xhr[u]) /\ Quiet(xhr'[u]))
  BY FlushedEffect DEF Quiet, Fresh
<1> QED BY <1>1, QuietInv DEF Flushed

-----------------------------------------------------------------------------
(***************************************************************************)
(* The command.                                                            *)
(***************************************************************************)
\* The posts under way stay those of the same terminals, or end.
FlushesKept == \A u \in Slot : xhr'[u].kind = "flush" => xhr[u].kind = "flush" /\ xhr'[u].d = xhr[u].d

LEMMA CommandFrame ==
  ASSUME CommandInv, UNCHANGED <<buffer, line, calm>>, FlushesKept,
         \A d \in Terminal : state'[d] = "ready" => state[d] = "ready"
  PROVE  CommandInv'
<1>1. CalmOK'
  BY DEF CommandInv, CalmOK, FlushesKept
<1>2. CommandKept'
  BY DEF CommandInv, CommandKept
<1> QED BY <1>1, <1>2 DEF CommandInv

LEMMA TypeCommand == ASSUME TypeInv, CommandInv, NEW d \in Terminal, Type(d) PROVE CommandInv'
<1>1. /\ buffer' = [buffer EXCEPT ![d] = Append(buffer[d], pressed')]
      /\ line' = [line EXCEPT ![d] = Append(line[d], pressed')]
      /\ UNCHANGED <<state, xhr, calm>>
  BY DEF Type
<1>2. \A e \in Terminal : buffer[e] = line[e] => buffer'[e] = line'[e]
  BY <1>1 DEF TypeInv, KeyType
<1> QED BY <1>1, <1>2 DEF CommandInv, CalmOK, CommandKept

LEMMA BackspaceCommand == ASSUME TypeInv, CommandInv, NEW d \in Terminal, Backspace(d) PROVE CommandInv'
<1>1. /\ buffer' = [buffer EXCEPT ![d] = Shorter(buffer[d])]
      /\ line' = [line EXCEPT ![d] = Shorter(line[d])]
      /\ UNCHANGED <<state, xhr, calm>>
  BY DEF Backspace
<1>2. \A e \in Terminal : buffer[e] = line[e] => buffer'[e] = line'[e]
  BY <1>1 DEF TypeInv, KeyType
<1> QED BY <1>1, <1>2 DEF CommandInv, CalmOK, CommandKept

LEMMA EnterCommand == ASSUME TypeInv, CommandInv, NEW d \in Terminal, Enter(d) PROVE CommandInv'
<1>1. /\ buffer' = [buffer EXCEPT ![d] = <<>>] /\ line' = [line EXCEPT ![d] = <<>>]
      /\ UNCHANGED <<state, calm>>
  BY DEF Enter
<1>2. \A e \in Terminal : buffer[e] = line[e] => buffer'[e] = line'[e]
  BY <1>1 DEF TypeInv, KeyType
<1>3. FlushesKept
  <2> DEFINE r == New("create", d, None)
  <2>1. r \in Requests /\ RequestOK(r) /\ r.kind # "flush"
    BY NewType
  <2>2. XhrType /\ \E s \in Free(xhr) : xhr' = [xhr EXCEPT ![s] = r]
    BY DEF Enter, TypeInv
  <2> HIDE DEF r
  <2>3. \A u \in Slot : xhr'[u] = xhr[u] \/ xhr'[u] = r
    BY <2>1, <2>2, NewRequest
  <2> QED BY <2>1, <2>3 DEF FlushesKept
<1>4. CalmOK'
  BY <1>1, <1>3 DEF CommandInv, CalmOK, FlushesKept
<1> QED BY <1>1, <1>2, <1>4 DEF CommandInv, CommandKept

LEMMA SendInputCommand == ASSUME TypeInv, CommandInv, NEW d \in Terminal, SendInput(d) PROVE CommandInv'
<1>1. /\ state[d] = "running" /\ \A e \in Terminal : e # d => buffer'[e] = buffer[e]
      /\ UNCHANGED <<state, line, calm>>
  BY DEF SendInput, TypeInv, KeyType
<1>2. \A u \in Slot : xhr'[u] = xhr[u] \/ xhr'[u].d = d
  <2> DEFINE r == New("flush", d, pid[d])
  <2>1. r \in Requests /\ RequestOK(r) /\ r.d = d
    <3>1. pid[d] \in Pids
      BY <1>1 DEF TypeInv, PageType, Pid
    <3> QED BY <3>1, NewType
  <2>2. XhrType /\ \E s \in Free(xhr) : xhr' = [xhr EXCEPT ![s] = r]
    BY DEF SendInput, TypeInv
  <2> HIDE DEF r
  <2>3. \A u \in Slot : xhr'[u] = xhr[u] \/ xhr'[u] = r
    BY <2>1, <2>2, NewRequest
  <2> QED BY <2>1, <2>3
<1>3. CalmOK'
  BY <1>1, <1>2 DEF CommandInv, CalmOK
<1> QED BY <1>1, <1>3 DEF CommandInv, CommandKept

LEMMA ContinueCommand == ASSUME TypeInv, CommandInv, NEW d \in Terminal, Continue(d) PROVE CommandInv'
<1>1. /\ state' = [state EXCEPT ![d] = "ready"] /\ line' = [line EXCEPT ![d] = buffer[d]]
      /\ calm' = IF \E s \in Slot : xhr[s].kind = "flush" /\ xhr[s].d = d THEN calm \ {d} ELSE calm \cup {d}
      /\ UNCHANGED <<buffer, xhr>>
  BY DEF Continue
<1>2. \A e \in Terminal : e # d => state'[e] = state[e] /\ line'[e] = line[e] /\ (e \in calm' <=> e \in calm)
  BY <1>1 DEF TypeInv, PageType, KeyType
<1>3. line'[d] = buffer[d] /\ (d \in calm' => \A s \in Slot : ~(xhr[s].kind = "flush" /\ xhr[s].d = d))
  BY <1>1 DEF TypeInv, KeyType
<1>4. CalmOK'
  BY <1>1, <1>2, <1>3 DEF CommandInv, CalmOK
<1>5. CommandKept'
  BY <1>1, <1>2, <1>3 DEF CommandInv, CommandKept
<1> QED BY <1>4, <1>5 DEF CommandInv

\* A terminal that is ready and calm has no post, whose answer Flushed could be.
LEMMA FlushedCommand == ASSUME TypeInv, CommandInv, NEW s \in Slot, Flushed(s) PROVE CommandInv'
<1>1. xhr[s].kind = "flush" /\ xhr[s].d \in Terminal /\ FlushesKept
  BY FlushedEffect DEF FlushesKept
<1>2. \A e \in Terminal : e # xhr[s].d => buffer'[e] = buffer[e]
  BY <1>1 DEF Flushed, TypeInv, KeyType
<1>3. UNCHANGED <<state, line, calm>>
  BY DEF Flushed
<1>4. CalmOK'
  BY <1>1, <1>3 DEF CommandInv, CalmOK, FlushesKept
<1>5. CommandKept'
  BY <1>1, <1>2, <1>3 DEF CommandInv, CalmOK, CommandKept
<1> QED BY <1>4, <1>5 DEF CommandInv

LEMMA BackspaceKeys == ASSUME TypeInv, KeyInv, NEW d \in Terminal, Backspace(d) PROVE KeyInv'
<1>1. Shorter(buffer[d]) \in Seq(Key) /\ Inj(Shorter(buffer[d])) /\ Elems(Shorter(buffer[d])) \subseteq Elems(buffer[d])
  BY ShorterElems DEF TypeInv, KeyType, KeyInv, OnceOK
<1> QED BY <1>1, DropKeys DEF Backspace

LEMMA EnterKeys == ASSUME TypeInv, KeyInv, NEW d \in Terminal, Enter(d) PROVE KeyInv'
<1> DEFINE new == <<>>
<1>1. new \in Seq(Key) /\ Inj(new) /\ Elems(new) \subseteq Elems(buffer[d])
  BY DEF Inj, Elems
<1>2. state[d] = "ready" /\ buffer' = [buffer EXCEPT ![d] = new] /\ UNCHANGED <<state, pressed, input, posts>>
  BY DEF Enter
<1> HIDE DEF new
<1> QED BY <1>1, <1>2, DropKeys

-----------------------------------------------------------------------------
(***************************************************************************)
(* All of it.                                                              *)
(***************************************************************************)
Inv == TypeInv /\ KeyInv /\ CommandInv /\ PollInv

LEMMA InitInv == Init => Inv
<1> SUFFICES ASSUME Init PROVE Inv
  OBVIOUS
<1>1. \A d \in Terminal : buffer[d] = <<>> /\ Elems(buffer[d]) = {} /\ Inj(buffer[d]) /\ line[d] = <<>>
  BY DEF Init, Elems, Inj
<1>2. XhrType
  BY NewType DEF Init, XhrType
<1>3. PageType
  BY TerminalAssumption DEF Init, PageType, Pid
<1>4. KeyType
  BY TerminalAssumption DEF Init, KeyType
<1>5. TextType
  <2>1. [state |-> "none", wrote |-> 0, out |-> <<>>, heir |-> None] \in Process
    <3>1. <<>> \in Seq(Byte) /\ None \in Pid /\ 0 \in 0..MaxOut
      BY TerminalAssumption DEF Pid
    <3> QED BY <3>1 DEF Process
  <2> QED BY <2>1 DEF Init, TextType
<1>6. KeyInv
  BY <1>1, TerminalAssumption DEF Init, KeyInv, OnceOK, PastOK, ReadyOK, PostsOK
<1>7. \A s \in Slot : xhr[s].kind = "idle"
  BY NewType DEF Init
<1>8. CommandInv
  BY <1>1, <1>7 DEF CommandInv, CalmOK, CommandKept
<1>9. PidOK /\ SeenOK /\ TextRight
  BY DEF Init, PidOK, SeenOK, TextRight
<1>10. GoneOK /\ PollsGoOn
  BY DEF Init, GoneOK, PollsGoOn
<1>11. WaitsOK
  <2> SUFFICES ASSUME NEW d \in Terminal, NEW k \in Pids PROVE ~(waits[d, k] > 0)
    BY DEF WaitsOK
  <2> DEFINE w == waits[d, k]
  <2>1. w = 0
    BY DEF Init
  <2> HIDE DEF w
  <2>2. ~(w > 0)
    BY <2>1
  <2> QED BY <2>2 DEF w
<1>12. PollsOK /\ FreshOK
  BY <1>7 DEF PollsOK, PollOK, FreshOK, Fresh
<1>13. OutOK
  BY DEF Init, OutOK
<1> QED BY <1>2, <1>3, <1>4, <1>5, <1>6, <1>8, <1>9, <1>10, <1>11, <1>12, <1>13 DEF Inv, TypeInv, PollInv

\* The steps that neither type nor post.
LEMMA FrameInv ==
  ASSUME Inv, TypeInv', PollInv', UNCHANGED <<buffer, keys>>, FlushesKept,
         \A d \in Terminal : state'[d] = "ready" => state[d] = "ready"
  PROVE  Inv'
<1>1. KeyInv'
  BY KeyFrame DEF Inv, keys
<1>2. CommandInv'
  BY CommandFrame DEF Inv, keys
<1> QED BY <1>1, <1>2 DEF Inv

\* A handler that sends at most a poll.
LEMMA SendsFlushes ==
  ASSUME NEW s \in Slot, NEW r, NEW d \in Terminal, NEW k \in Pids, Sends(s, r, d, k), r.kind # "flush"
  PROVE  FlushesKept
<1>1. New("poll", d, k).kind = "poll"
  BY NewType
<1> QED BY <1>1 DEF Sends, FlushesKept

LEMMA KeyboardStep == ASSUME Inv, NEW d \in Terminal, Keyboard(d) PROVE Inv'
<1>1. PollInv'
  BY KeyboardInv DEF Inv
<1>2. CASE Type(d)
  BY <1>1, <1>2, TypeType, TypeKeys, TypeCommand DEF Inv
<1>3. CASE Backspace(d)
  BY <1>1, <1>3, BackspaceType, BackspaceKeys, BackspaceCommand DEF Inv
<1>4. CASE Enter(d)
  BY <1>1, <1>4, EnterType, EnterKeys, EnterCommand DEF Inv
<1>5. CASE SendInput(d)
  BY <1>1, <1>5, SendInputType, SendKeys, SendInputCommand DEF Inv
<1>6. CASE Continue(d)
  BY <1>1, <1>6, ContinueType, ContinueKeys, ContinueCommand DEF Inv
<1> QED BY <1>2, <1>3, <1>4, <1>5, <1>6 DEF Keyboard

LEMMA ServerStep ==
  ASSUME Inv, NEW s \in Slot, ServeCreate(s) \/ ServePoll(s) \/ ServeFlush(s) \/ Fail(s) PROVE Inv'
<1>1. UNCHANGED <<state, buffer, keys>>
  BY DEF ServeCreate, ServePoll, ServeFlush, Fail, page
<1>2. CASE ServeCreate(s)
  <2>1. FlushesKept
    <3>0. XhrType /\ xhr[s].kind = "create"
      BY <1>2 DEF ServeCreate, Inv, TypeInv
    <3>1. CASE Refuse(s)
      BY <3>0, <3>1, Refused DEF FlushesKept
    <3>2. ASSUME NEW k \in Pids, Given(s, k)
          PROVE  FlushesKept
      <4>1. xhr'[s].kind = "create" /\ \A u \in Slot : u # s => xhr'[u] = xhr[u]
        BY <3>0, <3>2, CreatedEffect DEF Fresh
      <4> QED BY <4>1 DEF FlushesKept
    <3> QED BY ZenonT(40), <1>2, <3>1, <3>2 DEF ServeCreate, Given
  <2> QED BY SMTT(30), <1>1, <1>2, <2>1, ServeCreateType, ServeCreateInv, FrameInv DEF Inv
<1>3. CASE ServePoll(s)
  <2>1. FlushesKept
    BY <1>3, ServePollEffect DEF FlushesKept, Inv, Answered
  <2> QED BY <1>1, <1>3, <2>1, ServePollType, ServePollInv, FrameInv DEF Inv
<1>4. CASE ServeFlush(s)
  <2>1. FlushesKept
    BY <1>4, FlushEffect DEF FlushesKept, Inv, TypeInv
  <2> QED BY <1>1, <1>4, <2>1, ServeFlushType, ServeFlushInv, FrameInv DEF Inv
<1>5. CASE Fail(s)
  <2>1. xhr'[s].kind = "idle" /\ \A u \in Slot : u # s => xhr'[u] = xhr[u]
    BY <1>5, NewType DEF Fail, Inv, TypeInv, XhrType
  <2>2. FlushesKept
    BY <2>1 DEF FlushesKept
  <2> QED BY <1>1, <1>5, <2>2, FailType, FailInv, FrameInv DEF Inv
<1> QED BY SMTT(30), <1>2, <1>3, <1>4, <1>5

LEMMA AnswerStep ==
  ASSUME Inv, NEW s \in Slot, Created(s) \/ Loading(s) \/ Done(s) \/ Flushed(s) PROVE Inv'
<1>1. TypeInv /\ Idle.kind # "flush"
  BY NewType DEF Inv
<1>2. CASE Created(s)
  <2>1. FlushesKept
    <3>1. CASE xhr' = [xhr EXCEPT ![s] = Idle]
      BY <1>1, <3>1 DEF TypeInv, XhrType, FlushesKept
    <3> QED BY <1>1, <1>2, <3>1, CreatedPage, SendsFlushes
  <2>2. \A d \in Terminal : state'[d] = "ready" => state[d] = "ready"
    BY <1>1, <1>2, CreatedPage DEF TypeInv, PageType
  <2>3. UNCHANGED <<buffer, keys>>
    BY <1>1, <1>2, CreatedPage
  <2> QED BY <1>2, <2>1, <2>2, <2>3, CreatedType, CreatedInv, FrameInv DEF Inv
<1>3. CASE Loading(s)
  <2>1. FlushesKept /\ UNCHANGED <<state, buffer, keys>>
    BY <1>1, <1>3, LoadingPage, LoadedType, SendsFlushes
  <2> QED BY <1>3, <2>1, LoadingType, LoadingInv, FrameInv DEF Inv
<1>4. CASE Done(s)
  <2>1. FlushesKept /\ UNCHANGED <<buffer, keys>>
    BY <1>1, <1>4, DonePage, SendsFlushes
  <2>2. \A d \in Terminal : state'[d] = "ready" => state[d] = "ready"
    BY <1>1, <1>4, DonePage DEF TypeInv, PageType
  <2> QED BY <1>4, <2>1, <2>2, DoneType, DoneInv, FrameInv DEF Inv, PollInv
<1>5. CASE Flushed(s)
  BY <1>5, FlushedType, FlushedKeys, FlushedCommand, FlushedInv DEF Inv
<1> QED BY <1>2, <1>3, <1>4, <1>5

LEMMA TimerStep == ASSUME Inv, NEW d \in Terminal, NEW k \in Pids, Timer(d, k) PROVE Inv'
<1>1. FlushesKept
  <2> DEFINE r == New("poll", d, k)
  <2>1. r \in Requests /\ RequestOK(r) /\ r.kind # "flush"
    BY NewType
  <2>2. XhrType /\ \E s \in Free(xhr) : xhr' = [xhr EXCEPT ![s] = r]
    BY DEF Timer, Inv, TypeInv
  <2> HIDE DEF r
  <2>3. \A u \in Slot : xhr'[u] = xhr[u] \/ xhr'[u] = r
    BY <2>1, <2>2, NewRequest
  <2> QED BY <2>1, <2>3 DEF FlushesKept
<1> QED BY <1>1, TimerType, TimerInv, FrameInv DEF Timer, Inv

LEMMA RunStep == ASSUME Inv, NEW k \in Pids, Run(k) \/ Reuse(k) PROVE Inv'
<1>1. FlushesKept /\ UNCHANGED <<state, buffer, keys>>
  BY DEF Run, Reuse, page, FlushesKept
<1>2. TypeInv' /\ PollInv'
  BY RunType, RunInv, ReuseType, ReuseInv DEF Inv
<1> QED BY <1>1, <1>2, FrameInv DEF Inv

LEMMA NextInv == Inv /\ [Next]_vars => Inv'
<1> SUFFICES ASSUME Inv, [Next]_vars PROVE Inv'
  OBVIOUS
<1>1. ASSUME NEW d \in Terminal, Keyboard(d) PROVE Inv'
  BY <1>1, KeyboardStep
<1>2. ASSUME NEW d \in Terminal, NEW k \in Pids, Timer(d, k) PROVE Inv'
  BY <1>2, TimerStep
<1>3. ASSUME NEW k \in Pids, Run(k) \/ Reuse(k) PROVE Inv'
  BY <1>3, RunStep
<1>4. ASSUME NEW s \in Slot, ServeCreate(s) \/ ServePoll(s) \/ ServeFlush(s) \/ Fail(s) PROVE Inv'
  BY <1>4, ServerStep
<1>5. ASSUME NEW s \in Slot, Created(s) \/ Loading(s) \/ Done(s) \/ Flushed(s) PROVE Inv'
  BY <1>5, AnswerStep
<1>6. CASE UNCHANGED vars
  <2>1. UNCHANGED <<state, pid, buffer, waits, xhr, proc, keys, texts, history>>
    BY <1>6 DEF vars, page
  <2>2. TypeInv'
    BY <2>1 DEF keys, texts, history, Inv, TypeInv, XhrType, PageType, KeyType, TextType
  <2>3. PollInv'
    BY <2>1, QuietInv DEF Inv
  <2> QED BY <2>1, <2>2, <2>3, FrameInv DEF FlushesKept
<1> QED BY <1>1, <1>2, <1>3, <1>4, <1>5, <1>6 DEF Next

LEMMA InvAlways == Spec => []Inv
<1> QED BY InitInv, NextInv, PTL DEF Spec

(***************************************************************************)
(* The state of the page has its type; what is under way has a terminal    *)
(* and, if it is a poll or a post, a Pid.                                  *)
(***************************************************************************)
THEOREM TypeCorrect == Spec => []TypeOK
<1>1. Inv => TypeOK
  <2> SUFFICES ASSUME Inv PROVE TypeOK
    OBVIOUS
  <2>1. \A n \in Key : posts[n] \in 0..2
    BY DEF Inv, TypeInv, KeyType, KeyInv, PostsOK
  <2>2. posts \in [Key -> 0..2]
    BY <2>1 DEF Inv, TypeInv, KeyType
  <2> QED BY <2>2 DEF Inv, TypeInv, XhrType, PageType, KeyType, TextType, RequestOK, TypeOK
<1> QED BY <1>1, InvAlways, PTL

(***************************************************************************)
(* A terminal that is running goes on polling (desktop.html:192-233).      *)
(***************************************************************************)
THEOREM PollsGoOnAlways == Spec => []PollsGoOn
<1>1. Inv => PollsGoOn
  BY DEF Inv, PollInv
<1> QED BY <1>1, InvAlways, PTL

(***************************************************************************)
(* The output a process's polls read appears in the terminal that started  *)
(* it and nowhere else, that terminal is shown no other process's output   *)
(* before its own is destroyed, and what was received does appear          *)
(* (desktop.html:207-226, libemunet.c:366-398).                            *)
(***************************************************************************)
THEOREM TextRightAlways == Spec => []TextRight
<1>1. Inv => TextRight
  BY DEF Inv, PollInv
<1> QED BY <1>1, InvAlways, PTL

(***************************************************************************)
(* A key for a process is posted twice, or once while it is in the buffer  *)
(* (desktop.html:165-168, 266-291).                                        *)
(***************************************************************************)
THEOREM KeysTwiceAlways == Spec => []KeysTwice
<1>1. Inv => KeysTwice
  BY KeysTwiceHolds DEF Inv
<1> QED BY <1>1, InvAlways, PTL

(***************************************************************************)
(* The command is what was typed, in a terminal without a post under way   *)
(* when it became ready (desktop.html:151-164, 275-291).                   *)
(***************************************************************************)
THEOREM CommandKeptAlways == Spec => []CommandKept
<1>1. Inv => CommandKept
  BY DEF Inv, CommandInv
<1> QED BY <1>1, InvAlways, PTL
=============================================================================
